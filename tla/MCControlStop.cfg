CONSTANTS
    r1 = r1
    r2 = r2
    data = data
    time = time
    SignalIds = {data, time}
    DataSignals = {data}
    Requests = {r1}
    IdLists <- MCIdLists
    HttpVersions = {10}
SPECIFICATION ControlSpec
PROPERTY StopEndsAccepting
CHECK_DEADLOCK FALSE

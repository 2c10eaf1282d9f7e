CONSTANTS
    r1 = r1
    r2 = r2
    data = data
    time = time
    SignalIds = {data, time}
    DataSignals = {data}
    Requests = {r1, r2}
    IdLists <- MCIdLists
    HttpVersions = {10}
SPECIFICATION ControlSpec
INVARIANTS
    ControlTypeOK
    AnnouncementsFollow
    ResultOnce
    OkMeansAnswered
    HandledOnce
PROPERTIES
    ResultComes
    SessionsEnd
CHECK_DEADLOCK FALSE

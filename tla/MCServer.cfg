CONSTANTS
    None = None
    Sessions <- MCSessions
    Endpoints = {e1, e2}
    NumberMask = 3
    CounterLimit = 8
SPECIFICATION ServerSpec
INVARIANTS
    ServerTypeOK
    RegistryExact
    NumbersDistinct
PROPERTY StreamSessionsEnd
CHECK_DEADLOCK FALSE

CONSTANTS
    A = A
    B = B
    TableIds = {A, B}
    NoTableId = NoTableId
    Absent = Absent
    Null = Null
    Wrap = 4
    SignalNumbers = {1, 2, 3}
    TimeSignals = {1}
    MayMove = {}
    TableOf <- MCTableOf
    SignalMetas <- MCSignalMetas
    Payloads <- MCPayloads
SPECIFICATION Spec
INVARIANTS
    ContainerTypeOK
    NoDanglingMember
    EveryDescribedSignalListed
    NeverCrashes
PROPERTY TablesIndependent
CHECK_DEADLOCK FALSE

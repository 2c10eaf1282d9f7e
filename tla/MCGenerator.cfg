CONSTANTS
    A = A
    B = B
    TableIds = {A, B}
    NoTableId = NoTableId
    Absent = Absent
    Null = Null
    Wrap = 4
    SignalNumbers = {1, 2, 3, 4, 5}
    Kind <- MCKind
    TableOf <- MCTableOf
    Setups = {{1, 2, 3, 4, 5}}
    Starts = {0}
    Rates = {1, 2}
    Counts = {1}
    Indexes = {0}
    ValueBytes = 4
    Discipline = {}
    Capacity = 3
    Orders <- MCOrders
    Period <- MCPeriod
    ProcessPeriod = 3
    Executions = {0, 4, 7}
    StartTicks = 3
    Granule = 1
    Horizon = 9
SPECIFICATION GeneratorSpec
INVARIANTS
    ClientCounts
    StampsFollowClock
    ConsumerInStep
    CleanEnd
PROPERTY GeneratorEnds
CHECK_DEADLOCK FALSE

CONSTANTS
    A = A
    B = B
    TableIds = {A, B}
    NoTableId = NoTableId
    Absent = Absent
    Null = Null
    Wrap = 4
    SignalNumbers = {1, 2, 3, 4, 5}
    Kind <- MCKind
    TableOf <- MCTableOf
    Setups = {{1, 2}, {1, 3}, {4, 5}}
    Starts = {1, 2}
    Rates = {1, 2}
    Counts = {1, 2}
    Indexes = {0, 3}
    ValueBytes = 4
    Discipline = {"oneThreadAtATime", "subscribedOnce", "timeSignalFirst",
                  "startAfterSubscribe", "startBeforeData", "startOfIndexZero", "rateBeforeSubscribe"}
    Capacity = 2
SPECIFICATION StreamSpec
INVARIANTS
    StreamTypeOK
    TimeStampsTrue
    ConstantsDatable
    EveryBlockDelivered
    IndexesAgree
    SubscriptionsFollow
PROPERTY SubscribedGetsDescribed
CHECK_DEADLOCK FALSE

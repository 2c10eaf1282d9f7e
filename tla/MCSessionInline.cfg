CONSTANTS
    StartCalls = {"start", "startWithSyncInit"}
    StreamInits <- MCStreamInits
    StopCalls = {"callback"}
    InlineSets = {{"asyncClose"}}
    StopOverlapsStart = FALSE
    MaxStops = 1
    Nothing = Nothing
SPECIFICATION SessionSpec
INVARIANT StreamOutlivesUse
CHECK_DEADLOCK FALSE

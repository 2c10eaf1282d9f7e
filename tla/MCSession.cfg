CONSTANTS
    StartCalls = {"start", "startWithSyncInit"}
    StreamInits <- MCStreamInits
    StopCalls = {"thread", "callback"}
    InlineSets <- MCInlineSets
    StopOverlapsStart = FALSE
    MaxStops = 2
    Nothing = Nothing
SPECIFICATION SessionSpec
INVARIANTS
    SessionTypeOK
    NeverUsesDestroyedStream
    NeverSilent
PROPERTY CloseCompletesSession
CHECK_DEADLOCK FALSE

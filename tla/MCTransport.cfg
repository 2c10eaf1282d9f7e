CONSTANTS
    Writers = {"control", "sender"}
    NumberRange = 4
    SizeRange = 4
    TypeRange = 4
    LengthRange = 16
    Sizes = {1, 3, 4, 5}
    Packets <- MCPackets
    MaxPackets = 3
    Capacity = 3
SPECIFICATION TransportSpec
INVARIANTS
    TransportTypeOK
    DeliveredAsSent
PROPERTIES
    ImplementsFifo
    EverythingDelivered
    BreakEndsSession
CHECK_DEADLOCK FALSE

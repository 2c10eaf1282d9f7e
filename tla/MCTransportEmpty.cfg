CONSTANTS
    Writers = {"control", "sender"}
    NumberRange = 4
    SizeRange = 4
    TypeRange = 4
    LengthRange = 16
    Sizes = {0, 1}
    Packets <- MCPackets
    MaxPackets = 2
    Capacity = 3
SPECIFICATION TransportSpec
PROPERTY EverythingDelivered
CHECK_DEADLOCK FALSE

CONSTANTS
    Units <- MCUnits
    Ranges <- MCRanges
    PostScalings <- MCPostScalings
    RelatedSignals <- MCRelatedSignals
    Names = {"value", "n"}
    Interpretations = {"null", "i"}
    Epochs = {"1970", "2000"}
    TicksPerSecond = {0, 1, 2}
    StartValues = {"null", "7"}
    NoUnitId = "none"
    Lowest = "lowest"
    Highest = "max"
    NullJson = "null"
    Counts = {2}
    Digits = {1, 54}
    MaxCalls = 2
    Capacity = 2
SPECIFICATION DescriptionSpec
INVARIANTS
    
    SampleTypesAgree
    ValuesConverted
CHECK_DEADLOCK FALSE

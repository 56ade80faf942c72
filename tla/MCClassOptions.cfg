SPECIFICATION Spec
CONSTANTS
    RangeLists <- MCRangeLists
    BadRange = "bad"
    ExtraLabels <- MCExtraLabels
    UID = "u1"
    MaxEdits = 4
    MaxCerts = 2
INVARIANTS
    
    CreatedOnce
PROPERTIES
    AllowListKept
CHECK_DEADLOCK FALSE

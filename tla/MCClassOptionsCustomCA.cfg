SPECIFICATION Spec
CONSTANTS
    RangeLists <- MCRangeLists
    BadRange = "bad"
    ExtraLabels <- MCExtraLabels
    UID = "u1"
    MaxEdits = 2
    MaxCerts = 2
INVARIANTS
    CustomCAEnablesTLS
CHECK_DEADLOCK FALSE

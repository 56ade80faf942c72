SPECIFICATION Spec
CONSTANTS
    LastId = 5
    Fingerprints = {f1, f2}
    Undescribed = Undescribed
    PageSize = 2
    MaxPages = 2
    MaxChanges = 3
SYMMETRY Symmetry
INVARIANTS
    ListedOnce
    KeptOrDoomed
    GivesUpOnlyBeyondLimit
CHECK_DEADLOCK FALSE

SPECIFICATION Spec
CONSTANTS
    Nodes = {"a", "b", "c"}
    AddressLists <- MCAddressLists
    Limit = 2
    MaxTime = 2
    MaxChanges = 2
INVARIANTS
    TargetsSettled
PROPERTIES
    TargetsFollow
    NoChurn
CHECK_DEADLOCK FALSE

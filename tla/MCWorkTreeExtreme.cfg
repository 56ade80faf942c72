SPECIFICATION Spec
CONSTANTS
    Ingresses = {"a", "b"}
    Rank <- MCRank
    Specs <- ExtremeSpecs
    Services <- MCServices
    Fingerprints = {"f1"}
    BadSecret = "bad"
    MaxPort = 2
    MaxInt = 3
    LimitTargetPools = 2
INVARIANTS
    OrderedByPrecedence
CHECK_DEADLOCK FALSE

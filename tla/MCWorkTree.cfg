SPECIFICATION Spec
CONSTANTS
    Ingresses = {"a", "b", "c"}
    Rank <- MCRank
    Specs <- MCSpecs
    Services <- MCServices
    Fingerprints = {"f1"}
    BadSecret = "bad"
    MaxPort = 2
    MaxInt = 3
    LimitTargetPools = 2
INVARIANTS
    TypeOK
    OrderedByPrecedence
    LostOnlyToPrecedence
    LossesReported
    RulesMatchPools
    HTTPSOnlyHidden
CHECK_DEADLOCK FALSE

SPECIFICATION PayloadSpec
CONSTANTS
    Ingresses = {"a", "b"}
    Rank <- MCRank
    Specs <- MCSpecs
    Services <- MCServices
    Fingerprints = {"f1", "f2"}
    BadSecret = "bad"
    MaxPort = 3
    MaxInt = 3
    LimitTargetPools = 3
    CertIDs <- MCCertIDs
    PathLen <- MCPathLen
    DummyPort = 1
    MaxEdits = 1
INVARIANTS
    StoredMatchesTree
    OnlyAcceptableSent
    CertificatesStayOnTheirPorts
    MostSpecificFirst
PROPERTIES
    QuietWhenUnchanged
CHECK_DEADLOCK FALSE

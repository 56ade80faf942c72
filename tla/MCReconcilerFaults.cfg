SPECIFICATION Spec
CONSTANTS
    Ingresses = {i1}
    Fingerprints = {f1}
    NoCert = NoCert
    MaxUid = 2
    MaxCerts = 2
    MaxEdits = 5
    MaxFaults = 1
    SlowFingerprint = TRUE
    LogEdits = FALSE
    StaticIPs = {FALSE}
SYMMETRY Symmetry
INVARIANTS
    TypeOK
    NoDanglingCert
    NothingOrphaned
    IInv
PROPERTIES
    ALBSurvivesUnlessDeleted
    ImplementsLifecycle
CHECK_DEADLOCK FALSE

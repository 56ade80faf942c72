SPECIFICATION FairSpec
CONSTANTS
    Ingresses = {i1}
    Fingerprints = {f1, f2}
    NoCert = NoCert
    MaxUid = 1
    MaxCerts = 4
    MaxEdits = 4
    MaxFaults = 1
    SlowFingerprint = FALSE
    LogEdits = TRUE
    StaticIPs = {FALSE}
INVARIANTS
    NoDuplicateCert
    IInv
PROPERTIES
    LogsKept
    Converges
    DeletionCompletes
CHECK_DEADLOCK FALSE

SPECIFICATION HistorySpec
CONSTANTS
    Ingresses = {i1, i2}
    Fingerprints = {f1}
    NoCert = NoCert
    MaxUid = 2
    MaxCerts = 2
    MaxEdits = 4
    MaxFaults = 1
    SlowFingerprint = TRUE
    LogEdits = FALSE
    StaticIPs = {FALSE}
SYMMETRY Symmetry
INVARIANTS
    NoDanglingCert
    NothingOrphaned
    DeadAddressOnlyOverlooked
CHECK_DEADLOCK FALSE

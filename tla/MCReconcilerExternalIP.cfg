SPECIFICATION Spec
CONSTANTS
    Ingresses = {i1}
    Fingerprints = {f1}
    NoCert = NoCert
    MaxUid = 1
    MaxCerts = 2
    MaxEdits = 3
    MaxFaults = 0
    SlowFingerprint = FALSE
    LogEdits = TRUE
    StaticIPs = {FALSE, TRUE}
INVARIANTS
    ExternalIPPromoted
CHECK_DEADLOCK FALSE

SPECIFICATION SpecBoth
CONSTANTS
    Ingresses = {i1}
    Fingerprints = {f1}
    NoCert = NoCert
    MaxUid = 1
    MaxCerts = 6
    MaxEdits = 2
    MaxFaults = 1
    SlowFingerprint = FALSE
    LogEdits = TRUE
    StaticIPs = {FALSE}
PROPERTIES
    Converges
    LogsKept
    LiveALBSurvives
    WritesStop
CHECK_DEADLOCK FALSE

SPECIFICATION MCSpec
CONSTANTS
    Images = {i1}
    MaxRuns = 2
    MaxCert = 2
    Budget = 1
CHECK_DEADLOCK FALSE
INVARIANTS
    UninterruptedAlone
    UninterruptedComplete
PROPERTIES
    ServesRenewedCertificate

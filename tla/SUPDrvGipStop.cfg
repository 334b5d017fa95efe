\* As SUPDrvGip, with one session.
CONSTANTS
    Cpu <- Cpus
    Sessions = 1
    Ids = 8
SPECIFICATION Spec
CHECK_DEADLOCK FALSE
INVARIANT
    OddWhileUpdating

\* Two CPUs that come and go, two sessions; of the transaction ids the parity is
\* kept.  The driver may be unloaded.
CONSTANTS
    Cpu <- Cpus
    Sessions = 2
    Ids = 2
SPECIFICATION Spec
CHECK_DEADLOCK FALSE
INVARIANTS
    CallbackOnOwnCpu
    
PROPERTIES
    IdsKeepFitting
    ReadersAreSafe
    StopSettles
    CallsReturn

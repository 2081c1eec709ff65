SPECIFICATION Spec
CONSTANTS
    Timers = {auto}
    AutoReload = {auto}
    Deletable = {}
    Periods = {3}
    TickMod = 6
    configTIMER_QUEUE_LENGTH = 3
    Preempts = TRUE
    MaxLag = 1
    NULL = NULL
INVARIANT NoEarlyExpiry

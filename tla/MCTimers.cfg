SPECIFICATION ServicesSpec
CONSTANTS
    Timers = {once, auto}
    AutoReload = {auto}
    Deletable = {once}
    Periods = {1, 2}
    TickMod = 5
    configTIMER_QUEUE_LENGTH = 3
    Preempts = FALSE
    MaxLag = 1
    NULL = NULL
    Periodic = {"arp_timer"}
    Interval <- MCInterval
    portTICK_RATE_MS = 2
    NumSysTimeout = 3
    MboxSize = 1
    MaxLost = 1
INVARIANTS NoEarlyExpiry TimersKept TimeoutsKept
PROPERTIES TimersExpire TimersRun

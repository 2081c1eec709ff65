SPECIFICATION Spec
CONSTANTS
    Tasks = {t1, t2, t3, idle}
    Idle = idle
    configMAX_PRIORITIES = 3
    TickMod = 4
    EventLists = {"xTasksWaitingToSend", "xTasksWaitingToReceive"}
    uxLength = 1
    Messages = {m}
    QueueIsMutex = TRUE
    Operations = {"receive"}
    ISROperations = {}
    BlockTimes <- MutexBlockTimes
    Waits = {1, 2, 3}
    Impatient = t1
    Delays = {1}
    SettablePriorities = {}
    MaxMissedTicks = 0
    MaxLockCount = 1
    MaxRecursion = 2
    NULL = NULL
VIEW View
SYMMETRY MutexSymmetry
INVARIANTS NoPriorityInversion HoldersTrue
PROPERTIES NoEarlyTimeout

SPECIFICATION Spec
CONSTANTS
    Tasks = {t1, t2, idle}
    Idle = idle
    configMAX_PRIORITIES = 3
    TickMod = 3
    EventLists = {"xTasksWaitingToSend", "xTasksWaitingToReceive"}
    uxLength = 2
    Messages = {m}
    QueueIsMutex = FALSE
    Operations = {"sendToBack", "receive", "peek"}
    ISROperations = {"sendToFront", "receive"}
    BlockTimes <- MCBlockTimes
    Waits = {0, 1, 2}
    Delays = {}
    SettablePriorities = {1, 2}
    MaxMissedTicks = 1
    MaxLockCount = 1
    MaxRecursion = 1
    NULL = NULL
VIEW View
SYMMETRY Symmetry
INVARIANTS NoLostWakeup WaitersBlockedOthersRun

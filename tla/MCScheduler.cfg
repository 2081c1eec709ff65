SPECIFICATION Spec
CONSTANTS
    Tasks = {t1, t2, idle}
    Idle = idle
    configMAX_PRIORITIES = 3
    TickMod = 4
    EventLists = {}
    Delays = {0, 1, 3}
    MaxMissedTicks = 2
    MaxSuspendNesting = 2
VIEW View
SYMMETRY Symmetry
INVARIANTS ListsTrue HighestPriorityRuns ResumeAllSettlesEverything
PROPERTIES TicksDoTheirWork

SPECIFICATION StructuresSpec
CONSTANTS
    Items = {i1, i2, i3}
    ReadyLists = {ready}
    SortedLists = {sorted}
    MaxDelay = 2
    NULL = NULL
    uxLength = 4
    Messages = {m1, m2}
INVARIANTS RingsIntact EqualShares
PROPERTIES InsertEnds ImplementsListAbs ImplementsDeque
CHECK_DEADLOCK FALSE

SPECIFICATION NetconnSpec
CONSTANTS
    Threads = {t1, t2}
    Conns = {c1, c2}
    RECVMBOX_SIZE = 1
    ACCEPTMBOX_SIZE = 1
    MaxLen = 2
    Shutdowns = {"RDWR"}
    FinWhenFull = FALSE
    NULL = NULL
INVARIANTS OneAnswer  WriteAllOrError
PROPERTIES CallsReturn
CHECK_DEADLOCK FALSE

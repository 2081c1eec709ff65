SPECIFICATION ReassSpec
CONSTANTS
    Datagrams = {"d1", "d2"}
    Length = 4
    NumReassData = 2
    IP_REASS_MAX_PBUFS = 4
    IP_REASS_MAXAGE = 1
INVARIANT DeliveredWhole
CHECK_DEADLOCK FALSE

SPECIFICATION Spec
CONSTANTS
    Hosts = {"a", "b", "c"}
    ARP_TABLE_SIZE = 2
    ARP_QUEUE_SIZE = 2
    ARP_MAXAGE = 4
    ARP_MAXPENDING = 2
    MaxPackets = 3
    Datagrams = {1, 2, 3}
    Length = 4
    NumReassData = 2
    IP_REASS_MAX_PBUFS = 4
    IP_REASS_MAXAGE = 1
    Addresses = {"a"}
    T0 = 12
    T1 = 2
    T2 = 4
    T2Given = TRUE
    ServerIdGiven = TRUE
    StaleTimers = FALSE
    DHCP_COARSE_TIMER_SECS = 2
    DHCP_DOES_ARP_CHECK = TRUE
    RequestTries = 1
    RebindTries = 1
    REBOOT_TRIES = 2
    TriesMod = 4
    TimerMod = 4
    MaxNet = 1
INVARIANTS ArpTableSound RefsExact SentInOrderToTheirHost ReassSound  RequestTimed
PROPERTIES NothingWaitsForEver
CHECK_DEADLOCK FALSE

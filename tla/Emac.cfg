SPECIFICATION EmacSpec
CONSTANTS
    Pool = {p1, p2, p3}
    Header = header
    Data = data
    Ram = {header, data}
    NoPbuf = NoPbuf
    FreeOoseq = FreeOoseq
    N_RX = 2
    N_TX = 2
    PQ_SIZE = 2
    MBOX_SIZE = 1
    ErrorWhenShort = FALSE
INVARIANTS BuffersTracked NoPacketStranded ReclaimPending
PROPERTIES RingRecovers

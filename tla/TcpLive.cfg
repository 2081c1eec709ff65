SPECIFICATION LiveSpec
CONSTANTS
    Client = Client
    Server = Server
    SeqSize = 32
    WndSize = 8
    TCP_MSS = 2
    TCP_WND = 2
    DUPACKS = 1
    IssClient = 5
    IssServer = 20
    ClientBytes = 3
    ServerBytes = 0
    WriteLens = {1, 2}
    ClientCloses = {"shutdown"}
    ServerCloses = {"close"}
    CloseWithUnsent = FALSE
    MaxFaults = 2
    MaxFaultsClosing = 1
INVARIANTS StreamIntact NothingStuck DoneMeansDelivered
PROPERTIES WindowKept EventuallyDelivered
CHECK_DEADLOCK FALSE

SPECIFICATION TcpSpec
CONSTANTS
    Client = Client
    Server = Server
    SeqSize = 32
    WndSize = 8
    TCP_MSS = 1
    TCP_WND = 4
    DUPACKS = 1
    IssClient = 27
    IssServer = 20
    ClientBytes = 4
    ServerBytes = 0
    WriteLens = {1}
    ClientCloses = {}
    ServerCloses = {}
    CloseWithUnsent = FALSE
    MaxFaults = 1
    MaxFaultsClosing = 1
INVARIANT StreamIntact
CHECK_DEADLOCK FALSE

SPECIFICATION PartsSpec
CONSTANTS
    CpuCount = 4
    MaxNest = 2
    Thread = {"t1", "t2"}
    Reader = "t1"
    NoThread = "none"
    Byte = {"b1", "b2"}
    Received = {"b1"}
    NoByte = "none"
    Size = 3
    RingSize = 12
    Origin = 7
    CountEmpty = 2
    CountExpected = 9
    FrameCount = 3
    ErrorLimit = 2
    Server = {"s1", "s2"}
    Router = "r"
    Nothing = "none"
    GatewayOf <- MCGatewayOf
    CacheSize = 2
    RetrySeconds = 2
    LeaseSeconds = 3
    MaxTrouble = 2
    Heap = {1, 2}
    Units = 5
    Alternate <- MCAlternate
    NoHeap = 0
INVARIANTS RingsSound HeapSound RingSound GatewayRight FormatsRight FloatsClose LibraryRight
PROPERTIES LockImplemented OutputQueue BytesGoOut NotThrownAway FramesFound GatewayIsFound
CHECK_DEADLOCK FALSE

SPECIFICATION KernelSpec
CONSTANTS
    Thread = {idle, t1, t2, t3}
    Idle = idle
    NoThread = NoThread
    Semaphore = {s1}
    NoSemaphore = NoSemaphore
    InitialCount <- MCInitialCount
    Priority = {0, 1}
    Ticks = {1, 2}
    TimeWrap = 5
    PriorityChanges = {"raise self", "lower self", "other"}
    MaxCount = 1
SYMMETRY Symmetry
INVARIANTS OnePlace SemAccounting ListsInOrder
PROPERTIES HighestKeepsRunning TimeoutExact SemaphoresImplemented

SPECIFICATION ThreadsSpec
CONSTANTS
    Thread = {idle, t1, t2, t3}
    Idle = idle
    NoThread = NoThread
    Semaphore = {release}
    NoSemaphore = NoSemaphore
    SemaphoreRelease = release
    InitialCount <- MCInitialCount
    Priority = {0, 1}
    Ticks = {}
    TimeWrap = 1
    PriorityChanges = {}
    MaxCount = 1
SYMMETRY Symmetry
INVARIANTS ExitedFreed

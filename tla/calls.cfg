SPECIFICATION CallsSpec
CONSTANTS
    Thread = {idle, t1, t2}
    Idle = idle
    NoThread = NoThread
    Semaphore = {release, queue}
    NoSemaphore = NoSemaphore
    SemaphoreRelease = release
    QueueSemaphore = queue
    InitialCount <- MCInitialCount
    Priority = {0, 1}
    Ticks = {1}
    TimeWrap = 3
    PriorityChanges = {}
    MaxCount = 2
    Message = {m1}
    NoMessage = NoMessage
INVARIANTS FreesExitedOnly
PROPERTIES CreateReturns RoundRobin StallEnds TimedWaitEnds

SPECIFICATION MutexQueueSpec
CONSTANTS
    Thread = {idle, t1, t2, t3}
    Idle = idle
    NoThread = NoThread
    Semaphore = {mutex, sleep, queue}
    NoSemaphore = NoSemaphore
    MutexSemaphore = mutex
    SemaphoreSleep = sleep
    QueueSemaphore = queue
    InitialCount <- MCInitialCount
    Priority = {0, 1}
    Ticks = {1}
    TimeWrap = 3
    PriorityChanges = {}
    MaxCount = 2
    MaxDepth = 2
    Capacity = 2
    Message = {m1, m2}
    NoMessage = NoMessage
SYMMETRY Symmetry
INVARIANTS MutexSound MessagesCounted
PROPERTIES LockImplemented QueueImplemented

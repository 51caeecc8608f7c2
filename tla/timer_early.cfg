SPECIFICATION TimerSpec
CONSTANTS
    Thread = {idle, timers, t1}
    Idle = idle
    TimerThread = timers
    TimerPriority = 1
    ClientPriority = {1}
    NoThread = NoThread
    Semaphore = {lock, sleep}
    NoSemaphore = NoSemaphore
    SemaphoreLock = lock
    SemaphoreTimer = sleep
    InitialCount <- MCInitialCount
    Timer = {x1}
    NoTimer = NoTimer
    StartTicks = {2}
    MaxLag = 2
    Priority = {0, 1}
    Ticks = {}
    TimeWrap = 9
    PriorityChanges = {}
    MaxCount = 4
PROPERTIES FiresWhenDue

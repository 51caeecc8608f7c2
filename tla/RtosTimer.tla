----------------------------- MODULE RtosTimer -----------------------------
(***************************************************************************)
(* The timers of the RTOS (kernel/rtos.c), over the kernel: a sorted list  *)
(* under SemaphoreLock, and a thread that sleeps until the first timer is  *)
(* due and starts it again or stops it.  The thread and the callers of     *)
(* OS_TimerStart read the clock and a timer's fields outside the lock.     *)
(***************************************************************************)
EXTENDS RtosKernel

CONSTANTS
    TimerThread,     \* the thread that runs OS_TimerThread
    TimerPriority,   \* its priority (250 in OS_TimerCreate)
    ClientPriority,  \* the priorities of the threads that use timers
    SemaphoreLock,
    SemaphoreTimer,
    Timer,
    NoTimer,
    StartTicks,      \* the ticks callers give OS_TimerStart
    MaxLag           \* bound: how many ticks anybody is late with a time it has read

ASSUME TimerAssumption ==
    /\ TimerThread \in Thread \ {Idle}
    /\ TimerPriority \in Priority
    /\ ClientPriority \subseteq Priority
    /\ SemaphoreLock \in Semaphore
    /\ InitialCount[SemaphoreLock] = 1
    /\ SemaphoreTimer \in Semaphore \ {SemaphoreLock}
    /\ InitialCount[SemaphoreTimer] = 0
    /\ NoTimer \notin Timer
    /\ StartTicks \subseteq Nat
    /\ MaxLag \in Nat

\* No timer runs for, and nobody is late by, half the range of the counter (248 days): a
\* time is told from one that is over by the sign of its difference to the clock.
ASSUME TimerTimeAssumption ==
    /\ 2 * (MaxLag + 1) < TimeWrap
    /\ \A n \in StartTicks : 2 * (n + MaxLag) < TimeWrap

VARIABLES
    timerHead,     \* TimerHead: the list of active timers
    active,        \* timer->active
    ticksTimeout,  \* timer->ticksTimeout
    ticksRestart,  \* timer->ticksRestart
    timeNow,       \* OS_TimerThread's timeNow
    ticks,         \* how long OS_TimerThread sleeps next
    pc,            \* where each thread is
    timer,         \* the timer each thread works on
    due,           \* OS_TimerStart: the time the timer is to end
    again          \* OS_TimerStart: its ticksRestart

listVars == <<timerHead, active, ticksTimeout, ticksRestart>>
clockVars == <<timeNow, ticks>>
argVars == <<timer, due, again>>
timerVars == <<listVars, clockVars, argVars, pc>>
vars == <<kernelVars, timerVars>>

TimerInit ==
    /\ KernelInit
    /\ timerHead = <<>>
    /\ active = [x \in Timer |-> FALSE]
    /\ ticksTimeout = [x \in Timer |-> 0]
    /\ ticksRestart = [x \in Timer |-> 0]
    /\ timeNow = 0
    /\ ticks = 0
    /\ pc = [t \in Thread |-> IF t = TimerThread THEN "begin" ELSE "user"]
    /\ timer = [t \in Thread |-> NoTimer]
    /\ due = [t \in Thread |-> 0]
    /\ again = [t \in Thread |-> 0]

Goto(self, from, to) ==
    /\ Running(self)
    /\ pc[self] = from
    /\ pc' = [pc EXCEPT ![self] = to]

\* OS_SemaphorePend(SemaphoreLock, OS_WAIT_FOREVER).
Lock(self, from, to) ==
    /\ Goto(self, from, to)
    /\ SemaphorePend(self, SemaphoreLock, FOREVER)
    /\ UNCHANGED <<listVars, clockVars, argVars>>

(***************************************************************************)
(* OS_TimerStart and OS_TimerStop, called by clients and, once a timer is  *)
(* due, by OS_TimerThread, which then goes on to "fire".                   *)
(***************************************************************************)
Return(self) == IF self = TimerThread THEN "fire" ELSE "user"

\* The arguments are dead once the timer is linked or stopped; OS_TimerThread still
\* needs the timer.
ArgsDead(self) ==
    /\ timer' = [timer EXCEPT ![self] = IF self = TimerThread THEN @ ELSE NoTimer]
    /\ due' = [due EXCEPT ![self] = 0]
    /\ again' = [again EXCEPT ![self] = 0]

\* OS_TimerStart adds the clock to its ticks ...
StartRead(self, from, x, startTicks, restart) ==
    /\ Goto(self, from, "startActive")
    /\ timer' = [timer EXCEPT ![self] = x]
    /\ due' = [due EXCEPT ![self] = (startTicks + threadTime) % TimeWrap]
    /\ again' = [again EXCEPT ![self] = restart]
    /\ UNCHANGED <<listVars, clockVars, kernelVars>>

\* ... looks whether the timer has to be stopped first
StartActive(self) ==
    /\ Goto(self, "startActive", IF active[timer[self]] THEN "startStop" ELSE "start")
    /\ UNCHANGED <<listVars, clockVars, argVars, kernelVars>>

\* The change OS_TimerStop makes under the lock.
Unlink(x) ==
    IF active[x]
    THEN /\ active' = [active EXCEPT ![x] = FALSE]
         /\ timerHead' = RemoveFirst(timerHead, x)
         /\ UNCHANGED <<ticksTimeout, ticksRestart>>
    ELSE UNCHANGED listVars

StartStop(self) ==
    /\ Goto(self, "startStopLocked", "start")
    /\ Unlink(timer[self])
    /\ SemaphorePost(SemaphoreLock)
    /\ UNCHANGED <<clockVars, argVars>>

\* Insert before the first timer that ends no earlier.
TimerInsert(x, time) ==
    LET k == SelectInSeq(timerHead, LAMBDA node : TickDiff(time, ticksTimeout[node]) <= 0)
    IN  IF k = 0 THEN Append(timerHead, x) ELSE InsertAt(timerHead, k, x)

Link(x, time, restart) ==
    /\ ticksTimeout' = [ticksTimeout EXCEPT ![x] = time]
    /\ ticksRestart' = [ticksRestart EXCEPT ![x] = restart]
    /\ active' = [active EXCEPT ![x] = TRUE]
    /\ timerHead' = TimerInsert(x, time)

\* Broken variant: the timer is not looked at again under the lock.
StartAlways(self) ==
    LET x == timer[self]
    IN  /\ pc[self] = "startLocked"
        /\ Link(x, due[self], again[self])
        /\ Goto(self, "startLocked", IF Head(timerHead') = x THEN "startWake" ELSE Return(self))
        /\ SemaphorePost(SemaphoreLock)
        /\ ArgsDead(self)
        /\ UNCHANGED clockVars

\* Broken variant: OS_TimerThread is never woken.
StartQuiet(self) ==
    LET x == timer[self]
    IN  /\ pc[self] = "startLocked"
        /\ IF active[x] THEN UNCHANGED listVars ELSE Link(x, due[self], again[self])
        /\ Goto(self, "startLocked", Return(self))
        /\ SemaphorePost(SemaphoreLock)
        /\ ArgsDead(self)
        /\ UNCHANGED clockVars

\* ... and links the timer, unless another thread has started it in between.
Start(self) ==
    LET x == timer[self]
    IN  /\ pc[self] = "startLocked"
        /\ \/ /\ active[x]
              /\ Goto(self, "startLocked", Return(self))
              /\ UNCHANGED listVars
           \/ /\ ~active[x]
              /\ Link(x, due[self], again[self])
              /\ Goto(self, "startLocked", IF Head(timerHead') = x THEN "startWake" ELSE Return(self))
        /\ SemaphorePost(SemaphoreLock)
        /\ ArgsDead(self)
        /\ UNCHANGED clockVars

\* The first timer has changed: wake OS_TimerThread.
StartWake(self) ==
    /\ Goto(self, "startWake", Return(self))
    /\ SemaphorePost(SemaphoreTimer)
    /\ UNCHANGED <<listVars, clockVars, argVars>>

StopCall(self, from, x) ==
    /\ Goto(self, from, "stop")
    /\ timer' = [timer EXCEPT ![self] = x]
    /\ UNCHANGED <<listVars, clockVars, due, again, kernelVars>>

Stop(self) ==
    /\ Goto(self, "stopLocked", Return(self))
    /\ Unlink(timer[self])
    /\ SemaphorePost(SemaphoreLock)
    /\ ArgsDead(self)
    /\ UNCHANGED clockVars

TimerCall(self) ==
    \/ StartActive(self)
    \/ Lock(self, "startStop", "startStopLocked")
    \/ StartStop(self)
    \/ Lock(self, "start", "startLocked")
    \/ Start(self)
    \/ StartWake(self)
    \/ Lock(self, "stop", "stopLocked")
    \/ Stop(self)

(***************************************************************************)
(* OS_TimerThread.                                                         *)
(***************************************************************************)

\* timeNow = OS_ThreadTime().
ReadClock(from, to) ==
    /\ Goto(TimerThread, from, to)
    /\ timeNow' = threadTime
    /\ UNCHANGED <<listVars, ticks, argVars, kernelVars>>

\* Determine how long to sleep,
Plan ==
    /\ Goto(TimerThread, "plan", "sleep")
    /\ ticks' = IF timerHead # <<>> THEN TickDiff(ticksTimeout[Head(timerHead)], timeNow)
                ELSE FOREVER
    /\ SemaphorePost(SemaphoreLock)
    /\ UNCHANGED <<listVars, timeNow, argVars>>

\* sleep that long, or until a timer becomes the first (both locals are dead then),
Sleep ==
    /\ Goto(TimerThread, "sleep", "awake")
    /\ SemaphorePend(TimerThread, SemaphoreTimer, ticks)
    /\ ticks' = 0
    /\ timeNow' = 0
    /\ UNCHANGED <<listVars, argVars>>

\* take the first timer that is due, until there is none,
Pick ==
    LET isDue == timerHead # <<>> /\ TickDiff(timeNow, ticksTimeout[Head(timerHead)]) >= 0
    IN  /\ Goto(TimerThread, "pick", IF isDue THEN "handle" ELSE "begin2")
        /\ timer' = [timer EXCEPT ![TimerThread] = IF isDue THEN Head(timerHead) ELSE NoTimer]
        /\ SemaphorePost(SemaphoreLock)
        /\ UNCHANGED <<listVars, clockVars, due, again>>

\* start it again or stop it, without the lock,
Handle ==
    LET x == timer[TimerThread]
    IN  /\ pc[TimerThread] = "handle"
        /\ \/ /\ ticksRestart[x] # 0
              /\ StartRead(TimerThread, "handle", x, ticksRestart[x], ticksRestart[x])
           \/ /\ ticksRestart[x] = 0
              /\ StopCall(TimerThread, "handle", x)

\* and call back or send the message.
Fire ==
    /\ Goto(TimerThread, "fire", "look")
    /\ timer' = [timer EXCEPT ![TimerThread] = NoTimer]
    /\ UNCHANGED <<listVars, clockVars, due, again, kernelVars>>

TimerThreadStep ==
    \/ ReadClock("begin", "begin2")
    \/ Lock(TimerThread, "begin2", "plan")
    \/ Plan
    \/ Sleep
    \/ ReadClock("awake", "look")
    \/ Lock(TimerThread, "look", "pick")
    \/ Pick
    \/ Handle
    \/ Fire
    \/ TimerCall(TimerThread)

(***************************************************************************)
(* The specification.                                                      *)
(***************************************************************************)
TimerClient == Client \ {TimerThread}

\* main creates threads, and the first OS_TimerCreate makes OS_TimerThread.
TimerBoot ==
    /\ ~threadSwapEnabled
    /\ \/ \E t \in TimerClient, p \in ClientPriority : ThreadCreate(t, p)
       \/ ThreadCreate(TimerThread, TimerPriority)
       \/ state[TimerThread] # "NONE" /\ OSStart

Starting == {"startActive", "startStop", "startStopLocked", "start", "startLocked", "startWake"}

\* Bound: so many posts of SemaphoreTimer never reach MaxCount.
FewPosts ==
    semCount[SemaphoreTimer] + Cardinality({t \in TimerClient : pc[t] \in Starting})
        + Cardinality(Timer) < MaxCount

ClientStep(self) ==
    \/ /\ FewPosts
       /\ \E x \in Timer, startTicks \in StartTicks, restart \in StartTicks \cup {0} :
             StartRead(self, "user", x, startTicks, restart)
    \/ \E x \in Timer : StopCall(self, "user", x)
    \/ TimerCall(self)

\* Nobody holds a time further back than MaxLag (half the range of the counter is
\* 248 days), and no timer is overdue by more.
Recent(time) == TickDiff(threadTime', time) <= MaxLag

NobodyLags ==
    /\ \A t \in Thread : pc[t] \in Starting \ {"startWake"} => Recent(due[t])
    /\ \A x \in Timer : active[x] => Recent(ticksTimeout[x])
    /\ pc[TimerThread] \notin {"begin", "awake"} => Recent(timeNow)

TimerInterrupt == Interrupt({}) /\ NobodyLags

TimerNext ==
    \/ (TimerBoot \/ TimerInterrupt) /\ UNCHANGED timerVars
    \/ TimerThreadStep
    \/ \E self \in TimerClient : ClientStep(self)

TimerSpec == TimerInit /\ [][TimerNext]_vars

(***************************************************************************)
(* Properties.                                                             *)
(***************************************************************************)

\* The list holds the active timers, each once (a timer linked twice would make the
\* list a cycle), in the order they end, whoever starts and stops them at once
\* (OS_TimerStart, OS_TimerStop).
TimerListSound ==
    /\ IsInjective(timerHead)
    /\ Range(timerHead) = {x \in Timer : active[x]}
    /\ \A a, b \in DOMAIN timerHead :
          a < b => TickDiff(ticksTimeout[timerHead[a]], ticksTimeout[timerHead[b]]) <= 0

\* OS_TimerThread never sleeps beside an active timer for longer than the timer has
\* to run and the thread was kept from going to sleep after it read the clock: who
\* makes a timer the first in the list wakes it, also with a time that is over, whose
\* difference could be read as OS_WAIT_FOREVER (OS_TimerThread, OS_TimerStart).
WakesInTime ==
    /\ semaphorePending[TimerThread] = SemaphoreTimer
    /\ timerHead # <<>>
    /\ \A t \in Thread : pc[t] # "startWake"
    => \E entry \in Range(timeoutHead) :
          /\ entry.thread = TimerThread
          /\ TickDiff(entry.ticksTimeout, ticksTimeout[Head(timerHead)]) <= MaxLag

\* The timer OS_TimerThread stops, to send its message next, is one whose time has
\* come, as the comment on OS_TimerStart says: "In ~10 msec ticks send a message (or
\* callback)" (rtos.c:1066).
FiresWhenDue ==
    [][LET x == timer[TimerThread]
       IN  pc[TimerThread] = "stopLocked" /\ pc'[TimerThread] = "fire" /\ active[x] =>
               TickDiff(threadTime, ticksTimeout[x]) >= 0]_vars
=============================================================================

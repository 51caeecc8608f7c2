----------------------------- MODULE RtosKernel -----------------------------
(***************************************************************************)
(* The scheduler and the counting semaphores of the Plasma RTOS            *)
(* (kernel/rtos.c), for one CPU (OS_CPU_COUNT is 1 in rtos.h).             *)
(*                                                                         *)
(* Every action is one critical section (OS_CriticalBegin ..               *)
(* OS_CriticalEnd disable interrupts), made by the running thread or by    *)
(* the interrupt service routine.  A linked list is a sequence; a list     *)
(* node that is dead outside its list (OS_Thread_s.ticksTimeout) lives in  *)
(* the list.  The modules of the kernel services EXTEND this one and call  *)
(* its actions as the C code calls the functions.                          *)
(***************************************************************************)
EXTENDS Integers, SequencesExt

CONSTANTS
    Thread,          \* every OS_Thread_t the program can create
    Idle,            \* the thread that runs OS_IdleThread
    NoThread,        \* the NULL thread pointer
    Semaphore,       \* the semaphores
    NoSemaphore,     \* the NULL semaphore pointer
    InitialCount,    \* the count each semaphore is created with
    Priority,        \* the priorities threads are given (0 .. 255 in rtos.h)
    Ticks,           \* the finite waits callers ask for
    TimeWrap,        \* 2^32: the values of the uint32 tick counter
    PriorityChanges, \* which uses of OS_ThreadPrioritySet the clients make
    MaxCount         \* bound: no semaphore is posted above this count

FOREVER == -1        \* OS_WAIT_FOREVER

ASSUME KernelAssumption ==
    /\ Idle \in Thread
    /\ NoThread \notin Thread
    /\ NoSemaphore \notin Semaphore
    /\ MaxCount \in Nat
    /\ InitialCount \in [Semaphore -> 0 .. MaxCount]
    /\ Priority \subseteq Nat
    /\ 0 \in Priority
    /\ PriorityChanges \subseteq {"raise self", "lower self", "other"}

\* A wait is shorter than half the range of the tick counter (248 days), so
\* that the signed difference of two live timeouts is never ambiguous.
ASSUME TimeAssumption ==
    /\ TimeWrap \in Nat \ {0}
    /\ \A n \in Ticks : n \in Nat /\ 0 < n /\ 2 * n < TimeWrap

VARIABLES
    threadSwapEnabled,  \* FALSE until OS_Start
    threadCurrent,      \* ThreadCurrent[0]
    state,              \* thread->state, or "NONE" for a thread that does not exist
    priority,           \* thread->priority
    threadHead,         \* ThreadHead: the ready list
    semCount,           \* semaphore->count
    semHead,            \* semaphore->threadHead: the list of pending threads
    semaphorePending,   \* thread->semaphorePending
    returnCode,         \* thread->returnCode
    timeoutHead,        \* TimeoutHead: threads with their ticksTimeout
    threadTime,         \* ThreadTime
    needReschedule,     \* ThreadNeedReschedule[0]: 0, 2 or 3
    isr                 \* where the interrupt service routine is; InterruptInside[0]
                        \* is set from "body" on, "tick" is inside OS_ThreadTick and
                        \* "ticked" is after it

kernelVars ==
    <<threadSwapEnabled, threadCurrent, state, priority, threadHead, semCount, semHead,
      semaphorePending, returnCode, timeoutHead, threadTime, needReschedule, isr>>

schedVars == <<threadCurrent, state, threadHead, needReschedule>>
waitVars == <<semHead, semaphorePending, returnCode, timeoutHead>>

(***************************************************************************)
(* The sorted lists.                                                       *)
(***************************************************************************)

\* Broken variant: the thread goes before those of its own priority.
PriorityInsertFirst(list, thread, prio) ==
    LET k == SelectInSeq(list, LAMBDA node : prio[node] <= prio[thread])
    IN  IF k = 0 THEN Append(list, thread) ELSE InsertAt(list, k, thread)

\* Insert thread before the first node of a lower priority.
PriorityInsert(list, thread, prio) ==
    LET k == SelectInSeq(list, LAMBDA node : prio[node] < prio[thread])
    IN  IF k = 0 THEN Append(list, thread) ELSE InsertAt(list, k, thread)

\* Broken variant: whatever thread is first is removed.
PriorityRemoveHead(list, thread) == Tail(list)

PriorityRemove(list, thread) == RemoveFirst(list, thread)

\* Broken variant: the counter never wraps.
TickDiffPlain(a, b) == a - b

\* The difference of two uint32 tick counts, read as an int.
TickDiff(a, b) ==
    LET d == (a - b) % TimeWrap
    IN  IF 2 * d < TimeWrap THEN d ELSE d - TimeWrap

\* Insert a waiting thread before the first one that times out no earlier.
TimeoutInsert(list, thread, ticksTimeout) ==
    LET k == SelectInSeq(list, LAMBDA node : TickDiff(ticksTimeout, node.ticksTimeout) <= 0)
        new == [thread |-> thread, ticksTimeout |-> ticksTimeout]
    IN  IF k = 0 THEN Append(list, new) ELSE InsertAt(list, k, new)

\* Broken variant: a wait that is over stays in the list.
TimeoutRemoveNothing(list, thread) == list

\* Broken variant: the list ends where a thread is removed.
TimeoutRemoveRest(list, thread) ==
    LET k == SelectInSeq(list, LAMBDA node : node.thread = thread)
    IN  IF k = 0 THEN list ELSE SubSeq(list, 1, k - 1)

\* Nothing happens to a thread that is not in the list: it waits forever.
TimeoutRemove(list, thread) ==
    LET k == SelectInSeq(list, LAMBDA node : node.thread = thread)
    IN  IF k = 0 THEN list ELSE RemoveAt(list, k)

(***************************************************************************)
(* OS_ThreadReschedule, the last call of each handler: ready and st are    *)
(* the ready list and the thread states the handler has reached; the       *)
(* priorities, ThreadSwapEnabled and InterruptInside are read as the       *)
(* handler leaves them.                                                    *)
(***************************************************************************)
\* Broken variant: only a thread that blocks gives the CPU away.
MustSwapBlocked(roundRobin, ready, st) ==
    /\ ready # <<>>
    /\ threadCurrent = NoThread \/ st[threadCurrent] = "PEND" \/ roundRobin

MustSwap(roundRobin, ready, st) ==
    /\ ready # <<>>
    /\ \/ threadCurrent = NoThread
       \/ st[threadCurrent] = "PEND"
       \/ priority'[threadCurrent] < priority'[Head(ready)]
       \/ roundRobin /\ priority'[threadCurrent] = priority'[Head(ready)]

SwapTo(next, ready, st) ==
    LET preempted == threadCurrent # NoThread /\ st[threadCurrent] = "RUNNING"
        queue == IF preempted THEN PriorityInsert(ready, threadCurrent, priority') ELSE ready
        left == IF preempted THEN [st EXCEPT ![threadCurrent] = "READY"] ELSE st
    IN  /\ threadCurrent' = next
        /\ threadHead' = PriorityRemove(queue, next)
        /\ state' = [left EXCEPT ![next] = "RUNNING"]

Reschedule(roundRobin, ready, st) ==
    IF ~threadSwapEnabled' \/ isr' # "none"
    THEN /\ needReschedule' = IF roundRobin \/ needReschedule = 3 THEN 3 ELSE 2
         /\ threadHead' = ready
         /\ state' = st
         /\ UNCHANGED threadCurrent
    ELSE /\ needReschedule' = 0
         /\ IF MustSwap(roundRobin, ready, st)
            THEN SwapTo(Head(ready), ready, st)
            ELSE /\ threadHead' = ready
                 /\ state' = st
                 /\ UNCHANGED threadCurrent

\* A thread runs when no interrupt is being served.
Running(t) == isr = "none" /\ threadCurrent = t

(***************************************************************************)
(* Threads.                                                                *)
(***************************************************************************)

\* The part of OS_ThreadCreate after the memory of thread is allocated.
ThreadCreate(thread, prio) ==
    /\ state[thread] = "NONE"
    /\ priority' = [priority EXCEPT ![thread] = prio]
    /\ returnCode' = [returnCode EXCEPT ![thread] = 0]
    /\ UNCHANGED <<threadSwapEnabled, semCount, semHead, semaphorePending, timeoutHead,
                   threadTime, isr>>
    /\ Reschedule(FALSE, PriorityInsert(threadHead, thread, priority'),
                  [state EXCEPT ![thread] = "READY"])

\* The critical section of OS_ThreadExit that gives the CPU away for good.
ThreadExit(self) ==
    /\ UNCHANGED <<threadSwapEnabled, priority, semCount, waitVars, threadTime, isr>>
    /\ Reschedule(FALSE, threadHead, [state EXCEPT ![self] = "PEND"])

Exited(t) == state[t] = "PEND" /\ semaphorePending[t] = NoSemaphore

\* OS_HeapFree of an exited thread: its memory can become another thread.
ThreadFree(thread) ==
    /\ state[thread] # "NONE"
    /\ state' = [state EXCEPT ![thread] = "NONE"]
    /\ UNCHANGED <<threadSwapEnabled, threadCurrent, priority, threadHead, semCount, waitVars,
                   threadTime, needReschedule, isr>>

\* Broken variant: a ready thread keeps its place in the list.
ThreadPrioritySetInPlace(thread, prio) ==
    /\ priority' = [priority EXCEPT ![thread] = prio]
    /\ UNCHANGED <<threadSwapEnabled, schedVars, semCount, waitVars, threadTime, isr>>

ThreadPrioritySet(thread, prio) ==
    /\ priority' = [priority EXCEPT ![thread] = prio]
    /\ UNCHANGED <<threadSwapEnabled, semCount, waitVars, threadTime, isr>>
    /\ IF state[thread] = "READY"
       THEN Reschedule(FALSE,
                       PriorityInsert(PriorityRemove(threadHead, thread), thread, priority'),
                       state)
       ELSE UNCHANGED schedVars

(***************************************************************************)
(* Semaphores.                                                             *)
(***************************************************************************)

\* OS_SemaphorePend takes the semaphore at once, and returns 0.
PendAcquire(s) ==
    /\ semCount[s] > 0
    /\ semCount' = [semCount EXCEPT ![s] = @ - 1]
    /\ UNCHANGED <<threadSwapEnabled, priority, schedVars, waitVars, threadTime, isr>>

\* Broken variant: the count is not restored.
PendNoWaitCounted(s, ticks) ==
    /\ semCount[s] <= 0
    /\ ticks = 0
    /\ semCount' = [semCount EXCEPT ![s] = @ - 1]
    /\ UNCHANGED <<threadSwapEnabled, priority, schedVars, waitVars, threadTime, isr>>

\* OS_SemaphorePend with ticks = 0 restores the count and returns -1.
PendNoWait(s, ticks) ==
    /\ semCount[s] <= 0
    /\ ticks = 0
    /\ UNCHANGED kernelVars

\* The tick count at which a wait of so many ticks is over.
Deadline(ticks) == (ticks + threadTime) % TimeWrap

\* OS_SemaphorePend blocks; it returns returnCode[self] when self runs again.
PendWait(self, s, ticks) ==
    /\ semCount[s] <= 0
    /\ ticks # 0
    /\ semCount' = [semCount EXCEPT ![s] = @ - 1]
    /\ semHead' = [semHead EXCEPT ![s] = PriorityInsert(@, self, priority)]
    /\ semaphorePending' = [semaphorePending EXCEPT ![self] = s]
    /\ timeoutHead' =
         IF ticks = FOREVER THEN timeoutHead
         ELSE TimeoutInsert(timeoutHead, self, Deadline(ticks))
    /\ UNCHANGED <<threadSwapEnabled, priority, returnCode, threadTime, isr>>
    /\ Reschedule(FALSE, threadHead, [state EXCEPT ![self] = "PEND"])

SemaphorePend(self, s, ticks) ==
    PendAcquire(s) \/ PendNoWait(s, ticks) \/ PendWait(self, s, ticks)

\* OS_SemaphorePost when nobody waits.
PostFree(s) ==
    /\ semCount[s] >= 0
    /\ semCount[s] < MaxCount
    /\ semCount' = [semCount EXCEPT ![s] = @ + 1]
    /\ UNCHANGED <<threadSwapEnabled, priority, schedVars, waitVars, threadTime, isr>>

\* OS_SemaphorePost hands the semaphore to the first pending thread.
PostWake(s) ==
    LET thread == Head(semHead[s])
    IN  /\ semCount[s] < 0
        /\ semCount' = [semCount EXCEPT ![s] = @ + 1]
        /\ timeoutHead' = TimeoutRemove(timeoutHead, thread)
        /\ semHead' = [semHead EXCEPT ![s] = PriorityRemove(@, thread)]
        /\ semaphorePending' = [semaphorePending EXCEPT ![thread] = NoSemaphore]
        /\ returnCode' = [returnCode EXCEPT ![thread] = 0]
        /\ UNCHANGED <<threadSwapEnabled, priority, threadTime, isr>>
        /\ Reschedule(FALSE, PriorityInsert(threadHead, thread, priority),
                      [state EXCEPT ![thread] = "READY"])

SemaphorePost(s) == PostFree(s) \/ PostWake(s)

(***************************************************************************)
(* Interrupts.  OS_InterruptServiceRoutine runs with interrupts disabled:  *)
(* nothing else runs between InterruptEntry and InterruptExit.             *)
(***************************************************************************)
InterruptEntry ==
    /\ threadSwapEnabled
    /\ isr = "none"
    /\ isr' = "body"
    /\ UNCHANGED <<threadSwapEnabled, schedVars, priority, semCount, waitVars, threadTime>>

\* OS_ThreadTick counts the tick ...
TickCount ==
    /\ isr = "body"
    /\ isr' = "tick"
    /\ threadTime' = (threadTime + 1) % TimeWrap
    /\ UNCHANGED <<threadSwapEnabled, schedVars, priority, semCount, waitVars>>

\* Broken variant: a tick too early.
TimeoutDueEarly ==
    /\ timeoutHead # <<>>
    /\ TickDiff(threadTime, Head(timeoutHead).ticksTimeout) >= -1

\* The first thread of TimeoutHead has waited long enough.
TimeoutDue ==
    /\ timeoutHead # <<>>
    /\ TickDiff(threadTime, Head(timeoutHead).ticksTimeout) >= 0

\* ... wakes each thread whose time has come ...
TickExpire ==
    LET thread == Head(timeoutHead).thread
        s == semaphorePending[thread]
    IN  /\ isr = "tick"
        /\ TimeoutDue
        /\ timeoutHead' = TimeoutRemove(timeoutHead, thread)
        /\ semCount' = [semCount EXCEPT ![s] = @ + 1]
        /\ semaphorePending' = [semaphorePending EXCEPT ![thread] = NoSemaphore]
        /\ returnCode' = [returnCode EXCEPT ![thread] = -1]
        /\ semHead' = [semHead EXCEPT ![s] = PriorityRemove(@, thread)]
        /\ threadHead' = PriorityInsert(threadHead, thread, priority)
        /\ state' = [state EXCEPT ![thread] = "READY"]
        /\ UNCHANGED <<threadSwapEnabled, threadCurrent, needReschedule, priority, threadTime,
                       isr>>

\* ... and asks for a round robin among the threads of the highest priority.
TickDone ==
    /\ isr = "tick"
    /\ ~TimeoutDue
    /\ isr' = "ticked"
    /\ UNCHANGED <<threadSwapEnabled, priority, semCount, waitVars, threadTime>>
    /\ Reschedule(TRUE, threadHead, state)

\* The handler of a device posts a semaphore.
InterruptPost(s) ==
    /\ isr \in {"body", "ticked"}
    /\ SemaphorePost(s)

\* The end of OS_InterruptServiceRoutine makes the deferred reschedule.
InterruptExit ==
    /\ isr \in {"body", "ticked"}
    /\ isr' = "none"
    /\ UNCHANGED <<threadSwapEnabled, priority, semCount, waitVars, threadTime>>
    /\ IF needReschedule # 0
       THEN Reschedule(needReschedule = 3, threadHead, state)
       ELSE UNCHANGED schedVars

\* OS_Start: the main program gives the CPU to the first thread.
OSStart ==
    /\ ~threadSwapEnabled
    /\ threadSwapEnabled' = TRUE
    /\ UNCHANGED <<priority, semCount, waitVars, threadTime, isr>>
    /\ Reschedule(TRUE, threadHead, state)

(***************************************************************************)
(* The kernel under every client: OS_Init has created the semaphores and   *)
(* the idle thread, main creates threads and calls OS_Start; a thread      *)
(* calls what it likes, except that the idle thread calls nothing.         *)
(***************************************************************************)
KernelInit ==
    /\ threadSwapEnabled = FALSE
    /\ threadCurrent = NoThread
    /\ state = [t \in Thread |-> IF t = Idle THEN "READY" ELSE "NONE"]
    /\ priority = [t \in Thread |-> 0]
    /\ threadHead = <<Idle>>
    /\ semCount = InitialCount
    /\ semHead = [s \in Semaphore |-> <<>>]
    /\ semaphorePending = [t \in Thread |-> NoSemaphore]
    /\ returnCode = [t \in Thread |-> 0]
    /\ timeoutHead = <<>>
    /\ threadTime = 0
    /\ needReschedule = 2
    /\ isr = "none"

\* posted: the semaphores that handlers of devices post.
Interrupt(posted) ==
    \/ InterruptEntry
    \/ TickCount
    \/ TickExpire
    \/ TickDone
    \/ \E s \in posted : InterruptPost(s)
    \/ InterruptExit

Client == Thread \ {Idle}

PriorityChange(self, t, prio) ==
    CASE t # self -> "other"
      [] t = self /\ prio < priority[self] -> "lower self"
      [] OTHER -> "raise self"

ThreadCall ==
    \E self \in Client :
        /\ Running(self)
        /\ \/ \E s \in Semaphore, ticks \in Ticks \cup {0, FOREVER} : SemaphorePend(self, s, ticks)
           \/ \E s \in Semaphore : SemaphorePost(s)
           \/ \E t \in Client, p \in Priority : ThreadCreate(t, p)
           \/ \E t \in Client : Exited(t) /\ ThreadFree(t)
           \/ \E t \in Client, p \in Priority :
                 /\ state[t] # "NONE"
                 /\ PriorityChange(self, t, p) \in PriorityChanges
                 /\ ThreadPrioritySet(t, p)
           \/ ThreadExit(self)

Boot ==
    /\ ~threadSwapEnabled
    /\ \/ \E t \in Client, p \in Priority : ThreadCreate(t, p)
       \/ OSStart

KernelNext == Boot \/ ThreadCall \/ Interrupt(Semaphore)

KernelSpec == KernelInit /\ [][KernelNext]_kernelVars

\* The tick interrupt keeps coming and every handler ends.
InterruptFairness ==
    /\ SF_kernelVars(InterruptEntry)
    /\ SF_kernelVars(TickCount)
    /\ WF_kernelVars(TickExpire)
    /\ WF_kernelVars(TickDone)
    /\ SF_kernelVars(InterruptExit)

FairKernelSpec == KernelSpec /\ InterruptFairness

(***************************************************************************)
(* Properties.                                                             *)
(***************************************************************************)
ThreadState == {"NONE", "PEND", "READY", "RUNNING"}

Timeout == [thread : Thread, ticksTimeout : 0 .. TimeWrap - 1]

\* The shape of the kernel's data.
TypeOK ==
    /\ threadSwapEnabled \in BOOLEAN
    /\ threadCurrent \in Thread \cup {NoThread}
    /\ state \in [Thread -> ThreadState]
    /\ priority \in [Thread -> Priority]
    /\ threadHead \in Seq(Thread)
    /\ semCount \in [Semaphore -> Int]
    /\ semHead \in [Semaphore -> Seq(Thread)]
    /\ semaphorePending \in [Thread -> Semaphore \cup {NoSemaphore}]
    /\ returnCode \in [Thread -> {0, -1}]
    /\ timeoutHead \in Seq(Timeout)
    /\ threadTime \in 0 .. TimeWrap - 1
    /\ needReschedule \in {0, 2, 3}
    /\ isr \in {"none", "body", "tick", "ticked"}

\* A thread is in exactly one place: it has the CPU, or it is once in the ready
\* list, or once in the list of the one semaphore it waits for, or nowhere when
\* it does not exist or has exited (rtos.c keeps the two kinds of list linked
\* through the same thread->next, so a thread in two lists corrupts both).  The
\* idle thread can always run: a thread that blocks has another to give the CPU to
\* (the assert(ThreadHead) of OS_SemaphorePend).
OnePlace ==
    /\ \A t \in Thread : state[t] = "RUNNING" <=> t = threadCurrent
    /\ IsInjective(threadHead)
    /\ Range(threadHead) = {t \in Thread : state[t] = "READY"}
    /\ \A s \in Semaphore :
          /\ IsInjective(semHead[s])
          /\ Range(semHead[s]) = {t \in Thread : semaphorePending[t] = s}
    /\ \A t \in Thread : semaphorePending[t] # NoSemaphore => state[t] = "PEND"
    /\ state[Idle] \in {"READY", "RUNNING"}

\* The kernel's semaphores are the abstract ones: the threads of the timeout
\* list are those that may run out.
Semaphores ==
    INSTANCE CountingSemaphores
        WITH tokens <- [s \in Semaphore |-> IF semCount[s] > 0 THEN semCount[s] ELSE 0],
             waiting <- [s \in Semaphore |-> Range(semHead[s])],
             timed <- {entry.thread : entry \in Range(timeoutHead)},
             outcome <- returnCode

\* Every behaviour of the kernel is one of the abstract semaphores: no post is
\* lost or given twice, no thread both times out and takes the semaphore, and a
\* thread that waits forever ends only by a post (OS_SemaphorePend,
\* OS_SemaphorePost and OS_ThreadTick together).
SemaphoresImplemented == Semaphores!Spec

\* A negative count is the number of pending threads, and nobody is pending on
\* a semaphore that is available: no wakeup is lost, whatever posts, timeouts
\* and pends interleave (OS_SemaphorePend, OS_SemaphorePost, OS_ThreadTick).
SemAccounting ==
    \A s \in Semaphore :
        Len(semHead[s]) = IF semCount[s] < 0 THEN - semCount[s] ELSE 0

\* The ready list is sorted by priority, which is what makes its first thread
\* the one to run (OS_ThreadReschedule), even when priorities change.
ReadySorted ==
    \A i, j \in DOMAIN threadHead :
        i < j => priority[threadHead[i]] >= priority[threadHead[j]]

\* The timeout list holds threads that wait, each once, in the order their time
\* comes, and outside OS_ThreadTick nobody in it is overdue: no thread wakes
\* late, across the wrap of the tick counter.
TimeoutsLive ==
    /\ \A i \in DOMAIN timeoutHead :
          /\ semaphorePending[timeoutHead[i].thread] # NoSemaphore
          /\ TickDiff(timeoutHead[i].ticksTimeout, threadTime) \in
                (IF isr = "tick" THEN 0 ELSE 1) .. TimeWrap \div 2
    /\ \A i, j \in DOMAIN timeoutHead :
          i < j => /\ timeoutHead[i].thread # timeoutHead[j].thread
                   /\ TickDiff(timeoutHead[i].ticksTimeout, timeoutHead[j].ticksTimeout) <= 0

\* The order of both lists that the scheduler takes the first of: nobody runs before a
\* thread of a higher priority, and nobody wakes late (OS_ThreadPriorityInsert,
\* OS_ThreadTimeoutInsert and those that change what they sort by).
ListsInOrder == ReadySorted /\ TimeoutsLive

\* Nobody wakes early either: a wait that ends with the code of a timeout ends in
\* the very tick it asked for (OS_ThreadTick).
TimeoutExact ==
    [][\A t \in Thread :
         /\ semaphorePending[t] # NoSemaphore
         /\ semaphorePending'[t] = NoSemaphore
         /\ returnCode'[t] = -1
         => [thread |-> t, ticksTimeout |-> threadTime] \in Range(timeoutHead)]_kernelVars

\* No thread is ready that has a higher priority than the running one, unless a
\* reschedule is pending.
HighestRuns ==
    threadSwapEnabled /\ needReschedule = 0 /\ isr # "tick" =>
        \A t \in Range(threadHead) : priority[t] <= priority[threadCurrent]

\* No step ends that except the running thread's own OS_ThreadPrioritySet, which does
\* not reschedule when it lowers its priority: a wakeup in a handler, or of a thread
\* with a higher priority, is never forgotten (OS_ThreadReschedule and its callers).
HighestKeepsRunning ==
    [][HighestRuns =>
         \/ HighestRuns'
         \/ threadCurrent' = threadCurrent /\ priority'[threadCurrent] < priority[threadCurrent]]_kernelVars

\* Round robin: among the ready threads of the highest priority each gets the
\* CPU, while no priority is changed (the Reschedule(1) of OS_ThreadTick).
CanRunFirst(t) ==
    /\ state[t] = "READY"
    /\ \A u \in Thread : state[u] \in {"READY", "RUNNING"} => priority[u] <= priority[t]

RoundRobin ==
    \A t \in Thread : []<>~(threadSwapEnabled /\ CanRunFirst(t))

\* A timed wait ends, whoever else waits or posts.
TimedWaitEnds ==
    \A t \in Thread :
        (\E i \in DOMAIN timeoutHead : timeoutHead[i].thread = t) ~> semaphorePending[t] = NoSemaphore

\* The threads of applications have one priority.
SamePriority ==
    \A t, u \in {v \in Client : state[v] # "NONE"} : priority[t] = priority[u]

=============================================================================

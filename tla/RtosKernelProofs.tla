-------------------------- MODULE RtosKernelProofs --------------------------
(***************************************************************************)
(* Proofs about the kernel, for any threads, semaphores, priorities and    *)
(* waits.                                                                  *)
(***************************************************************************)
EXTENDS RtosKernel, ListLemmas

(***************************************************************************)
(* The kernel's lists.                                                     *)
(***************************************************************************)

\* OS_ThreadPriorityInsert adds the thread to the list, whatever the priorities.
LEMMA PriorityInsertProperties ==
    ASSUME NEW list \in Seq(Thread), NEW thread \in Thread, NEW prio
    PROVE  /\ PriorityInsert(list, thread, prio) \in Seq(Thread)
           /\ Len(PriorityInsert(list, thread, prio)) = Len(list) + 1
           /\ Range(PriorityInsert(list, thread, prio)) = Range(list) \cup {thread}
           /\ IsInjective(list) /\ thread \notin Range(list)
              => IsInjective(PriorityInsert(list, thread, prio))
<1>. DEFINE I == {i \in 1 .. Len(list) : prio[list[i]] < prio[thread]}
<1>1. PriorityInsert(list, thread, prio)
      = LET k == IF I # {} THEN Min(I) ELSE 0
        IN  IF k = 0 THEN Append(list, thread) ELSE InsertAt(list, k, thread)
  BY DEF PriorityInsert, SelectInSeq
<1>2. I # {} => Min(I) \in 1 .. Len(list)
  <2>1. I \subseteq Nat /\ I \subseteq 1 .. Len(list)
    OBVIOUS
  <2>. HIDE DEF I
  <2>. QED
    BY <2>1, MinOfNat
<1>. HIDE DEF I
<1>3. CASE I = {}
  <2>1. PriorityInsert(list, thread, prio) = Append(list, thread)
    BY <1>1, <1>3
  <2>. QED
    BY <2>1, AppendRange
<1>4. CASE I # {}
  <2>1. PriorityInsert(list, thread, prio) = InsertAt(list, Min(I), thread)
    BY <1>1, <1>2, <1>4
  <2>2. Min(I) \in 1 .. Len(list) + 1
    BY <1>2, <1>4
  <2>. QED
    BY <2>1, <2>2, InsertAtProperties, InsertAtRange
<1>. QED
  BY <1>3, <1>4

\* OS_ThreadPriorityRemove takes a thread that is in the list out of it.
LEMMA PriorityRemoveProperties ==
    ASSUME NEW list \in Seq(Thread), NEW thread \in Range(list), IsInjective(list)
    PROVE  /\ PriorityRemove(list, thread) \in Seq(Thread)
           /\ Len(PriorityRemove(list, thread)) = Len(list) - 1
           /\ Range(PriorityRemove(list, thread)) = Range(list) \ {thread}
           /\ IsInjective(PriorityRemove(list, thread))
<1>. DEFINE I == {i \in 1 .. Len(list) : list[i] = thread}
<1>1. PICK i \in 1 .. Len(list) : list[i] = thread
  BY DEF Range
<1>2. PriorityRemove(list, thread) = RemoveAt(list, Min(I))
  BY <1>1 DEF PriorityRemove, RemoveFirst, SelectInSeq
<1>3. I \subseteq Nat /\ I # {}
  BY <1>1
<1>4. Min(I) \in I
  <2>. HIDE DEF I
  <2>. QED BY <1>3, MinOfNat
<1>5. Min(I) \in 1 .. Len(list) /\ list[Min(I)] = thread
  <2>. DEFINE m == Min(I)
  <2>1. m \in I
    BY <1>4
  <2>. HIDE DEF m
  <2>2. m \in 1 .. Len(list) /\ list[m] = thread
    BY <2>1
  <2>. QED BY <2>2 DEF m
<1>. HIDE DEF I
<1>6. PriorityRemove(list, thread) \in Seq(Thread)
      /\ Len(PriorityRemove(list, thread)) = Len(list) - 1
  BY <1>2, <1>5, RemoveAtProperties
<1>7. Range(PriorityRemove(list, thread)) = Range(list) \ {thread}
      /\ IsInjective(PriorityRemove(list, thread))
  BY <1>2, <1>5, RemoveAtRange
<1>. QED
  BY <1>6, <1>7

\* The timeout list holds a thread once, for one time.
Distinct(list) ==
    /\ IsInjective(list)
    /\ \A a, b \in Range(list) : a.thread = b.thread => a = b

Threads(list) == {entry.thread : entry \in Range(list)}

\* OS_ThreadTimeoutInsert adds the thread to the timeout list.
LEMMA TimeoutInsertProperties ==
    ASSUME NEW list \in Seq(Timeout), NEW thread \in Thread, NEW time \in 0 .. TimeWrap - 1
    PROVE  /\ TimeoutInsert(list, thread, time) \in Seq(Timeout)
           /\ Range(TimeoutInsert(list, thread, time)) =
                Range(list) \cup {[thread |-> thread, ticksTimeout |-> time]}
           /\ Threads(TimeoutInsert(list, thread, time)) = Threads(list) \cup {thread}
           /\ Distinct(list) /\ thread \notin Threads(list)
              => Distinct(TimeoutInsert(list, thread, time))
<1>. DEFINE I == {i \in 1 .. Len(list) : TickDiff(time, list[i].ticksTimeout) <= 0}
            new == [thread |-> thread, ticksTimeout |-> time]
            result == TimeoutInsert(list, thread, time)
<1>1. result = LET k == IF I # {} THEN Min(I) ELSE 0
               IN  IF k = 0 THEN Append(list, new) ELSE InsertAt(list, k, new)
  BY DEF TimeoutInsert, SelectInSeq
<1>2. I # {} => Min(I) \in 1 .. Len(list)
  <2>1. I \subseteq Nat /\ I \subseteq 1 .. Len(list)
    OBVIOUS
  <2>. HIDE DEF I
  <2>. QED
    BY <2>1, MinOfNat
<1>3. new \in Timeout /\ new.thread = thread
  BY DEF Timeout
<1>. HIDE DEF I, new, result
<1>4. /\ result \in Seq(Timeout)
      /\ Range(result) = Range(list) \cup {new}
      /\ IsInjective(list) /\ new \notin Range(list) => IsInjective(result)
  <2>1. CASE I = {}
    <3>1. result = Append(list, new)
      BY <1>1, <2>1
    <3>. QED
      BY <1>3, <3>1, AppendRange
  <2>2. CASE I # {}
    <3>1. result = InsertAt(list, Min(I), new) /\ Min(I) \in 1 .. Len(list) + 1
      BY <1>1, <1>2, <2>2
    <3>. QED
      BY <1>3, <3>1, InsertAtProperties, InsertAtRange
  <2>. QED
    BY <2>1, <2>2
<1>5. Threads(result) = Threads(list) \cup {thread}
  BY <1>3, <1>4 DEF Threads
<1>6. Distinct(list) /\ thread \notin Threads(list) => Distinct(result)
  BY <1>3, <1>4 DEF Distinct, Threads
<1>. QED
  BY <1>4, <1>5, <1>6 DEF result, new

\* OS_ThreadTimeoutRemove takes the thread out of the timeout list, if it is there.
LEMMA TimeoutRemoveProperties ==
    ASSUME NEW list \in Seq(Timeout), NEW thread \in Thread, Distinct(list)
    PROVE  /\ TimeoutRemove(list, thread) \in Seq(Timeout)
           /\ Threads(TimeoutRemove(list, thread)) = Threads(list) \ {thread}
           /\ Range(TimeoutRemove(list, thread)) \subseteq Range(list)
           /\ Distinct(TimeoutRemove(list, thread))
<1>. DEFINE I == {i \in 1 .. Len(list) : list[i].thread = thread}
            k == Min(I)
            result == TimeoutRemove(list, thread)
<1>1. result = LET j == IF I # {} THEN k ELSE 0
               IN  IF j = 0 THEN list ELSE RemoveAt(list, j)
  BY DEF TimeoutRemove, SelectInSeq
<1>2. I # {} => k \in I
  <2>1. I \subseteq Nat
    OBVIOUS
  <2>. HIDE DEF I
  <2>. QED
    BY <2>1, MinOfNat
<1>. HIDE DEF k, result
<1>3. I # {} => k \in 1 .. Len(list) /\ list[k].thread = thread
  BY <1>2
<1>4. I = {} => thread \notin Threads(list)
  BY DEF Threads, Range
<1>. HIDE DEF I
<1>5. CASE I = {}
  BY <1>1, <1>4, <1>5 DEF result, Threads
<1>6. CASE I # {}
  <2>1. result = RemoveAt(list, k) /\ k \in 1 .. Len(list) /\ list[k].thread = thread
    BY <1>1, <1>3, <1>6
  <2>2. result \in Seq(Timeout)
    BY <2>1, RemoveAtProperties
  <2>3. Range(result) = Range(list) \ {list[k]} /\ IsInjective(result)
    BY <2>1, RemoveAtRange DEF Distinct
  <2>4. list[k] \in Range(list)
    BY <2>1 DEF Range
  <2>5. Threads(result) = Threads(list) \ {thread}
    BY <2>1, <2>3, <2>4 DEF Distinct, Threads
  <2>6. Distinct(result)
    BY <2>3 DEF Distinct
  <2>. QED
    BY <2>2, <2>3, <2>5, <2>6 DEF result
<1>. QED
  BY <1>5, <1>6

(***************************************************************************)
(* OS_ThreadReschedule.                                                    *)
(***************************************************************************)

\* Each thread that can run is in the ready list, or is the current one.
Placed(current, st, ready) ==
    /\ st \in [Thread -> ThreadState]
    /\ \A t \in Thread : st[t] = "RUNNING" <=> t = current
    /\ ready \in Seq(Thread)
    /\ IsInjective(ready)
    /\ Range(ready) = {t \in Thread : st[t] = "READY"}

\* Whether the current thread goes on or has just blocked, OS_ThreadReschedule
\* leaves each thread that can run in one place, and blocks or wakes nobody.
LEMMA RescheduleProperties ==
    ASSUME NEW roundRobin \in BOOLEAN, NEW ready \in Seq(Thread), NEW st \in [Thread -> ThreadState],
           NoThread \notin Thread,
           threadCurrent \in Thread \cup {NoThread},
           needReschedule \in {0, 2, 3},
           IsInjective(ready),
           Range(ready) = {t \in Thread : st[t] = "READY"},
           \A t \in Thread : st[t] = "RUNNING" => t = threadCurrent,
           threadCurrent # NoThread =>
               /\ threadSwapEnabled'
               /\ \/ st[threadCurrent] = "RUNNING"
                  \/ st[threadCurrent] = "PEND" /\ ready # <<>> /\ isr' = "none",
           Reschedule(roundRobin, ready, st)
    PROVE  /\ Placed(threadCurrent', state', threadHead')
           /\ threadCurrent' \in Thread \cup {NoThread}
           /\ threadCurrent' # NoThread => threadSwapEnabled'
           /\ needReschedule' \in {0, 2, 3}
           /\ \A t \in Thread : state'[t] \in {"READY", "RUNNING"} <=> st[t] \in {"READY", "RUNNING"}
           /\ \A t \in Thread : state'[t] = "PEND" <=> st[t] = "PEND"
<1>1. CASE UNCHANGED threadCurrent /\ threadHead' = ready /\ state' = st
           /\ needReschedule' \in {0, 2, 3}
           /\ (threadCurrent # NoThread => st[threadCurrent] = "RUNNING")
  BY <1>1 DEF Placed
<1>2. CASE /\ threadSwapEnabled'
           /\ ready # <<>>
           /\ needReschedule' = 0
           /\ SwapTo(Head(ready), ready, st)
  <2>. DEFINE next == Head(ready)
              preempted == threadCurrent # NoThread /\ st[threadCurrent] = "RUNNING"
              queue == IF preempted THEN PriorityInsert(ready, threadCurrent, priority') ELSE ready
  <2>1. next \in Thread /\ next \in Range(ready) /\ st[next] = "READY"
    <3>1. next \in Thread /\ next = ready[1] /\ 1 \in DOMAIN ready
      BY <1>2
    <3>. QED BY <3>1 DEF Range
  <2>2. /\ threadCurrent' = next
        /\ threadHead' = PriorityRemove(queue, next)
        /\ state' = [t \in Thread |-> IF t = next THEN "RUNNING"
                                      ELSE IF t = threadCurrent /\ preempted THEN "READY"
                                      ELSE st[t]]
    BY <1>2, <2>1 DEF SwapTo
  <2>3. /\ queue \in Seq(Thread)
        /\ IsInjective(queue)
        /\ Range(queue) = {t \in Thread : st[t] = "READY" \/ (preempted /\ t = threadCurrent)}
    <3>1. CASE preempted
      <4>1. threadCurrent \in Thread /\ threadCurrent \notin Range(ready)
        BY <3>1
      <4>2. queue = PriorityInsert(ready, threadCurrent, priority')
        BY <3>1
      <4>. QED
        BY <3>1, <4>1, <4>2, PriorityInsertProperties
    <3>2. CASE ~preempted
      BY <3>2
    <3>. QED
      BY <3>1, <3>2
  <2>. HIDE DEF next, queue
  <2>4. next \in Range(queue)
    BY <2>1, <2>3
  <2>5. /\ threadHead' \in Seq(Thread)
        /\ IsInjective(threadHead')
        /\ Range(threadHead') = Range(queue) \ {next}
    BY <2>2, <2>3, <2>4, PriorityRemoveProperties
  <2>6. state' \in [Thread -> ThreadState]
    BY <2>2 DEF ThreadState
  <2>7. \A t \in Thread : state'[t] = "RUNNING" <=> t = next
    BY <2>1, <2>2
  <2>8. Range(threadHead') = {t \in Thread : state'[t] = "READY"}
    BY <2>1, <2>2, <2>3, <2>5
  <2>9. Placed(threadCurrent', state', threadHead')
    BY <2>2, <2>5, <2>6, <2>7, <2>8 DEF Placed
  <2>. QED
    BY <1>2, <2>1, <2>2, <2>9
<1>. QED
  BY <1>1, <1>2 DEF Reschedule, MustSwap

(***************************************************************************)
(* The inductive invariant.                                                *)
(***************************************************************************)

\* A thread has the CPU only after OS_Start, and a thread in the timeout list waits
\* for a semaphore: without that a timeout could not find the list to leave.
KernelInv ==
    /\ TypeOK
    /\ OnePlace
    /\ SemAccounting
    /\ threadCurrent # NoThread => threadSwapEnabled
    /\ Distinct(timeoutHead)
    /\ \A t \in Threads(timeoutHead) : semaphorePending[t] # NoSemaphore

\* What the scheduler's lists and the semaphores' lists each contribute.
SchedInv ==
    /\ Placed(threadCurrent, state, threadHead)
    /\ threadCurrent \in Thread \cup {NoThread}
    /\ threadCurrent # NoThread => threadSwapEnabled
    /\ needReschedule \in {0, 2, 3}
    /\ state[Idle] \in {"READY", "RUNNING"}

SemInv ==
    /\ semCount \in [Semaphore -> Int]
    /\ semHead \in [Semaphore -> Seq(Thread)]
    /\ semaphorePending \in [Thread -> Semaphore \cup {NoSemaphore}]
    /\ \A s \in Semaphore :
          /\ IsInjective(semHead[s])
          /\ Range(semHead[s]) = {t \in Thread : semaphorePending[t] = s}
    /\ SemAccounting

TimeInv ==
    /\ timeoutHead \in Seq(Timeout)
    /\ Distinct(timeoutHead)
    /\ \A t \in Threads(timeoutHead) : semaphorePending[t] # NoSemaphore

RestInv ==
    /\ threadSwapEnabled \in BOOLEAN
    /\ priority \in [Thread -> Priority]
    /\ returnCode \in [Thread -> {0, -1}]
    /\ threadTime \in 0 .. TimeWrap - 1
    /\ isr \in {"none", "body", "tick", "ticked"}

\* Who waits for a semaphore is pending.
WaitInv == \A t \in Thread : semaphorePending[t] # NoSemaphore => state[t] = "PEND"

LEMMA KernelInvParts ==
    KernelInv <=> SchedInv /\ SemInv /\ TimeInv /\ RestInv /\ WaitInv
  BY DEF KernelInv, TypeOK, OnePlace, SchedInv, Placed, SemInv, TimeInv, RestInv, WaitInv

LEMMA KernelInvPartsNext ==
    KernelInv' <=> SchedInv' /\ SemInv' /\ TimeInv' /\ RestInv' /\ WaitInv'
  BY KernelInvParts, PTL

LEMMA InitEstablishes == KernelInit => KernelInv
<1>. SUFFICES ASSUME KernelInit PROVE KernelInv
  OBVIOUS
<1>1. Idle \in Thread /\ NoThread \notin Thread /\ 0 \in Priority
  BY KernelAssumption
<1>2. SchedInv
  <2>1. <<Idle>> \in Seq(Thread)
    BY <1>1
  <2>2. DOMAIN <<Idle>> = {1} /\ <<Idle>>[1] = Idle
    BY <1>1
  <2>3. IsInjective(<<Idle>>) /\ Range(<<Idle>>) = {Idle}
    BY <2>2 DEF IsInjective, Range
  <2>. QED
    BY <1>1, <2>1, <2>3 DEF KernelInit, SchedInv, Placed, ThreadState
<1>3. <<>> \in Seq(Thread) /\ <<>> \in Seq(Timeout) /\ IsInjective(<<>>) /\ Range(<<>>) = {}
  BY DEF IsInjective, Range
<1>4. SemInv
  <2>1. ASSUME NEW s \in Semaphore
        PROVE  InitialCount[s] \in Int /\ InitialCount[s] >= 0
    <3>1. InitialCount[s] \in 0 .. MaxCount
      BY KernelAssumption
    <3>2. MaxCount \in Nat
      BY KernelAssumption
    <3>. QED
      BY <3>1, <3>2
  <2>2. semCount \in [Semaphore -> Int]
    BY <2>1, KernelAssumption DEF KernelInit
  <2>3. SemAccounting
    BY <2>1 DEF KernelInit, SemAccounting
  <2>. QED
    BY <1>3, <2>2, <2>3, KernelAssumption DEF KernelInit, SemInv
<1>5. TimeInv
  BY <1>3 DEF KernelInit, TimeInv, Distinct, Threads
<1>6. RestInv
  <2>1. 0 \in 0 .. TimeWrap - 1
    BY TimeAssumption
  <2>. QED
    BY <1>1, <2>1 DEF KernelInit, RestInv
<1>7. WaitInv
  BY DEF KernelInit, WaitInv
<1>. QED
  BY <1>2, <1>4, <1>5, <1>6, <1>7, KernelInvParts

(***************************************************************************)
(* What the handlers do to each part of the invariant.                     *)
(***************************************************************************)

\* A handler that wakes, creates, moves or blocks threads and ends in
\* OS_ThreadReschedule preserves the scheduler's part: the idle thread is ready
\* when the running one blocks.
LEMMA SchedPreserved ==
    ASSUME SchedInv,
           NEW roundRobin \in BOOLEAN, NEW ready \in Seq(Thread), NEW st \in [Thread -> ThreadState],
           IsInjective(ready),
           Range(ready) = {t \in Thread : st[t] = "READY"},
           \A t \in Thread : st[t] = "RUNNING" => t = threadCurrent,
           st[Idle] \in {"READY", "RUNNING"},
           threadSwapEnabled => threadSwapEnabled',
           threadCurrent # NoThread =>
               \/ st[threadCurrent] = "RUNNING"
               \/ st[threadCurrent] = "PEND" /\ isr' = "none",
           Reschedule(roundRobin, ready, st)
    PROVE  /\ SchedInv'
           /\ \A t \in Thread : state'[t] = "PEND" <=> st[t] = "PEND"
<1>1. Idle \in Thread /\ NoThread \notin Thread
  BY KernelAssumption
<1>2. /\ threadCurrent \in Thread \cup {NoThread}
      /\ needReschedule \in {0, 2, 3}
      /\ threadCurrent # NoThread => threadSwapEnabled'
  BY DEF SchedInv
<1>3. ASSUME threadCurrent # NoThread, st[threadCurrent] = "PEND"
      PROVE  ready # <<>>
  <2>1. Idle \in Range(ready)
    BY <1>1, <1>3
  <2>. QED
    BY <2>1 DEF Range
<1>4. threadCurrent # NoThread =>
        /\ threadSwapEnabled'
        /\ \/ st[threadCurrent] = "RUNNING"
           \/ st[threadCurrent] = "PEND" /\ ready # <<>> /\ isr' = "none"
  BY <1>2, <1>3
<1>5. /\ Placed(threadCurrent', state', threadHead')
      /\ threadCurrent' \in Thread \cup {NoThread}
      /\ threadCurrent' # NoThread => threadSwapEnabled'
      /\ needReschedule' \in {0, 2, 3}
      /\ \A t \in Thread : state'[t] \in {"READY", "RUNNING"} <=> st[t] \in {"READY", "RUNNING"}
      /\ \A t \in Thread : state'[t] = "PEND" <=> st[t] = "PEND"
  BY <1>1, <1>2, <1>4, RescheduleProperties
<1>. QED
  BY <1>1, <1>5 DEF SchedInv

\* A thread that could not run is inserted into the ready list.
LEMMA ReadyInserted ==
    ASSUME SchedInv, NEW thread \in Thread, state[thread] \in {"NONE", "PEND"}, NEW prio
    PROVE  LET ready == PriorityInsert(threadHead, thread, prio)
               st == [state EXCEPT ![thread] = "READY"]
           IN  /\ ready \in Seq(Thread)
               /\ IsInjective(ready)
               /\ st \in [Thread -> ThreadState]
               /\ Range(ready) = {t \in Thread : st[t] = "READY"}
               /\ \A t \in Thread : st[t] = "RUNNING" <=> t = threadCurrent
               /\ st[Idle] \in {"READY", "RUNNING"}
               /\ \A t \in Thread : st[t] = "PEND" <=> t # thread /\ state[t] = "PEND"
<1>. DEFINE ready == PriorityInsert(threadHead, thread, prio)
            st == [state EXCEPT ![thread] = "READY"]
<1>1. /\ threadHead \in Seq(Thread)
      /\ IsInjective(threadHead)
      /\ Range(threadHead) = {t \in Thread : state[t] = "READY"}
      /\ state \in [Thread -> ThreadState]
      /\ \A t \in Thread : state[t] = "RUNNING" <=> t = threadCurrent
      /\ state[Idle] \in {"READY", "RUNNING"}
  BY DEF SchedInv, Placed
<1>2. /\ ready \in Seq(Thread)
      /\ IsInjective(ready)
      /\ Range(ready) = Range(threadHead) \cup {thread}
  BY <1>1, PriorityInsertProperties
<1>3. st \in [Thread -> ThreadState]
  BY <1>1 DEF ThreadState
<1>4. \A t \in Thread : st[t] = IF t = thread THEN "READY" ELSE state[t]
  BY <1>1
<1>. HIDE DEF ready, st
<1>5. Range(ready) = {t \in Thread : st[t] = "READY"}
  BY <1>1, <1>2, <1>4
<1>6. \A t \in Thread : st[t] = "RUNNING" <=> t = threadCurrent
  BY <1>1, <1>4
<1>7. st[Idle] \in {"READY", "RUNNING"}
  BY <1>1, <1>4, KernelAssumption
<1>8. \A t \in Thread : st[t] = "PEND" <=> t # thread /\ state[t] = "PEND"
  BY <1>4
<1>. QED
  BY <1>2, <1>3, <1>5, <1>6, <1>7, <1>8 DEF ready, st

\* A thread joins the list of the semaphore it waits for.
LEMMA SemJoined ==
    ASSUME SemInv, NEW self \in Thread, NEW s \in Semaphore,
           semaphorePending[self] = NoSemaphore,
           semCount[s] <= 0,
           semCount' = [semCount EXCEPT ![s] = @ - 1],
           semHead' = [semHead EXCEPT ![s] = PriorityInsert(@, self, priority)],
           semaphorePending' = [semaphorePending EXCEPT ![self] = s]
    PROVE  SemInv'
<1>. DEFINE list == PriorityInsert(semHead[s], self, priority)
<1>0. NoSemaphore \notin Semaphore
  BY KernelAssumption
<1>1. /\ semHead[s] \in Seq(Thread)
      /\ IsInjective(semHead[s])
      /\ Range(semHead[s]) = {t \in Thread : semaphorePending[t] = s}
      /\ self \notin Range(semHead[s])
  BY <1>0 DEF SemInv
<1>2. /\ list \in Seq(Thread)
      /\ Len(list) = Len(semHead[s]) + 1
      /\ IsInjective(list)
      /\ Range(list) = Range(semHead[s]) \cup {self}
  BY <1>1, PriorityInsertProperties
<1>3. \A r \in Semaphore : semHead'[r] = IF r = s THEN list ELSE semHead[r]
  BY DEF SemInv
<1>. HIDE DEF list
<1>4. semCount' \in [Semaphore -> Int] /\ semaphorePending' \in [Thread -> Semaphore \cup {NoSemaphore}]
  BY DEF SemInv
<1>5. semHead' \in [Semaphore -> Seq(Thread)]
  BY <1>2, <1>3 DEF SemInv
<1>6. \A r \in Semaphore : IsInjective(semHead'[r])
  BY <1>2, <1>3 DEF SemInv
<1>7. \A r \in Semaphore : Range(semHead'[r]) = {t \in Thread : semaphorePending'[t] = r}
  BY <1>0, <1>1, <1>2, <1>3 DEF SemInv
<1>8. SemAccounting'
  <2>1. Len(semHead[s]) = - semCount[s] /\ semCount[s] \in Int
    BY DEF SemInv, SemAccounting
  <2>2. semCount'[s] = semCount[s] - 1 /\ \A r \in Semaphore : r # s => semCount'[r] = semCount[r]
    BY DEF SemInv
  <2>3. Len(semHead'[s]) = - semCount'[s] /\ semCount'[s] < 0
    BY <1>2, <1>3, <2>1, <2>2
  <2>. QED
    BY <1>3, <2>2, <2>3 DEF SemInv, SemAccounting
<1>. QED
  BY <1>4, <1>5, <1>6, <1>7, <1>8 DEF SemInv

\* A thread leaves the list of the semaphore it waited for, woken or timed out.
LEMMA SemLeft ==
    ASSUME SemInv, NEW thread \in Thread, NEW s \in Semaphore,
           semaphorePending[thread] = s,
           semCount' = [semCount EXCEPT ![s] = @ + 1],
           semHead' = [semHead EXCEPT ![s] = PriorityRemove(@, thread)],
           semaphorePending' = [semaphorePending EXCEPT ![thread] = NoSemaphore]
    PROVE  SemInv'
<1>. DEFINE list == PriorityRemove(semHead[s], thread)
<1>0. NoSemaphore \notin Semaphore
  BY KernelAssumption
<1>1. /\ semHead[s] \in Seq(Thread)
      /\ IsInjective(semHead[s])
      /\ Range(semHead[s]) = {t \in Thread : semaphorePending[t] = s}
      /\ thread \in Range(semHead[s])
  BY DEF SemInv
<1>2. /\ list \in Seq(Thread)
      /\ Len(list) = Len(semHead[s]) - 1
      /\ IsInjective(list)
      /\ Range(list) = Range(semHead[s]) \ {thread}
  BY <1>1, PriorityRemoveProperties
<1>3. \A r \in Semaphore : semHead'[r] = IF r = s THEN list ELSE semHead[r]
  BY DEF SemInv
<1>. HIDE DEF list
<1>4. semCount' \in [Semaphore -> Int] /\ semaphorePending' \in [Thread -> Semaphore \cup {NoSemaphore}]
  BY DEF SemInv
<1>5. semHead' \in [Semaphore -> Seq(Thread)]
  BY <1>2, <1>3 DEF SemInv
<1>6. \A r \in Semaphore : IsInjective(semHead'[r])
  BY <1>2, <1>3 DEF SemInv
<1>7. \A r \in Semaphore : Range(semHead'[r]) = {t \in Thread : semaphorePending'[t] = r}
  BY <1>0, <1>1, <1>2, <1>3 DEF SemInv
<1>8. SemAccounting'
  <2>1. Len(semHead[s]) > 0
    BY <1>1 DEF Range
  <2>2. Len(semHead[s]) = - semCount[s] /\ semCount[s] \in Int /\ semCount[s] < 0
    BY <2>1 DEF SemInv, SemAccounting
  <2>3. semCount'[s] = semCount[s] + 1 /\ \A r \in Semaphore : r # s => semCount'[r] = semCount[r]
    BY DEF SemInv
  <2>4. Len(semHead'[s]) = IF semCount'[s] < 0 THEN - semCount'[s] ELSE 0
    BY <1>2, <1>3, <2>2, <2>3
  <2>. QED
    BY <1>3, <2>3, <2>4 DEF SemInv, SemAccounting
<1>. QED
  BY <1>4, <1>5, <1>6, <1>7, <1>8 DEF SemInv

\* A thread whose wait is over leaves the timeout list.
LEMMA TimeLeft ==
    ASSUME SemInv, TimeInv, NEW thread \in Thread,
           timeoutHead' = TimeoutRemove(timeoutHead, thread),
           semaphorePending' = [semaphorePending EXCEPT ![thread] = NoSemaphore]
    PROVE  TimeInv'
<1>1. /\ timeoutHead' \in Seq(Timeout)
      /\ Threads(timeoutHead') = Threads(timeoutHead) \ {thread}
      /\ Distinct(timeoutHead')
  BY TimeoutRemoveProperties DEF TimeInv
<1>2. Threads(timeoutHead) \subseteq Thread
  <2>1. \A i \in DOMAIN timeoutHead : timeoutHead[i].thread \in Thread
    <3>1. \A i \in DOMAIN timeoutHead : timeoutHead[i] \in Timeout
      BY DEF TimeInv
    <3>. QED
      BY <3>1 DEF Timeout
  <2>. QED
    BY <2>1 DEF Threads, Range
<1>3. ASSUME NEW t \in Threads(timeoutHead')
      PROVE  semaphorePending'[t] # NoSemaphore
  <2>1. t # thread /\ t \in Threads(timeoutHead) /\ t \in Thread
    BY <1>1, <1>2
  <2>. QED
    BY <2>1 DEF TimeInv, SemInv
<1>. QED
  BY <1>1, <1>3 DEF TimeInv

\* What leaves the lists of waiting threads alone preserves their part.
LEMMA WaitsUnchanged ==
    ASSUME SemInv, TimeInv, UNCHANGED <<semCount, waitVars>>
    PROVE  SemInv' /\ TimeInv'
<1>1. SemInv'
  BY DEF SemInv, SemAccounting, waitVars
<1>2. TimeInv'
  BY DEF TimeInv, Threads, Distinct, waitVars
<1>. QED
  BY <1>1, <1>2

\* What leaves the CPU and the ready list alone preserves the scheduler's part.
LEMMA SchedUnchanged ==
    ASSUME SchedInv, UNCHANGED <<threadSwapEnabled, schedVars>>
    PROVE  SchedInv'
  BY DEF SchedInv, Placed, schedVars

\* A thread that runs waits nowhere.
LEMMA RunningWaitsNowhere ==
    ASSUME KernelInv, NEW self \in Client, Running(self)
    PROVE  /\ self \in Thread /\ self # Idle /\ self # NoThread
           /\ state[self] = "RUNNING"
           /\ threadCurrent = self
           /\ semaphorePending[self] = NoSemaphore
           /\ isr = "none"
<1>1. self \in Thread /\ self # Idle /\ self # NoThread
  BY KernelAssumption DEF Client
<1>2. state[self] = "RUNNING"
  BY <1>1 DEF KernelInv, OnePlace, Running
<1>3. semaphorePending[self] = NoSemaphore
  BY <1>1, <1>2 DEF KernelInv, OnePlace
<1>. QED
  BY <1>1, <1>2, <1>3 DEF Running

(***************************************************************************)
(* Each action preserves the invariant.                                    *)
(***************************************************************************)

LEMMA ThreadCreatePreserves ==
    ASSUME KernelInv, NEW t \in Client, NEW p \in Priority, ThreadCreate(t, p)
    PROVE  KernelInv'
<1>. DEFINE ready == PriorityInsert(threadHead, t, priority')
            st == [state EXCEPT ![t] = "READY"]
<1>1. SchedInv /\ SemInv /\ TimeInv /\ RestInv /\ WaitInv
  BY KernelInvParts
<1>2. t \in Thread /\ state[t] = "NONE"
  BY DEF ThreadCreate, Client
<1>3. Reschedule(FALSE, ready, st) /\ UNCHANGED threadSwapEnabled
  BY DEF ThreadCreate
<1>4. /\ ready \in Seq(Thread)
      /\ IsInjective(ready)
      /\ st \in [Thread -> ThreadState]
      /\ Range(ready) = {u \in Thread : st[u] = "READY"}
      /\ \A u \in Thread : st[u] = "RUNNING" <=> u = threadCurrent
      /\ st[Idle] \in {"READY", "RUNNING"}
      /\ \A u \in Thread : st[u] = "PEND" <=> u # t /\ state[u] = "PEND"
  BY <1>1, <1>2, ReadyInserted
<1>. HIDE DEF ready, st
<1>5. SchedInv' /\ \A u \in Thread : state'[u] = "PEND" <=> st[u] = "PEND"
  <2>1. threadCurrent # NoThread => st[threadCurrent] = "RUNNING"
    BY <1>1, <1>4 DEF SchedInv
  <2>. QED
    BY <1>1, <1>3, <1>4, <2>1, SchedPreserved
<1>6. UNCHANGED <<semCount, semHead, semaphorePending, timeoutHead>>
  BY DEF ThreadCreate
<1>7. SemInv' /\ TimeInv'
  BY <1>1, <1>6 DEF SemInv, SemAccounting, TimeInv, Threads, Distinct
<1>8. RestInv'
  BY <1>1, <1>2 DEF RestInv, ThreadCreate
<1>9. WaitInv'
  BY <1>1, <1>2, <1>4, <1>5, <1>6 DEF WaitInv
<1>. QED
  BY <1>5, <1>7, <1>8, <1>9, KernelInvPartsNext

LEMMA ThreadExitPreserves ==
    ASSUME KernelInv, NEW self \in Client, Running(self), ThreadExit(self)
    PROVE  KernelInv'
<1>. DEFINE st == [state EXCEPT ![self] = "PEND"]
<1>1. SchedInv /\ SemInv /\ TimeInv /\ RestInv /\ WaitInv
  BY KernelInvParts
<1>2. /\ self \in Thread /\ self # Idle /\ threadCurrent = self
      /\ state[self] = "RUNNING" /\ isr = "none"
  BY RunningWaitsNowhere
<1>3. /\ Reschedule(FALSE, threadHead, st)
      /\ UNCHANGED <<threadSwapEnabled, priority, semCount, waitVars, threadTime, isr>>
  BY DEF ThreadExit
<1>4. st \in [Thread -> ThreadState] /\ \A u \in Thread : st[u] = IF u = self THEN "PEND" ELSE state[u]
  BY <1>1, <1>2 DEF SchedInv, Placed, ThreadState
<1>. HIDE DEF st
<1>5. SchedInv' /\ \A u \in Thread : state'[u] = "PEND" <=> st[u] = "PEND"
  <2>1. /\ threadHead \in Seq(Thread)
        /\ IsInjective(threadHead)
        /\ Range(threadHead) = {u \in Thread : st[u] = "READY"}
        /\ \A u \in Thread : st[u] = "RUNNING" => u = threadCurrent
    BY <1>1, <1>2, <1>4 DEF SchedInv, Placed
  <2>2. st[Idle] \in {"READY", "RUNNING"}
    BY <1>1, <1>2, <1>4, KernelAssumption DEF SchedInv
  <2>3. st[threadCurrent] = "PEND" /\ isr' = "none"
    BY <1>2, <1>3, <1>4
  <2>. QED
    BY <1>1, <1>3, <1>4, <2>1, <2>2, <2>3, SchedPreserved
<1>6. SemInv' /\ TimeInv'
  BY <1>1, <1>3, WaitsUnchanged
<1>7. RestInv'
  BY <1>1, <1>3 DEF RestInv, waitVars
<1>8. WaitInv'
  BY <1>1, <1>3, <1>4, <1>5 DEF WaitInv, waitVars
<1>. QED
  BY <1>5, <1>6, <1>7, <1>8, KernelInvPartsNext

LEMMA ThreadFreePreserves ==
    ASSUME KernelInv, NEW t \in Client, Exited(t), ThreadFree(t)
    PROVE  KernelInv'
<1>1. SchedInv /\ SemInv /\ TimeInv /\ RestInv /\ WaitInv
  BY KernelInvParts
<1>2. t \in Thread /\ t # Idle /\ state[t] = "PEND" /\ semaphorePending[t] = NoSemaphore
  BY DEF Client, Exited
<1>3. \A u \in Thread : state'[u] = IF u = t THEN "NONE" ELSE state[u]
  BY <1>1 DEF ThreadFree, SchedInv, Placed
<1>4. UNCHANGED <<threadSwapEnabled, threadCurrent, priority, threadHead, semCount, waitVars,
                   threadTime, needReschedule, isr>>
  BY DEF ThreadFree
<1>5. SchedInv'
  <2>1. state' \in [Thread -> ThreadState]
    BY <1>1 DEF ThreadFree, SchedInv, Placed, ThreadState
  <2>2. Placed(threadCurrent', state', threadHead')
    BY <1>1, <1>2, <1>3, <1>4, <2>1 DEF SchedInv, Placed
  <2>3. state'[Idle] \in {"READY", "RUNNING"}
    BY <1>1, <1>2, <1>3, KernelAssumption DEF SchedInv
  <2>. QED
    BY <1>1, <1>4, <2>2, <2>3 DEF SchedInv
<1>6. SemInv' /\ TimeInv'
  BY <1>1, <1>4, WaitsUnchanged
<1>7. RestInv'
  BY <1>1, <1>4 DEF RestInv, waitVars
<1>8. WaitInv'
  BY <1>1, <1>2, <1>3, <1>4 DEF WaitInv, waitVars
<1>. QED
  BY <1>5, <1>6, <1>7, <1>8, KernelInvPartsNext

LEMMA ThreadPrioritySetPreserves ==
    ASSUME KernelInv, NEW t \in Client, NEW p \in Priority, ThreadPrioritySet(t, p)
    PROVE  KernelInv'
<1>1. SchedInv /\ SemInv /\ TimeInv /\ RestInv /\ WaitInv
  BY KernelInvParts
<1>2. t \in Thread
  BY DEF Client
<1>3. UNCHANGED <<threadSwapEnabled, semCount, waitVars, threadTime, isr>>
  BY DEF ThreadPrioritySet
<1>4. SchedInv' /\ \A u \in Thread : state'[u] = "PEND" <=> state[u] = "PEND"
  <2>1. CASE state[t] = "READY"
    <3>. DEFINE left == PriorityRemove(threadHead, t)
                ready == PriorityInsert(left, t, priority')
    <3>1. /\ threadHead \in Seq(Thread)
          /\ IsInjective(threadHead)
          /\ Range(threadHead) = {u \in Thread : state[u] = "READY"}
          /\ t \in Range(threadHead)
          /\ state \in [Thread -> ThreadState]
          /\ \A u \in Thread : state[u] = "RUNNING" <=> u = threadCurrent
          /\ state[Idle] \in {"READY", "RUNNING"}
      BY <1>1, <1>2, <2>1 DEF SchedInv, Placed
    <3>2. left \in Seq(Thread) /\ IsInjective(left) /\ Range(left) = Range(threadHead) \ {t}
      BY <3>1, PriorityRemoveProperties
    <3>. HIDE DEF left
    <3>3. ready \in Seq(Thread) /\ IsInjective(ready) /\ Range(ready) = Range(left) \cup {t}
      BY <1>2, <3>2, PriorityInsertProperties
    <3>4. Range(ready) = {u \in Thread : state[u] = "READY"}
      BY <3>1, <3>2, <3>3
    <3>5. Reschedule(FALSE, ready, state)
      BY <2>1 DEF ThreadPrioritySet, left
    <3>6. threadCurrent # NoThread => state[threadCurrent] = "RUNNING"
      BY <1>1, <3>1 DEF SchedInv
    <3>. HIDE DEF ready
    <3>. QED
      BY <1>1, <1>3, <3>1, <3>3, <3>4, <3>5, <3>6, SchedPreserved
  <2>2. CASE state[t] # "READY"
    <3>1. UNCHANGED schedVars
      BY <2>2 DEF ThreadPrioritySet
    <3>. QED
      BY <1>1, <1>3, <3>1, SchedUnchanged DEF schedVars
  <2>. QED
    BY <2>1, <2>2
<1>5. SemInv' /\ TimeInv'
  BY <1>1, <1>3, WaitsUnchanged
<1>6. RestInv'
  BY <1>1, <1>3 DEF RestInv, waitVars, ThreadPrioritySet
<1>7. WaitInv'
  BY <1>1, <1>3, <1>4 DEF WaitInv, waitVars
<1>. QED
  BY <1>4, <1>5, <1>6, <1>7, KernelInvPartsNext

\* OS_SemaphorePend, for as many ticks as the caller may have reckoned.
LEMMA SemaphorePendPreserves ==
    ASSUME KernelInv, NEW self \in Client, Running(self), NEW s \in Semaphore,
           NEW ticks \in Int, SemaphorePend(self, s, ticks)
    PROVE  KernelInv'
<1>1. SchedInv /\ SemInv /\ TimeInv /\ RestInv /\ WaitInv
  BY KernelInvParts
<1>2. /\ self \in Thread /\ self # Idle /\ threadCurrent = self
      /\ state[self] = "RUNNING" /\ isr = "none"
      /\ semaphorePending[self] = NoSemaphore
  BY RunningWaitsNowhere
<1>3. CASE PendAcquire(s)
  <2>1. UNCHANGED <<threadSwapEnabled, priority, schedVars, waitVars, threadTime, isr>>
    BY <1>3 DEF PendAcquire
  <2>2. SchedInv'
    BY <1>1, <2>1, SchedUnchanged
  <2>3. SemInv'
    <3>1. semCount' = [semCount EXCEPT ![s] = @ - 1] /\ semCount[s] > 0 /\ semCount \in [Semaphore -> Int]
      BY <1>1, <1>3 DEF PendAcquire, SemInv
    <3>2. semCount' \in [Semaphore -> Int]
      BY <3>1
    <3>3. SemAccounting'
      BY <1>1, <2>1, <3>1 DEF SemInv, SemAccounting, waitVars
    <3>. QED
      BY <1>1, <2>1, <3>2, <3>3 DEF SemInv, waitVars
  <2>4. TimeInv' /\ RestInv' /\ WaitInv'
    BY <1>1, <2>1 DEF TimeInv, Threads, Distinct, RestInv, WaitInv, waitVars, schedVars
  <2>. QED
    BY <2>2, <2>3, <2>4, KernelInvPartsNext
<1>4. CASE PendNoWait(s, ticks)
  <2>1. UNCHANGED kernelVars
    BY <1>4 DEF PendNoWait
  <2>2. UNCHANGED <<threadSwapEnabled, schedVars>> /\ UNCHANGED <<semCount, waitVars>>
    BY <2>1 DEF kernelVars, schedVars, waitVars
  <2>3. SchedInv' /\ SemInv' /\ TimeInv'
    BY <1>1, <2>2, SchedUnchanged, WaitsUnchanged
  <2>4. RestInv' /\ WaitInv'
    BY <1>1, <2>1 DEF kernelVars, RestInv, WaitInv
  <2>. QED
    BY <2>3, <2>4, KernelInvPartsNext
<1>5. CASE PendWait(self, s, ticks)
  <2>. DEFINE st == [state EXCEPT ![self] = "PEND"]
  <2>1. /\ semCount[s] <= 0
        /\ semCount' = [semCount EXCEPT ![s] = @ - 1]
        /\ semHead' = [semHead EXCEPT ![s] = PriorityInsert(@, self, priority)]
        /\ semaphorePending' = [semaphorePending EXCEPT ![self] = s]
        /\ UNCHANGED <<threadSwapEnabled, priority, returnCode, threadTime, isr>>
        /\ Reschedule(FALSE, threadHead, st)
    BY <1>5 DEF PendWait
  <2>2. st \in [Thread -> ThreadState] /\ \A u \in Thread : st[u] = IF u = self THEN "PEND" ELSE state[u]
    BY <1>1, <1>2 DEF SchedInv, Placed, ThreadState
  <2>. HIDE DEF st
  <2>3. SchedInv' /\ \A u \in Thread : state'[u] = "PEND" <=> st[u] = "PEND"
    <3>1. /\ threadHead \in Seq(Thread)
          /\ IsInjective(threadHead)
          /\ Range(threadHead) = {u \in Thread : st[u] = "READY"}
          /\ \A u \in Thread : st[u] = "RUNNING" => u = threadCurrent
      BY <1>1, <1>2, <2>2 DEF SchedInv, Placed
    <3>2. st[Idle] \in {"READY", "RUNNING"}
      BY <1>1, <1>2, <2>2, KernelAssumption DEF SchedInv
    <3>3. st[threadCurrent] = "PEND" /\ isr' = "none"
      BY <1>2, <2>1, <2>2
    <3>. QED
      BY <1>1, <2>1, <2>2, <3>1, <3>2, <3>3, SchedPreserved
  <2>4. SemInv'
    BY <1>1, <1>2, <2>1, SemJoined
  <2>5. \A t \in Thread : semaphorePending'[t] = IF t = self THEN s ELSE semaphorePending[t]
    BY <1>1, <2>1 DEF SemInv
  <2>6. TimeInv'
    <3>1. Threads(timeoutHead) \subseteq Thread
      <4>1. \A i \in DOMAIN timeoutHead : timeoutHead[i] \in Timeout
        BY <1>1 DEF TimeInv
      <4>2. \A i \in DOMAIN timeoutHead : timeoutHead[i].thread \in Thread
        BY <4>1 DEF Timeout
      <4>. QED
        BY <4>2 DEF Threads, Range
    <3>2. CASE ticks = FOREVER
      <4>1. timeoutHead' = timeoutHead
        BY <1>5, <3>2 DEF PendWait
      <4>. QED
        BY <1>1, <2>5, <3>1, <4>1, KernelAssumption DEF TimeInv, Threads
    <3>3. CASE ticks # FOREVER
      <4>1. Deadline(ticks) \in 0 .. TimeWrap - 1
        <5>1. ticks \in Int /\ threadTime \in Nat /\ TimeWrap \in Nat \ {0}
          BY <1>1, TimeAssumption DEF RestInv
        <5>. QED
          BY <5>1 DEF Deadline
      <4>2. timeoutHead' = TimeoutInsert(timeoutHead, self, Deadline(ticks))
        BY <1>5, <3>3 DEF PendWait
      <4>3. self \notin Threads(timeoutHead)
        BY <1>1, <1>2 DEF TimeInv
      <4>4. /\ timeoutHead' \in Seq(Timeout)
            /\ Threads(timeoutHead') = Threads(timeoutHead) \cup {self}
            /\ Distinct(timeoutHead')
        BY <1>1, <1>2, <4>1, <4>2, <4>3, TimeoutInsertProperties DEF TimeInv
      <4>5. ASSUME NEW t \in Threads(timeoutHead')
            PROVE  semaphorePending'[t] # NoSemaphore
        BY <1>1, <1>2, <2>5, <3>1, <4>4, KernelAssumption DEF TimeInv
      <4>. QED
        BY <4>4, <4>5 DEF TimeInv
    <3>. QED
      BY <3>2, <3>3
  <2>7. RestInv'
    BY <1>1, <2>1 DEF RestInv
  <2>8. WaitInv'
    BY <1>1, <2>2, <2>3, <2>5 DEF WaitInv
  <2>. QED
    BY <2>3, <2>4, <2>6, <2>7, <2>8, KernelInvPartsNext
<1>. QED
  BY <1>3, <1>4, <1>5 DEF SemaphorePend

\* A thread leaves the list it waits in for the ready list: what OS_SemaphorePost
\* and OS_ThreadTick share.
LEMMA WakeProperties ==
    ASSUME SchedInv, SemInv, TimeInv, WaitInv,
           NEW thread \in Thread, NEW s \in Semaphore,
           semaphorePending[thread] = s,
           semCount' = [semCount EXCEPT ![s] = @ + 1],
           timeoutHead' = TimeoutRemove(timeoutHead, thread),
           semHead' = [semHead EXCEPT ![s] = PriorityRemove(@, thread)],
           semaphorePending' = [semaphorePending EXCEPT ![thread] = NoSemaphore],
           \A t \in Thread : state[t] = "PEND" /\ t # thread => state'[t] = "PEND"
    PROVE  SemInv' /\ TimeInv' /\ WaitInv'
<1>1. SemInv'
  BY SemLeft
<1>2. TimeInv'
  BY TimeLeft
<1>3. \A t \in Thread : semaphorePending'[t] = IF t = thread THEN NoSemaphore ELSE semaphorePending[t]
  BY DEF SemInv
<1>4. WaitInv'
  BY <1>3 DEF WaitInv
<1>. QED
  BY <1>1, <1>2, <1>4

\* OS_SemaphorePost by a thread or a handler, at any time after OS_Init.
LEMMA SemaphorePostPreserves ==
    ASSUME KernelInv, NEW s \in Semaphore, SemaphorePost(s)
    PROVE  KernelInv'
<1>1. SchedInv /\ SemInv /\ TimeInv /\ RestInv /\ WaitInv
  BY KernelInvParts
<1>2. CASE PostFree(s)
  <2>1. UNCHANGED <<threadSwapEnabled, priority, schedVars, waitVars, threadTime, isr>>
    BY <1>2 DEF PostFree
  <2>2. SchedInv'
    BY <1>1, <2>1, SchedUnchanged
  <2>3. SemInv'
    <3>1. semCount' = [semCount EXCEPT ![s] = @ + 1] /\ semCount[s] >= 0 /\ semCount \in [Semaphore -> Int]
      BY <1>1, <1>2 DEF PostFree, SemInv
    <3>2. semCount' \in [Semaphore -> Int]
      BY <3>1
    <3>3. SemAccounting'
      BY <1>1, <2>1, <3>1 DEF SemInv, SemAccounting, waitVars
    <3>. QED
      BY <1>1, <2>1, <3>2, <3>3 DEF SemInv, waitVars
  <2>4. TimeInv' /\ RestInv' /\ WaitInv'
    BY <1>1, <2>1 DEF TimeInv, Threads, Distinct, RestInv, WaitInv, waitVars, schedVars
  <2>. QED
    BY <2>2, <2>3, <2>4, KernelInvPartsNext
<1>3. CASE PostWake(s)
  <2>. DEFINE thread == Head(semHead[s])
              ready == PriorityInsert(threadHead, thread, priority)
              st == [state EXCEPT ![thread] = "READY"]
  <2>1. thread \in Thread /\ semaphorePending[thread] = s
    <3>1. semCount[s] < 0 /\ semHead[s] \in Seq(Thread) /\ semCount[s] \in Int
      BY <1>1, <1>3 DEF PostWake, SemInv
    <3>2. Len(semHead[s]) = - semCount[s]
      BY <1>1, <3>1 DEF SemInv, SemAccounting
    <3>3. thread = semHead[s][1] /\ 1 \in DOMAIN semHead[s] /\ thread \in Thread
      BY <3>1, <3>2
    <3>4. thread \in Range(semHead[s])
      BY <3>3 DEF Range
    <3>. QED
      BY <1>1, <3>4 DEF SemInv
  <2>2. /\ semCount' = [semCount EXCEPT ![s] = @ + 1]
        /\ timeoutHead' = TimeoutRemove(timeoutHead, thread)
        /\ semHead' = [semHead EXCEPT ![s] = PriorityRemove(@, thread)]
        /\ semaphorePending' = [semaphorePending EXCEPT ![thread] = NoSemaphore]
        /\ returnCode' = [returnCode EXCEPT ![thread] = 0]
        /\ UNCHANGED <<threadSwapEnabled, priority, threadTime, isr>>
        /\ Reschedule(FALSE, ready, st)
    BY <1>3 DEF PostWake
  <2>. HIDE DEF thread
  <2>3. state[thread] \in {"NONE", "PEND"}
    BY <1>1, <2>1, KernelAssumption DEF WaitInv
  <2>4. /\ ready \in Seq(Thread)
        /\ IsInjective(ready)
        /\ st \in [Thread -> ThreadState]
        /\ Range(ready) = {u \in Thread : st[u] = "READY"}
        /\ \A u \in Thread : st[u] = "RUNNING" <=> u = threadCurrent
        /\ st[Idle] \in {"READY", "RUNNING"}
        /\ \A u \in Thread : st[u] = "PEND" <=> u # thread /\ state[u] = "PEND"
    BY <1>1, <2>1, <2>3, ReadyInserted
  <2>. HIDE DEF ready, st
  <2>5. SchedInv' /\ \A u \in Thread : state'[u] = "PEND" <=> st[u] = "PEND"
    <3>1. threadCurrent # NoThread => st[threadCurrent] = "RUNNING"
      BY <1>1, <2>4 DEF SchedInv
    <3>. QED
      BY <1>1, <2>2, <2>4, <3>1, SchedPreserved
  <2>6. \A t \in Thread : state[t] = "PEND" /\ t # thread => state'[t] = "PEND"
    BY <2>4, <2>5
  <2>7. SemInv' /\ TimeInv' /\ WaitInv'
    BY <1>1, <2>1, <2>2, <2>6, WakeProperties
  <2>8. RestInv'
    BY <1>1, <2>1, <2>2 DEF RestInv
  <2>. QED
    BY <2>5, <2>7, <2>8, KernelInvPartsNext
<1>. QED
  BY <1>2, <1>3 DEF SemaphorePost

LEMMA TickExpirePreserves ==
    ASSUME KernelInv, TickExpire
    PROVE  KernelInv'
<1>. DEFINE thread == Head(timeoutHead).thread
            s == semaphorePending[thread]
            ready == PriorityInsert(threadHead, thread, priority)
            st == [state EXCEPT ![thread] = "READY"]
<1>1. SchedInv /\ SemInv /\ TimeInv /\ RestInv /\ WaitInv
  BY KernelInvParts
<1>2. thread \in Thread /\ s \in Semaphore
  <2>1. timeoutHead # <<>> /\ timeoutHead \in Seq(Timeout)
    BY <1>1 DEF TickExpire, TimeoutDue, TimeInv
  <2>2. Head(timeoutHead) = timeoutHead[1] /\ 1 \in DOMAIN timeoutHead /\ Head(timeoutHead) \in Timeout
    BY <2>1
  <2>3. thread \in Thread
    BY <2>2 DEF Timeout
  <2>4. thread \in Threads(timeoutHead)
    BY <2>2 DEF Threads, Range
  <2>. QED
    BY <1>1, <2>3, <2>4 DEF TimeInv, SemInv
<1>3. /\ timeoutHead' = TimeoutRemove(timeoutHead, thread)
      /\ semCount' = [semCount EXCEPT ![s] = @ + 1]
      /\ semaphorePending' = [semaphorePending EXCEPT ![thread] = NoSemaphore]
      /\ returnCode' = [returnCode EXCEPT ![thread] = -1]
      /\ semHead' = [semHead EXCEPT ![s] = PriorityRemove(@, thread)]
      /\ threadHead' = ready
      /\ state' = st
      /\ UNCHANGED <<threadSwapEnabled, threadCurrent, needReschedule, priority, threadTime, isr>>
  BY DEF TickExpire
<1>. HIDE DEF thread, s
<1>4. state[thread] \in {"NONE", "PEND"}
  BY <1>1, <1>2, KernelAssumption DEF WaitInv, s
<1>5. /\ ready \in Seq(Thread)
      /\ IsInjective(ready)
      /\ st \in [Thread -> ThreadState]
      /\ Range(ready) = {u \in Thread : st[u] = "READY"}
      /\ \A u \in Thread : st[u] = "RUNNING" <=> u = threadCurrent
      /\ st[Idle] \in {"READY", "RUNNING"}
      /\ \A u \in Thread : st[u] = "PEND" <=> u # thread /\ state[u] = "PEND"
  BY <1>1, <1>2, <1>4, ReadyInserted
<1>. HIDE DEF ready, st
<1>6. SchedInv'
  BY <1>1, <1>3, <1>5 DEF SchedInv, Placed
<1>7. SemInv' /\ TimeInv' /\ WaitInv'
  <2>1. \A t \in Thread : state[t] = "PEND" /\ t # thread => state'[t] = "PEND"
    BY <1>3, <1>5
  <2>2. semaphorePending[thread] = s
    BY DEF s
  <2>. QED
    BY <1>1, <1>2, <1>3, <2>1, <2>2, WakeProperties
<1>8. RestInv'
  BY <1>1, <1>2, <1>3 DEF RestInv
<1>. QED
  BY <1>6, <1>7, <1>8, KernelInvPartsNext

\* OS_ThreadReschedule alone: the end of a tick, the end of a handler, OS_Start.
LEMMA RescheduleAlonePreserves ==
    ASSUME KernelInv, NEW roundRobin \in BOOLEAN,
           threadSwapEnabled => threadSwapEnabled',
           threadSwapEnabled' \in BOOLEAN,
           isr' \in {"none", "body", "tick", "ticked"},
           UNCHANGED <<priority, semCount, waitVars, threadTime>>,
           Reschedule(roundRobin, threadHead, state)
    PROVE  KernelInv'
<1>1. SchedInv /\ SemInv /\ TimeInv /\ RestInv /\ WaitInv
  BY KernelInvParts
<1>2. SchedInv' /\ \A u \in Thread : state'[u] = "PEND" <=> state[u] = "PEND"
  <2>1. /\ threadHead \in Seq(Thread)
        /\ state \in [Thread -> ThreadState]
        /\ IsInjective(threadHead)
        /\ Range(threadHead) = {u \in Thread : state[u] = "READY"}
        /\ \A u \in Thread : state[u] = "RUNNING" <=> u = threadCurrent
        /\ state[Idle] \in {"READY", "RUNNING"}
        /\ threadCurrent \in Thread \cup {NoThread}
    BY <1>1 DEF SchedInv, Placed
  <2>2. threadCurrent # NoThread => state[threadCurrent] = "RUNNING"
    BY <2>1
  <2>. QED
    BY <1>1, <2>1, <2>2, SchedPreserved
<1>3. SemInv' /\ TimeInv'
  BY <1>1, WaitsUnchanged
<1>4. RestInv'
  BY <1>1 DEF RestInv, waitVars
<1>5. WaitInv'
  BY <1>1, <1>2 DEF WaitInv, waitVars
<1>. QED
  BY <1>2, <1>3, <1>4, <1>5, KernelInvPartsNext

LEMMA InterruptPreserves ==
    ASSUME KernelInv, Interrupt(Semaphore)
    PROVE  KernelInv'
<1>1. SchedInv /\ SemInv /\ TimeInv /\ RestInv /\ WaitInv
  BY KernelInvParts
<1>2. ASSUME UNCHANGED <<threadSwapEnabled, schedVars, priority, semCount, waitVars>>,
             threadTime' \in 0 .. TimeWrap - 1,
             isr' \in {"none", "body", "tick", "ticked"}
      PROVE  KernelInv'
  <2>1. SchedInv' /\ SemInv' /\ TimeInv'
    BY <1>1, <1>2, SchedUnchanged, WaitsUnchanged
  <2>2. RestInv' /\ WaitInv'
    BY <1>1, <1>2 DEF RestInv, WaitInv, schedVars, waitVars
  <2>. QED
    BY <2>1, <2>2, KernelInvPartsNext
<1>3. CASE InterruptEntry
  BY <1>1, <1>2, <1>3 DEF InterruptEntry, RestInv
<1>4. CASE TickCount
  <2>1. (threadTime + 1) % TimeWrap \in 0 .. TimeWrap - 1
    <3>1. threadTime \in Nat /\ TimeWrap \in Nat \ {0}
      BY <1>1, TimeAssumption DEF RestInv
    <3>. QED
      BY <3>1
  <2>. QED
    BY <1>2, <1>4, <2>1 DEF TickCount
<1>5. CASE TickExpire
  BY <1>5, TickExpirePreserves
<1>6. CASE TickDone
  BY <1>1, <1>6, RescheduleAlonePreserves DEF TickDone, RestInv
<1>7. CASE \E s \in Semaphore : InterruptPost(s)
  BY <1>7, SemaphorePostPreserves DEF InterruptPost
<1>8. CASE InterruptExit
  <2>1. CASE needReschedule # 0
    <3>1. Reschedule(needReschedule = 3, threadHead, state) /\ (needReschedule = 3) \in BOOLEAN
      BY <1>8, <2>1 DEF InterruptExit
    <3>2. threadSwapEnabled' = threadSwapEnabled /\ isr' = "none" /\ threadSwapEnabled' \in BOOLEAN
          /\ UNCHANGED <<priority, semCount, waitVars, threadTime>>
      BY <1>1, <1>8 DEF InterruptExit, RestInv
    <3>. QED
      BY <3>1, <3>2, RescheduleAlonePreserves
  <2>2. CASE needReschedule = 0
    BY <1>1, <1>2, <1>8, <2>2 DEF InterruptExit, RestInv
  <2>. QED
    BY <2>1, <2>2
<1>. QED
  BY <1>3, <1>4, <1>5, <1>6, <1>7, <1>8 DEF Interrupt

(***************************************************************************)
(* The theorems.                                                           *)
(***************************************************************************)

\* Every call, whoever makes it, and every interrupt preserve the invariant.
LEMMA KernelStep == KernelInv /\ [KernelNext]_kernelVars => KernelInv'
<1>. SUFFICES ASSUME KernelInv, [KernelNext]_kernelVars
              PROVE  KernelInv'
  OBVIOUS
<1>1. CASE Boot
  <2>1. ASSUME NEW t \in Client, NEW p \in Priority, ThreadCreate(t, p)
        PROVE  KernelInv'
    BY <2>1, ThreadCreatePreserves
  <2>2. CASE OSStart
    <3>1. isr \in {"none", "body", "tick", "ticked"}
      BY DEF KernelInv, TypeOK
    <3>. QED
      BY <2>2, <3>1, RescheduleAlonePreserves DEF OSStart
  <2>. QED
    BY <1>1, <2>1, <2>2 DEF Boot
<1>2. ASSUME NEW self \in Client, Running(self),
             \/ \E s \in Semaphore, ticks \in Ticks \cup {0, FOREVER} : SemaphorePend(self, s, ticks)
             \/ \E s \in Semaphore : SemaphorePost(s)
             \/ \E t \in Client, p \in Priority : ThreadCreate(t, p)
             \/ \E t \in Client : Exited(t) /\ ThreadFree(t)
             \/ \E t \in Client, p \in Priority : ThreadPrioritySet(t, p)
             \/ ThreadExit(self)
      PROVE  KernelInv'
  <2>1. \A ticks \in Ticks \cup {0, FOREVER} : ticks \in Int
    BY TimeAssumption DEF FOREVER
  <2>. QED
    BY <1>2, <2>1, SemaphorePendPreserves, SemaphorePostPreserves, ThreadCreatePreserves,
       ThreadFreePreserves, ThreadPrioritySetPreserves, ThreadExitPreserves
<1>3. CASE ThreadCall
  BY <1>2, <1>3 DEF ThreadCall
<1>4. CASE Interrupt(Semaphore)
  BY <1>4, InterruptPreserves
<1>5. CASE UNCHANGED kernelVars
  <2>1. SchedInv /\ SemInv /\ TimeInv /\ RestInv /\ WaitInv
    BY KernelInvParts
  <2>2. UNCHANGED <<threadSwapEnabled, schedVars>> /\ UNCHANGED <<semCount, waitVars>>
    BY <1>5 DEF kernelVars, schedVars, waitVars
  <2>3. SchedInv' /\ SemInv' /\ TimeInv'
    BY <2>1, <2>2, SchedUnchanged, WaitsUnchanged
  <2>4. RestInv' /\ WaitInv'
    BY <1>5, <2>1 DEF kernelVars, RestInv, WaitInv
  <2>. QED
    BY <2>3, <2>4, KernelInvPartsNext
<1>. QED
  BY <1>1, <1>3, <1>4, <1>5 DEF KernelNext

\* The invariant holds in every state of the kernel, under every client.
THEOREM KernelInvariant == KernelSpec => []KernelInv
<1>1. KernelInit => KernelInv
  BY InitEstablishes
<1>. QED
  BY <1>1, KernelStep, PTL DEF KernelSpec

\* The kernel's data keeps its shape.
THEOREM KernelTypes == KernelSpec => []TypeOK
<1>1. KernelInv => TypeOK
  BY DEF KernelInv
<1>. QED
  BY <1>1, KernelInvariant, PTL

\* A thread is in one place only: the lists that share thread->next never corrupt
\* one another, and the idle thread can always take the CPU.
THEOREM ThreadsInOnePlace == KernelSpec => []OnePlace
<1>1. KernelInv => OnePlace
  BY DEF KernelInv
<1>. QED
  BY <1>1, KernelInvariant, PTL

\* The count of a semaphore tells who waits for it: no wakeup is lost.
THEOREM SemaphoresAccount == KernelSpec => []SemAccounting
<1>1. KernelInv => SemAccounting
  BY DEF KernelInv
<1>. QED
  BY <1>1, KernelInvariant, PTL

-----------------------------------------------------------------------------
(***************************************************************************)
(* What each call of the kernel does to the semaphores, and that they are  *)
(* the abstract ones, for any threads, semaphores and waits.               *)
(***************************************************************************)

(***************************************************************************)
(* What users of a semaphore see of the kernel: its count, who waits for   *)
(* what, and who may time out.                                             *)
(***************************************************************************)

Timed == Threads(timeoutHead)

\* A wait takes one from the count; who finds it too low waits, with a time or for ever.
LEMMA PendEffect ==
    ASSUME KernelInv, NEW self \in Client, Running(self), NEW s \in Semaphore,
           NEW ticks \in Ticks \cup {FOREVER}, SemaphorePend(self, s, ticks)
    PROVE  /\ semCount' = [semCount EXCEPT ![s] = @ - 1]
           /\ \/ semCount[s] > 0 /\ UNCHANGED <<semaphorePending, Timed>>
              \/ /\ semCount[s] <= 0
                 /\ semaphorePending' = [semaphorePending EXCEPT ![self] = s]
                 /\ Timed' = Timed \cup IF ticks = FOREVER THEN {} ELSE {self}
<1>1. ticks # 0
  BY TimeAssumption DEF FOREVER
<1>2. CASE PendAcquire(s)
  BY <1>2 DEF PendAcquire, waitVars, Timed, Threads
<1>3. CASE PendWait(self, s, ticks)
  <2>1. /\ semCount[s] <= 0
        /\ semCount' = [semCount EXCEPT ![s] = @ - 1]
        /\ semaphorePending' = [semaphorePending EXCEPT ![self] = s]
    BY <1>3 DEF PendWait
  <2>2. CASE ticks = FOREVER
    <3>1. timeoutHead' = timeoutHead
      BY <1>3, <2>2 DEF PendWait
    <3>. QED
      BY <2>1, <2>2, <3>1 DEF Timed, Threads
  <2>3. CASE ticks # FOREVER
    <3>1. timeoutHead' = TimeoutInsert(timeoutHead, self, Deadline(ticks))
      BY <1>3, <2>3 DEF PendWait
    <3>2. ticks \in Nat /\ threadTime \in Nat /\ TimeWrap \in Nat \ {0}
      BY <2>3, TimeAssumption DEF KernelInv, TypeOK
    <3>3. Deadline(ticks) \in 0 .. TimeWrap - 1
      BY <3>2 DEF Deadline
    <3>4. self \in Thread /\ timeoutHead \in Seq(Timeout)
      BY DEF KernelInv, TypeOK, Client
    <3>5. Threads(timeoutHead') = Timed \cup {self}
      BY <3>1, <3>3, <3>4, TimeoutInsertProperties DEF Timed
    <3>. QED
      BY <2>1, <2>3, <3>5 DEF Timed
  <2>. QED
    BY <2>2, <2>3
<1>. QED
  BY <1>1, <1>2, <1>3 DEF SemaphorePend, PendNoWait

\* The first thread of a semaphore's list waits for it.
LEMMA PostWakesWaiter ==
    ASSUME KernelInv, NEW s \in Semaphore, PostWake(s)
    PROVE  Head(semHead[s]) \in Thread /\ semaphorePending[Head(semHead[s])] = s
<1>. DEFINE thread == Head(semHead[s])
<1>1. semCount[s] < 0 /\ semHead[s] \in Seq(Thread) /\ semCount[s] \in Int
  BY DEF PostWake, KernelInv, TypeOK
<1>2. Len(semHead[s]) = - semCount[s]
  BY <1>1 DEF KernelInv, SemAccounting
<1>3. thread = semHead[s][1] /\ 1 \in DOMAIN semHead[s] /\ thread \in Thread
  BY <1>1, <1>2
<1>4. thread \in Range(semHead[s])
  BY <1>3 DEF Range
<1>. QED
  BY <1>3, <1>4 DEF KernelInv, OnePlace

\* A post adds one to the count; if somebody waits, one of them does no longer.
LEMMA PostEffect ==
    ASSUME KernelInv, NEW s \in Semaphore, SemaphorePost(s)
    PROVE  /\ semCount' = [semCount EXCEPT ![s] = @ + 1]
           /\ \/ semCount[s] >= 0 /\ UNCHANGED <<semaphorePending, Timed, returnCode>>
              \/ /\ semCount[s] < 0 /\ Timed' \subseteq Timed
                 /\ \E t \in Thread :
                       /\ semaphorePending[t] = s
                       /\ semaphorePending' = [semaphorePending EXCEPT ![t] = NoSemaphore]
                       /\ returnCode' = [returnCode EXCEPT ![t] = 0]
<1>1. CASE PostFree(s)
  BY <1>1 DEF PostFree, waitVars, Timed, Threads
<1>2. CASE PostWake(s)
  <2>. DEFINE thread == Head(semHead[s])
  <2>1. thread \in Thread /\ semaphorePending[thread] = s
    BY <1>2, PostWakesWaiter
  <2>2. /\ semCount[s] < 0
        /\ semCount' = [semCount EXCEPT ![s] = @ + 1]
        /\ timeoutHead' = TimeoutRemove(timeoutHead, thread)
        /\ semaphorePending' = [semaphorePending EXCEPT ![thread] = NoSemaphore]
        /\ returnCode' = [returnCode EXCEPT ![thread] = 0]
    BY <1>2 DEF PostWake
  <2>. HIDE DEF thread
  <2>3. Timed' \subseteq Timed
    <3>1. timeoutHead \in Seq(Timeout) /\ Distinct(timeoutHead)
      BY DEF KernelInv, TypeOK
    <3>. QED
      BY <2>1, <2>2, <3>1, TimeoutRemoveProperties DEF Timed
  <2>. QED
    BY <2>1, <2>2, <2>3
<1>. QED
  BY <1>1, <1>2 DEF SemaphorePost

\* An interrupt whose handlers post nothing ends waits that have a time, and no others.
LEMMA InterruptEffect ==
    ASSUME KernelInv, Interrupt({})
    PROVE  \/ UNCHANGED <<semCount, semaphorePending, Timed, returnCode>>
           \/ /\ Timed' \subseteq Timed
              /\ \E t \in Thread :
                    /\ t \in Timed
                    /\ semCount' = [semCount EXCEPT ![semaphorePending[t]] = @ + 1]
                    /\ semaphorePending' = [semaphorePending EXCEPT ![t] = NoSemaphore]
                    /\ returnCode' = [returnCode EXCEPT ![t] = -1]
<1>1. CASE TickExpire
  <2>. DEFINE thread == Head(timeoutHead).thread
  <2>1. timeoutHead # <<>> /\ timeoutHead \in Seq(Timeout) /\ Distinct(timeoutHead)
    BY <1>1 DEF TickExpire, TimeoutDue, KernelInv, TypeOK
  <2>2. Head(timeoutHead) = timeoutHead[1] /\ 1 \in DOMAIN timeoutHead /\ Head(timeoutHead) \in Timeout
    BY <2>1
  <2>3. thread \in Thread /\ thread \in Timed
    BY <2>2 DEF Timeout, Timed, Threads, Range
  <2>4. /\ timeoutHead' = TimeoutRemove(timeoutHead, thread)
        /\ semCount' = [semCount EXCEPT ![semaphorePending[thread]] = @ + 1]
        /\ semaphorePending' = [semaphorePending EXCEPT ![thread] = NoSemaphore]
        /\ returnCode' = [returnCode EXCEPT ![thread] = -1]
    BY <1>1 DEF TickExpire
  <2>. HIDE DEF thread
  <2>5. Timed' \subseteq Timed
    BY <2>1, <2>3, <2>4, TimeoutRemoveProperties DEF Timed
  <2>. QED
    BY <2>3, <2>4, <2>5
<1>2. CASE InterruptEntry \/ TickCount \/ TickDone \/ InterruptExit
  BY <1>2 DEF InterruptEntry, TickCount, TickDone, InterruptExit, waitVars, Timed, Threads
<1>. QED
  BY <1>1, <1>2 DEF Interrupt

\* Before OS_Start nobody waits.
LEMMA BootEffect ==
    ASSUME Boot
    PROVE  UNCHANGED <<semCount, semaphorePending, Timed>>
  BY DEF Boot, ThreadCreate, OSStart, waitVars, Timed, Threads

(***************************************************************************)
(* The kernel's semaphores are the abstract ones.                          *)
(***************************************************************************)

Tokens == [s \in Semaphore |-> IF semCount[s] > 0 THEN semCount[s] ELSE 0]

Waiting == [s \in Semaphore |-> Range(semHead[s])]

\* A function that differs from another at one place.
LEMMA ExceptAt ==
    ASSUME NEW D, NEW f, NEW g, NEW d \in D, NEW v,
           f = [x \in D |-> f[x]], g = [x \in D |-> g[x]],
           g[d] = v, \A x \in D : x # d => g[x] = f[x]
    PROVE  g = [f EXCEPT ![d] = v]
  OBVIOUS

LEMMA AbstractFunctions ==
    /\ Tokens = [s \in Semaphore |-> Tokens[s]] /\ Tokens' = [s \in Semaphore |-> Tokens'[s]]
    /\ Waiting = [s \in Semaphore |-> Waiting[s]] /\ Waiting' = [s \in Semaphore |-> Waiting'[s]]
  BY DEF Tokens, Waiting

\* A wait that ends leaves the token count alone: somebody waited, so there was none.
LEMMA EndWaitImplements ==
    ASSUME KernelInv, NEW thread \in Thread, NEW s \in Semaphore, NEW result,
           semaphorePending[thread] = s,
           semCount' = [semCount EXCEPT ![s] = @ + 1],
           semHead' = [semHead EXCEPT ![s] = PriorityRemove(@, thread)],
           timeoutHead' = TimeoutRemove(timeoutHead, thread),
           returnCode' = [returnCode EXCEPT ![thread] = result]
    PROVE  Semaphores!EndWait(thread, s, result)
<1>1. /\ semHead \in [Semaphore -> Seq(Thread)] /\ semCount \in [Semaphore -> Int]
      /\ semHead[s] \in Seq(Thread)
      /\ IsInjective(semHead[s])
      /\ thread \in Range(semHead[s])
  BY DEF KernelInv, TypeOK, OnePlace
<1>2. semCount[s] < 0
  <2>1. Len(semHead[s]) > 0
    BY <1>1 DEF Range
  <2>. QED
    BY <1>1, <2>1 DEF KernelInv, SemAccounting
<1>3. Range(semHead'[s]) = Range(semHead[s]) \ {thread}
  BY <1>1, PriorityRemoveProperties
<1>4. Tokens' = Tokens
  <2>1. \A r \in Semaphore : semCount'[r] > 0 => r # s /\ semCount'[r] = semCount[r]
    BY <1>1, <1>2
  <2>2. \A r \in Semaphore : semCount[r] > 0 => r # s /\ semCount'[r] = semCount[r]
    BY <1>1, <1>2
  <2>. QED
    BY <2>1, <2>2 DEF Tokens
<1>5. Waiting' = [Waiting EXCEPT ![s] = @ \ {thread}]
  <2>1. \A r \in Semaphore : r # s => semHead'[r] = semHead[r]
    BY <1>1
  <2>2. Waiting'[s] = Waiting[s] \ {thread} /\ \A r \in Semaphore : r # s => Waiting'[r] = Waiting[r]
    BY <1>3, <2>1 DEF Waiting
  <2>. QED
    BY <2>2, AbstractFunctions, ExceptAt
<1>6. Timed' = Timed \ {thread}
  <2>1. timeoutHead \in Seq(Timeout) /\ Distinct(timeoutHead)
    BY DEF KernelInv, TypeOK
  <2>. QED
    BY <2>1, TimeoutRemoveProperties DEF Timed
<1>7. thread \in Waiting[s]
  BY <1>1 DEF Waiting
<1>. QED
  BY <1>4, <1>5, <1>6, <1>7 DEF Semaphores!EndWait, Tokens, Waiting, Timed, Threads

LEMMA PendImplements ==
    ASSUME KernelInv, NEW self \in Client, Running(self), NEW s \in Semaphore,
           NEW ticks \in Ticks \cup {0, FOREVER}, SemaphorePend(self, s, ticks)
    PROVE  [Semaphores!Next]_(Semaphores!vars)
<1>1. semCount \in [Semaphore -> Int] /\ semHead \in [Semaphore -> Seq(Thread)]
  BY DEF KernelInv, TypeOK
<1>2. self \in Thread /\ semaphorePending[self] = NoSemaphore
  BY RunningWaitsNowhere
<1>3. CASE PendAcquire(s)
  <2>1. /\ semCount[s] > 0
        /\ semCount' = [semCount EXCEPT ![s] = @ - 1]
        /\ UNCHANGED <<semHead, timeoutHead, returnCode>>
    BY <1>3 DEF PendAcquire, waitVars
  <2>2. \A r \in Semaphore : semCount'[r] = IF r = s THEN semCount[s] - 1 ELSE semCount[r]
    BY <1>1, <2>1
  <2>3. Tokens' = [Tokens EXCEPT ![s] = @ - 1] /\ Tokens[s] > 0
    <3>1. /\ Tokens'[s] = Tokens[s] - 1 /\ Tokens[s] > 0
          /\ \A r \in Semaphore : r # s => Tokens'[r] = Tokens[r]
      BY <1>1, <2>1, <2>2 DEF Tokens
    <3>. QED
      BY <3>1, AbstractFunctions, ExceptAt
  <2>4. Semaphores!Take(s)
    BY <2>1, <2>3 DEF Semaphores!Take, Tokens
  <2>. QED
    BY <1>2, <2>4 DEF Semaphores!Next
<1>4. CASE PendNoWait(s, ticks)
  BY <1>4 DEF PendNoWait, kernelVars, Semaphores!vars
<1>5. CASE PendWait(self, s, ticks)
  <2>1. /\ semCount[s] <= 0
        /\ semCount' = [semCount EXCEPT ![s] = @ - 1]
        /\ semHead' = [semHead EXCEPT ![s] = PriorityInsert(@, self, priority)]
        /\ UNCHANGED returnCode
    BY <1>5 DEF PendWait
  <2>2. Tokens[s] = 0 /\ Tokens' = Tokens
    <3>1. \A r \in Semaphore : semCount'[r] > 0 => r # s /\ semCount'[r] = semCount[r]
      BY <1>1, <2>1
    <3>2. \A r \in Semaphore : semCount[r] > 0 => r # s /\ semCount'[r] = semCount[r]
      BY <1>1, <2>1
    <3>. QED
      BY <1>1, <2>1, <3>1, <3>2 DEF Tokens
  <2>3. Waiting' = [Waiting EXCEPT ![s] = @ \cup {self}]
    <3>1. Range(semHead'[s]) = Range(semHead[s]) \cup {self}
      BY <1>1, <1>2, <2>1, PriorityInsertProperties
    <3>2. \A r \in Semaphore : r # s => semHead'[r] = semHead[r]
      BY <1>1, <2>1
    <3>3. Waiting'[s] = Waiting[s] \cup {self} /\ \A r \in Semaphore : r # s => Waiting'[r] = Waiting[r]
      BY <3>1, <3>2 DEF Waiting
    <3>. QED
      BY <3>3, AbstractFunctions, ExceptAt
  <2>4. ~Semaphores!Waits(self)
    <3>1. NoSemaphore \notin Semaphore
      BY KernelAssumption
    <3>2. \A r \in Semaphore : self \notin Range(semHead[r])
      BY <1>2, <3>1 DEF KernelInv, OnePlace
    <3>. QED
      BY <3>2 DEF Semaphores!Waits
  <2>5. \E isTimed \in BOOLEAN : Timed' = IF isTimed THEN Timed \cup {self} ELSE Timed
    <3>1. ticks \in Ticks \cup {FOREVER}
      BY <1>5 DEF PendWait
    <3>. QED
      BY <2>1, <3>1, PendEffect DEF KernelInv
  <2>6. PICK isTimed \in BOOLEAN : Timed' = IF isTimed THEN Timed \cup {self} ELSE Timed
    BY <2>5
  <2>7. Semaphores!Wait(self, s, isTimed)
    BY <2>1, <2>2, <2>3, <2>4, <2>6 DEF Semaphores!Wait, Tokens, Waiting, Timed, Threads
  <2>. QED
    BY <1>2, <2>7 DEF Semaphores!Next
<1>. QED
  BY <1>3, <1>4, <1>5 DEF SemaphorePend

LEMMA PostImplements ==
    ASSUME KernelInv, NEW s \in Semaphore, SemaphorePost(s)
    PROVE  Semaphores!Next
<1>1. semCount \in [Semaphore -> Int] /\ semHead \in [Semaphore -> Seq(Thread)]
  BY DEF KernelInv, TypeOK
<1>2. CASE PostFree(s)
  <2>1. /\ semCount[s] >= 0
        /\ semCount' = [semCount EXCEPT ![s] = @ + 1]
        /\ UNCHANGED <<semHead, timeoutHead, returnCode>>
    BY <1>2 DEF PostFree, waitVars
  <2>2. Waiting[s] = {}
    <3>1. semHead[s] \in Seq(Thread) /\ Len(semHead[s]) = 0
      BY <1>1, <2>1 DEF KernelInv, SemAccounting
    <3>. QED
      BY <3>1 DEF Waiting, Range
  <2>3. \A r \in Semaphore : semCount'[r] = IF r = s THEN semCount[s] + 1 ELSE semCount[r]
    BY <1>1, <2>1
  <2>4. Tokens' = [Tokens EXCEPT ![s] = @ + 1]
    <3>1. Tokens'[s] = Tokens[s] + 1 /\ \A r \in Semaphore : r # s => Tokens'[r] = Tokens[r]
      BY <1>1, <2>1, <2>3 DEF Tokens
    <3>. QED
      BY <3>1, AbstractFunctions, ExceptAt
  <2>5. Semaphores!Keep(s)
    BY <2>1, <2>2, <2>4 DEF Semaphores!Keep, Tokens, Waiting
  <2>. QED
    BY <2>5 DEF Semaphores!Next
<1>3. CASE PostWake(s)
  <2>1. PICK thread \in Thread : thread = Head(semHead[s]) /\ semaphorePending[thread] = s
    BY <1>3, PostWakesWaiter
  <2>2. /\ semCount' = [semCount EXCEPT ![s] = @ + 1]
        /\ timeoutHead' = TimeoutRemove(timeoutHead, thread)
        /\ semHead' = [semHead EXCEPT ![s] = PriorityRemove(@, thread)]
        /\ returnCode' = [returnCode EXCEPT ![thread] = 0]
    BY <1>3, <2>1 DEF PostWake
  <2>3. Semaphores!Give(thread, s)
    BY <2>1, <2>2, EndWaitImplements DEF Semaphores!Give
  <2>. QED
    BY <2>1, <2>3 DEF Semaphores!Next
<1>. QED
  BY <1>2, <1>3 DEF SemaphorePost

LEMMA ExpireImplements ==
    ASSUME KernelInv, TickExpire
    PROVE  Semaphores!Next
<1>1. PICK thread \in Thread : thread = Head(timeoutHead).thread /\ thread \in Timed
  <2>1. timeoutHead # <<>> /\ timeoutHead \in Seq(Timeout)
    BY DEF TickExpire, TimeoutDue, KernelInv, TypeOK
  <2>2. Head(timeoutHead) = timeoutHead[1] /\ 1 \in DOMAIN timeoutHead /\ Head(timeoutHead) \in Timeout
    BY <2>1
  <2>. QED
    BY <2>2 DEF Timeout, Timed, Threads, Range
<1>2. PICK s \in Semaphore : s = semaphorePending[thread]
  BY <1>1 DEF Timed, KernelInv, TypeOK
<1>3. /\ timeoutHead' = TimeoutRemove(timeoutHead, thread)
      /\ semCount' = [semCount EXCEPT ![s] = @ + 1]
      /\ returnCode' = [returnCode EXCEPT ![thread] = -1]
      /\ semHead' = [semHead EXCEPT ![s] = PriorityRemove(@, thread)]
  BY <1>1, <1>2 DEF TickExpire
<1>4. Semaphores!EndWait(thread, s, -1)
  BY <1>1, <1>2, <1>3, EndWaitImplements
<1>5. Semaphores!RunOut(thread, s)
  BY <1>1, <1>4 DEF Semaphores!RunOut, Timed, Threads
<1>. QED
  BY <1>5 DEF Semaphores!Next

LEMMA CreateImplements ==
    ASSUME KernelInv, NEW t \in Client, NEW p \in Priority, ThreadCreate(t, p)
    PROVE  [Semaphores!Next]_(Semaphores!vars)
<1>1. /\ t \in Thread /\ state[t] = "NONE"
      /\ returnCode' = [returnCode EXCEPT ![t] = 0]
      /\ UNCHANGED <<semCount, semHead, timeoutHead>>
  BY DEF ThreadCreate, Client
<1>2. ~Semaphores!Waits(t)
  <2>1. NoSemaphore \notin Semaphore
    BY KernelAssumption
  <2>2. semaphorePending[t] = NoSemaphore
    BY <1>1 DEF KernelInv, OnePlace
  <2>3. \A r \in Semaphore : t \notin Range(semHead[r])
    BY <2>1, <2>2 DEF KernelInv, OnePlace
  <2>. QED
    BY <2>3 DEF Semaphores!Waits
<1>3. Semaphores!Start(t)
  BY <1>1, <1>2 DEF Semaphores!Start
<1>. QED
  BY <1>1, <1>3 DEF Semaphores!Next

LEMMA SemaphoreStepImplements ==
    ASSUME KernelInv, [KernelNext]_kernelVars
    PROVE  [Semaphores!Next]_(Semaphores!vars)
<1>1. ASSUME UNCHANGED <<semCount, waitVars>>
      PROVE  UNCHANGED Semaphores!vars
  BY <1>1 DEF waitVars, Semaphores!vars
<1>2. CASE Boot
  BY <1>1, <1>2, CreateImplements DEF Boot, OSStart
<1>3. CASE Interrupt(Semaphore)
  <2>1. CASE InterruptEntry \/ TickCount \/ TickDone \/ InterruptExit
    BY <1>1, <2>1 DEF InterruptEntry, TickCount, TickDone, InterruptExit
  <2>2. CASE TickExpire
    BY <2>2, ExpireImplements
  <2>3. CASE \E s \in Semaphore : InterruptPost(s)
    BY <2>3, PostImplements DEF InterruptPost
  <2>. QED
    BY <1>3, <2>1, <2>2, <2>3 DEF Interrupt
<1>4. ASSUME NEW self \in Client, Running(self),
             \/ \E t \in Client : ThreadFree(t)
             \/ \E t \in Client, p \in Priority : ThreadPrioritySet(t, p)
             \/ ThreadExit(self)
      PROVE  UNCHANGED Semaphores!vars
  BY <1>1, <1>4 DEF ThreadFree, ThreadPrioritySet, ThreadExit
<1>5. CASE ThreadCall
  BY <1>4, <1>5, PendImplements, PostImplements, CreateImplements DEF ThreadCall
<1>6. CASE UNCHANGED kernelVars
  BY <1>1, <1>6 DEF kernelVars, waitVars
<1>. QED
  BY <1>2, <1>3, <1>5, <1>6 DEF KernelNext

\* No post is lost or given twice, no wait both times out and takes the semaphore, and a
\* wait for ever ends only by a post: each call and each tick is one step of the abstract
\* semaphores or leaves them alone (OS_SemaphorePend, OS_SemaphorePost, OS_ThreadTick).
THEOREM SemaphoresAreCounting == KernelSpec => SemaphoresImplemented
<1>1. KernelInit => Semaphores!Init
  <2>. SUFFICES ASSUME KernelInit PROVE Semaphores!Init
    OBVIOUS
  <2>1. Range(<<>>) = {}
    BY DEF Range
  <2>2. Tokens = InitialCount
    <3>1. InitialCount \in [Semaphore -> 0 .. MaxCount] /\ MaxCount \in Nat
      BY KernelAssumption, Zenon
    <3>2. \A s \in Semaphore : InitialCount[s] \in Nat
      BY <3>1
    <3>3. Tokens = [s \in Semaphore |-> InitialCount[s]]
      BY <3>2 DEF Tokens, KernelInit
    <3>. QED
      BY <3>1, <3>3
  <2>. QED
    BY <2>1, <2>2 DEF KernelInit, Semaphores!Init, Tokens
<1>. QED
  BY <1>1, SemaphoreStepImplements, KernelInvariant, PTL
     DEF KernelSpec, SemaphoresImplemented, Semaphores!Spec

-----------------------------------------------------------------------------
(***************************************************************************)
(* The kernel's lists are in order, and the scheduler, which looks at the  *)
(* first of each alone, lets nobody run before a thread of a higher        *)
(* priority and wakes nobody late: for any threads, priorities and waits.  *)
(***************************************************************************)

(***************************************************************************)
(* The ready list.                                                         *)
(***************************************************************************)

Sorted(list, prio) == \A i, j \in DOMAIN list : i < j => prio[list[i]] >= prio[list[j]]

\* The higher the priority, the earlier.
Rank(prio) == [t \in Thread |-> 0 - prio[t]]

LEMMA SortedByRank ==
    ASSUME NEW list \in Seq(Thread), NEW prio \in [Thread -> Nat]
    PROVE  /\ Rank(prio) \in [Thread -> Int]
           /\ Sorted(list, prio) <=> KeySorted(list, Rank(prio))
<1>1. DOMAIN list = 1 .. Len(list) /\ \A i \in 1 .. Len(list) : list[i] \in Thread
  OBVIOUS
<1>2. \A t, u \in Thread : prio[t] >= prio[u] <=> Rank(prio)[t] <= Rank(prio)[u]
  <2>1. \A t \in Thread : Rank(prio)[t] = 0 - prio[t] /\ prio[t] \in Nat
    BY DEF Rank
  <2>. QED
    BY <2>1
<1>3. Rank(prio) \in [Thread -> Int]
  BY DEF Rank
<1>. QED
  BY <1>1, <1>2, <1>3 DEF Sorted, KeySorted

\* OS_ThreadPriorityInsert keeps the order.
LEMMA PriorityInsertSorts ==
    ASSUME NEW list \in Seq(Thread), NEW thread \in Thread, NEW prio \in [Thread -> Nat],
           Sorted(list, prio)
    PROVE  Sorted(PriorityInsert(list, thread, prio), prio)
<1>. DEFINE I == {i \in 1 .. Len(list) : prio[list[i]] < prio[thread]}
            result == PriorityInsert(list, thread, prio)
<1>1. result = LET k == IF I # {} THEN Min(I) ELSE 0
               IN  IF k = 0 THEN Append(list, thread) ELSE InsertAt(list, k, thread)
  BY DEF PriorityInsert, SelectInSeq
<1>2. I # {} => Min(I) \in I /\ \A y \in I : Min(I) <= y
  <2>1. I \subseteq Nat
    OBVIOUS
  <2>. HIDE DEF I
  <2>. QED
    BY <2>1, MinOfNat
<1>3. \A i \in 1 .. Len(list) : i \in I <=> prio[list[i]] < prio[thread]
  OBVIOUS
<1>4. I \subseteq 1 .. Len(list)
  OBVIOUS
<1>. HIDE DEF I, result
<1>5. /\ \A i \in 1 .. Len(list) : list[i] \in Thread /\ prio[list[i]] \in Nat
      /\ prio[thread] \in Nat /\ result \in Seq(Thread)
  BY PriorityInsertProperties DEF result
<1>6. KeySorted(list, Rank(prio)) /\ Rank(prio) \in [Thread -> Int]
  BY SortedByRank
<1>7. \A t \in Thread : Rank(prio)[t] = 0 - prio[t]
  BY DEF Rank
<1>8. CASE I = {}
  <2>1. result = Append(list, thread)
    BY <1>1, <1>8
  <2>2. \A i \in 1 .. Len(list) : Rank(prio)[list[i]] <= Rank(prio)[thread]
    BY <1>3, <1>5, <1>7, <1>8
  <2>3. KeySorted(result, Rank(prio))
    BY <1>6, <2>1, <2>2, AppendSorted
  <2>. QED
    BY <1>5, <2>3, SortedByRank DEF result
<1>9. CASE I # {}
  <2>1. PICK k \in 1 .. Len(list) :
          result = InsertAt(list, k, thread) /\ k \in I /\ \A y \in I : k <= y
    <3>1. PICK m \in I : m = Min(I) /\ \A y \in I : m <= y
      BY <1>2, <1>9
    <3>2. m \in 1 .. Len(list)
      BY <1>4
    <3>3. m # 0
      BY <3>2
    <3>4. result = InsertAt(list, m, thread)
      BY <1>1, <1>9, <3>1, <3>3
    <3>. QED
      BY <3>1, <3>2, <3>4
  <2>2. \A i \in 1 .. k - 1 : Rank(prio)[list[i]] <= Rank(prio)[thread]
    <3>1. \A i \in 1 .. k - 1 : i \in 1 .. Len(list) /\ ~(k <= i)
      OBVIOUS
    <3>2. \A i \in 1 .. k - 1 : ~(prio[list[i]] < prio[thread])
      BY <1>3, <2>1, <3>1
    <3>3. \A i \in 1 .. k - 1 : Rank(prio)[list[i]] = 0 - prio[list[i]] /\ prio[list[i]] \in Nat
      BY <1>5, <1>7, <3>1
    <3>4. Rank(prio)[thread] = 0 - prio[thread] /\ prio[thread] \in Nat
      BY <1>5, <1>7
    <3>. HIDE DEF Rank
    <3>. QED
      BY <3>2, <3>3, <3>4
  <2>3. \A i \in k .. Len(list) : Rank(prio)[thread] <= Rank(prio)[list[i]]
    <3>1. Rank(prio)[thread] <= Rank(prio)[list[k]]
      BY <1>3, <1>5, <1>7, <2>1
    <3>2. \A i \in k .. Len(list) : Rank(prio)[list[k]] <= Rank(prio)[list[i]]
      BY <1>5, <1>6 DEF KeySorted
    <3>3. \A i \in k .. Len(list) : Rank(prio)[list[i]] \in Int
      BY <1>5, <1>6
    <3>. QED
      BY <1>5, <1>6, <3>1, <3>2, <3>3
  <2>4. k \in 1 .. Len(list) + 1
    OBVIOUS
  <2>5. KeySorted(result, Rank(prio))
    BY <1>6, <2>1, <2>2, <2>3, <2>4, InsertSorted
  <2>. QED
    BY <1>5, <2>5, SortedByRank DEF result
<1>. QED
  BY <1>8, <1>9

\* OS_ThreadPriorityRemove keeps it too.
LEMMA PriorityRemoveSorts ==
    ASSUME NEW list \in Seq(Thread), NEW thread \in Range(list), NEW prio \in [Thread -> Nat],
           Sorted(list, prio)
    PROVE  Sorted(PriorityRemove(list, thread), prio)
<1>. DEFINE I == {i \in 1 .. Len(list) : list[i] = thread}
<1>1. PICK i \in 1 .. Len(list) : list[i] = thread
  BY DEF Range
<1>2. PriorityRemove(list, thread) = RemoveAt(list, Min(I))
  BY <1>1 DEF PriorityRemove, RemoveFirst, SelectInSeq
<1>3. I \subseteq Nat /\ I # {}
  BY <1>1
<1>4. Min(I) \in I
  <2>. HIDE DEF I
  <2>. QED BY <1>3, MinOfNat
<1>5. I \subseteq 1 .. Len(list)
  OBVIOUS
<1>. HIDE DEF I
<1>6. Min(I) \in 1 .. Len(list)
  BY <1>4, <1>5
<1>7. KeySorted(list, Rank(prio)) /\ Rank(prio) \in [Thread -> Int]
  BY SortedByRank
<1>8. KeySorted(RemoveAt(list, Min(I)), Rank(prio)) /\ RemoveAt(list, Min(I)) \in Seq(Thread)
  BY <1>6, <1>7, RemoveSorted, RemoveAtProperties
<1>. QED
  BY <1>2, <1>8, SortedByRank

\* The first of the list has the highest priority in it.
LEMMA HeadHighest ==
    ASSUME NEW list \in Seq(Thread), NEW prio \in [Thread -> Nat], Sorted(list, prio), list # <<>>
    PROVE  Head(list) \in Range(list) /\ \A t \in Range(list) : prio[t] <= prio[Head(list)]
<1>1. Head(list) = list[1] /\ 1 \in DOMAIN list /\ list[1] \in Thread
  OBVIOUS
<1>2. ASSUME NEW i \in DOMAIN list
      PROVE  prio[list[i]] <= prio[list[1]]
  <2>1. list[i] \in Thread /\ (i = 1 \/ 1 < i)
    OBVIOUS
  <2>. QED
    BY <1>1, <2>1 DEF Sorted
<1>. QED
  BY <1>1, <1>2 DEF Range

(***************************************************************************)
(* OS_ThreadReschedule.                                                    *)
(***************************************************************************)

\* Given a sorted list, it leaves one, and nobody ready has a higher priority than the
\* thread that has the CPU, unless it has left that to the end of an interrupt or to OS_Start.
LEMMA RescheduleSorts ==
    ASSUME NEW roundRobin \in BOOLEAN, NEW ready \in Seq(Thread), NEW st \in [Thread -> ThreadState],
           priority' \in [Thread -> Nat],
           threadCurrent \in Thread \cup {NoThread},
           needReschedule \in {0, 2, 3},
           IsInjective(ready),
           Sorted(ready, priority'),
           Range(ready) = {t \in Thread : st[t] = "READY"},
           threadCurrent # NoThread => st[threadCurrent] \in {"RUNNING", "PEND"},
           Reschedule(roundRobin, ready, st)
    PROVE  Sorted(threadHead', priority') /\ HighestRuns'
<1>1. CASE needReschedule' \in {2, 3} /\ threadHead' = ready
  BY <1>1 DEF HighestRuns
<1>2. CASE ~MustSwap(roundRobin, ready, st) /\ threadHead' = ready /\ UNCHANGED threadCurrent
  <2>1. CASE ready = <<>>
    BY <1>2, <2>1 DEF HighestRuns, Range
  <2>2. CASE ready # <<>>
    <3>1. threadCurrent \in Thread /\ priority'[threadCurrent] >= priority'[Head(ready)]
      <4>1. threadCurrent # NoThread /\ ~(priority'[threadCurrent] < priority'[Head(ready)])
        BY <1>2, <2>2 DEF MustSwap
      <4>2. Head(ready) \in Thread
        BY <2>2
      <4>. QED
        BY <4>1, <4>2
    <3>2. \A t \in Range(ready) : priority'[t] <= priority'[Head(ready)] /\ t \in Thread
      BY <2>2, HeadHighest
    <3>3. Head(ready) \in Thread
      BY <2>2
    <3>4. \A t \in Range(ready) : priority'[t] <= priority'[threadCurrent]
      BY <3>1, <3>2, <3>3
    <3>. QED
      BY <1>2, <3>4 DEF HighestRuns
  <2>. QED
    BY <2>1, <2>2
<1>3. CASE MustSwap(roundRobin, ready, st) /\ SwapTo(Head(ready), ready, st)
  <2>. DEFINE next == Head(ready)
              preempted == threadCurrent # NoThread /\ st[threadCurrent] = "RUNNING"
              queue == IF preempted THEN PriorityInsert(ready, threadCurrent, priority') ELSE ready
  <2>1. ready # <<>> /\ next \in Thread /\ next \in Range(ready)
        /\ \A t \in Range(ready) : priority'[t] <= priority'[next]
    BY <1>3, HeadHighest DEF MustSwap
  <2>2. threadCurrent' = next /\ threadHead' = PriorityRemove(queue, next)
    BY <1>3 DEF SwapTo
  <2>3. preempted => priority'[threadCurrent] <= priority'[next]
    <3>1. CASE preempted
      <4>1. priority'[threadCurrent] < priority'[next] \/ priority'[threadCurrent] = priority'[next]
        BY <1>3, <3>1 DEF MustSwap
      <4>2. threadCurrent \in Thread
        BY <3>1
      <4>. QED
        BY <2>1, <4>1, <4>2
    <3>. QED
      BY <3>1
  <2>4. /\ queue \in Seq(Thread) /\ IsInjective(queue) /\ Sorted(queue, priority')
        /\ next \in Range(queue)
        /\ \A t \in Range(queue) : priority'[t] <= priority'[next]
    <3>1. CASE preempted
      <4>1. threadCurrent \in Thread /\ threadCurrent \notin Range(ready)
        BY <3>1
      <4>2. queue = PriorityInsert(ready, threadCurrent, priority')
        BY <3>1
      <4>3. /\ queue \in Seq(Thread) /\ IsInjective(queue)
            /\ Range(queue) = Range(ready) \cup {threadCurrent}
        BY <4>1, <4>2, PriorityInsertProperties
      <4>4. Sorted(queue, priority')
        BY <4>1, <4>2, PriorityInsertSorts
      <4>. HIDE DEF next, queue
      <4>. QED
        BY <2>1, <2>3, <3>1, <4>3, <4>4
    <3>2. CASE ~preempted
      BY <2>1, <3>2
    <3>. QED
      BY <3>1, <3>2
  <2>. HIDE DEF next, queue
  <2>5. Range(threadHead') = Range(queue) \ {next} /\ Sorted(threadHead', priority')
    BY <2>2, <2>4, PriorityRemoveProperties, PriorityRemoveSorts
  <2>. QED
    BY <2>2, <2>4, <2>5 DEF HighestRuns
<1>. QED
  BY <1>1, <1>2, <1>3 DEF Reschedule

(***************************************************************************)
(* Each action keeps the ready list sorted and lets nobody with a higher   *)
(* priority wait.                                                          *)
(***************************************************************************)

ReadyKept ==
    /\ ReadySorted'
    /\ HighestRuns =>
         \/ HighestRuns'
         \/ threadCurrent' = threadCurrent /\ priority'[threadCurrent] < priority[threadCurrent]

LEMMA PrioritiesAreNumbers ==
    ASSUME NEW prio \in [Thread -> Priority]
    PROVE  prio \in [Thread -> Nat]
<1>1. Priority \subseteq Nat
  BY KernelAssumption
<1>. QED
  BY <1>1

\* What the lemmas about the lists ask of a state of the kernel.
LEMMA ReadyFacts ==
    ASSUME KernelInv
    PROVE  /\ threadCurrent \in Thread \cup {NoThread}
           /\ state \in [Thread -> ThreadState]
           /\ priority \in [Thread -> Priority]
           /\ needReschedule \in {0, 2, 3}
           /\ threadHead \in Seq(Thread)
           /\ IsInjective(threadHead)
           /\ Range(threadHead) = {t \in Thread : state[t] = "READY"}
           /\ \A t \in Thread : state[t] = "RUNNING" <=> t = threadCurrent
  BY DEF KernelInv, TypeOK, OnePlace

LEMMA SortedIsReadySorted == ReadySorted <=> Sorted(threadHead, priority)
  BY DEF ReadySorted, Sorted

LEMMA SortedIsReadySortedNext == ReadySorted' <=> Sorted(threadHead', priority')
  BY DEF ReadySorted, Sorted

\* What leaves the CPU, the ready list and the priorities alone.
LEMMA UnchangedKeepsReady ==
    ASSUME ReadySorted, UNCHANGED <<threadCurrent, threadHead, priority>>,
           \/ UNCHANGED <<threadSwapEnabled, needReschedule>> /\ isr # "tick"
           \/ isr' = "tick"
    PROVE  ReadyKept
<1>1. ReadySorted'
  BY DEF ReadySorted
<1>2. HighestRuns => HighestRuns'
  BY DEF HighestRuns
<1>. QED
  BY <1>1, <1>2 DEF ReadyKept

\* A handler that ends in OS_ThreadReschedule with a sorted list.
LEMMA RescheduleKeepsReady ==
    ASSUME KernelInv,
           NEW roundRobin \in BOOLEAN, NEW ready \in Seq(Thread), NEW st \in [Thread -> ThreadState],
           priority' \in [Thread -> Priority],
           IsInjective(ready),
           Sorted(ready, priority'),
           Range(ready) = {t \in Thread : st[t] = "READY"},
           threadCurrent # NoThread => st[threadCurrent] \in {"RUNNING", "PEND"},
           Reschedule(roundRobin, ready, st)
    PROVE  ReadyKept
<1>1. priority' \in [Thread -> Nat]
  BY PrioritiesAreNumbers
<1>2. threadCurrent \in Thread \cup {NoThread} /\ needReschedule \in {0, 2, 3}
  BY ReadyFacts
<1>3. Sorted(threadHead', priority') /\ HighestRuns'
  BY <1>1, <1>2, RescheduleSorts
<1>. QED
  BY <1>3, SortedIsReadySortedNext DEF ReadyKept

\* One that only blocks the current thread, or blocks nobody.
LEMMA BlockKeepsReady ==
    ASSUME KernelInv, ReadySorted, NEW roundRobin \in BOOLEAN, NEW st \in [Thread -> ThreadState],
           UNCHANGED priority,
           \A t \in Thread : st[t] = state[t] \/ (t = threadCurrent /\ st[t] = "PEND"),
           Reschedule(roundRobin, threadHead, st)
    PROVE  ReadyKept
<1>1. /\ threadCurrent \in Thread \cup {NoThread}
      /\ threadHead \in Seq(Thread) /\ IsInjective(threadHead)
      /\ Range(threadHead) = {t \in Thread : state[t] = "READY"}
      /\ \A t \in Thread : state[t] = "RUNNING" <=> t = threadCurrent
      /\ state \in [Thread -> ThreadState]
      /\ priority' \in [Thread -> Priority]
  BY ReadyFacts
<1>2. Range(threadHead) = {t \in Thread : st[t] = "READY"}
  BY <1>1
<1>3. threadCurrent # NoThread => st[threadCurrent] \in {"RUNNING", "PEND"}
  BY <1>1
<1>4. Sorted(threadHead, priority')
  BY SortedIsReadySorted
<1>. QED
  BY <1>1, <1>2, <1>3, <1>4, RescheduleKeepsReady

\* One that makes a thread ready which could not run.
LEMMA WakeKeepsReady ==
    ASSUME KernelInv, ReadySorted, NEW thread \in Thread, state[thread] \in {"NONE", "PEND"},
           priority' \in [Thread -> Priority],
           \A t \in Thread : t # thread => priority'[t] = priority[t],
           Reschedule(FALSE, PriorityInsert(threadHead, thread, priority'),
                      [state EXCEPT ![thread] = "READY"])
    PROVE  ReadyKept
<1>. DEFINE ready == PriorityInsert(threadHead, thread, priority')
            st == [state EXCEPT ![thread] = "READY"]
<1>1. SchedInv
  BY KernelInvParts
<1>2. /\ ready \in Seq(Thread)
      /\ IsInjective(ready)
      /\ st \in [Thread -> ThreadState]
      /\ Range(ready) = {u \in Thread : st[u] = "READY"}
      /\ \A u \in Thread : st[u] = "RUNNING" <=> u = threadCurrent
  BY <1>1, ReadyInserted
<1>3. /\ threadCurrent \in Thread \cup {NoThread}
      /\ threadHead \in Seq(Thread)
      /\ Range(threadHead) = {t \in Thread : state[t] = "READY"}
  BY ReadyFacts
<1>4. Sorted(threadHead, priority')
  <2>1. ASSUME NEW i \in DOMAIN threadHead
        PROVE  threadHead[i] \in Thread /\ priority'[threadHead[i]] = priority[threadHead[i]]
    <3>1. threadHead[i] \in Range(threadHead)
      BY DEF Range
    <3>. QED
      BY <1>3, <3>1
  <2>2. Sorted(threadHead, priority)
    BY SortedIsReadySorted
  <2>. QED
    BY <2>1, <2>2 DEF Sorted
<1>5. Sorted(ready, priority')
  BY <1>3, <1>4, PrioritiesAreNumbers, PriorityInsertSorts
<1>6. Reschedule(FALSE, ready, st)
  OBVIOUS
<1>7. threadCurrent # NoThread => st[threadCurrent] \in {"RUNNING", "PEND"}
  BY <1>2, <1>3
<1>. HIDE DEF ready, st
<1>. QED
  BY <1>2, <1>5, <1>6, <1>7, RescheduleKeepsReady

LEMMA PendKeepsReady ==
    ASSUME KernelInv, ReadySorted, NEW self \in Client, Running(self), NEW s \in Semaphore,
           NEW ticks, SemaphorePend(self, s, ticks)
    PROVE  ReadyKept
<1>1. self \in Thread /\ threadCurrent = self /\ isr = "none"
  BY RunningWaitsNowhere
<1>2. CASE PendAcquire(s)
  BY <1>1, <1>2, UnchangedKeepsReady DEF PendAcquire, schedVars
<1>3. CASE PendNoWait(s, ticks)
  BY <1>1, <1>3, UnchangedKeepsReady DEF PendNoWait, kernelVars
<1>4. CASE PendWait(self, s, ticks)
  <2>. DEFINE st == [state EXCEPT ![self] = "PEND"]
  <2>1. UNCHANGED priority /\ Reschedule(FALSE, threadHead, st)
    BY <1>4 DEF PendWait
  <2>2. st \in [Thread -> ThreadState] /\ \A t \in Thread : st[t] = state[t] \/ (t = self /\ st[t] = "PEND")
    BY <1>1, ReadyFacts DEF ThreadState
  <2>. HIDE DEF st
  <2>. QED
    BY <1>1, <2>1, <2>2, BlockKeepsReady
<1>. QED
  BY <1>2, <1>3, <1>4 DEF SemaphorePend

LEMMA PostKeepsReady ==
    ASSUME KernelInv, ReadySorted, NEW s \in Semaphore, SemaphorePost(s), isr # "tick"
    PROVE  ReadyKept
<1>1. CASE PostFree(s)
  BY <1>1, UnchangedKeepsReady DEF PostFree, schedVars
<1>2. CASE PostWake(s)
  <2>1. SemInv /\ WaitInv
    BY KernelInvParts
  <2>2. PICK thread \in Thread : thread = Head(semHead[s]) /\ semaphorePending[thread] = s
    <3>1. semCount[s] < 0 /\ semHead[s] \in Seq(Thread) /\ semCount[s] \in Int
      BY <1>2, <2>1 DEF PostWake, SemInv
    <3>2. Len(semHead[s]) = - semCount[s]
      BY <2>1, <3>1 DEF SemInv, SemAccounting
    <3>3. Head(semHead[s]) = semHead[s][1] /\ 1 \in DOMAIN semHead[s] /\ Head(semHead[s]) \in Thread
      BY <3>1, <3>2
    <3>4. Head(semHead[s]) \in Range(semHead[s])
      BY <3>3 DEF Range
    <3>. QED
      BY <2>1, <3>3, <3>4 DEF SemInv
  <2>3. NoSemaphore \notin Semaphore
    BY KernelAssumption
  <2>4. state[thread] \in {"NONE", "PEND"}
    BY <2>1, <2>2, <2>3 DEF WaitInv
  <2>5. /\ UNCHANGED priority
        /\ Reschedule(FALSE, PriorityInsert(threadHead, thread, priority),
                      [state EXCEPT ![thread] = "READY"])
    BY <1>2, <2>2 DEF PostWake
  <2>6. priority \in [Thread -> Priority]
    BY ReadyFacts
  <2>7. Reschedule(FALSE, PriorityInsert(threadHead, thread, priority'),
                   [state EXCEPT ![thread] = "READY"])
    BY <2>5
  <2>8. priority' \in [Thread -> Priority] /\ \A t \in Thread : t # thread => priority'[t] = priority[t]
    BY <2>5, <2>6
  <2>. QED
    BY <2>4, <2>7, <2>8, WakeKeepsReady
<1>. QED
  BY <1>1, <1>2 DEF SemaphorePost

LEMMA CreateKeepsReady ==
    ASSUME KernelInv, ReadySorted, NEW t \in Client, NEW p \in Priority, ThreadCreate(t, p)
    PROVE  ReadyKept
<1>1. t \in Thread /\ state[t] = "NONE"
  BY DEF Client, ThreadCreate
<1>2. /\ priority' = [priority EXCEPT ![t] = p]
      /\ Reschedule(FALSE, PriorityInsert(threadHead, t, priority'), [state EXCEPT ![t] = "READY"])
  BY DEF ThreadCreate
<1>3. priority \in [Thread -> Priority]
  BY ReadyFacts
<1>4. priority' \in [Thread -> Priority] /\ \A u \in Thread : u # t => priority'[u] = priority[u]
  BY <1>1, <1>2, <1>3
<1>. QED
  BY <1>1, <1>2, <1>4, WakeKeepsReady

LEMMA ExitKeepsReady ==
    ASSUME KernelInv, ReadySorted, NEW self \in Client, Running(self), ThreadExit(self)
    PROVE  ReadyKept
<1>. DEFINE st == [state EXCEPT ![self] = "PEND"]
<1>1. self \in Thread /\ threadCurrent = self
  BY RunningWaitsNowhere
<1>2. UNCHANGED priority /\ Reschedule(FALSE, threadHead, st)
  BY DEF ThreadExit
<1>3. st \in [Thread -> ThreadState] /\ \A t \in Thread : st[t] = state[t] \/ (t = self /\ st[t] = "PEND")
  BY <1>1, ReadyFacts DEF ThreadState
<1>. HIDE DEF st
<1>. QED
  BY <1>1, <1>2, <1>3, BlockKeepsReady

LEMMA FreeKeepsReady ==
    ASSUME KernelInv, ReadySorted, isr = "none", NEW t, ThreadFree(t)
    PROVE  ReadyKept
  BY UnchangedKeepsReady DEF ThreadFree

\* OS_ThreadPrioritySet moves a ready thread to its new place.
LEMMA PrioritySetKeepsReady ==
    ASSUME KernelInv, ReadySorted, threadCurrent \in Thread,
           NEW t \in Thread, NEW p \in Priority, ThreadPrioritySet(t, p)
    PROVE  ReadyKept
<1>1. /\ threadHead \in Seq(Thread) /\ IsInjective(threadHead)
      /\ Range(threadHead) = {u \in Thread : state[u] = "READY"}
      /\ priority \in [Thread -> Priority] /\ state \in [Thread -> ThreadState]
      /\ state[threadCurrent] = "RUNNING"
  BY ReadyFacts
<1>2. /\ priority' = [priority EXCEPT ![t] = p]
      /\ UNCHANGED <<threadSwapEnabled, isr>>
  BY DEF ThreadPrioritySet
<1>3. priority' \in [Thread -> Priority] /\ \A u \in Thread : u # t => priority'[u] = priority[u]
  BY <1>1, <1>2
<1>4. Sorted(threadHead, priority)
  BY SortedIsReadySorted
<1>5. \A list \in Seq(Thread) : Sorted(list, priority) /\ t \notin Range(list) => Sorted(list, priority')
  <2>1. ASSUME NEW list \in Seq(Thread), t \notin Range(list), NEW i \in DOMAIN list
        PROVE  priority'[list[i]] = priority[list[i]]
    <3>1. list[i] \in Thread /\ list[i] \in Range(list)
      BY DEF Range
    <3>. QED
      BY <1>3, <2>1, <3>1
  <2>. QED
    BY <2>1 DEF Sorted
<1>6. CASE state[t] = "READY"
  <2>. DEFINE left == PriorityRemove(threadHead, t)
              ready == PriorityInsert(left, t, priority')
  <2>1. t \in Range(threadHead) /\ priority \in [Thread -> Nat] /\ priority' \in [Thread -> Nat]
    BY <1>1, <1>3, <1>6, PrioritiesAreNumbers
  <2>2. left \in Seq(Thread) /\ IsInjective(left) /\ Range(left) = Range(threadHead) \ {t}
    BY <1>1, <2>1, PriorityRemoveProperties
  <2>3. Sorted(left, priority)
    BY <1>1, <1>4, <2>1, PriorityRemoveSorts
  <2>4. Reschedule(FALSE, ready, state)
    BY <1>6 DEF ThreadPrioritySet
  <2>. HIDE DEF left
  <2>5. Sorted(left, priority')
    BY <1>5, <2>2, <2>3
  <2>6. ready \in Seq(Thread) /\ IsInjective(ready) /\ Range(ready) = Range(left) \cup {t}
    BY <2>2, PriorityInsertProperties
  <2>7. Sorted(ready, priority')
    BY <2>1, <2>2, <2>5, PriorityInsertSorts
  <2>. HIDE DEF ready
  <2>8. Range(ready) = {u \in Thread : state[u] = "READY"}
    BY <1>1, <1>6, <2>2, <2>6
  <2>. QED
    BY <1>1, <1>3, <2>4, <2>6, <2>7, <2>8, RescheduleKeepsReady
<1>7. CASE state[t] # "READY"
  <2>1. UNCHANGED <<threadCurrent, threadHead, needReschedule>>
    BY <1>7 DEF ThreadPrioritySet, schedVars
  <2>2. t \notin Range(threadHead)
    BY <1>1, <1>7
  <2>3. ReadySorted'
    BY <1>1, <1>4, <1>5, <2>1, <2>2, SortedIsReadySortedNext
  <2>4. ASSUME HighestRuns, ~(priority'[threadCurrent] < priority[threadCurrent])
        PROVE  HighestRuns'
    <3>1. priority[threadCurrent] \in Nat /\ priority'[threadCurrent] \in Nat
      BY <1>1, <1>3, PrioritiesAreNumbers
    <3>2. \A u \in Range(threadHead) : u \in Thread /\ u # t /\ priority[u] \in Nat
      BY <1>1, <2>2, PrioritiesAreNumbers
    <3>3. \A u \in Range(threadHead) :
            priority[u] <= priority[threadCurrent] => priority'[u] <= priority'[threadCurrent]
      BY <1>3, <2>4, <3>1, <3>2
    <3>. QED
      BY <1>2, <2>1, <2>4, <3>3 DEF HighestRuns
  <2>. QED
    BY <2>1, <2>3, <2>4 DEF ReadyKept
<1>. QED
  BY <1>6, <1>7

LEMMA InterruptKeepsReady ==
    ASSUME KernelInv, ReadySorted, Interrupt(Semaphore)
    PROVE  ReadyKept
<1>1. state \in [Thread -> ThreadState]
  BY ReadyFacts
<1>2. CASE InterruptEntry \/ TickCount
  BY <1>2, UnchangedKeepsReady DEF InterruptEntry, TickCount, schedVars
<1>3. CASE TickExpire
  <2>1. TimeInv
    BY KernelInvParts
  <2>2. timeoutHead # <<>> /\ timeoutHead \in Seq(Timeout)
    BY <1>3, <2>1 DEF TickExpire, TimeoutDue, TimeInv
  <2>3. PICK thread \in Thread : thread = Head(timeoutHead).thread
    <3>1. Head(timeoutHead) \in Timeout
      BY <2>2
    <3>. QED
      BY <3>1 DEF Timeout
  <2>4. threadHead' = PriorityInsert(threadHead, thread, priority) /\ UNCHANGED <<priority, isr>> /\ isr = "tick"
    BY <1>3, <2>3 DEF TickExpire
  <2>5. threadHead \in Seq(Thread) /\ priority \in [Thread -> Nat]
    BY ReadyFacts, PrioritiesAreNumbers
  <2>6. Sorted(threadHead', priority')
    BY <2>4, <2>5, PriorityInsertSorts, SortedIsReadySorted
  <2>. QED
    BY <2>4, <2>6, SortedIsReadySortedNext DEF ReadyKept, HighestRuns
<1>4. CASE TickDone
  BY <1>1, <1>4, BlockKeepsReady DEF TickDone
<1>5. CASE \E s \in Semaphore : InterruptPost(s)
  BY <1>5, PostKeepsReady DEF InterruptPost
<1>6. CASE InterruptExit
  <2>1. CASE needReschedule # 0
    <3>1. /\ Reschedule(needReschedule = 3, threadHead, state) /\ (needReschedule = 3) \in BOOLEAN
          /\ UNCHANGED priority
      BY <1>6, <2>1 DEF InterruptExit
    <3>. QED
      BY <1>1, <3>1, BlockKeepsReady
  <2>2. CASE needReschedule = 0
    BY <1>6, <2>2, UnchangedKeepsReady DEF InterruptExit, schedVars
  <2>. QED
    BY <2>1, <2>2
<1>. QED
  BY <1>2, <1>3, <1>4, <1>5, <1>6 DEF Interrupt

LEMMA StepKeepsReady ==
    ASSUME KernelInv, ReadySorted, KernelNext
    PROVE  ReadyKept
<1>1. state \in [Thread -> ThreadState]
  BY ReadyFacts
<1>2. CASE Boot
  <2>1. ASSUME NEW t \in Client, NEW p \in Priority, ThreadCreate(t, p)
        PROVE  ReadyKept
    BY <2>1, CreateKeepsReady
  <2>2. CASE OSStart
    BY <1>1, <2>2, BlockKeepsReady DEF OSStart
  <2>. QED
    BY <1>2, <2>1, <2>2 DEF Boot
<1>3. ASSUME NEW self \in Client, Running(self),
             \/ \E s \in Semaphore, ticks \in Ticks \cup {0, FOREVER} : SemaphorePend(self, s, ticks)
             \/ \E s \in Semaphore : SemaphorePost(s)
             \/ \E t \in Client, p \in Priority : ThreadCreate(t, p)
             \/ \E t \in Client : Exited(t) /\ ThreadFree(t)
             \/ \E t \in Client, p \in Priority : ThreadPrioritySet(t, p)
             \/ ThreadExit(self)
      PROVE  ReadyKept
  <2>1. isr = "none" /\ threadCurrent \in Thread
    BY <1>3, RunningWaitsNowhere
  <2>2. ASSUME NEW s \in Semaphore, SemaphorePost(s)
        PROVE  ReadyKept
    BY <2>1, <2>2, PostKeepsReady
  <2>3. ASSUME NEW t \in Client, NEW p \in Priority, ThreadPrioritySet(t, p)
        PROVE  ReadyKept
    <3>1. t \in Thread
      BY DEF Client
    <3>. QED
      BY <2>1, <2>3, <3>1, PrioritySetKeepsReady
  <2>4. ASSUME NEW s \in Semaphore, NEW ticks, SemaphorePend(self, s, ticks)
        PROVE  ReadyKept
    BY <1>3, <2>4, PendKeepsReady
  <2>5. ASSUME NEW t \in Client, ThreadFree(t)
        PROVE  ReadyKept
    BY <2>1, <2>5, FreeKeepsReady
  <2>. QED
    BY <1>3, <2>2, <2>3, <2>4, <2>5, CreateKeepsReady, ExitKeepsReady
<1>4. CASE ThreadCall
  BY <1>3, <1>4 DEF ThreadCall
<1>5. CASE Interrupt(Semaphore)
  BY <1>5, InterruptKeepsReady
<1>. QED
  BY <1>2, <1>4, <1>5 DEF KernelNext

LEMMA ReadyAlwaysSorted == KernelSpec => []ReadySorted
<1>1. KernelInit => ReadySorted
  <2>1. DOMAIN <<Idle>> = {1}
    OBVIOUS
  <2>2. ASSUME NEW i \in {1}, NEW j \in {1}
        PROVE  ~(i < j)
    BY <2>2
  <2>. QED
    BY <2>1, <2>2 DEF KernelInit, ReadySorted
<1>2. KernelInv /\ ReadySorted /\ [KernelNext]_kernelVars => ReadySorted'
  <2>1. KernelInv /\ ReadySorted /\ KernelNext => ReadySorted'
    BY StepKeepsReady DEF ReadyKept
  <2>2. ReadySorted /\ UNCHANGED kernelVars => ReadySorted'
    BY DEF ReadySorted, kernelVars
  <2>. QED
    BY <2>1, <2>2
<1>. QED
  BY <1>1, <1>2, KernelInvariant, PTL DEF KernelSpec

\* Whoever has the CPU has the highest priority of those that can run, and keeps that
\* through every wakeup, creation and change of a priority but the lowering of its own.
THEOREM HighestRunsAlways == KernelSpec => HighestKeepsRunning
<1>1. KernelInv /\ ReadySorted /\ [KernelNext]_kernelVars
        => [HighestRuns =>
              \/ HighestRuns'
              \/ threadCurrent' = threadCurrent /\ priority'[threadCurrent] < priority[threadCurrent]]_kernelVars
  BY StepKeepsReady DEF ReadyKept
<1>. QED
  BY <1>1, KernelInvariant, ReadyAlwaysSorted, PTL DEF KernelSpec, HighestKeepsRunning

-----------------------------------------------------------------------------
(***************************************************************************)
(* The timeout list is in the order in which the waits end, across the     *)
(* wrap of the tick counter: a wait that ends by its time ends in the very *)
(* tick it asked for, for any threads, waits and range of the counter.     *)
(***************************************************************************)

(***************************************************************************)
(* The arithmetic of the tick counter.                                     *)
(***************************************************************************)

LEMMA BelowHalf ==
    ASSUME NEW W \in Nat \ {0}, NEW d \in Int, 0 <= d, 2 * d < W
    PROVE  d \in 0 .. W \div 2
  OBVIOUS

Instant == 0 .. TimeWrap - 1

\* The signed difference is the one that is less than half the range away.
LEMMA TickDiffValue ==
    ASSUME NEW a \in Instant, NEW b \in Instant
    PROVE  /\ TickDiff(a, b) \in Int
           /\ TickDiff(a, b) \in {a - b, a - b + TimeWrap, a - b - TimeWrap}
           /\ - TimeWrap <= 2 * TickDiff(a, b) /\ 2 * TickDiff(a, b) < TimeWrap
<1>1. TimeWrap \in Nat \ {0}
  BY TimeAssumption
<1>2. a \in Int /\ b \in Int /\ 0 <= a /\ a < TimeWrap /\ 0 <= b /\ b < TimeWrap
  BY <1>1 DEF Instant
<1>. DEFINE d == (a - b) % TimeWrap
<1>3. d \in Int /\ 0 <= d /\ d < TimeWrap /\ (d = a - b \/ d = a - b + TimeWrap)
  <2>1. d = IF a >= b THEN a - b ELSE a - b + TimeWrap
    BY <1>1, ModDifference DEF Instant
  <2>. QED
    BY <1>1, <1>2, <2>1
<1>4. TickDiff(a, b) = IF 2 * d < TimeWrap THEN d ELSE d - TimeWrap
  BY DEF TickDiff
<1>. HIDE DEF d
<1>. QED
  BY <1>1, <1>2, <1>3, <1>4

\* The difference of two times is that of the ticks left until them, while that is less
\* than half the range.
LEMMA TickDiffApart ==
    ASSUME NEW a \in Instant, NEW b \in Instant, NEW now \in Instant,
           - TimeWrap <= 2 * (TickDiff(a, now) - TickDiff(b, now)),
           2 * (TickDiff(a, now) - TickDiff(b, now)) < TimeWrap
    PROVE  TickDiff(a, b) = TickDiff(a, now) - TickDiff(b, now)
<1>1. TimeWrap \in Nat \ {0}
  BY TimeAssumption
<1>2. a \in Int /\ b \in Int /\ now \in Int
  BY DEF Instant
<1>3. PICK la \in Int : /\ la = TickDiff(a, now)
                        /\ la \in {a - now, a - now + TimeWrap, a - now - TimeWrap}
  BY TickDiffValue
<1>4. PICK lb \in Int : /\ lb = TickDiff(b, now)
                        /\ lb \in {b - now, b - now + TimeWrap, b - now - TimeWrap}
  BY TickDiffValue
<1>5. PICK d \in Int : /\ d = TickDiff(a, b) /\ - TimeWrap <= 2 * d /\ 2 * d < TimeWrap
                       /\ d \in {a - b, a - b + TimeWrap, a - b - TimeWrap}
  BY TickDiffValue
<1>6. - TimeWrap <= 2 * (la - lb) /\ 2 * (la - lb) < TimeWrap
  BY <1>3, <1>4
<1>7. d = la - lb
  BY <1>1, <1>2, <1>3, <1>4, <1>5, <1>6
<1>. QED
  BY <1>3, <1>4, <1>5, <1>7

\* Two times that are both ahead come in the order of the ticks left until them.
LEMMA TickDiffOrders ==
    ASSUME NEW a \in Instant, NEW b \in Instant, NEW now \in Instant,
           TickDiff(a, now) >= 0, TickDiff(b, now) >= 0
    PROVE  TickDiff(a, b) <= 0 <=> TickDiff(a, now) <= TickDiff(b, now)
<1>1. /\ TickDiff(a, now) \in Int /\ 2 * TickDiff(a, now) < TimeWrap
      /\ TickDiff(b, now) \in Int /\ 2 * TickDiff(b, now) < TimeWrap
      /\ TimeWrap \in Nat \ {0}
  BY TickDiffValue, TimeAssumption
<1>2. /\ - TimeWrap <= 2 * (TickDiff(a, now) - TickDiff(b, now))
      /\ 2 * (TickDiff(a, now) - TickDiff(b, now)) < TimeWrap
  BY <1>1
<1>3. TickDiff(a, b) = TickDiff(a, now) - TickDiff(b, now)
  BY <1>2, TickDiffApart
<1>. QED
  BY <1>1, <1>3

\* A time that has come is now.
LEMMA TickDiffDue ==
    ASSUME NEW a \in Instant, NEW now \in Instant, TickDiff(a, now) >= 0
    PROVE  /\ TickDiff(now, a) >= 0 <=> TickDiff(a, now) = 0
           /\ TickDiff(a, now) = 0 => a = now
<1>1. TimeWrap \in Nat \ {0}
  BY TimeAssumption
<1>2. a \in 0 .. TimeWrap - 1 /\ now \in 0 .. TimeWrap - 1
  BY DEF Instant
<1>3. PICK l \in Int : /\ l = TickDiff(a, now) /\ 0 <= l /\ 2 * l < TimeWrap
                       /\ l \in {a - now, a - now + TimeWrap, a - now - TimeWrap}
  BY TickDiffValue
<1>4. PICK d \in Int : /\ d = TickDiff(now, a) /\ - TimeWrap <= 2 * d /\ 2 * d < TimeWrap
                       /\ d \in {now - a, now - a + TimeWrap, now - a - TimeWrap}
  BY TickDiffValue
<1>5. d = - l /\ (l = 0 => a = now)
  BY <1>1, <1>2, <1>3, <1>4
<1>. QED
  BY <1>3, <1>4, <1>5

\* A tick brings a time one tick nearer, or leaves it one tick further behind.
LEMMA TickDiffCounts ==
    ASSUME NEW a \in Instant, NEW now \in Instant, - TimeWrap <= 2 * (TickDiff(a, now) - 1), TimeWrap > 1
    PROVE  /\ (now + 1) % TimeWrap \in Instant
           /\ TickDiff(a, (now + 1) % TimeWrap) = TickDiff(a, now) - 1
<1>1. TimeWrap \in Nat \ {0}
  BY TimeAssumption
<1>2. a \in 0 .. TimeWrap - 1 /\ now \in 0 .. TimeWrap - 1
  BY DEF Instant
<1>3. PICK l \in Int : /\ l = TickDiff(a, now) /\ - TimeWrap <= 2 * (l - 1) /\ 2 * l < TimeWrap
                       /\ l \in {a - now, a - now + TimeWrap, a - now - TimeWrap}
  BY TickDiffValue
<1>4. PICK next \in Instant : next = (now + 1) % TimeWrap /\ next \in {now + 1, now + 1 - TimeWrap}
  <2>1. 1 \in 0 .. TimeWrap - 1
    BY <1>1
  <2>2. (now + 1) % TimeWrap = IF now + 1 < TimeWrap THEN now + 1 ELSE now + 1 - TimeWrap
    BY <1>1, <1>2, <2>1, ModSum
  <2>. QED
    BY <1>1, <1>2, <2>2 DEF Instant
<1>5. PICK d \in Int : /\ d = TickDiff(a, next) /\ - TimeWrap <= 2 * d /\ 2 * d < TimeWrap
                       /\ d \in {a - next, a - next + TimeWrap, a - next - TimeWrap}
  BY TickDiffValue
<1>6. d = l - 1
  <2>1. TimeWrap \in Int /\ 0 < TimeWrap /\ a \in Int /\ now \in Int /\ next \in Int
    BY <1>1, <1>2 DEF Instant
  <2>2. d - (l - 1) < TimeWrap /\ (l - 1) - d < TimeWrap
    BY <1>3, <1>5, <2>1
  <2>3. CASE next = now + 1
    BY <1>3, <1>5, <2>1, <2>2, <2>3
  <2>4. CASE next = now + 1 - TimeWrap
    BY <1>3, <1>5, <2>1, <2>2, <2>4
  <2>. QED
    BY <1>4, <2>3, <2>4
<1>. QED
  BY <1>3, <1>4, <1>5, <1>6

\* The clock stands to a time as the time to the clock, with the sign turned.
LEMMA TickDiffTurned ==
    ASSUME NEW a \in Instant, NEW now \in Instant, - TimeWrap < 2 * TickDiff(a, now)
    PROVE  TickDiff(now, a) = - TickDiff(a, now)
<1>1. TimeWrap \in Nat \ {0}
  BY TimeAssumption
<1>2. a \in Int /\ now \in Int
  BY DEF Instant
<1>3. PICK l \in Int : /\ l = TickDiff(a, now) /\ - TimeWrap < 2 * l /\ 2 * l < TimeWrap
                       /\ l \in {a - now, a - now + TimeWrap, a - now - TimeWrap}
  BY TickDiffValue
<1>4. PICK d \in Int : /\ d = TickDiff(now, a) /\ - TimeWrap <= 2 * d /\ 2 * d < TimeWrap
                       /\ d \in {now - a, now - a + TimeWrap, now - a - TimeWrap}
  BY TickDiffValue
<1>5. d = - l
  BY <1>1, <1>2, <1>3, <1>4
<1>. QED
  BY <1>3, <1>4, <1>5

\* A new wait ends after the ticks it asks for (a negative number of them has passed).
LEMMA TickDiffDeadline ==
    ASSUME NEW ticks \in Int, NEW now \in Instant, - TimeWrap <= 2 * ticks, 2 * ticks < TimeWrap
    PROVE  /\ (ticks + now) % TimeWrap \in Instant
           /\ TickDiff((ticks + now) % TimeWrap, now) = ticks
<1>1. TimeWrap \in Nat \ {0}
  BY TimeAssumption
<1>2. now \in 0 .. TimeWrap - 1
  BY DEF Instant
<1>3. PICK a \in Instant :
        /\ a = (ticks + now) % TimeWrap
        /\ a \in {ticks + now, ticks + now - TimeWrap, ticks + now + TimeWrap}
  <2>1. CASE ticks >= 0
    <3>1. ticks \in 0 .. TimeWrap - 1
      BY <1>1, <2>1
    <3>2. (ticks + now) % TimeWrap = IF ticks + now < TimeWrap THEN ticks + now ELSE ticks + now - TimeWrap
      BY <1>1, <1>2, <3>1, ModSum
    <3>. QED
      BY <1>1, <1>2, <2>1, <3>2 DEF Instant
  <2>2. CASE ticks < 0
    <3>1. - ticks \in 0 .. TimeWrap - 1 /\ now - (- ticks) = ticks + now
      BY <1>1, <1>2, <2>2
    <3>2. (now - (- ticks)) % TimeWrap = IF now >= - ticks THEN ticks + now ELSE ticks + now + TimeWrap
      BY <1>1, <1>2, <3>1, ModDifference
    <3>. QED
      BY <1>1, <1>2, <2>2, <3>1, <3>2 DEF Instant
  <2>. QED
    BY <2>1, <2>2
<1>4. PICK d \in Int : /\ d = TickDiff(a, now) /\ - TimeWrap <= 2 * d /\ 2 * d < TimeWrap
                       /\ d \in {a - now, a - now + TimeWrap, a - now - TimeWrap}
  BY TickDiffValue
<1>5. d = ticks
  BY <1>1, <1>2, <1>3, <1>4
<1>. QED
  BY <1>3, <1>4, <1>5

(***************************************************************************)
(* The timeout list.                                                       *)
(***************************************************************************)

\* The ticks left until a thread of the list times out.
TicksLeft(now) == [e \in Timeout |-> TickDiff(e.ticksTimeout, now)]

\* All are ahead, and in order.
InTime(list, now, least) ==
    /\ KeySorted(list, TicksLeft(now))
    /\ \A i \in 1 .. Len(list) : TicksLeft(now)[list[i]] >= least

LEMMA EntryFacts ==
    ASSUME NEW list \in Seq(Timeout), NEW i \in 1 .. Len(list), NEW now \in Instant
    PROVE  /\ list[i] \in Timeout /\ list[i].thread \in Thread /\ list[i].ticksTimeout \in Instant
           /\ TicksLeft(now)[list[i]] = TickDiff(list[i].ticksTimeout, now)
           /\ TicksLeft(now)[list[i]] \in Int
           /\ TicksLeft(now) \in [Timeout -> Int]
<1>1. list[i] \in Timeout
  OBVIOUS
<1>2. \A e \in Timeout : e.thread \in Thread /\ e.ticksTimeout \in Instant
  BY DEF Timeout, Instant
<1>3. \A e \in Timeout : TickDiff(e.ticksTimeout, now) \in Int
  BY <1>2, TickDiffValue
<1>. QED
  BY <1>1, <1>2, <1>3 DEF TicksLeft

LEMMA TicksLeftIsInt ==
    ASSUME NEW now \in Instant
    PROVE  TicksLeft(now) \in [Timeout -> Int]
<1>1. \A e \in Timeout : e.ticksTimeout \in Instant
  BY DEF Timeout, Instant
<1>2. \A e \in Timeout : TickDiff(e.ticksTimeout, now) \in Int
  BY <1>1, TickDiffValue
<1>. QED
  BY <1>2 DEF TicksLeft

\* OS_ThreadTimeoutInsert puts a wait where its time is.
LEMMA TimeoutInsertInTime ==
    ASSUME NEW list \in Seq(Timeout), NEW thread \in Thread, NEW time \in Instant,
           NEW now \in Instant, NEW least \in Nat, InTime(list, now, least), TickDiff(time, now) >= least
    PROVE  InTime(TimeoutInsert(list, thread, time), now, least)
<1>. DEFINE I == {i \in 1 .. Len(list) : TickDiff(time, list[i].ticksTimeout) <= 0}
            new == [thread |-> thread, ticksTimeout |-> time]
            result == TimeoutInsert(list, thread, time)
            left == TicksLeft(now)
<1>1. result = LET k == IF I # {} THEN Min(I) ELSE 0
               IN  IF k = 0 THEN Append(list, new) ELSE InsertAt(list, k, new)
  BY DEF TimeoutInsert, SelectInSeq
<1>2. I # {} => Min(I) \in I /\ \A y \in I : Min(I) <= y
  <2>1. I \subseteq Nat
    OBVIOUS
  <2>. HIDE DEF I
  <2>. QED
    BY <2>1, MinOfNat
<1>3. new \in Timeout /\ left[new] = TickDiff(time, now) /\ left[new] \in Int
  <2>1. new \in Timeout /\ new.ticksTimeout = time
    BY DEF Timeout, Instant
  <2>2. TickDiff(time, now) \in Int
    BY TickDiffValue
  <2>. HIDE DEF new
  <2>. QED
    BY <2>1, <2>2 DEF TicksLeft
<1>4. ASSUME NEW i \in 1 .. Len(list)
      PROVE  /\ left[list[i]] \in Int /\ left[list[i]] >= least
             /\ i \in I <=> left[new] <= left[list[i]]
  <2>1. /\ list[i].ticksTimeout \in Instant
        /\ left[list[i]] = TickDiff(list[i].ticksTimeout, now) /\ left[list[i]] \in Int
    BY EntryFacts
  <2>2. left[list[i]] >= least
    BY DEF InTime
  <2>3. TickDiff(list[i].ticksTimeout, now) >= 0 /\ TickDiff(time, now) >= 0
    BY <1>3, <2>1, <2>2
  <2>4. TickDiff(time, list[i].ticksTimeout) <= 0
          <=> TickDiff(time, now) <= TickDiff(list[i].ticksTimeout, now)
    BY <2>1, <2>3, TickDiffOrders
  <2>. QED
    BY <1>3, <2>1, <2>2, <2>4
<1>5. I \subseteq 1 .. Len(list)
  OBVIOUS
<1>6. KeySorted(list, left) /\ left \in [Timeout -> Int] /\ left[new] >= least
  BY <1>3, TicksLeftIsInt DEF InTime
<1>. HIDE DEF I, new, left, result
<1>7. KeySorted(result, left)
  <2>1. CASE I = {}
    <3>1. result = Append(list, new)
      BY <1>1, <2>1
    <3>2. \A i \in 1 .. Len(list) : left[list[i]] <= left[new]
      BY <1>3, <1>4, <2>1
    <3>. QED
      BY <1>3, <1>6, <3>1, <3>2, AppendSorted
  <2>2. CASE I # {}
    <3>1. PICK m \in I : m = Min(I) /\ \A y \in I : m <= y
      BY <1>2, <2>2
    <3>2. m \in 1 .. Len(list) /\ m # 0 /\ m \in 1 .. Len(list) + 1
      BY <1>5
    <3>3. result = InsertAt(list, m, new)
      BY <1>1, <2>2, <3>1, <3>2
    <3>4. \A i \in 1 .. m - 1 : left[list[i]] <= left[new]
      <4>1. \A i \in 1 .. m - 1 : i \in 1 .. Len(list) /\ ~(m <= i)
        BY <3>2
      <4>. QED
        BY <1>3, <1>4, <3>1, <4>1
    <3>5. \A i \in m .. Len(list) : left[new] <= left[list[i]]
      <4>1. left[new] <= left[list[m]]
        BY <1>4, <3>1, <3>2
      <4>2. \A i \in m .. Len(list) : i \in 1 .. Len(list) /\ (i = m \/ m < i)
        BY <3>2
      <4>3. \A i \in m .. Len(list) : left[list[m]] <= left[list[i]]
        BY <1>4, <1>6, <3>2, <4>2 DEF KeySorted
      <4>4. \A i \in m .. Len(list) : left[list[i]] \in Int /\ left[list[m]] \in Int
        BY <1>4, <3>2, <4>2
      <4>. QED
        BY <1>3, <4>1, <4>3, <4>4
    <3>. QED
      BY <1>3, <1>6, <3>2, <3>3, <3>4, <3>5, InsertSorted
  <2>. QED
    BY <2>1, <2>2
<1>8. result \in Seq(Timeout) /\ Range(result) = Range(list) \cup {new}
  <2>1. CASE I = {}
    BY <1>1, <1>3, <2>1, AppendRange
  <2>2. CASE I # {}
    <3>1. PICK m \in I : m = Min(I)
      BY <1>2, <2>2
    <3>2. m \in 1 .. Len(list) + 1 /\ m # 0
      BY <1>5
    <3>3. result = InsertAt(list, m, new)
      BY <1>1, <2>2, <3>1, <3>2
    <3>. QED
      BY <1>3, <3>2, <3>3, InsertAtProperties, InsertAtRange
  <2>. QED
    BY <2>1, <2>2
<1>9. \A e \in Range(list) : left[e] >= least
  BY <1>4 DEF Range
<1>10. \A i \in 1 .. Len(result) : result[i] \in Range(result)
  BY <1>8 DEF Range
<1>11. \A i \in 1 .. Len(result) : left[result[i]] >= least
  BY <1>6, <1>8, <1>9, <1>10
<1>. QED
  BY <1>7, <1>11 DEF InTime, left, result

\* OS_ThreadTimeoutRemove leaves the others where they are.
LEMMA TimeoutRemoveInTime ==
    ASSUME NEW list \in Seq(Timeout), NEW thread, NEW now \in Instant, NEW least, InTime(list, now, least)
    PROVE  InTime(TimeoutRemove(list, thread), now, least)
<1>. DEFINE I == {i \in 1 .. Len(list) : list[i].thread = thread}
            result == TimeoutRemove(list, thread)
            left == TicksLeft(now)
<1>1. result = LET j == IF I # {} THEN Min(I) ELSE 0
               IN  IF j = 0 THEN list ELSE RemoveAt(list, j)
  BY DEF TimeoutRemove, SelectInSeq
<1>2. I # {} => Min(I) \in I
  <2>1. I \subseteq Nat
    OBVIOUS
  <2>. HIDE DEF I
  <2>. QED
    BY <2>1, MinOfNat
<1>3. I \subseteq 1 .. Len(list)
  OBVIOUS
<1>4. KeySorted(list, left) /\ left \in [Timeout -> Int] /\ \A i \in 1 .. Len(list) : left[list[i]] >= least
  BY TicksLeftIsInt DEF InTime
<1>. HIDE DEF I, left, result
<1>5. CASE I = {}
  <2>1. result = list
    BY <1>1, <1>5
  <2>. QED
    BY <2>1 DEF result
<1>6. CASE I # {}
  <2>1. PICK m \in 1 .. Len(list) : m = Min(I) /\ m # 0
    <3>1. PICK m \in I : m = Min(I)
      BY <1>2, <1>6
    <3>2. m \in 1 .. Len(list) /\ m # 0
      BY <1>3
    <3>. QED
      BY <3>1, <3>2
  <2>2. result = RemoveAt(list, m)
    BY <1>1, <1>6, <2>1
  <2>3. KeySorted(result, left)
    BY <1>4, <2>2, RemoveSorted
  <2>4. /\ Len(result) = Len(list) - 1
        /\ \A i \in 1 .. Len(list) - 1 : result[i] = list[IF i < m THEN i ELSE i + 1]
    BY <2>2, RemoveAtProperties
  <2>5. \A i \in 1 .. Len(result) : left[result[i]] >= least
    <3>1. \A i \in 1 .. Len(result) : (IF i < m THEN i ELSE i + 1) \in 1 .. Len(list)
      BY <2>4
    <3>. QED
      BY <1>4, <2>4, <3>1
  <2>. QED
    BY <2>3, <2>5 DEF InTime, left, result
<1>. QED
  BY <1>5, <1>6

\* A tick brings all of them nearer.
LEMMA TickInTime ==
    ASSUME NEW list \in Seq(Timeout), NEW now \in Instant, InTime(list, now, 1)
    PROVE  InTime(list, (now + 1) % TimeWrap, 0)
<1>. DEFINE next == (now + 1) % TimeWrap
<1>1. ASSUME NEW i \in 1 .. Len(list)
      PROVE  /\ TicksLeft(now)[list[i]] \in Int /\ TicksLeft(now)[list[i]] >= 1
             /\ TicksLeft(next)[list[i]] = TicksLeft(now)[list[i]] - 1
  <2>1. /\ list[i] \in Timeout /\ list[i].ticksTimeout \in Instant
        /\ TicksLeft(now)[list[i]] = TickDiff(list[i].ticksTimeout, now)
        /\ TicksLeft(now)[list[i]] \in Int
    BY EntryFacts
  <2>2. TickDiff(list[i].ticksTimeout, now) >= 1
    BY <2>1 DEF InTime
  <2>3. TickDiff(list[i].ticksTimeout, next) = TickDiff(list[i].ticksTimeout, now) - 1
    <3>1. /\ TickDiff(list[i].ticksTimeout, now) \in Int /\ TimeWrap \in Nat \ {0}
          /\ 2 * TickDiff(list[i].ticksTimeout, now) < TimeWrap
      BY <2>1, TickDiffValue, TimeAssumption
    <3>2. TimeWrap > 1 /\ - TimeWrap <= 2 * (TickDiff(list[i].ticksTimeout, now) - 1)
      BY <2>2, <3>1
    <3>. QED
      BY <2>1, <3>2, TickDiffCounts
  <2>4. TicksLeft(next)[list[i]] = TickDiff(list[i].ticksTimeout, next)
    BY <2>1 DEF TicksLeft
  <2>. QED
    BY <2>1, <2>2, <2>3, <2>4
<1>. HIDE DEF next
<1>2. KeySorted(list, TicksLeft(next))
  BY <1>1 DEF InTime, KeySorted
<1>3. \A i \in 1 .. Len(list) : TicksLeft(next)[list[i]] >= 0
  BY <1>1
<1>. QED
  BY <1>2, <1>3 DEF InTime, next

\* When the first is not due, nobody is.
LEMMA NobodyDue ==
    ASSUME NEW list \in Seq(Timeout), NEW now \in Instant, InTime(list, now, 0),
           list = <<>> \/ ~(TickDiff(now, Head(list).ticksTimeout) >= 0)
    PROVE  InTime(list, now, 1)
<1>1. ASSUME NEW i \in 1 .. Len(list)
      PROVE  TicksLeft(now)[list[i]] >= 1
  <2>1. list # <<>> /\ Head(list) = list[1] /\ 1 \in 1 .. Len(list)
    OBVIOUS
  <2>2. /\ list[1].ticksTimeout \in Instant
        /\ TicksLeft(now)[list[1]] = TickDiff(list[1].ticksTimeout, now)
        /\ TicksLeft(now)[list[1]] \in Int /\ TicksLeft(now)[list[i]] \in Int
    BY <2>1, EntryFacts
  <2>3. TicksLeft(now)[list[1]] >= 0
    BY <2>1 DEF InTime
  <2>4. TicksLeft(now)[list[1]] # 0
    BY <2>1, <2>2, <2>3, TickDiffDue
  <2>5. TicksLeft(now)[list[1]] <= TicksLeft(now)[list[i]]
    <3>1. i = 1 \/ 1 < i
      OBVIOUS
    <3>. QED
      BY <2>1, <2>2, <3>1 DEF InTime, KeySorted
  <2>. QED
    BY <2>2, <2>3, <2>4, <2>5
<1>. QED
  BY <1>1 DEF InTime

(***************************************************************************)
(* The kernel keeps the list in time.                                      *)
(***************************************************************************)

\* Inside OS_ThreadTick some may be due now.
ListInTime == InTime(timeoutHead, threadTime, IF isr = "tick" THEN 0 ELSE 1)

LEMMA ListInTimeNext == ListInTime' <=> InTime(timeoutHead', threadTime', IF isr' = "tick" THEN 0 ELSE 1)
  BY DEF ListInTime, InTime, KeySorted, TicksLeft, TickDiff

LEMMA TimeFacts ==
    ASSUME KernelInv
    PROVE  /\ timeoutHead \in Seq(Timeout)
           /\ threadTime \in Instant
           /\ Distinct(timeoutHead)
           /\ \A t \in Threads(timeoutHead) : semaphorePending[t] # NoSemaphore
  BY DEF KernelInv, TypeOK, Instant

\* What leaves the list and the clock alone.
LEMMA UnchangedInTime ==
    ASSUME ListInTime, UNCHANGED <<timeoutHead, threadTime>>, (isr = "tick") <=> (isr' = "tick")
    PROVE  ListInTime'
  BY ListInTimeNext DEF ListInTime

LEMMA InTimeIsLive ==
    ASSUME KernelInv, ListInTime
    PROVE  TimeoutsLive
<1>. DEFINE least == IF isr = "tick" THEN 0 ELSE 1
<1>1. least \in {0, 1}
  OBVIOUS
<1>2. timeoutHead \in Seq(Timeout) /\ threadTime \in Instant /\ Distinct(timeoutHead)
  BY TimeFacts
<1>3. KeySorted(timeoutHead, TicksLeft(threadTime))
      /\ \A i \in 1 .. Len(timeoutHead) : TicksLeft(threadTime)[timeoutHead[i]] >= least
  BY DEF ListInTime, InTime
<1>. HIDE DEF least
<1>4. ASSUME NEW i \in 1 .. Len(timeoutHead)
      PROVE  /\ timeoutHead[i].ticksTimeout \in Instant
             /\ TicksLeft(threadTime)[timeoutHead[i]] = TickDiff(timeoutHead[i].ticksTimeout, threadTime)
             /\ TickDiff(timeoutHead[i].ticksTimeout, threadTime) \in Int
             /\ TickDiff(timeoutHead[i].ticksTimeout, threadTime) >= least
  BY <1>2, <1>3, EntryFacts
<1>5. ASSUME NEW i \in 1 .. Len(timeoutHead)
      PROVE  /\ semaphorePending[timeoutHead[i].thread] # NoSemaphore
             /\ TickDiff(timeoutHead[i].ticksTimeout, threadTime) \in least .. TimeWrap \div 2
  <2>1. timeoutHead[i].thread \in Threads(timeoutHead)
    BY <1>2 DEF Threads, Range
  <2>2. TimeWrap \in Nat \ {0}
    BY TimeAssumption
  <2>3. PICK l \in Int : l = TickDiff(timeoutHead[i].ticksTimeout, threadTime)
    BY <1>4
  <2>4. 2 * l < TimeWrap /\ l >= least
    BY <1>2, <1>4, <2>3, TickDiffValue
  <2>5. 0 <= l
    BY <1>1, <2>4
  <2>6. l \in 0 .. TimeWrap \div 2
    BY <2>2, <2>4, <2>5, BelowHalf
  <2>7. l \in least .. TimeWrap \div 2
    BY <1>1, <2>4, <2>6
  <2>. QED
    BY <2>1, <2>3, <2>7, TimeFacts
<1>6. ASSUME NEW i \in 1 .. Len(timeoutHead), NEW j \in 1 .. Len(timeoutHead), i < j
      PROVE  /\ timeoutHead[i].thread # timeoutHead[j].thread
             /\ TickDiff(timeoutHead[i].ticksTimeout, timeoutHead[j].ticksTimeout) <= 0
  <2>1. timeoutHead[i].thread # timeoutHead[j].thread
    <3>1. timeoutHead[i] \in Range(timeoutHead) /\ timeoutHead[j] \in Range(timeoutHead)
      BY <1>2 DEF Range
    <3>2. timeoutHead[i] # timeoutHead[j]
      BY <1>2, <1>6 DEF Distinct, IsInjective
    <3>. QED
      BY <1>2, <3>1, <3>2 DEF Distinct
  <2>2. TicksLeft(threadTime)[timeoutHead[i]] <= TicksLeft(threadTime)[timeoutHead[j]]
    BY <1>3, <1>6 DEF KeySorted
  <2>3. /\ timeoutHead[i].ticksTimeout \in Instant /\ timeoutHead[j].ticksTimeout \in Instant
        /\ TickDiff(timeoutHead[i].ticksTimeout, threadTime) >= 0
        /\ TickDiff(timeoutHead[j].ticksTimeout, threadTime) >= 0
        /\ TickDiff(timeoutHead[i].ticksTimeout, threadTime)
             <= TickDiff(timeoutHead[j].ticksTimeout, threadTime)
    BY <1>1, <1>4, <2>2
  <2>. QED
    BY <1>2, <2>1, <2>3, TickDiffOrders
<1>7. DOMAIN timeoutHead = 1 .. Len(timeoutHead)
  BY <1>2
<1>. QED
  BY <1>5, <1>6, <1>7 DEF TimeoutsLive, least

LEMMA PendInTime ==
    ASSUME KernelInv, ListInTime, NEW self \in Client, Running(self), NEW s \in Semaphore,
           NEW ticks \in Ticks \cup {0, FOREVER}, SemaphorePend(self, s, ticks)
    PROVE  ListInTime'
<1>1. self \in Thread /\ isr = "none"
  BY RunningWaitsNowhere
<1>2. UNCHANGED <<threadTime, isr>>
  BY DEF SemaphorePend, PendAcquire, PendNoWait, PendWait, kernelVars
<1>3. CASE timeoutHead' = timeoutHead
  BY <1>2, <1>3, UnchangedInTime
<1>4. CASE timeoutHead' # timeoutHead
  <2>1. ticks # 0 /\ ticks # FOREVER
        /\ timeoutHead' = TimeoutInsert(timeoutHead, self, Deadline(ticks))
    BY <1>4 DEF SemaphorePend, PendAcquire, PendNoWait, PendWait, kernelVars, waitVars
  <2>2. ticks \in Nat /\ 0 < ticks /\ 2 * ticks < TimeWrap
    BY <2>1, TimeAssumption
  <2>3. timeoutHead \in Seq(Timeout) /\ threadTime \in Instant
    BY TimeFacts
  <2>4. Deadline(ticks) \in Instant /\ TickDiff(Deadline(ticks), threadTime) = ticks
    <3>1. ticks \in Int /\ - TimeWrap <= 2 * ticks
      BY <2>2, TimeAssumption
    <3>. QED
      BY <2>2, <2>3, <3>1, TickDiffDeadline DEF Deadline
  <2>5. InTime(timeoutHead, threadTime, 1)
    BY <1>1 DEF ListInTime
  <2>6. TickDiff(Deadline(ticks), threadTime) >= 1
    BY <2>2, <2>4
  <2>7. InTime(timeoutHead', threadTime, 1)
    BY <1>1, <2>1, <2>3, <2>4, <2>5, <2>6, TimeoutInsertInTime
  <2>. QED
    BY <1>1, <1>2, <2>7, ListInTimeNext
<1>. QED
  BY <1>3, <1>4

LEMMA PostInTime ==
    ASSUME KernelInv, ListInTime, NEW s \in Semaphore, SemaphorePost(s)
    PROVE  ListInTime'
<1>1. UNCHANGED <<threadTime, isr>>
  BY DEF SemaphorePost, PostFree, PostWake
<1>2. CASE PostFree(s)
  BY <1>1, <1>2, UnchangedInTime DEF PostFree, waitVars
<1>3. CASE PostWake(s)
  <2>1. timeoutHead' = TimeoutRemove(timeoutHead, Head(semHead[s]))
    BY <1>3 DEF PostWake
  <2>2. timeoutHead \in Seq(Timeout) /\ threadTime \in Instant
    BY TimeFacts
  <2>3. InTime(timeoutHead', threadTime, IF isr = "tick" THEN 0 ELSE 1)
    BY <2>1, <2>2, TimeoutRemoveInTime DEF ListInTime
  <2>. QED
    BY <1>1, <2>3, ListInTimeNext
<1>. QED
  BY <1>2, <1>3 DEF SemaphorePost

LEMMA InterruptInTime ==
    ASSUME KernelInv, ListInTime, Interrupt(Semaphore)
    PROVE  ListInTime'
<1>1. timeoutHead \in Seq(Timeout) /\ threadTime \in Instant
  BY TimeFacts
<1>2. CASE InterruptEntry \/ InterruptExit
  <2>1. UNCHANGED <<timeoutHead, threadTime>> /\ isr # "tick" /\ isr' # "tick"
    BY <1>2 DEF InterruptEntry, InterruptExit, waitVars
  <2>. QED
    BY <2>1, UnchangedInTime
<1>3. CASE TickCount
  <2>1. InTime(timeoutHead, threadTime, 1)
    BY <1>3 DEF ListInTime, TickCount
  <2>2. InTime(timeoutHead, (threadTime + 1) % TimeWrap, 0)
    BY <1>1, <2>1, TickInTime
  <2>. QED
    BY <1>3, <2>2, ListInTimeNext DEF TickCount, waitVars
<1>4. CASE TickExpire
  <2>1. UNCHANGED <<threadTime, isr>> /\ timeoutHead' = TimeoutRemove(timeoutHead, Head(timeoutHead).thread)
    BY <1>4 DEF TickExpire
  <2>2. InTime(timeoutHead', threadTime, IF isr = "tick" THEN 0 ELSE 1)
    BY <1>1, <2>1, TimeoutRemoveInTime DEF ListInTime
  <2>. QED
    BY <2>1, <2>2, ListInTimeNext
<1>5. CASE TickDone
  <2>1. InTime(timeoutHead, threadTime, 0)
    BY <1>5 DEF ListInTime, TickDone
  <2>2. timeoutHead = <<>> \/ ~(TickDiff(threadTime, Head(timeoutHead).ticksTimeout) >= 0)
    BY <1>5 DEF TickDone, TimeoutDue
  <2>3. InTime(timeoutHead, threadTime, 1)
    BY <1>1, <2>1, <2>2, NobodyDue
  <2>. QED
    BY <1>5, <2>3, ListInTimeNext DEF TickDone, waitVars
<1>6. CASE \E s \in Semaphore : InterruptPost(s)
  BY <1>6, PostInTime DEF InterruptPost
<1>. QED
  BY <1>2, <1>3, <1>4, <1>5, <1>6 DEF Interrupt

LEMMA StepInTime ==
    ASSUME KernelInv, ListInTime, [KernelNext]_kernelVars
    PROVE  ListInTime'
<1>1. ASSUME UNCHANGED <<timeoutHead, threadTime, isr>>
      PROVE  ListInTime'
  BY <1>1, UnchangedInTime
<1>2. CASE Boot
  BY <1>1, <1>2 DEF Boot, ThreadCreate, OSStart, waitVars
<1>3. ASSUME NEW self \in Client, Running(self),
             \/ \E s \in Semaphore, ticks \in Ticks \cup {0, FOREVER} : SemaphorePend(self, s, ticks)
             \/ \E s \in Semaphore : SemaphorePost(s)
             \/ \E t \in Client, p \in Priority : ThreadCreate(t, p)
             \/ \E t \in Client : Exited(t) /\ ThreadFree(t)
             \/ \E t \in Client, p \in Priority : ThreadPrioritySet(t, p)
             \/ ThreadExit(self)
      PROVE  ListInTime'
  <2>1. ASSUME NEW t, NEW p, ThreadCreate(t, p) \/ ThreadFree(t) \/ ThreadPrioritySet(t, p) \/ ThreadExit(t)
        PROVE  ListInTime'
    BY <1>1, <2>1 DEF ThreadCreate, ThreadFree, ThreadPrioritySet, ThreadExit, waitVars
  <2>. QED
    BY <1>3, <2>1, PendInTime, PostInTime
<1>4. CASE ThreadCall
  BY <1>3, <1>4 DEF ThreadCall
<1>5. CASE Interrupt(Semaphore)
  BY <1>5, InterruptInTime
<1>6. CASE UNCHANGED kernelVars
  BY <1>1, <1>6 DEF kernelVars
<1>. QED
  BY <1>2, <1>4, <1>5, <1>6 DEF KernelNext

LEMMA ListAlwaysInTime == KernelSpec => []ListInTime
<1>1. KernelInit => ListInTime
  <2>1. Len(<<>>) = 0
    OBVIOUS
  <2>2. 1 .. 0 = {}
    OBVIOUS
  <2>. QED
    BY <2>1, <2>2 DEF KernelInit, ListInTime, InTime, KeySorted
<1>2. KernelInv /\ ListInTime /\ [KernelNext]_kernelVars => ListInTime'
  BY StepInTime
<1>. QED
  BY <1>1, <1>2, KernelInvariant, PTL DEF KernelSpec

(***************************************************************************)
(* The theorems.                                                           *)
(***************************************************************************)

\* Both lists are in the order the scheduler relies on: the ready list by priority, the
\* timeout list by the time that is left, across the wrap of the tick counter.
THEOREM ListsAreInOrder == KernelSpec => []ListsInOrder
<1>1. KernelInv /\ ListInTime /\ ReadySorted => ListsInOrder
  BY InTimeIsLive DEF ListsInOrder
<1>. QED
  BY <1>1, KernelInvariant, ListAlwaysInTime, ReadyAlwaysSorted, PTL

\* A wait that ends with the code of a timeout ends in the tick it asked for, never
\* earlier: only OS_ThreadTick returns that code, and to the first of the list.
THEOREM TimeoutsAreExact == KernelSpec => TimeoutExact
<1>. DEFINE Exact == \A t \in Thread :
                       /\ semaphorePending[t] # NoSemaphore
                       /\ semaphorePending'[t] = NoSemaphore
                       /\ returnCode'[t] = -1
                       => [thread |-> t, ticksTimeout |-> threadTime] \in Range(timeoutHead)
<1>1. KernelInv /\ ListInTime /\ [KernelNext]_kernelVars => [Exact]_kernelVars
  <2>. SUFFICES ASSUME KernelInv, ListInTime, KernelNext,
                       NEW t \in Thread, semaphorePending[t] # NoSemaphore,
                       semaphorePending'[t] = NoSemaphore, returnCode'[t] = -1
                PROVE  [thread |-> t, ticksTimeout |-> threadTime] \in Range(timeoutHead)
    OBVIOUS
  <2>1. /\ semaphorePending \in [Thread -> Semaphore \cup {NoSemaphore}]
        /\ returnCode \in [Thread -> {0, -1}]
    BY DEF KernelInv, TypeOK
  <2>2. ASSUME NEW s \in Semaphore, SemaphorePost(s)
        PROVE  FALSE
    <3>1. PostWake(s)
      BY <2>2 DEF SemaphorePost, PostFree, waitVars
    <3>2. semaphorePending' = [semaphorePending EXCEPT ![Head(semHead[s])] = NoSemaphore]
          /\ returnCode' = [returnCode EXCEPT ![Head(semHead[s])] = 0]
      BY <3>1 DEF PostWake
    <3>3. t = Head(semHead[s])
      BY <2>1, <3>2
    <3>. QED
      BY <2>1, <3>2, <3>3
  <2>3. ASSUME NEW self \in Client, Running(self), NEW s \in Semaphore, NEW ticks,
               SemaphorePend(self, s, ticks)
        PROVE  FALSE
    <3>1. UNCHANGED semaphorePending \/ semaphorePending' = [semaphorePending EXCEPT ![self] = s]
      BY <2>3 DEF SemaphorePend, PendAcquire, PendNoWait, PendWait, waitVars, kernelVars
    <3>2. NoSemaphore \notin Semaphore
      BY KernelAssumption
    <3>. QED
      BY <2>1, <3>1, <3>2
  <2>4. ASSUME NEW u, NEW p, ThreadCreate(u, p) \/ ThreadFree(u) \/ ThreadPrioritySet(u, p) \/ ThreadExit(u)
        PROVE  FALSE
    BY <2>4 DEF ThreadCreate, ThreadFree, ThreadPrioritySet, ThreadExit, waitVars
  <2>5. TickExpire
    <3>1. ~Boot
      BY <2>4 DEF Boot, OSStart, waitVars
    <3>2. ~ThreadCall
      BY <2>2, <2>3, <2>4 DEF ThreadCall
    <3>3. ~(InterruptEntry \/ TickCount \/ TickDone \/ InterruptExit)
      BY DEF InterruptEntry, TickCount, TickDone, InterruptExit, waitVars
    <3>4. \A s \in Semaphore : ~InterruptPost(s)
      BY <2>2 DEF InterruptPost
    <3>. QED
      BY <3>1, <3>2, <3>3, <3>4 DEF KernelNext, Interrupt
  <2>6. timeoutHead \in Seq(Timeout) /\ threadTime \in Instant
    BY TimeFacts
  <2>7. /\ isr = "tick" /\ timeoutHead # <<>>
        /\ TickDiff(threadTime, Head(timeoutHead).ticksTimeout) >= 0
        /\ semaphorePending' = [semaphorePending EXCEPT ![Head(timeoutHead).thread] = NoSemaphore]
    BY <2>5 DEF TickExpire, TimeoutDue
  <2>8. Head(timeoutHead).thread = t
    BY <2>1, <2>7
  <2>9. PICK e \in Timeout : e = Head(timeoutHead) /\ e = timeoutHead[1] /\ 1 \in 1 .. Len(timeoutHead)
    BY <2>6, <2>7
  <2>10. e.ticksTimeout = threadTime
    <3>1. e.ticksTimeout \in Instant /\ TicksLeft(threadTime)[e] = TickDiff(e.ticksTimeout, threadTime)
      BY <2>6, <2>9, EntryFacts
    <3>2. TicksLeft(threadTime)[e] >= 0
      BY <2>7, <2>9 DEF ListInTime, InTime
    <3>. QED
      BY <2>6, <2>7, <2>9, <3>1, <3>2, TickDiffDue
  <2>11. e = [thread |-> t, ticksTimeout |-> threadTime]
    BY <2>8, <2>9, <2>10 DEF Timeout
  <2>. QED
    BY <2>6, <2>9, <2>11 DEF Range
<1>. QED
  BY <1>1, KernelInvariant, ListAlwaysInTime, PTL DEF KernelSpec, TimeoutExact
=============================================================================

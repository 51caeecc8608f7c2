--------------------------- MODULE RtosTimerProofs ---------------------------
(***************************************************************************)
(* Proofs about the timers, for any threads, timers, times and schedule:   *)
(* the list of timers stays sound and sorted, and OS_TimerThread does not  *)
(* oversleep.  Both rest on how far the times that anybody holds are from  *)
(* the clock, since a counter that wraps orders only what is near.         *)
(***************************************************************************)
EXTENDS RtosTimer, RtosKernelProofs

(***************************************************************************)
(* The inductive invariant.                                                *)
(***************************************************************************)

\* The ticks from now until a time, negative once it is over.
Ahead(time) == TickDiff(time, threadTime)

\* While a tick is being served the clock has moved on and the waits have not.
Slack == IF isr = "tick" THEN 1 ELSE 0

Near(time) ==
    /\ - MaxLag <= Ahead(time)
    /\ 2 * (Ahead(time) + MaxLag + Slack) < TimeWrap

Place ==
    {"user", "startActive", "startStop", "startStopLocked", "start", "startLocked", "startWake",
     "stop", "stopLocked", "begin", "begin2", "plan", "sleep", "awake", "look", "pick",
     "handle", "fire"}

\* Where a thread has a timer in hand, and where it has a time as well.
Working ==
    {"startActive", "startStop", "startStopLocked", "start", "startLocked", "stop",
     "stopLocked", "handle"}
Carrying == {"startActive", "startStop", "startStopLocked", "start", "startLocked"}

\* Where OS_TimerThread has begun to plan how long to sleep.
Planning == {"begin", "begin2", "plan", "sleep"}

ListTypeOK ==
    /\ timerHead \in Seq(Timer)
    /\ active \in [Timer -> BOOLEAN]
    /\ ticksTimeout \in [Timer -> Instant]
    /\ ticksRestart \in [Timer -> StartTicks \cup {0}]

ArgTypeOK ==
    /\ timer \in [Thread -> Timer \cup {NoTimer}]
    /\ due \in [Thread -> Instant]
    /\ again \in [Thread -> StartTicks \cup {0}]

TimerTypeOK ==
    /\ ListTypeOK
    /\ ArgTypeOK
    /\ timeNow \in Instant
    /\ ticks \in Int
    /\ pc \in [Thread -> Place]
    /\ \A t \in Thread : pc[t] \in Working => timer[t] \in Timer

TimesNear ==
    /\ \A t \in Thread : pc[t] \in Carrying => Near(due[t])
    /\ \A x \in Timer : active[x] => Near(ticksTimeout[x])
    /\ pc[TimerThread] \notin {"begin", "awake"} => - MaxLag <= Ahead(timeNow) /\ Ahead(timeNow) <= 0

\* The list is sorted by the ticks until the timers end.
Ends == [x \in Timer |-> Ahead(ticksTimeout[x])]

ListSorted ==
    /\ IsInjective(timerHead)
    /\ Range(timerHead) = {x \in Timer : active[x]}
    /\ KeySorted(timerHead, Ends)

\* Nobody but OS_TimerThread waits for SemaphoreTimer, or with a time.
WaitsKnown ==
    /\ \A t \in Thread : semaphorePending[t] = SemaphoreTimer => t = TimerThread /\ pc[t] = "awake"
    /\ \A e \in Range(timeoutHead) :
          e.thread = TimerThread /\ - (MaxLag + Slack) <= Ahead(e.ticksTimeout)

\* A wakeup of OS_TimerThread is under way.
Waking == \E t \in Thread : pc[t] = "startWake"
Heralded == semCount[SemaphoreTimer] > 0 \/ Waking

FirstEnds == Ends[Head(timerHead)]
FirstAfter(n) == timerHead = <<>> \/ n <= FirstEnds

\* What OS_TimerThread is about to sleep for ends before the first timer, or it is woken.
PlanKnown ==
    /\ pc[TimerThread] = "begin" => timerHead = <<>> \/ Heralded
    /\ pc[TimerThread] \in {"begin2", "plan"} => Heralded \/ FirstAfter(Ahead(timeNow) + 1)
    /\ pc[TimerThread] = "sleep" =>
          /\ \/ Heralded
             \/ ticks = FOREVER /\ timerHead = <<>>
             \/ ticks > 0 /\ FirstAfter(Ahead(timeNow) + ticks)
          /\ 2 * ticks < TimeWrap
          /\ ticks = FOREVER \/ - MaxLag <= ticks

\* So does what it is asleep for.
SleepKnown ==
    semaphorePending[TimerThread] = SemaphoreTimer =>
        \/ timerHead = <<>>
        \/ Waking
        \/ \E e \in Range(timeoutHead) : FirstAfter(Ahead(e.ticksTimeout) - MaxLag)

TimerInv ==
    /\ TimerTypeOK
    /\ TimesNear
    /\ ListSorted
    /\ WaitsKnown
    /\ PlanKnown
    /\ SleepKnown

(***************************************************************************)
(* Constants and times.                                                    *)
(***************************************************************************)

LEMMA TimerConstants ==
    /\ TimerThread \in Thread /\ TimerThread \in Client
    /\ SemaphoreLock \in Semaphore /\ SemaphoreTimer \in Semaphore
    /\ SemaphoreTimer # SemaphoreLock /\ SemaphoreTimer # NoSemaphore
    /\ NoTimer \notin Timer
    /\ MaxLag \in Nat /\ TimeWrap \in Nat /\ TimeWrap > 1 /\ 2 * (MaxLag + 1) < TimeWrap
    /\ \A n \in StartTicks \cup {0} : n \in Nat /\ 2 * (n + MaxLag) < TimeWrap
<1>1. MaxLag \in Nat /\ TimeWrap \in Nat \ {0} /\ 2 * (MaxLag + 1) < TimeWrap
  BY TimerAssumption, TimerTimeAssumption, TimeAssumption
<1>2. \A n \in StartTicks \cup {0} : n \in Nat /\ 2 * (n + MaxLag) < TimeWrap
  <2>1. \A n \in StartTicks : n \in Nat /\ 2 * (n + MaxLag) < TimeWrap
    BY TimerAssumption, TimerTimeAssumption
  <2>2. 0 \in Nat /\ 2 * (0 + MaxLag) < TimeWrap
    BY <1>1
  <2>. QED
    BY <2>1, <2>2
<1>3. /\ TimerThread \in Thread /\ TimerThread \in Client
      /\ SemaphoreLock \in Semaphore /\ SemaphoreTimer \in Semaphore
      /\ SemaphoreTimer # SemaphoreLock /\ SemaphoreTimer # NoSemaphore
      /\ NoTimer \notin Timer
  BY TimerAssumption, KernelAssumption DEF Client
<1>. QED
  BY <1>1, <1>2, <1>3

LEMMA AheadIsInt ==
    ASSUME KernelInv, NEW time \in Instant
    PROVE  /\ Ahead(time) \in Int
           /\ - TimeWrap <= 2 * Ahead(time) /\ 2 * Ahead(time) < TimeWrap
           /\ threadTime \in Instant
<1>1. threadTime \in Instant
  BY DEF KernelInv, TypeOK, Instant
<1>. QED
  BY <1>1, TickDiffValue DEF Ahead

\* Of two times that are near, the counter tells which is the earlier.
LEMMA NearApart ==
    ASSUME KernelInv, NEW a \in Instant, NEW b \in Instant, Near(a), Near(b)
    PROVE  /\ Ahead(a) \in Int /\ Ahead(b) \in Int
           /\ TickDiff(a, b) = Ahead(a) - Ahead(b)
<1>1. Ahead(a) \in Int /\ Ahead(b) \in Int /\ threadTime \in Instant
  BY AheadIsInt
<1>2. MaxLag \in Nat /\ TimeWrap \in Nat /\ Slack \in {0, 1}
  BY TimerConstants DEF Slack
<1>3. PICK A \in Int, B \in Int : A = Ahead(a) /\ B = Ahead(b)
  BY <1>1
<1>4. PICK slack \in {0, 1} : slack = Slack
  BY <1>2
<1>5. /\ - MaxLag <= A /\ 2 * (A + MaxLag + slack) < TimeWrap
      /\ - MaxLag <= B /\ 2 * (B + MaxLag + slack) < TimeWrap
  BY <1>3, <1>4 DEF Near
<1>6. - TimeWrap <= 2 * (A - B) /\ 2 * (A - B) < TimeWrap
  BY <1>2, <1>5
<1>. QED
  BY <1>1, <1>3, <1>6, TickDiffApart DEF Ahead

LEMMA EntryTime ==
    ASSUME KernelInv, NEW e \in Range(timeoutHead)
    PROVE  e \in Timeout /\ e.ticksTimeout \in Instant
<1>1. timeoutHead \in Seq(Timeout)
  BY DEF KernelInv, TypeOK
<1>2. e \in Timeout
  BY <1>1 DEF Range
<1>. QED
  BY <1>2 DEF Timeout, Instant

LEMMA EndsIsInt ==
    ASSUME KernelInv, ListTypeOK
    PROVE  Ends \in [Timer -> Int] /\ \A x \in Timer : Ends[x] = Ahead(ticksTimeout[x])
<1>1. \A x \in Timer : Ahead(ticksTimeout[x]) \in Int
  BY AheadIsInt DEF ListTypeOK
<1>. QED
  BY <1>1 DEF Ends

\* The first of a list has the least key.
LEMMA HeadLeast ==
    ASSUME NEW S, NEW key \in [S -> Int], NEW s \in Seq(S), KeySorted(s, key), s # <<>>
    PROVE  Head(s) \in S /\ Head(s) \in Range(s) /\ \A y \in Range(s) : key[Head(s)] <= key[y]
<1>1. Head(s) = s[1] /\ 1 \in 1 .. Len(s) /\ s[1] \in S /\ 1 \in DOMAIN s
  OBVIOUS
<1>2. ASSUME NEW i \in DOMAIN s
      PROVE  key[s[1]] <= key[s[i]]
  <2>1. i \in 1 .. Len(s) /\ (i = 1 \/ 1 < i) /\ s[i] \in S /\ key[s[i]] \in Int
    OBVIOUS
  <2>. QED
    BY <1>1, <2>1 DEF KeySorted
<1>. QED
  BY <1>1, <1>2 DEF Range

\* The first timer is an active one.
LEMMA FirstFacts ==
    ASSUME KernelInv, TimerInv, timerHead # <<>>
    PROVE  /\ Head(timerHead) \in Timer /\ active[Head(timerHead)]
           /\ ticksTimeout[Head(timerHead)] \in Instant
           /\ FirstEnds = Ahead(ticksTimeout[Head(timerHead)])
           /\ FirstEnds \in Int /\ - MaxLag <= FirstEnds /\ 2 * (FirstEnds + MaxLag + Slack) < TimeWrap
           /\ \A x \in Timer : active[x] => FirstEnds <= Ends[x]
<1>1. ListTypeOK /\ ListSorted /\ Ends \in [Timer -> Int]
  BY EndsIsInt DEF TimerInv, TimerTypeOK
<1>2. /\ Head(timerHead) \in Timer /\ Head(timerHead) \in Range(timerHead)
      /\ \A y \in Range(timerHead) : FirstEnds <= Ends[y]
  BY <1>1, HeadLeast DEF ListTypeOK, ListSorted, FirstEnds
<1>3. active[Head(timerHead)] /\ \A x \in Timer : active[x] => FirstEnds <= Ends[x]
  BY <1>1, <1>2 DEF ListSorted
<1>4. FirstEnds = Ahead(ticksTimeout[Head(timerHead)]) /\ FirstEnds \in Int
  BY <1>1, <1>2, EndsIsInt DEF FirstEnds
<1>5. Near(ticksTimeout[Head(timerHead)])
  BY <1>2, <1>3 DEF TimerInv, TimesNear
<1>6. ticksTimeout[Head(timerHead)] \in Instant
  BY <1>1, <1>2 DEF ListTypeOK
<1>. QED
  BY <1>2, <1>3, <1>4, <1>5, <1>6 DEF Near

(***************************************************************************)
(* Steps of the kernel that leave SemaphoreTimer and the waits for it      *)
(* alone: all but a post of it, a wait for it and the interrupt.           *)
(***************************************************************************)

ClockStands == threadTime' = threadTime /\ Slack' = Slack

Quiet ==
    /\ ClockStands
    /\ semCount'[SemaphoreTimer] = semCount[SemaphoreTimer]
    /\ \A t \in Thread :
          semaphorePending'[t] = SemaphoreTimer <=> semaphorePending[t] = SemaphoreTimer
    /\ Range(timeoutHead') \subseteq Range(timeoutHead)
    /\ semaphorePending[TimerThread] = SemaphoreTimer => timeoutHead' = timeoutHead

LEMMA StillIsQuiet ==
    ASSUME UNCHANGED kernelVars
    PROVE  Quiet /\ ClockStands
  BY DEF kernelVars, Quiet, ClockStands, Slack

LEMMA LockIsQuiet ==
    ASSUME KernelInv, NEW self \in Client, Running(self),
           SemaphorePend(self, SemaphoreLock, FOREVER)
    PROVE  Quiet /\ ClockStands
<1>1. /\ self \in Thread /\ semaphorePending[self] = NoSemaphore
      /\ semCount \in [Semaphore -> Int] /\ semaphorePending \in [Thread -> Semaphore \cup {NoSemaphore}]
  BY RunningWaitsNowhere DEF KernelInv, TypeOK
<1>2. CASE PendAcquire(SemaphoreLock)
  BY <1>1, <1>2, TimerConstants DEF PendAcquire, waitVars, Quiet, ClockStands, Slack
<1>3. CASE PendWait(self, SemaphoreLock, FOREVER)
  <2>1. /\ semCount' = [semCount EXCEPT ![SemaphoreLock] = @ - 1]
        /\ semaphorePending' = [semaphorePending EXCEPT ![self] = SemaphoreLock]
        /\ timeoutHead' = timeoutHead
        /\ UNCHANGED <<threadTime, isr>>
    BY <1>3 DEF PendWait
  <2>2. \A t \in Thread : semaphorePending'[t] = IF t = self THEN SemaphoreLock ELSE semaphorePending[t]
    BY <1>1, <2>1
  <2>3. semCount'[SemaphoreTimer] = semCount[SemaphoreTimer]
    BY <1>1, <2>1, TimerConstants
  <2>. QED
    BY <1>1, <2>1, <2>2, <2>3, TimerConstants DEF Quiet, ClockStands, Slack
<1>. QED
  BY <1>2, <1>3 DEF SemaphorePend, PendNoWait, FOREVER

\* Whoever is not in the timeout list need not be taken out.
LEMMA TimeoutRemoveAbsent ==
    ASSUME NEW list \in Seq(Timeout), NEW thread \in Thread, thread \notin Threads(list)
    PROVE  TimeoutRemove(list, thread) = list
<1>1. \A i \in 1 .. Len(list) : list[i].thread # thread
  BY DEF Threads, Range
<1>2. {i \in 1 .. Len(list) : list[i].thread = thread} = {}
  BY <1>1
<1>. QED
  BY <1>2 DEF TimeoutRemove, SelectInSeq

LEMMA UnlockIsQuiet ==
    ASSUME KernelInv, WaitsKnown, SemaphorePost(SemaphoreLock)
    PROVE  Quiet /\ ClockStands
<1>1. /\ semCount \in [Semaphore -> Int] /\ semaphorePending \in [Thread -> Semaphore \cup {NoSemaphore}]
      /\ timeoutHead \in Seq(Timeout) /\ Distinct(timeoutHead)
  BY DEF KernelInv, TypeOK
<1>2. CASE PostFree(SemaphoreLock)
  BY <1>1, <1>2, TimerConstants DEF PostFree, waitVars, Quiet, ClockStands, Slack
<1>3. CASE PostWake(SemaphoreLock)
  <2>1. PICK thread \in Thread :
          /\ semaphorePending[thread] = SemaphoreLock
          /\ semCount' = [semCount EXCEPT ![SemaphoreLock] = @ + 1]
          /\ timeoutHead' = TimeoutRemove(timeoutHead, thread)
          /\ semaphorePending' = [semaphorePending EXCEPT ![thread] = NoSemaphore]
          /\ UNCHANGED <<threadTime, isr>>
    BY <1>3, PostWakesWaiter, TimerConstants DEF PostWake
  <2>2. \A t \in Thread : semaphorePending'[t] = IF t = thread THEN NoSemaphore ELSE semaphorePending[t]
    BY <1>1, <2>1
  <2>3. semCount'[SemaphoreTimer] = semCount[SemaphoreTimer]
    BY <1>1, <2>1, TimerConstants
  <2>4. Range(timeoutHead') \subseteq Range(timeoutHead)
    BY <1>1, <2>1, TimeoutRemoveProperties
  <2>5. ASSUME semaphorePending[TimerThread] = SemaphoreTimer
        PROVE  timeoutHead' = timeoutHead
    <3>1. thread # TimerThread
      BY <2>1, <2>5, TimerConstants
    <3>2. thread \notin Threads(timeoutHead)
      BY <3>1 DEF WaitsKnown, Threads
    <3>. QED
      BY <1>1, <2>1, <3>2, TimeoutRemoveAbsent
  <2>. QED
    BY <2>1, <2>2, <2>3, <2>4, <2>5, TimerConstants DEF Quiet, ClockStands, Slack
<1>. QED
  BY <1>2, <1>3 DEF SemaphorePost

LEMMA BootIsQuiet ==
    ASSUME TimerBoot
    PROVE  Quiet /\ ClockStands
  BY DEF TimerBoot, ThreadCreate, OSStart, waitVars, Quiet, ClockStands, Slack

(***************************************************************************)
(* The list of timers.                                                     *)
(***************************************************************************)

\* What a step has to leave of the list, and that its first timer ends no earlier.
ListKept ==
    /\ ListTypeOK'
    /\ ListSorted'
    /\ \A x \in Timer : active'[x] => Near(ticksTimeout'[x])

FirstNoEarlier == timerHead' = <<>> \/ (timerHead # <<>> /\ FirstEnds <= FirstEnds')

\* While the clock stands, the ticks until a timer ends change with its time only.
LEMMA EndsNext ==
    ASSUME KernelInv, ClockStands, ListTypeOK'
    PROVE  /\ Ends' \in [Timer -> Int]
           /\ \A x \in Timer : Ends'[x] = Ahead(ticksTimeout'[x])
<1>1. \A x \in Timer : Ahead(ticksTimeout'[x]) \in Int
  BY AheadIsInt DEF ListTypeOK
<1>2. Ends' = [x \in Timer |-> Ahead(ticksTimeout'[x])]
  BY DEF ClockStands, Ends, Ahead
<1>. QED
  BY <1>1, <1>2

\* If the first timer of the list was in it and has its time, it ends no earlier than
\* the first one did.
LEMMA FirstStays ==
    ASSUME KernelInv, TimerInv, ClockStands, ListTypeOK',
           timerHead' # <<>> => /\ Head(timerHead') \in Range(timerHead)
                                /\ ticksTimeout'[Head(timerHead')] = ticksTimeout[Head(timerHead')]
    PROVE  FirstNoEarlier
<1>. SUFFICES ASSUME timerHead' # <<>>
              PROVE  timerHead # <<>> /\ FirstEnds <= FirstEnds'
  BY DEF FirstNoEarlier
<1>1. timerHead # <<>>
  BY DEF Range
<1>2. Head(timerHead') \in Timer /\ active[Head(timerHead')]
  BY DEF TimerInv, ListSorted
<1>3. FirstEnds <= Ends[Head(timerHead')]
  BY <1>1, <1>2, FirstFacts
<1>4. FirstEnds' = Ends[Head(timerHead')]
  <2>1. FirstEnds' = Ends'[Head(timerHead')]
    BY DEF FirstEnds
  <2>2. ListTypeOK
    BY DEF TimerInv, TimerTypeOK
  <2>. QED
    BY <1>2, <2>1, <2>2, EndsIsInt, EndsNext
<1>. QED
  BY <1>1, <1>3, <1>4

LEMMA ListUnchanged ==
    ASSUME KernelInv, TimerInv, ClockStands, UNCHANGED listVars
    PROVE  ListKept /\ FirstNoEarlier
<1>1. UNCHANGED <<timerHead, active, ticksTimeout, ticksRestart>>
  BY DEF listVars
<1>2. ListTypeOK /\ ListTypeOK'
  BY <1>1 DEF TimerInv, TimerTypeOK, ListTypeOK
<1>3. Ends' = Ends
  BY <1>1 DEF ClockStands, Ends, Ahead
<1>4. ListSorted'
  BY <1>1, <1>3 DEF TimerInv, ListSorted
<1>5. \A x \in Timer : active'[x] => Near(ticksTimeout'[x])
  BY <1>1 DEF TimerInv, TimesNear
<1>6. FirstNoEarlier
  <2>1. timerHead # <<>> => FirstEnds \in Int
    BY FirstFacts
  <2>. QED
    BY <1>1, <1>3, <2>1 DEF FirstNoEarlier, FirstEnds
<1>. QED
  BY <1>2, <1>4, <1>5, <1>6 DEF ListKept

\* OS_TimerStop takes the timer out.
LEMMA UnlinkKeepsList ==
    ASSUME KernelInv, TimerInv, ClockStands, NEW x \in Timer, Unlink(x)
    PROVE  ListKept /\ FirstNoEarlier
<1>1. CASE ~active[x]
  BY <1>1, ListUnchanged DEF Unlink
<1>2. CASE active[x]
  <2>. DEFINE I == {i \in 1 .. Len(timerHead) : timerHead[i] = x}
  <2>1. /\ active' = [active EXCEPT ![x] = FALSE]
        /\ timerHead' = RemoveFirst(timerHead, x)
        /\ UNCHANGED <<ticksTimeout, ticksRestart>>
    BY <1>2 DEF Unlink
  <2>2. ListTypeOK /\ ListSorted
    BY DEF TimerInv, TimerTypeOK
  <2>3. timerHead \in Seq(Timer) /\ x \in Range(timerHead)
    BY <1>2, <2>2 DEF ListTypeOK, ListSorted
  <2>4. I \subseteq 1 .. Len(timerHead) /\ I \subseteq Nat /\ I # {}
    BY <2>3 DEF Range
  <2>5. timerHead' = RemoveAt(timerHead, Min(I))
    BY <2>1, <2>4 DEF RemoveFirst, SelectInSeq
  <2>6. Min(I) \in I
    <3>. HIDE DEF I
    <3>. QED BY <2>4, MinOfNat
  <2>7. Min(I) \in 1 .. Len(timerHead) /\ timerHead[Min(I)] = x
    BY <2>6
  <2>. HIDE DEF I
  <2>8. /\ timerHead' \in Seq(Timer)
        /\ Range(timerHead') = Range(timerHead) \ {x}
        /\ IsInjective(timerHead')
    BY <2>2, <2>3, <2>5, <2>7, RemoveAtProperties, RemoveAtRange DEF ListSorted
  <2>9. ListTypeOK'
    BY <2>1, <2>2, <2>8 DEF ListTypeOK
  <2>10. Ends' = Ends
    BY <2>1 DEF ClockStands, Ends, Ahead
  <2>11. KeySorted(timerHead', Ends)
    BY <2>2, <2>3, <2>5, <2>7, RemoveSorted, EndsIsInt DEF ListSorted
  <2>12. \A y \in Timer : active'[y] <=> (active[y] /\ y # x)
    BY <2>1, <2>2 DEF ListTypeOK
  <2>13. ListSorted'
    <3>1. Range(timerHead') = {y \in Timer : active'[y]}
      BY <2>2, <2>8, <2>12 DEF ListSorted
    <3>. QED
      BY <2>8, <2>10, <2>11, <3>1 DEF ListSorted
  <2>14. \A y \in Timer : active'[y] => Near(ticksTimeout'[y])
    BY <2>1, <2>12 DEF TimerInv, TimesNear
  <2>15. FirstNoEarlier
    <3>1. ASSUME timerHead' # <<>>
          PROVE  Head(timerHead') \in Range(timerHead)
      <4>1. Head(timerHead') = timerHead'[1] /\ 1 \in DOMAIN timerHead'
        BY <2>8, <3>1
      <4>2. Head(timerHead') \in Range(timerHead')
        BY <4>1 DEF Range
      <4>. QED
        BY <2>8, <4>2
    <3>. QED
      BY <2>1, <2>9, <3>1, FirstStays
  <2>. QED
    BY <2>9, <2>13, <2>14, <2>15 DEF ListKept
<1>. QED
  BY <1>1, <1>2

\* OS_TimerStart puts the timer where its time is.
LEMMA LinkKeepsList ==
    ASSUME KernelInv, TimerInv, ClockStands, NEW x \in Timer, ~active[x],
           NEW time \in Instant, Near(time), NEW restart \in StartTicks \cup {0},
           Link(x, time, restart)
    PROVE  ListKept /\ (FirstNoEarlier \/ Head(timerHead') = x)
<1>. DEFINE I == {i \in 1 .. Len(timerHead) : TickDiff(time, ticksTimeout[timerHead[i]]) <= 0}
<1>1. /\ ticksTimeout' = [ticksTimeout EXCEPT ![x] = time]
      /\ ticksRestart' = [ticksRestart EXCEPT ![x] = restart]
      /\ active' = [active EXCEPT ![x] = TRUE]
      /\ timerHead' = TimerInsert(x, time)
  BY DEF Link
<1>2. ListTypeOK /\ ListSorted /\ timerHead \in Seq(Timer)
  BY DEF TimerInv, TimerTypeOK, ListTypeOK
<1>3. timerHead' = IF I = {} THEN Append(timerHead, x) ELSE InsertAt(timerHead, Min(I), x)
  <2>1. I # {} => Min(I) # 0
    <3>1. I \subseteq Nat /\ I \subseteq 1 .. Len(timerHead)
      OBVIOUS
    <3>. HIDE DEF I
    <3>. QED BY <3>1, MinOfNat
  <2>. QED
    BY <1>1, <2>1 DEF TimerInsert, SelectInSeq
<1>4. x \notin Range(timerHead)
  BY <1>2 DEF ListSorted
<1>5. \A i \in 1 .. Len(timerHead) : timerHead[i] \in Timer /\ active[timerHead[i]] /\ timerHead[i] # x
  BY <1>2, <1>4 DEF ListSorted, Range
<1>6. /\ \A y \in Timer : ticksTimeout'[y] = IF y = x THEN time ELSE ticksTimeout[y]
      /\ \A y \in Timer : active'[y] <=> (active[y] \/ y = x)
      /\ active' \in [Timer -> BOOLEAN] /\ ticksTimeout' \in [Timer -> Instant]
      /\ ticksRestart' \in [Timer -> StartTicks \cup {0}]
  BY <1>1, <1>2 DEF ListTypeOK
<1>. DEFINE key == [y \in Timer |-> Ahead(ticksTimeout'[y])]
<1>7. key \in [Timer -> Int] /\ Ends' = key
  <2>1. \A y \in Timer : Ahead(ticksTimeout'[y]) \in Int
    BY <1>6, AheadIsInt
  <2>2. Ends' = key
    BY DEF ClockStands, Ends, Ahead
  <2>. QED
    BY <2>1, <2>2
<1>8. key[x] = Ahead(time) /\ \A y \in Timer : y # x => key[y] = Ends[y]
  BY <1>2, <1>6, EndsIsInt
<1>. HIDE DEF key
<1>9. KeySorted(timerHead, key)
  <2>1. \A i \in 1 .. Len(timerHead) : key[timerHead[i]] = Ends[timerHead[i]]
    BY <1>5, <1>8
  <2>. QED
    BY <1>2, <2>1 DEF ListSorted, KeySorted
<1>10. \A i \in 1 .. Len(timerHead) : i \in I <=> key[x] <= key[timerHead[i]]
  <2>1. SUFFICES ASSUME NEW i \in 1 .. Len(timerHead)
                 PROVE  i \in I <=> key[x] <= key[timerHead[i]]
    OBVIOUS
  <2>2. /\ timerHead[i] \in Timer /\ Near(ticksTimeout[timerHead[i]])
        /\ ticksTimeout[timerHead[i]] \in Instant
    BY <1>2, <1>5 DEF TimerInv, TimesNear, ListTypeOK
  <2>3. /\ TickDiff(time, ticksTimeout[timerHead[i]]) = Ahead(time) - Ahead(ticksTimeout[timerHead[i]])
        /\ Ahead(time) \in Int /\ Ahead(ticksTimeout[timerHead[i]]) \in Int
    BY <2>2, NearApart
  <2>4. key[x] = Ahead(time) /\ key[timerHead[i]] = Ahead(ticksTimeout[timerHead[i]])
    BY <1>2, <1>5, <1>8, <2>2, EndsIsInt
  <2>. QED
    BY <2>3, <2>4
<1>11. /\ timerHead' \in Seq(Timer) /\ Range(timerHead') = Range(timerHead) \cup {x}
       /\ IsInjective(timerHead') /\ KeySorted(timerHead', key)
  <2>1. CASE I = {}
    <3>1. \A i \in 1 .. Len(timerHead) : key[timerHead[i]] <= key[x]
      BY <1>5, <1>7, <1>10, <2>1
    <3>2. timerHead' = Append(timerHead, x)
      BY <1>3, <2>1
    <3>. QED
      BY <1>2, <1>4, <1>7, <1>9, <3>1, <3>2, AppendRange, AppendSorted DEF ListSorted
  <2>2. CASE I # {}
    <3>1. I \subseteq Nat /\ I \subseteq 1 .. Len(timerHead)
      OBVIOUS
    <3>. DEFINE k == Min(I)
    <3>2. k \in I /\ \A i \in I : k <= i
      <4>. HIDE DEF I
      <4>. QED BY <2>2, <3>1, MinOfNat
    <3>3. timerHead' = InsertAt(timerHead, k, x)
      BY <1>3, <2>2
    <3>. HIDE DEF k
    <3>4. k \in 1 .. Len(timerHead) /\ k \in 1 .. Len(timerHead) + 1
      BY <3>1, <3>2
    <3>5. \A i \in 1 .. k - 1 : key[timerHead[i]] <= key[x]
      <4>1. \A i \in 1 .. k - 1 : i \in 1 .. Len(timerHead) /\ i \notin I
        BY <3>2, <3>4
      <4>. HIDE DEF I
      <4>. QED
        BY <1>5, <1>7, <1>10, <4>1
    <3>6. \A i \in k .. Len(timerHead) : key[x] <= key[timerHead[i]]
      <4>1. key[x] <= key[timerHead[k]]
        BY <1>10, <3>2, <3>4
      <4>2. \A i \in k .. Len(timerHead) :
              /\ key[timerHead[k]] <= key[timerHead[i]]
              /\ key[timerHead[k]] \in Int /\ key[timerHead[i]] \in Int
        <5>1. \A i \in k .. Len(timerHead) : i \in 1 .. Len(timerHead) /\ (i = k \/ k < i)
          BY <3>4
        <5>. QED
          BY <1>5, <1>7, <1>9, <3>4, <5>1 DEF KeySorted
      <4>. QED
        BY <1>7, <4>1, <4>2
    <3>7. timerHead' \in Seq(Timer) /\ Range(timerHead') = Range(timerHead) \cup {x}
      BY <1>2, <3>3, <3>4, InsertAtProperties, InsertAtRange
    <3>8. IsInjective(timerHead')
      BY <1>2, <1>4, <3>3, <3>4, InsertAtRange DEF ListSorted
    <3>9. KeySorted(timerHead', key)
      BY <1>2, <1>7, <1>9, <3>3, <3>4, <3>5, <3>6, InsertSorted
    <3>. QED
      BY <3>7, <3>8, <3>9
  <2>. QED
    BY <2>1, <2>2
<1>12. ListTypeOK'
  BY <1>6, <1>11 DEF ListTypeOK
<1>13. ListSorted'
  <2>1. Range(timerHead') = {y \in Timer : active'[y]}
    BY <1>2, <1>6, <1>11 DEF ListSorted
  <2>. QED
    BY <1>7, <1>11, <2>1 DEF ListSorted
<1>14. \A y \in Timer : active'[y] => Near(ticksTimeout'[y])
  BY <1>6 DEF TimerInv, TimesNear
<1>15. ASSUME Head(timerHead') # x
       PROVE  FirstNoEarlier
  <2>1. ASSUME timerHead' # <<>>
        PROVE  Head(timerHead') \in Range(timerHead) /\ Head(timerHead') \in Timer
    <3>1. Head(timerHead') = timerHead'[1] /\ 1 \in DOMAIN timerHead' /\ Head(timerHead') \in Timer
      BY <1>11, <2>1
    <3>2. Head(timerHead') \in Range(timerHead')
      BY <3>1 DEF Range
    <3>. QED
      BY <1>11, <1>15, <3>1, <3>2
  <2>. QED
    BY <1>6, <1>12, <1>15, <2>1, FirstStays
<1>. QED
  BY <1>12, <1>13, <1>14, <1>15 DEF ListKept

(***************************************************************************)
(* Each action preserves the invariant.                                    *)
(***************************************************************************)

LEMMA TimerInitEstablishes == TimerInit => TimerInv
<1>. SUFFICES ASSUME TimerInit
              PROVE  TimerInv
  OBVIOUS
<1>1. /\ timerHead = <<>> /\ active = [x \in Timer |-> FALSE] /\ ticksTimeout = [x \in Timer |-> 0]
      /\ ticksRestart = [x \in Timer |-> 0] /\ timeNow = 0 /\ ticks = 0
      /\ timer = [t \in Thread |-> NoTimer] /\ due = [t \in Thread |-> 0] /\ again = [t \in Thread |-> 0]
      /\ pc = [t \in Thread |-> IF t = TimerThread THEN "begin" ELSE "user"]
      /\ semaphorePending = [t \in Thread |-> NoSemaphore] /\ timeoutHead = <<>>
  BY DEF TimerInit, KernelInit
<1>2. 0 \in Instant
  BY TimerConstants DEF Instant
<1>3. TimerTypeOK
  BY <1>1, <1>2, TimerConstants DEF TimerTypeOK, ListTypeOK, ArgTypeOK, Place, Working
<1>4. TimesNear
  BY <1>1, TimerConstants DEF TimesNear, Carrying
<1>5. ListSorted
  BY <1>1 DEF ListSorted, KeySorted, IsInjective, Range
<1>6. WaitsKnown
  BY <1>1, TimerConstants DEF WaitsKnown, Range
<1>7. PlanKnown /\ SleepKnown
  BY <1>1, TimerConstants DEF PlanKnown, SleepKnown
<1>. QED
  BY <1>3, <1>4, <1>5, <1>6, <1>7 DEF TimerInv

\* A thread goes on, with or without a change of the list, while the clock stands.
Moves(self, to) ==
    /\ Running(self)
    /\ pc' = [pc EXCEPT ![self] = to]
    /\ ArgTypeOK'
    /\ timeNow' \in Instant
    /\ ticks' \in Int
    /\ \A t \in Thread : t # self => timer'[t] = timer[t] /\ due'[t] = due[t]
    /\ to \in Working => timer'[self] \in Timer
    /\ to \in Carrying => Near(due'[self])
    /\ self # TimerThread => UNCHANGED clockVars
    /\ self = TimerThread /\ to \notin {"begin", "awake"} =>
          - MaxLag <= Ahead(timeNow') /\ Ahead(timeNow') <= 0

LEMMA MoveKeepsTimes ==
    ASSUME KernelInv, TimerInv, ClockStands, NEW self \in Client, NEW to \in Place,
           Moves(self, to), ListKept
    PROVE  /\ TimerTypeOK' /\ TimesNear' /\ ListSorted'
           /\ \A t \in Thread : pc'[t] = IF t = self THEN to ELSE pc[t]
           /\ self \in Thread /\ semaphorePending[self] = NoSemaphore
<1>1. self \in Thread /\ semaphorePending[self] = NoSemaphore
  BY RunningWaitsNowhere DEF Moves
<1>2. /\ pc' \in [Thread -> Place]
      /\ \A t \in Thread : pc'[t] = IF t = self THEN to ELSE pc[t]
  BY <1>1 DEF TimerInv, TimerTypeOK, Moves
<1>3. TimerTypeOK'
  BY <1>1, <1>2 DEF TimerInv, TimerTypeOK, ListKept, Moves
<1>4. \A t \in Thread : pc'[t] \in Carrying => Near(due'[t])
  BY <1>1, <1>2 DEF TimerInv, TimesNear, Moves
<1>5. pc'[TimerThread] \notin {"begin", "awake"} => - MaxLag <= Ahead(timeNow') /\ Ahead(timeNow') <= 0
  <2>1. CASE self = TimerThread
    BY <1>1, <1>2, <2>1 DEF Moves
  <2>2. CASE self # TimerThread
    BY <1>2, <2>2, TimerConstants DEF TimerInv, TimesNear, Moves, clockVars
  <2>. QED
    BY <2>1, <2>2
<1>6. TimesNear'
  BY <1>4, <1>5 DEF TimesNear, ListKept, Near, Ahead, ClockStands
<1>. QED
  BY <1>1, <1>2, <1>3, <1>6 DEF ListKept

\* It posts or takes nothing but SemaphoreLock: the first timer ends no earlier for it, or a
\* wakeup is under way.
LEMMA QuietStep ==
    ASSUME KernelInv, TimerInv, Quiet, NEW self \in Client, NEW to \in Place,
           Moves(self, to), ListKept, pc[self] # "startWake",
           FirstNoEarlier \/ to = "startWake",
           self = TimerThread =>
              \/ to \notin Planning
              \/ pc[self] = "begin2" /\ to = "plan" /\ UNCHANGED clockVars
              \/ PlanKnown'
    PROVE  TimerInv'
<1>1. ClockStands
  BY DEF Quiet
<1>2. /\ TimerTypeOK' /\ TimesNear' /\ ListSorted'
      /\ \A t \in Thread : pc'[t] = IF t = self THEN to ELSE pc[t]
      /\ self \in Thread /\ semaphorePending[self] = NoSemaphore
  BY <1>1, MoveKeepsTimes
<1>3. /\ threadTime' = threadTime /\ Slack' = Slack
      /\ \A t \in Thread : semaphorePending'[t] = SemaphoreTimer <=> semaphorePending[t] = SemaphoreTimer
      /\ Range(timeoutHead') \subseteq Range(timeoutHead)
      /\ semCount'[SemaphoreTimer] = semCount[SemaphoreTimer]
  BY DEF Quiet, ClockStands
<1>4. WaitsKnown'
  <2>1. ASSUME NEW t \in Thread, semaphorePending'[t] = SemaphoreTimer
        PROVE  t = TimerThread /\ pc'[t] = "awake"
    <3>1. semaphorePending[t] = SemaphoreTimer /\ t # self
      BY <1>2, <1>3, <2>1, TimerConstants
    <3>. QED
      BY <1>2, <3>1 DEF TimerInv, WaitsKnown
  <2>2. \A e \in Range(timeoutHead') :
           e.thread = TimerThread /\ - (MaxLag + Slack) <= TickDiff(e.ticksTimeout, threadTime)
    BY <1>3 DEF TimerInv, WaitsKnown, Ahead
  <2>. QED
    BY <1>3, <2>1, <2>2 DEF WaitsKnown, Ahead
<1>5. (Waking => Waking') /\ (to = "startWake" => Waking')
  BY <1>2 DEF Waking
<1>6. ASSUME NEW n \in Int, timerHead = <<>> \/ n <= FirstEnds, ~Waking'
      PROVE  timerHead' = <<>> \/ n <= FirstEnds'
  <2>1. FirstNoEarlier
    BY <1>5, <1>6
  <2>2. timerHead # <<>> => FirstEnds \in Int
    BY FirstFacts
  <2>3. timerHead' # <<>> => FirstEnds' \in Int
    <3>1. timerHead' # <<>> => Head(timerHead') \in Timer
      BY DEF ListKept, ListTypeOK
    <3>2. FirstEnds' = Ends'[Head(timerHead')]
      BY DEF FirstEnds
    <3>. QED
      BY <1>1, <3>1, <3>2, EndsNext DEF ListKept
  <2>. QED
    BY <1>6, <2>1, <2>2, <2>3 DEF FirstNoEarlier
<1>7. timerHead = <<>> /\ ~Waking' => timerHead' = <<>>
  BY <1>5 DEF FirstNoEarlier
<1>8. PlanKnown'
  <2>1. CASE pc'[TimerThread] \notin Planning
    BY <2>1 DEF PlanKnown, Planning
  <2>2. CASE /\ pc'[TimerThread] \in Planning /\ UNCHANGED clockVars
             /\ \/ pc'[TimerThread] = pc[TimerThread]
                \/ pc[TimerThread] = "begin2" /\ pc'[TimerThread] = "plan"
    <3>1. Heralded => Heralded'
      BY <1>3, <1>5 DEF Heralded
    <3>2. Waking' => Heralded'
      BY DEF Heralded
    <3>3. Ahead(timeNow) \in Int /\ ticks \in Int
      BY AheadIsInt DEF TimerInv, TimerTypeOK
    <3>4. Ahead(timeNow)' = Ahead(timeNow) /\ ticks' = ticks
      BY <1>3, <2>2 DEF Ahead, clockVars
    <3>5. pc'[TimerThread] = "begin" => timerHead' = <<>> \/ Heralded'
      BY <1>7, <2>2, <3>1, <3>2 DEF TimerInv, PlanKnown
    <3>6. pc'[TimerThread] \in {"begin2", "plan"} =>
             Heralded' \/ timerHead' = <<>> \/ Ahead(timeNow) + 1 <= FirstEnds'
      <4>1. Ahead(timeNow) + 1 \in Int
        BY <3>3
      <4>. QED
        BY <1>6, <2>2, <3>1, <3>2, <4>1 DEF TimerInv, PlanKnown, FirstAfter
    <3>7. pc'[TimerThread] = "sleep" =>
             \/ Heralded'
             \/ ticks = FOREVER /\ timerHead' = <<>>
             \/ ticks > 0 /\ (timerHead' = <<>> \/ Ahead(timeNow) + ticks <= FirstEnds')
      <4>1. Ahead(timeNow) + ticks \in Int
        BY <3>3
      <4>. QED
        BY <1>6, <1>7, <2>2, <3>1, <3>2, <4>1 DEF TimerInv, PlanKnown, FirstAfter
    <3>8. pc'[TimerThread] = "sleep" => 2 * ticks < TimeWrap /\ (ticks = FOREVER \/ - MaxLag <= ticks)
      BY <2>2 DEF TimerInv, PlanKnown
    <3>. QED
      BY <3>4, <3>5, <3>6, <3>7, <3>8 DEF PlanKnown, FirstAfter
  <2>3. CASE self # TimerThread
    <3>1. UNCHANGED clockVars /\ pc'[TimerThread] = pc[TimerThread]
      BY <1>2, <2>3, TimerConstants DEF Moves
    <3>. QED
      BY <2>1, <2>2, <3>1
  <2>4. CASE self = TimerThread
    BY <1>2, <2>1, <2>2, <2>4
  <2>. QED
    BY <2>3, <2>4
<1>9. SleepKnown'
  <2>. SUFFICES ASSUME semaphorePending'[TimerThread] = SemaphoreTimer, ~Waking', timerHead' # <<>>
                PROVE  \E e \in Range(timeoutHead') : FirstAfter(Ahead(e.ticksTimeout) - MaxLag)'
    BY DEF SleepKnown
  <2>1. semaphorePending[TimerThread] = SemaphoreTimer /\ ~Waking /\ timerHead # <<>>
    BY <1>3, <1>5, <1>7, TimerConstants
  <2>2. PICK e \in Range(timeoutHead) : FirstAfter(Ahead(e.ticksTimeout) - MaxLag)
    BY <2>1 DEF TimerInv, SleepKnown
  <2>3. timeoutHead' = timeoutHead
    BY <2>1 DEF Quiet
  <2>4. e.ticksTimeout \in Instant
    BY <2>2, EntryTime
  <2>5. Ahead(e.ticksTimeout) - MaxLag \in Int
    BY <2>4, AheadIsInt, TimerConstants
  <2>6. timerHead' = <<>> \/ Ahead(e.ticksTimeout) - MaxLag <= FirstEnds'
    BY <1>6, <2>2, <2>5 DEF FirstAfter
  <2>. QED
    BY <1>3, <2>2, <2>3, <2>6 DEF FirstAfter, Ahead
<1>. QED
  BY <1>2, <1>4, <1>8, <1>9 DEF TimerInv

\* What OS_TimerThread has read of the clock stays as it is.
LEMMA QuietMove ==
    ASSUME KernelInv, TimerInv, Quiet, NEW self \in Client, NEW to \in Place,
           Running(self), pc' = [pc EXCEPT ![self] = to], pc[self] # "startWake",
           UNCHANGED clockVars, ArgTypeOK',
           \A t \in Thread : t # self => timer'[t] = timer[t] /\ due'[t] = due[t],
           to \in Working => timer'[self] \in Timer,
           to \in Carrying => Near(due'[self]),
           self = TimerThread =>
               /\ pc[self] \notin {"begin", "awake"}
               /\ to \notin Planning \/ (pc[self] = "begin2" /\ to = "plan"),
           ListKept, FirstNoEarlier \/ to = "startWake"
    PROVE  TimerInv'
<1>1. timeNow' = timeNow /\ timeNow \in Instant /\ ticks' = ticks /\ ticks \in Int
  BY DEF clockVars, TimerInv, TimerTypeOK
<1>2. Moves(self, to)
  BY <1>1 DEF Moves, TimerInv, TimesNear
<1>. QED
  BY <1>2, QuietStep

(***************************************************************************)
(* The steps of OS_TimerStart and OS_TimerStop.                            *)
(***************************************************************************)

LEMMA GotoEffect ==
    ASSUME KernelInv, TimerInv, NEW self \in Client, NEW from, NEW to, Goto(self, from, to)
    PROVE  /\ self \in Thread /\ Running(self) /\ isr = "none" /\ pc[self] = from
           /\ pc' = [pc EXCEPT ![self] = to]
           /\ from \in Working => timer[self] \in Timer
           /\ from \in Carrying => Near(due[self])
<1>1. self \in Thread /\ Running(self) /\ isr = "none"
  BY RunningWaitsNowhere DEF Goto
<1>. QED
  BY <1>1 DEF Goto, TimerInv, TimerTypeOK, TimesNear

LEMMA ArgsUnchanged ==
    ASSUME TimerInv, UNCHANGED argVars
    PROVE  ArgTypeOK' /\ UNCHANGED <<timer, due, again>>
  BY DEF argVars, TimerInv, TimerTypeOK, ArgTypeOK

LEMMA ArgsDeadEffect ==
    ASSUME TimerInv, NEW self \in Thread, ArgsDead(self)
    PROVE  /\ ArgTypeOK'
           /\ \A t \in Thread : t # self => timer'[t] = timer[t] /\ due'[t] = due[t]
<1>1. 0 \in Instant
  BY TimerConstants DEF Instant
<1>. QED
  BY <1>1 DEF ArgsDead, TimerInv, TimerTypeOK, ArgTypeOK

\* The lock is taken.
LEMMA LockKeeps ==
    ASSUME KernelInv, TimerInv, NEW self \in Client, NEW from \in Place, NEW to \in Place,
           Lock(self, from, to), from # "startWake",
           to \in Working => from \in Working,
           to \in Carrying => from \in Carrying,
           self = TimerThread => /\ from \notin {"begin", "awake"}
                                 /\ to \notin Planning \/ (from = "begin2" /\ to = "plan")
    PROVE  TimerInv'
<1>1. /\ Goto(self, from, to) /\ SemaphorePend(self, SemaphoreLock, FOREVER)
      /\ UNCHANGED listVars /\ UNCHANGED clockVars /\ UNCHANGED argVars
  BY DEF Lock
<1>2. /\ self \in Thread /\ Running(self) /\ pc[self] = from /\ pc' = [pc EXCEPT ![self] = to]
      /\ from \in Working => timer[self] \in Timer
      /\ from \in Carrying => Near(due[self])
  BY <1>1, GotoEffect
<1>3. Quiet /\ ClockStands
  BY <1>1, <1>2, LockIsQuiet
<1>4. ListKept /\ FirstNoEarlier
  BY <1>1, <1>3, ListUnchanged
<1>5. ArgTypeOK' /\ UNCHANGED <<timer, due, again>>
  BY <1>1, ArgsUnchanged
<1>. QED
  BY <1>1, <1>2, <1>3, <1>4, <1>5, QuietMove

LEMMA StartReadKeeps ==
    ASSUME KernelInv, TimerInv, NEW self \in Client, NEW from \in {"user", "handle"},
           NEW x \in Timer, NEW startTicks \in StartTicks \cup {0}, NEW restart \in StartTicks \cup {0},
           StartRead(self, from, x, startTicks, restart)
    PROVE  TimerInv'
<1>1. /\ Goto(self, from, "startActive")
      /\ timer' = [timer EXCEPT ![self] = x]
      /\ due' = [due EXCEPT ![self] = (startTicks + threadTime) % TimeWrap]
      /\ again' = [again EXCEPT ![self] = restart]
      /\ UNCHANGED listVars /\ UNCHANGED clockVars /\ UNCHANGED kernelVars
  BY DEF StartRead
<1>2. /\ self \in Thread /\ Running(self) /\ isr = "none" /\ pc[self] = from
      /\ pc' = [pc EXCEPT ![self] = "startActive"]
  BY <1>1, GotoEffect
<1>3. Quiet /\ ClockStands
  BY <1>1, StillIsQuiet
<1>4. ListKept /\ FirstNoEarlier
  BY <1>1, <1>3, ListUnchanged
<1>5. /\ (startTicks + threadTime) % TimeWrap \in Instant
      /\ Near((startTicks + threadTime) % TimeWrap)
  <2>1. startTicks \in Nat /\ 2 * (startTicks + MaxLag) < TimeWrap /\ MaxLag \in Nat /\ TimeWrap \in Nat
    BY TimerConstants
  <2>2. startTicks \in Int /\ - TimeWrap <= 2 * startTicks /\ 2 * startTicks < TimeWrap
    BY <2>1
  <2>3. threadTime \in Instant
    BY DEF KernelInv, TypeOK, Instant
  <2>4. /\ (startTicks + threadTime) % TimeWrap \in Instant
        /\ Ahead((startTicks + threadTime) % TimeWrap) = startTicks
    BY <2>2, <2>3, TickDiffDeadline DEF Ahead
  <2>. QED
    BY <1>2, <2>1, <2>4 DEF Near, Slack
<1>6. /\ ArgTypeOK'
      /\ \A t \in Thread : t # self => timer'[t] = timer[t] /\ due'[t] = due[t]
      /\ timer'[self] = x /\ Near(due'[self])
  BY <1>1, <1>2, <1>5 DEF TimerInv, TimerTypeOK, ArgTypeOK
<1>7. "startActive" \in Place /\ "startActive" \notin Planning
  BY DEF Place, Planning
<1>. QED
  BY <1>1, <1>2, <1>3, <1>4, <1>6, <1>7, QuietMove

LEMMA StartActiveKeeps ==
    ASSUME KernelInv, TimerInv, NEW self \in Client, StartActive(self)
    PROVE  TimerInv'
<1>. DEFINE to == IF active[timer[self]] THEN "startStop" ELSE "start"
<1>1. /\ Goto(self, "startActive", to)
      /\ UNCHANGED listVars /\ UNCHANGED clockVars /\ UNCHANGED argVars /\ UNCHANGED kernelVars
  BY DEF StartActive
<1>2. to \in Place /\ to \in Working /\ to \in Carrying /\ to \notin Planning
  BY DEF Place, Working, Carrying, Planning
<1>. HIDE DEF to
<1>3. /\ self \in Thread /\ Running(self) /\ pc[self] = "startActive" /\ pc' = [pc EXCEPT ![self] = to]
      /\ timer[self] \in Timer /\ Near(due[self])
  <2>1. "startActive" \in Working /\ "startActive" \in Carrying
    BY DEF Working, Carrying
  <2>. QED
    BY <1>1, <2>1, GotoEffect
<1>4. Quiet /\ ClockStands
  BY <1>1, StillIsQuiet
<1>5. ListKept /\ FirstNoEarlier
  BY <1>1, <1>4, ListUnchanged
<1>6. ArgTypeOK' /\ UNCHANGED <<timer, due, again>>
  BY <1>1, ArgsUnchanged
<1>. QED
  BY <1>1, <1>2, <1>3, <1>4, <1>5, <1>6, QuietMove

LEMMA StartStopKeeps ==
    ASSUME KernelInv, TimerInv, NEW self \in Client, StartStop(self)
    PROVE  TimerInv'
<1>1. /\ Goto(self, "startStopLocked", "start") /\ Unlink(timer[self]) /\ SemaphorePost(SemaphoreLock)
      /\ UNCHANGED clockVars /\ UNCHANGED argVars
  BY DEF StartStop
<1>2. /\ "startStopLocked" \in Working /\ "startStopLocked" \in Carrying
      /\ "start" \in Place /\ "start" \notin Planning
  BY DEF Place, Working, Carrying, Planning
<1>3. /\ self \in Thread /\ Running(self) /\ pc[self] = "startStopLocked"
      /\ pc' = [pc EXCEPT ![self] = "start"]
      /\ timer[self] \in Timer /\ Near(due[self])
  BY <1>1, <1>2, GotoEffect
<1>4. Quiet /\ ClockStands
  BY <1>1, UnlockIsQuiet DEF TimerInv
<1>5. ListKept /\ FirstNoEarlier
  BY <1>1, <1>3, <1>4, UnlinkKeepsList
<1>6. ArgTypeOK' /\ UNCHANGED <<timer, due, again>>
  BY <1>1, ArgsUnchanged
<1>. QED
  BY <1>1, <1>2, <1>3, <1>4, <1>5, <1>6, QuietMove

LEMMA StopKeeps ==
    ASSUME KernelInv, TimerInv, NEW self \in Client, Stop(self)
    PROVE  TimerInv'
<1>1. /\ Goto(self, "stopLocked", Return(self)) /\ Unlink(timer[self]) /\ SemaphorePost(SemaphoreLock)
      /\ ArgsDead(self) /\ UNCHANGED clockVars
  BY DEF Stop
<1>2. /\ "stopLocked" \in Working /\ Return(self) \in Place /\ Return(self) \notin Planning
      /\ Return(self) \notin Working /\ Return(self) \notin Carrying
  BY DEF Place, Working, Carrying, Planning, Return
<1>3. /\ self \in Thread /\ Running(self) /\ pc[self] = "stopLocked"
      /\ pc' = [pc EXCEPT ![self] = Return(self)]
      /\ timer[self] \in Timer
  BY <1>1, <1>2, GotoEffect
<1>4. Quiet /\ ClockStands
  BY <1>1, UnlockIsQuiet DEF TimerInv
<1>5. ListKept /\ FirstNoEarlier
  BY <1>1, <1>3, <1>4, UnlinkKeepsList
<1>6. ArgTypeOK' /\ \A t \in Thread : t # self => timer'[t] = timer[t] /\ due'[t] = due[t]
  BY <1>1, <1>3, ArgsDeadEffect
<1>. QED
  BY <1>1, <1>2, <1>3, <1>4, <1>5, <1>6, QuietMove

\* The timer is linked; who makes it the first goes on to wake OS_TimerThread.
LEMMA StartKeeps ==
    ASSUME KernelInv, TimerInv, NEW self \in Client, Start(self)
    PROVE  TimerInv'
<1>. DEFINE x == timer[self]
<1>1. /\ pc[self] = "startLocked" /\ SemaphorePost(SemaphoreLock)
      /\ ArgsDead(self) /\ UNCHANGED clockVars
  BY DEF Start
<1>2. /\ "startLocked" \in Working /\ "startLocked" \in Carrying
      /\ Return(self) \in Place /\ Return(self) \notin Planning
      /\ Return(self) \notin Working /\ Return(self) \notin Carrying
      /\ "startWake" \in Place /\ "startWake" \notin Planning
      /\ "startWake" \notin Working /\ "startWake" \notin Carrying
  BY DEF Place, Working, Carrying, Planning, Return
<1>3. Quiet /\ ClockStands
  BY <1>1, UnlockIsQuiet DEF TimerInv
<1>4. CASE active[x] /\ Goto(self, "startLocked", Return(self)) /\ UNCHANGED listVars
  <2>1. /\ self \in Thread /\ Running(self) /\ pc' = [pc EXCEPT ![self] = Return(self)]
    BY <1>4, GotoEffect
  <2>2. ListKept /\ FirstNoEarlier
    BY <1>3, <1>4, ListUnchanged
  <2>3. ArgTypeOK' /\ \A t \in Thread : t # self => timer'[t] = timer[t] /\ due'[t] = due[t]
    BY <1>1, <2>1, ArgsDeadEffect
  <2>. QED
    BY <1>1, <1>2, <1>3, <2>1, <2>2, <2>3, QuietMove
<1>5. CASE /\ ~active[x] /\ Link(x, due[self], again[self])
           /\ Goto(self, "startLocked", IF Head(timerHead') = x THEN "startWake" ELSE Return(self))
  <2>. DEFINE to == IF Head(timerHead') = x THEN "startWake" ELSE Return(self)
  <2>1. /\ self \in Thread /\ Running(self) /\ pc' = [pc EXCEPT ![self] = to]
        /\ x \in Timer /\ Near(due[self])
    BY <1>2, <1>5, GotoEffect
  <2>2. /\ to \in Place /\ to \notin Planning /\ to \notin Working /\ to \notin Carrying
        /\ Head(timerHead') = x => to = "startWake"
    BY <1>2
  <2>. HIDE DEF to, x
  <2>3. due[self] \in Instant /\ again[self] \in StartTicks \cup {0}
    BY <2>1 DEF TimerInv, TimerTypeOK, ArgTypeOK
  <2>4. ListKept /\ (FirstNoEarlier \/ Head(timerHead') = x)
    BY <1>3, <1>5, <2>1, <2>3, LinkKeepsList
  <2>5. ArgTypeOK' /\ \A t \in Thread : t # self => timer'[t] = timer[t] /\ due'[t] = due[t]
    BY <1>1, <2>1, ArgsDeadEffect
  <2>. QED
    BY <1>1, <1>3, <2>1, <2>2, <2>4, <2>5, QuietMove
<1>. QED
  BY <1>4, <1>5 DEF Start

LEMMA StopCallKeeps ==
    ASSUME KernelInv, TimerInv, NEW self \in Client, NEW from \in {"user", "handle"},
           NEW x \in Timer, StopCall(self, from, x)
    PROVE  TimerInv'
<1>1. /\ Goto(self, from, "stop") /\ timer' = [timer EXCEPT ![self] = x]
      /\ UNCHANGED listVars /\ UNCHANGED clockVars /\ UNCHANGED <<due, again>> /\ UNCHANGED kernelVars
  BY DEF StopCall
<1>2. /\ self \in Thread /\ Running(self) /\ pc[self] = from /\ pc' = [pc EXCEPT ![self] = "stop"]
  BY <1>1, GotoEffect
<1>3. Quiet /\ ClockStands
  BY <1>1, StillIsQuiet
<1>4. ListKept /\ FirstNoEarlier
  BY <1>1, <1>3, ListUnchanged
<1>5. /\ ArgTypeOK' /\ timer'[self] = x
      /\ \A t \in Thread : t # self => timer'[t] = timer[t] /\ due'[t] = due[t]
  BY <1>1, <1>2 DEF TimerInv, TimerTypeOK, ArgTypeOK
<1>6. "stop" \in Place /\ "stop" \notin Planning /\ "stop" \notin Carrying
  BY DEF Place, Planning, Carrying
<1>. QED
  BY <1>1, <1>2, <1>3, <1>4, <1>5, <1>6, QuietMove

\* The wakeup itself: it reaches OS_TimerThread, or stays for its next wait.
LEMMA StartWakeKeeps ==
    ASSUME KernelInv, TimerInv, NEW self \in Client, StartWake(self)
    PROVE  TimerInv'
<1>. DEFINE to == Return(self)
<1>1. /\ Goto(self, "startWake", to) /\ SemaphorePost(SemaphoreTimer)
      /\ UNCHANGED listVars /\ UNCHANGED clockVars /\ UNCHANGED argVars
  BY DEF StartWake
<1>2. to \in Place /\ to \notin Planning /\ to \notin Working /\ to \notin Carrying
  BY DEF Place, Planning, Working, Carrying, Return
<1>. HIDE DEF to
<1>3. /\ self \in Thread /\ Running(self) /\ pc[self] = "startWake" /\ pc' = [pc EXCEPT ![self] = to]
  BY <1>1, GotoEffect
<1>4. ArgTypeOK' /\ UNCHANGED <<timer, due, again>>
  BY <1>1, ArgsUnchanged
<1>5. UNCHANGED <<threadTime, isr>>
  BY <1>1 DEF SemaphorePost, PostFree, PostWake
<1>6. ClockStands
  BY <1>5 DEF ClockStands, Slack
<1>7. ListKept
  BY <1>1, <1>6, ListUnchanged
<1>8. timeNow' = timeNow /\ timeNow \in Instant /\ ticks' = ticks /\ ticks \in Int
  BY <1>1 DEF clockVars, TimerInv, TimerTypeOK
<1>9. Moves(self, to)
  BY <1>1, <1>2, <1>3, <1>4, <1>8 DEF Moves, TimerInv, TimesNear
<1>10. /\ TimerTypeOK' /\ TimesNear' /\ ListSorted'
       /\ \A t \in Thread : pc'[t] = IF t = self THEN to ELSE pc[t]
       /\ semaphorePending[self] = NoSemaphore
  BY <1>2, <1>6, <1>7, <1>9, MoveKeepsTimes
<1>11. /\ semCount \in [Semaphore -> Int] /\ semaphorePending \in [Thread -> Semaphore \cup {NoSemaphore}]
       /\ timeoutHead \in Seq(Timeout) /\ Distinct(timeoutHead)
  BY DEF KernelInv, TypeOK
<1>12. CASE PostFree(SemaphoreTimer)
  <2>1. /\ semCount[SemaphoreTimer] >= 0 /\ semCount' = [semCount EXCEPT ![SemaphoreTimer] = @ + 1]
        /\ UNCHANGED <<semaphorePending, timeoutHead>>
    BY <1>12 DEF PostFree, waitVars
  <2>2. semCount'[SemaphoreTimer] > 0
    BY <1>11, <2>1, TimerConstants
  <2>3. \A t \in Thread : semaphorePending[t] # SemaphoreTimer
    <3>1. semHead[SemaphoreTimer] \in Seq(Thread) /\ Len(semHead[SemaphoreTimer]) = 0
      BY <1>11, <2>1, TimerConstants DEF KernelInv, TypeOK, SemAccounting
    <3>2. Range(semHead[SemaphoreTimer]) = {}
      BY <3>1 DEF Range
    <3>. QED
      BY <3>2, TimerConstants DEF KernelInv, OnePlace
  <2>4. WaitsKnown'
    BY <1>5, <2>1, <2>3 DEF TimerInv, WaitsKnown, Ahead, Slack
  <2>5. PlanKnown'
    <3>1. Heralded'
      BY <2>2 DEF Heralded
    <3>2. pc'[TimerThread] \in Planning => pc'[TimerThread] = pc[TimerThread]
      BY <1>2, <1>10, TimerConstants
    <3>3. pc'[TimerThread] = "sleep" => 2 * ticks < TimeWrap /\ (ticks = FOREVER \/ - MaxLag <= ticks)
      BY <3>2 DEF TimerInv, PlanKnown, Planning
    <3>. QED
      BY <1>8, <3>1, <3>3 DEF PlanKnown
  <2>6. SleepKnown'
    BY <2>1, <2>3, TimerConstants DEF SleepKnown
  <2>. QED
    BY <1>10, <2>4, <2>5, <2>6 DEF TimerInv
<1>13. CASE PostWake(SemaphoreTimer)
  <2>1. PICK thread \in Thread :
          /\ semaphorePending[thread] = SemaphoreTimer
          /\ timeoutHead' = TimeoutRemove(timeoutHead, thread)
          /\ semaphorePending' = [semaphorePending EXCEPT ![thread] = NoSemaphore]
    BY <1>13, PostWakesWaiter, TimerConstants DEF PostWake
  <2>2. thread = TimerThread /\ pc[TimerThread] = "awake"
    BY <2>1 DEF TimerInv, WaitsKnown
  <2>3. self # TimerThread
    BY <1>10, <2>1, <2>2, TimerConstants
  <2>4. pc'[TimerThread] = "awake"
    BY <1>10, <2>2, <2>3, TimerConstants
  <2>5. \A t \in Thread : semaphorePending'[t] # SemaphoreTimer
    <3>1. \A t \in Thread : semaphorePending'[t] = IF t = TimerThread THEN NoSemaphore ELSE semaphorePending[t]
      BY <1>11, <2>1, <2>2
    <3>. QED
      BY <3>1, TimerConstants DEF TimerInv, WaitsKnown
  <2>6. Range(timeoutHead') \subseteq Range(timeoutHead)
    BY <1>11, <2>1, TimeoutRemoveProperties
  <2>7. WaitsKnown'
    BY <1>5, <2>5, <2>6 DEF TimerInv, WaitsKnown, Ahead, Slack
  <2>8. PlanKnown' /\ SleepKnown'
    BY <2>4, <2>5, TimerConstants DEF PlanKnown, SleepKnown
  <2>. QED
    BY <1>10, <2>7, <2>8 DEF TimerInv
<1>. QED
  BY <1>1, <1>12, <1>13 DEF SemaphorePost

(***************************************************************************)
(* The steps of OS_TimerThread.                                            *)
(***************************************************************************)

\* While the clock stands and the list is left alone, its first timer ends when it did.
LEMMA FirstUnchanged ==
    ASSUME ClockStands, UNCHANGED listVars
    PROVE  timerHead' = timerHead /\ FirstEnds' = FirstEnds /\ threadTime' = threadTime
<1>1. Ends' = Ends
  BY DEF listVars, ClockStands, Ends, Ahead
<1>. QED
  BY <1>1 DEF listVars, ClockStands, FirstEnds

LEMMA NowIsNow ==
    ASSUME KernelInv
    PROVE  threadTime \in Instant /\ Ahead(threadTime) = 0
<1>1. threadTime \in Instant
  BY DEF KernelInv, TypeOK, Instant
<1>2. TickDiff(threadTime, threadTime) \in {threadTime - threadTime, threadTime - threadTime + TimeWrap,
                                             threadTime - threadTime - TimeWrap}
      /\ - TimeWrap <= 2 * TickDiff(threadTime, threadTime) /\ 2 * TickDiff(threadTime, threadTime) < TimeWrap
      /\ TickDiff(threadTime, threadTime) \in Int
  BY <1>1, TickDiffValue
<1>3. threadTime - threadTime = 0
  BY <1>1 DEF Instant
<1>. QED
  BY <1>1, <1>2, <1>3, TimerConstants DEF Ahead

LEMMA ReadClockKeeps ==
    ASSUME KernelInv, TimerInv, ReadClock("begin", "begin2") \/ ReadClock("awake", "look")
    PROVE  TimerInv'
<1>1. PICK from \in {"begin", "awake"}, to \in {"begin2", "look"} :
        /\ (from = "begin" /\ to = "begin2") \/ (from = "awake" /\ to = "look")
        /\ ReadClock(from, to)
  OBVIOUS
<1>2. /\ Goto(TimerThread, from, to) /\ timeNow' = threadTime /\ ticks' = ticks
      /\ UNCHANGED listVars /\ UNCHANGED argVars /\ UNCHANGED kernelVars
  BY <1>1 DEF ReadClock
<1>3. /\ TimerThread \in Thread /\ Running(TimerThread) /\ pc[TimerThread] = from
      /\ pc' = [pc EXCEPT ![TimerThread] = to]
  BY <1>2, GotoEffect, TimerConstants
<1>4. Quiet /\ ClockStands
  BY <1>2, StillIsQuiet
<1>5. ListKept /\ FirstNoEarlier
  BY <1>2, <1>4, ListUnchanged
<1>6. ArgTypeOK' /\ UNCHANGED <<timer, due, again>>
  BY <1>2, ArgsUnchanged
<1>7. to \in Place /\ to \notin Working /\ to \notin Carrying
  BY <1>1 DEF Place, Working, Carrying
<1>8. Moves(TimerThread, to)
  <2>1. timeNow' \in Instant /\ Ahead(timeNow') = 0 /\ MaxLag \in Nat
    BY <1>2, NowIsNow, TimerConstants
  <2>2. ticks' \in Int
    BY <1>2 DEF TimerInv, TimerTypeOK
  <2>. QED
    BY <1>3, <1>6, <1>7, <2>1, <2>2 DEF Moves
<1>9. CASE to = "look"
  <2>1. to \notin Planning /\ pc[TimerThread] # "startWake"
    BY <1>1, <1>3, <1>9 DEF Planning
  <2>. QED
    BY <1>4, <1>5, <1>7, <1>8, <2>1, QuietStep, TimerConstants
<1>10. CASE to = "begin2"
  <2>1. pc[TimerThread] = "begin" /\ pc'[TimerThread] = "begin2"
    BY <1>1, <1>3, <1>10 DEF TimerInv, TimerTypeOK
  <2>2. timerHead = <<>> \/ Heralded
    BY <2>1 DEF TimerInv, PlanKnown
  <2>3. Heralded => Heralded'
    <3>1. Waking => Waking'
      <4>1. \A t \in Thread : pc[t] = "startWake" => pc'[t] = "startWake"
        BY <1>3, <2>1 DEF TimerInv, TimerTypeOK
      <4>. QED
        BY <4>1 DEF Waking
    <3>. QED
      BY <1>4, <3>1 DEF Heralded, Quiet
  <2>4. timerHead' = timerHead
    BY <1>2 DEF listVars
  <2>5. PlanKnown'
    BY <2>1, <2>2, <2>3, <2>4 DEF PlanKnown, FirstAfter
  <2>. QED
    BY <1>4, <1>5, <1>7, <1>8, <2>1, <2>5, QuietStep, TimerConstants
<1>. QED
  BY <1>1, <1>9, <1>10

\* How long it may sleep: until the first timer ends, as the clock was read.
LEMMA PlanKeeps ==
    ASSUME KernelInv, TimerInv, Plan
    PROVE  TimerInv'
<1>1. /\ Goto(TimerThread, "plan", "sleep") /\ SemaphorePost(SemaphoreLock)
      /\ ticks' = IF timerHead # <<>> THEN TickDiff(ticksTimeout[Head(timerHead)], timeNow) ELSE FOREVER
      /\ UNCHANGED listVars /\ timeNow' = timeNow /\ UNCHANGED argVars
  BY DEF Plan
<1>2. /\ TimerThread \in Thread /\ Running(TimerThread) /\ pc[TimerThread] = "plan"
      /\ pc' = [pc EXCEPT ![TimerThread] = "sleep"]
  BY <1>1, GotoEffect, TimerConstants
<1>3. Quiet /\ ClockStands
  BY <1>1, UnlockIsQuiet DEF TimerInv
<1>4. ListKept /\ FirstNoEarlier
  BY <1>1, <1>3, ListUnchanged
<1>5. ArgTypeOK' /\ UNCHANGED <<timer, due, again>>
  BY <1>1, ArgsUnchanged
<1>6. /\ timeNow \in Instant /\ Ahead(timeNow) \in Int /\ threadTime \in Instant
      /\ - MaxLag <= Ahead(timeNow) /\ Ahead(timeNow) <= 0
  <2>1. timeNow \in Instant /\ - MaxLag <= Ahead(timeNow) /\ Ahead(timeNow) <= 0
    BY <1>2 DEF TimerInv, TimerTypeOK, TimesNear
  <2>. QED
    BY <2>1, AheadIsInt
<1>7. ASSUME timerHead # <<>>
      PROVE  /\ ticks' = FirstEnds - Ahead(timeNow) /\ FirstEnds \in Int
             /\ - MaxLag <= ticks' /\ 2 * ticks' < TimeWrap
  <2>1. /\ ticksTimeout[Head(timerHead)] \in Instant
        /\ FirstEnds = Ahead(ticksTimeout[Head(timerHead)])
        /\ FirstEnds \in Int /\ - MaxLag <= FirstEnds /\ 2 * (FirstEnds + MaxLag + Slack) < TimeWrap
    BY <1>7, FirstFacts
  <2>2. Slack \in {0, 1} /\ MaxLag \in Nat /\ TimeWrap \in Nat /\ 2 * (MaxLag + 1) < TimeWrap
    BY TimerConstants DEF Slack
  <2>3. /\ - TimeWrap <= 2 * (FirstEnds - Ahead(timeNow)) /\ 2 * (FirstEnds - Ahead(timeNow)) < TimeWrap
        /\ - MaxLag <= FirstEnds - Ahead(timeNow)
    BY <1>6, <2>1, <2>2
  <2>4. TickDiff(ticksTimeout[Head(timerHead)], timeNow) = FirstEnds - Ahead(timeNow)
    BY <1>6, <2>1, <2>3, TickDiffApart DEF Ahead
  <2>. QED
    BY <1>1, <1>7, <2>1, <2>3, <2>4
<1>8. /\ ticks' \in Int /\ 2 * ticks' < TimeWrap /\ (ticks' = FOREVER \/ - MaxLag <= ticks')
  <2>1. CASE timerHead = <<>>
    BY <1>1, <2>1, TimerConstants DEF FOREVER
  <2>2. CASE timerHead # <<>>
    BY <1>6, <1>7, <2>2
  <2>. QED
    BY <2>1, <2>2
<1>9. /\ pc'[TimerThread] = "sleep"
      /\ \A t \in Thread : pc[t] = "startWake" => pc'[t] = "startWake"
  BY <1>2 DEF TimerInv, TimerTypeOK
<1>10. PlanKnown'
  <2>1. Heralded => Heralded'
    BY <1>3, <1>9 DEF Heralded, Quiet, Waking
  <2>2. /\ timerHead' = timerHead /\ FirstEnds' = FirstEnds /\ threadTime' = threadTime
    BY <1>1, <1>3, FirstUnchanged
  <2>3. Heralded \/ timerHead = <<>> \/ Ahead(timeNow) + 1 <= FirstEnds
    BY <1>2 DEF TimerInv, PlanKnown, FirstAfter
  <2>4. timerHead = <<>> => ticks' = FOREVER
    BY <1>1
  <2>5. timerHead # <<>> /\ Ahead(timeNow) + 1 <= FirstEnds =>
           ticks' > 0 /\ Ahead(timeNow) + ticks' <= FirstEnds
    BY <1>6, <1>7
  <2>6. \/ Heralded'
        \/ ticks' = FOREVER /\ timerHead' = <<>>
        \/ ticks' > 0 /\ (timerHead' = <<>> \/ Ahead(timeNow) + ticks' <= FirstEnds')
    BY <2>1, <2>2, <2>3, <2>4, <2>5
  <2>. QED
    BY <1>1, <1>8, <1>9, <2>2, <2>6 DEF PlanKnown, FirstAfter, Ahead
<1>11. Moves(TimerThread, "sleep")
  <2>1. "sleep" \notin Working /\ "sleep" \notin Carrying
    BY DEF Working, Carrying
  <2>. QED
    BY <1>1, <1>2, <1>5, <1>6, <1>8, <2>1 DEF Moves
<1>12. "sleep" \in Place
  BY DEF Place
<1>. QED
  BY <1>2, <1>3, <1>4, <1>10, <1>11, <1>12, QuietStep, TimerConstants

\* It goes to sleep: what it sleeps for ends before the first timer, or somebody is about
\* to wake it.
LEMMA SleepKeeps ==
    ASSUME KernelInv, TimerInv, Sleep
    PROVE  TimerInv'
<1>1. /\ Goto(TimerThread, "sleep", "awake") /\ SemaphorePend(TimerThread, SemaphoreTimer, ticks)
      /\ ticks' = 0 /\ timeNow' = 0
      /\ UNCHANGED listVars /\ UNCHANGED argVars
  BY DEF Sleep
<1>2. /\ TimerThread \in Thread /\ Running(TimerThread) /\ isr = "none" /\ pc[TimerThread] = "sleep"
      /\ pc' = [pc EXCEPT ![TimerThread] = "awake"]
  BY <1>1, GotoEffect, TimerConstants
<1>3. UNCHANGED <<threadTime, isr>>
  BY <1>1 DEF SemaphorePend, PendAcquire, PendNoWait, PendWait, kernelVars
<1>4. ClockStands /\ Slack = 0 /\ Slack' = 0
  BY <1>2, <1>3 DEF ClockStands, Slack
<1>5. ListKept
  BY <1>1, <1>4, ListUnchanged
<1>6. ArgTypeOK' /\ UNCHANGED <<timer, due, again>>
  BY <1>1, ArgsUnchanged
<1>7. Moves(TimerThread, "awake")
  <2>1. "awake" \notin Working /\ "awake" \notin Carrying
    BY DEF Working, Carrying
  <2>2. 0 \in Instant
    BY TimerConstants DEF Instant
  <2>. QED
    BY <1>1, <1>2, <1>6, <2>1, <2>2 DEF Moves
<1>8. "awake" \in Place
  BY DEF Place
<1>9. /\ TimerTypeOK' /\ TimesNear' /\ ListSorted'
      /\ \A t \in Thread : pc'[t] = IF t = TimerThread THEN "awake" ELSE pc[t]
      /\ semaphorePending[TimerThread] = NoSemaphore
  BY <1>4, <1>5, <1>7, <1>8, MoveKeepsTimes, TimerConstants
<1>10. PlanKnown'
  BY <1>9, TimerConstants DEF PlanKnown
<1>11. \A t \in Thread : semaphorePending[t] # SemaphoreTimer
  BY <1>9, TimerConstants DEF TimerInv, WaitsKnown
<1>12. CASE UNCHANGED waitVars
  <2>1. semaphorePending' = semaphorePending /\ timeoutHead' = timeoutHead
    BY <1>12 DEF waitVars
  <2>2. WaitsKnown'
    BY <1>3, <1>4, <1>11, <2>1 DEF TimerInv, WaitsKnown, Ahead
  <2>3. SleepKnown'
    BY <1>2, <1>11, <2>1 DEF SleepKnown
  <2>. QED
    BY <1>9, <1>10, <2>2, <2>3 DEF TimerInv
<1>13. CASE PendWait(TimerThread, SemaphoreTimer, ticks)
  <2>1. /\ semCount[SemaphoreTimer] <= 0
        /\ semaphorePending' = [semaphorePending EXCEPT ![TimerThread] = SemaphoreTimer]
        /\ timeoutHead' = IF ticks = FOREVER THEN timeoutHead
                          ELSE TimeoutInsert(timeoutHead, TimerThread, Deadline(ticks))
    BY <1>13 DEF PendWait
  <2>2. /\ timeoutHead \in Seq(Timeout) /\ threadTime \in Instant
        /\ semaphorePending \in [Thread -> Semaphore \cup {NoSemaphore}]
        /\ semCount[SemaphoreTimer] \in Int
    BY TimerConstants DEF KernelInv, TypeOK, Instant
  <2>3. Range(timeoutHead) = {}
    <3>1. \A e \in Range(timeoutHead) : e.thread = TimerThread
      BY DEF TimerInv, WaitsKnown
    <3>2. TimerThread \notin Threads(timeoutHead)
      BY <1>9 DEF KernelInv
    <3>. QED
      BY <3>1, <3>2 DEF Threads
  <2>4. /\ ticks \in Int /\ 2 * ticks < TimeWrap
        /\ ticks = FOREVER \/ - MaxLag <= ticks
        /\ \/ Heralded
           \/ ticks = FOREVER /\ timerHead = <<>>
           \/ ticks > 0 /\ FirstAfter(Ahead(timeNow) + ticks)
    BY <1>2 DEF TimerInv, TimerTypeOK, PlanKnown
  <2>5. \A t \in Thread : semaphorePending'[t] = IF t = TimerThread THEN SemaphoreTimer ELSE semaphorePending[t]
    BY <2>1, <2>2
  <2>6. ASSUME ticks # FOREVER
        PROVE  /\ Range(timeoutHead') = {[thread |-> TimerThread, ticksTimeout |-> Deadline(ticks)]}
               /\ Ahead(Deadline(ticks)) = ticks
    <3>1. - TimeWrap <= 2 * ticks /\ 2 * ticks < TimeWrap
      BY <2>4, <2>6, TimerConstants
    <3>2. Deadline(ticks) \in Instant /\ Ahead(Deadline(ticks)) = ticks
      BY <2>2, <2>4, <3>1, TickDiffDeadline DEF Deadline, Ahead
    <3>3. Deadline(ticks) \in 0 .. TimeWrap - 1
      BY <3>2 DEF Instant
    <3>. QED
      BY <1>2, <2>1, <2>2, <2>3, <2>6, <3>2, <3>3, TimeoutInsertProperties
  <2>7. WaitsKnown'
    <3>1. \A t \in Thread : semaphorePending'[t] = SemaphoreTimer => t = TimerThread /\ pc'[t] = "awake"
      BY <1>9, <1>11, <2>5, TimerConstants
    <3>2. \A e \in Range(timeoutHead') :
             e.thread = TimerThread /\ - (MaxLag + 0) <= TickDiff(e.ticksTimeout, threadTime)
      <4>1. CASE ticks = FOREVER
        BY <2>1, <2>3, <4>1
      <4>2. CASE ticks # FOREVER
        BY <2>4, <2>6, <4>2, TimerConstants DEF Ahead
      <4>. QED
        BY <4>1, <4>2
    <3>. QED
      BY <1>3, <1>4, <3>1, <3>2 DEF WaitsKnown, Ahead
  <2>8. timerHead' = timerHead /\ FirstEnds' = FirstEnds /\ threadTime' = threadTime
    BY <1>1, <1>4, FirstUnchanged
  <2>9. SleepKnown'
    <3>1. CASE Heralded
      <4>1. Waking
        BY <2>1, <2>2, <3>1 DEF Heralded
      <4>2. Waking'
        BY <1>2, <1>9, <4>1 DEF Waking
      <4>. QED
        BY <4>2 DEF SleepKnown
    <3>2. CASE timerHead = <<>>
      BY <2>8, <3>2 DEF SleepKnown
    <3>3. CASE timerHead # <<>> /\ ticks > 0 /\ FirstAfter(Ahead(timeNow) + ticks)
      <4>1. /\ - MaxLag <= Ahead(timeNow) /\ Ahead(timeNow) \in Int
            /\ FirstEnds \in Int
        <5>1. timeNow \in Instant /\ - MaxLag <= Ahead(timeNow)
          BY <1>2 DEF TimerInv, TimerTypeOK, TimesNear
        <5>. QED
          BY <3>3, <5>1, AheadIsInt, FirstFacts
      <4>2. ticks - MaxLag <= FirstEnds
        BY <2>4, <3>3, <4>1, TimerConstants DEF FirstAfter
      <4>3. ticks # FOREVER
        BY <2>4, <3>3 DEF FOREVER
      <4>4. /\ [thread |-> TimerThread, ticksTimeout |-> Deadline(ticks)] \in Range(timeoutHead')
            /\ Ahead(Deadline(ticks)) - MaxLag <= FirstEnds
        BY <2>6, <4>2, <4>3
      <4>5. TickDiff([thread |-> TimerThread, ticksTimeout |-> Deadline(ticks)].ticksTimeout, threadTime') - MaxLag
              <= FirstEnds'
        BY <2>8, <4>4 DEF Ahead
      <4>. QED
        BY <4>4, <4>5 DEF SleepKnown, FirstAfter, Ahead
    <3>. QED
      BY <2>4, <3>1, <3>2, <3>3
  <2>. QED
    BY <1>9, <1>10, <2>7, <2>9 DEF TimerInv
<1>14. UNCHANGED waitVars \/ PendWait(TimerThread, SemaphoreTimer, ticks)
  BY <1>1 DEF SemaphorePend, PendAcquire, PendNoWait, kernelVars, waitVars
<1>. QED
  BY <1>12, <1>13, <1>14

\* It takes the first timer that is due; if none is, the first ends later than the clock
\* was read.
LEMMA PickKeeps ==
    ASSUME KernelInv, TimerInv, Pick
    PROVE  TimerInv'
<1>. DEFINE isDue == timerHead # <<>> /\ TickDiff(timeNow, ticksTimeout[Head(timerHead)]) >= 0
            to == IF isDue THEN "handle" ELSE "begin2"
            x == IF isDue THEN Head(timerHead) ELSE NoTimer
<1>1. /\ Goto(TimerThread, "pick", to) /\ timer' = [timer EXCEPT ![TimerThread] = x]
      /\ SemaphorePost(SemaphoreLock)
      /\ UNCHANGED listVars /\ UNCHANGED clockVars /\ UNCHANGED <<due, again>>
  BY DEF Pick
<1>2. /\ TimerThread \in Thread /\ Running(TimerThread) /\ pc[TimerThread] = "pick"
      /\ pc' = [pc EXCEPT ![TimerThread] = to]
  BY <1>1, GotoEffect, TimerConstants
<1>3. Quiet /\ ClockStands
  BY <1>1, UnlockIsQuiet DEF TimerInv
<1>4. ListKept /\ FirstNoEarlier
  BY <1>1, <1>3, ListUnchanged
<1>5. timerHead # <<>> => Head(timerHead) \in Timer
  BY FirstFacts
<1>6. /\ to \in Place /\ to \notin Carrying
      /\ to \in Working => isDue
      /\ to \in Planning => ~isDue
  BY DEF Place, Carrying, Working, Planning
<1>7. x \in Timer \cup {NoTimer} /\ (isDue => x \in Timer)
  BY <1>5
<1>8. isDue \in BOOLEAN
  OBVIOUS
<1>9. to = "handle" => isDue
  OBVIOUS
<1>. HIDE DEF to, x
<1>10. /\ ArgTypeOK' /\ \A t \in Thread : t # TimerThread => timer'[t] = timer[t] /\ due'[t] = due[t]
       /\ timer'[TimerThread] = x
  BY <1>1, <1>2, <1>7 DEF TimerInv, TimerTypeOK, ArgTypeOK
<1>11. timeNow' = timeNow /\ timeNow \in Instant /\ ticks' = ticks /\ ticks \in Int
  BY <1>1 DEF clockVars, TimerInv, TimerTypeOK
<1>12. - MaxLag <= Ahead(timeNow) /\ Ahead(timeNow) <= 0
  BY <1>2 DEF TimerInv, TimesNear
<1>13. Moves(TimerThread, to)
  BY <1>1, <1>2, <1>6, <1>7, <1>10, <1>11, <1>12 DEF Moves
<1>14. pc'[TimerThread] = to
  BY <1>2 DEF TimerInv, TimerTypeOK
<1>15. ASSUME ~isDue
       PROVE  PlanKnown'
  <2>1. to = "begin2"
    BY <1>15 DEF to
  <2>2. timerHead' = timerHead /\ FirstEnds' = FirstEnds /\ threadTime' = threadTime
    BY <1>1, <1>3, FirstUnchanged
  <2>3. ASSUME timerHead # <<>>
        PROVE  Ahead(timeNow) + 1 <= FirstEnds
    <3>1. /\ ticksTimeout[Head(timerHead)] \in Instant
          /\ FirstEnds = Ahead(ticksTimeout[Head(timerHead)])
          /\ FirstEnds \in Int /\ - MaxLag <= FirstEnds /\ 2 * (FirstEnds + MaxLag + Slack) < TimeWrap
      BY <2>3, FirstFacts
    <3>2. Slack \in {0, 1} /\ MaxLag \in Nat /\ TimeWrap \in Nat /\ 2 * (MaxLag + 1) < TimeWrap
      BY TimerConstants DEF Slack
    <3>3. Ahead(timeNow) \in Int /\ threadTime \in Instant
      BY <1>11, AheadIsInt
    <3>4. /\ - TimeWrap <= 2 * (Ahead(timeNow) - FirstEnds) /\ 2 * (Ahead(timeNow) - FirstEnds) < TimeWrap
      BY <1>12, <3>1, <3>2, <3>3
    <3>5. TickDiff(timeNow, ticksTimeout[Head(timerHead)]) = Ahead(timeNow) - FirstEnds
      BY <1>11, <3>1, <3>3, <3>4, TickDiffApart DEF Ahead
    <3>6. ~(TickDiff(timeNow, ticksTimeout[Head(timerHead)]) >= 0)
      BY <1>15, <2>3
    <3>. QED
      BY <3>1, <3>3, <3>5, <3>6
  <2>. QED
    BY <1>11, <1>14, <2>1, <2>2, <2>3 DEF PlanKnown, FirstAfter, Ahead
<1>16. to \notin Planning \/ PlanKnown'
  BY <1>6, <1>15
<1>. QED
  BY <1>2, <1>3, <1>4, <1>6, <1>13, <1>16, QuietStep, TimerConstants

LEMMA HandleKeeps ==
    ASSUME KernelInv, TimerInv, Handle
    PROVE  TimerInv'
<1>. DEFINE x == timer[TimerThread]
<1>1. pc[TimerThread] = "handle" /\ TimerThread \in Thread /\ TimerThread \in Client
  BY TimerConstants DEF Handle
<1>2. x \in Timer
  BY <1>1 DEF TimerInv, TimerTypeOK, Working
<1>3. ticksRestart[x] \in StartTicks \cup {0}
  BY <1>2 DEF TimerInv, TimerTypeOK, ListTypeOK
<1>4. \/ StartRead(TimerThread, "handle", x, ticksRestart[x], ticksRestart[x])
      \/ StopCall(TimerThread, "handle", x)
  BY DEF Handle
<1>. QED
  BY <1>1, <1>2, <1>3, <1>4, StartReadKeeps, StopCallKeeps

LEMMA FireKeeps ==
    ASSUME KernelInv, TimerInv, Fire
    PROVE  TimerInv'
<1>1. /\ Goto(TimerThread, "fire", "look") /\ timer' = [timer EXCEPT ![TimerThread] = NoTimer]
      /\ UNCHANGED listVars /\ UNCHANGED clockVars /\ UNCHANGED <<due, again>>
      /\ UNCHANGED kernelVars
  BY DEF Fire
<1>2. /\ TimerThread \in Thread /\ Running(TimerThread) /\ pc[TimerThread] = "fire"
      /\ pc' = [pc EXCEPT ![TimerThread] = "look"]
  BY <1>1, GotoEffect, TimerConstants
<1>3. Quiet /\ ClockStands
  BY <1>1, StillIsQuiet
<1>4. ListKept /\ FirstNoEarlier
  BY <1>1, <1>3, ListUnchanged
<1>5. /\ "look" \in Place /\ "look" \notin Working /\ "look" \notin Carrying /\ "look" \notin Planning
  BY DEF Place, Working, Carrying, Planning
<1>6. ArgTypeOK' /\ \A t \in Thread : t # TimerThread => timer'[t] = timer[t] /\ due'[t] = due[t]
  BY <1>1 DEF TimerInv, TimerTypeOK, ArgTypeOK
<1>. QED
  BY <1>1, <1>2, <1>3, <1>4, <1>5, <1>6, QuietMove, TimerConstants

(***************************************************************************)
(* The steps of the kernel.                                                *)
(***************************************************************************)

\* The clock stands, and nobody begins to wait.
LEMMA StandKeeps ==
    ASSUME KernelInv, TimerInv, ClockStands, UNCHANGED timerVars,
           semCount'[SemaphoreTimer] \in Int, semCount'[SemaphoreTimer] >= semCount[SemaphoreTimer],
           \A t \in Thread : semaphorePending'[t] = SemaphoreTimer => semaphorePending[t] = SemaphoreTimer,
           Range(timeoutHead') \subseteq Range(timeoutHead),
           semaphorePending'[TimerThread] = SemaphoreTimer => timeoutHead' = timeoutHead
    PROVE  TimerInv'
<1>1. UNCHANGED listVars /\ UNCHANGED <<timeNow, ticks, timer, due, again, pc>>
  BY DEF timerVars, clockVars, argVars
<1>2. ListKept /\ timerHead' = timerHead /\ FirstEnds' = FirstEnds /\ threadTime' = threadTime
      /\ Slack' = Slack
  BY <1>1, ListUnchanged, FirstUnchanged DEF ClockStands
<1>3. TimerTypeOK'
  BY <1>1, <1>2 DEF TimerInv, TimerTypeOK, ArgTypeOK, ListKept
<1>4. TimesNear'
  BY <1>1, <1>2 DEF TimerInv, TimesNear, ListKept, Near, Ahead
<1>5. WaitsKnown'
  BY <1>1, <1>2 DEF TimerInv, WaitsKnown, Ahead
<1>6. Waking' = Waking
  BY <1>1 DEF Waking
<1>7. Heralded => Heralded'
  <2>1. semCount[SemaphoreTimer] \in Int
    BY TimerConstants DEF KernelInv, TypeOK
  <2>. QED
    BY <1>6, <2>1 DEF Heralded
<1>8. PlanKnown'
  BY <1>1, <1>2, <1>7 DEF TimerInv, PlanKnown, FirstAfter, Ahead
<1>9. SleepKnown'
  BY <1>1, <1>2, <1>6, TimerConstants DEF TimerInv, SleepKnown, FirstAfter, Ahead
<1>. QED
  BY <1>2, <1>3, <1>4, <1>5, <1>8, <1>9 DEF TimerInv, ListKept

LEMMA QuietKeeps ==
    ASSUME KernelInv, TimerInv, Quiet, UNCHANGED timerVars
    PROVE  TimerInv'
<1>1. semCount[SemaphoreTimer] \in Int
  BY TimerConstants DEF KernelInv, TypeOK
<1>. QED
  BY <1>1, StandKeeps, TimerConstants DEF Quiet

\* The wait of OS_TimerThread ends with its time.
LEMMA TickExpireKeeps ==
    ASSUME KernelInv, TimerInv, TickExpire, UNCHANGED timerVars
    PROVE  TimerInv'
<1>. DEFINE thread == Head(timeoutHead).thread
            s == semaphorePending[thread]
<1>1. /\ isr = "tick" /\ TimeoutDue
      /\ timeoutHead' = TimeoutRemove(timeoutHead, thread)
      /\ semCount' = [semCount EXCEPT ![s] = @ + 1]
      /\ semaphorePending' = [semaphorePending EXCEPT ![thread] = NoSemaphore]
      /\ UNCHANGED <<threadTime, isr>>
  BY DEF TickExpire
<1>2. /\ timeoutHead \in Seq(Timeout) /\ Distinct(timeoutHead)
      /\ semCount \in [Semaphore -> Int]
      /\ semaphorePending \in [Thread -> Semaphore \cup {NoSemaphore}]
  BY DEF KernelInv, TypeOK
<1>3. Head(timeoutHead) = timeoutHead[1] /\ 1 \in DOMAIN timeoutHead
  BY <1>1, <1>2 DEF TimeoutDue
<1>4. Head(timeoutHead) \in Range(timeoutHead)
  BY <1>3 DEF Range
<1>5. thread = TimerThread /\ thread \in Thread
  BY <1>4, TimerConstants DEF TimerInv, WaitsKnown
<1>. HIDE DEF thread, s
<1>6. \A t \in Thread : semaphorePending'[t] = IF t = thread THEN NoSemaphore ELSE semaphorePending[t]
  BY <1>1, <1>2
<1>7. Range(timeoutHead') \subseteq Range(timeoutHead)
  BY <1>1, <1>2, <1>5, TimeoutRemoveProperties
<1>8. semCount'[SemaphoreTimer] \in Int /\ semCount'[SemaphoreTimer] >= semCount[SemaphoreTimer]
  BY <1>1, <1>2, TimerConstants
<1>9. ClockStands
  BY <1>1 DEF ClockStands, Slack
<1>. QED
  BY <1>5, <1>6, <1>7, <1>8, <1>9, StandKeeps, TimerConstants

\* Whoever's time has come is awake when the tick is served.
LEMMA TickDoneKeeps ==
    ASSUME KernelInv, TimerInv, TickDone, UNCHANGED timerVars
    PROVE  TimerInv'
<1>1. /\ isr = "tick" /\ isr' = "ticked" /\ ~TimeoutDue
      /\ UNCHANGED <<semCount, semaphorePending, timeoutHead, threadTime>>
  BY DEF TickDone, waitVars
<1>2. UNCHANGED <<timerHead, active, ticksTimeout, ticksRestart, timeNow, ticks, timer, due, again, pc>>
  BY DEF timerVars, listVars, clockVars, argVars
<1>3. Slack = 1 /\ Slack' = 0 /\ MaxLag \in Nat /\ TimeWrap \in Nat /\ 2 * (MaxLag + 1) < TimeWrap
  BY <1>1, TimerConstants DEF Slack
<1>4. Ends' = Ends /\ FirstEnds' = FirstEnds
  BY <1>1, <1>2 DEF Ends, Ahead, FirstEnds
<1>5. TimerTypeOK'
  BY <1>2 DEF TimerInv, TimerTypeOK, ListTypeOK, ArgTypeOK
<1>6. ASSUME NEW time \in Instant, Near(time)
      PROVE  /\ - MaxLag <= TickDiff(time, threadTime)
             /\ 2 * (TickDiff(time, threadTime) + MaxLag + 0) < TimeWrap
  <2>1. TickDiff(time, threadTime) \in Int
    BY AheadIsInt DEF Ahead
  <2>. QED
    BY <1>3, <1>6, <2>1 DEF Near, Ahead
<1>7. TimesNear'
  <2>1. /\ \A t \in Thread : pc[t] \in Carrying => due[t] \in Instant /\ Near(due[t])
        /\ \A x \in Timer : active[x] => ticksTimeout[x] \in Instant /\ Near(ticksTimeout[x])
    BY DEF TimerInv, TimerTypeOK, ListTypeOK, ArgTypeOK, TimesNear
  <2>. QED
    BY <1>1, <1>2, <1>3, <1>6, <2>1 DEF TimerInv, TimesNear, Near, Ahead
<1>8. ListSorted'
  BY <1>2, <1>4 DEF TimerInv, ListSorted
<1>9. ASSUME NEW e \in Range(timeoutHead)
      PROVE  e.thread = TimerThread /\ - (MaxLag + 0) <= Ahead(e.ticksTimeout)
  <2>1. e.thread = TimerThread /\ - (MaxLag + 1) <= Ahead(e.ticksTimeout)
    BY <1>3 DEF TimerInv, WaitsKnown
  <2>2. timeoutHead \in Seq(Timeout) /\ Distinct(timeoutHead) /\ timeoutHead # <<>>
    BY DEF KernelInv, TypeOK, Range
  <2>3. Head(timeoutHead) = timeoutHead[1] /\ 1 \in DOMAIN timeoutHead
    BY <2>2
  <2>4. Head(timeoutHead) \in Range(timeoutHead)
    BY <2>3 DEF Range
  <2>5. Head(timeoutHead) = e
    BY <2>1, <2>2, <2>4 DEF TimerInv, WaitsKnown, Distinct
  <2>6. ~(TickDiff(threadTime, e.ticksTimeout) >= 0)
    BY <1>1, <2>2, <2>5 DEF TimeoutDue
  <2>7. e.ticksTimeout \in Instant /\ Ahead(e.ticksTimeout) \in Int /\ threadTime \in Instant
    BY EntryTime, AheadIsInt
  <2>8. - TimeWrap < 2 * Ahead(e.ticksTimeout)
    BY <1>3, <2>1, <2>7
  <2>9. TickDiff(threadTime, e.ticksTimeout) = - Ahead(e.ticksTimeout)
    BY <2>7, <2>8, TickDiffTurned DEF Ahead
  <2>. QED
    BY <1>3, <2>1, <2>6, <2>7, <2>9
<1>10. WaitsKnown'
  <2>1. \A t \in Thread : semaphorePending'[t] = SemaphoreTimer => t = TimerThread /\ pc'[t] = "awake"
    BY <1>1, <1>2 DEF TimerInv, WaitsKnown
  <2>2. \A e \in Range(timeoutHead') :
           e.thread = TimerThread /\ - (MaxLag + Slack') <= TickDiff(e.ticksTimeout, threadTime')
    BY <1>1, <1>3, <1>9 DEF Ahead
  <2>. QED
    BY <2>1, <2>2 DEF WaitsKnown, Ahead
<1>11. PlanKnown' /\ SleepKnown'
  BY <1>1, <1>2, <1>4 DEF TimerInv, PlanKnown, SleepKnown, Heralded, Waking, FirstAfter, Ahead
<1>. QED
  BY <1>5, <1>7, <1>8, <1>10, <1>11 DEF TimerInv

\* A tick brings every time that is not too far behind one tick nearer.
LEMMA TickBringsNearer ==
    ASSUME KernelInv, TickCount, NEW time \in Instant, - MaxLag <= Ahead(time)
    PROVE  /\ TickDiff(time, threadTime') = Ahead(time) - 1
           /\ Recent(time) => - MaxLag <= TickDiff(time, threadTime')
<1>1. threadTime' = (threadTime + 1) % TimeWrap /\ threadTime \in Instant
  BY DEF TickCount, KernelInv, TypeOK, Instant
<1>2. MaxLag \in Nat /\ TimeWrap \in Nat /\ TimeWrap > 1 /\ 2 * (MaxLag + 1) < TimeWrap
  BY TimerConstants
<1>3. Ahead(time) \in Int /\ - TimeWrap < 2 * (Ahead(time) - 1) /\ - TimeWrap <= 2 * (Ahead(time) - 1)
  BY <1>2, AheadIsInt
<1>4. threadTime' \in Instant /\ TickDiff(time, threadTime') = Ahead(time) - 1
  BY <1>1, <1>2, <1>3, TickDiffCounts DEF Ahead
<1>5. TickDiff(threadTime', time) = - (Ahead(time) - 1)
  BY <1>3, <1>4, TickDiffTurned
<1>. QED
  BY <1>2, <1>3, <1>4, <1>5 DEF Recent

\* A tick is counted: all that is known of the times moves by one.
LEMMA TickCountKeeps ==
    ASSUME KernelInv, TimerInv, TickCount, NobodyLags, UNCHANGED timerVars
    PROVE  TimerInv'
<1>1. /\ isr = "body" /\ isr' = "tick"
      /\ UNCHANGED <<semCount, semaphorePending, timeoutHead>>
  BY DEF TickCount, waitVars
<1>2. UNCHANGED <<timerHead, active, ticksTimeout, ticksRestart, timeNow, ticks, timer, due, again, pc>>
  BY DEF timerVars, listVars, clockVars, argVars
<1>3. Slack = 0 /\ Slack' = 1 /\ MaxLag \in Nat /\ TimeWrap \in Nat /\ 2 * (MaxLag + 1) < TimeWrap
  BY <1>1, TimerConstants DEF Slack
<1>4. TimerTypeOK'
  BY <1>2 DEF TimerInv, TimerTypeOK, ListTypeOK, ArgTypeOK
<1>5. ASSUME NEW time \in Instant, Near(time), Recent(time)
      PROVE  /\ - MaxLag <= TickDiff(time, threadTime')
             /\ 2 * (TickDiff(time, threadTime') + MaxLag + 1) < TimeWrap
             /\ TickDiff(time, threadTime') = Ahead(time) - 1
  <2>1. Ahead(time) \in Int /\ - MaxLag <= Ahead(time) /\ 2 * (Ahead(time) + MaxLag + 0) < TimeWrap
    BY <1>3, <1>5, AheadIsInt DEF Near
  <2>2. /\ TickDiff(time, threadTime') = Ahead(time) - 1
        /\ - MaxLag <= TickDiff(time, threadTime')
    BY <1>5, <2>1, TickBringsNearer
  <2>. QED
    BY <1>3, <2>1, <2>2
<1>6. \A t \in Thread : pc[t] \in Carrying => due[t] \in Instant /\ Near(due[t]) /\ Recent(due[t])
  BY DEF TimerInv, TimerTypeOK, ArgTypeOK, TimesNear, NobodyLags, Carrying, Starting
<1>7. \A x \in Timer : active[x] => /\ ticksTimeout[x] \in Instant
                                    /\ Near(ticksTimeout[x]) /\ Recent(ticksTimeout[x])
  BY DEF TimerInv, TimerTypeOK, ListTypeOK, TimesNear, NobodyLags
<1>8. ASSUME pc[TimerThread] \notin {"begin", "awake"}
      PROVE  /\ Ahead(timeNow) \in Int /\ TickDiff(timeNow, threadTime') = Ahead(timeNow) - 1
             /\ - MaxLag <= TickDiff(timeNow, threadTime') /\ TickDiff(timeNow, threadTime') <= 0
  <2>1. /\ timeNow \in Instant /\ Recent(timeNow)
        /\ - MaxLag <= Ahead(timeNow) /\ Ahead(timeNow) <= 0
    BY <1>8 DEF TimerInv, TimerTypeOK, TimesNear, NobodyLags
  <2>2. Ahead(timeNow) \in Int
    BY <2>1, AheadIsInt
  <2>. QED
    BY <2>1, <2>2, TickBringsNearer
<1>9. TimesNear'
  <2>1. \A t \in Thread : pc[t] \in Carrying =>
           /\ - MaxLag <= TickDiff(due[t], threadTime')
           /\ 2 * (TickDiff(due[t], threadTime') + MaxLag + 1) < TimeWrap
    BY <1>5, <1>6
  <2>2. \A x \in Timer : active[x] =>
           /\ - MaxLag <= TickDiff(ticksTimeout[x], threadTime')
           /\ 2 * (TickDiff(ticksTimeout[x], threadTime') + MaxLag + 1) < TimeWrap
    BY <1>5, <1>7
  <2>. QED
    BY <1>2, <1>3, <1>8, <2>1, <2>2 DEF TimesNear, Near, Ahead
<1>10. ListTypeOK /\ ListSorted /\ Ends \in [Timer -> Int]
       /\ \A x \in Timer : Ends[x] = Ahead(ticksTimeout[x])
  BY EndsIsInt DEF TimerInv, TimerTypeOK
<1>11. \A x \in Timer : active[x] => Ends'[x] = Ends[x] - 1
  <2>1. \A x \in Timer : Ends'[x] = TickDiff(ticksTimeout[x], threadTime')
    BY <1>2 DEF Ends, Ahead
  <2>. QED
    BY <1>5, <1>7, <1>10, <2>1
<1>12. ListSorted'
  <2>1. \A i \in 1 .. Len(timerHead) : timerHead[i] \in Timer /\ active[timerHead[i]]
    BY <1>10 DEF ListTypeOK, ListSorted, Range
  <2>2. \A i \in 1 .. Len(timerHead) :
           Ends[timerHead[i]] \in Int /\ Ends'[timerHead[i]] = Ends[timerHead[i]] - 1
    BY <1>10, <1>11, <2>1
  <2>3. KeySorted(timerHead, Ends')
    BY <1>10, <2>2 DEF KeySorted, ListSorted
  <2>. QED
    BY <1>2, <1>10, <2>3 DEF ListSorted
<1>13. timerHead # <<>> => FirstEnds \in Int /\ FirstEnds' = FirstEnds - 1
  <2>1. FirstEnds' = Ends'[Head(timerHead)]
    BY <1>2 DEF FirstEnds
  <2>. QED
    BY <1>11, <2>1, FirstFacts DEF FirstEnds
<1>14. ASSUME NEW e \in Range(timeoutHead)
       PROVE  /\ e.thread = TimerThread /\ Ahead(e.ticksTimeout) \in Int
              /\ TickDiff(e.ticksTimeout, threadTime') = Ahead(e.ticksTimeout) - 1
              /\ - (MaxLag + 1) <= TickDiff(e.ticksTimeout, threadTime')
  <2>1. e.thread = TimerThread /\ - (MaxLag + 0) <= Ahead(e.ticksTimeout)
    BY <1>3 DEF TimerInv, WaitsKnown
  <2>2. e.ticksTimeout \in Instant /\ Ahead(e.ticksTimeout) \in Int
    BY EntryTime, AheadIsInt
  <2>3. - MaxLag <= Ahead(e.ticksTimeout)
    BY <1>3, <2>1
  <2>4. TickDiff(e.ticksTimeout, threadTime') = Ahead(e.ticksTimeout) - 1
    BY <2>2, <2>3, TickBringsNearer
  <2>. QED
    BY <1>3, <2>1, <2>2, <2>3, <2>4
<1>15. WaitsKnown'
  <2>1. \A t \in Thread : semaphorePending'[t] = SemaphoreTimer => t = TimerThread /\ pc'[t] = "awake"
    BY <1>1, <1>2 DEF TimerInv, WaitsKnown
  <2>2. \A e \in Range(timeoutHead') :
           e.thread = TimerThread /\ - (MaxLag + Slack') <= TickDiff(e.ticksTimeout, threadTime')
    BY <1>1, <1>3, <1>14
  <2>. QED
    BY <2>1, <2>2 DEF WaitsKnown, Ahead
<1>16. Heralded' = Heralded /\ Waking' = Waking
  BY <1>1, <1>2 DEF Heralded, Waking
<1>17. PlanKnown'
  <2>1. pc[TimerThread] \in {"begin2", "plan"} /\ ~Heralded /\ timerHead # <<>> =>
           TickDiff(timeNow, threadTime') + 1 <= FirstEnds'
    BY <1>8, <1>13 DEF TimerInv, PlanKnown, FirstAfter
  <2>2. pc[TimerThread] = "sleep" /\ ~Heralded /\ timerHead # <<>> =>
           ticks > 0 /\ TickDiff(timeNow, threadTime') + ticks <= FirstEnds'
    <3>1. ticks \in Int
      BY DEF TimerInv, TimerTypeOK
    <3>. QED
      BY <1>8, <1>13, <3>1 DEF TimerInv, PlanKnown, FirstAfter
  <2>3. pc[TimerThread] = "sleep" /\ ~Heralded /\ timerHead = <<>> => ticks = FOREVER \/ ticks > 0
    BY DEF TimerInv, PlanKnown
  <2>4. /\ pc[TimerThread] = "begin" => timerHead = <<>> \/ Heralded
        /\ pc[TimerThread] = "sleep" => 2 * ticks < TimeWrap /\ (ticks = FOREVER \/ - MaxLag <= ticks)
    BY DEF TimerInv, PlanKnown
  <2>. QED
    BY <1>2, <1>16, <2>1, <2>2, <2>3, <2>4 DEF PlanKnown, FirstAfter, Ahead
<1>18. SleepKnown'
  <2>. SUFFICES ASSUME semaphorePending[TimerThread] = SemaphoreTimer, timerHead # <<>>, ~Waking
                PROVE  \E e \in Range(timeoutHead) :
                          TickDiff(e.ticksTimeout, threadTime') - MaxLag <= FirstEnds'
    BY <1>1, <1>2, <1>16 DEF SleepKnown, FirstAfter, Ahead
  <2>1. PICK e \in Range(timeoutHead) : Ahead(e.ticksTimeout) - MaxLag <= FirstEnds
    BY DEF TimerInv, SleepKnown, FirstAfter
  <2>2. TickDiff(e.ticksTimeout, threadTime') - MaxLag <= FirstEnds'
    BY <1>3, <1>13, <1>14, <2>1
  <2>. QED
    BY <2>2
<1>. QED
  BY <1>4, <1>9, <1>12, <1>15, <1>17, <1>18 DEF TimerInv

LEMMA BootKeeps ==
    ASSUME KernelInv, TimerInv, TimerBoot, UNCHANGED timerVars
    PROVE  TimerInv'
  BY BootIsQuiet, QuietKeeps

LEMMA InterruptKeeps ==
    ASSUME KernelInv, TimerInv, TimerInterrupt, UNCHANGED timerVars
    PROVE  TimerInv'
<1>1. CASE InterruptEntry
  <2>1. Quiet
    BY <1>1 DEF InterruptEntry, waitVars, Quiet, ClockStands, Slack
  <2>. QED
    BY <2>1, QuietKeeps
<1>2. CASE InterruptExit
  <2>1. Quiet
    BY <1>2 DEF InterruptExit, waitVars, Quiet, ClockStands, Slack
  <2>. QED
    BY <2>1, QuietKeeps
<1>. QED
  BY <1>1, <1>2, TickCountKeeps, TickExpireKeeps, TickDoneKeeps DEF TimerInterrupt, Interrupt

(***************************************************************************)
(* The theorems.                                                           *)
(***************************************************************************)

LEMMA CallKeeps ==
    ASSUME KernelInv, TimerInv, NEW self \in Client, TimerCall(self)
    PROVE  TimerInv'
<1>1. CASE Lock(self, "startStop", "startStopLocked")
  <2>1. /\ {"startStop", "startStopLocked"} \subseteq Place /\ "startStopLocked" \notin Planning
        /\ "startStop" \in Working /\ "startStop" \in Carrying
    BY DEF Place, Planning, Working, Carrying
  <2>. QED
    BY <1>1, <2>1, LockKeeps
<1>2. CASE Lock(self, "start", "startLocked")
  <2>1. /\ {"start", "startLocked"} \subseteq Place /\ "startLocked" \notin Planning
        /\ "start" \in Working /\ "start" \in Carrying
    BY DEF Place, Planning, Working, Carrying
  <2>. QED
    BY <1>2, <2>1, LockKeeps
<1>3. CASE Lock(self, "stop", "stopLocked")
  <2>1. /\ {"stop", "stopLocked"} \subseteq Place /\ "stopLocked" \notin Planning
        /\ "stop" \in Working /\ "stopLocked" \notin Carrying
    BY DEF Place, Planning, Working, Carrying
  <2>. QED
    BY <1>3, <2>1, LockKeeps
<1>. QED
  BY <1>1, <1>2, <1>3, StartActiveKeeps, StartStopKeeps, StartKeeps, StartWakeKeeps, StopKeeps
     DEF TimerCall

LEMMA TimerThreadKeeps ==
    ASSUME KernelInv, TimerInv, TimerThreadStep
    PROVE  TimerInv'
<1>1. TimerThread \in Client
  BY TimerConstants
<1>2. CASE Lock(TimerThread, "begin2", "plan")
  <2>1. {"begin2", "plan"} \subseteq Place /\ "plan" \notin Working /\ "plan" \notin Carrying
    BY DEF Place, Working, Carrying
  <2>. QED
    BY <1>1, <1>2, <2>1, LockKeeps
<1>3. CASE Lock(TimerThread, "look", "pick")
  <2>1. /\ {"look", "pick"} \subseteq Place /\ "pick" \notin Planning
        /\ "pick" \notin Working /\ "pick" \notin Carrying
    BY DEF Place, Planning, Working, Carrying
  <2>. QED
    BY <1>1, <1>3, <2>1, LockKeeps
<1>. QED
  BY <1>1, <1>2, <1>3, ReadClockKeeps, PlanKeeps, SleepKeeps, PickKeeps, HandleKeeps, FireKeeps,
     CallKeeps DEF TimerThreadStep

LEMMA ClientKeeps ==
    ASSUME KernelInv, TimerInv, NEW self \in TimerClient, ClientStep(self)
    PROVE  TimerInv'
<1>1. self \in Client
  BY DEF TimerClient
<1>2. ASSUME NEW x \in Timer, NEW startTicks \in StartTicks, NEW restart \in StartTicks \cup {0},
             StartRead(self, "user", x, startTicks, restart)
      PROVE  TimerInv'
  BY <1>1, <1>2, StartReadKeeps
<1>. QED
  BY <1>1, <1>2, StopCallKeeps, CallKeeps DEF ClientStep

\* Every step, of OS_TimerThread, of the callers and of the kernel, keeps the invariant.
LEMMA TimerStep ==
    ASSUME KernelInv, TimerInv, [TimerNext]_vars
    PROVE  TimerInv'
<1>1. CASE UNCHANGED vars
  <2>1. UNCHANGED kernelVars /\ UNCHANGED timerVars
    BY <1>1 DEF vars
  <2>. QED
    BY <2>1, StillIsQuiet, QuietKeeps
<1>2. CASE TimerNext
  BY <1>2, BootKeeps, InterruptKeeps, TimerThreadKeeps, ClientKeeps DEF TimerNext
<1>. QED
  BY <1>1, <1>2

\* What the callers and OS_TimerThread do to the kernel: at most one call of it.
LEMMA CallKernel ==
    ASSUME NEW self, TimerCall(self)
    PROVE  \/ UNCHANGED kernelVars
           \/ Running(self) /\ SemaphorePend(self, SemaphoreLock, FOREVER)
           \/ SemaphorePost(SemaphoreLock)
           \/ SemaphorePost(SemaphoreTimer)
  BY DEF TimerCall, StartActive, Lock, Goto, StartStop, Start, StartWake, Stop

LEMMA TimerThreadKernel ==
    ASSUME TimerThreadStep
    PROVE  \/ UNCHANGED kernelVars
           \/ Running(TimerThread) /\ SemaphorePend(TimerThread, SemaphoreLock, FOREVER)
           \/ Running(TimerThread) /\ SemaphorePend(TimerThread, SemaphoreTimer, ticks)
           \/ SemaphorePost(SemaphoreLock)
           \/ SemaphorePost(SemaphoreTimer)
<1>1. CASE TimerCall(TimerThread)
  BY <1>1, CallKernel
<1>. QED
  BY <1>1 DEF TimerThreadStep, ReadClock, Lock, Goto, Plan, Sleep, Pick, Handle, StartRead, StopCall,
     Fire

LEMMA TimerKernelStep ==
    ASSUME KernelInv, TimerInv, [TimerNext]_vars
    PROVE  KernelInv'
<1>1. UNCHANGED kernelVars => KernelInv'
  BY KernelStep
<1>2. SemaphorePost(SemaphoreLock) \/ SemaphorePost(SemaphoreTimer) => KernelInv'
  BY SemaphorePostPreserves, TimerConstants
<1>3. ASSUME NEW self \in Client, Running(self), SemaphorePend(self, SemaphoreLock, FOREVER)
      PROVE  KernelInv'
  <2>1. FOREVER \in Int
    BY DEF FOREVER
  <2>. QED
    BY <1>3, <2>1, SemaphorePendPreserves, TimerConstants
<1>4. ASSUME Running(TimerThread), SemaphorePend(TimerThread, SemaphoreTimer, ticks)
      PROVE  KernelInv'
  <2>1. ticks \in Int
    BY DEF TimerInv, TimerTypeOK
  <2>. QED
    BY <1>4, <2>1, SemaphorePendPreserves, TimerConstants
<1>5. CASE TimerThreadStep
  BY <1>1, <1>2, <1>3, <1>4, <1>5, TimerThreadKernel, TimerConstants
<1>6. ASSUME NEW self \in TimerClient, ClientStep(self)
      PROVE  KernelInv'
  <2>1. self \in Client
    BY DEF TimerClient
  <2>2. \/ UNCHANGED kernelVars
        \/ Running(self) /\ SemaphorePend(self, SemaphoreLock, FOREVER)
        \/ SemaphorePost(SemaphoreLock)
        \/ SemaphorePost(SemaphoreTimer)
    BY <1>6, CallKernel DEF ClientStep, StartRead, StopCall
  <2>. QED
    BY <1>1, <1>2, <1>3, <2>1, <2>2
<1>7. CASE TimerBoot
  <2>1. Boot
    BY <1>7, TimerAssumption, TimerConstants DEF TimerBoot, Boot, TimerClient
  <2>. QED
    BY <2>1, KernelStep DEF KernelNext
<1>8. CASE TimerInterrupt
  <2>1. Interrupt(Semaphore)
    BY <1>8 DEF TimerInterrupt, Interrupt
  <2>. QED
    BY <2>1, KernelStep DEF KernelNext
<1>9. UNCHANGED vars => UNCHANGED kernelVars
  BY DEF vars
<1>. QED
  BY <1>1, <1>5, <1>6, <1>7, <1>8, <1>9 DEF TimerNext

\* The invariant holds in every state: whoever makes the first timer end sooner, from
\* before OS_TimerThread plans its sleep until it wakes, is about to post SemaphoreTimer or
\* has done so.
THEOREM TimerInvariant == TimerSpec => [](KernelInv /\ TimerInv)
<1>1. TimerInit => KernelInv /\ TimerInv
  BY InitEstablishes, TimerInitEstablishes DEF TimerInit
<1>2. KernelInv /\ TimerInv /\ [TimerNext]_vars => KernelInv' /\ TimerInv'
  BY TimerStep, TimerKernelStep
<1>. QED
  BY <1>1, <1>2, PTL DEF TimerSpec

\* The list holds the active timers, each once, in the order they end, although a timer is
\* started or stopped by what its caller found before it took the lock.
THEOREM TimerListStaysSound == TimerSpec => []TimerListSound
<1>1. ASSUME KernelInv, TimerInv
      PROVE  TimerListSound
  <2>1. /\ ListTypeOK /\ ListSorted
        /\ \A x \in Timer : Ends[x] = Ahead(ticksTimeout[x])
    BY <1>1, EndsIsInt DEF TimerInv, TimerTypeOK
  <2>2. ASSUME NEW a \in DOMAIN timerHead, NEW b \in DOMAIN timerHead, a < b
        PROVE  TickDiff(ticksTimeout[timerHead[a]], ticksTimeout[timerHead[b]]) <= 0
    <3>. DEFINE ta == ticksTimeout[timerHead[a]]
                tb == ticksTimeout[timerHead[b]]
    <3>1. /\ a \in 1 .. Len(timerHead) /\ b \in 1 .. Len(timerHead)
          /\ timerHead[a] \in Timer /\ timerHead[b] \in Timer
          /\ active[timerHead[a]] /\ active[timerHead[b]]
      BY <2>1 DEF ListTypeOK, ListSorted, Range
    <3>2. ta \in Instant /\ tb \in Instant /\ Near(ta) /\ Near(tb)
      BY <1>1, <2>1, <3>1 DEF TimerInv, TimesNear, ListTypeOK
    <3>3. Ahead(ta) <= Ahead(tb)
      BY <2>1, <2>2, <3>1 DEF ListSorted, KeySorted
    <3>. HIDE DEF ta, tb
    <3>4. /\ Ahead(ta) \in Int /\ Ahead(tb) \in Int
          /\ TickDiff(ta, tb) = Ahead(ta) - Ahead(tb)
      BY <1>1, <3>2, NearApart
    <3>5. TickDiff(ta, tb) <= 0
      BY <3>3, <3>4
    <3>. QED
      BY <3>5 DEF ta, tb
  <2>. QED
    BY <2>1, <2>2 DEF ListSorted, TimerListSound
<1>. QED
  BY <1>1, TimerInvariant, PTL

\* OS_TimerThread never sleeps beyond the first timer by more than it was late to go to
\* sleep.
THEOREM NeverOversleeps == TimerSpec => []WakesInTime
<1>1. ASSUME KernelInv, TimerInv
      PROVE  WakesInTime
  <2>. SUFFICES ASSUME semaphorePending[TimerThread] = SemaphoreTimer, timerHead # <<>>,
                       \A t \in Thread : pc[t] # "startWake"
                PROVE  \E e \in Range(timeoutHead) :
                          /\ e.thread = TimerThread
                          /\ TickDiff(e.ticksTimeout, ticksTimeout[Head(timerHead)]) <= MaxLag
    BY DEF WakesInTime
  <2>1. PICK e \in Range(timeoutHead) : Ahead(e.ticksTimeout) - MaxLag <= FirstEnds
    BY <1>1 DEF TimerInv, SleepKnown, Waking, FirstAfter
  <2>2. e.thread = TimerThread /\ - (MaxLag + Slack) <= Ahead(e.ticksTimeout)
    BY <1>1 DEF TimerInv, WaitsKnown
  <2>3. e.ticksTimeout \in Instant /\ Ahead(e.ticksTimeout) \in Int /\ threadTime \in Instant
    BY <1>1, EntryTime, AheadIsInt
  <2>4. /\ ticksTimeout[Head(timerHead)] \in Instant
        /\ FirstEnds = Ahead(ticksTimeout[Head(timerHead)])
        /\ FirstEnds \in Int /\ - MaxLag <= FirstEnds /\ 2 * (FirstEnds + MaxLag + Slack) < TimeWrap
    BY <1>1, FirstFacts
  <2>5. MaxLag \in Nat /\ TimeWrap \in Nat /\ 2 * (MaxLag + 1) < TimeWrap /\ Slack \in {0, 1}
    BY TimerConstants DEF Slack
  <2>6. /\ - TimeWrap <= 2 * (Ahead(e.ticksTimeout) - FirstEnds)
        /\ 2 * (Ahead(e.ticksTimeout) - FirstEnds) < TimeWrap
    BY <2>1, <2>2, <2>3, <2>4, <2>5
  <2>7. TickDiff(e.ticksTimeout, ticksTimeout[Head(timerHead)]) = Ahead(e.ticksTimeout) - FirstEnds
    BY <2>3, <2>4, <2>6, TickDiffApart DEF Ahead
  <2>8. TickDiff(e.ticksTimeout, ticksTimeout[Head(timerHead)]) <= MaxLag
    BY <2>1, <2>3, <2>4, <2>5, <2>7
  <2>. QED
    BY <2>2, <2>8
<1>. QED
  BY <1>1, TimerInvariant, PTL

=============================================================================

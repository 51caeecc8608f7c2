---------------------------- MODULE MCRtosTimer ----------------------------
(***************************************************************************)
(* The timers for TLC: a client, and one or two timers that are alike.     *)
(* Nothing depends on the time itself, only on differences between times:  *)
(* two states that differ by a shift of all times, or in times that are    *)
(* not read again, are one.                                                *)
(***************************************************************************)
EXTENDS RtosTimer

MCInitialCount == [s \in Semaphore |-> IF s = SemaphoreLock THEN 1 ELSE 0]

Symmetry == Permutations(Timer)

Ago(time) == (threadTime - time) % TimeWrap

View ==
    <<threadSwapEnabled, schedVars, priority, semCount, semHead, semaphorePending, isr,
      [n \in DOMAIN timeoutHead |->
         [timeoutHead[n] EXCEPT !.ticksTimeout = Ago(timeoutHead[n].ticksTimeout)]],
      timerHead, active, ticksRestart, ticks, pc, timer, again,
      [x \in Timer |-> IF active[x] THEN Ago(ticksTimeout[x]) ELSE 0],
      IF pc[TimerThread] \in {"begin", "awake"} THEN 0 ELSE Ago(timeNow),
      [t \in Thread |-> IF pc[t] \in Starting \ {"startWake"} THEN Ago(due[t]) ELSE 0]>>
=============================================================================

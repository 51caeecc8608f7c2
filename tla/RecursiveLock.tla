--------------------------- MODULE RecursiveLock ---------------------------
(***************************************************************************)
(* What a mutex promises: one thread holds it at a time, as often as it    *)
(* has taken it, and only the holder gives it back.                        *)
(***************************************************************************)
EXTENDS Integers

CONSTANTS Thread

VARIABLE level  \* how many times each thread has taken the lock

Init == level = [t \in Thread |-> 0]

Free == \A t \in Thread : level[t] = 0

Take(t) ==
    /\ Free \/ level[t] > 0
    /\ level' = [level EXCEPT ![t] = @ + 1]

Give(t) ==
    /\ level[t] > 0
    /\ level' = [level EXCEPT ![t] = @ - 1]

Next == \E t \in Thread : Take(t) \/ Give(t)

Spec == Init /\ [][Next]_level
=============================================================================

------------------------- MODULE CountingSemaphores -------------------------
(***************************************************************************)
(* What the semaphores of the RTOS promise, whatever the scheduler does:   *)
(* a post is either kept as a token or given to one thread that waits, a   *)
(* wait ends once, with 0 when a post was given to it and with -1 when it  *)
(* was timed and ran out, and nobody waits while a token is left.          *)
(***************************************************************************)
EXTENDS Integers

CONSTANTS Thread, Semaphore, InitialCount

VARIABLES
    tokens,    \* posts that nobody has taken
    waiting,   \* the threads waiting on each semaphore
    timed,     \* the waiting threads that do not wait forever
    outcome    \* how each thread's last wait ended

vars == <<tokens, waiting, timed, outcome>>

Waits(t) == \E s \in Semaphore : t \in waiting[s]

Init ==
    /\ tokens = InitialCount
    /\ waiting = [s \in Semaphore |-> {}]
    /\ timed = {}
    /\ outcome = [t \in Thread |-> 0]

Take(s) ==
    /\ tokens[s] > 0
    /\ tokens' = [tokens EXCEPT ![s] = @ - 1]
    /\ UNCHANGED <<waiting, timed, outcome>>

Wait(t, s, isTimed) ==
    /\ tokens[s] = 0
    /\ ~Waits(t)
    /\ waiting' = [waiting EXCEPT ![s] = @ \cup {t}]
    /\ timed' = IF isTimed THEN timed \cup {t} ELSE timed
    /\ UNCHANGED <<tokens, outcome>>

Keep(s) ==
    /\ waiting[s] = {}
    /\ tokens' = [tokens EXCEPT ![s] = @ + 1]
    /\ UNCHANGED <<waiting, timed, outcome>>

EndWait(t, s, result) ==
    /\ t \in waiting[s]
    /\ waiting' = [waiting EXCEPT ![s] = @ \ {t}]
    /\ timed' = timed \ {t}
    /\ outcome' = [outcome EXCEPT ![t] = result]
    /\ UNCHANGED tokens

Give(t, s) == EndWait(t, s, 0)

RunOut(t, s) == t \in timed /\ EndWait(t, s, -1)

\* A thread starts with a clean outcome.
Start(t) ==
    /\ ~Waits(t)
    /\ outcome' = [outcome EXCEPT ![t] = 0]
    /\ UNCHANGED <<tokens, waiting, timed>>

Next ==
    \/ \E s \in Semaphore : Take(s) \/ Keep(s)
    \/ \E t \in Thread, s \in Semaphore :
          \/ \E isTimed \in BOOLEAN : Wait(t, s, isTimed)
          \/ Give(t, s)
          \/ RunOut(t, s)
    \/ \E t \in Thread : Start(t)

Spec == Init /\ [][Next]_vars
=============================================================================

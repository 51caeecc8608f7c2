---------------------------- MODULE MCMutexQueue ----------------------------
(***************************************************************************)
(* The mutex and the message queue for TLC: the threads of one kernel use  *)
(* the one or the other.                                                   *)
(***************************************************************************)
EXTENDS RtosMutex, RtosMQueue, FiniteSets

VARIABLE part

MCInitialCount == [s \in Semaphore |-> IF s = MutexSemaphore THEN 1 ELSE 0]

Symmetry == Permutations(Client) \cup Permutations(Message)

MutexQueueInit == part \in {"mutex", "queue"} /\ MutexInit /\ MQueueInit

\* Two threads and the interrupts use the queue, three threads the mutex
MutexQueueNext ==
    \/ part = "mutex" /\ MutexNext /\ UNCHANGED <<part, mqueueVars>>
    \/ /\ part = "queue" /\ MQueueNext /\ UNCHANGED <<part, mutexVars>>
       /\ Cardinality({t \in Client : state'[t] # "NONE"}) <= 2

MutexQueueSpec == MutexQueueInit /\ [][MutexQueueNext]_<<part, vars, mqueueVars>>
=============================================================================

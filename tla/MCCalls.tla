------------------------------ MODULE MCCalls ------------------------------
(***************************************************************************)
(* What must happen in the end, for TLC: threads that create threads and   *)
(* exit, or threads that use a message queue, over one kernel.             *)
(***************************************************************************)
EXTENDS RtosThreads

CONSTANTS QueueSemaphore, Message, NoMessage

VARIABLES part, used, read, write, ring, queuePc, received, refused

\* The threads that use the queue have one priority
Queue == INSTANCE RtosMQueue WITH Priority <- {0}, Capacity <- 2

ASSUME QueueAssumption == QueueSemaphore \in Semaphore \ {SemaphoreRelease}

MCInitialCount == [s \in Semaphore |-> IF s = SemaphoreRelease THEN 1 ELSE 0]

lifeVars == <<needToFree, stage, exiting>>
queueVars == <<used, read, write, ring, queuePc, received, refused>>
callVars == <<part, kernelVars, lifeVars, queueVars>>

CallsInit == part \in {"threads", "queue"} /\ ThreadsInit /\ Queue!MQueueInit

CallsNext ==
    \/ part = "threads" /\ ThreadsNext /\ UNCHANGED <<part, queueVars>>
    \/ part = "queue" /\ Queue!MQueueNext /\ UNCHANGED <<part, lifeVars>>

\* A thread that has the CPU goes on with its call
CallGoesOn(self) ==
    \/ Continue(self) /\ UNCHANGED <<part, queueVars>>
    \/ Queue!GoOn(self) /\ UNCHANGED <<part, lifeVars>>

CallsSpec ==
    /\ CallsInit /\ [][CallsNext]_callVars
    /\ InterruptFairness /\ \A self \in Client : SF_callVars(CallGoesOn(self))
-----------------------------------------------------------------------------
\* RtosMQueue: no receiver goes on sleeping while a message is there for it
StallEnds == Queue!StallEnds
=============================================================================

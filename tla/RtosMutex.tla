----------------------------- MODULE RtosMutex -----------------------------
(***************************************************************************)
(* The recursive mutex of the RTOS (kernel/rtos.c), over the kernel.  Its  *)
(* fields are read and written outside critical sections: an interrupt     *)
(* may come, and switch threads, before every step.                        *)
(***************************************************************************)
EXTENDS RtosKernel

CONSTANTS
    MutexSemaphore,   \* mutex->semaphore, created with count 1
    SemaphoreSleep,   \* the semaphore OS_ThreadSleep waits on
    MaxDepth          \* bound: how deep clients nest OS_MutexPend

ASSUME MutexAssumption ==
    /\ MutexSemaphore \in Semaphore
    /\ InitialCount[MutexSemaphore] = 1
    /\ SemaphoreSleep \in Semaphore \ {MutexSemaphore}
    /\ InitialCount[SemaphoreSleep] = 0
    /\ MaxDepth \in Nat \ {0}

VARIABLES
    mutexThread,  \* mutex->thread
    mutexCount,   \* mutex->count
    pc,           \* where each thread is in OS_MutexPend and OS_MutexPost
    level         \* how many OS_MutexPend calls each thread has still to match

mutexVars == <<mutexThread, mutexCount, pc, level>>
vars == <<kernelVars, mutexVars>>

MutexInit ==
    /\ KernelInit
    /\ mutexThread = NoThread
    /\ mutexCount = 0
    /\ pc = [t \in Thread |-> "user"]
    /\ level = [t \in Thread |-> 0]

Goto(self, from, to) ==
    /\ Running(self)
    /\ pc[self] = from
    /\ pc' = [pc EXCEPT ![self] = to]

\* OS_MutexPend by the holder only counts.
PendAgain(self) ==
    /\ Goto(self, "user", "user")
    /\ mutexThread = self
    /\ level[self] < MaxDepth
    /\ mutexCount' = mutexCount + 1
    /\ level' = [level EXCEPT ![self] = @ + 1]
    /\ UNCHANGED <<mutexThread, kernelVars>>

\* OS_MutexPend by another thread ...
PendFirst(self) ==
    /\ Goto(self, "user", "pend")
    /\ mutexThread # self
    /\ UNCHANGED <<mutexThread, mutexCount, level, kernelVars>>

\* Broken variant: the result of a wait that gives up is ignored.
PendSemaphoreNoWait(self) ==
    /\ Goto(self, "pend", "claim")
    /\ SemaphorePend(self, MutexSemaphore, 0)
    /\ UNCHANGED <<mutexThread, mutexCount, level>>

\* ... waits for the semaphore ...
PendSemaphore(self) ==
    /\ Goto(self, "pend", "claim")
    /\ SemaphorePend(self, MutexSemaphore, FOREVER)
    /\ UNCHANGED <<mutexThread, mutexCount, level>>

\* ... and, when it has it, writes its name
ClaimThread(self) ==
    /\ Goto(self, "claim", "count")
    /\ mutexThread' = self
    /\ UNCHANGED <<mutexCount, level, kernelVars>>

\* and its count.
ClaimCount(self) ==
    /\ Goto(self, "count", "user")
    /\ mutexCount' = 1
    /\ level' = [level EXCEPT ![self] = @ + 1]
    /\ UNCHANGED <<mutexThread, kernelVars>>

\* Broken variant: released one post too early.
PostCountEarly(self) ==
    /\ Goto(self, "user", IF mutexCount - 1 <= 1 THEN "release" ELSE "user")
    /\ level[self] > 0
    /\ mutexCount' = mutexCount - 1
    /\ level' = [level EXCEPT ![self] = @ - 1]
    /\ UNCHANGED <<mutexThread, kernelVars>>

\* OS_MutexPost counts down, the assertions say by the holder only ...
PostCount(self) ==
    /\ Goto(self, "user", IF mutexCount - 1 <= 0 THEN "release" ELSE "user")
    /\ level[self] > 0
    /\ mutexCount' = mutexCount - 1
    /\ level' = [level EXCEPT ![self] = @ - 1]
    /\ UNCHANGED <<mutexThread, kernelVars>>

\* Broken variant: the name stays.
ReleaseThreadKept(self) ==
    /\ Goto(self, "release", "post")
    /\ UNCHANGED <<mutexThread, mutexCount, level, kernelVars>>

\* ... and at zero clears the name
ReleaseThread(self) ==
    /\ Goto(self, "release", "post")
    /\ mutexThread' = NoThread
    /\ UNCHANGED <<mutexCount, level, kernelVars>>

\* and posts the semaphore.
PostSemaphore(self) ==
    /\ Goto(self, "post", "user")
    /\ SemaphorePost(MutexSemaphore)
    /\ UNCHANGED <<mutexThread, mutexCount, level>>

\* OS_ThreadSleep, with the mutex or without.
ThreadSleep(self) ==
    /\ Goto(self, "user", "user")
    /\ \E ticks \in Ticks : SemaphorePend(self, SemaphoreSleep, ticks)
    /\ UNCHANGED <<mutexThread, mutexCount, level>>

MutexCall(self) ==
    \/ PendAgain(self)
    \/ PendFirst(self)
    \/ PendSemaphore(self)
    \/ ClaimThread(self)
    \/ ClaimCount(self)
    \/ PostCount(self)
    \/ ReleaseThread(self)
    \/ PostSemaphore(self)

MutexNext ==
    \/ (Boot \/ Interrupt({})) /\ UNCHANGED mutexVars
    \/ \E self \in Client : MutexCall(self) \/ ThreadSleep(self)

MutexSpec == MutexInit /\ [][MutexNext]_vars

(***************************************************************************)
(* Properties.                                                             *)
(***************************************************************************)

\* The shape of the mutex and its clients.
MutexTypeOK ==
    /\ mutexThread \in Thread \cup {NoThread}
    /\ mutexCount \in 0 .. MaxDepth
    /\ pc \in [Thread -> {"user", "pend", "claim", "count", "release", "post"}]
    /\ level \in [Thread -> 0 .. MaxDepth]

\* A thread owns the mutex from the moment its wait for the semaphore is over to
\* the moment it has posted it.
Owns(t) ==
    \/ pc[t] = "claim" /\ semaphorePending[t] = NoSemaphore
    \/ pc[t] \in {"count", "release", "post"}
    \/ pc[t] = "user" /\ level[t] > 0

\* At most one thread owns the mutex, also in the windows in which its fields
\* say otherwise, and then the semaphore is taken (OS_MutexPend, OS_MutexPost).
MutualExclusion ==
    /\ \A t, u \in Thread : Owns(t) /\ Owns(u) => t = u
    /\ (\E t \in Thread : Owns(t)) <=> semCount[MutexSemaphore] <= 0

\* The fields, written without a lock, are those of the owner: the name whenever
\* a thread could compare it with itself, and the count of the calls to match.
FieldsOfOwner ==
    /\ \A t \in Thread : level[t] > 0 => mutexThread = t /\ mutexCount = level[t]
    /\ \A t \in Thread : mutexThread = t => Owns(t)

\* The three together: who owns the mutex, and that its fields say so in time
MutexSound == MutexTypeOK /\ MutualExclusion /\ FieldsOfOwner

\* The mutex is a recursive lock: the outermost post releases it, no other does.
Lock == INSTANCE RecursiveLock

LockImplemented == Lock!Spec
=============================================================================

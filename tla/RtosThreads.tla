---------------------------- MODULE RtosThreads ----------------------------
(***************************************************************************)
(* The life of a thread in the RTOS (kernel/rtos.c), over the kernel: who  *)
(* exits cannot free the stack it runs on and leaves itself in NeedToFree; *)
(* the next OS_ThreadCreate or OS_ThreadExit frees it.  SemaphoreRelease   *)
(* keeps two threads from doing that at once, but the exiting thread       *)
(* writes NeedToFree without it.                                           *)
(***************************************************************************)
EXTENDS RtosKernel

CONSTANT SemaphoreRelease

ASSUME ReleaseAssumption ==
    /\ SemaphoreRelease \in Semaphore
    /\ InitialCount[SemaphoreRelease] = 1

VARIABLES
    needToFree,  \* NeedToFree
    stage,          \* where each thread is in OS_ThreadCreate or OS_ThreadExit
    exiting      \* the threads that are in OS_ThreadExit

threadVars == <<kernelVars, needToFree, stage, exiting>>

ThreadsInit ==
    /\ KernelInit
    /\ needToFree = NoThread
    /\ stage = [t \in Thread |-> "user"]
    /\ exiting = {}

Proceed(self, from, to) ==
    /\ Running(self)
    /\ stage[self] = from
    /\ stage' = [stage EXCEPT ![self] = to]

\* Both functions wait for SemaphoreRelease,
ReleaseBegin(self) ==
    /\ Proceed(self, "begin", "test")
    /\ SemaphorePend(self, SemaphoreRelease, FOREVER)
    /\ UNCHANGED <<needToFree, exiting>>

\* look whether a thread has exited,
ReleaseTest(self) ==
    /\ Proceed(self, "test", IF needToFree # NoThread THEN "free" ELSE "clear")
    /\ UNCHANGED <<kernelVars, needToFree, exiting>>

\* free it,
ReleaseFree(self) ==
    /\ Proceed(self, "free", "clear")
    /\ ThreadFree(needToFree)
    /\ UNCHANGED <<needToFree, exiting>>

\* Broken variant: the pointer to the freed thread stays.
ReleaseClearNot(self) ==
    /\ Proceed(self, "clear", "post")
    /\ UNCHANGED <<kernelVars, needToFree, exiting>>

\* forget it
ReleaseClear(self) ==
    /\ Proceed(self, "clear", "post")
    /\ needToFree' = NoThread
    /\ UNCHANGED <<kernelVars, exiting>>

\* Broken variant: SemaphoreRelease is kept by who exits.
ReleasePostCreate(self) ==
    /\ Proceed(self, "post", IF self \in exiting THEN "exit" ELSE "create")
    /\ IF self \in exiting THEN UNCHANGED kernelVars ELSE SemaphorePost(SemaphoreRelease)
    /\ UNCHANGED <<needToFree, exiting>>

\* and post SemaphoreRelease.
ReleasePost(self) ==
    /\ Proceed(self, "post", IF self \in exiting THEN "exit" ELSE "create")
    /\ SemaphorePost(SemaphoreRelease)
    /\ UNCHANGED <<needToFree, exiting>>

CreateCall(self) ==
    /\ Proceed(self, "user", "begin")
    /\ UNCHANGED <<kernelVars, needToFree, exiting>>

\* OS_ThreadCreate goes on with the memory of a thread that does not exist.
Create(self) ==
    \E thread \in Client, prio \in Priority :
        /\ Running(self)
        /\ stage[self] = "create"
        /\ ThreadCreate(thread, prio)
        /\ stage' = [stage EXCEPT ![self] = "user", ![thread] = "user"]
        /\ exiting' = exiting \ {thread}
        /\ UNCHANGED needToFree

\* OS_ThreadCreate finds no memory and returns NULL.
CreateFails(self) ==
    /\ Proceed(self, "create", "user")
    /\ \A thread \in Thread : state[thread] # "NONE"
    /\ UNCHANGED <<kernelVars, needToFree, exiting>>

ExitCall(self) ==
    /\ Proceed(self, "user", "begin")
    /\ exiting' = exiting \cup {self}
    /\ UNCHANGED <<kernelVars, needToFree>>

\* Another thread has exited in the meantime: OS_ThreadExit starts again.
ExitAgain(self) ==
    /\ Proceed(self, "exit", "begin")
    /\ needToFree # NoThread
    /\ UNCHANGED <<kernelVars, needToFree, exiting>>

\* The critical section that ends OS_ThreadExit.
ExitLast(self) ==
    /\ Proceed(self, "exit", "begin")
    /\ needToFree = NoThread
    /\ needToFree' = self
    /\ ThreadExit(self)
    /\ UNCHANGED exiting

ThreadsCall(self) ==
    \/ CreateCall(self)
    \/ ExitCall(self)
    \/ ReleaseBegin(self)
    \/ ReleaseTest(self)
    \/ ReleaseFree(self)
    \/ ReleaseClear(self)
    \/ ReleasePost(self)
    \/ Create(self)
    \/ CreateFails(self)
    \/ ExitAgain(self)
    \/ ExitLast(self)

ThreadsNext ==
    \/ (Boot \/ Interrupt({})) /\ UNCHANGED <<needToFree, stage, exiting>>
    \/ \E self \in Client : ThreadsCall(self)

ThreadsSpec == ThreadsInit /\ [][ThreadsNext]_threadVars

Continue(self) ==
    \/ ReleaseBegin(self) \/ ReleaseTest(self) \/ ReleaseFree(self)
    \/ ReleaseClear(self) \/ ReleasePost(self) \/ Create(self)
    \/ CreateFails(self)

\* A thread that has the CPU goes on with its call.
FairThreadsSpec == ThreadsSpec /\ InterruptFairness /\ \A self \in Client : SF_threadVars(Continue(self))

(***************************************************************************)
(* Properties.                                                             *)
(***************************************************************************)

\* A thread is freed once, after it has left the CPU for good: what is about to be
\* freed has exited and not been freed, although NeedToFree is written without
\* SemaphoreRelease and the memory is used again (OS_ThreadCreate, OS_ThreadExit).
FreesExitedOnly ==
    \A self \in Thread :
        stage[self] = "free" =>
            /\ needToFree \in exiting
            /\ Exited(needToFree)

\* Who creates a thread gets through the clean-up, whoever else creates or exits, unless
\* threads of different priorities come again and again: SemaphoreRelease is always
\* given back.
CreateReturns ==
    \A t \in Thread : []<>(stage[t] = "user" \/ t \in exiting \/ ~SamePriority)

\* Each thread that has exited is freed by the next that creates or exits, as the
\* comment in OS_ThreadExit says: "Free the memory for closed but not yet freed
\* threads" (rtos.c:543).
ExitedFreed ==
    \A t \in Thread : Exited(t) => t = needToFree
=============================================================================

------------------------- MODULE RtosServicesProofs -------------------------
(***************************************************************************)
(* Proofs about the services that are built on semaphores.  The mutex, for *)
(* any threads, priorities and depth of nesting, rests on the kernel's     *)
(* invariant and on what a call of the kernel does to its semaphore; so    *)
(* does the message queue, for any threads, messages, capacity and         *)
(* schedule: its semaphore counts its messages, and its ring is a bounded  *)
(* queue.  The life of threads, for any threads, priorities and other      *)
(* semaphores, rests on which threads never run again.                     *)
(***************************************************************************)
EXTENDS RtosMutex, RtosMQueue, RtosThreads, RtosKernelProofs, FiniteSetTheorems

(***************************************************************************)
(* The mutex.                                                              *)
(***************************************************************************)

LEMMA Nowhere == NoThread \notin Thread /\ NoSemaphore \notin Semaphore
BY KernelAssumption, Zenon

(***************************************************************************)
(* The inductive invariant.                                                *)
(***************************************************************************)

\* Who waits for the mutex is about to claim it, waits for ever, and holds nothing; the
\* name is written before the count and cleared before the post.
MutexInv ==
    /\ MutexSound
    /\ semCount[MutexSemaphore] <= 1
    /\ \A t \in Thread :
          /\ semaphorePending[t] = MutexSemaphore => pc[t] = "claim" /\ t \notin Timed
          /\ semaphorePending[t] \notin {NoSemaphore, MutexSemaphore} => pc[t] = "user"
          /\ pc[t] # "user" => level[t] = 0
          /\ pc[t] = "count" => mutexThread = t
          /\ pc[t] = "post" => mutexThread # t

LEMMA MutexInitEstablishes == MutexInit => MutexInv
<1>. SUFFICES ASSUME MutexInit
              PROVE  MutexInv
  OBVIOUS
<1>1. /\ semCount[MutexSemaphore] = 1 /\ mutexThread = NoThread /\ mutexCount = 0
      /\ pc = [t \in Thread |-> "user"] /\ level = [t \in Thread |-> 0]
      /\ semaphorePending = [t \in Thread |-> NoSemaphore]
  BY MutexAssumption DEF MutexInit, KernelInit
<1>2. MutexTypeOK
  BY <1>1, MutexAssumption DEF MutexTypeOK
<1>3. \A t \in Thread : ~Owns(t)
  BY <1>1 DEF Owns
<1>4. MutualExclusion /\ FieldsOfOwner
  BY <1>1, <1>3, Nowhere DEF MutualExclusion, FieldsOfOwner
<1>. QED
  BY <1>1, <1>2, <1>4, Nowhere, MutexAssumption DEF MutexInv, MutexSound

\* The mutex and its clients only make steps of the kernel.
LEMMA MutexStepsAreKernelSteps == [MutexNext]_vars => [KernelNext]_kernelVars
<1>. SUFFICES ASSUME [MutexNext]_vars
              PROVE  [KernelNext]_kernelVars
  OBVIOUS
<1>1. CASE (Boot \/ Interrupt({})) /\ UNCHANGED mutexVars
  BY <1>1 DEF Interrupt, KernelNext
<1>2. ASSUME NEW self \in Client, MutexCall(self) \/ ThreadSleep(self)
      PROVE  ThreadCall \/ UNCHANGED kernelVars
  <2>1. CASE PendSemaphore(self)
    BY <2>1, MutexAssumption DEF PendSemaphore, Goto, ThreadCall
  <2>2. CASE PostSemaphore(self)
    BY <2>2, MutexAssumption DEF PostSemaphore, Goto, ThreadCall
  <2>3. CASE ThreadSleep(self)
    BY <2>3, MutexAssumption DEF ThreadSleep, Goto, ThreadCall
  <2>4. CASE PendAgain(self) \/ PendFirst(self) \/ ClaimThread(self) \/ ClaimCount(self)
             \/ PostCount(self) \/ ReleaseThread(self)
    BY <2>4 DEF PendAgain, PendFirst, ClaimThread, ClaimCount, PostCount, ReleaseThread
  <2>. QED
    BY <1>2, <2>1, <2>2, <2>3, <2>4 DEF MutexCall
<1>3. CASE UNCHANGED vars
  BY <1>3 DEF vars
<1>. QED
  BY <1>1, <1>2, <1>3 DEF MutexNext, KernelNext

LEMMA MutexOnKernel == MutexSpec => []KernelInv
<1>1. MutexInit => KernelInit
  BY DEF MutexInit
<1>. QED
  BY <1>1, MutexStepsAreKernelSteps, KernelInvariant, PTL DEF MutexSpec, KernelSpec

(***************************************************************************)
(* Each action preserves the invariant.                                    *)
(***************************************************************************)

\* A step that gives no thread the mutex, takes it from none and changes no field.
LEMMA OwnersUnchanged ==
    ASSUME MutexInv, UNCHANGED <<mutexThread, mutexCount, level>>,
           pc' \in [Thread -> {"user", "pend", "claim", "count", "release", "post"}],
           \A t \in Thread : Owns(t)' <=> Owns(t),
           semCount'[MutexSemaphore] <= 0 <=> semCount[MutexSemaphore] <= 0
    PROVE  MutexSound'
  BY DEF MutexInv, MutexSound, MutexTypeOK, MutualExclusion, FieldsOfOwner

LEMMA MutexUnchanged ==
    ASSUME KernelInv, MutexInv, UNCHANGED <<mutexVars, semaphorePending, Timed>>,
           semCount'[MutexSemaphore] = semCount[MutexSemaphore]
    PROVE  MutexInv'
<1>1. UNCHANGED <<mutexThread, mutexCount, pc, level>>
  BY DEF mutexVars
<1>2. \A t \in Thread : Owns(t)' <=> Owns(t)
  BY <1>1 DEF Owns
<1>3. MutexSound'
  BY <1>1, <1>2, OwnersUnchanged DEF MutexInv, MutexSound, MutexTypeOK
<1>. QED
  BY <1>1, <1>3 DEF MutexInv

\* The end of a timed wait is none of the mutex's business.
LEMMA InterruptKeepsMutex ==
    ASSUME KernelInv, MutexInv, Interrupt({}), UNCHANGED mutexVars
    PROVE  MutexInv'
<1>1. CASE UNCHANGED <<semCount, semaphorePending, Timed>>
  BY <1>1, MutexUnchanged
<1>2. ASSUME NEW t \in Thread, t \in Timed, Timed' \subseteq Timed,
             semCount' = [semCount EXCEPT ![semaphorePending[t]] = @ + 1],
             semaphorePending' = [semaphorePending EXCEPT ![t] = NoSemaphore]
      PROVE  MutexInv'
  <2>1. UNCHANGED <<mutexThread, mutexCount, pc, level>>
    BY DEF mutexVars
  <2>2. /\ semaphorePending \in [Thread -> Semaphore \cup {NoSemaphore}]
        /\ semCount \in [Semaphore -> Int]
        /\ semaphorePending[t] # NoSemaphore
    BY <1>2 DEF KernelInv, TypeOK, Timed
  <2>3. semaphorePending[t] # MutexSemaphore /\ pc[t] = "user"
    BY <1>2, <2>2 DEF MutexInv
  <2>4. semCount'[MutexSemaphore] = semCount[MutexSemaphore]
    BY <1>2, <2>2, <2>3, MutexAssumption
  <2>5. \A u \in Thread : semaphorePending'[u] = IF u = t THEN NoSemaphore ELSE semaphorePending[u]
    BY <1>2, <2>2
  <2>6. \A u \in Thread : Owns(u)' <=> Owns(u)
    BY <2>1, <2>3, <2>5 DEF Owns
  <2>7. MutexSound'
    BY <2>1, <2>4, <2>6, OwnersUnchanged DEF MutexInv, MutexSound, MutexTypeOK
  <2>. QED
    BY <1>2, <2>1, <2>4, <2>5, <2>7, Nowhere, MutexAssumption DEF MutexInv
<1>. QED
  BY <1>1, <1>2, InterruptEffect

LEMMA SleepKeepsMutex ==
    ASSUME KernelInv, MutexInv, NEW self \in Client, ThreadSleep(self)
    PROVE  MutexInv'
<1>1. /\ self \in Thread /\ semaphorePending[self] = NoSemaphore
      /\ Running(self) /\ pc[self] = "user" /\ UNCHANGED <<mutexThread, mutexCount, pc, level>>
  BY RunningWaitsNowhere DEF ThreadSleep, Goto, MutexInv, MutexSound, MutexTypeOK
<1>2. PICK ticks \in Ticks : SemaphorePend(self, SemaphoreSleep, ticks)
  BY DEF ThreadSleep
<1>3. /\ semCount' = [semCount EXCEPT ![SemaphoreSleep] = @ - 1]
      /\ \/ UNCHANGED <<semaphorePending, Timed>>
         \/ /\ semaphorePending' = [semaphorePending EXCEPT ![self] = SemaphoreSleep]
            /\ Timed' \subseteq Timed \cup {self}
  BY <1>1, <1>2, PendEffect, MutexAssumption
<1>4. semCount'[MutexSemaphore] = semCount[MutexSemaphore]
  BY <1>3, MutexAssumption DEF KernelInv, TypeOK
<1>5. CASE UNCHANGED <<semaphorePending, Timed>>
  BY <1>1, <1>4, <1>5, MutexUnchanged DEF mutexVars
<1>6. CASE /\ semaphorePending' = [semaphorePending EXCEPT ![self] = SemaphoreSleep]
           /\ Timed' \subseteq Timed \cup {self}
  <2>1. \A u \in Thread : semaphorePending'[u] = IF u = self THEN SemaphoreSleep ELSE semaphorePending[u]
    BY <1>6 DEF KernelInv, TypeOK
  <2>2. \A u \in Thread : Owns(u)' <=> Owns(u)
    BY <1>1, <2>1 DEF Owns
  <2>3. MutexSound'
    BY <1>1, <1>4, <2>2, OwnersUnchanged DEF MutexInv, MutexSound, MutexTypeOK
  <2>. QED
    BY <1>1, <1>4, <1>6, <2>1, <2>3, Nowhere, MutexAssumption DEF MutexInv
<1>. QED
  BY <1>3, <1>5, <1>6

\* OS_MutexPend: the semaphore is free and so is the mutex, or the thread waits for it.
LEMMA PendSemaphoreKeepsMutex ==
    ASSUME KernelInv, MutexInv, NEW self \in Client, PendSemaphore(self)
    PROVE  MutexInv'
<1>1. /\ self \in Thread /\ semaphorePending[self] = NoSemaphore
      /\ Running(self) /\ pc[self] = "pend" /\ pc' = [pc EXCEPT ![self] = "claim"]
      /\ UNCHANGED <<mutexThread, mutexCount, level>>
      /\ SemaphorePend(self, MutexSemaphore, FOREVER)
  BY RunningWaitsNowhere DEF PendSemaphore, Goto
<1>2. /\ semCount' = [semCount EXCEPT ![MutexSemaphore] = @ - 1]
      /\ \/ semCount[MutexSemaphore] > 0 /\ UNCHANGED <<semaphorePending, Timed>>
         \/ /\ semCount[MutexSemaphore] <= 0
            /\ semaphorePending' = [semaphorePending EXCEPT ![self] = MutexSemaphore]
            /\ Timed' = Timed
  BY <1>1, PendEffect, MutexAssumption
<1>3. /\ semCount[MutexSemaphore] \in Int
      /\ semCount'[MutexSemaphore] = semCount[MutexSemaphore] - 1
      /\ semaphorePending \in [Thread -> Semaphore \cup {NoSemaphore}]
      /\ self \notin Timed
  BY <1>1, <1>2, MutexAssumption DEF KernelInv, TypeOK, Timed
<1>4. /\ pc \in [Thread -> {"user", "pend", "claim", "count", "release", "post"}]
      /\ pc' \in [Thread -> {"user", "pend", "claim", "count", "release", "post"}]
      /\ \A u \in Thread : pc'[u] = IF u = self THEN "claim" ELSE pc[u]
      /\ ~Owns(self)
  BY <1>1 DEF MutexInv, MutexSound, MutexTypeOK, Owns
<1>5. CASE semCount[MutexSemaphore] > 0 /\ UNCHANGED <<semaphorePending, Timed>>
  <2>1. semCount'[MutexSemaphore] = 0 /\ \A u \in Thread : ~Owns(u)
    BY <1>3, <1>5 DEF MutexInv, MutexSound, MutualExclusion
  <2>2. \A u \in Thread : Owns(u)' <=> u = self
    BY <1>1, <1>4, <1>5, <2>1 DEF Owns
  <2>3. MutexSound'
    BY <1>1, <1>4, <2>1, <2>2 DEF MutexInv, MutexSound, MutexTypeOK, MutualExclusion, FieldsOfOwner
  <2>. QED
    BY <1>1, <1>4, <1>5, <2>1, <2>3, Nowhere, MutexAssumption DEF MutexInv
<1>6. CASE /\ semCount[MutexSemaphore] <= 0
           /\ semaphorePending' = [semaphorePending EXCEPT ![self] = MutexSemaphore]
           /\ Timed' = Timed
  <2>1. \A u \in Thread : semaphorePending'[u] = IF u = self THEN MutexSemaphore ELSE semaphorePending[u]
    BY <1>3, <1>6
  <2>2. \A u \in Thread : Owns(u)' <=> Owns(u)
    BY <1>1, <1>4, <2>1, Nowhere, MutexAssumption DEF Owns
  <2>3. MutexSound'
    BY <1>1, <1>3, <1>4, <1>6, <2>2, OwnersUnchanged
  <2>. QED
    BY <1>1, <1>3, <1>4, <1>6, <2>1, <2>3, Nowhere, MutexAssumption DEF MutexInv
<1>. QED
  BY <1>2, <1>5, <1>6

\* OS_MutexPost: the thread that has waited longest becomes the owner, or nobody does.
LEMMA PostSemaphoreKeepsMutex ==
    ASSUME KernelInv, MutexInv, NEW self \in Client, PostSemaphore(self)
    PROVE  MutexInv'
<1>1. /\ self \in Thread /\ semaphorePending[self] = NoSemaphore
      /\ pc[self] = "post" /\ pc' = [pc EXCEPT ![self] = "user"]
      /\ UNCHANGED <<mutexThread, mutexCount, level>>
      /\ SemaphorePost(MutexSemaphore)
  BY RunningWaitsNowhere DEF PostSemaphore, Goto
<1>2. /\ semCount' = [semCount EXCEPT ![MutexSemaphore] = @ + 1]
      /\ \/ semCount[MutexSemaphore] >= 0 /\ UNCHANGED <<semaphorePending, Timed>>
         \/ /\ semCount[MutexSemaphore] < 0 /\ Timed' \subseteq Timed
            /\ \E t \in Thread :
                  /\ semaphorePending[t] = MutexSemaphore
                  /\ semaphorePending' = [semaphorePending EXCEPT ![t] = NoSemaphore]
  BY <1>1, PostEffect, MutexAssumption
<1>3. /\ semCount[MutexSemaphore] \in Int
      /\ semCount'[MutexSemaphore] = semCount[MutexSemaphore] + 1
      /\ semaphorePending \in [Thread -> Semaphore \cup {NoSemaphore}]
  BY <1>2, MutexAssumption DEF KernelInv, TypeOK
<1>4. /\ pc \in [Thread -> {"user", "pend", "claim", "count", "release", "post"}]
      /\ pc' \in [Thread -> {"user", "pend", "claim", "count", "release", "post"}]
      /\ \A u \in Thread : pc'[u] = IF u = self THEN "user" ELSE pc[u]
      /\ level[self] = 0 /\ mutexThread # self
  BY <1>1 DEF MutexInv, MutexSound, MutexTypeOK
<1>5. semCount[MutexSemaphore] <= 0 /\ \A u \in Thread : Owns(u) <=> u = self
  BY <1>1 DEF MutexInv, MutexSound, MutualExclusion, Owns
<1>6. CASE semCount[MutexSemaphore] >= 0 /\ UNCHANGED <<semaphorePending, Timed>>
  <2>1. semCount'[MutexSemaphore] = 1 /\ \A u \in Thread : ~Owns(u)'
    BY <1>1, <1>3, <1>4, <1>5, <1>6 DEF Owns
  <2>2. MutexSound'
    BY <1>1, <1>4, <1>5, <2>1 DEF MutexInv, MutexSound, MutexTypeOK, MutualExclusion, FieldsOfOwner
  <2>. QED
    BY <1>1, <1>4, <1>6, <2>1, <2>2, Nowhere, MutexAssumption DEF MutexInv
<1>7. ASSUME NEW t \in Thread, semCount[MutexSemaphore] < 0, Timed' \subseteq Timed,
             semaphorePending[t] = MutexSemaphore,
             semaphorePending' = [semaphorePending EXCEPT ![t] = NoSemaphore]
      PROVE  MutexInv'
  <2>1. \A u \in Thread : semaphorePending'[u] = IF u = t THEN NoSemaphore ELSE semaphorePending[u]
    BY <1>3, <1>7
  <2>2. t # self /\ pc[t] = "claim" /\ level[t] = 0
    BY <1>1, <1>7, Nowhere, MutexAssumption DEF MutexInv
  <2>3. \A u \in Thread : Owns(u)' <=> u = t
    BY <1>1, <1>4, <1>5, <2>1, <2>2 DEF Owns
  <2>4. semCount'[MutexSemaphore] <= 0
    BY <1>3, <1>7
  <2>5. MutexSound'
    <3>1. \A u \in Thread : level[u] = 0 /\ mutexThread # u
      BY <1>1, <1>4, <1>5 DEF MutexInv, MutexSound, MutexTypeOK, FieldsOfOwner, Owns
    <3>. QED
      BY <1>1, <1>4, <2>3, <2>4, <3>1 DEF MutexInv, MutexSound, MutexTypeOK, MutualExclusion, FieldsOfOwner
  <2>. QED
    <3>1. semCount'[MutexSemaphore] <= 1
      BY <1>3, <1>7
    <3>. QED
      BY <1>1, <1>4, <1>7, <2>1, <2>2, <2>5, <3>1, Nowhere, MutexAssumption DEF MutexInv
<1>. QED
  BY <1>2, <1>6, <1>7

\* A step that touches the fields and nothing of the kernel, by a thread that owns the mutex
\* before and after, or neither.
LEMMA FieldsKeepMutex ==
    ASSUME KernelInv, MutexInv, NEW self \in Client,
           \/ PendAgain(self) \/ PendFirst(self) \/ ClaimThread(self)
           \/ ClaimCount(self) \/ PostCount(self) \/ ReleaseThread(self)
    PROVE  MutexInv'
<1>1. /\ self \in Thread /\ semaphorePending[self] = NoSemaphore
      /\ self # NoThread
      /\ UNCHANGED <<semaphorePending, semCount, Timed>>
  BY RunningWaitsNowhere DEF PendAgain, PendFirst, ClaimThread, ClaimCount, PostCount,
     ReleaseThread, Goto, kernelVars, Timed, Threads
<1>2. MutexTypeOK /\ MutualExclusion /\ FieldsOfOwner
  BY DEF MutexInv, MutexSound
<1>3. MutexTypeOK' /\ \A t \in Thread : t # self => pc'[t] = pc[t] /\ level'[t] = level[t]
  <2>1. CASE PendAgain(self)
    <3>1. mutexCount = level[self] /\ level[self] < MaxDepth /\ level[self] \in Nat
      BY <1>1, <1>2, <2>1 DEF PendAgain, Goto, MutexTypeOK, FieldsOfOwner, Owns
    <3>. QED
      BY <1>1, <1>2, <2>1, <3>1, MutexAssumption DEF PendAgain, Goto, MutexTypeOK
  <2>2. CASE PostCount(self)
    <3>1. mutexCount = level[self] /\ level[self] > 0
      BY <1>1, <1>2, <2>2 DEF PostCount, Goto, FieldsOfOwner
    <3>. QED
      BY <1>1, <1>2, <2>2, <3>1, MutexAssumption DEF PostCount, Goto, MutexTypeOK
  <2>3. CASE ClaimCount(self)
    <3>1. level[self] = 0
      BY <1>1, <2>3 DEF ClaimCount, Goto, MutexInv
    <3>. QED
      BY <1>1, <1>2, <2>3, <3>1, MutexAssumption DEF ClaimCount, Goto, MutexTypeOK
  <2>4. CASE PendFirst(self) \/ ClaimThread(self) \/ ReleaseThread(self)
    BY <1>1, <1>2, <2>4 DEF PendFirst, ClaimThread, ReleaseThread, Goto, MutexTypeOK
  <2>. QED
    BY <2>1, <2>2, <2>3, <2>4
<1>4. \A t \in Thread : Owns(t)' <=> Owns(t)
  <2>1. \A t \in Thread : t # self => (Owns(t)' <=> Owns(t))
    BY <1>1, <1>3 DEF Owns
  <2>2. Owns(self)' <=> Owns(self)
    <3>1. CASE PendAgain(self)
      BY <1>1, <1>2, <3>1 DEF PendAgain, Goto, Owns, FieldsOfOwner, MutexTypeOK
    <3>2. CASE PendFirst(self)
      BY <1>1, <1>2, <3>2 DEF PendFirst, Goto, Owns, FieldsOfOwner, MutexTypeOK
    <3>3. CASE ClaimThread(self) \/ ReleaseThread(self)
      BY <1>1, <1>2, <3>3 DEF ClaimThread, ReleaseThread, Goto, Owns, MutexTypeOK
    <3>4. CASE ClaimCount(self)
      BY <1>1, <1>2, <3>4 DEF ClaimCount, Goto, Owns, MutexTypeOK
    <3>5. CASE PostCount(self)
      BY <1>1, <1>2, <3>5 DEF PostCount, Goto, Owns, FieldsOfOwner, MutexTypeOK
    <3>. QED
      BY <3>1, <3>2, <3>3, <3>4, <3>5
  <2>. QED
    BY <2>1, <2>2
<1>5. MutualExclusion'
  BY <1>1, <1>2, <1>4 DEF MutualExclusion
<1>6. FieldsOfOwner'
  <2>1. \A t \in Thread : mutexThread' = t => Owns(t)'
    BY <1>1, <1>2, <1>4, Nowhere
       DEF FieldsOfOwner, PendAgain, PendFirst, ClaimThread, ClaimCount, PostCount, ReleaseThread, Goto, Owns
  <2>2. ASSUME NEW t \in Thread, level'[t] > 0
        PROVE  mutexThread' = t /\ mutexCount' = level'[t]
    <3>1. Owns(t) /\ Owns(t)'
      BY <1>1, <1>2, <1>3, <1>4, <2>2 DEF MutexInv, Owns, PendAgain, PendFirst, ClaimThread, ClaimCount, PostCount, ReleaseThread, Goto, MutexTypeOK
    <3>2. CASE PendAgain(self) \/ PostCount(self)
      <4>1. Owns(self)
        BY <1>1, <1>2, <3>2 DEF PendAgain, PostCount, Goto, Owns, FieldsOfOwner
      <4>2. t = self
        BY <1>1, <1>2, <3>1, <4>1 DEF MutualExclusion
      <4>. QED
        BY <1>1, <1>2, <2>2, <3>2, <4>2 DEF PendAgain, PostCount, Goto, FieldsOfOwner, MutexTypeOK, Owns
    <3>3. CASE ClaimThread(self) \/ ReleaseThread(self)
      <4>1. Owns(self) /\ level'[self] = 0
        BY <1>1, <3>3 DEF ClaimThread, ReleaseThread, Goto, Owns, MutexInv
      <4>2. t = self
        BY <1>1, <1>2, <3>1, <4>1 DEF MutualExclusion
      <4>. QED
        BY <2>2, <4>1, <4>2
    <3>4. CASE ClaimCount(self)
      <4>1. Owns(self) /\ level[self] = 0 /\ mutexThread = self
        BY <1>1, <3>4 DEF ClaimCount, Goto, Owns, MutexInv
      <4>2. t = self
        BY <1>1, <1>2, <3>1, <4>1 DEF MutualExclusion
      <4>. QED
        BY <1>1, <1>2, <3>4, <4>1, <4>2 DEF ClaimCount, MutexTypeOK
    <3>5. CASE PendFirst(self)
      BY <1>1, <1>2, <2>2, <3>5 DEF PendFirst, FieldsOfOwner
    <3>. QED
      BY <3>2, <3>3, <3>4, <3>5
  <2>. QED
    BY <2>1, <2>2 DEF FieldsOfOwner
<1>7. ASSUME NEW t \in Thread
      PROVE  /\ pc'[t] # "user" => level'[t] = 0
             /\ pc'[t] = "count" => mutexThread' = t
             /\ pc'[t] = "post" => mutexThread' # t
             /\ semaphorePending[t] = MutexSemaphore => pc'[t] = "claim"
             /\ semaphorePending[t] \notin {NoSemaphore, MutexSemaphore} => pc'[t] = "user"
  <2>1. CASE t = self
    <3>1. CASE PendFirst(self)
      BY <1>1, <1>2, <2>1, <3>1, Nowhere, MutexAssumption DEF PendFirst, Goto, FieldsOfOwner, MutexTypeOK
    <3>2. CASE PostCount(self)
      BY <1>1, <1>2, <2>1, <3>2, Nowhere, MutexAssumption DEF PostCount, Goto, FieldsOfOwner, MutexTypeOK
    <3>3. CASE PendAgain(self) \/ ClaimThread(self) \/ ClaimCount(self) \/ ReleaseThread(self)
      BY <1>1, <1>2, <2>1, <3>3, Nowhere, MutexAssumption
         DEF PendAgain, ClaimThread, ClaimCount, ReleaseThread, Goto, MutexTypeOK, MutexInv
    <3>. QED
      BY <3>1, <3>2, <3>3
  <2>2. CASE t # self
    <3>1. Owns(t) => ~Owns(self)
      BY <1>1, <1>2, <2>2 DEF MutualExclusion
    <3>. QED
      BY <1>1, <1>3, <2>2, <3>1, Nowhere
         DEF MutexInv, Owns, PendAgain, PendFirst, ClaimThread, ClaimCount, PostCount, ReleaseThread, Goto
  <2>. QED
    BY <2>1, <2>2
<1>. QED
  BY <1>1, <1>3, <1>5, <1>6, <1>7 DEF MutexInv, MutexSound

(***************************************************************************)
(* The theorems.                                                           *)
(***************************************************************************)

LEMMA MutexInvStep == KernelInv /\ MutexInv /\ [MutexNext]_vars => MutexInv'
<1>. SUFFICES ASSUME KernelInv, MutexInv, [MutexNext]_vars
              PROVE  MutexInv'
  OBVIOUS
<1>1. CASE Boot /\ UNCHANGED mutexVars
  BY <1>1, BootEffect, MutexUnchanged
<1>2. CASE Interrupt({}) /\ UNCHANGED mutexVars
  BY <1>2, InterruptKeepsMutex
<1>3. ASSUME NEW self \in Client, MutexCall(self) \/ ThreadSleep(self)
      PROVE  MutexInv'
  BY <1>3, FieldsKeepMutex, PendSemaphoreKeepsMutex, PostSemaphoreKeepsMutex, SleepKeepsMutex
     DEF MutexCall
<1>4. CASE UNCHANGED vars
  BY <1>4, MutexUnchanged DEF vars, kernelVars, mutexVars, Timed, Threads
<1>. QED
  BY <1>1, <1>2, <1>3, <1>4 DEF MutexNext

LEMMA MutexInvariant == MutexSpec => [](KernelInv /\ MutexInv)
<1>1. MutexInit => MutexInv
  BY MutexInitEstablishes
<1>. QED
  BY <1>1, MutexInvStep, MutexOnKernel, PTL DEF MutexSpec

\* However threads are switched between the unlocked accesses of OS_MutexPend and
\* OS_MutexPost, at most one owns the mutex, the semaphore says so, and the fields are its.
THEOREM MutexIsSound == MutexSpec => []MutexSound
<1>1. MutexInv => MutexSound
  BY DEF MutexInv
<1>. QED
  BY <1>1, MutexInvariant, PTL

LEMMA MutexStepImplements ==
    ASSUME KernelInv, MutexInv, [MutexNext]_vars
    PROVE  [Lock!Next]_level
<1>1. ASSUME NEW self \in Client, PendAgain(self)
      PROVE  Lock!Take(self)
  <2>1. self \in Thread /\ level[self] > 0
    BY <1>1 DEF PendAgain, Goto, Client, MutexInv, MutexSound, FieldsOfOwner, Owns
  <2>. QED
    BY <1>1, <2>1 DEF PendAgain, Lock!Take
<1>2. ASSUME NEW self \in Client, ClaimCount(self)
      PROVE  Lock!Take(self)
  <2>1. self \in Thread /\ Owns(self) /\ level[self] = 0
    BY <1>2 DEF ClaimCount, Goto, Client, MutexInv, Owns
  <2>2. ASSUME NEW t \in Thread
        PROVE  level[t] = 0
    <3>1. level[t] > 0 => Owns(t)
      BY <2>2 DEF MutexInv, MutexSound, FieldsOfOwner
    <3>. QED
      BY <2>1, <2>2, <3>1 DEF MutexInv, MutexSound, MutualExclusion, MutexTypeOK
  <2>. QED
    BY <1>2, <2>2 DEF ClaimCount, Lock!Take, Lock!Free
<1>3. ASSUME NEW self \in Client, PostCount(self)
      PROVE  Lock!Give(self)
  BY <1>3 DEF PostCount, Lock!Give
<1>4. ASSUME NEW self \in Client,
             \/ PendFirst(self) \/ PendSemaphore(self) \/ ClaimThread(self)
             \/ ReleaseThread(self) \/ PostSemaphore(self) \/ ThreadSleep(self)
      PROVE  UNCHANGED level
  BY <1>4 DEF PendFirst, PendSemaphore, ClaimThread, ReleaseThread, PostSemaphore, ThreadSleep
<1>. QED
  BY <1>1, <1>2, <1>3, <1>4 DEF MutexNext, MutexCall, Lock!Next, Client, vars, mutexVars

\* The mutex implements the recursive lock.
THEOREM MutexImplements == MutexSpec => LockImplemented
<1>1. MutexInit => Lock!Init
  BY DEF MutexInit, Lock!Init
<1>. QED
  BY <1>1, MutexStepImplements, MutexInvariant, PTL DEF MutexSpec, LockImplemented, Lock!Spec

(***************************************************************************)
(* The message queue.                                                      *)
(***************************************************************************)

(***************************************************************************)
(* The inductive invariant.                                                *)
(***************************************************************************)

Claimants == {t \in Thread : Entitled(t)}

Available(count) == IF count > 0 THEN count ELSE 0

\* The slot of the i-th message from index on.
Slot(index, i) == IF index + i - 1 < Capacity THEN index + i - 1 ELSE index + i - 1 - Capacity

\* The semaphore counts the messages; the next slot to write comes after the last one;
\* whoever waits is in OS_MQueueGet, and before OS_Start nobody is in any call.
Counted ==
    /\ MQueueTypeOK
    /\ IsFiniteSet(Claimants)
    /\ IsFiniteSet(Storing)
    /\ used = Available(semCount[QueueSemaphore]) + Cardinality(Claimants) + Cardinality(Storing)

ReceiversWait ==
    \A t \in Thread :
        semaphorePending[t] # NoSemaphore => semaphorePending[t] = QueueSemaphore /\ queuePc[t] = "woken"

MQueueInv ==
    /\ Counted
    /\ write = Slot(read, used + 1)
    /\ ReceiversWait
    /\ ~threadSwapEnabled => \A t \in Thread : queuePc[t] = "user"

LEMMA CountedIsMessagesCounted == Counted => MessagesCounted
  BY DEF Counted, MessagesCounted, Available, Claimants

LEMMA MQueueInitEstablishes == MQueueInit => MQueueInv
<1>. SUFFICES ASSUME MQueueInit
              PROVE  MQueueInv
  OBVIOUS
<1>1. /\ semCount[QueueSemaphore] = 0 /\ used = 0 /\ read = 0 /\ write = 0
      /\ queuePc = [t \in Thread |-> "user"]
      /\ semaphorePending = [t \in Thread |-> NoSemaphore]
      /\ ring = [i \in 0 .. Capacity - 1 |-> NoMessage]
      /\ received = NoMessage /\ refused = NoMessage
  BY MQueueAssumption DEF MQueueInit, KernelInit
<1>2. Capacity \in Nat \ {0}
  BY MQueueAssumption
<1>3. MQueueTypeOK
  BY <1>1, <1>2 DEF MQueueTypeOK
<1>4. Claimants = {} /\ Storing = {}
  BY <1>1 DEF Claimants, Entitled, Storing
<1>5. Counted
  BY <1>1, <1>3, <1>4, FS_EmptySet DEF Counted, Available
<1>. QED
  BY <1>1, <1>2, <1>5 DEF MQueueInv, Slot, ReceiversWait

\* The queue and its clients only make steps of the kernel.
LEMMA MQueueStepsAreKernelSteps == [MQueueNext]_mqueueKernelVars => [KernelNext]_kernelVars
<1>. SUFFICES ASSUME [MQueueNext]_mqueueKernelVars
              PROVE  [KernelNext]_kernelVars
  OBVIOUS
<1>0. QueueSemaphore \in Semaphore
  BY MQueueAssumption
<1>1. CASE (Boot \/ Interrupt({})) /\ UNCHANGED mqueueVars
  BY <1>1 DEF Interrupt, KernelNext
<1>2. ASSUME NEW m \in Message, InterruptSend(m)
      PROVE  Interrupt(Semaphore) \/ UNCHANGED kernelVars
  BY <1>0, <1>2 DEF InterruptSend, Interrupt, InterruptPost
<1>3. ASSUME NEW self \in Client, MQueueCall(self)
      PROVE  ThreadCall \/ UNCHANGED kernelVars
  <2>1. ASSUME NEW ticks \in Ticks \cup {FOREVER}, GetWait(self, ticks)
        PROVE  ThreadCall
    BY <1>0, <2>1 DEF GetWait, QueueGoto, ThreadCall, SemaphorePend
  <2>2. CASE GetNow(self) \/ GetNothing(self)
    BY <1>0, <2>2 DEF GetNow, GetNothing, QueueGoto, ThreadCall, SemaphorePend
  <2>3. CASE SendPost(self)
    BY <1>0, <2>3 DEF SendPost, QueueGoto, ThreadCall
  <2>4. CASE \/ \E m \in Message : SendDiscard(self, m) \/ SendStore(self, m)
             \/ GetWoken(self) \/ GetCopy(self)
    BY <2>4 DEF SendDiscard, SendStore, GetWoken, GetCopy
  <2>. QED
    BY <1>3, <2>1, <2>2, <2>3, <2>4 DEF MQueueCall
<1>4. CASE UNCHANGED mqueueKernelVars
  BY <1>4 DEF mqueueKernelVars
<1>. QED
  BY <1>1, <1>2, <1>3, <1>4 DEF MQueueNext, KernelNext

LEMMA MQueueOnKernel == MQueueSpec => []KernelInv
<1>1. MQueueInit => KernelInit
  BY DEF MQueueInit
<1>. QED
  BY <1>1, MQueueStepsAreKernelSteps, KernelInvariant, PTL DEF MQueueSpec, KernelSpec

(***************************************************************************)
(* What a call of the kernel does to those who wait for the queue.         *)
(***************************************************************************)

LEMMA QueueFacts ==
    ASSUME KernelInv, MQueueInv
    PROVE  /\ QueueSemaphore \in Semaphore
           /\ NoSemaphore \notin Semaphore
           /\ Capacity \in Nat \ {0}
           /\ semCount \in [Semaphore -> Int]
           /\ semaphorePending \in [Thread -> Semaphore \cup {NoSemaphore}]
           /\ returnCode \in [Thread -> {0, -1}]
           /\ queuePc \in [Thread -> {"user", "post", "woken", "copy"}]
           /\ \A t \in Thread : semaphorePending[t] = QueueSemaphore => semCount[QueueSemaphore] < 0
<1>1. QueueSemaphore \in Semaphore /\ Capacity \in Nat \ {0}
  BY MQueueAssumption
<1>2. NoSemaphore \notin Semaphore
  BY KernelAssumption, Zenon
<1>3. /\ semCount \in [Semaphore -> Int]
      /\ semHead \in [Semaphore -> Seq(Thread)]
      /\ semaphorePending \in [Thread -> Semaphore \cup {NoSemaphore}]
      /\ returnCode \in [Thread -> {0, -1}]
  BY DEF KernelInv, TypeOK
<1>4. queuePc \in [Thread -> {"user", "post", "woken", "copy"}]
  BY DEF MQueueInv, Counted, MQueueTypeOK
<1>5. ASSUME NEW t \in Thread, semaphorePending[t] = QueueSemaphore
      PROVE  semCount[QueueSemaphore] < 0
  <2>1. t \in Range(semHead[QueueSemaphore])
    BY <1>1, <1>5 DEF KernelInv, OnePlace
  <2>2. Len(semHead[QueueSemaphore]) # 0
    BY <1>1, <1>3, <2>1 DEF Range
  <2>. QED
    BY <1>1, <2>2 DEF KernelInv, SemAccounting
<1>. QED
  BY <1>1, <1>2, <1>3, <1>4, <1>5

\* A post leaves one more token, or entitles the thread it wakes.
LEMMA PostEntitles ==
    ASSUME KernelInv, MQueueInv, SemaphorePost(QueueSemaphore),
           \A t \in Thread : \/ queuePc'[t] = queuePc[t]
                             \/ queuePc[t] \in {"user", "post"} /\ queuePc'[t] \in {"user", "post"}
    PROVE  /\ ReceiversWait'
           /\ IsFiniteSet(Claimants')
           /\ Available(semCount'[QueueSemaphore]) + Cardinality(Claimants')
                = Available(semCount[QueueSemaphore]) + Cardinality(Claimants) + 1
<1>. DEFINE Q == QueueSemaphore
<1>1. /\ Q \in Semaphore /\ NoSemaphore \notin Semaphore
      /\ semCount \in [Semaphore -> Int]
      /\ semaphorePending \in [Thread -> Semaphore \cup {NoSemaphore}]
      /\ returnCode \in [Thread -> {0, -1}]
  BY QueueFacts
<1>2. IsFiniteSet(Claimants) /\ Cardinality(Claimants) \in Nat
  BY FS_CardinalityType DEF MQueueInv, Counted
<1>3. semCount[Q] \in Int /\ semCount'[Q] = semCount[Q] + 1
  BY <1>1, PostEffect
<1>4. CASE semCount[Q] >= 0 /\ UNCHANGED <<semaphorePending, returnCode>>
  <2>1. Claimants' = Claimants
    BY <1>4 DEF Claimants, Entitled
  <2>2. ReceiversWait'
    BY <1>4 DEF MQueueInv, ReceiversWait
  <2>3. Available(semCount'[Q]) = Available(semCount[Q]) + 1
    BY <1>3, <1>4 DEF Available
  <2>4. Available(semCount[Q]) \in Int
    BY <1>3 DEF Available
  <2>. QED
    BY <1>2, <2>1, <2>2, <2>3, <2>4
<1>5. ASSUME semCount[Q] < 0, NEW t \in Thread, semaphorePending[t] = Q,
             semaphorePending' = [semaphorePending EXCEPT ![t] = NoSemaphore],
             returnCode' = [returnCode EXCEPT ![t] = 0]
      PROVE  /\ ReceiversWait'
             /\ IsFiniteSet(Claimants')
             /\ Available(semCount'[Q]) + Cardinality(Claimants')
                  = Available(semCount[Q]) + Cardinality(Claimants) + 1
  <2>1. semaphorePending[t] # NoSemaphore
    BY <1>1, <1>5
  <2>2. queuePc[t] = "woken" /\ queuePc'[t] = "woken"
    BY <2>1 DEF MQueueInv, ReceiversWait
  <2>3. \A u \in Thread : u # t => /\ semaphorePending'[u] = semaphorePending[u]
                                   /\ returnCode'[u] = returnCode[u]
    BY <1>1, <1>5
  <2>4. semaphorePending'[t] = NoSemaphore /\ returnCode'[t] = 0
    BY <1>1, <1>5
  <2>5. \A u \in Thread : u # t => (Entitled(u)' <=> Entitled(u))
    BY <2>3 DEF Entitled
  <2>6. Entitled(t)' /\ ~Entitled(t)
    BY <2>1, <2>2, <2>4 DEF Entitled
  <2>7. Claimants' = Claimants \cup {t} /\ t \notin Claimants
    BY <2>5, <2>6 DEF Claimants
  <2>8. IsFiniteSet(Claimants') /\ Cardinality(Claimants') = Cardinality(Claimants) + 1
    BY <1>2, <2>7, FS_AddElement
  <2>9. ReceiversWait'
    BY <2>3, <2>4 DEF MQueueInv, ReceiversWait
  <2>10. Available(semCount'[Q]) = 0 /\ Available(semCount[Q]) = 0
    BY <1>3, <1>5 DEF Available
  <2>. QED
    BY <1>2, <2>8, <2>9, <2>10
<1>. HIDE DEF Q
<1>6. \/ semCount[Q] >= 0 /\ UNCHANGED <<semaphorePending, returnCode>>
      \/ /\ semCount[Q] < 0
         /\ \E t \in Thread :
               /\ semaphorePending[t] = Q
               /\ semaphorePending' = [semaphorePending EXCEPT ![t] = NoSemaphore]
               /\ returnCode' = [returnCode EXCEPT ![t] = 0]
  BY <1>1, PostEffect DEF Q
<1>. QED
  BY <1>4, <1>5, <1>6 DEF Q

\* Nothing the kernel does switches threads off again.
LEMMA SwapStaysEnabled == [KernelNext]_kernelVars /\ threadSwapEnabled => threadSwapEnabled'
  BY DEF KernelNext, Boot, ThreadCall, Interrupt, InterruptPost, SemaphorePend, SemaphorePost,
         ThreadCreate, OSStart, ThreadFree, ThreadPrioritySet, ThreadExit, PendAcquire, PendNoWait,
         PendWait, PostFree, PostWake, InterruptEntry, TickCount, TickExpire, TickDone,
         InterruptExit, kernelVars

(***************************************************************************)
(* Each action preserves the invariant.                                    *)
(***************************************************************************)

\* A tick ends waits, but entitles nobody.
LEMMA InterruptKeepsQueue ==
    ASSUME KernelInv, MQueueInv, Interrupt({}), UNCHANGED mqueueVars
    PROVE  MQueueInv'
<1>. DEFINE Q == QueueSemaphore
<1>1. /\ Q \in Semaphore /\ NoSemaphore \notin Semaphore
      /\ semCount \in [Semaphore -> Int]
      /\ semaphorePending \in [Thread -> Semaphore \cup {NoSemaphore}]
      /\ returnCode \in [Thread -> {0, -1}]
      /\ \A t \in Thread : semaphorePending[t] = Q => semCount[Q] < 0
  BY QueueFacts
<1>2. UNCHANGED <<used, read, write, ring, received, refused, queuePc>>
  BY DEF mqueueVars, queueVars
<1>3. UNCHANGED threadSwapEnabled
  BY DEF Interrupt, InterruptEntry, TickCount, TickExpire, TickDone, InterruptExit
<1>4. ASSUME Claimants' = Claimants, Available(semCount'[Q]) = Available(semCount[Q]), ReceiversWait'
      PROVE  MQueueInv'
  <2>1. Storing' = Storing /\ (MQueueTypeOK <=> MQueueTypeOK')
    BY <1>2 DEF Storing, MQueueTypeOK
  <2>2. Counted'
    BY <1>2, <1>4, <2>1 DEF MQueueInv, Counted
  <2>. QED
    BY <1>2, <1>3, <1>4, <2>2 DEF MQueueInv, Slot
<1>5. CASE UNCHANGED <<semCount, semaphorePending, returnCode>>
  <2>1. Claimants' = Claimants
    BY <1>2, <1>5 DEF Claimants, Entitled
  <2>2. ReceiversWait'
    BY <1>2, <1>5 DEF MQueueInv, ReceiversWait
  <2>. QED
    BY <1>4, <1>5, <2>1, <2>2
<1>6. ASSUME NEW t \in Thread, t \in Timed,
             semCount' = [semCount EXCEPT ![semaphorePending[t]] = @ + 1],
             semaphorePending' = [semaphorePending EXCEPT ![t] = NoSemaphore],
             returnCode' = [returnCode EXCEPT ![t] = -1]
      PROVE  MQueueInv'
  <2>1. semaphorePending[t] = Q /\ queuePc[t] = "woken"
    BY <1>6 DEF KernelInv, Timed, MQueueInv, ReceiversWait
  <2>2. semCount[Q] < 0 /\ semCount[Q] \in Int /\ semCount'[Q] = semCount[Q] + 1
    BY <1>1, <1>6, <2>1
  <2>3. \A u \in Thread : u # t => /\ semaphorePending'[u] = semaphorePending[u]
                                   /\ returnCode'[u] = returnCode[u]
    BY <1>1, <1>6
  <2>4. semaphorePending'[t] = NoSemaphore /\ returnCode'[t] = -1
    BY <1>1, <1>6
  <2>5. \A u \in Thread : u # t => (Entitled(u)' <=> Entitled(u))
    BY <1>2, <2>3 DEF Entitled
  <2>6. ~Entitled(t)' /\ ~Entitled(t)
    BY <1>1, <1>2, <2>1, <2>4 DEF Entitled
  <2>7. Claimants' = Claimants
    BY <2>5, <2>6 DEF Claimants
  <2>8. ReceiversWait'
    BY <1>2, <2>3, <2>4 DEF MQueueInv, ReceiversWait
  <2>9. Available(semCount'[Q]) = Available(semCount[Q])
    BY <2>2 DEF Available
  <2>. QED
    BY <1>4, <2>7, <2>8, <2>9
<1>. QED
  BY <1>5, <1>6, InterruptEffect

\* Threads start outside the queue.
LEMMA BootKeepsQueue ==
    ASSUME KernelInv, MQueueInv, Boot, UNCHANGED mqueueVars
    PROVE  MQueueInv'
<1>1. UNCHANGED <<used, read, write, ring, received, refused, queuePc>>
  BY DEF mqueueVars, queueVars
<1>2. UNCHANGED <<semCount, semaphorePending>>
  BY BootEffect
<1>3. \A t \in Thread : queuePc[t] = "user" /\ queuePc'[t] = "user"
  BY <1>1 DEF Boot, MQueueInv
<1>4. Claimants' = {} /\ Claimants = {} /\ Storing' = Storing
  BY <1>1, <1>3 DEF Claimants, Entitled, Storing
<1>5. MQueueTypeOK'
  BY <1>1 DEF MQueueInv, Counted, MQueueTypeOK
<1>6. Counted'
  BY <1>1, <1>2, <1>4, <1>5 DEF MQueueInv, Counted
<1>. QED
  BY <1>1, <1>2, <1>3, <1>6 DEF MQueueInv, Slot, ReceiversWait

\* What a message stored in the next slot does to the ring.
LEMMA StoreKeepsRing ==
    ASSUME KernelInv, MQueueInv, NEW m \in Message, Store(m)
    PROVE  /\ used' = used + 1 /\ used' \in 0 .. Capacity
           /\ write' \in 0 .. Capacity - 1
           /\ write' = Slot(read', used' + 1)
           /\ ring' \in [0 .. Capacity - 1 -> Message \cup {NoMessage}]
           /\ UNCHANGED <<read, received, refused>>
<1>1. Capacity \in Nat \ {0}
  BY MQueueAssumption
<1>2. /\ used \in 0 .. Capacity /\ read \in 0 .. Capacity - 1 /\ write \in 0 .. Capacity - 1
      /\ ring \in [0 .. Capacity - 1 -> Message \cup {NoMessage}]
      /\ write = Slot(read, used + 1)
  BY DEF MQueueInv, Counted, MQueueTypeOK
<1>3. /\ used + 1 <= Capacity /\ used' = used + 1 /\ ring' = [ring EXCEPT ![write] = m]
      /\ write' = Advance(write) /\ UNCHANGED <<read, received, refused>>
  BY DEF Store
<1>4. ring' \in [0 .. Capacity - 1 -> Message \cup {NoMessage}]
  BY <1>2, <1>3
<1>5. write' = Slot(read, used + 2) /\ write' \in 0 .. Capacity - 1
  BY <1>1, <1>2, <1>3 DEF Advance, Slot
<1>6. used + 2 = used' + 1
  BY <1>2, <1>3
<1>. QED
  BY <1>2, <1>3, <1>4, <1>5, <1>6

LEMMA InterruptSendKeepsQueue ==
    ASSUME KernelInv, MQueueInv, [KernelNext]_kernelVars, NEW m \in Message, InterruptSend(m)
    PROVE  MQueueInv'
<1>1. UNCHANGED queuePc
  BY DEF InterruptSend
<1>2. CASE Discard(m) /\ UNCHANGED kernelVars
  <2>1. UNCHANGED <<used, read, write, ring, received>> /\ refused' = m
    BY <1>2 DEF Discard
  <2>2. UNCHANGED <<semCount, semaphorePending, returnCode, threadSwapEnabled>>
    BY <1>2 DEF kernelVars
  <2>3. Claimants' = Claimants /\ Storing' = Storing
    BY <1>1, <2>2 DEF Claimants, Entitled, Storing
  <2>4. MQueueTypeOK'
    BY <1>1, <2>1 DEF MQueueInv, Counted, MQueueTypeOK
  <2>5. Counted'
    BY <2>1, <2>2, <2>3, <2>4 DEF MQueueInv, Counted
  <2>. QED
    BY <1>1, <2>1, <2>2, <2>5 DEF MQueueInv, Slot, ReceiversWait
<1>3. CASE Store(m) /\ SemaphorePost(QueueSemaphore)
  <2>1. /\ used' = used + 1 /\ used' \in 0 .. Capacity
        /\ write' \in 0 .. Capacity - 1
        /\ write' = Slot(read', used' + 1)
        /\ ring' \in [0 .. Capacity - 1 -> Message \cup {NoMessage}]
        /\ UNCHANGED <<read, received, refused>>
    BY <1>3, StoreKeepsRing
  <2>2. /\ ReceiversWait'
        /\ IsFiniteSet(Claimants')
        /\ Available(semCount'[QueueSemaphore]) + Cardinality(Claimants')
             = Available(semCount[QueueSemaphore]) + Cardinality(Claimants) + 1
    BY <1>1, <1>3, PostEntitles
  <2>3. Storing' = Storing
    BY <1>1 DEF Storing
  <2>4. MQueueTypeOK'
    BY <1>1, <2>1 DEF MQueueInv, Counted, MQueueTypeOK
  <2>5. used' = Available(semCount'[QueueSemaphore]) + Cardinality(Claimants') + Cardinality(Storing')
    <3>1. used = Available(semCount[QueueSemaphore]) + Cardinality(Claimants) + Cardinality(Storing)
      BY DEF MQueueInv, Counted
    <3>2. /\ Cardinality(Claimants) \in Int /\ Cardinality(Storing) \in Int
          /\ Cardinality(Claimants') \in Int
      BY <2>2, FS_CardinalityType DEF MQueueInv, Counted
    <3>3. semCount[QueueSemaphore] \in Int /\ semCount'[QueueSemaphore] = semCount[QueueSemaphore] + 1
      BY <1>3, QueueFacts, PostEffect
    <3>4. Available(semCount[QueueSemaphore]) \in Int /\ Available(semCount'[QueueSemaphore]) \in Int
      BY <3>3 DEF Available
    <3>. QED
      BY <2>1, <2>2, <2>3, <3>1, <3>2, <3>4, SMTT(60)
  <2>6. Counted'
    BY <2>2, <2>3, <2>4, <2>5 DEF MQueueInv, Counted
  <2>7. ~threadSwapEnabled' => \A t \in Thread : queuePc'[t] = "user"
    BY <1>1, SwapStaysEnabled DEF MQueueInv
  <2>. QED
    BY <2>1, <2>2, <2>6, <2>7 DEF MQueueInv, Slot
<1>. QED
  BY <1>2, <1>3 DEF InterruptSend

\* A thread that makes a call has the CPU, so threads are being switched.
LEMMA CallerFacts ==
    ASSUME KernelInv, MQueueInv, NEW self \in Client, NEW from, NEW to, QueueGoto(self, from, to)
    PROVE  /\ self \in Thread /\ queuePc[self] = from /\ threadSwapEnabled
           /\ semaphorePending[self] = NoSemaphore
           /\ \A t \in Thread : queuePc'[t] = IF t = self THEN to ELSE queuePc[t]
<1>1. self \in Thread /\ threadCurrent = self /\ self # NoThread /\ semaphorePending[self] = NoSemaphore
  BY RunningWaitsNowhere DEF QueueGoto
<1>. QED
  BY <1>1, QueueFacts DEF QueueGoto, KernelInv

\* A call that leaves the kernel alone: only the caller can become entitled, or no
\* longer be, or be about to post.
LEMMA LocalKeepsQueue ==
    ASSUME KernelInv, MQueueInv, NEW self \in Client, NEW from, NEW to \in {"user", "post", "woken", "copy"},
           QueueGoto(self, from, to),
           UNCHANGED kernelVars,
           MQueueTypeOK', write' = Slot(read', used' + 1),
           used' + (IF Entitled(self) THEN 1 ELSE 0) + (IF from = "post" THEN 1 ELSE 0)
             = used + (IF Entitled(self)' THEN 1 ELSE 0) + (IF to = "post" THEN 1 ELSE 0)
    PROVE  MQueueInv'
<1>1. /\ self \in Thread /\ queuePc[self] = from /\ threadSwapEnabled
      /\ semaphorePending[self] = NoSemaphore
      /\ \A t \in Thread : queuePc'[t] = IF t = self THEN to ELSE queuePc[t]
  BY CallerFacts
<1>2. UNCHANGED <<semCount, semaphorePending, returnCode, threadSwapEnabled>>
  BY DEF kernelVars
<1>3. \A t \in Thread : t # self => (Entitled(t)' <=> Entitled(t))
  BY <1>1, <1>2 DEF Entitled
<1>4. /\ IsFiniteSet(Claimants) /\ IsFiniteSet(Storing)
      /\ Cardinality(Claimants) \in Nat /\ Cardinality(Storing) \in Nat
  BY FS_CardinalityType DEF MQueueInv, Counted
<1>5. /\ IsFiniteSet(Claimants') /\ Cardinality(Claimants') \in Nat
      /\ Cardinality(Claimants') + (IF Entitled(self) THEN 1 ELSE 0)
           = Cardinality(Claimants) + (IF Entitled(self)' THEN 1 ELSE 0)
  <2>1. CASE Entitled(self) /\ ~Entitled(self)'
    <3>1. Claimants' = Claimants \ {self} /\ self \in Claimants
      BY <1>1, <1>3, <2>1 DEF Claimants
    <3>2. IsFiniteSet(Claimants') /\ Cardinality(Claimants') = Cardinality(Claimants) - 1
      BY <1>4, <3>1, FS_RemoveElement
    <3>. QED
      BY <1>4, <2>1, <3>2, FS_CardinalityType
  <2>2. CASE ~Entitled(self) /\ Entitled(self)'
    <3>1. Claimants' = Claimants \cup {self} /\ self \notin Claimants
      BY <1>1, <1>3, <2>2 DEF Claimants
    <3>2. IsFiniteSet(Claimants') /\ Cardinality(Claimants') = Cardinality(Claimants) + 1
      BY <1>4, <3>1, FS_AddElement
    <3>. QED
      BY <1>4, <2>2, <3>2
  <2>3. CASE Entitled(self) <=> Entitled(self)'
    <3>1. Claimants' = Claimants
      BY <1>3, <2>3 DEF Claimants
    <3>. QED
      BY <1>4, <2>3, <3>1
  <2>. QED
    BY <2>1, <2>2, <2>3
<1>6. /\ IsFiniteSet(Storing') /\ Cardinality(Storing') \in Nat
      /\ Cardinality(Storing') + (IF from = "post" THEN 1 ELSE 0)
           = Cardinality(Storing) + (IF to = "post" THEN 1 ELSE 0)
  <2>1. CASE from = "post" /\ to # "post"
    <3>1. Storing' = Storing \ {self} /\ self \in Storing
      BY <1>1, <2>1 DEF Storing
    <3>2. IsFiniteSet(Storing') /\ Cardinality(Storing') = Cardinality(Storing) - 1
      BY <1>4, <3>1, FS_RemoveElement
    <3>. QED
      BY <1>4, <2>1, <3>2, FS_CardinalityType
  <2>2. CASE from # "post" /\ to = "post"
    <3>1. Storing' = Storing \cup {self} /\ self \notin Storing
      BY <1>1, <2>2 DEF Storing
    <3>2. IsFiniteSet(Storing') /\ Cardinality(Storing') = Cardinality(Storing) + 1
      BY <1>4, <3>1, FS_AddElement
    <3>. QED
      BY <1>4, <2>2, <3>2
  <2>3. CASE from = "post" <=> to = "post"
    <3>1. Storing' = Storing
      BY <1>1, <2>3 DEF Storing
    <3>. QED
      BY <1>4, <2>3, <3>1
  <2>. QED
    BY <2>1, <2>2, <2>3
<1>7. semCount[QueueSemaphore] \in Int /\ semCount'[QueueSemaphore] = semCount[QueueSemaphore]
  BY <1>2, QueueFacts
<1>8. Available(semCount[QueueSemaphore]) \in Int
      /\ Available(semCount'[QueueSemaphore]) = Available(semCount[QueueSemaphore])
  BY <1>7 DEF Available
<1>9. used \in Int /\ used' \in Int
      /\ used = Available(semCount[QueueSemaphore]) + Cardinality(Claimants) + Cardinality(Storing)
  BY DEF MQueueInv, Counted, MQueueTypeOK
<1>10. used' = Available(semCount'[QueueSemaphore]) + Cardinality(Claimants') + Cardinality(Storing')
  BY <1>4, <1>5, <1>6, <1>8, <1>9
<1>11. ReceiversWait'
  BY <1>1, <1>2 DEF MQueueInv, ReceiversWait
<1>. QED
  BY <1>1, <1>2, <1>5, <1>6, <1>10, <1>11 DEF MQueueInv, Counted, Slot

LEMMA SendKeepsQueue ==
    ASSUME KernelInv, MQueueInv, NEW self \in Client, NEW m \in Message,
           SendDiscard(self, m) \/ SendStore(self, m)
    PROVE  MQueueInv'
<1>1. CASE SendDiscard(self, m)
  <2>1. QueueGoto(self, "user", "user") /\ Discard(m) /\ UNCHANGED kernelVars
    BY <1>1 DEF SendDiscard
  <2>2. UNCHANGED <<used, read, write, ring, received>> /\ refused' = m
    BY <2>1 DEF Discard
  <2>3. queuePc[self] = "user" /\ queuePc'[self] = "user" /\ self \in Thread
        /\ \A t \in Thread : queuePc'[t] = queuePc[t]
    BY <2>1, CallerFacts
  <2>4. MQueueTypeOK' /\ used \in Int
    BY <2>1, <2>2, <2>3 DEF MQueueInv, Counted, MQueueTypeOK, QueueGoto
  <2>5. ~Entitled(self) /\ ~Entitled(self)'
    BY <2>3 DEF Entitled
  <2>6. write' = Slot(read', used' + 1)
    BY <2>2 DEF MQueueInv, Slot
  <2>. QED
    BY <2>1, <2>2, <2>4, <2>5, <2>6, LocalKeepsQueue
<1>2. CASE SendStore(self, m)
  <2>1. QueueGoto(self, "user", "post") /\ Store(m) /\ UNCHANGED kernelVars
    BY <1>2 DEF SendStore
  <2>2. /\ used' = used + 1 /\ used' \in 0 .. Capacity
        /\ write' \in 0 .. Capacity - 1
        /\ write' = Slot(read', used' + 1)
        /\ ring' \in [0 .. Capacity - 1 -> Message \cup {NoMessage}]
        /\ UNCHANGED <<read, received, refused>>
    BY <2>1, StoreKeepsRing
  <2>3. queuePc[self] = "user" /\ queuePc'[self] = "post" /\ self \in Thread
    BY <2>1, CallerFacts
  <2>4. MQueueTypeOK' /\ used \in Int
    BY <2>1, <2>2, <2>3 DEF MQueueInv, Counted, MQueueTypeOK, QueueGoto
  <2>5. ~Entitled(self) /\ ~Entitled(self)'
    BY <2>3 DEF Entitled
  <2>6. used' + (IF Entitled(self) THEN 1 ELSE 0) + (IF "user" = "post" THEN 1 ELSE 0)
          = used + (IF Entitled(self)' THEN 1 ELSE 0) + (IF "post" = "post" THEN 1 ELSE 0)
    BY <2>2, <2>4, <2>5
  <2>. QED
    BY <2>1, <2>2, <2>4, <2>6, LocalKeepsQueue
<1>. QED
  BY <1>1, <1>2

LEMMA SendPostKeepsQueue ==
    ASSUME KernelInv, MQueueInv, [KernelNext]_kernelVars, NEW self \in Client, SendPost(self)
    PROVE  MQueueInv'
<1>1. QueueGoto(self, "post", "user") /\ SemaphorePost(QueueSemaphore) /\ UNCHANGED queueVars
  BY DEF SendPost
<1>2. /\ self \in Thread /\ queuePc[self] = "post" /\ threadSwapEnabled
      /\ \A t \in Thread : queuePc'[t] = IF t = self THEN "user" ELSE queuePc[t]
  BY <1>1, CallerFacts
<1>3. UNCHANGED <<used, read, write, ring, received, refused>>
  BY <1>1 DEF queueVars
<1>4. /\ ReceiversWait'
      /\ IsFiniteSet(Claimants')
      /\ Available(semCount'[QueueSemaphore]) + Cardinality(Claimants')
           = Available(semCount[QueueSemaphore]) + Cardinality(Claimants) + 1
  BY <1>1, <1>2, PostEntitles
<1>5. Storing' = Storing \ {self} /\ self \in Storing
  BY <1>2 DEF Storing
<1>6. IsFiniteSet(Storing') /\ Cardinality(Storing') = Cardinality(Storing) - 1
  BY <1>5, FS_RemoveElement DEF MQueueInv, Counted
<1>7. MQueueTypeOK'
  BY <1>1, <1>2, <1>3 DEF MQueueInv, Counted, MQueueTypeOK, QueueGoto
<1>8. used' = Available(semCount'[QueueSemaphore]) + Cardinality(Claimants') + Cardinality(Storing')
  <2>1. used = Available(semCount[QueueSemaphore]) + Cardinality(Claimants) + Cardinality(Storing)
    BY DEF MQueueInv, Counted
  <2>2. /\ Cardinality(Claimants) \in Int /\ Cardinality(Storing) \in Int
        /\ Cardinality(Claimants') \in Int
    BY <1>4, FS_CardinalityType DEF MQueueInv, Counted
  <2>3. semCount[QueueSemaphore] \in Int /\ semCount'[QueueSemaphore] = semCount[QueueSemaphore] + 1
    BY <1>1, QueueFacts, PostEffect
  <2>4. Available(semCount[QueueSemaphore]) \in Int /\ Available(semCount'[QueueSemaphore]) \in Int
    BY <2>3 DEF Available
  <2>. QED
    BY <1>3, <1>4, <1>6, <2>1, <2>2, <2>4
<1>9. threadSwapEnabled'
  BY <1>2, SwapStaysEnabled
<1>. QED
  BY <1>3, <1>4, <1>6, <1>7, <1>8, <1>9 DEF MQueueInv, Counted, Slot

LEMMA GetNowKeepsQueue ==
    ASSUME KernelInv, MQueueInv, NEW self \in Client, GetNow(self)
    PROVE  MQueueInv'
<1>. DEFINE Q == QueueSemaphore
<1>1. QueueGoto(self, "user", "copy") /\ PendAcquire(Q) /\ UNCHANGED queueVars
  BY DEF GetNow
<1>2. /\ self \in Thread /\ queuePc[self] = "user" /\ threadSwapEnabled
      /\ \A t \in Thread : queuePc'[t] = IF t = self THEN "copy" ELSE queuePc[t]
  BY <1>1, CallerFacts
<1>3. UNCHANGED <<used, read, write, ring, received, refused, semaphorePending, returnCode, threadSwapEnabled>>
  BY <1>1 DEF queueVars, PendAcquire, waitVars
<1>4. semCount[Q] \in Int /\ semCount[Q] > 0 /\ semCount'[Q] = semCount[Q] - 1
  BY <1>1, QueueFacts DEF PendAcquire
<1>5. Claimants' = Claimants \cup {self} /\ self \notin Claimants /\ Storing' = Storing
  BY <1>2, <1>3 DEF Claimants, Entitled, Storing
<1>6. /\ IsFiniteSet(Claimants') /\ Cardinality(Claimants') = Cardinality(Claimants) + 1
      /\ Cardinality(Claimants) \in Nat /\ Cardinality(Storing) \in Nat
  BY <1>5, FS_AddElement, FS_CardinalityType DEF MQueueInv, Counted
<1>7. used' = Available(semCount'[Q]) + Cardinality(Claimants') + Cardinality(Storing')
  BY <1>3, <1>4, <1>5, <1>6 DEF MQueueInv, Counted, Available
<1>8. MQueueTypeOK'
  BY <1>1, <1>2, <1>3 DEF MQueueInv, Counted, MQueueTypeOK, QueueGoto
<1>9. Counted'
  BY <1>5, <1>6, <1>7, <1>8 DEF MQueueInv, Counted
<1>10. ReceiversWait'
  BY <1>2, <1>3 DEF MQueueInv, ReceiversWait
<1>. QED
  BY <1>2, <1>3, <1>9, <1>10 DEF MQueueInv, Slot

LEMMA GetWaitKeepsQueue ==
    ASSUME KernelInv, MQueueInv, [KernelNext]_kernelVars, NEW self \in Client,
           NEW ticks, GetWait(self, ticks)
    PROVE  MQueueInv'
<1>. DEFINE Q == QueueSemaphore
<1>1. QueueGoto(self, "user", "woken") /\ PendWait(self, Q, ticks) /\ UNCHANGED queueVars
  BY DEF GetWait
<1>2. /\ self \in Thread /\ queuePc[self] = "user" /\ threadSwapEnabled
      /\ \A t \in Thread : queuePc'[t] = IF t = self THEN "woken" ELSE queuePc[t]
  BY <1>1, CallerFacts
<1>3. UNCHANGED <<used, read, write, ring, received, refused, returnCode>>
  BY <1>1 DEF queueVars, PendWait
<1>4. semCount[Q] \in Int /\ semCount[Q] <= 0 /\ semCount'[Q] = semCount[Q] - 1
  BY <1>1, QueueFacts DEF PendWait
<1>5. semaphorePending' = [semaphorePending EXCEPT ![self] = Q]
  BY <1>1 DEF PendWait
<1>6. \A t \in Thread : semaphorePending'[t] = IF t = self THEN Q ELSE semaphorePending[t]
  BY <1>5, QueueFacts
<1>7. \A t \in Thread : Entitled(t)' <=> Entitled(t)
  BY <1>2, <1>3, <1>6, QueueFacts DEF Entitled
<1>8. Claimants' = Claimants /\ Storing' = Storing
  BY <1>2, <1>7 DEF Claimants, Storing
<1>9. MQueueTypeOK'
  BY <1>1, <1>2, <1>3 DEF MQueueInv, Counted, MQueueTypeOK, QueueGoto
<1>10. Available(semCount'[Q]) = Available(semCount[Q])
  BY <1>4 DEF Available
<1>11. Counted'
  BY <1>3, <1>8, <1>9, <1>10 DEF MQueueInv, Counted
<1>12. ReceiversWait'
  BY <1>2, <1>6 DEF MQueueInv, ReceiversWait
<1>13. threadSwapEnabled'
  BY <1>2, SwapStaysEnabled
<1>. QED
  BY <1>3, <1>11, <1>12, <1>13 DEF MQueueInv, Slot

LEMMA GetEndsKeepsQueue ==
    ASSUME KernelInv, MQueueInv, NEW self \in Client, GetNothing(self) \/ GetWoken(self)
    PROVE  MQueueInv'
<1>1. PICK from \in {"user", "woken"}, to \in {"user", "copy"} :
        /\ QueueGoto(self, from, to) /\ UNCHANGED <<queueVars, kernelVars>>
        /\ from = "user" => to = "user"
        /\ from = "woken" => (to = "copy" <=> returnCode[self] = 0)
  BY DEF GetNothing, GetWoken, PendNoWait
<1>2. UNCHANGED <<used, read, write, ring, received, refused, semaphorePending, returnCode>>
  BY <1>1 DEF queueVars, kernelVars
<1>3. /\ self \in Thread /\ queuePc[self] = from /\ queuePc'[self] = to
      /\ semaphorePending[self] = NoSemaphore
  BY <1>1, CallerFacts
<1>4. Entitled(self) <=> Entitled(self)'
  BY <1>1, <1>2, <1>3 DEF Entitled
<1>5. MQueueTypeOK' /\ used \in Int
  BY <1>1, <1>2, <1>3 DEF MQueueInv, Counted, MQueueTypeOK, QueueGoto
<1>6. write' = Slot(read', used' + 1)
  BY <1>2 DEF MQueueInv, Slot
<1>7. used' + (IF Entitled(self) THEN 1 ELSE 0) + (IF from = "post" THEN 1 ELSE 0)
        = used + (IF Entitled(self)' THEN 1 ELSE 0) + (IF to = "post" THEN 1 ELSE 0)
  BY <1>1, <1>2, <1>4, <1>5
<1>8. to \in {"user", "post", "woken", "copy"} /\ UNCHANGED kernelVars
  BY <1>1
<1>. QED
  BY <1>1, <1>5, <1>6, <1>7, <1>8, LocalKeepsQueue

\* Who copies a message is entitled to one: the ring is not empty.
LEMMA CopyHasMessage ==
    ASSUME KernelInv, MQueueInv, NEW self \in Client, GetCopy(self)
    PROVE  used \in 1 .. Capacity
<1>1. self \in Thread /\ queuePc[self] = "copy"
  BY CallerFacts DEF GetCopy
<1>2. self \in Claimants
  BY <1>1 DEF Claimants, Entitled
<1>3. /\ IsFiniteSet(Claimants) /\ Cardinality(Claimants) \in Nat /\ Cardinality(Storing) \in Nat
      /\ Cardinality(Claimants) # 0
  BY <1>2, FS_CardinalityType, FS_EmptySet DEF MQueueInv, Counted
<1>4. semCount[QueueSemaphore] \in Int
  BY QueueFacts
<1>5. Available(semCount[QueueSemaphore]) \in Nat
  BY <1>4 DEF Available
<1>. QED
  BY <1>3, <1>5 DEF MQueueInv, Counted, MQueueTypeOK

LEMMA GetCopyKeepsQueue ==
    ASSUME KernelInv, MQueueInv, NEW self \in Client, GetCopy(self)
    PROVE  MQueueInv'
<1>1. QueueGoto(self, "copy", "user") /\ Copy /\ UNCHANGED kernelVars
  BY DEF GetCopy
<1>2. /\ used' = used - 1 /\ received' = ring[read] /\ read' = Advance(read)
      /\ UNCHANGED <<write, ring, refused>>
  BY <1>1 DEF Copy
<1>3. self \in Thread /\ queuePc[self] = "copy" /\ queuePc'[self] = "user"
  BY <1>1, CallerFacts
<1>4. Capacity \in Nat \ {0} /\ used \in 1 .. Capacity
  BY CopyHasMessage, MQueueAssumption
<1>5. /\ read \in 0 .. Capacity - 1 /\ write \in 0 .. Capacity - 1 /\ write = Slot(read, used + 1)
      /\ ring \in [0 .. Capacity - 1 -> Message \cup {NoMessage}]
      /\ queuePc \in [Thread -> {"user", "post", "woken", "copy"}]
      /\ refused \in Message \cup {NoMessage}
  BY DEF MQueueInv, Counted, MQueueTypeOK
<1>6. read' \in 0 .. Capacity - 1 /\ write' = Slot(read', used' + 1)
  BY <1>2, <1>4, <1>5 DEF Advance, Slot
<1>7. MQueueTypeOK'
  <2>1. used' \in 0 .. Capacity
    BY <1>2, <1>4
  <2>2. received' \in Message \cup {NoMessage} /\ UNCHANGED <<write, ring, refused>>
    BY <1>2, <1>5
  <2>3. queuePc' \in [Thread -> {"user", "post", "woken", "copy"}]
    BY <1>1, <1>5 DEF QueueGoto
  <2>. QED
    BY <1>5, <1>6, <2>1, <2>2, <2>3 DEF MQueueTypeOK
<1>8. Entitled(self) /\ ~Entitled(self)'
  BY <1>3 DEF Entitled
<1>9. used' + (IF Entitled(self) THEN 1 ELSE 0) + (IF "copy" = "post" THEN 1 ELSE 0)
        = used + (IF Entitled(self)' THEN 1 ELSE 0) + (IF "user" = "post" THEN 1 ELSE 0)
  BY <1>2, <1>4, <1>8
<1>. QED
  BY <1>1, <1>6, <1>7, <1>9, LocalKeepsQueue

LEMMA MQueueInvStep == KernelInv /\ MQueueInv /\ [MQueueNext]_mqueueKernelVars => MQueueInv'
<1>. SUFFICES ASSUME KernelInv, MQueueInv, [MQueueNext]_mqueueKernelVars
              PROVE  MQueueInv'
  OBVIOUS
<1>1. [KernelNext]_kernelVars
  BY MQueueStepsAreKernelSteps
<1>2. CASE (Boot \/ Interrupt({})) /\ UNCHANGED mqueueVars
  BY <1>2, BootKeepsQueue, InterruptKeepsQueue
<1>3. CASE \E m \in Message : InterruptSend(m)
  BY <1>1, <1>3, InterruptSendKeepsQueue
<1>4. ASSUME NEW self \in Client, MQueueCall(self)
      PROVE  MQueueInv'
  <2>1. ASSUME NEW ticks, GetWait(self, ticks)
        PROVE  MQueueInv'
    BY <1>1, <2>1, GetWaitKeepsQueue
  <2>2. CASE SendPost(self)
    BY <1>1, <2>2, SendPostKeepsQueue
  <2>3. CASE \E m \in Message : SendDiscard(self, m) \/ SendStore(self, m)
    BY <2>3, SendKeepsQueue
  <2>4. CASE GetNow(self) \/ GetNothing(self) \/ GetWoken(self) \/ GetCopy(self)
    BY <2>4, GetNowKeepsQueue, GetEndsKeepsQueue, GetCopyKeepsQueue
  <2>. QED
    BY <1>4, <2>1, <2>2, <2>3, <2>4 DEF MQueueCall
<1>5. CASE UNCHANGED mqueueKernelVars
  BY <1>5 DEF mqueueKernelVars, kernelVars, mqueueVars, queueVars, MQueueInv, Counted, ReceiversWait, Slot,
              MQueueTypeOK, Claimants, Storing, Entitled, Available
<1>. QED
  BY <1>2, <1>3, <1>4, <1>5 DEF MQueueNext

LEMMA MQueueInvariant == MQueueSpec => [](KernelInv /\ MQueueInv)
<1>1. MQueueInit => MQueueInv
  BY MQueueInitEstablishes
<1>. QED
  BY <1>1, MQueueInvStep, MQueueOnKernel, PTL DEF MQueueSpec

\* The messages in the ring are those the semaphore announces, those a receiver has a
\* claim on and those whose sender has yet to post, at every point of OS_MQueueSend and
\* OS_MQueueGet: nobody copies from an empty ring.
THEOREM MessagesAreCounted == MQueueSpec => []MessagesCounted
<1>1. MQueueInv => MessagesCounted
  BY CountedIsMessagesCounted DEF MQueueInv
<1>. QED
  BY <1>1, MQueueInvariant, PTL

(***************************************************************************)
(* The ring is a bounded queue.                                            *)
(***************************************************************************)

LEMMA ContentsFacts ==
    ASSUME MQueueInv
    PROVE  /\ Contents \in Seq(Message \cup {NoMessage})
           /\ Len(Contents) = used
           /\ \A i \in 1 .. used : Contents[i] = ring[Slot(read, i)] /\ Slot(read, i) \in 0 .. Capacity - 1
<1>1. Capacity \in Nat \ {0}
  BY MQueueAssumption
<1>2. /\ used \in 0 .. Capacity /\ read \in 0 .. Capacity - 1
      /\ ring \in [0 .. Capacity - 1 -> Message \cup {NoMessage}]
  BY DEF MQueueInv, Counted, MQueueTypeOK
<1>3. ASSUME NEW i \in 1 .. used
      PROVE  (read + i - 1) % Capacity = Slot(read, i) /\ Slot(read, i) \in 0 .. Capacity - 1
  <2>1. i - 1 \in 0 .. Capacity - 1
    BY <1>1, <1>2
  <2>2. (read + (i - 1)) % Capacity
          = IF read + (i - 1) < Capacity THEN read + (i - 1) ELSE read + (i - 1) - Capacity
    BY <1>1, <1>2, <2>1, ModSum
  <2>3. read + (i - 1) = read + i - 1
    BY <1>2
  <2>. QED
    BY <1>1, <1>2, <2>1, <2>2, <2>3 DEF Slot
<1>4. \A i \in 1 .. used : Contents[i] = ring[Slot(read, i)] /\ ring[Slot(read, i)] \in Message \cup {NoMessage}
  BY <1>2, <1>3 DEF Contents
<1>5. Contents = [i \in 1 .. used |-> Contents[i]]
  BY DEF Contents
<1>6. used \in Nat
  BY <1>2
<1>. HIDE DEF Contents
<1>7. Contents \in [1 .. used -> Message \cup {NoMessage}]
  BY <1>4, <1>5
<1>8. Contents \in Seq(Message \cup {NoMessage})
  BY <1>6, <1>7, SeqDef
<1>9. Len(Contents) = used
  BY <1>6, <1>7, <1>8
<1>. QED
  BY <1>3, <1>4, <1>8, <1>9

\* The contents of the ring, as a state predicate that can be primed.
ContentsSound ==
    /\ Contents \in Seq(Message \cup {NoMessage})
    /\ Len(Contents) = used
    /\ \A i \in 1 .. used : Contents[i] = ring[Slot(read, i)]

LEMMA ContentsFactsImply == MQueueInv => ContentsSound
<1>1. SUFFICES ASSUME MQueueInv PROVE ContentsSound
  OBVIOUS
<1>. HIDE DEF Contents
<1>2. QED
  BY <1>1, ContentsFacts DEF ContentsSound

LEMMA ContentsFactsNext == MQueueInv' => ContentsSound'
BY ContentsFactsImply, PTL

\* A message that is stored is the last of the queue.
LEMMA StoreAccepts ==
    ASSUME KernelInv, MQueueInv, MQueueInv', NEW m \in Message, Store(m)
    PROVE  Queue!Accept(m)
<1>1. Capacity \in Nat \ {0}
  BY MQueueAssumption
<1>2. /\ used \in 0 .. Capacity /\ read \in 0 .. Capacity - 1 /\ write \in 0 .. Capacity - 1
      /\ ring \in [0 .. Capacity - 1 -> Message \cup {NoMessage}]
      /\ write = Slot(read, used + 1)
  BY DEF MQueueInv, Counted, MQueueTypeOK
<1>3. /\ used + 1 <= Capacity /\ used' = used + 1 /\ ring' = [ring EXCEPT ![write] = m]
      /\ UNCHANGED <<read, received, refused>>
  BY DEF Store
<1>4. /\ Contents \in Seq(Message \cup {NoMessage}) /\ Len(Contents) = used
      /\ \A i \in 1 .. used : Contents[i] = ring[Slot(read, i)] /\ Slot(read, i) \in 0 .. Capacity - 1
  BY ContentsFacts
<1>5. /\ Contents' \in Seq(Message \cup {NoMessage}) /\ Len(Contents') = used'
      /\ \A i \in 1 .. used' : Contents'[i] = ring'[Slot(read', i)]
  BY ContentsFactsNext DEF ContentsSound
<1>6. \A i \in 1 .. used : Slot(read, i) # write
  BY <1>1, <1>2, <1>3 DEF Slot
<1>7. \A i \in 1 .. used : Contents'[i] = Contents[i]
  <2>1. \A i \in 1 .. used : i \in 1 .. used' /\ Contents'[i] = ring'[Slot(read, i)]
    BY <1>2, <1>3, <1>5
  <2>. QED
    BY <1>2, <1>3, <1>4, <1>6, <2>1
<1>8. Contents'[used + 1] = m
  <2>1. used + 1 \in 1 .. used'
    BY <1>2, <1>3
  <2>2. Contents'[used + 1] = ring'[Slot(read, used + 1)]
    BY <1>3, <1>5, <2>1
  <2>. QED
    BY <1>2, <1>3, <2>2
<1>9. Contents' = Append(Contents, m)
  <2>. DEFINE longer == Append(Contents, m)
  <2>1. /\ longer \in Seq(Message \cup {NoMessage}) /\ Len(longer) = used + 1
        /\ \A i \in 1 .. used : longer[i] = Contents[i]
        /\ longer[used + 1] = m
    BY <1>4
  <2>2. PICK now \in Seq(Message \cup {NoMessage}) : now = Contents'
    BY <1>5
  <2>. HIDE DEF longer
  <2>3. Len(now) = used + 1 /\ \A i \in 1 .. used : now[i] = longer[i]
    BY <1>3, <1>5, <1>7, <2>1, <2>2
  <2>4. now[used + 1] = longer[used + 1]
    BY <1>8, <2>1, <2>2
  <2>5. \A i \in 1 .. Len(now) : now[i] = longer[i]
    <3>1. \A i \in 1 .. Len(now) : i \in 1 .. used \/ i = used + 1
      BY <1>2, <2>3
    <3>. QED
      BY <2>3, <2>4, <3>1
  <2>6. now = longer
    BY <2>1, <2>3, <2>5, SeqEqual
  <2>. QED
    BY <2>2, <2>6 DEF longer
<1>10. Len(Contents) < Capacity
  BY <1>1, <1>2, <1>3, <1>4
<1>. QED
  BY <1>3, <1>9, <1>10 DEF Queue!Accept

LEMMA DiscardRefuses ==
    ASSUME MQueueInv, NEW m \in Message, Discard(m)
    PROVE  Queue!Refuse(m)
<1>1. used \in 0 .. Capacity /\ Capacity \in Nat \ {0}
  BY MQueueAssumption DEF MQueueInv, Counted, MQueueTypeOK
<1>2. used + 1 > Capacity /\ refused' = m /\ UNCHANGED <<used, read, ring, received>>
  BY DEF Discard
<1>3. Len(Contents) = used /\ UNCHANGED Contents
  BY <1>2, ContentsFacts DEF Contents
<1>4. Len(Contents) = Capacity
  BY <1>1, <1>2, <1>3
<1>. QED
  BY <1>2, <1>3, <1>4 DEF Queue!Refuse

\* A message that is copied is the first of the queue.
LEMMA CopyReceives ==
    ASSUME KernelInv, MQueueInv, MQueueInv', NEW self \in Client, GetCopy(self)
    PROVE  Queue!Receive
<1>1. Capacity \in Nat \ {0} /\ used \in 1 .. Capacity
  BY CopyHasMessage, MQueueAssumption
<1>2. read \in 0 .. Capacity - 1
  BY DEF MQueueInv, Counted, MQueueTypeOK
<1>3. used' = used - 1 /\ received' = ring[read] /\ read' = Advance(read) /\ UNCHANGED <<ring, refused>>
  BY DEF GetCopy, Copy
<1>4. /\ Contents \in Seq(Message \cup {NoMessage}) /\ Len(Contents) = used
      /\ \A i \in 1 .. used : Contents[i] = ring[Slot(read, i)]
  BY ContentsFacts
<1>5. /\ Contents' \in Seq(Message \cup {NoMessage}) /\ Len(Contents') = used'
      /\ \A i \in 1 .. used' : Contents'[i] = ring'[Slot(read', i)]
  BY ContentsFactsNext DEF ContentsSound
<1>6. \A i \in 1 .. used - 1 : Slot(read', i) = Slot(read, i + 1)
  BY <1>1, <1>2, <1>3 DEF Slot, Advance
<1>7. Contents # <<>> /\ received' = Head(Contents)
  <2>1. Slot(read, 1) = read
    BY <1>1, <1>2 DEF Slot
  <2>2. 1 \in 1 .. used
    BY <1>1
  <2>3. Contents[1] = ring[read]
    BY <1>4, <2>1, <2>2
  <2>4. Contents # <<>> /\ Head(Contents) = Contents[1]
    BY <1>1, <1>4
  <2>. QED
    BY <1>3, <2>3, <2>4
<1>8. Contents' = Tail(Contents)
  <2>. DEFINE rest == Tail(Contents)
  <2>1. /\ rest \in Seq(Message \cup {NoMessage}) /\ Len(rest) = used - 1
        /\ \A i \in 1 .. used - 1 : rest[i] = Contents[i + 1]
    BY <1>1, <1>4, <1>7
  <2>2. PICK now \in Seq(Message \cup {NoMessage}) : now = Contents'
    BY <1>5
  <2>. HIDE DEF rest
  <2>3. Len(now) = used - 1
    BY <1>3, <1>5, <2>2
  <2>4. ASSUME NEW i \in 1 .. used - 1
        PROVE  now[i] = rest[i]
    <3>1. now[i] = ring[Slot(read, i + 1)]
      BY <1>3, <1>5, <1>6, <2>2
    <3>2. i + 1 \in 1 .. used
      BY <1>1
    <3>3. Contents[i + 1] = ring[Slot(read, i + 1)]
      BY <1>4, <3>2
    <3>. QED
      BY <2>1, <3>1, <3>3
  <2>5. now = rest
    BY <2>1, <2>3, <2>4, SeqEqual
  <2>. QED
    BY <2>2, <2>5 DEF rest
<1>. QED
  BY <1>3, <1>7, <1>8 DEF Queue!Receive

LEMMA MQueueStepImplements ==
    ASSUME KernelInv, MQueueInv, MQueueInv', [MQueueNext]_mqueueKernelVars
    PROVE  [Queue!Next]_(Queue!vars)
<1>1. ASSUME UNCHANGED queueVars
      PROVE  UNCHANGED Queue!vars
  BY <1>1 DEF queueVars, Queue!vars, Contents
<1>2. ASSUME NEW m \in Message, Store(m) \/ Discard(m)
      PROVE  Queue!Next
  BY <1>2, StoreAccepts, DiscardRefuses DEF Queue!Next
<1>3. ASSUME NEW self \in Client, GetCopy(self)
      PROVE  Queue!Next
  BY <1>3, CopyReceives DEF Queue!Next
<1>4. ASSUME NEW self \in Client, MQueueCall(self)
      PROVE  Queue!Next \/ UNCHANGED queueVars
  BY <1>2, <1>3, <1>4
     DEF MQueueCall, SendDiscard, SendStore, SendPost, GetNow, GetNothing, GetWait, GetWoken
<1>5. ASSUME NEW m \in Message, InterruptSend(m)
      PROVE  Queue!Next
  BY <1>2, <1>5 DEF InterruptSend
<1>. QED
  BY <1>1, <1>4, <1>5 DEF MQueueNext, mqueueVars, mqueueKernelVars

\* The ring, its two indices and its count implement a bounded queue, whoever sends and
\* receives, from threads and from handlers: no message is lost, repeated or overtaken.
THEOREM MQueueImplements == MQueueSpec => QueueImplemented
<1>1. MQueueInit => Queue!Init
  <2>. SUFFICES ASSUME MQueueInit
                PROVE  Queue!Init
    OBVIOUS
  <2>1. used = 0 /\ received = NoMessage /\ refused = NoMessage
    BY DEF MQueueInit
  <2>2. Contents \in Seq(Message \cup {NoMessage}) /\ Len(Contents) = 0
    BY <2>1, MQueueInitEstablishes, ContentsFacts
  <2>3. Contents = <<>>
    BY <2>2
  <2>. QED
    BY <2>1, <2>3 DEF Queue!Init
<1>. QED
  BY <1>1, MQueueStepImplements, MQueueInvariant, PTL DEF MQueueSpec, QueueImplemented, Queue!Spec

-----------------------------------------------------------------------------

(***************************************************************************)
(* Which threads never run again: what a call of the kernel does to them.  *)
(***************************************************************************)

\* A thread that does not exist, or has exited.
Gone(t) == state[t] = "NONE" \/ Exited(t)

\* A step after which the same threads exist, and the same have exited.
SameGone ==
    \A t \in Thread :
        /\ Exited(t)' <=> Exited(t)
        /\ state'[t] = "NONE" <=> state[t] = "NONE"

\* OS_ThreadReschedule takes the CPU from a thread that runs and gives it to one that is
\* ready.
LEMMA RescheduleBlocks ==
    ASSUME NEW roundRobin, NEW ready \in Seq(Thread), NEW st \in [Thread -> ThreadState],
           Range(ready) = {t \in Thread : st[t] = "READY"},
           Reschedule(roundRobin, ready, st)
    PROVE  \A t \in Thread :
              /\ state'[t] = "PEND" <=> st[t] = "PEND"
              /\ state'[t] = "NONE" <=> st[t] = "NONE"
<1>1. CASE state' = st
  BY <1>1
<1>2. CASE ready # <<>> /\ SwapTo(Head(ready), ready, st)
  <2>. DEFINE next == Head(ready)
              preempted == threadCurrent # NoThread /\ st[threadCurrent] = "RUNNING"
              left == IF preempted THEN [st EXCEPT ![threadCurrent] = "READY"] ELSE st
  <2>1. next \in Thread /\ st[next] = "READY"
    <3>1. next = ready[1] /\ 1 \in DOMAIN ready /\ next \in Thread
      BY <1>2
    <3>. QED
      BY <3>1 DEF Range
  <2>2. state' = [left EXCEPT ![next] = "RUNNING"]
    BY <1>2 DEF SwapTo
  <2>3. DOMAIN left = Thread /\ \A t \in Thread :
          left[t] = IF preempted /\ t = threadCurrent THEN "READY" ELSE st[t]
    OBVIOUS
  <2>. HIDE DEF left
  <2>4. \A t \in Thread : state'[t] = IF t = next THEN "RUNNING" ELSE left[t]
    BY <2>2, <2>3
  <2>. QED
    BY <2>1, <2>3, <2>4
<1>. QED
  BY <1>1, <1>2 DEF Reschedule, MustSwap

\* What is ready, in the terms of the lemma above.
LEMMA ReadyList ==
    ASSUME KernelInv
    PROVE  /\ threadHead \in Seq(Thread)
           /\ state \in [Thread -> ThreadState]
           /\ semaphorePending \in [Thread -> Semaphore \cup {NoSemaphore}]
           /\ Range(threadHead) = {t \in Thread : state[t] = "READY"}
  BY DEF KernelInv, TypeOK, OnePlace

LEMMA AloneSameGone ==
    ASSUME KernelInv, NEW roundRobin, Reschedule(roundRobin, threadHead, state),
           UNCHANGED semaphorePending
    PROVE  SameGone
  BY ReadyList, RescheduleBlocks DEF SameGone, Exited

\* A thread that waits has not exited.
LEMMA PendSameGone ==
    ASSUME KernelInv, NEW self \in Client, Running(self), NEW s \in Semaphore, NEW ticks,
           SemaphorePend(self, s, ticks)
    PROVE  SameGone
<1>1. CASE PendAcquire(s) \/ PendNoWait(s, ticks)
  BY <1>1 DEF PendAcquire, PendNoWait, schedVars, waitVars, kernelVars, SameGone, Exited
<1>2. CASE PendWait(self, s, ticks)
  <2>. DEFINE st == [state EXCEPT ![self] = "PEND"]
  <2>1. self \in Thread /\ state[self] = "RUNNING" /\ semaphorePending[self] = NoSemaphore
    BY RunningWaitsNowhere
  <2>2. /\ st \in [Thread -> ThreadState]
        /\ \A t \in Thread : st[t] = IF t = self THEN "PEND" ELSE state[t]
        /\ Range(threadHead) = {t \in Thread : st[t] = "READY"}
    BY <2>1, ReadyList DEF ThreadState
  <2>3. /\ Reschedule(FALSE, threadHead, st)
        /\ \A t \in Thread : semaphorePending'[t] = IF t = self THEN s ELSE semaphorePending[t]
    BY <1>2, ReadyList DEF PendWait
  <2>. HIDE DEF st
  <2>4. \A t \in Thread : /\ state'[t] = "PEND" <=> st[t] = "PEND"
                          /\ state'[t] = "NONE" <=> st[t] = "NONE"
    BY <2>2, <2>3, ReadyList, RescheduleBlocks
  <2>5. s # NoSemaphore
    BY KernelAssumption, Zenon
  <2>. QED
    BY <2>1, <2>2, <2>3, <2>4, <2>5 DEF SameGone, Exited
<1>. QED
  BY <1>1, <1>2 DEF SemaphorePend

\* A thread that is woken had not exited.
LEMMA WakeSameGone ==
    ASSUME KernelInv, NEW thread \in Thread, semaphorePending[thread] # NoSemaphore,
           semaphorePending' = [semaphorePending EXCEPT ![thread] = NoSemaphore],
           \A t \in Thread :
              /\ state'[t] = "PEND" <=> t # thread /\ state[t] = "PEND"
              /\ state'[t] = "NONE" <=> t # thread /\ state[t] = "NONE"
    PROVE  SameGone
<1>1. state[thread] = "PEND"
  BY DEF KernelInv, OnePlace
<1>. QED
  BY <1>1, ReadyList DEF SameGone, Exited

LEMMA PostSameGone ==
    ASSUME KernelInv, NEW s \in Semaphore, SemaphorePost(s)
    PROVE  SameGone
<1>1. CASE PostFree(s)
  BY <1>1 DEF PostFree, schedVars, waitVars, SameGone, Exited
<1>2. CASE PostWake(s)
  <2>. DEFINE thread == Head(semHead[s])
              ready == PriorityInsert(threadHead, thread, priority)
              st == [state EXCEPT ![thread] = "READY"]
  <2>1. thread \in Thread /\ semaphorePending[thread] = s
    BY <1>2, PostWakesWaiter
  <2>2. s # NoSemaphore
    BY KernelAssumption, Zenon
  <2>3. /\ Reschedule(FALSE, ready, st)
        /\ semaphorePending' = [semaphorePending EXCEPT ![thread] = NoSemaphore]
    BY <1>2 DEF PostWake
  <2>. HIDE DEF thread
  <2>4. state[thread] = "PEND" /\ SchedInv
    BY <2>1, <2>2, KernelInvParts DEF WaitInv
  <2>5. /\ ready \in Seq(Thread) /\ st \in [Thread -> ThreadState]
        /\ Range(ready) = {t \in Thread : st[t] = "READY"}
    BY <2>1, <2>4, ReadyInserted
  <2>6. \A t \in Thread : st[t] = IF t = thread THEN "READY" ELSE state[t]
    BY ReadyList
  <2>. HIDE DEF ready, st
  <2>7. \A t \in Thread : /\ state'[t] = "PEND" <=> st[t] = "PEND"
                          /\ state'[t] = "NONE" <=> st[t] = "NONE"
    BY <2>3, <2>5, RescheduleBlocks
  <2>8. \A t \in Thread : /\ state'[t] = "PEND" <=> t # thread /\ state[t] = "PEND"
                          /\ state'[t] = "NONE" <=> t # thread /\ state[t] = "NONE"
    BY <2>6, <2>7
  <2>9. semaphorePending[thread] # NoSemaphore
    BY <2>1, <2>2
  <2>. QED
    BY <2>1, <2>3, <2>8, <2>9, WakeSameGone
<1>. QED
  BY <1>1, <1>2 DEF SemaphorePost

LEMMA ExpireSameGone ==
    ASSUME KernelInv, TickExpire
    PROVE  SameGone
<1>. DEFINE thread == Head(timeoutHead).thread
<1>1. timeoutHead # <<>> /\ timeoutHead \in Seq(Timeout)
  BY DEF TickExpire, TimeoutDue, KernelInv, TypeOK
<1>2. Head(timeoutHead) = timeoutHead[1] /\ 1 \in DOMAIN timeoutHead /\ Head(timeoutHead) \in Timeout
  BY <1>1
<1>3. thread \in Thread /\ thread \in Threads(timeoutHead)
  BY <1>2 DEF Timeout, Threads, Range
<1>4. semaphorePending[thread] # NoSemaphore
  BY <1>3 DEF KernelInv
<1>5. /\ semaphorePending' = [semaphorePending EXCEPT ![thread] = NoSemaphore]
      /\ state' = [state EXCEPT ![thread] = "READY"]
  BY DEF TickExpire
<1>. HIDE DEF thread
<1>6. \A t \in Thread : /\ state'[t] = "PEND" <=> t # thread /\ state[t] = "PEND"
                        /\ state'[t] = "NONE" <=> t # thread /\ state[t] = "NONE"
  BY <1>5, ReadyList
<1>. QED
  BY <1>3, <1>4, <1>5, <1>6, WakeSameGone

\* What an interrupt of the tick or OS_Start does to threads that are gone: nothing.
LEMMA InterruptSameGone ==
    ASSUME KernelInv, Interrupt({})
    PROVE  SameGone
<1>1. CASE InterruptEntry \/ TickCount
  BY <1>1 DEF InterruptEntry, TickCount, schedVars, waitVars, SameGone, Exited
<1>2. CASE TickExpire
  BY <1>2, ExpireSameGone
<1>3. CASE TickDone
  BY <1>3, AloneSameGone DEF TickDone, waitVars
<1>4. CASE InterruptExit
  <2>1. CASE Reschedule(needReschedule = 3, threadHead, state)
    BY <1>4, <2>1, AloneSameGone DEF InterruptExit, waitVars
  <2>2. CASE UNCHANGED schedVars
    BY <1>4, <2>2 DEF InterruptExit, schedVars, waitVars, SameGone, Exited
  <2>. QED
    BY <1>4, <2>1, <2>2 DEF InterruptExit
<1>. QED
  BY <1>1, <1>2, <1>3, <1>4 DEF Interrupt

LEMMA StartSameGone ==
    ASSUME KernelInv, OSStart
    PROVE  SameGone
  BY AloneSameGone DEF OSStart, waitVars

\* A new thread had no memory before, and has not exited.
LEMMA CreateGone ==
    ASSUME KernelInv, NEW thread \in Thread, NEW prio, ThreadCreate(thread, prio)
    PROVE  \A t \in Thread :
              /\ Exited(t)' <=> Exited(t)
              /\ state'[t] = "NONE" <=> t # thread /\ state[t] = "NONE"
<1>. DEFINE ready == PriorityInsert(threadHead, thread, priority')
            st == [state EXCEPT ![thread] = "READY"]
<1>1. /\ state[thread] = "NONE" /\ UNCHANGED semaphorePending
      /\ Reschedule(FALSE, ready, st)
  BY DEF ThreadCreate
<1>2. SchedInv
  BY KernelInvParts
<1>3. /\ ready \in Seq(Thread) /\ st \in [Thread -> ThreadState]
      /\ Range(ready) = {t \in Thread : st[t] = "READY"}
  BY <1>1, <1>2, ReadyInserted
<1>4. \A t \in Thread : st[t] = IF t = thread THEN "READY" ELSE state[t]
  BY ReadyList
<1>. HIDE DEF ready, st
<1>5. \A t \in Thread : /\ state'[t] = "PEND" <=> st[t] = "PEND"
                        /\ state'[t] = "NONE" <=> st[t] = "NONE"
  BY <1>1, <1>3, RescheduleBlocks
<1>. QED
  BY <1>1, <1>4, <1>5 DEF Exited

\* OS_ThreadExit never returns: its thread has exited, and no other.
LEMMA ExitGone ==
    ASSUME KernelInv, NEW self \in Client, Running(self), ThreadExit(self)
    PROVE  \A t \in Thread :
              /\ Exited(t)' <=> t = self \/ Exited(t)
              /\ state'[t] = "NONE" <=> state[t] = "NONE"
<1>. DEFINE st == [state EXCEPT ![self] = "PEND"]
<1>1. self \in Thread /\ state[self] = "RUNNING" /\ semaphorePending[self] = NoSemaphore
  BY RunningWaitsNowhere
<1>2. /\ st \in [Thread -> ThreadState]
      /\ \A t \in Thread : st[t] = IF t = self THEN "PEND" ELSE state[t]
      /\ Range(threadHead) = {t \in Thread : st[t] = "READY"}
  BY <1>1, ReadyList DEF ThreadState
<1>3. Reschedule(FALSE, threadHead, st) /\ UNCHANGED semaphorePending
  BY DEF ThreadExit, waitVars
<1>. HIDE DEF st
<1>4. \A t \in Thread : /\ state'[t] = "PEND" <=> st[t] = "PEND"
                        /\ state'[t] = "NONE" <=> st[t] = "NONE"
  BY <1>2, <1>3, ReadyList, RescheduleBlocks
<1>. QED
  BY <1>1, <1>2, <1>3, <1>4 DEF Exited

LEMMA FreeGone ==
    ASSUME KernelInv, NEW thread \in Thread, Exited(thread), ThreadFree(thread)
    PROVE  \A t \in Thread :
              /\ Exited(t)' <=> t # thread /\ Exited(t)
              /\ state'[t] = "NONE" <=> t = thread \/ state[t] = "NONE"
<1>1. /\ UNCHANGED semaphorePending
      /\ \A t \in Thread : state'[t] = IF t = thread THEN "NONE" ELSE state[t]
  BY ReadyList DEF ThreadFree, waitVars
<1>. QED
  BY <1>1 DEF Exited

(***************************************************************************)
(* The inductive invariant.                                                *)
(***************************************************************************)

\* Where a thread is in OS_ThreadCreate or OS_ThreadExit.
Place == {"user", "begin", "test", "free", "clear", "post", "create", "exit"}

\* A thread that has SemaphoreRelease.
Holds(t) ==
    stage[t] \in {"test", "free", "clear", "post"} /\ semaphorePending[t] # SemaphoreRelease

\* One thread at most has SemaphoreRelease, the count says so, and who waits for it waits
\* for ever.
HoldInv ==
    /\ stage \in [Thread -> Place]
    /\ Timed = {}
    /\ semCount[SemaphoreRelease] <= 1
    /\ \A t \in Thread :
          /\ semaphorePending[t] = SemaphoreRelease => stage[t] = "test"
          /\ Holds(t) => semCount[SemaphoreRelease] <= 0
          /\ \A u \in Thread : Holds(t) /\ Holds(u) => t = u

\* A thread that is gone has left no call unfinished but the beginning of an exit.
GoneInv ==
    \A t \in Thread :
        /\ Gone(t) => stage[t] \in {"user", "begin"}
        /\ stage[t] = "exit" => t \in exiting

\* NeedToFree points to a thread that has exited, except while the thread that has freed it,
\* or has found NULL there, is about to clear it.
FreeInv ==
    /\ \A t \in Thread : stage[t] = "free" => needToFree # NoThread
    /\ needToFree # NoThread =>
          \/ needToFree \in exiting \cap Client /\ Exited(needToFree)
          \/ \E t \in Thread : stage[t] = "clear"

ThreadsInv == HoldInv /\ GoneInv /\ FreeInv

LEMMA ReleaseExists == SemaphoreRelease \in Semaphore /\ SemaphoreRelease # NoSemaphore
BY KernelAssumption, ReleaseAssumption, Zenon

LEMMA ThreadsInitEstablishes == ThreadsInit => ThreadsInv
<1>. SUFFICES ASSUME ThreadsInit
              PROVE  ThreadsInv
  OBVIOUS
<1>1. /\ semCount[SemaphoreRelease] = 1 /\ needToFree = NoThread
      /\ stage = [t \in Thread |-> "user"] /\ timeoutHead = <<>>
      /\ semaphorePending = [t \in Thread |-> NoSemaphore]
  BY ReleaseAssumption DEF ThreadsInit, KernelInit
<1>2. Timed = {}
  BY <1>1 DEF Timed, Threads, Range
<1>. QED
  BY <1>1, <1>2, ReleaseExists DEF ThreadsInv, HoldInv, GoneInv, FreeInv, Holds, Place

\* Who is about to clear or free has SemaphoreRelease, so nobody else is.
LEMMA OneHolder ==
    ASSUME HoldInv, NEW t \in Thread, NEW u \in Thread,
           stage[t] \in {"free", "clear"}, Holds(u)
    PROVE  t = u
<1>1. semaphorePending[t] # SemaphoreRelease
  BY DEF HoldInv
<1>2. Holds(t)
  BY <1>1 DEF Holds
<1>. QED
  BY <1>2 DEF HoldInv

\* What is about to be freed has exited.
LEMMA FreesExited ==
    ASSUME ThreadsInv, NEW self \in Thread, stage[self] = "free"
    PROVE  needToFree \in exiting \cap Client /\ Exited(needToFree)
<1>1. needToFree # NoThread
  BY DEF ThreadsInv, FreeInv
<1>2. ASSUME NEW t \in Thread, stage[t] = "clear"
      PROVE  FALSE
  <2>1. Holds(t)
    BY <1>2 DEF ThreadsInv, HoldInv, Holds
  <2>. QED
    BY <1>2, <2>1, OneHolder DEF ThreadsInv
<1>. QED
  BY <1>1, <1>2 DEF ThreadsInv, FreeInv

\* OS_ThreadCreate and OS_ThreadExit only make steps of the kernel.
LEMMA ThreadsStepsAreKernelSteps == ThreadsInv /\ [ThreadsNext]_threadVars => [KernelNext]_kernelVars
<1>. SUFFICES ASSUME ThreadsInv, [ThreadsNext]_threadVars
              PROVE  [KernelNext]_kernelVars
  OBVIOUS
<1>1. CASE (Boot \/ Interrupt({})) /\ UNCHANGED <<needToFree, stage, exiting>>
  BY <1>1 DEF Interrupt, KernelNext
<1>2. ASSUME NEW self \in Client, ThreadsCall(self)
      PROVE  ThreadCall \/ UNCHANGED kernelVars
  <2>1. CASE ReleaseBegin(self)
    BY <2>1, ReleaseExists DEF ReleaseBegin, Proceed, ThreadCall
  <2>2. CASE ReleaseFree(self)
    <3>1. needToFree \in Client /\ Exited(needToFree)
      BY <2>2, FreesExited DEF ReleaseFree, Proceed, Client
    <3>. QED
      BY <2>2, <3>1 DEF ReleaseFree, Proceed, ThreadCall
  <2>3. CASE ReleasePost(self)
    BY <2>3, ReleaseExists DEF ReleasePost, Proceed, ThreadCall
  <2>4. CASE Create(self)
    BY <2>4 DEF Create, ThreadCall
  <2>5. CASE ExitLast(self)
    BY <2>5 DEF ExitLast, Proceed, ThreadCall
  <2>6. CASE \/ CreateCall(self) \/ ExitCall(self) \/ ReleaseTest(self) \/ ReleaseClear(self)
             \/ CreateFails(self) \/ ExitAgain(self)
    BY <2>6 DEF CreateCall, ExitCall, ReleaseTest, ReleaseClear, CreateFails, ExitAgain
  <2>. QED
    BY <1>2, <2>1, <2>2, <2>3, <2>4, <2>5, <2>6 DEF ThreadsCall
<1>3. CASE UNCHANGED threadVars
  BY <1>3 DEF threadVars
<1>. QED
  BY <1>1, <1>2, <1>3 DEF ThreadsNext, KernelNext

(***************************************************************************)
(* Each action preserves the invariant.                                    *)
(***************************************************************************)

\* A step that waits for nothing, posts nothing, and neither takes nor gives the semaphore.
LEMMA HoldsUnchanged ==
    ASSUME HoldInv, UNCHANGED <<semCount, semaphorePending, Timed>>,
           stage' \in [Thread -> Place],
           \A t \in Thread :
              /\ stage'[t] \in {"test", "free", "clear", "post"} <=>
                    stage[t] \in {"test", "free", "clear", "post"}
              /\ stage[t] = "test" => stage'[t] = "test" \/ semaphorePending[t] # SemaphoreRelease
    PROVE  HoldInv'
  BY DEF HoldInv, Holds

\* A step by a thread that runs, after which the same are gone.
LEMMA GoneUnchanged ==
    ASSUME KernelInv, GoneInv, SameGone, NEW self \in Client, Running(self),
           \A t \in Thread : t # self => stage'[t] = stage[t],
           exiting \subseteq exiting', stage'[self] = "exit" => self \in exiting'
    PROVE  GoneInv'
<1>1. self \in Thread /\ ~Gone(self)
  BY RunningWaitsNowhere DEF Gone, Exited
<1>. QED
  BY <1>1 DEF GoneInv, SameGone, Gone

\* A step that leaves NeedToFree alone, by a thread that is not about to clear it.
LEMMA FreeUnchanged ==
    ASSUME FreeInv, SameGone, UNCHANGED needToFree, exiting \subseteq exiting',
           \A t \in Thread : /\ stage'[t] = "free" => stage[t] = "free"
                             /\ stage[t] = "clear" => stage'[t] = "clear"
    PROVE  FreeInv'
<1>1. CASE needToFree = NoThread
  BY <1>1 DEF FreeInv
<1>2. CASE needToFree \in exiting \cap Client /\ Exited(needToFree)
  <2>1. Exited(needToFree)' \/ needToFree' # needToFree
    BY <1>2 DEF SameGone, Client, Exited
  <2>. QED
    BY <1>2, <2>1 DEF FreeInv
<1>3. CASE \E t \in Thread : stage[t] = "clear"
  BY <1>3 DEF FreeInv
<1>. QED
  BY <1>1, <1>2, <1>3 DEF FreeInv

\* A thread that runs goes from one place to the next.
LEMMA GotoEffect ==
    ASSUME KernelInv, HoldInv, NEW self \in Client, NEW from, NEW to \in Place, Proceed(self, from, to)
    PROVE  /\ self \in Thread /\ Running(self) /\ semaphorePending[self] = NoSemaphore
           /\ stage' \in [Thread -> Place] /\ stage[self] = from /\ stage'[self] = to
           /\ \A t \in Thread : t # self => stage'[t] = stage[t]
  BY RunningWaitsNowhere DEF Proceed, HoldInv

\* The kernel alone: interrupts, and the main program before OS_Start.
LEMMA SystemKeeps ==
    ASSUME KernelInv, ThreadsInv, Boot \/ Interrupt({}), UNCHANGED <<needToFree, stage, exiting>>
    PROVE  ThreadsInv'
<1>1. UNCHANGED <<semCount, semaphorePending, Timed>>
  BY InterruptEffect, BootEffect DEF ThreadsInv, HoldInv
<1>2. HoldInv'
  BY <1>1 DEF ThreadsInv, HoldInv, Holds
<1>3. \A t \in Thread : /\ Exited(t)' <=> Exited(t)
                        /\ state'[t] = "NONE" => state[t] = "NONE"
  BY InterruptSameGone, StartSameGone, CreateGone DEF Boot, SameGone, Client
<1>4. GoneInv'
  BY <1>3 DEF ThreadsInv, GoneInv, Gone
<1>5. FreeInv'
  BY <1>3 DEF ThreadsInv, FreeInv, Client
<1>. QED
  BY <1>2, <1>4, <1>5 DEF ThreadsInv

LEMMA ReleaseBeginKeeps ==
    ASSUME KernelInv, ThreadsInv, NEW self \in Client, ReleaseBegin(self)
    PROVE  ThreadsInv'
<1>1. /\ self \in Thread /\ Running(self) /\ semaphorePending[self] = NoSemaphore
      /\ stage' \in [Thread -> Place] /\ stage[self] = "begin" /\ stage'[self] = "test"
      /\ \A t \in Thread : t # self => stage'[t] = stage[t]
  BY GotoEffect DEF ReleaseBegin, Place, ThreadsInv
<1>2. SemaphorePend(self, SemaphoreRelease, FOREVER) /\ UNCHANGED <<needToFree, exiting>>
  BY DEF ReleaseBegin
<1>3. SameGone
  BY <1>1, <1>2, PendSameGone, ReleaseExists
<1>4. /\ semCount' = [semCount EXCEPT ![SemaphoreRelease] = @ - 1]
      /\ Timed' = {}
      /\ \/ semCount[SemaphoreRelease] > 0 /\ UNCHANGED semaphorePending
         \/ /\ semCount[SemaphoreRelease] <= 0
            /\ semaphorePending' = [semaphorePending EXCEPT ![self] = SemaphoreRelease]
  BY <1>1, <1>2, PendEffect, ReleaseExists DEF ThreadsInv, HoldInv
<1>5. HoldInv'
  <2>1. semCount \in [Semaphore -> Int] /\ semaphorePending \in [Thread -> Semaphore \cup {NoSemaphore}]
    BY DEF KernelInv, TypeOK
  <2>2. semCount'[SemaphoreRelease] = semCount[SemaphoreRelease] - 1
        /\ semCount[SemaphoreRelease] \in Int /\ semCount[SemaphoreRelease] <= 1
    BY <1>4, <2>1, ReleaseExists DEF ThreadsInv, HoldInv
  <2>3. semCount'[SemaphoreRelease] <= 0
    BY <2>2
  <2>4. CASE semCount[SemaphoreRelease] > 0 /\ UNCHANGED semaphorePending
    <3>1. \A t \in Thread : ~Holds(t)
      BY <2>2, <2>4 DEF ThreadsInv, HoldInv
    <3>2. \A t \in Thread : Holds(t)' => t = self
      BY <1>1, <2>4, <3>1 DEF Holds
    <3>. QED
      BY <1>1, <1>4, <2>2, <2>3, <2>4, <3>2 DEF ThreadsInv, HoldInv
  <2>5. CASE /\ semCount[SemaphoreRelease] <= 0
             /\ semaphorePending' = [semaphorePending EXCEPT ![self] = SemaphoreRelease]
    <3>1. \A t \in Thread : semaphorePending'[t] = IF t = self THEN SemaphoreRelease ELSE semaphorePending[t]
      BY <2>1, <2>5
    <3>2. \A t \in Thread : Holds(t)' => Holds(t)
      BY <1>1, <3>1 DEF Holds
    <3>. QED
      BY <1>1, <1>4, <2>2, <2>3, <3>1, <3>2 DEF ThreadsInv, HoldInv
  <2>. QED
    BY <1>4, <2>4, <2>5
<1>6. GoneInv'
  BY <1>1, <1>2, <1>3, GoneUnchanged DEF ThreadsInv
<1>7. FreeInv'
  BY <1>1, <1>2, <1>3, FreeUnchanged DEF ThreadsInv
<1>. QED
  BY <1>5, <1>6, <1>7 DEF ThreadsInv

LEMMA ReleaseTestKeeps ==
    ASSUME KernelInv, ThreadsInv, NEW self \in Client, ReleaseTest(self)
    PROVE  ThreadsInv'
<1>1. /\ self \in Thread /\ Running(self) /\ semaphorePending[self] = NoSemaphore
      /\ stage' \in [Thread -> Place] /\ stage[self] = "test"
      /\ stage'[self] = IF needToFree # NoThread THEN "free" ELSE "clear"
      /\ \A t \in Thread : t # self => stage'[t] = stage[t]
  BY GotoEffect DEF ReleaseTest, Place, ThreadsInv
<1>2. UNCHANGED <<kernelVars, needToFree, exiting, Timed>> /\ SameGone
  BY DEF ReleaseTest, kernelVars, SameGone, Exited, Timed, Threads
<1>3. HoldInv'
  BY <1>1, <1>2, HoldsUnchanged, ReleaseExists DEF kernelVars, ThreadsInv
<1>4. GoneInv'
  BY <1>1, <1>2, GoneUnchanged DEF ThreadsInv
<1>5. FreeInv'
  <2>1. ASSUME NEW t \in Thread, stage[t] = "clear"
        PROVE  stage'[t] = "clear"
    BY <1>1, <2>1
  <2>. QED
    BY <1>1, <1>2, <2>1 DEF ThreadsInv, FreeInv, SameGone, Client
<1>. QED
  BY <1>3, <1>4, <1>5 DEF ThreadsInv

LEMMA ReleaseFreeKeeps ==
    ASSUME KernelInv, ThreadsInv, NEW self \in Client, ReleaseFree(self)
    PROVE  ThreadsInv'
<1>1. /\ self \in Thread /\ Running(self) /\ semaphorePending[self] = NoSemaphore
      /\ stage' \in [Thread -> Place] /\ stage[self] = "free" /\ stage'[self] = "clear"
      /\ \A t \in Thread : t # self => stage'[t] = stage[t]
  BY GotoEffect DEF ReleaseFree, Place, ThreadsInv
<1>2. /\ ThreadFree(needToFree) /\ UNCHANGED <<needToFree, exiting>>
      /\ UNCHANGED <<semCount, semaphorePending, Timed>>
  BY DEF ReleaseFree, ThreadFree, waitVars, Timed, Threads
<1>3. needToFree \in Client /\ Exited(needToFree)
  BY <1>1, FreesExited
<1>4. \A t \in Thread :
         /\ Exited(t)' <=> t # needToFree /\ Exited(t)
         /\ state'[t] = "NONE" <=> t = needToFree \/ state[t] = "NONE"
  BY <1>2, <1>3, FreeGone DEF Client
<1>5. HoldInv'
  BY <1>1, <1>2, HoldsUnchanged DEF ThreadsInv
<1>6. GoneInv'
  <2>1. \A t \in Thread : Gone(t)' => Gone(t)
    BY <1>3, <1>4 DEF Gone
  <2>2. ~Gone(self)
    BY <1>1, RunningWaitsNowhere DEF Gone, Exited
  <2>. QED
    BY <1>1, <1>2, <2>1, <2>2 DEF ThreadsInv, GoneInv
<1>7. FreeInv'
  <2>1. \A t \in Thread : stage[t] = "free" => needToFree # NoThread
    BY DEF ThreadsInv, FreeInv
  <2>. QED
    BY <1>1, <1>2, <2>1 DEF FreeInv
<1>. QED
  BY <1>5, <1>6, <1>7 DEF ThreadsInv

LEMMA ReleaseClearKeeps ==
    ASSUME KernelInv, ThreadsInv, NEW self \in Client, ReleaseClear(self)
    PROVE  ThreadsInv'
<1>1. /\ self \in Thread /\ Running(self) /\ semaphorePending[self] = NoSemaphore
      /\ stage' \in [Thread -> Place] /\ stage[self] = "clear" /\ stage'[self] = "post"
      /\ \A t \in Thread : t # self => stage'[t] = stage[t]
  BY GotoEffect DEF ReleaseClear, Place, ThreadsInv
<1>2. /\ UNCHANGED <<kernelVars, exiting, Timed>> /\ SameGone /\ needToFree' = NoThread
  BY DEF ReleaseClear, kernelVars, SameGone, Exited, Timed, Threads
<1>3. HoldInv'
  BY <1>1, <1>2, HoldsUnchanged DEF kernelVars, ThreadsInv
<1>4. GoneInv'
  BY <1>1, <1>2, GoneUnchanged DEF ThreadsInv
<1>5. ASSUME NEW t \in Thread, stage[t] = "free"
      PROVE  FALSE
  <2>1. Holds(self)
    BY <1>1, ReleaseExists DEF Holds
  <2>. QED
    BY <1>1, <1>5, <2>1, OneHolder DEF ThreadsInv
<1>6. FreeInv'
  BY <1>1, <1>2, <1>5 DEF FreeInv
<1>. QED
  BY <1>3, <1>4, <1>6 DEF ThreadsInv

LEMMA ReleasePostKeeps ==
    ASSUME KernelInv, ThreadsInv, NEW self \in Client, ReleasePost(self)
    PROVE  ThreadsInv'
<1>1. /\ self \in Thread /\ Running(self) /\ semaphorePending[self] = NoSemaphore
      /\ stage' \in [Thread -> Place] /\ stage[self] = "post"
      /\ stage'[self] = IF self \in exiting THEN "exit" ELSE "create"
      /\ \A t \in Thread : t # self => stage'[t] = stage[t]
  BY GotoEffect DEF ReleasePost, Place, ThreadsInv
<1>2. SemaphorePost(SemaphoreRelease) /\ UNCHANGED <<needToFree, exiting>>
  BY DEF ReleasePost
<1>3. SameGone
  BY <1>2, PostSameGone, ReleaseExists
<1>4. /\ semCount' = [semCount EXCEPT ![SemaphoreRelease] = @ + 1]
      /\ \/ semCount[SemaphoreRelease] >= 0 /\ UNCHANGED <<semaphorePending, Timed>>
         \/ /\ semCount[SemaphoreRelease] < 0 /\ Timed' \subseteq Timed
            /\ \E t \in Thread :
                  /\ semaphorePending[t] = SemaphoreRelease
                  /\ semaphorePending' = [semaphorePending EXCEPT ![t] = NoSemaphore]
  BY <1>2, PostEffect, ReleaseExists
<1>5. HoldInv'
  <2>1. semCount \in [Semaphore -> Int] /\ semaphorePending \in [Thread -> Semaphore \cup {NoSemaphore}]
    BY DEF KernelInv, TypeOK
  <2>2. /\ semCount'[SemaphoreRelease] = semCount[SemaphoreRelease] + 1
        /\ semCount[SemaphoreRelease] \in Int
    BY <1>4, <2>1, ReleaseExists
  <2>3. Holds(self) /\ semCount[SemaphoreRelease] <= 0 /\ Timed = {}
    BY <1>1, ReleaseExists DEF Holds, ThreadsInv, HoldInv
  <2>4. \A t \in Thread : Holds(t) => t = self
    BY <1>1, <2>3 DEF ThreadsInv, HoldInv
  <2>5. CASE semCount[SemaphoreRelease] >= 0 /\ UNCHANGED <<semaphorePending, Timed>>
    <3>1. \A t \in Thread : ~Holds(t)'
      BY <1>1, <2>4, <2>5 DEF Holds
    <3>. QED
      BY <1>1, <2>2, <2>3, <2>5, <3>1, ReleaseExists DEF ThreadsInv, HoldInv
  <2>6. ASSUME semCount[SemaphoreRelease] < 0, Timed' \subseteq Timed,
               NEW waiter \in Thread, semaphorePending[waiter] = SemaphoreRelease,
               semaphorePending' = [semaphorePending EXCEPT ![waiter] = NoSemaphore]
        PROVE  HoldInv'
    <3>1. \A t \in Thread : semaphorePending'[t] = IF t = waiter THEN NoSemaphore ELSE semaphorePending[t]
      BY <2>1, <2>6
    <3>2. \A t \in Thread : Holds(t)' => t = waiter
      BY <1>1, <2>4, <3>1 DEF Holds
    <3>3. semCount'[SemaphoreRelease] <= 0
      BY <2>2, <2>6
    <3>4. \A t \in Thread : semaphorePending'[t] = SemaphoreRelease => stage'[t] = "test"
      BY <1>1, <3>1, ReleaseExists DEF ThreadsInv, HoldInv
    <3>. QED
      BY <1>1, <2>2, <2>3, <2>6, <3>2, <3>3, <3>4 DEF HoldInv
  <2>. QED
    BY <1>4, <2>5, <2>6
<1>6. GoneInv'
  BY <1>1, <1>2, <1>3, GoneUnchanged DEF ThreadsInv
<1>7. FreeInv'
  BY <1>1, <1>2, <1>3, FreeUnchanged DEF ThreadsInv
<1>. QED
  BY <1>5, <1>6, <1>7 DEF ThreadsInv

\* A call begins, finds no memory, or starts again.
LEMMA MoveKeeps ==
    ASSUME KernelInv, ThreadsInv, NEW self \in Client,
           CreateCall(self) \/ CreateFails(self) \/ ExitCall(self) \/ ExitAgain(self)
    PROVE  ThreadsInv'
<1>1. PICK from \in {"user", "create", "exit"}, to \in {"user", "begin"} : Proceed(self, from, to)
  BY DEF CreateCall, CreateFails, ExitCall, ExitAgain
<1>2. /\ self \in Thread /\ Running(self)
      /\ stage' \in [Thread -> Place] /\ stage[self] = from /\ stage'[self] = to
      /\ \A t \in Thread : t # self => stage'[t] = stage[t]
  <2>1. to \in Place
    BY DEF Place
  <2>. QED
    BY <1>1, <2>1, GotoEffect DEF ThreadsInv
<1>3. /\ UNCHANGED <<kernelVars, needToFree, Timed>> /\ SameGone /\ exiting \subseteq exiting'
  BY DEF CreateCall, CreateFails, ExitCall, ExitAgain, kernelVars, SameGone, Exited, Timed, Threads
<1>4. HoldInv'
  BY <1>2, <1>3, HoldsUnchanged DEF kernelVars, ThreadsInv
<1>5. GoneInv'
  BY <1>2, <1>3, GoneUnchanged DEF ThreadsInv
<1>6. FreeInv'
  BY <1>2, <1>3, FreeUnchanged DEF ThreadsInv
<1>. QED
  BY <1>4, <1>5, <1>6 DEF ThreadsInv

LEMMA CreateKeeps ==
    ASSUME KernelInv, ThreadsInv, NEW self \in Client, Create(self)
    PROVE  ThreadsInv'
<1>1. PICK thread \in Client, prio \in Priority :
        /\ Running(self) /\ stage[self] = "create" /\ ThreadCreate(thread, prio)
        /\ stage' = [stage EXCEPT ![self] = "user", ![thread] = "user"]
        /\ exiting' = exiting \ {thread} /\ UNCHANGED needToFree
  BY DEF Create
<1>2. self \in Thread /\ thread \in Thread /\ state[thread] = "NONE"
  BY <1>1 DEF ThreadCreate, Client
<1>3. /\ stage' \in [Thread -> Place]
      /\ \A t \in Thread : stage'[t] = IF t \in {self, thread} THEN "user" ELSE stage[t]
  BY <1>1, <1>2 DEF ThreadsInv, HoldInv, Place
<1>4. stage[thread] \in {"user", "begin"}
  BY <1>2 DEF ThreadsInv, GoneInv, Gone
<1>5. UNCHANGED <<semCount, semaphorePending, Timed>>
  BY <1>1 DEF ThreadCreate, Timed, Threads
<1>6. \A t \in Thread :
         /\ Exited(t)' <=> Exited(t)
         /\ state'[t] = "NONE" <=> t # thread /\ state[t] = "NONE"
  BY <1>1, <1>2, CreateGone
<1>7. HoldInv'
  BY <1>1, <1>3, <1>4, <1>5, HoldsUnchanged DEF ThreadsInv
<1>8. GoneInv'
  BY <1>1, <1>3, <1>6 DEF ThreadsInv, GoneInv, Gone
<1>9. FreeInv'
  <2>1. ~Exited(thread)
    BY <1>2 DEF Exited
  <2>2. \A t \in Thread : /\ stage'[t] = "free" => stage[t] = "free"
                          /\ stage[t] = "clear" => stage'[t] = "clear"
    BY <1>1, <1>3, <1>4
  <2>3. CASE needToFree \in exiting \cap Client /\ Exited(needToFree)
    BY <1>1, <1>6, <2>1, <2>2, <2>3 DEF ThreadsInv, FreeInv, Client
  <2>4. CASE needToFree = NoThread \/ \E t \in Thread : stage[t] = "clear"
    BY <1>1, <2>2, <2>4 DEF ThreadsInv, FreeInv
  <2>. QED
    BY <2>3, <2>4 DEF ThreadsInv, FreeInv
<1>. QED
  BY <1>7, <1>8, <1>9 DEF ThreadsInv

LEMMA ExitLastKeeps ==
    ASSUME KernelInv, ThreadsInv, NEW self \in Client, ExitLast(self)
    PROVE  ThreadsInv'
<1>1. /\ self \in Thread /\ Running(self)
      /\ stage' \in [Thread -> Place] /\ stage[self] = "exit" /\ stage'[self] = "begin"
      /\ \A t \in Thread : t # self => stage'[t] = stage[t]
  BY GotoEffect DEF ExitLast, Place, ThreadsInv
<1>2. /\ needToFree = NoThread /\ needToFree' = self /\ ThreadExit(self) /\ UNCHANGED exiting
      /\ UNCHANGED <<semCount, semaphorePending, Timed>>
  BY DEF ExitLast, ThreadExit, waitVars, Timed, Threads
<1>3. \A t \in Thread :
         /\ Exited(t)' <=> t = self \/ Exited(t)
         /\ state'[t] = "NONE" <=> state[t] = "NONE"
  BY <1>1, <1>2, ExitGone
<1>4. HoldInv'
  BY <1>1, <1>2, HoldsUnchanged DEF ThreadsInv
<1>5. GoneInv'
  BY <1>1, <1>2, <1>3 DEF ThreadsInv, GoneInv, Gone
<1>6. FreeInv'
  <2>1. self \in exiting /\ self # NoThread
    BY <1>1, KernelAssumption DEF ThreadsInv, GoneInv
  <2>2. \A t \in Thread : stage'[t] # "free"
    BY <1>1, <1>2 DEF ThreadsInv, FreeInv
  <2>. QED
    BY <1>1, <1>2, <1>3, <2>1, <2>2 DEF FreeInv
<1>. QED
  BY <1>4, <1>5, <1>6 DEF ThreadsInv

LEMMA ThreadsStep ==
    KernelInv /\ ThreadsInv /\ [ThreadsNext]_threadVars => KernelInv' /\ ThreadsInv'
<1>. SUFFICES ASSUME KernelInv, ThreadsInv, [ThreadsNext]_threadVars
              PROVE  KernelInv' /\ ThreadsInv'
  OBVIOUS
<1>1. KernelInv'
  BY ThreadsStepsAreKernelSteps, KernelStep
<1>2. CASE (Boot \/ Interrupt({})) /\ UNCHANGED <<needToFree, stage, exiting>>
  BY <1>1, <1>2, SystemKeeps
<1>3. ASSUME NEW self \in Client, ThreadsCall(self)
      PROVE  ThreadsInv'
  BY <1>3, ReleaseBeginKeeps, ReleaseTestKeeps, ReleaseFreeKeeps, ReleaseClearKeeps,
     ReleasePostKeeps, MoveKeeps, CreateKeeps, ExitLastKeeps DEF ThreadsCall
<1>4. CASE UNCHANGED threadVars
  <2>1. UNCHANGED <<needToFree, stage, exiting, semCount, semaphorePending, state, timeoutHead>>
    BY <1>4 DEF threadVars, kernelVars
  <2>2. UNCHANGED Timed /\ SameGone
    BY <2>1 DEF Timed, Threads, SameGone, Exited
  <2>3. HoldInv'
    BY <2>1, <2>2 DEF ThreadsInv, HoldInv, Holds
  <2>4. GoneInv' /\ FreeInv'
    BY <2>1 DEF ThreadsInv, GoneInv, FreeInv, Gone, Exited
  <2>. QED
    BY <1>1, <2>3, <2>4 DEF ThreadsInv
<1>. QED
  BY <1>1, <1>2, <1>3, <1>4 DEF ThreadsNext

\* The inductive invariant holds in every state, and with it that of the kernel.
THEOREM ThreadsInvariant == ThreadsSpec => [](KernelInv /\ ThreadsInv)
<1>1. ThreadsInit => KernelInv /\ ThreadsInv
  BY ThreadsInitEstablishes, InitEstablishes DEF ThreadsInit
<1>2. QED
  BY <1>1, ThreadsStep, PTL DEF ThreadsSpec

\* What OS_ThreadCreate and OS_ThreadExit are about to free has exited and has not been freed.
THEOREM FreesOnlyExited == ThreadsSpec => []FreesExitedOnly
<1>1. ThreadsInv => FreesExitedOnly
  BY FreesExited DEF FreesExitedOnly
<1>2. QED
  BY <1>1, ThreadsInvariant, PTL

=============================================================================

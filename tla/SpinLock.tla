------------------------------ MODULE SpinLock ------------------------------
(***************************************************************************)
(* The spin lock that makes OS_CriticalBegin .. OS_CriticalEnd exclusive   *)
(* when OS_CPU_COUNT > 1 (kernel/rtos.c).  A CPU raises its own entry of   *)
(* SpinLockArray and then looks at the others', one at a time: every CPU   *)
(* may move between any two of those accesses.  The entries are shared     *)
(* memory without a cache between, so accesses are atomic and in order.    *)
(***************************************************************************)
EXTENDS Integers

CONSTANTS
    CpuCount,  \* OS_CPU_COUNT
    MaxNest    \* bound: how deep critical sections nest (OS_SpinUnlock asserts < 10)

ASSUME SpinAssumption ==
    /\ CpuCount \in Nat \ {0}
    /\ MaxNest \in 1 .. 9

Cpu == 0 .. CpuCount - 1

VARIABLES
    array,  \* SpinLockArray
    pc,     \* where each CPU is: outside, looking at the others, or inside
    i,      \* the entry each CPU looks at next
    ok      \* no other entry was raised so far

vars == <<array, pc, i, ok>>

Init ==
    /\ array = [c \in Cpu |-> 0]
    /\ pc = [c \in Cpu |-> "outside"]
    /\ i = [c \in Cpu |-> 0]
    /\ ok = [c \in Cpu |-> TRUE]

\* ++SpinLockArray[cpuIndex] reaches 1: the other CPUs have to be looked at.
Raise(c) ==
    /\ pc[c] = "outside"
    /\ array' = [array EXCEPT ![c] = 1]
    /\ pc' = [pc EXCEPT ![c] = "looking"]
    /\ i' = [i EXCEPT ![c] = 0]
    /\ ok' = [ok EXCEPT ![c] = TRUE]

\* ++SpinLockArray[cpuIndex] passes 1: this CPU has the lock already.
Nest(c) ==
    /\ pc[c] = "inside"
    /\ array[c] < MaxNest
    /\ array' = [array EXCEPT ![c] = @ + 1]
    /\ UNCHANGED <<pc, i, ok>>

\* One round of the loop over the CPUs.
Look(c) ==
    /\ pc[c] = "looking"
    /\ i[c] < CpuCount
    /\ ok' = [ok EXCEPT ![c] = @ /\ (i[c] = c \/ array[i[c]] = 0)]
    /\ i' = [i EXCEPT ![c] = @ + 1]
    /\ UNCHANGED <<array, pc>>

\* Another CPU has the lock, or wants it: lower the entry, wait a bit, try again.
BackOff(c) ==
    /\ pc[c] = "looking"
    /\ i[c] = CpuCount
    /\ ~ok[c]
    /\ array' = [array EXCEPT ![c] = 0]
    /\ pc' = [pc EXCEPT ![c] = "outside"]
    /\ UNCHANGED <<i, ok>>

\* No other CPU had its entry raised.
Enter(c) ==
    /\ pc[c] = "looking"
    /\ i[c] = CpuCount
    /\ ok[c]
    /\ pc' = [pc EXCEPT ![c] = "inside"]
    /\ UNCHANGED <<array, i, ok>>

\* Broken variant: the inner end of a nested section releases the lock.
SpinUnlockAll(c) ==
    /\ pc[c] = "inside"
    /\ array' = [array EXCEPT ![c] = 0]
    /\ pc' = [pc EXCEPT ![c] = "outside"]
    /\ UNCHANGED <<i, ok>>

\* OS_SpinUnlock.
SpinUnlock(c) ==
    /\ pc[c] = "inside"
    /\ array' = [array EXCEPT ![c] = @ - 1]
    /\ pc' = [pc EXCEPT ![c] = IF array[c] - 1 = 0 THEN "outside" ELSE "inside"]
    /\ UNCHANGED <<i, ok>>

Next == \E c \in Cpu : Raise(c) \/ Nest(c) \/ Look(c) \/ BackOff(c) \/ Enter(c) \/ SpinUnlock(c)

Spec == Init /\ [][Next]_vars

(***************************************************************************)
(* Properties.                                                             *)
(***************************************************************************)

\* The shape of the lock, and what an entry says of its CPU.
TypeOK ==
    /\ array \in [Cpu -> 0 .. 9]
    /\ pc \in [Cpu -> {"outside", "looking", "inside"}]
    /\ i \in [Cpu -> 0 .. CpuCount]
    /\ ok \in [Cpu -> BOOLEAN]
    /\ \A c \in Cpu : array[c] = 0 <=> pc[c] = "outside"

\* One CPU at a time is in a critical section, whatever the others do while it looks
\* at them (OS_SpinLock, OS_SpinUnlock).
MutualExclusion ==
    \A c, d \in Cpu : pc[c] = "inside" /\ pc[d] = "inside" => c = d

\* The spin lock is a recursive lock of CPUs: a section that nests is left only with
\* its outermost OS_SpinUnlock.
Depth == [c \in Cpu |-> IF pc[c] = "inside" THEN array[c] ELSE 0]

Lock == INSTANCE RecursiveLock WITH Thread <- Cpu, level <- Depth

LockImplemented == Lock!Spec
=============================================================================

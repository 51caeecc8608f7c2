--------------------------- MODULE MCRtosKernel ---------------------------
(***************************************************************************)
(* The kernel for TLC: an idle thread and a few clients, all alike.        *)
(***************************************************************************)
EXTENDS RtosKernel

MCInitialCount == [s \in Semaphore |-> 0]

Symmetry == Permutations(Thread \ {Idle})
===========================================================================

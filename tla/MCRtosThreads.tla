--------------------------- MODULE MCRtosThreads ---------------------------
(***************************************************************************)
(* The life of threads for TLC: a few clients, all alike.                  *)
(***************************************************************************)
EXTENDS RtosThreads

MCInitialCount == [s \in Semaphore |-> 1]

Symmetry == Permutations(Client)
=============================================================================

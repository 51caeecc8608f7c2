------------------------------ MODULE RtosHeap ------------------------------
(* The heaps of kernel/rtos.c: a circular list of free nodes, sorted by address *)
(* but for one turn, and a rover where the next search begins.  A unit stands   *)
(* for a HeapNode_t.  A call is one step, since it holds the semaphore; only    *)
(* heap->count, which nothing but a message reads, is outside.                  *)
EXTENDS Integers, Sequences, FiniteSets, SequencesExt, FiniteSetsExt

CONSTANTS Heap, Units,   \* units in the memory of a heap
          Alternate,     \* [Heap -> Heap \cup {NoHeap}]: never a cycle
          NoHeap

ASSUME HeapAssumption ==
    /\ IsFiniteSet(Heap) /\ NoHeap \notin Heap
    /\ Units \in Nat \ {0}
    /\ Alternate \in [Heap -> Heap \cup {NoHeap}]

VARIABLES free,          \* the nodes from available->next on; the last one is available
          used           \* the blocks handed out
heapVars == <<free, used>>

\* heap->base: size 0, in the header below the memory, so next to no node
Base == [at |-> 0, size |-> 0]
Node(at, size) == [at |-> at, size |-> size]

\* OS_HeapCreate
HeapInit ==
    /\ free = [h \in Heap |-> <<Base, Node(1, Units)>>]
    /\ used = {}

\* The list with another node as its last one: that of an index, 0 for the last
Rover(list, k) == SubSeq(list, k + 1, Len(list)) \o SubSeq(list, 1, k)

Big(list, units) == {k \in DOMAIN list : list[k].size >= units}

\* A request to the first heap is met from h: it can, and none before it on the chain of
\* alternates can
MetFrom(first, units, h) ==
    /\ Big(free[h], units) # {}
    /\ \E chain \in SeqOf(Heap, Cardinality(Heap)) \ {<<>>} :
         /\ Head(chain) = first /\ Last(chain) = h
         /\ \A k \in 1 .. Len(chain) - 1 :
              Big(free[chain[k]], units) = {} /\ chain[k + 1] = Alternate[chain[k]]

\* OS_HeapMalloc takes the first node that is big enough: all of it, or its tail end
Take(h, units) ==
    LET list == free[h]
        k    == Min(Big(list, units))
        left == list[k].size - units
        rest == IF left = 0 THEN RemoveAt(list, k) ELSE [list EXCEPT ![k].size = left]
    IN /\ free' = [free EXCEPT ![h] = Rover(rest, k - 1)]
       /\ used' = used \cup {[heap |-> h, at |-> list[k].at + left, size |-> units]}

OS_HeapMalloc(first, units) ==
    \/ \E h \in Heap : MetFrom(first, units, h) /\ Take(h, units)
    \/ (\A h \in Heap : ~ MetFrom(first, units, h)) /\ UNCHANGED heapVars

\* Where OS_HeapFree stops: the node after which the block comes, from available on
Stops(list, k, at) ==
    LET node == list[k].at
        next == list[(k % Len(list)) + 1].at
    IN (node < at /\ at < next) \/ (node >= next /\ (at > node \/ at < next))

Place(list, at) ==
    IF Stops(list, Len(list), at) THEN Len(list)
    ELSE Min({k \in DOMAIN list : Stops(list, k, at)})

\* Broken variant: not joined to the node below
JoinUpperOnly(list, block) ==
    LET at   == block.at
        turn == Rover(list, Place(list, at))
        up   == at + block.size = Head(turn).at
        bp   == Node(at, block.size + IF up THEN Head(turn).size ELSE 0)
        rest == IF up THEN Tail(turn) ELSE turn
    IN <<bp>> \o rest

\* The list with a block, joined to the node above it, then to the one below, the new rover
Join(list, block) ==
    LET at   == block.at
        turn == Rover(list, Place(list, at))
        up   == at + block.size = Head(turn).at
        bp   == Node(at, block.size + IF up THEN Head(turn).size ELSE 0)
        rest == IF up THEN Tail(turn) ELSE turn
        node == Last(rest)
    IN IF node.at + node.size = at
       THEN [rest EXCEPT ![Len(rest)].size = @ + bp.size]
       ELSE <<bp>> \o rest

OS_HeapFree(block) ==
    /\ free' = [free EXCEPT ![block.heap] = Join(@, block)]
    /\ used' = used \ {block}

HeapNext ==
    \/ \E h \in Heap, units \in 1..Units : OS_HeapMalloc(h, units)
    \/ \E block \in used : OS_HeapFree(block)

HeapSpec == HeapInit /\ [][HeapNext]_heapVars
-----------------------------------------------------------------------------
Extent(x) == x.at .. x.at + x.size - 1

Blocks(h) == {x \in used : x.heap = h}

\* Each unit of a heap is in one node or in one block, whatever was handed out and given back
\* in whatever order, and no two nodes that touch are left apart, so a request fails only when
\* no run of free units is long enough (OS_HeapMalloc, OS_HeapFree)
HeapSound ==
    \A h \in Heap :
      LET nodes == ToSet(free[h])
      IN /\ IsInjective(free[h]) /\ Base \in nodes
         /\ UNION {Extent(x) : x \in nodes \cup Blocks(h)} = 1..Units
         /\ \A x, y \in nodes \cup Blocks(h) : x # y => Extent(x) \cap Extent(y) = {}
         /\ \A x, y \in nodes \ {Base} : x.at + x.size # y.at
=============================================================================

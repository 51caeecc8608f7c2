----------------------------- MODULE PartsProofs -----------------------------
(***************************************************************************)
(* Proofs about the parts below and beside the kernel and the IP stack:    *)
(* the spin lock, for any number of CPUs; the heap, for any heaps, sizes   *)
(* and chain of alternates; the byte rings of the UART, the frame ring of  *)
(* the Ethernet MAC, and the address of the gateway.                       *)
(***************************************************************************)
EXTENDS SpinLock, RtosHeap, UartBuffers, EthernetRing, IpConfig, ListLemmas

-----------------------------------------------------------------------------
(* SpinLock *)

\* c has found the entry of d lowered since it raised its own.
Passed(c, d) ==
    \/ pc[c] = "inside"
    \/ pc[c] = "looking" /\ ok[c] /\ i[c] > d

\* Two CPUs cannot have passed each other: the one that raised its entry last has
\* still to look at the other's.
SpinInv ==
    /\ TypeOK
    /\ \A c \in Cpu : pc[c] = "looking" => array[c] = 1
    /\ \A c, d \in Cpu : c # d => ~ (Passed(c, d) /\ Passed(d, c))

LEMMA SpinInvStep == SpinInv /\ [Next]_vars => SpinInv'
<1>. SUFFICES ASSUME SpinInv, [Next]_vars
              PROVE  SpinInv'
  OBVIOUS
<1>. USE DEF SpinInv, TypeOK, Passed
<1>0. CpuCount \in Nat \ {0} /\ MaxNest \in 1 .. 9
  BY SpinAssumption
<1>1. ASSUME NEW e \in Cpu, Raise(e)
      PROVE  SpinInv'
  <2>1. TypeOK'
    BY <1>0, <1>1 DEF Raise, Cpu
  <2>2. \A c, d \in Cpu : c # d => ~ (Passed(c, d) /\ Passed(d, c))'
    BY <1>0, <1>1 DEF Raise, Cpu
  <2>. QED
    BY <1>1, <2>1, <2>2 DEF Raise
<1>2. ASSUME NEW e \in Cpu, Nest(e)
      PROVE  SpinInv'
  <2>1. array[e] + 1 \in 0 .. 9 /\ array[e] + 1 # 0
    BY <1>0, <1>2 DEF Nest
  <2>2. TypeOK'
    BY <1>2, <2>1 DEF Nest
  <2>. QED
    BY <1>2, <2>2 DEF Nest
<1>3. ASSUME NEW e \in Cpu, Look(e)
      PROVE  SpinInv'
  <2>0. /\ pc[e] = "looking" /\ i[e] \in Cpu
        /\ ok' = [ok EXCEPT ![e] = @ /\ (i[e] = e \/ array[i[e]] = 0)]
        /\ i' = [i EXCEPT ![e] = @ + 1]
        /\ array' = array /\ pc' = pc
    BY <1>0, <1>3 DEF Look, Cpu
  <2>1. TypeOK'
    <3>1. ok' \in [Cpu -> BOOLEAN]
      BY <2>0
    <3>2. i' \in [Cpu -> 0 .. CpuCount]
      BY <1>0, <2>0 DEF Cpu
    <3>. QED
      BY <2>0, <3>1, <3>2
  <2>2. ASSUME NEW c \in Cpu, NEW d \in Cpu, c # d, Passed(c, d)', Passed(d, c)'
        PROVE  FALSE
    <3>1. \A x, y \in Cpu : x # e /\ Passed(x, y)' => Passed(x, y)
      BY <2>0
    <3>2. \A y \in Cpu : y # e /\ Passed(e, y)' =>
             \/ Passed(e, y)
             \/ y = i[e] /\ pc[y] = "outside"
      <4>1. \A y \in Cpu : y \in Int /\ i[e] \in Int
        BY <1>0, <2>0 DEF Cpu
      <4>2. i'[e] = i[e] + 1 /\ (ok'[e] => ok[e] /\ (i[e] = e \/ array[i[e]] = 0))
        BY <2>0
      <4>. QED
        BY <2>0, <4>1, <4>2
    <3>3. \A x, y \in Cpu : pc[x] = "outside" => ~ Passed(x, y)
      OBVIOUS
    <3>. QED
      BY <2>2, <3>1, <3>2, <3>3
  <2>. QED
    BY <2>0, <2>1, <2>2
<1>4. ASSUME NEW e \in Cpu, BackOff(e)
      PROVE  SpinInv'
  BY <1>0, <1>4 DEF BackOff
<1>5. ASSUME NEW e \in Cpu, Enter(e)
      PROVE  SpinInv'
  BY <1>0, <1>5 DEF Enter, Cpu
<1>6. ASSUME NEW e \in Cpu, SpinUnlock(e)
      PROVE  SpinInv'
  <2>1. array[e] \in 1 .. 9
    BY <1>6 DEF SpinUnlock
  <2>2. TypeOK'
    BY <1>6, <2>1 DEF SpinUnlock
  <2>3. \A c, d \in Cpu : c # d => ~ (Passed(c, d) /\ Passed(d, c))'
    BY <1>6 DEF SpinUnlock
  <2>4. \A c \in Cpu : pc'[c] = "looking" => array'[c] = 1
    BY <1>6 DEF SpinUnlock
  <2>. QED
    BY <2>2, <2>3, <2>4
<1>7. CASE UNCHANGED vars
  BY <1>7 DEF vars
<1>. QED
  BY <1>1, <1>2, <1>3, <1>4, <1>5, <1>6, <1>7 DEF Next

LEMMA SpinInvariant == Spec => []SpinInv
<1>1. Init => SpinInv
  BY SpinAssumption DEF Init, SpinInv, TypeOK, Passed, Cpu
<1>. QED
  BY <1>1, SpinInvStep, PTL DEF Spec

LEMMA InvExcludes == SpinInv => MutualExclusion
  BY DEF SpinInv, Passed, MutualExclusion

LEMMA InvExcludesNext == SpinInv' => MutualExclusion'
  BY InvExcludes, PTL

\* At most one CPU is in a critical section, however many there are.
THEOREM SpinExclusive == Spec => []MutualExclusion
  BY SpinInvariant, InvExcludes, PTL

LEMMA SpinStepImplements ==
    ASSUME SpinInv, SpinInv', [Next]_vars
    PROVE  [Lock!Next]_Depth
<1>0. /\ array \in [Cpu -> 0 .. 9]
      /\ pc \in [Cpu -> {"outside", "looking", "inside"}]
      /\ \A c \in Cpu : array[c] = 0 <=> pc[c] = "outside"
      /\ \A c \in Cpu : pc[c] = "looking" => array[c] = 1
  BY DEF SpinInv, TypeOK
<1>1. \A c, d \in Cpu : pc'[c] = "inside" /\ pc'[d] = "inside" => c = d
  BY InvExcludesNext DEF MutualExclusion
<1>2. ASSUME NEW e \in Cpu, Raise(e) \/ Look(e) \/ BackOff(e)
      PROVE  UNCHANGED Depth
  <2>1. \A c \in Cpu : Depth'[c] = Depth[c]
    BY <1>0, <1>2 DEF Raise, Look, BackOff, Depth
  <2>. QED
    BY <2>1 DEF Depth
<1>3. ASSUME NEW e \in Cpu, Nest(e)
      PROVE  Lock!Take(e)
  <2>1. Depth[e] > 0
    BY <1>0, <1>3 DEF Nest, Depth
  <2>2. Depth' = [Depth EXCEPT ![e] = @ + 1]
    BY <1>0, <1>3 DEF Nest, Depth
  <2>. QED
    BY <2>1, <2>2 DEF Lock!Take
<1>4. ASSUME NEW e \in Cpu, Enter(e)
      PROVE  UNCHANGED Depth \/ Lock!Take(e)
  <2>1. \A c \in Cpu : Depth[c] = 0
    BY <1>0, <1>1, <1>4 DEF Enter, Depth
  <2>2. Depth'[e] = array[e] /\ \A c \in Cpu : c # e => Depth'[c] = Depth[c]
    BY <1>0, <1>4 DEF Enter, Depth
  <2>3. array[e] = 1
    BY <1>0, <1>4 DEF Enter
  <2>4. Depth' = [Depth EXCEPT ![e] = @ + 1]
    <3>1. /\ Depth \in [Cpu -> 0 .. 9]
          /\ Depth' \in [Cpu -> 0 .. 9]
      BY <1>0, <1>4 DEF Enter, Depth
    <3>. QED
      BY <2>1, <2>2, <2>3, <3>1
  <2>. QED
    BY <2>1, <2>4 DEF Lock!Take, Lock!Free
<1>5. ASSUME NEW e \in Cpu, SpinUnlock(e)
      PROVE  Lock!Give(e)
  <2>1. Depth[e] > 0 /\ array[e] \in Nat
    BY <1>0, <1>5 DEF SpinUnlock, Depth
  <2>2. Depth' = [Depth EXCEPT ![e] = @ - 1]
    BY <1>0, <1>5, <2>1 DEF SpinUnlock, Depth
  <2>. QED
    BY <2>1, <2>2 DEF Lock!Give
<1>6. CASE UNCHANGED vars
  BY <1>6 DEF vars, Depth
<1>. QED
  BY <1>2, <1>3, <1>4, <1>5, <1>6 DEF Next, Lock!Next

\* The spin lock implements the recursive lock.
THEOREM SpinImplements == Spec => LockImplemented
<1>1. Init => Lock!Init
  BY DEF Init, Lock!Init, Depth
<1>. QED
  BY <1>1, SpinStepImplements, SpinInvariant, PTL DEF Spec, LockImplemented, Lock!Spec

(***************************************************************************)
(* The heap.  A list of free nodes turns through the addresses once: that  *)
(* is why the search of OS_HeapFree ends, at the one place for the block.  *)
(***************************************************************************)
Nodes == [at : Nat, size : Nat]

\* The node after that of an index
After(list, k) == IF k = Len(list) THEN 1 ELSE k + 1

\* No node is between two that follow each other, and once around the list the
\* addresses go down, from the highest to the lowest
Turned(list) ==
    \A k, j \in 1 .. Len(list) :
      LET a == list[k].at
          b == list[After(list, k)].at
      IN \/ a < b /\ (list[j].at <= a \/ b <= list[j].at)
         \/ b <= a /\ b <= list[j].at /\ list[j].at <= a

\* What OS_HeapFree relies on to find the place of a block
NodesSorted(list) ==
    /\ list \in Seq(Nodes)
    /\ \E k \in 1 .. Len(list) : list[k] = Base
    /\ \A k \in 1 .. Len(list) : list[k].at # 0 => list[k].size # 0
    /\ \A k, j \in 1 .. Len(list) : list[k].at = list[j].at => k = j
    /\ Turned(list)

\* What the turn to another rover does to a list.
LEMMA RoverProperties ==
    ASSUME NEW S, NEW list \in Seq(S), NEW k \in 0 .. Len(list)
    PROVE  /\ Rover(list, k) \in Seq(S)
           /\ Len(Rover(list, k)) = Len(list)
           /\ \A j \in 1 .. Len(list) :
                Rover(list, k)[j] = list[IF j + k <= Len(list) THEN j + k ELSE j + k - Len(list)]
<1>. DEFINE back == SubSeq(list, k + 1, Len(list))
            front == SubSeq(list, 1, k)
<1>0. Len(list) \in Nat
  OBVIOUS
<1>1. front \in Seq(S) /\ Len(front) = k /\ \A j \in 1 .. k : front[j] = list[j]
  OBVIOUS
<1>2. back \in Seq(S) /\ Len(back) = Len(list) - k /\ \A j \in 1 .. Len(list) - k : back[j] = list[k + j]
  OBVIOUS
<1>3. Rover(list, k) = back \o front
  BY DEF Rover
<1>. HIDE DEF front, back
<1>4. /\ back \o front \in Seq(S)
      /\ Len(back \o front) = Len(back) + Len(front)
      /\ \A j \in 1 .. Len(back) + Len(front) :
           (back \o front)[j] = IF j <= Len(back) THEN back[j] ELSE front[j - Len(back)]
  BY <1>1, <1>2, Zenon, ConcatProperties
<1>5. Len(back) + Len(front) = Len(list)
  BY <1>0, <1>1, <1>2
<1>6. ASSUME NEW j \in 1 .. Len(list)
      PROVE  (back \o front)[j] = list[IF j + k <= Len(list) THEN j + k ELSE j + k - Len(list)]
  <2>1. CASE j + k <= Len(list)
    <3>1. j <= Len(back) /\ j \in 1 .. Len(list) - k /\ k + j = j + k
      BY <1>0, <1>2, <2>1
    <3>. QED
      BY <1>2, <1>4, <1>5, <2>1, <3>1
  <2>2. CASE ~ (j + k <= Len(list))
    <3>1. ~ (j <= Len(back)) /\ j - Len(back) \in 1 .. k /\ j - Len(back) = j + k - Len(list)
      BY <1>0, <1>2, <2>2
    <3>. QED
      BY <1>1, <1>4, <1>5, <2>2, <3>1
  <2>. QED
    BY <2>1, <2>2
<1>. QED
  BY <1>3, <1>4, <1>5, <1>6

\* The order does not depend on where the rover is.
LEMMA RoverSorted ==
    ASSUME NEW list, NodesSorted(list), NEW k \in 0 .. Len(list)
    PROVE  /\ NodesSorted(Rover(list, k))
           /\ Range(Rover(list, k)) = Range(list)
<1>. DEFINE turn == Rover(list, k)
            L == Len(list)
            From(j) == IF j + k <= L THEN j + k ELSE j + k - L
            To(j) == IF j > k THEN j - k ELSE j + L - k
<1>0. list \in Seq(Nodes) /\ L \in Nat /\ k \in Nat /\ k <= L
  BY DEF NodesSorted
<1>1. turn \in Seq(Nodes) /\ Len(turn) = L /\ \A j \in 1 .. L : turn[j] = list[From(j)]
  BY <1>0, RoverProperties
<1>. HIDE DEF turn, L
<1>2. \A j \in 1 .. L : From(j) \in 1 .. L
  BY <1>0
<1>3. \A j \in 1 .. L : To(j) \in 1 .. L /\ From(To(j)) = j
  BY <1>0
<1>4. \A j, m \in 1 .. L : From(j) = From(m) => j = m
  BY <1>0
<1>5. \A j \in 1 .. L : (IF j = L THEN 1 ELSE j + 1) \in 1 .. L
  BY <1>0
<1>6. \A j \in 1 .. L : From(IF j = L THEN 1 ELSE j + 1) = (IF From(j) = L THEN 1 ELSE From(j) + 1)
  BY <1>0
<1>7. \A j \in 1 .. L : After(turn, j) \in 1 .. L /\ From(After(turn, j)) = After(list, From(j))
  BY <1>1, <1>5, <1>6 DEF After, L
<1>. HIDE DEF From, To
<1>8. Turned(turn)
  <2>. SUFFICES ASSUME NEW m \in 1 .. L, NEW j \in 1 .. L
                PROVE  LET a == turn[m].at
                           b == turn[After(turn, m)].at
                       IN \/ a < b /\ (turn[j].at <= a \/ b <= turn[j].at)
                          \/ b <= a /\ b <= turn[j].at /\ turn[j].at <= a
    BY <1>1, Zenon DEF Turned
  <2>1. turn[m] = list[From(m)] /\ turn[j] = list[From(j)] /\ turn[After(turn, m)] = list[After(list, From(m))]
    BY <1>1, <1>7
  <2>. QED
    BY <1>2, <2>1 DEF Turned, NodesSorted, L
<1>9. \E m \in 1 .. L : turn[m] = Base
  <2>1. PICK m \in 1 .. L : list[m] = Base
    BY DEF NodesSorted, L
  <2>. QED
    BY <1>1, <1>3, <2>1
<1>10. \A m \in 1 .. L : turn[m].at # 0 => turn[m].size # 0
  BY <1>1, <1>2 DEF NodesSorted, L
<1>11. \A m, j \in 1 .. L : turn[m].at = turn[j].at => m = j
  <2>1. \A m, j \in 1 .. L : list[m].at = list[j].at => m = j
    BY DEF NodesSorted, L
  <2>. SUFFICES ASSUME NEW m \in 1 .. L, NEW j \in 1 .. L, turn[m].at = turn[j].at
                PROVE  m = j
    OBVIOUS
  <2>2. turn[m] = list[From(m)] /\ turn[j] = list[From(j)] /\ From(m) \in 1 .. L /\ From(j) \in 1 .. L
    BY <1>1, <1>2
  <2>3. From(m) = From(j)
    BY <2>1, <2>2
  <2>. QED
    BY <1>4, <2>3
<1>12. NodesSorted(turn)
  BY <1>1, <1>8, <1>9, <1>10, <1>11 DEF NodesSorted
<1>13. Range(turn) = Range(list)
  <2>1. DOMAIN turn = 1 .. L /\ DOMAIN list = 1 .. L
    BY <1>0, <1>1 DEF L
  <2>2. \A j \in 1 .. L : turn[j] \in Range(list)
    BY <1>1, <1>2, <2>1 DEF Range
  <2>3. \A j \in 1 .. L : list[j] \in Range(turn)
    BY <1>1, <1>3, <2>1 DEF Range
  <2>. QED
    BY <2>1, <2>2, <2>3 DEF Range
<1>. QED
  BY <1>12, <1>13 DEF turn

\* A node taken as a whole leaves the others in order.
LEMMA RemoveNodeSorted ==
    ASSUME NEW list, NodesSorted(list), NEW k \in 1 .. Len(list), list[k] # Base
    PROVE  /\ NodesSorted(RemoveAt(list, k))
           /\ Range(RemoveAt(list, k)) = Range(list) \ {list[k]}
<1>. DEFINE rest == RemoveAt(list, k)
            L == Len(list)
            Up(n) == IF n < k THEN n ELSE n + 1
<1>0. list \in Seq(Nodes) /\ L \in Nat /\ k \in 1 .. L
  BY DEF NodesSorted
<1>1. rest \in Seq(Nodes) /\ Len(rest) = L - 1 /\ \A j \in 1 .. L - 1 : rest[j] = list[Up(j)]
  BY <1>0, RemoveAtProperties
<1>2. IsInjective(list)
  BY <1>0 DEF NodesSorted, IsInjective
<1>3. Range(rest) = Range(list) \ {list[k]}
  BY <1>0, <1>2, RemoveAtRange
<1>4. \A m, j \in 1 .. L : list[m].at = list[j].at => m = j
  BY DEF NodesSorted
<1>5. \A m \in 1 .. L : list[m] \in Nodes
  BY <1>0
<1>. HIDE DEF rest, L
<1>6. \A j \in 1 .. L - 1 : Up(j) \in 1 .. L /\ Up(j) # k
  BY <1>0
<1>7. \A j, m \in 1 .. L - 1 : Up(j) = Up(m) => j = m
  BY <1>0
<1>8. \A j \in 1 .. L : j # k => \E m \in 1 .. L - 1 : Up(m) = j
  <2>. SUFFICES ASSUME NEW j \in 1 .. L, j # k
                PROVE  \E m \in 1 .. L - 1 : Up(m) = j
    OBVIOUS
  <2>. DEFINE w == IF j < k THEN j ELSE j - 1
  <2>1. w \in 1 .. L - 1 /\ Up(w) = j
    BY <1>0
  <2>. QED
    BY <2>1
<1>9. \A j \in 1 .. L : After(list, j) \in 1 .. L
  BY <1>0 DEF After, L
\* The node after a node that stays: the one that was, or the one after that
<1>10. ASSUME NEW m \in 1 .. L - 1
       PROVE  /\ After(rest, m) \in 1 .. L - 1
              /\ \/ Up(After(rest, m)) = After(list, Up(m))
                 \/ After(list, Up(m)) = k /\ Up(After(rest, m)) = After(list, k)
  <2>1. After(rest, m) = (IF m = L - 1 THEN 1 ELSE m + 1)
    BY <1>1 DEF After
  <2>2. After(list, Up(m)) = (IF Up(m) = L THEN 1 ELSE Up(m) + 1) /\ After(list, k) = (IF k = L THEN 1 ELSE k + 1)
    BY DEF After, L
  <2>. QED
    BY <1>0, <2>1, <2>2
<1>. HIDE DEF Up
<1>11. Turned(rest)
  <2>. SUFFICES ASSUME NEW m \in 1 .. L - 1, NEW j \in 1 .. L - 1
                PROVE  LET a == rest[m].at
                           b == rest[After(rest, m)].at
                       IN \/ a < b /\ (rest[j].at <= a \/ b <= rest[j].at)
                          \/ b <= a /\ b <= rest[j].at /\ rest[j].at <= a
    BY <1>1, Zenon DEF Turned
  <2>1. /\ rest[m] = list[Up(m)] /\ rest[j] = list[Up(j)]
        /\ rest[After(rest, m)] = list[Up(After(rest, m))]
        /\ Up(m) \in 1 .. L /\ Up(j) \in 1 .. L /\ Up(m) # k /\ Up(j) # k
    BY <1>1, <1>6, <1>10
  <2>2. CASE Up(After(rest, m)) = After(list, Up(m))
    BY <2>1, <2>2 DEF Turned, NodesSorted, L
  <2>3. CASE After(list, Up(m)) = k /\ Up(After(rest, m)) = After(list, k)
    <3>. DEFINE a == list[Up(m)].at
                x == list[k].at
                b == list[After(list, k)].at
                n == list[Up(j)].at
    <3>1. \/ a < x /\ (n <= a \/ x <= n)
          \/ x <= a /\ x <= n /\ n <= a
      BY <2>1, <2>3 DEF Turned, NodesSorted, L
    <3>2. \/ x < b /\ (n <= x \/ b <= n)
          \/ b <= x /\ b <= n /\ n <= x
      BY <2>1 DEF Turned, NodesSorted, L
    <3>3. \/ x < b /\ (a <= x \/ b <= a)
          \/ b <= x /\ b <= a /\ a <= x
      BY <2>1 DEF Turned, NodesSorted, L
    <3>4. \/ a < x /\ (b <= a \/ x <= b)
          \/ x <= a /\ x <= b /\ b <= a
      BY <2>1, <2>3, <1>9 DEF Turned, NodesSorted, L
    <3>5. a \in Nat /\ b \in Nat /\ x \in Nat /\ n \in Nat
      BY <1>5, <1>9, <2>1 DEF Nodes, L
    <3>6. n # x
      <4>1. list[Up(j)].at = list[k].at => Up(j) = k
        BY <1>0, <1>4, <2>1
      <4>. QED
        BY <2>1, <4>1
    <3>. HIDE DEF a, b, x, n
    <3>7. \/ a < b /\ (n <= a \/ b <= n)
          \/ b <= a /\ b <= n /\ n <= a
      BY <3>1, <3>2, <3>3, <3>4, <3>5, <3>6
    <3>. QED
      BY <2>1, <2>3, <3>7 DEF a, b, n
  <2>. QED
    BY <1>10, <2>2, <2>3
<1>12. \E m \in 1 .. L - 1 : rest[m] = Base
  <2>1. PICK j \in 1 .. L : list[j] = Base
    BY DEF NodesSorted, L
  <2>2. j # k
    BY <2>1
  <2>. QED
    BY <1>1, <1>8, <2>1, <2>2
<1>13. \A m \in 1 .. L - 1 : rest[m].at # 0 => rest[m].size # 0
  BY <1>1, <1>6 DEF NodesSorted, L
<1>14. \A m, j \in 1 .. L - 1 : rest[m].at = rest[j].at => m = j
  BY <1>1, <1>4, <1>6, <1>7
<1>15. NodesSorted(rest)
  BY <1>1, <1>11, <1>12, <1>13, <1>14 DEF NodesSorted
<1>. QED
  BY <1>3, <1>15 DEF rest

\* A node keeps its place when only its size changes.
LEMMA ResizeSorted ==
    ASSUME NEW list, NodesSorted(list), NEW k \in 1 .. Len(list), list[k] # Base,
           NEW n \in Nat \ {0}
    PROVE  /\ NodesSorted([list EXCEPT ![k].size = n])
           /\ Range([list EXCEPT ![k].size = n]) = (Range(list) \ {list[k]}) \cup {Node(list[k].at, n)}
<1>. DEFINE new == [list EXCEPT ![k].size = n]
            L == Len(list)
            e == Node(list[k].at, n)
<1>0. list \in Seq(Nodes) /\ L \in Nat /\ k \in 1 .. L /\ DOMAIN list = 1 .. L
  BY DEF NodesSorted
<1>1. \A j \in 1 .. L : list[j] \in Nodes
  BY <1>0
<1>2. e \in Nodes
  BY <1>0, <1>1 DEF Node, Nodes
<1>3. new = [list EXCEPT ![k] = e]
  <2>1. [list[k] EXCEPT !.size = n] = e
    BY <1>0, <1>1 DEF Node, Nodes
  <2>. QED
    BY <2>1
<1>4. new \in Seq(Nodes) /\ Len(new) = L /\ \A j \in 1 .. L : new[j] = IF j = k THEN e ELSE list[j]
  BY <1>0, <1>2, <1>3, ExceptSeq
<1>5. \A m, j \in 1 .. L : list[m].at = list[j].at => m = j
  BY DEF NodesSorted
<1>. HIDE DEF new, L
<1>6. \A j \in 1 .. L : new[j].at = list[j].at
  BY <1>4 DEF Node
<1>7. \A j \in 1 .. L : After(new, j) = After(list, j) /\ After(list, j) \in 1 .. L
  <2>1. Len(new) = L /\ Len(list) = L
    BY <1>4 DEF L
  <2>. QED
    BY <1>0, <2>1 DEF After
<1>8. Turned(new)
  <2>. SUFFICES ASSUME NEW m \in 1 .. L, NEW j \in 1 .. L
                PROVE  LET a == new[m].at
                           b == new[After(new, m)].at
                       IN \/ a < b /\ (new[j].at <= a \/ b <= new[j].at)
                          \/ b <= a /\ b <= new[j].at /\ new[j].at <= a
    BY <1>4, Zenon DEF Turned
  <2>1. new[m].at = list[m].at /\ new[j].at = list[j].at /\ new[After(new, m)].at = list[After(list, m)].at
    BY <1>6, <1>7
  <2>. QED
    BY <2>1 DEF Turned, NodesSorted, L
<1>9. \E m \in 1 .. L : new[m] = Base
  <2>1. PICK j \in 1 .. L : list[j] = Base
    BY DEF NodesSorted, L
  <2>2. j # k
    BY <2>1
  <2>. QED
    BY <1>4, <2>1, <2>2
<1>10. \A m \in 1 .. L : new[m].at # 0 => new[m].size # 0
  BY <1>4 DEF NodesSorted, L, Node
<1>11. NodesSorted(new)
  BY <1>4, <1>5, <1>6, <1>8, <1>9, <1>10 DEF NodesSorted
<1>12. Range(new) = (Range(list) \ {list[k]}) \cup {e}
  <2>1. DOMAIN new = 1 .. L
    BY <1>0, <1>4
  <2>2. \A j \in 1 .. L : j # k => list[j] # list[k]
    BY <1>0, <1>5
  <2>3. \A j \in 1 .. L : new[j] \in (Range(list) \ {list[k]}) \cup {e}
    BY <1>0, <1>4, <2>2 DEF Range
  <2>4. \A j \in 1 .. L : list[j] # list[k] => list[j] \in Range(new)
    BY <1>4, <2>1 DEF Range
  <2>5. e \in Range(new)
    BY <1>0, <1>4, <2>1 DEF Range
  <2>. HIDE DEF e
  <2>. QED
    BY <1>0, <2>1, <2>3, <2>4, <2>5 DEF Range
<1>. QED
  BY <1>11, <1>12 DEF new

\* So does a list that gets a node where its addresses leave a place for one.
LEMMA FirstNodeSorted ==
    ASSUME NEW list, NodesSorted(list), NEW e \in Nodes, e.at # 0, e.size # 0,
           \/ list[Len(list)].at < e.at /\ e.at < list[1].at
           \/ /\ list[Len(list)].at < e.at
              /\ \A k \in 1 .. Len(list) : list[1].at <= list[k].at /\ list[k].at <= list[Len(list)].at
    PROVE  /\ NodesSorted(<<e>> \o list)
           /\ Range(<<e>> \o list) = Range(list) \cup {e}
<1>. DEFINE new == <<e>> \o list
            L == Len(list)
<1>0. list \in Seq(Nodes) /\ L \in Nat /\ DOMAIN list = 1 .. L
  BY DEF NodesSorted
<1>1. new \in Seq(Nodes) /\ Len(new) = L + 1 /\ new[1] = e /\ \A j \in 2 .. L + 1 : new[j] = list[j - 1]
  BY <1>0
<1>2. L >= 1
  BY <1>0 DEF NodesSorted
<1>3. \A m, j \in 1 .. L : list[m].at = list[j].at => m = j
  BY DEF NodesSorted
<1>4. \A m \in 1 .. L : list[m].at \in Nat
  <2>1. \A m \in 1 .. L : list[m] \in Nodes
    BY <1>0
  <2>. QED
    BY <2>1 DEF Nodes
<1>5. e.at \in Nat
  BY DEF Nodes
<1>6. \A m, j \in 1 .. L : LET a == list[m].at
                              b == list[After(list, m)].at
                          IN \/ a < b /\ (list[j].at <= a \/ b <= list[j].at)
                             \/ b <= a /\ b <= list[j].at /\ list[j].at <= a
  BY DEF NodesSorted, Turned
<1>7. /\ list[L].at < e.at
      /\ \/ e.at < list[1].at
         \/ \A k \in 1 .. L : list[1].at <= list[k].at /\ list[k].at <= list[L].at
  OBVIOUS
<1>. HIDE DEF new, L
\* The ends of the list follow each other
<1>8. \A j \in 1 .. L : \/ e.at < list[1].at /\ (list[j].at <= list[L].at \/ list[1].at <= list[j].at)
                        \/ list[1].at <= list[j].at /\ list[j].at <= list[L].at /\ list[1].at < e.at
  <2>. TAKE j \in 1 .. L
  <2>1. L \in 1 .. L /\ 1 \in 1 .. L /\ After(list, L) = 1
    BY <1>0, <1>2 DEF After, L
  <2>2. list[L].at \in Nat /\ list[1].at \in Nat /\ list[j].at \in Nat
    BY <1>4, <2>1
  <2>3. \/ list[L].at < list[1].at /\ (list[j].at <= list[L].at \/ list[1].at <= list[j].at)
        \/ list[1].at <= list[L].at /\ list[1].at <= list[j].at /\ list[j].at <= list[L].at
    BY <1>6, <2>1
  <2>4. CASE e.at < list[1].at
    BY <1>5, <1>7, <2>2, <2>3, <2>4
  <2>5. CASE \A k \in 1 .. L : list[1].at <= list[k].at /\ list[k].at <= list[L].at
    BY <1>5, <1>7, <2>1, <2>2, <2>5
  <2>. QED
    BY <1>7, <2>4, <2>5
<1>9. \A j \in 1 .. L : list[j].at # e.at
  <2>. TAKE j \in 1 .. L
  <2>1. list[L].at \in Nat /\ list[1].at \in Nat /\ list[j].at \in Nat
    BY <1>0, <1>2, <1>4
  <2>. QED
    BY <1>5, <1>7, <1>8, <2>1
<1>10. \A j \in 1 .. L + 1 : \/ j = 1 /\ new[j] = e
                             \/ j - 1 \in 1 .. L /\ new[j] = list[j - 1]
  <2>. TAKE j \in 1 .. L + 1
  <2>1. CASE j = 1
    BY <1>1, <2>1
  <2>2. CASE j # 1
    <3>1. L \in Nat
      BY <1>0
    <3>2. j \in 2 .. L + 1 /\ j - 1 \in 1 .. L
      BY <2>2, <3>1
    <3>. QED
      BY <1>1, <3>2
  <2>. QED
    BY <2>1, <2>2
<1>11. \A m, j \in 1 .. L + 1 : new[m].at = new[j].at => m = j
  <2>. SUFFICES ASSUME NEW m \in 1 .. L + 1, NEW j \in 1 .. L + 1, new[m].at = new[j].at
                PROVE  m = j
    OBVIOUS
  <2>. QED
    BY <1>3, <1>9, <1>10
<1>12. Turned(new)
  <2>. SUFFICES ASSUME NEW m \in 1 .. L + 1, NEW j \in 1 .. L + 1
                PROVE  LET a == new[m].at
                           b == new[After(new, m)].at
                       IN \/ a < b /\ (new[j].at <= a \/ b <= new[j].at)
                          \/ b <= a /\ b <= new[j].at /\ new[j].at <= a
    BY <1>1, Zenon DEF Turned
  <2>. DEFINE n == new[j].at
  <2>0. L \in 1 .. L /\ 1 \in 1 .. L
    BY <1>0, <1>2
  <2>01. list[L].at \in Nat /\ list[1].at \in Nat
    BY <1>4, <2>0
  <2>02. \/ n = e.at
         \/ j - 1 \in 1 .. L /\ n = list[j - 1].at
    BY <1>10
  <2>1. CASE m = 1
    <3>1. new[m].at = e.at /\ new[After(new, m)].at = list[1].at
      BY <1>1, <1>2, <1>0, <2>1 DEF After
    <3>2. CASE n = e.at
      <4>1. e.at < list[1].at \/ list[1].at < e.at
        BY <1>8, <2>0
      <4>. QED
        BY <1>5, <2>01, <3>1, <3>2, <4>1
    <3>3. CASE j - 1 \in 1 .. L /\ n = list[j - 1].at
      <4>. DEFINE q == j - 1
      <4>1. q \in 1 .. L /\ n = list[q].at
        BY <3>3
      <4>. HIDE DEF q, n
      <4>2. n \in Nat
        BY <1>4, <4>1
      <4>3. \/ e.at < list[1].at /\ (n <= list[L].at \/ list[1].at <= n)
            \/ list[1].at <= n /\ n <= list[L].at /\ list[1].at < e.at
        BY <1>8, <4>1
      <4>4. \/ e.at < list[1].at /\ (n <= e.at \/ list[1].at <= n)
            \/ list[1].at <= e.at /\ list[1].at <= n /\ n <= e.at
        BY <1>5, <1>7, <2>01, <4>2, <4>3
      <4>. QED
        BY <3>1, <4>4 DEF n
    <3>. QED
      BY <2>02, <3>2, <3>3
  <2>2. CASE m = L + 1
    <3>1. new[m].at = list[L].at /\ new[After(new, m)].at = e.at
      <4>1. m \in 2 .. L + 1 /\ m - 1 = L
        BY <1>0, <1>2, <2>2
      <4>. QED
        BY <1>1, <2>2, <4>1 DEF After
    <3>2. CASE n = e.at
      BY <1>5, <1>7, <2>01, <3>1, <3>2
    <3>3. CASE j - 1 \in 1 .. L /\ n = list[j - 1].at
      <4>. DEFINE q == j - 1
      <4>1. q \in 1 .. L /\ n = list[q].at
        BY <3>3
      <4>. HIDE DEF q, n
      <4>2. n \in Nat
        BY <1>4, <4>1
      <4>3. \/ e.at < list[1].at /\ (n <= list[L].at \/ list[1].at <= n)
            \/ list[1].at <= n /\ n <= list[L].at /\ list[1].at < e.at
        BY <1>8, <4>1
      <4>4. list[L].at < e.at /\ (n <= list[L].at \/ e.at <= n)
        BY <1>5, <1>7, <2>01, <4>2, <4>3
      <4>. QED
        BY <3>1, <4>4 DEF n
    <3>. QED
      BY <2>02, <3>2, <3>3
  <2>3. CASE m # 1 /\ m # L + 1
    <3>. DEFINE p == m - 1
    <3>1. p \in 1 .. L /\ p # L /\ p + 1 \in 1 .. L /\ m + 1 - 1 = p + 1 /\ m + 1 \in 2 .. L + 1 /\ m \in 2 .. L + 1
      BY <1>0, <2>3
    <3>2. new[m] = list[p] /\ new[After(new, m)] = list[p + 1] /\ After(list, p) = p + 1
      BY <1>1, <2>3, <3>1 DEF After, L
    <3>. HIDE DEF p
    <3>3. list[p].at \in Nat /\ list[p + 1].at \in Nat
      BY <1>4, <3>1
    <3>4. \A k \in 1 .. L : \/ list[p].at < list[p + 1].at /\ (list[k].at <= list[p].at \/ list[p + 1].at <= list[k].at)
                            \/ list[p + 1].at <= list[p].at /\ list[p + 1].at <= list[k].at /\ list[k].at <= list[p].at
      BY <1>6, <3>1, <3>2
    <3>5. CASE n = e.at
      <4>1. \/ list[p].at < list[p + 1].at /\ (list[L].at <= list[p].at \/ list[p + 1].at <= list[L].at)
            \/ list[p + 1].at <= list[p].at /\ list[p + 1].at <= list[L].at /\ list[L].at <= list[p].at
        BY <2>0, <3>4
      <4>2. \/ list[p].at < list[p + 1].at /\ (list[1].at <= list[p].at \/ list[p + 1].at <= list[1].at)
            \/ list[p + 1].at <= list[p].at /\ list[p + 1].at <= list[1].at /\ list[1].at <= list[p].at
        BY <2>0, <3>4
      <4>3. \/ e.at < list[1].at /\ (list[p].at <= list[L].at \/ list[1].at <= list[p].at)
            \/ list[1].at <= list[p].at /\ list[p].at <= list[L].at /\ list[1].at < e.at
        BY <1>8, <3>1
      <4>4. \/ e.at < list[1].at /\ (list[p + 1].at <= list[L].at \/ list[1].at <= list[p + 1].at)
            \/ list[1].at <= list[p + 1].at /\ list[p + 1].at <= list[L].at /\ list[1].at < e.at
        BY <1>8, <3>1
      <4>6. list[p].at # e.at /\ list[p + 1].at # e.at /\ list[p].at # list[L].at
        BY <1>3, <1>9, <2>0, <3>1
      <4>7. list[p + 1].at # list[1].at
        <5>1. p + 1 # 1
          BY <3>1
        <5>. QED
          BY <1>3, <2>0, <3>1, <5>1
      <4>8. \/ list[p].at < list[p + 1].at /\ (e.at <= list[p].at \/ list[p + 1].at <= e.at)
            \/ list[p + 1].at <= list[p].at /\ list[p + 1].at <= e.at /\ e.at <= list[p].at
        <5>. DEFINE a == list[p].at
                    b == list[p + 1].at
                    first == list[1].at
                    last == list[L].at
                    mid == e.at
        <5>1. a \in Nat /\ b \in Nat /\ first \in Nat /\ last \in Nat /\ mid \in Nat /\ last < mid
          BY <1>5, <1>7, <2>01, <3>3
        <5>. HIDE DEF a, b, first, last, mid
        <5>2. /\ \/ a < b /\ (last <= a \/ b <= last)
                 \/ b <= a /\ b <= last /\ last <= a
              /\ \/ a < b /\ (first <= a \/ b <= first)
                 \/ b <= a /\ b <= first /\ first <= a
          BY <4>1, <4>2 DEF a, b, first, last
        <5>3. /\ \/ mid < first /\ (a <= last \/ first <= a)
                 \/ first <= a /\ a <= last /\ first < mid
              /\ \/ mid < first /\ (b <= last \/ first <= b)
                 \/ first <= b /\ b <= last /\ first < mid
          BY <4>3, <4>4 DEF a, b, first, last, mid
        <5>4. a # mid /\ b # mid /\ a # last /\ b # first
          BY <4>6, <4>7 DEF a, b, first, last, mid
        <5>5. \/ a < b /\ (mid <= a \/ b <= mid)
              \/ b <= a /\ b <= mid /\ mid <= a
          BY <5>1, <5>2, <5>3, <5>4
        <5>. QED
          BY <5>5 DEF a, b, mid
      <4>. QED
        BY <3>2, <3>5, <4>8
    <3>6. CASE j - 1 \in 1 .. L /\ n = list[j - 1].at
      BY <3>2, <3>4, <3>6
    <3>. QED
      BY <2>02, <3>5, <3>6
  <2>. QED
    BY <2>1, <2>2, <2>3
<1>13. \E m \in 1 .. L + 1 : new[m] = Base
  <2>1. PICK j \in 1 .. L : list[j] = Base
    BY DEF NodesSorted, L
  <2>2. j + 1 \in 2 .. L + 1 /\ j + 1 - 1 = j /\ j + 1 \in 1 .. L + 1
    BY <1>0
  <2>. QED
    BY <1>1, <2>1, <2>2
<1>14. \A m \in 1 .. L + 1 : new[m].at # 0 => new[m].size # 0
  BY <1>10 DEF NodesSorted, L
<1>15. NodesSorted(new)
  BY <1>1, <1>11, <1>12, <1>13, <1>14 DEF NodesSorted
<1>16. Range(new) = Range(list) \cup {e}
  <2>1. DOMAIN new = 1 .. L + 1
    BY <1>0, <1>1
  <2>2. \A j \in 1 .. L + 1 : new[j] \in Range(list) \cup {e}
    BY <1>0, <1>10 DEF Range
  <2>3. \A j \in 1 .. L : list[j] \in Range(new)
    <3>. TAKE j \in 1 .. L
    <3>1. j + 1 \in 2 .. L + 1 /\ j + 1 - 1 = j /\ j + 1 \in 1 .. L + 1
      BY <1>0
    <3>. QED
      BY <1>1, <2>1, <3>1, SMTT(60) DEF Range
  <2>4. e \in Range(new)
    BY <1>0, <1>1, <2>1 DEF Range
  <2>. QED
    BY <1>0, <2>1, <2>2, <2>3, <2>4 DEF Range
<1>. QED
  BY <1>15, <1>16 DEF new

\* Between the nodes a block is freed between, or after the last one around the list
LEMMA PlaceStops ==
    ASSUME NEW list, NodesSorted(list), NEW at \in Nat \ {0},
           \A k \in 1 .. Len(list) : list[k].at # at
    PROVE  /\ Place(list, at) \in 1 .. Len(list)
           /\ Stops(list, Place(list, at), at)
<1>. DEFINE L == Len(list)
            S == {k \in DOMAIN list : Stops(list, k, at)}
            Below == {n \in Nat : \E k \in 1 .. L : list[k].at < at /\ n = at - list[k].at}
<1>0. list \in Seq(Nodes) /\ L \in Nat /\ DOMAIN list = 1 .. L
  BY DEF NodesSorted
<1>1. \A k \in 1 .. L : list[k].at \in Nat
  <2>1. \A k \in 1 .. L : list[k] \in Nodes
    BY <1>0
  <2>. QED
    BY <2>1 DEF Nodes
<1>2. Below # {} /\ Below \in SUBSET Nat
  <2>1. PICK k \in 1 .. L : list[k] = Base
    BY DEF NodesSorted
  <2>2. list[k].at = 0
    BY <2>1 DEF Base
  <2>3. at \in Below
    <3>1. list[k].at < at /\ at = at - list[k].at
      BY <2>2
    <3>. QED
      BY <3>1
  <2>. QED
    BY <2>3
<1>3. PICK k \in 1 .. L : list[k].at < at /\ Min(Below) = at - list[k].at
  BY <1>2, MinOfNat
<1>4. \A j \in 1 .. L : list[j].at < at => list[j].at <= list[k].at
  <2>. SUFFICES ASSUME NEW j \in 1 .. L, list[j].at < at
                PROVE  list[j].at <= list[k].at
    OBVIOUS
  <2>1. list[j].at \in Nat /\ list[k].at \in Nat
    BY <1>1
  <2>2. at - list[j].at \in Below
    BY <2>1
  <2>3. at - list[k].at <= at - list[j].at
    <3>. HIDE DEF Below
    <3>1. \A y \in Below : Min(Below) <= y
      BY <1>2, MinOfNat
    <3>. QED
      BY <1>3, <2>2, <3>1
  <2>. QED
    BY <2>1, <2>3
<1>5. (k % L) + 1 = After(list, k) /\ After(list, k) \in 1 .. L
  <2>1. \A m \in Nat : \A n \in 1 .. m : (n % m) + 1 = IF n = m THEN 1 ELSE n + 1
    <3>. SUFFICES ASSUME NEW m \in Nat, NEW n \in 1 .. m
                  PROVE  (n % m) + 1 = IF n = m THEN 1 ELSE n + 1
      OBVIOUS
    <3>1. CASE n = m
      BY <3>1
    <3>2. CASE n < m
      BY <3>2
    <3>. QED
      BY <3>1, <3>2
  <2>2. L \in Nat /\ k \in 1 .. L
    BY <1>0
  <2>3. After(list, k) = IF k = L THEN 1 ELSE k + 1
    BY DEF After
  <2>. HIDE DEF L
  <2>4. (k % L) + 1 = IF k = L THEN 1 ELSE k + 1
    BY <2>1, <2>2
  <2>5. After(list, k) \in 1 .. L
    BY <2>2, <2>3
  <2>. QED
    BY <2>3, <2>4, <2>5
<1>6. Stops(list, k, at)
  <2>. DEFINE a == list[k].at
              b == list[After(list, k)].at
  <2>1. a \in Nat /\ b \in Nat /\ a < at
    BY <1>1, <1>3, <1>5
  <2>2. b # at /\ (b < at => b <= a)
    BY <1>4, <1>5
  <2>3. (a < at /\ at < b) \/ (a >= b /\ (at > a \/ at < b))
    <3>. HIDE DEF a, b
    <3>. QED
      BY <2>1, <2>2
  <2>. QED
    BY <1>5, <2>3 DEF Stops
<1>7. S # {} /\ S \in SUBSET Nat
  BY <1>0, <1>6
<1>8. Min(S) \in S
  BY <1>7, MinOfNat
<1>. QED
  <2>1. CASE Stops(list, Len(list), at)
    <3>1. Place(list, at) = Len(list)
      BY <2>1 DEF Place
    <3>2. Len(list) \in 1 .. Len(list)
      BY <1>0, <1>3
    <3>. QED
      BY <2>1, <3>1, <3>2
  <2>2. CASE ~ Stops(list, Len(list), at)
    <3>1. Place(list, at) = Min(S)
      BY <2>2 DEF Place
    <3>. QED
      BY <1>0, <1>8, <3>1
  <2>. QED
    BY <2>1, <2>2

\* The list turned to begin after the place of a block
LEMMA TurnedToPlace ==
    ASSUME NEW list, NodesSorted(list), NEW at \in Nat \ {0},
           \A k \in 1 .. Len(list) : list[k].at # at,
           NEW turn, turn = Rover(list, Place(list, at))
    PROVE  /\ NodesSorted(turn) /\ Range(turn) = Range(list)
           /\ Len(turn) \in Nat \ {0}
           /\ turn[Len(turn)].at < at
           /\ \/ at < turn[1].at
              \/ \A k \in 1 .. Len(turn) : turn[1].at <= turn[k].at /\ turn[k].at <= turn[Len(turn)].at
<1>. DEFINE p == Place(list, at)
            L == Len(list)
<1>0. list \in Seq(Nodes) /\ L \in Nat
  BY DEF NodesSorted
<1>1. p \in 1 .. L /\ Stops(list, p, at)
  BY PlaceStops
<1>2. /\ turn \in Seq(Nodes) /\ Len(turn) = L
      /\ \A j \in 1 .. L : turn[j] = list[IF j + p <= L THEN j + p ELSE j + p - L]
  <2>1. p \in 0 .. Len(list)
    <3>. HIDE DEF p
    <3>. QED BY <1>0, <1>1
  <2>. HIDE DEF p
  <2>2. turn = Rover(list, p)
    BY DEF p
  <2>. QED
    BY <1>0, <2>1, <2>2, RoverProperties
<1>3. NodesSorted(turn) /\ Range(turn) = Range(list)
  BY <1>1, RoverSorted
<1>. HIDE DEF p, L
<1>4. L \in 1 .. L /\ 1 \in 1 .. L /\ L \in Nat \ {0}
  BY <1>0, <1>1
<1>5. turn[L] = list[p]
  <2>1. ~ (L + p <= L) /\ L + p - L = p
    BY <1>0, <1>1
  <2>. QED
    BY <1>2, <1>4, <2>1
<1>6. turn[1] = list[(p % L) + 1]
  <2>1. CASE p = L
    <3>1. (p % L) + 1 = 1 /\ ~ (1 + p <= L) /\ 1 + p - L = 1
      BY <1>0, <1>4, <2>1
    <3>. QED
      BY <1>2, <1>4, <3>1
  <2>2. CASE p < L
    <3>0. p \in Nat /\ L \in Nat /\ p < L
      BY <1>0, <1>1, <2>2
    <3>. HIDE DEF p, L
    <3>1. (p % L) + 1 = p + 1 /\ 1 + p <= L /\ 1 + p = p + 1
      BY <3>0
    <3>. QED
      BY <1>2, <1>4, <3>1
  <2>. QED
    BY <1>0, <1>1, <2>1, <2>2
<1>7. \A k \in 1 .. L : turn[k].at \in Nat
  <2>1. \A k \in 1 .. L : turn[k] \in Nodes
    BY <1>2
  <2>. QED
    BY <2>1 DEF Nodes
<1>. DEFINE a == turn[L].at
            b == turn[1].at
<1>8. a \in Nat /\ b \in Nat
  BY <1>4, <1>7
<1>9. (a < at /\ at < b) \/ (a >= b /\ (at > a \/ at < b))
  BY <1>1, <1>5, <1>6 DEF Stops, L
<1>10. \A k \in 1 .. L : \/ a < b /\ (turn[k].at <= a \/ b <= turn[k].at)
                         \/ b <= a /\ b <= turn[k].at /\ turn[k].at <= a
  <2>1. After(turn, L) = 1
    BY <1>2 DEF After
  <2>. QED
    BY <1>2, <1>3, <1>4, <2>1 DEF NodesSorted, Turned
<1>11. PICK m \in 1 .. L : turn[m].at = 0
  BY <1>2, <1>3 DEF NodesSorted, Base
<1>12. b <= a => b = 0
  <2>1. \/ a < b /\ (turn[m].at <= a \/ b <= turn[m].at)
        \/ b <= a /\ b <= turn[m].at /\ turn[m].at <= a
    BY <1>10
  <2>. HIDE DEF a, b
  <2>. QED
    BY <1>8, <1>11, <2>1
<1>13. a < at /\ (at < b \/ b <= a)
  <2>. HIDE DEF a, b
  <2>. QED
    BY <1>8, <1>9, <1>12
<1>14. b <= a => \A k \in 1 .. L : b <= turn[k].at /\ turn[k].at <= a
  <2>. HIDE DEF a, b
  <2>. SUFFICES ASSUME b <= a, NEW k \in 1 .. L
                PROVE  b <= turn[k].at /\ turn[k].at <= a
    OBVIOUS
  <2>. DEFINE n == turn[k].at
  <2>1. \/ a < b /\ (n <= a \/ b <= n)
        \/ b <= a /\ b <= n /\ n <= a
    BY <1>10
  <2>. HIDE DEF n
  <2>2. b <= n /\ n <= a
    BY <1>8, <2>1
  <2>. QED
    BY <2>2 DEF n
<1>. QED
  BY <1>2, <1>3, <1>4, <1>13, <1>14
\* A set of nodes and blocks that share no unit, and have all of them
Tiles(set) ==
    /\ UNION {Extent(x) : x \in set} = 1 .. Units
    /\ \A x, y \in set : x # y => Extent(x) \cap Extent(y) = {}

\* Some of them may be replaced by others that have the same units
LEMMA Replaced ==
    ASSUME NEW set, Tiles(set), NEW old \in SUBSET set, NEW new,
           \A n : (\E x \in old : n \in Extent(x)) <=> (\E x \in new : n \in Extent(x)),
           \A x, y \in new : x # y => Extent(x) \cap Extent(y) = {}
    PROVE  Tiles((set \ old) \cup new)
<1>. DEFINE next == (set \ old) \cup new
<1>1. \A n : n \in UNION {Extent(x) : x \in next} <=> n \in UNION {Extent(x) : x \in set}
  <2>1. \A n : n \in UNION {Extent(x) : x \in set} <=> \E x \in set : n \in Extent(x)
    OBVIOUS
  <2>2. \A n : n \in UNION {Extent(x) : x \in next} <=> \E x \in next : n \in Extent(x)
    OBVIOUS
  <2>3. \A n : (\E x \in next : n \in Extent(x)) <=> (\E x \in set : n \in Extent(x))
    BY Zenon
  <2>. QED
    BY <2>1, <2>2, <2>3, Zenon
<1>2. UNION {Extent(x) : x \in next} = 1 .. Units
  BY <1>1, Zenon DEF Tiles
<1>3. \A x, y \in set : \A n : x # y => ~ (n \in Extent(x) /\ n \in Extent(y))
  BY Zenon DEF Tiles
<1>4. \A x, y \in new : \A n : x # y => ~ (n \in Extent(x) /\ n \in Extent(y))
  BY Zenon
<1>5. \A x \in set \ old : \A y \in new : \A n : ~ (n \in Extent(x) /\ n \in Extent(y))
  <2>. SUFFICES ASSUME NEW x \in set \ old, NEW y \in new, NEW n, n \in Extent(x), n \in Extent(y)
                PROVE  FALSE
    BY Zenon
  <2>1. PICK z \in old : n \in Extent(z)
    BY Zenon
  <2>. QED
    BY <1>3, <2>1, Zenon
<1>6. \A x, y \in next : \A n : x # y => ~ (n \in Extent(x) /\ n \in Extent(y))
  BY <1>3, <1>4, <1>5, Zenon
<1>7. \A x, y \in next : x # y => Extent(x) \cap Extent(y) = {}
  BY <1>6
<1>. QED
  BY <1>2, <1>7 DEF Tiles

\* Two that share no unit: one ends before the other begins.
LEMMA ExtentsApart ==
    ASSUME NEW x, NEW y, x.at \in Nat, x.size \in Nat \ {0}, y.at \in Nat, y.size \in Nat \ {0},
           Extent(x) \cap Extent(y) = {}
    PROVE  x.at + x.size <= y.at \/ y.at + y.size <= x.at
<1>1. \A n : ~ (n \in Extent(x) /\ n \in Extent(y))
  OBVIOUS
<1>2. \A n \in Nat : ~ (x.at <= n /\ n <= x.at + x.size - 1 /\ y.at <= n /\ n <= y.at + y.size - 1)
  BY <1>1 DEF Extent
<1>. QED
  BY <1>2

\* The nodes of a heap's list: no two touch
Apart(nodes) == \A x, y \in nodes \ {Base} : x.at + x.size # y.at

\* A node is not a block: it has no heap
Block == [heap : Heap, at : Nat \ {0}, size : Nat \ {0}]

LEMMA NodeIsNoBlock == Nodes \cap Block = {}
<1>. SUFFICES ASSUME NEW x \in Nodes, NEW y \in Block, x = y
              PROVE  FALSE
  OBVIOUS
<1>1. DOMAIN x = {"at", "size"} /\ DOMAIN y = {"heap", "at", "size"}
  BY DEF Nodes, Block
<1>. QED
  BY <1>1

\* The nodes and the blocks of a heap
HeapParts(list, blocks) ==
    /\ NodesSorted(list)
    /\ blocks \subseteq Block
    /\ Tiles(Range(list) \cup blocks)
    /\ Apart(Range(list))

\* What the proofs below use of a list in order.
LEMMA SortedFacts ==
    ASSUME NEW list, NodesSorted(list)
    PROVE  /\ list \in Seq(Nodes) /\ DOMAIN list = 1 .. Len(list) /\ Len(list) \in Nat
           /\ Range(list) \subseteq Nodes /\ Base \in Range(list)
           /\ \A x \in Range(list) : x.at \in Nat /\ x.size \in Nat
           /\ \A x \in Range(list) : x.at # 0 <=> x # Base
           /\ \A x \in Range(list) \ {Base} : x.at \in Nat \ {0} /\ x.size \in Nat \ {0}
           /\ \A x, y \in Range(list) : x.at = y.at => x = y
<1>1. list \in Seq(Nodes) /\ DOMAIN list = 1 .. Len(list) /\ Len(list) \in Nat
  BY DEF NodesSorted
<1>2. \A k \in 1 .. Len(list) : list[k] \in Nodes
  BY <1>1
<1>3. Range(list) \subseteq Nodes
  BY <1>1, <1>2 DEF Range
<1>4. Base \in Range(list)
  BY <1>1 DEF NodesSorted, Range
<1>5. \A x, y \in Range(list) : x.at = y.at => x = y
  BY <1>1 DEF NodesSorted, Range
<1>6. \A x \in Range(list) : x.at # 0 => x.size # 0
  BY <1>1 DEF NodesSorted, Range
<1>7. \A x \in Range(list) : x.at \in Nat /\ x.size \in Nat
  BY <1>3 DEF Nodes
<1>8. \A x \in Range(list) : x.at # 0 <=> x # Base
  BY <1>4, <1>5 DEF Base
<1>. QED
  BY <1>1, <1>3, <1>4, <1>5, <1>6, <1>7, <1>8

\* OS_HeapMalloc: the node loses its tail end, or leaves the list
LEMMA TakeParts ==
    ASSUME NEW list, NEW blocks, HeapParts(list, blocks), NEW h \in Heap, NEW units \in Nat \ {0},
           Big(list, units) # {}
    PROVE  LET k     == Min(Big(list, units))
               left  == list[k].size - units
               rest  == IF left = 0 THEN RemoveAt(list, k) ELSE [list EXCEPT ![k].size = left]
               block == [heap |-> h, at |-> list[k].at + left, size |-> units]
           IN /\ block \in Block
              /\ HeapParts(Rover(rest, k - 1), blocks \cup {block})
<1>. DEFINE k     == Min(Big(list, units))
            x     == list[k]
            left  == list[k].size - units
            rest  == IF left = 0 THEN RemoveAt(list, k) ELSE [list EXCEPT ![k].size = left]
            block == [heap |-> h, at |-> list[k].at + left, size |-> units]
            nodes == Range(list)
<1>0. NodesSorted(list) /\ blocks \subseteq Block /\ Tiles(nodes \cup blocks) /\ Apart(nodes)
  BY DEF HeapParts
<1>1. /\ list \in Seq(Nodes) /\ DOMAIN list = 1 .. Len(list) /\ Len(list) \in Nat
      /\ nodes \subseteq Nodes
      /\ \A y \in nodes \ {Base} : y.at \in Nat \ {0} /\ y.size \in Nat \ {0}
  BY <1>0, SortedFacts
<1>2. k \in 1 .. Len(list) /\ list[k].size >= units
  <2>1. Big(list, units) \in SUBSET Nat
    BY <1>1 DEF Big
  <2>2. k \in Big(list, units)
    BY <2>1, MinOfNat
  <2>. HIDE DEF k
  <2>. QED
    BY <1>1, <2>2 DEF Big
<1>. HIDE DEF k
<1>3. x \in nodes /\ x # Base
  BY <1>1, <1>2 DEF Range, Base
<1>4. x.at \in Nat \ {0} /\ x.size \in Nat \ {0} /\ left \in Nat /\ left + units = x.size
  BY <1>1, <1>2, <1>3
<1>40. rest = (IF left = 0 THEN RemoveAt(list, k) ELSE [list EXCEPT ![k].size = left])
  OBVIOUS
<1>41. block = [heap |-> h, at |-> x.at + left, size |-> units]
  OBVIOUS
<1>. HIDE DEF x, left, rest, block, nodes
<1>5. block \in Block /\ block.at = x.at + left /\ block.size = units
  <2>1. x.at + left \in Nat \ {0}
    BY <1>4
  <2>. QED
    BY <1>41, <2>1 DEF Block
<1>6. nodes \cap (blocks \cup {block}) = {}
  BY <1>0, <1>1, <1>5, NodeIsNoBlock
<1>7. Extent(x) = x.at .. x.at + x.size - 1 /\ Extent(block) = x.at + left .. x.at + x.size - 1
  <2>1. x.at + left + units - 1 = x.at + x.size - 1
    BY <1>4
  <2>2. Extent(block) = block.at .. block.at + block.size - 1
    BY DEF Extent
  <2>. QED
    BY <1>5, <2>1, <2>2 DEF Extent
<1>8. ASSUME left = 0
      PROVE  HeapParts(Rover(rest, k - 1), blocks \cup {block})
  <2>1. rest = RemoveAt(list, k)
    BY <1>8, <1>40
  <2>2. NodesSorted(rest) /\ Range(rest) = nodes \ {x}
    BY <1>0, <1>2, <1>3, <2>1, RemoveNodeSorted DEF nodes, x
  <2>3. k - 1 \in 0 .. Len(rest)
    <3>1. Len(rest) = Len(list) - 1
      BY <1>1, <1>2, <2>1, RemoveAtProperties
    <3>. QED
      BY <1>1, <1>2, <3>1
  <2>4. NodesSorted(Rover(rest, k - 1)) /\ Range(Rover(rest, k - 1)) = nodes \ {x}
    BY <2>2, <2>3, RoverSorted
  <2>5. Extent(x) = Extent(block)
    <3>1. x.at + left = x.at
      BY <1>4, <1>8
    <3>. QED
      BY <1>7, <3>1
  <2>6. Tiles(((nodes \cup blocks) \ {x}) \cup {block})
    <3>1. \A n : (\E y \in {x} : n \in Extent(y)) <=> (\E y \in {block} : n \in Extent(y))
      BY <2>5, Zenon
    <3>2. {x} \in SUBSET (nodes \cup blocks)
      BY <1>3
    <3>3. \A y, z \in {block} : y # z => Extent(y) \cap Extent(z) = {}
      OBVIOUS
    <3>. QED
      BY <1>0, <3>1, <3>2, <3>3, Replaced
  <2>7. ((nodes \cup blocks) \ {x}) \cup {block} = (nodes \ {x}) \cup (blocks \cup {block})
    BY <1>3, <1>6
  <2>8. Apart(nodes \ {x})
    BY <1>0 DEF Apart
  <2>. DEFINE turn == Rover(rest, k - 1)
              all == blocks \cup {block}
  <2>9. Tiles(Range(turn) \cup all)
    BY <2>4, <2>6, <2>7
  <2>10. all \subseteq Block /\ NodesSorted(turn) /\ Apart(Range(turn))
    BY <1>0, <1>5, <2>4, <2>8
  <2>. HIDE DEF turn, all
  <2>11. HeapParts(turn, all)
    BY <2>9, <2>10 DEF HeapParts
  <2>. QED
    BY <2>11 DEF turn, all
<1>9. ASSUME left # 0
      PROVE  HeapParts(Rover(rest, k - 1), blocks \cup {block})
  <2>. DEFINE e == Node(x.at, left)
  <2>1. rest = [list EXCEPT ![k].size = left] /\ left \in Nat \ {0}
    BY <1>4, <1>40, <1>9
  <2>2. NodesSorted(rest) /\ Range(rest) = (nodes \ {x}) \cup {e}
    BY <1>0, <1>2, <1>3, <2>1, ResizeSorted DEF nodes, x
  <2>3. k - 1 \in 0 .. Len(rest)
    <3>1. Len(rest) = Len(list)
      BY <1>1, <2>1
    <3>. QED
      BY <1>1, <1>2, <3>1
  <2>4. NodesSorted(Rover(rest, k - 1)) /\ Range(Rover(rest, k - 1)) = (nodes \ {x}) \cup {e}
    BY <2>2, <2>3, RoverSorted
  <2>5. e.at = x.at /\ e.size = left /\ e \in Nodes /\ e # Base
    <3>1. x.at \in Nat /\ x.at # 0 /\ left \in Nat
      BY <1>4
    <3>2. e = [at |-> x.at, size |-> left]
      BY DEF Node
    <3>. HIDE DEF e
    <3>3. e.at = x.at /\ e.size = left /\ e \in Nodes
      BY <3>1, <3>2 DEF Nodes
    <3>. QED
      BY <3>1, <3>3 DEF Base
  <2>6. Extent(e) = x.at .. x.at + left - 1
    BY <2>5 DEF Extent
  <2>. HIDE DEF e
  <2>7. Tiles(((nodes \cup blocks) \ {x}) \cup {e, block})
    <3>. DEFINE a == x.at
                c == x.size
    <3>0. /\ a \in Nat /\ c \in Nat /\ left \in Nat \ {0} /\ left < c
          /\ Extent(x) = a .. a + c - 1 /\ Extent(block) = a + left .. a + c - 1
          /\ Extent(e) = a .. a + left - 1
      BY <1>4, <1>7, <2>1, <2>6
    <3>. HIDE DEF a, c
    <3>1. \A n : n \in Extent(x) <=> n \in Extent(e) \/ n \in Extent(block)
      BY <3>0
    <3>2. {x} \in SUBSET (nodes \cup blocks)
      BY <1>3
    <3>3. Extent(e) \cap Extent(block) = {}
      BY <3>0
    <3>4. \A n : (\E y \in {x} : n \in Extent(y)) <=> (\E y \in {e, block} : n \in Extent(y))
      BY <3>1, Zenon
    <3>5. \A y, z \in {e, block} : y # z => Extent(y) \cap Extent(z) = {}
      BY <3>3
    <3>. QED
      BY <1>0, <3>2, <3>4, <3>5, Replaced
  <2>8. ((nodes \cup blocks) \ {x}) \cup {e, block} = ((nodes \ {x}) \cup {e}) \cup (blocks \cup {block})
    BY <1>3, <1>6
  <2>9. Apart((nodes \ {x}) \cup {e})
    <3>1. \A y, z \in nodes \ {Base} : y.at + y.size # z.at
      BY <1>0 DEF Apart
    <3>2. \A y \in nodes \ {Base} : y # x => y.at + y.size <= x.at \/ x.at + x.size <= y.at
      <4>. SUFFICES ASSUME NEW y \in nodes \ {Base}, y # x
                    PROVE  y.at + y.size <= x.at \/ x.at + x.size <= y.at
        OBVIOUS
      <4>1. Extent(y) \cap Extent(x) = {}
        BY <1>0, <1>3 DEF Tiles
      <4>2. y.at \in Nat /\ y.size \in Nat \ {0} /\ x.at \in Nat /\ x.size \in Nat \ {0}
        BY <1>1, <1>4
      <4>. QED
        BY <4>1, <4>2, ExtentsApart
    <3>3. \A y \in nodes \ {Base} : y # x => y.at + y.size # e.at /\ e.at + e.size # y.at
      <4>. SUFFICES ASSUME NEW y \in nodes \ {Base}, y # x
                    PROVE  y.at + y.size # e.at /\ e.at + e.size # y.at
        OBVIOUS
      <4>1. y.at \in Nat /\ y.size \in Nat \ {0} /\ y.at + y.size # x.at
        BY <1>1, <1>3, <3>1
      <4>. QED
        BY <1>4, <1>9, <2>5, <3>2, <4>1
    <3>4. e.at + e.size # e.at
      BY <1>4, <1>9, <2>5
    <3>. QED
      BY <3>1, <3>3, <3>4 DEF Apart
  <2>. DEFINE turn == Rover(rest, k - 1)
              all == blocks \cup {block}
  <2>10. Tiles(Range(turn) \cup all)
    BY <2>4, <2>7, <2>8
  <2>11. all \subseteq Block /\ NodesSorted(turn) /\ Apart(Range(turn))
    BY <1>0, <1>5, <2>4, <2>9
  <2>. HIDE DEF turn, all
  <2>12. HeapParts(turn, all)
    BY <2>10, <2>11 DEF HeapParts
  <2>. QED
    BY <2>12 DEF turn, all
<1>10. block \in Block /\ HeapParts(Rover(rest, k - 1), blocks \cup {block})
  BY <1>5, <1>8, <1>9, Zenon
<1>. QED
  BY <1>10 DEF k, left, rest, block
\* OS_HeapFree: the block becomes a node, or makes one or two of those beside it larger
LEMMA JoinParts ==
    ASSUME NEW list, NEW blocks, HeapParts(list, blocks), NEW block \in blocks
    PROVE  HeapParts(Join(list, block), blocks \ {block})
<1>. DEFINE nodes == Range(list)
            at    == block.at
            end   == block.at + block.size
            turn  == Rover(list, Place(list, at))
            up    == end = Head(turn).at
            size  == block.size + (IF up THEN Head(turn).size ELSE 0)
            bp    == Node(at, size)
            rest  == IF up THEN Tail(turn) ELSE turn
            low   == Last(rest).at + Last(rest).size = at
            new   == Join(list, block)
<1>0. NodesSorted(list) /\ blocks \subseteq Block /\ Tiles(nodes \cup blocks) /\ Apart(nodes)
  BY DEF HeapParts
<1>1. at \in Nat \ {0} /\ block.size \in Nat \ {0} /\ end \in Nat /\ end = at + block.size
  BY <1>0 DEF Block
<1>2. /\ list \in Seq(Nodes) /\ DOMAIN list = 1 .. Len(list)
      /\ nodes \subseteq Nodes /\ Base \in nodes
      /\ \A x \in nodes : x.at \in Nat /\ x.size \in Nat
      /\ \A x \in nodes : x.at # 0 <=> x # Base
      /\ \A x \in nodes \ {Base} : x.at \in Nat \ {0} /\ x.size \in Nat \ {0}
      /\ \A x, y \in nodes : x.at = y.at => x = y
  BY <1>0, SortedFacts
<1>3. block \notin nodes
  BY <1>0, <1>2, NodeIsNoBlock
<1>4. ASSUME NEW x \in nodes \ {Base}
      PROVE  x.at + x.size <= at \/ end <= x.at
  <2>1. x # block /\ x \in nodes \cup blocks /\ block \in nodes \cup blocks
    BY <1>3
  <2>2. Extent(x) \cap Extent(block) = {}
    BY <1>0, <2>1 DEF Tiles
  <2>3. x.at \in Nat /\ x.size \in Nat \ {0} /\ block.at \in Nat
    BY <1>1, <1>2
  <2>. HIDE DEF nodes
  <2>. QED
    BY <1>1, <2>2, <2>3, ExtentsApart
<1>5. ASSUME NEW x \in nodes \ {Base}, NEW y \in nodes \ {Base}, x # y
      PROVE  x.at + x.size <= y.at \/ y.at + y.size <= x.at
  <2>1. Extent(x) \cap Extent(y) = {}
    BY <1>0, <1>5 DEF Tiles
  <2>2. x.at \in Nat /\ x.size \in Nat \ {0} /\ y.at \in Nat /\ y.size \in Nat \ {0}
    BY <1>2
  <2>. HIDE DEF nodes
  <2>. QED
    BY <2>1, <2>2, ExtentsApart
<1>6. \A x, y \in nodes \ {Base} : x.at + x.size # y.at
  BY <1>0 DEF Apart
<1>7. \A j \in 1 .. Len(list) : list[j].at # at
  <2>. SUFFICES ASSUME NEW j \in 1 .. Len(list), list[j].at = at
                PROVE  FALSE
    OBVIOUS
  <2>1. list[j] \in nodes
    BY <1>2 DEF Range
  <2>. DEFINE x == list[j]
  <2>2. x \in nodes \ {Base}
    BY <1>1, <1>2, <2>1
  <2>3. x.at = at /\ x.size \in Nat \ {0} /\ (x.at + x.size <= at \/ end <= x.at)
    BY <1>2, <1>4, <2>2
  <2>. HIDE DEF x, at, end
  <2>. QED
    BY <1>1, <2>3
<1>. HIDE DEF at, end, nodes
<1>8. /\ NodesSorted(turn) /\ Range(turn) = nodes
      /\ Len(turn) \in Nat \ {0}
      /\ turn[Len(turn)].at < at
      /\ \/ at < turn[1].at
         \/ \A k \in 1 .. Len(turn) : turn[1].at <= turn[k].at /\ turn[k].at <= turn[Len(turn)].at
  BY <1>0, <1>1, <1>7, TurnedToPlace DEF nodes
<1>. HIDE DEF turn
<1>9. /\ turn \in Seq(Nodes) /\ DOMAIN turn = 1 .. Len(turn)
      /\ \A k \in 1 .. Len(turn) : turn[k] \in nodes
  BY <1>8, SortedFacts DEF Range
<1>. DEFINE U == turn[1]
            W == turn[Len(turn)]
<1>10. Head(turn) = U /\ U \in nodes /\ W \in nodes
  BY <1>8, <1>9
\* The other nodes are beyond these two
<1>11. \A x \in nodes : x.at <= W.at \/ (at < U.at /\ U.at <= x.at)
  <2>. SUFFICES ASSUME NEW x \in nodes
                PROVE  x.at <= W.at \/ (at < U.at /\ U.at <= x.at)
    OBVIOUS
  <2>1. PICK j \in 1 .. Len(turn) : x = turn[j]
    BY <1>8, <1>9 DEF Range
  <2>2. Len(turn) \in 1 .. Len(turn) /\ After(turn, Len(turn)) = 1
    BY <1>8 DEF After
  <2>3. \/ W.at < U.at /\ (x.at <= W.at \/ U.at <= x.at)
        \/ U.at <= W.at /\ U.at <= x.at /\ x.at <= W.at
    BY <1>8, <2>1, <2>2 DEF NodesSorted, Turned
  <2>4. at < U.at \/ x.at <= W.at
    BY <1>8, <2>1
  <2>5. x.at \in Nat /\ U.at \in Nat /\ W.at \in Nat
    BY <1>2, <1>10
  <2>. HIDE DEF U, W
  <2>. QED
    BY <2>3, <2>4, <2>5
<1>12. W.at < at /\ W.at \in Nat /\ W.size \in Nat /\ U.at \in Nat /\ U.size \in Nat
  BY <1>2, <1>8, <1>10
<1>. HIDE DEF U, W
\* What is above the block, if it touches
<1>13. ASSUME NEW x \in nodes \ {Base}, x.at = end
       PROVE  x = U
  <2>1. x.at \in Nat /\ x.size \in Nat \ {0}
    BY <1>2
  <2>2. end <= U.at \/ U.at + U.size <= at \/ U = Base
    BY <1>4, <1>10
  <2>3. U = Base => U.at = 0
    BY DEF Base
  <2>4. x.at <= W.at \/ (at < U.at /\ U.at <= x.at)
    BY <1>11
  <2>5. x.at = U.at
    BY <1>1, <1>12, <1>13, <2>1, <2>2, <2>3, <2>4
  <2>. QED
    BY <1>2, <1>10, <2>5
\* What is below it
<1>14. ASSUME NEW x \in nodes \ {Base}, x.at + x.size = at
       PROVE  x = W
  <2>1. x.at \in Nat /\ x.size \in Nat \ {0}
    BY <1>2
  <2>2. x.at <= W.at
    BY <1>1, <1>11, <1>12, <1>14, <2>1
  <2>3. W # Base /\ x # W => x.at + x.size <= W.at \/ W.at + W.size <= x.at
    BY <1>5, <1>10
  <2>4. W # Base => W.size \in Nat \ {0}
    BY <1>2, <1>10
  <2>5. W = Base => W.at = 0
    BY DEF Base
  <2>6. W # Base
    BY <1>12, <1>14, <2>1, <2>2, <2>5, <1>2
  <2>7. ~ (x.at + x.size <= W.at \/ W.at + W.size <= x.at)
    BY <1>12, <1>14, <2>1, <2>2, <2>4, <2>6
  <2>. QED
    BY <2>3, <2>6, <2>7
<1>15. rest = (IF up THEN RemoveAt(turn, 1) ELSE turn)
  <2>1. CASE up
    <3>1. Len(turn) \in Nat /\ Len(turn) >= 1
      BY <1>8
    <3>2. SubSeq(turn, 1, 0) = <<>> /\ Tail(turn) = SubSeq(turn, 2, Len(turn))
      BY <1>9, <3>1
    <3>3. RemoveAt(turn, 1) = SubSeq(turn, 1, 1 - 1) \o SubSeq(turn, 1 + 1, Len(turn))
      BY DEF RemoveAt
    <3>4. SubSeq(turn, 2, Len(turn)) \in Seq(Nodes)
      BY <1>9, <3>1
    <3>5. RemoveAt(turn, 1) = <<>> \o SubSeq(turn, 2, Len(turn))
      BY <3>2, <3>3
    <3>6. RemoveAt(turn, 1) = Tail(turn)
      BY <3>2, <3>4, <3>5, ConcatEmptySeq
    <3>. QED
      BY <2>1, <3>6
  <2>2. CASE ~ up
    BY <2>2
  <2>. QED
    BY <2>1, <2>2
<1>16. up <=> U.at = end
  BY <1>10
<1>17. size = block.size + (IF up THEN U.size ELSE 0) /\ bp = [at |-> at, size |-> size]
  BY <1>10 DEF Node
<1>18. new = IF low THEN [rest EXCEPT ![Len(rest)].size = @ + bp.size] ELSE <<bp>> \o rest
  BY DEF Join, at, end, turn
<1>. HIDE DEF rest, up, size, bp, low, new
<1>19. /\ NodesSorted(rest) /\ Range(rest) = nodes \ (IF up THEN {U} ELSE {})
       /\ Len(rest) \in Nat \ {0} /\ rest[Len(rest)] = W
  <2>1. CASE up
    <3>1. U # Base
      BY <1>1, <1>2, <1>10, <1>16, <2>1
    <3>2. Len(turn) # 1
      <4>1. U.at # W.at
        BY <1>1, <1>12, <1>16, <2>1
      <4>. QED
        BY <4>1 DEF U, W
    <3>3. rest = RemoveAt(turn, 1) /\ turn[1] = U /\ 1 \in 1 .. Len(turn)
      BY <1>8, <1>15, <2>1 DEF U
    <3>4. NodesSorted(rest) /\ Range(rest) = nodes \ {U}
      BY <1>8, <3>1, <3>3, RemoveNodeSorted
    <3>5. /\ Len(rest) = Len(turn) - 1
          /\ \A j \in 1 .. Len(turn) - 1 : rest[j] = IF j < 1 THEN turn[j] ELSE turn[j + 1]
      BY <1>9, <3>3, RemoveAtProperties
    <3>6. Len(rest) \in 1 .. Len(turn) - 1 /\ Len(rest) + 1 = Len(turn) /\ ~ (Len(rest) < 1)
      BY <1>8, <3>2, <3>5
    <3>7. rest[Len(rest)] = W
      BY <3>5, <3>6 DEF W
    <3>. QED
      BY <2>1, <3>4, <3>6, <3>7
  <2>2. CASE ~ up
    BY <1>8, <1>15, <2>2 DEF W
  <2>. QED
    BY <2>1, <2>2
<1>20. low <=> W.at + W.size = at
  BY <1>19 DEF low, Last
<1>21. /\ rest[Len(rest)].at < at
       /\ \/ at < rest[1].at
          \/ \A j \in 1 .. Len(rest) : rest[1].at <= rest[j].at /\ rest[j].at <= rest[Len(rest)].at
  <2>1. \A j \in 1 .. Len(rest) : rest[j] \in nodes
    BY <1>19, SortedFacts DEF Range
  <2>2. Len(rest) \in 1 .. Len(rest) /\ After(rest, Len(rest)) = 1 /\ 1 \in 1 .. Len(rest)
    BY <1>19 DEF After
  <2>. DEFINE r == rest[1]
  <2>3. r \in nodes /\ r.at \in Nat
    BY <1>2, <2>1, <2>2
  <2>4. \A j \in 1 .. Len(rest) : \/ W.at < r.at /\ (rest[j].at <= W.at \/ r.at <= rest[j].at)
                                  \/ r.at <= W.at /\ r.at <= rest[j].at /\ rest[j].at <= W.at
    BY <1>19, <2>2 DEF NodesSorted, Turned
  <2>5. r.at <= W.at \/ at < r.at
    <3>1. r.at <= W.at \/ (at < U.at /\ U.at <= r.at)
      BY <1>11, <2>3
    <3>. HIDE DEF r
    <3>. QED
      BY <1>1, <1>12, <2>3, <3>1
  <2>6. r.at <= W.at => \A j \in 1 .. Len(rest) : r.at <= rest[j].at /\ rest[j].at <= W.at
    <3>. SUFFICES ASSUME r.at <= W.at, NEW j \in 1 .. Len(rest)
                  PROVE  r.at <= rest[j].at /\ rest[j].at <= W.at
      OBVIOUS
    <3>. DEFINE n == rest[j].at
    <3>1. \/ W.at < r.at /\ (n <= W.at \/ r.at <= n)
          \/ r.at <= W.at /\ r.at <= n /\ n <= W.at
      BY <2>4
    <3>. HIDE DEF r, n
    <3>2. r.at <= n /\ n <= W.at
      BY <1>12, <2>3, <3>1
    <3>. QED
      BY <3>2 DEF n
  <2>. QED
    BY <1>12, <1>19, <2>5, <2>6
<1>. DEFINE all  == size + W.size
            m    == IF low THEN Node(W.at, all) ELSE bp
            gone == (IF up THEN {U} ELSE {}) \cup (IF low THEN {W} ELSE {})
<1>22. size \in Nat \ {0} /\ all \in Nat \ {0} /\ bp.at = at /\ bp.size = size /\ bp \in Nodes
  <2>1. size \in Nat \ {0} /\ all \in Nat \ {0}
    BY <1>1, <1>12, <1>17
  <2>2. bp \in Nodes
    BY <1>1, <1>17, <2>1 DEF Nodes
  <2>. QED
    BY <1>17, <2>1, <2>2
<1>. HIDE DEF all
<1>23. low => W # Base
  BY <1>1, <1>20 DEF Base
<1>24. up => U # Base
  BY <1>1, <1>2, <1>10, <1>16
<1>25. NodesSorted(new) /\ Range(new) = (nodes \ gone) \cup {m}
  <2>1. CASE low
    <3>1. new = [rest EXCEPT ![Len(rest)].size = all]
      <4>1. rest[Len(rest)].size + bp.size = all
        BY <1>12, <1>19, <1>22 DEF all
      <4>. QED
        BY <1>18, <2>1, <4>1
    <3>2. Len(rest) \in 1 .. Len(rest) /\ rest[Len(rest)] # Base
      BY <1>19, <1>23, <2>1
    <3>3. /\ NodesSorted([rest EXCEPT ![Len(rest)].size = all])
          /\ Range([rest EXCEPT ![Len(rest)].size = all])
               = (Range(rest) \ {rest[Len(rest)]}) \cup {Node(rest[Len(rest)].at, all)}
      BY <1>19, <1>22, <3>2, ResizeSorted
    <3>4. NodesSorted(new) /\ Range(new) = (Range(rest) \ {W}) \cup {Node(W.at, all)}
      BY <1>19, <3>1, <3>3
    <3>. QED
      BY <1>19, <2>1, <3>4
  <2>2. CASE ~ low
    <3>1. new = <<bp>> \o rest
      BY <1>18, <2>2
    <3>2. NodesSorted(new) /\ Range(new) = Range(rest) \cup {bp}
      BY <1>1, <1>19, <1>21, <1>22, <3>1, FirstNodeSorted
    <3>. QED
      BY <1>19, <2>2, <3>2
  <2>. QED
    BY <2>1, <2>2
<1>26. m \in Nodes /\ m.size \in Nat \ {0} /\ m.at \in Nat /\ (low => m.at = W.at) /\ (~ low => m.at = at)
  BY <1>1, <1>12, <1>22 DEF Node, Nodes
<1>27. m.at + m.size = end + (IF up THEN U.size ELSE 0)
  <2>1. CASE low
    <3>1. m.at = W.at /\ m.size = all
      BY <2>1 DEF Node
    <3>. HIDE DEF m
    <3>. QED
      BY <1>1, <1>12, <1>17, <1>20, <2>1, <3>1 DEF all
  <2>2. CASE ~ low
    <3>1. m.at = at /\ m.size = size
      BY <1>22, <2>2
    <3>. HIDE DEF m
    <3>. QED
      BY <1>1, <1>12, <1>17, <3>1
  <2>. QED
    BY <2>1, <2>2
<1>28. m # Base
  BY <1>26 DEF Base
<1>29. gone \subseteq nodes \ {Base} /\ block \notin gone
  BY <1>3, <1>10, <1>23, <1>24
<1>. HIDE DEF m
\* It has the units of those it replaces
<1>30. \A n : (\E x \in gone \cup {block} : n \in Extent(x)) <=> (\E x \in {m} : n \in Extent(x))
  <2>. DEFINE top    == m.at + m.size
              bottom == m.at
  <2>01. /\ Extent(block) = at .. end - 1
         /\ Extent(W) = W.at .. W.at + W.size - 1
         /\ Extent(U) = U.at .. U.at + U.size - 1
         /\ Extent(m) = bottom .. top - 1
    <3>1. Extent(block) = block.at .. block.at + block.size - 1
      BY DEF Extent
    <3>2. Extent(W) = W.at .. W.at + W.size - 1 /\ Extent(U) = U.at .. U.at + U.size - 1
      BY DEF Extent
    <3>3. Extent(m) = m.at .. m.at + m.size - 1
      BY DEF Extent
    <3>4. block.at + block.size - 1 = end - 1 /\ block.at = at
      BY <1>1 DEF end, at
    <3>5. m.at + m.size - 1 = top - 1
      BY <1>26
    <3>. HIDE DEF top
    <3>. QED
      BY <3>1, <3>2, <3>3, <3>4, <3>5
  <2>02. /\ low => bottom = W.at /\ Extent(W) = bottom .. at - 1
         /\ ~ low => bottom = at
         /\ up => top = end + U.size /\ Extent(U) = end .. top - 1
         /\ ~ up => top = end
    <3>1. low => bottom = W.at /\ W.at + W.size = at
      BY <1>20, <1>26
    <3>2. ~ low => bottom = at
      BY <1>26
    <3>3. up => top = end + U.size /\ U.at = end
      BY <1>16, <1>27
    <3>4. ~ up => top = end
      BY <1>1, <1>27
    <3>. HIDE DEF top, bottom
    <3>5. low => W.at + W.size - 1 = at - 1
      BY <1>1, <1>12, <3>1
    <3>6. up => U.at + U.size - 1 = top - 1
      BY <1>1, <1>12, <3>3
    <3>. QED
      BY <2>01, <3>1, <3>2, <3>3, <3>4, <3>5, <3>6
  <2>03. bottom \in Nat /\ top \in Nat /\ bottom <= at /\ at <= end /\ end <= top
    BY <1>1, <1>12, <1>26, <1>27
  <2>. HIDE DEF top, bottom
  <2>04. \A n : n \in bottom .. top - 1 <=> \/ n \in bottom .. at - 1
                                          \/ n \in at .. end - 1
                                          \/ n \in end .. top - 1
    BY <1>1, <2>03
  <2>05. at .. at - 1 = {} /\ end .. end - 1 = {}
    BY <1>1
  <2>1. CASE low /\ up
    <3>1. \A n : n \in Extent(m) <=> n \in Extent(block) \/ n \in Extent(U) \/ n \in Extent(W)
      BY <2>01, <2>02, <2>04, <2>05, <2>1
    <3>. QED
      BY <2>1, <3>1, Zenon
  <2>2. CASE low /\ ~ up
    <3>1. \A n : n \in Extent(m) <=> n \in Extent(block) \/ n \in Extent(W)
      BY <2>01, <2>02, <2>04, <2>05, <2>2
    <3>. QED
      BY <2>2, <3>1, Zenon
  <2>3. CASE ~ low /\ up
    <3>1. \A n : n \in Extent(m) <=> n \in Extent(block) \/ n \in Extent(U)
      BY <2>01, <2>02, <2>04, <2>05, <2>3
    <3>. QED
      BY <2>3, <3>1, Zenon
  <2>4. CASE ~ low /\ ~ up
    <3>1. \A n : n \in Extent(m) <=> n \in Extent(block)
      BY <2>01, <2>02, <2>04, <2>05, <2>4
    <3>. QED
      BY <2>4, <3>1, Zenon
  <2>. QED
    BY <2>1, <2>2, <2>3, <2>4, Zenon
<1>31. Tiles(((nodes \cup blocks) \ (gone \cup {block})) \cup {m})
  <2>1. gone \cup {block} \in SUBSET (nodes \cup blocks)
    BY <1>29
  <2>2. \A x, y \in {m} : x # y => Extent(x) \cap Extent(y) = {}
    OBVIOUS
  <2>. HIDE DEF gone
  <2>. QED
    BY <1>0, <1>30, <2>1, <2>2, Replaced
<1>32. ((nodes \cup blocks) \ (gone \cup {block})) \cup {m} = ((nodes \ gone) \cup {m}) \cup (blocks \ {block})
  <2>1. nodes \cap blocks = {}
    BY <1>0, <1>2, NodeIsNoBlock
  <2>. HIDE DEF gone
  <2>. QED
    BY <1>3, <1>29, <2>1
<1>33. ASSUME NEW x \in nodes \ {Base}, x \notin gone
       PROVE  x.at + x.size # m.at /\ m.at + m.size # x.at
  <2>1. x.at + x.size # m.at
    <3>1. CASE low
      <4>1. W \in nodes \ {Base} /\ m.at = W.at
        BY <1>10, <1>23, <1>26, <3>1
      <4>. QED
        BY <1>6, <4>1
    <3>2. CASE ~ low
      BY <1>14, <1>20, <1>26, <3>2
    <3>. QED
      BY <3>1, <3>2
  <2>2. m.at + m.size # x.at
    <3>1. CASE up
      <4>1. U \in nodes \ {Base} /\ m.at + m.size = U.at + U.size
        BY <1>10, <1>16, <1>24, <1>27, <3>1
      <4>. QED
        BY <1>6, <4>1
    <3>2. CASE ~ up
      <4>1. m.at + m.size = end
        BY <1>1, <1>27, <3>2
      <4>. QED
        BY <1>13, <1>16, <3>2, <4>1
    <3>. QED
      BY <3>1, <3>2
  <2>. QED
    BY <2>1, <2>2
<1>34. m.at + m.size # m.at
  BY <1>26
<1>35. Apart((nodes \ gone) \cup {m})
  <2>. HIDE DEF gone
  <2>. QED
    BY <1>6, <1>33, <1>34 DEF Apart
<1>. HIDE DEF gone
<1>36. HeapParts(new, blocks \ {block})
  <2>1. Tiles(Range(new) \cup (blocks \ {block}))
    BY <1>25, <1>31, <1>32
  <2>2. blocks \ {block} \subseteq Block /\ Apart(Range(new))
    BY <1>0, <1>25, <1>35
  <2>. QED
    BY <1>25, <2>1, <2>2 DEF HeapParts
<1>. QED
  BY <1>36 DEF new
(***************************************************************************)
(* The inductive invariant: what OS_HeapFree relies on, in every heap, and *)
(* what the property says of the nodes and blocks, on sets of them.        *)
(***************************************************************************)
HeapInv ==
    /\ free \in [Heap -> Seq(Nodes)]
    /\ used \subseteq Block
    /\ \A h \in Heap : HeapParts(free[h], Blocks(h))

\* One node of all units.
LEMMA HeapInvInit == HeapInit => HeapInv
<1>. SUFFICES ASSUME HeapInit
              PROVE  HeapInv
  OBVIOUS
<1>. DEFINE n    == Node(1, Units)
            list == <<Base, n>>
<1>0. Units \in Nat \ {0}
  BY HeapAssumption
<1>1. Base \in Nodes /\ n \in Nodes /\ Base.at = 0 /\ n.at = 1 /\ n.size = Units /\ Base.size = 0
  BY <1>0 DEF Base, Node, Nodes
<1>. HIDE DEF n
<1>2. list \in Seq(Nodes) /\ Len(list) = 2 /\ list[1] = Base /\ list[2] = n /\ DOMAIN list = 1 .. 2
  BY <1>1
<1>3. Range(list) = {Base, n}
  BY <1>2 DEF Range
<1>. HIDE DEF list
<1>4. Turned(list)
  <2>. SUFFICES ASSUME NEW k \in 1 .. Len(list), NEW j \in 1 .. Len(list)
                PROVE  LET a == list[k].at
                           b == list[After(list, k)].at
                       IN \/ a < b /\ (list[j].at <= a \/ b <= list[j].at)
                          \/ b <= a /\ b <= list[j].at /\ list[j].at <= a
    BY Zenon DEF Turned
  <2>1. k \in {1, 2} /\ j \in {1, 2}
    BY <1>2
  <2>2. After(list, 1) = 2 /\ After(list, 2) = 1
    BY <1>2 DEF After
  <2>3. list[1].at = 0 /\ list[2].at = 1
    BY <1>1, <1>2
  <2>. QED
    BY <2>1, <2>2, <2>3
<1>5. NodesSorted(list)
  <2>1. \A k \in 1 .. Len(list) : k = 1 \/ k = 2
    BY <1>2
  <2>2. \A k \in 1 .. Len(list) : list[k].at # 0 => list[k].size # 0
    BY <1>0, <1>1, <1>2, <2>1
  <2>3. \A k, j \in 1 .. Len(list) : list[k].at = list[j].at => k = j
    BY <1>1, <1>2, <2>1
  <2>4. 1 \in 1 .. Len(list)
    BY <1>2
  <2>. QED
    BY <1>2, <1>4, <2>2, <2>3, <2>4 DEF NodesSorted
<1>6. Extent(Base) = {} /\ Extent(n) = 1 .. Units
  BY <1>0, <1>1 DEF Extent
<1>7. Tiles(Range(list) \cup {})
  <2>1. Range(list) \cup {} = {Base, n}
    BY <1>3
  <2>2. UNION {Extent(x) : x \in {Base, n}} = 1 .. Units
    BY <1>6
  <2>3. \A x, y \in {Base, n} : x # y => Extent(x) \cap Extent(y) = {}
    BY <1>6
  <2>. QED
    BY <2>1, <2>2, <2>3 DEF Tiles
<1>8. Apart(Range(list))
  <2>1. \A x \in Range(list) \ {Base} : x = n
    BY <1>3
  <2>2. n.at + n.size # n.at
    BY <1>0, <1>1
  <2>. QED
    BY <2>1, <2>2 DEF Apart
<1>9. \A h \in Heap : free[h] = list /\ Blocks(h) = {}
  BY DEF HeapInit, Blocks, list, n
<1>10. HeapParts(list, {})
  BY <1>5, <1>7, <1>8 DEF HeapParts
<1>11. free \in [Heap -> Seq(Nodes)] /\ used \subseteq Block
  <2>1. free = [h \in Heap |-> list] /\ used = {}
    BY DEF HeapInit, list, n
  <2>. QED
    BY <1>2, <2>1
<1>. QED
  BY <1>9, <1>10, <1>11 DEF HeapInv

\* OS_HeapMalloc and OS_HeapFree keep it.
LEMMA HeapInvStep == HeapInv /\ [HeapNext]_heapVars => HeapInv'
<1>. SUFFICES ASSUME HeapInv, [HeapNext]_heapVars
              PROVE  HeapInv'
  OBVIOUS
<1>0. free \in [Heap -> Seq(Nodes)] /\ used \subseteq Block /\ \A h \in Heap : HeapParts(free[h], Blocks(h))
  BY DEF HeapInv
<1>1. ASSUME UNCHANGED heapVars
      PROVE  HeapInv'
  BY <1>0, <1>1 DEF heapVars, HeapInv, Blocks
\* A step that gives one heap another list and other blocks
<1>2. ASSUME NEW h \in Heap, NEW list, free' = [free EXCEPT ![h] = list], used' \subseteq Block,
             NEW blocks, HeapParts(list, blocks), Blocks(h)' = blocks,
             \A g \in Heap : g # h => Blocks(g)' = Blocks(g)
      PROVE  HeapInv'
  <2>1. list \in Seq(Nodes)
    BY <1>2 DEF HeapParts, NodesSorted
  <2>2. free' \in [Heap -> Seq(Nodes)]
    BY <1>0, <1>2, <2>1
  <2>3. ASSUME NEW g \in Heap
        PROVE  HeapParts(free'[g], Blocks(g)')
    <3>1. CASE g = h
      BY <1>0, <1>2, <3>1
    <3>2. CASE g # h
      BY <1>0, <1>2, <3>2
    <3>. QED
      BY <3>1, <3>2
  <2>. QED
    BY <1>2, <2>2, <2>3 DEF HeapInv
<1>3. ASSUME NEW h \in Heap, NEW first \in Heap, NEW units \in 1 .. Units, MetFrom(first, units, h), Take(h, units)
      PROVE  HeapInv'
  <2>. DEFINE list  == free[h]
              k     == Min(Big(list, units))
              left  == list[k].size - units
              rest  == IF left = 0 THEN RemoveAt(list, k) ELSE [list EXCEPT ![k].size = left]
              block == [heap |-> h, at |-> list[k].at + left, size |-> units]
              turn  == Rover(rest, k - 1)
  <2>1. free' = [free EXCEPT ![h] = turn] /\ used' = used \cup {block}
    BY <1>3 DEF Take
  <2>2. Big(list, units) # {} /\ units \in Nat \ {0}
    BY <1>3, HeapAssumption DEF MetFrom
  <2>3. block \in Block /\ HeapParts(turn, Blocks(h) \cup {block})
    BY <1>0, <2>2, TakeParts
  <2>4. block.heap = h
    OBVIOUS
  <2>. HIDE DEF turn, block
  <2>5. Blocks(h)' = Blocks(h) \cup {block} /\ \A g \in Heap : g # h => Blocks(g)' = Blocks(g)
    BY <2>1, <2>4 DEF Blocks
  <2>6. used' \subseteq Block
    BY <1>0, <2>1, <2>3
  <2>. QED
    BY <1>2, <2>1, <2>3, <2>5, <2>6
<1>4. ASSUME NEW block \in used, OS_HeapFree(block)
      PROVE  HeapInv'
  <2>1. block.heap \in Heap /\ block \in Blocks(block.heap)
    BY <1>0 DEF Block, Blocks
  <2>2. /\ free' = [free EXCEPT ![block.heap] = Join(free[block.heap], block)]
        /\ used' = used \ {block}
    BY <1>4 DEF OS_HeapFree
  <2>3. HeapParts(Join(free[block.heap], block), Blocks(block.heap) \ {block})
    BY <1>0, <2>1, JoinParts
  <2>4. /\ Blocks(block.heap)' = Blocks(block.heap) \ {block}
        /\ \A g \in Heap : g # block.heap => Blocks(g)' = Blocks(g)
    BY <2>2 DEF Blocks
  <2>5. used' \subseteq Block
    BY <1>0, <2>2
  <2>. QED
    BY <1>2, <2>1, <2>2, <2>3, <2>4, <2>5
<1>. QED
  BY <1>1, <1>3, <1>4 DEF HeapNext, OS_HeapMalloc

\* It says what the property says.
LEMMA InvHeapSound == HeapInv => HeapSound
<1>. SUFFICES ASSUME HeapInv, NEW h \in Heap
              PROVE  LET nodes == ToSet(free[h])
                     IN /\ IsInjective(free[h]) /\ Base \in nodes
                        /\ UNION {Extent(x) : x \in nodes \cup Blocks(h)} = 1..Units
                        /\ \A x, y \in nodes \cup Blocks(h) : x # y => Extent(x) \cap Extent(y) = {}
                        /\ \A x, y \in nodes \ {Base} : x.at + x.size # y.at
  BY Zenon DEF HeapSound
<1>. DEFINE list == free[h]
<1>1. HeapParts(list, Blocks(h))
  BY DEF HeapInv
<1>2. NodesSorted(list) /\ Tiles(Range(list) \cup Blocks(h)) /\ Apart(Range(list))
  BY <1>1 DEF HeapParts
<1>. HIDE DEF list
<1>3. ToSet(list) = Range(list)
  BY DEF ToSet, Range
<1>4. Base \in Range(list)
  BY <1>2, SortedFacts
<1>5. IsInjective(list)
  <2>1. DOMAIN list = 1 .. Len(list)
    BY <1>2, SortedFacts
  <2>. QED
    BY <1>2, <2>1 DEF NodesSorted, IsInjective
<1>6. /\ IsInjective(list) /\ Base \in ToSet(list)
      /\ UNION {Extent(x) : x \in ToSet(list) \cup Blocks(h)} = 1..Units
      /\ \A x, y \in ToSet(list) \cup Blocks(h) : x # y => Extent(x) \cap Extent(y) = {}
      /\ \A x, y \in ToSet(list) \ {Base} : x.at + x.size # y.at
  BY <1>2, <1>3, <1>4, <1>5 DEF Tiles, Apart
<1>. QED
  BY <1>6 DEF list

\* Whatever is taken and given back, and in whatever order, each unit of a heap is in one
\* node or in one block, and free nodes that touch have been joined.
THEOREM HeapIsSound == HeapSpec => []HeapSound
<1>1. HeapSpec => []HeapInv
  BY HeapInvInit, HeapInvStep, PTL DEF HeapSpec
<1>. QED
  BY <1>1, InvHeapSound, PTL

-----------------------------------------------------------------------------
(* UartBuffers *)

(***************************************************************************)
(* UartBuffers: the inductive invariant.                                   *)
(***************************************************************************)

Writing == {"writeCount", "writePend", "writeData", "writeAdvance", "mask"}

Reading == {"readCount", "readPend", "readValue", "readWrap"}

\* ReadBuffer is as WriteBuffer, but for its read index between two instructions.
UartTypeOK ==
    /\ tx \in Ring
    /\ rx \in [data : [0 .. Size - 1 -> Byte \cup {NoByte}], read : 0 .. Size,
               write : 0 .. Size - 1, pending : {0, 1}, semaphore : {0, 1}]
    /\ rx.read = Size <=> uartPc[Reader] = "readWrap"
    /\ holder \in Thread \cup {NoThread}
    /\ mask \in BOOLEAN
    /\ uartPc \in [Thread -> {"user", "locked"} \cup Writing \cup Reading]
    /\ value \in [Thread -> Byte \cup {NoByte}]
    /\ sent \in Byte \cup {NoByte}

\* Who writes has SemaphoreUart, so there is one at most; one thread reads.
OneWriter ==
    \A t \in Thread :
        /\ uartPc[t] \in Writing \cup {"locked"} => holder = t
        /\ uartPc[t] \in Reading => t = Reader
        /\ uartPc[t] = "user" => holder # t

\* A thread that writes has a byte and, once it has waited, the room for it.
RoomToWrite ==
    /\ \A t \in Thread :
          /\ uartPc[t] \in Writing \ {"mask"} => value[t] \in Byte
          /\ uartPc[t] \in {"writeData", "writeAdvance"} => ~Full(tx)
          /\ uartPc[t] = "writeAdvance" => tx.data[tx.write] = value[t]
    /\ tx.semaphore = 1 => ~Full(tx)

UartInv == UartTypeOK /\ OneWriter /\ RoomToWrite /\ WakesCounted /\ NothingForgotten

\* The places of the ring follow each other in a circle.
LEMMA AdvanceInjective ==
    ASSUME NEW m \in 0 .. Size - 1
    PROVE  /\ Advance(m) \in 0 .. Size - 1 /\ Advance(m) # m
           /\ \A n \in 0 .. Size - 1 : Advance(m) = Advance(n) => m = n
  BY UartAssumption DEF Advance

\* The members of the rings.
LEMMA RingFields ==
    ASSUME UartInv
    PROVE  /\ tx = [data |-> tx.data, read |-> tx.read, write |-> tx.write,
                    pending |-> tx.pending, semaphore |-> tx.semaphore]
           /\ tx.data \in [0 .. Size - 1 -> Byte \cup {NoByte}]
           /\ tx.read \in 0 .. Size - 1 /\ tx.write \in 0 .. Size - 1
           /\ tx.pending \in {0, 1} /\ tx.semaphore \in {0, 1}
           /\ rx = [data |-> rx.data, read |-> rx.read, write |-> rx.write,
                    pending |-> rx.pending, semaphore |-> rx.semaphore]
           /\ rx.data \in [0 .. Size - 1 -> Byte \cup {NoByte}]
           /\ rx.read \in 0 .. Size /\ rx.write \in 0 .. Size - 1
           /\ rx.pending \in {0, 1} /\ rx.semaphore \in {0, 1}
           /\ tx.pending + tx.semaphore \in {0, 1} /\ rx.pending + rx.semaphore \in {0, 1}
  BY DEF UartInv, UartTypeOK, Ring, WakesCounted

\* The thread that writes is alone.
LEMMA WriterAlone ==
    ASSUME UartInv, NEW self \in Thread, uartPc[self] \in Writing \cup {"locked"}
    PROVE  holder = self /\ \A t \in Thread \ {self} : uartPc[t] \notin Writing \cup {"locked"}
  BY DEF UartInv, OneWriter

LEMMA UartInitEstablishes == UartInit => UartInv
<1>. SUFFICES ASSUME UartInit
              PROVE  UartInv
  OBVIOUS
<1>1. tx = BufferCreate /\ rx = BufferCreate /\ holder = NoThread /\ mask = FALSE
      /\ uartPc = [t \in Thread |-> "user"] /\ value = [t \in Thread |-> NoByte] /\ sent = NoByte
  BY DEF UartInit
<1>2. BufferCreate \in Ring /\ BufferCreate.read = 0 /\ BufferCreate.write = 0
      /\ BufferCreate.pending = 0 /\ BufferCreate.semaphore = 0
  BY UartAssumption DEF BufferCreate, Ring
<1>3. UartTypeOK
  <2>1. BufferCreate \in [data : [0 .. Size - 1 -> Byte \cup {NoByte}], read : 0 .. Size,
                          write : 0 .. Size - 1, pending : {0, 1}, semaphore : {0, 1}]
    BY UartAssumption DEF BufferCreate
  <2>. QED
    BY <1>1, <1>2, <2>1, UartAssumption DEF UartTypeOK
<1>4. OneWriter
  BY <1>1, UartAssumption DEF OneWriter, Writing, Reading
<1>5. RoomToWrite /\ WakesCounted /\ NothingForgotten
  BY <1>1, <1>2, UartAssumption DEF RoomToWrite, WakesCounted, NothingForgotten, Empty, Writing
<1>. QED
  BY <1>3, <1>4, <1>5 DEF UartInv

LEMMA LockPreserves ==
    ASSUME UartInv, NEW self \in Thread, UartLock(self) \/ UartUnlock(self)
    PROVE  UartInv'
<1>1. UNCHANGED <<tx, rx, mask, value, sent>>
  BY DEF UartLock, UartUnlock
<1>2. UartTypeOK'
  BY <1>1, UartAssumption DEF UartLock, UartUnlock, Goto, UartInv, UartTypeOK
<1>3. OneWriter'
  BY UartAssumption DEF UartLock, UartUnlock, Goto, UartInv, OneWriter, UartTypeOK, Writing, Reading
<1>4. RoomToWrite'
  BY <1>1 DEF UartLock, UartUnlock, Goto, UartInv, UartTypeOK, RoomToWrite, Writing, Full
<1>5. WakesCounted' /\ NothingForgotten'
  BY <1>1, UartAssumption DEF UartLock, UartUnlock, Goto, UartInv, UartTypeOK, WakesCounted,
     NothingForgotten, Empty
<1>. QED
  BY <1>2, <1>3, <1>4, <1>5 DEF UartInv

LEMMA WriteCheckPreserves ==
    ASSUME UartInv, NEW self \in Thread, WriteCheck(self)
    PROVE  UartInv'
<1>1. UNCHANGED <<tx, rx, holder, mask, sent>> /\ uartPc[self] = "locked"
  BY DEF WriteCheck, Goto
<1>2. UartTypeOK'
  BY <1>1, UartAssumption DEF WriteCheck, Goto, UartInv, UartTypeOK, Writing
<1>3. OneWriter'
  BY <1>1, WriterAlone DEF WriteCheck, Goto, UartInv, OneWriter, UartTypeOK, Writing, Reading
<1>4. RoomToWrite'
  BY <1>1 DEF WriteCheck, Goto, UartInv, UartTypeOK, RoomToWrite, Writing, Full
<1>5. WakesCounted' /\ NothingForgotten'
  BY <1>1, UartAssumption DEF WriteCheck, Goto, UartInv, UartTypeOK, WakesCounted,
     NothingForgotten, Empty
<1>. QED
  BY <1>2, <1>3, <1>4, <1>5 DEF UartInv

LEMMA WriteCountPreserves ==
    ASSUME UartInv, NEW self \in Thread, WriteCount(self)
    PROVE  UartInv'
<1>1. UNCHANGED <<rx, holder, mask, value, sent>> /\ uartPc[self] = "writeCount"
  BY DEF WriteCount, Goto
<1>2. tx.pending = 0 /\ tx.semaphore = 0
  BY <1>1, WriterAlone, RingFields DEF UartInv, WakesCounted, Writing
<1>3. tx' = [tx EXCEPT !.pending = 1]
  BY <1>2 DEF WriteCount
<1>4. UartTypeOK'
  BY <1>1, <1>3, UartAssumption DEF WriteCount, Goto, UartInv, UartTypeOK, Writing, Ring
<1>5. OneWriter'
  BY <1>1, WriterAlone DEF WriteCount, Goto, UartInv, OneWriter, UartTypeOK, Writing, Reading
<1>6. RoomToWrite'
  BY <1>1, <1>3, RingFields DEF WriteCount, Goto, UartInv, UartTypeOK, RoomToWrite, Writing, Full
<1>7. WakesCounted' /\ NothingForgotten'
  BY <1>1, <1>2, <1>3, RingFields, UartAssumption DEF WriteCount, Goto, UartInv, UartTypeOK,
     WakesCounted, NothingForgotten, Empty
<1>. QED
  BY <1>4, <1>5, <1>6, <1>7 DEF UartInv

LEMMA WritePendPreserves ==
    ASSUME UartInv, NEW self \in Thread, WritePend(self)
    PROVE  UartInv'
<1>1. UNCHANGED <<rx, holder, mask, value, sent>> /\ uartPc[self] = "writePend" /\ tx.semaphore = 1
  BY RingFields DEF WritePend, Goto
<1>2. tx.pending = 0
  BY <1>1, WriterAlone, RingFields DEF UartInv, WakesCounted, Writing
<1>3. tx' = [tx EXCEPT !.semaphore = 0]
  BY <1>1, <1>2 DEF WritePend
<1>4. UartTypeOK'
  BY <1>1, <1>3, UartAssumption DEF WritePend, Goto, UartInv, UartTypeOK, Writing, Ring
<1>5. OneWriter'
  BY <1>1, WriterAlone DEF WritePend, Goto, UartInv, OneWriter, UartTypeOK, Writing, Reading
<1>6. RoomToWrite'
  BY <1>1, <1>3, RingFields DEF WritePend, Goto, UartInv, UartTypeOK, RoomToWrite, Writing, Full
<1>7. WakesCounted' /\ NothingForgotten'
  BY <1>1, <1>2, <1>3, RingFields, WriterAlone, UartAssumption DEF WritePend, Goto, UartInv,
     UartTypeOK, WakesCounted, NothingForgotten, Empty, Writing
<1>. QED
  BY <1>4, <1>5, <1>6, <1>7 DEF UartInv

LEMMA WriteDataPreserves ==
    ASSUME UartInv, NEW self \in Thread, WriteData(self)
    PROVE  UartInv'
<1>1. /\ UNCHANGED <<rx, holder, mask, value, sent>> /\ uartPc[self] = "writeData"
      /\ value[self] \in Byte /\ ~Full(tx)
  BY DEF WriteData, Goto, UartInv, RoomToWrite, Writing
<1>2. tx' = [data |-> [tx.data EXCEPT ![tx.write] = value[self]], read |-> tx.read,
             write |-> tx.write, pending |-> tx.pending, semaphore |-> tx.semaphore]
  BY RingFields DEF WriteData
<1>3. UartTypeOK'
  <2>1. [tx.data EXCEPT ![tx.write] = value[self]] \in [0 .. Size - 1 -> Byte \cup {NoByte}]
    BY <1>1, RingFields
  <2>2. tx' \in Ring
    BY <1>2, <2>1, RingFields, UartAssumption DEF Ring
  <2>. QED
    BY <1>1, <2>2 DEF WriteData, Goto, UartInv, UartTypeOK, Writing
<1>4. OneWriter'
  BY <1>1, WriterAlone DEF WriteData, Goto, UartInv, OneWriter, UartTypeOK, Writing, Reading
<1>5. RoomToWrite'
  <2>1. tx'.data[tx'.write] = value[self] /\ tx'.semaphore = tx.semaphore /\ ~Full(tx')
    BY <1>1, <1>2, RingFields DEF Full
  <2>2. \A t \in Thread \ {self} : uartPc'[t] = uartPc[t] /\ uartPc[t] \notin Writing
    BY <1>1, WriterAlone DEF WriteData, Goto, UartInv, UartTypeOK, Writing
  <2>3. uartPc'[self] = "writeAdvance"
    BY DEF WriteData, Goto, UartInv, UartTypeOK
  <2>. QED
    BY <1>1, <2>1, <2>2, <2>3 DEF UartInv, RoomToWrite, Writing
<1>6. WakesCounted' /\ NothingForgotten'
  BY <1>1, <1>2, RingFields, UartAssumption DEF WriteData, Goto, UartInv, UartTypeOK, WakesCounted,
     NothingForgotten, Empty
<1>. QED
  BY <1>3, <1>4, <1>5, <1>6 DEF UartInv

LEMMA WriteAdvancePreserves ==
    ASSUME UartInv, NEW self \in Thread, WriteAdvance(self)
    PROVE  UartInv'
<1>1. /\ UNCHANGED <<rx, holder, mask, sent>> /\ uartPc[self] = "writeAdvance"
      /\ tx' = [tx EXCEPT !.write = Advance(@)] /\ value' = [value EXCEPT ![self] = NoByte]
  BY DEF WriteAdvance, Goto
<1>2. Advance(tx.write) \in 0 .. Size - 1
  BY RingFields, AdvanceInjective
<1>3. tx.pending = 0 /\ tx.semaphore = 0
  BY <1>1, WriterAlone, RingFields DEF UartInv, WakesCounted, Writing
<1>4. UartTypeOK'
  BY <1>1, <1>2, UartAssumption DEF WriteAdvance, Goto, UartInv, UartTypeOK, Writing, Ring
<1>5. OneWriter'
  BY <1>1, WriterAlone DEF WriteAdvance, Goto, UartInv, OneWriter, UartTypeOK, Writing, Reading
<1>6. RoomToWrite'
  BY <1>1, <1>3, RingFields, WriterAlone DEF WriteAdvance, Goto, UartInv, UartTypeOK, RoomToWrite,
     Writing, Full
<1>7. WakesCounted' /\ NothingForgotten'
  BY <1>1, RingFields, UartAssumption DEF WriteAdvance, Goto, UartInv, UartTypeOK, WakesCounted,
     NothingForgotten, Empty
<1>. QED
  BY <1>4, <1>5, <1>6, <1>7 DEF UartInv

LEMMA MaskSetPreserves ==
    ASSUME UartInv, NEW self \in Thread, MaskSet(self)
    PROVE  UartInv'
<1>1. /\ UNCHANGED <<tx, rx, holder, value, sent>> /\ uartPc[self] = "mask" /\ mask' = TRUE
  BY DEF MaskSet, Goto
<1>2. UartTypeOK'
  BY <1>1, UartAssumption DEF MaskSet, Goto, UartInv, UartTypeOK, Writing
<1>3. OneWriter'
  BY <1>1, WriterAlone DEF MaskSet, Goto, UartInv, OneWriter, UartTypeOK, Writing, Reading
<1>4. RoomToWrite'
  BY <1>1 DEF MaskSet, Goto, UartInv, UartTypeOK, RoomToWrite, Writing, Full
<1>5. WakesCounted' /\ NothingForgotten'
  BY <1>1, UartAssumption DEF MaskSet, Goto, UartInv, UartTypeOK, WakesCounted, NothingForgotten
<1>. QED
  BY <1>2, <1>3, <1>4, <1>5 DEF UartInv

\* The steps of the thread that reads: WriteBuffer stays as it is.
LEMMA UartReadPreserves ==
    ASSUME UartInv, UartRead
    PROVE  UartInv'
<1>1. /\ UNCHANGED <<tx, holder, mask, value, sent>> /\ Reader \in Thread
      /\ uartPc[Reader] \notin Writing
      /\ \E to \in {"user", "locked"} \cup Reading : uartPc' = [uartPc EXCEPT ![Reader] = to]
  BY UartAssumption DEF UartRead, ReadCheck, ReadCount, ReadPend, ReadValue, ReadWrap, Goto, Return,
     Reading, Writing
<1>2. UartTypeOK'
  <2>1. CASE ReadCheck
    BY <1>1, <2>1, UartAssumption DEF ReadCheck, UartInv, UartTypeOK, Reading
  <2>2. CASE ReadCount
    <3>1. rx.pending = 0
      BY <2>2, RingFields DEF ReadCount, Goto, UartInv, WakesCounted
    <3>. QED
      BY <1>1, <2>2, <3>1 DEF ReadCount, Goto, UartInv, UartTypeOK, Reading
  <2>3. CASE ReadPend
    BY <1>1, <2>3, RingFields DEF ReadPend, Goto, UartInv, UartTypeOK, Reading
  <2>4. CASE ReadValue
    BY <1>1, <2>4, RingFields, UartAssumption DEF ReadValue, Return, Goto, UartInv, UartTypeOK,
       Reading
  <2>5. CASE ReadWrap
    BY <1>1, <2>5, RingFields DEF ReadWrap, Return, Goto, UartInv, UartTypeOK, Reading
  <2>. QED
    BY <2>1, <2>2, <2>3, <2>4, <2>5 DEF UartRead
<1>3. OneWriter'
  BY <1>1, UartAssumption DEF UartRead, ReadCheck, ReadCount, ReadPend, ReadValue, ReadWrap, Goto,
     Return,
     UartInv, UartTypeOK, OneWriter, Writing, Reading
<1>4. RoomToWrite'
  BY <1>1 DEF UartInv, UartTypeOK, RoomToWrite, Writing, Reading
<1>5. WakesCounted'
  <2>1. tx.pending + tx.semaphore = IF \E t \in Thread : uartPc'[t] = "writePend" THEN 1 ELSE 0
    BY <1>1 DEF UartInv, UartTypeOK, WakesCounted, Writing, Reading
  <2>2. rx'.pending + rx'.semaphore = IF uartPc'[Reader] = "readPend" THEN 1 ELSE 0
    <3>1. uartPc \in [Thread -> {"user", "locked"} \cup Writing \cup Reading]
      BY DEF UartInv, UartTypeOK
    <3>2. CASE ReadCheck
      BY <1>1, <3>1, <3>2, RingFields DEF ReadCheck, UartInv, WakesCounted
    <3>3. CASE ReadCount
      BY <1>1, <3>1, <3>3, RingFields DEF ReadCount, Goto, UartInv, WakesCounted
    <3>4. CASE ReadPend
      BY <1>1, <3>1, <3>4, RingFields DEF ReadPend, Goto, UartInv, WakesCounted
    <3>5. CASE ReadValue \/ ReadWrap
      BY <1>1, <3>1, <3>5, RingFields DEF ReadValue, ReadWrap, Return, Goto, UartInv, WakesCounted
    <3>. QED
      BY <3>2, <3>3, <3>4, <3>5 DEF UartRead
  <2>. QED
    BY <1>1, <2>1, <2>2 DEF WakesCounted
<1>6. NothingForgotten'
  BY <1>1 DEF UartInv, UartTypeOK, NothingForgotten, Empty, Writing
<1>. QED
  BY <1>2, <1>3, <1>4, <1>5, <1>6 DEF UartInv

LEMMA ReceivePreserves ==
    ASSUME UartInv, NEW v \in Received, Receive(v)
    PROVE  UartInv'
<1>1. UNCHANGED <<tx, holder, mask, uartPc, value, sent>> /\ v \in Byte
  BY UartAssumption DEF Receive, threadVars
<1>2. CASE Full(rx)
  BY <1>1, <1>2 DEF Receive, UartInv, UartTypeOK, OneWriter, RoomToWrite, WakesCounted,
     NothingForgotten
<1>3. CASE ~Full(rx)
  <2>1. rx' = [data |-> [rx.data EXCEPT ![rx.write] = v], read |-> rx.read,
               write |-> Advance(rx.write), pending |-> 0, semaphore |-> rx.semaphore + rx.pending]
    BY <1>3, RingFields DEF Receive, Wake
  <2>2. Advance(rx.write) \in 0 .. Size - 1 /\ rx.semaphore + rx.pending \in {0, 1}
    BY RingFields, AdvanceInjective
  <2>3. UartTypeOK'
    BY <1>1, <2>1, <2>2, RingFields DEF UartInv, UartTypeOK
  <2>4. WakesCounted'
    BY <1>1, <2>1, RingFields DEF UartInv, WakesCounted
  <2>. QED
    BY <1>1, <2>3, <2>4 DEF UartInv, OneWriter, RoomToWrite, NothingForgotten
<1>. QED
  BY <1>2, <1>3

LEMMA TransmitPreserves ==
    ASSUME UartInv, Transmit
    PROVE  UartInv'
<1>1. /\ UNCHANGED <<rx, holder, mask, uartPc, value>> /\ sent' = tx.data[tx.read]
      /\ tx.read # tx.write
  BY DEF Transmit, threadVars, Empty
<1>2. tx' = [data |-> tx.data, read |-> Advance(tx.read), write |-> tx.write,
             pending |-> 0, semaphore |-> tx.semaphore + tx.pending]
  BY RingFields DEF Transmit, Wake
<1>3. Advance(tx.read) \in 0 .. Size - 1 /\ tx.semaphore + tx.pending \in {0, 1}
  BY RingFields, AdvanceInjective
<1>4. UartTypeOK'
  BY <1>1, <1>2, <1>3, RingFields DEF UartInv, UartTypeOK, Ring
<1>5. ~Full(tx')
  BY <1>1, <1>2, RingFields, AdvanceInjective DEF Full
<1>6. RoomToWrite'
  BY <1>1, <1>2, <1>5 DEF UartInv, RoomToWrite
<1>7. WakesCounted' /\ NothingForgotten'
  BY <1>1, <1>2, RingFields DEF UartInv, WakesCounted, NothingForgotten, Empty
<1>. QED
  BY <1>1, <1>4, <1>6, <1>7 DEF UartInv, OneWriter

LEMMA MaskClearPreserves ==
    ASSUME UartInv, MaskClear
    PROVE  UartInv'
  BY DEF MaskClear, threadVars, UartInv, UartTypeOK, OneWriter, RoomToWrite, WakesCounted,
     NothingForgotten, Empty

LEMMA UartStep == UartInv /\ [UartNext]_uartVars => UartInv'
<1>. SUFFICES ASSUME UartInv, [UartNext]_uartVars
              PROVE  UartInv'
  OBVIOUS
<1>1. ASSUME NEW self \in Thread, UartLock(self) \/ UartUnlock(self) \/ UartWrite(self)
      PROVE  UartInv'
  BY <1>1, LockPreserves, WriteCheckPreserves, WriteCountPreserves, WritePendPreserves,
     WriteDataPreserves, WriteAdvancePreserves, MaskSetPreserves DEF UartWrite
<1>2. CASE UartInterrupt
  BY <1>2, ReceivePreserves, TransmitPreserves, MaskClearPreserves DEF UartInterrupt
<1>3. CASE UNCHANGED uartVars
  BY <1>3 DEF uartVars, threadVars, UartInv, UartTypeOK, OneWriter, RoomToWrite, WakesCounted,
     NothingForgotten
<1>. QED
  BY <1>1, <1>2, <1>3, UartReadPreserves DEF UartNext

LEMMA UartInvariant == UartSpec => []UartInv
  BY UartInitEstablishes, UartStep, PTL DEF UartSpec

\* For any writers, bytes and ring sizes: a wait that a thread has counted is posted once, and bytes
\* in WriteBuffer have the interrupt on or a thread that is about to switch it on.  A thread that has
\* found the ring full and not yet counted itself (BufferWrite) has no such promise.
THEOREM RingsAreSound == UartSpec => []RingsSound
<1>1. UartInv => RingsSound
  BY DEF UartInv, UartTypeOK, RingsSound
<1>. QED
  BY <1>1, UartInvariant, PTL

(***************************************************************************)
(* UartBuffers: WriteBuffer is a bounded queue.                            *)
(***************************************************************************)

\* How many bytes there are from one place of a ring to another, and where the n-th of them is.
Between(read, write) == IF write >= read THEN write - read ELSE write - read + Size

PlaceFrom(read, n) == IF read + n - 1 < Size THEN read + n - 1 ELSE read + n - 1 - Size

Held == Between(tx.read, tx.write)

LEMMA RingArithmetic ==
    ASSUME NEW r \in 0 .. Size - 1, NEW w \in 0 .. Size - 1
    PROVE  /\ Size \in Nat /\ Size >= 2
           /\ Between(r, w) \in 0 .. Size - 1
           /\ Between(r, w) = 0 <=> r = w
           /\ \A n \in 1 .. Between(r, w) : PlaceFrom(r, n) \in 0 .. Size - 1
           /\ Advance(w) # r =>
                /\ Between(r, w) < Size - 1
                /\ Between(r, Advance(w)) = Between(r, w) + 1
                /\ PlaceFrom(r, Between(r, w) + 1) = w
                /\ \A n \in 1 .. Between(r, w) : PlaceFrom(r, n) # w
           /\ r # w =>
                /\ Between(Advance(r), w) = Between(r, w) - 1
                /\ PlaceFrom(r, 1) = r
                /\ \A n \in 1 .. Between(r, w) - 1 : PlaceFrom(Advance(r), n) = PlaceFrom(r, n + 1)
<1>1. Size \in Nat /\ Size >= 2
  BY UartAssumption
<1>2. Between(r, w) \in 0 .. Size - 1 /\ (Between(r, w) = 0 <=> r = w)
  BY <1>1 DEF Between
<1>3. ASSUME NEW n \in 1 .. Between(r, w)
      PROVE  PlaceFrom(r, n) \in 0 .. Size - 1
  BY <1>1, <1>2 DEF PlaceFrom
<1>4. ASSUME Advance(w) # r
      PROVE  /\ Between(r, w) < Size - 1
             /\ Between(r, Advance(w)) = Between(r, w) + 1
             /\ PlaceFrom(r, Between(r, w) + 1) = w
             /\ \A n \in 1 .. Between(r, w) : PlaceFrom(r, n) # w
  <2>1. Between(r, w) < Size - 1
    BY <1>1, <1>4 DEF Between, Advance
  <2>2. Between(r, Advance(w)) = Between(r, w) + 1
    BY <1>1, <1>4 DEF Between, Advance
  <2>3. PlaceFrom(r, Between(r, w) + 1) = w
    BY <1>1 DEF Between, PlaceFrom
  <2>4. ASSUME NEW n \in 1 .. Between(r, w)
        PROVE  PlaceFrom(r, n) # w
    BY <1>1, <2>1 DEF Between, PlaceFrom
  <2>. QED
    BY <2>1, <2>2, <2>3, <2>4
<1>5. ASSUME r # w
      PROVE  /\ Between(Advance(r), w) = Between(r, w) - 1
             /\ PlaceFrom(r, 1) = r
             /\ \A n \in 1 .. Between(r, w) - 1 : PlaceFrom(Advance(r), n) = PlaceFrom(r, n + 1)
  <2>1. Between(Advance(r), w) = Between(r, w) - 1
    BY <1>1, <1>5 DEF Between, Advance
  <2>2. PlaceFrom(r, 1) = r
    BY <1>1 DEF PlaceFrom
  <2>3. ASSUME NEW n \in 1 .. Between(r, w) - 1
        PROVE  PlaceFrom(Advance(r), n) = PlaceFrom(r, n + 1)
    BY <1>1, <1>2 DEF PlaceFrom, Advance
  <2>. QED
    BY <2>1, <2>2, <2>3
<1>. QED
  BY <1>1, <1>2, <1>3, <1>4, <1>5

OutputSound ==
    /\ Contents \in Seq(Byte \cup {NoByte})
    /\ Len(Contents) = Held
    /\ \A n \in 1 .. Held : Contents[n] = tx.data[PlaceFrom(tx.read, n)]

LEMMA HeldFacts ==
    ASSUME UartInv
    PROVE  /\ Held \in 0 .. Size - 1 /\ Size \in Nat /\ Size >= 2
           /\ \A n \in 1 .. Held : PlaceFrom(tx.read, n) \in 0 .. Size - 1
           /\ Held = 0 <=> Empty(tx)
  BY RingFields, RingArithmetic DEF Held, Empty

LEMMA ContentsAreHeld == UartInv => OutputSound
<1>. SUFFICES ASSUME UartInv
              PROVE  OutputSound
  OBVIOUS
<1>1. Size \in Nat \ {0} /\ tx.read \in 0 .. Size - 1 /\ tx.write \in 0 .. Size - 1
  BY RingFields, UartAssumption
<1>2. (tx.write - tx.read) % Size = Held /\ Held \in 0 .. Size - 1
  BY <1>1, ModDifference, HeldFacts DEF Held, Between
<1>3. ASSUME NEW n \in 1 .. Held
      PROVE  (tx.read + n - 1) % Size = PlaceFrom(tx.read, n)
  <2>1. n - 1 \in 0 .. Size - 1
    BY <1>1, <1>2
  <2>2. (tx.read + (n - 1)) % Size
          = IF tx.read + (n - 1) < Size THEN tx.read + (n - 1) ELSE tx.read + (n - 1) - Size
    BY <1>1, <2>1, ModSum
  <2>3. tx.read + (n - 1) = tx.read + n - 1
    BY <1>1, <1>2
  <2>. QED
    BY <2>2, <2>3 DEF PlaceFrom
<1>4. Contents = [n \in 1 .. Held |-> tx.data[(tx.read + n - 1) % Size]]
  BY <1>2 DEF Contents
<1>5. \A n \in 1 .. Held : /\ Contents[n] = tx.data[PlaceFrom(tx.read, n)]
                           /\ Contents[n] \in Byte \cup {NoByte}
  BY <1>3, <1>4, HeldFacts, RingFields
<1>6. Contents = [n \in 1 .. Held |-> Contents[n]]
  BY <1>4
<1>. HIDE DEF Contents, Held
<1>7. Contents \in [1 .. Held -> Byte \cup {NoByte}] /\ Held \in Nat
  BY <1>1, <1>2, <1>5, <1>6
<1>8. Contents \in Seq(Byte \cup {NoByte})
  BY <1>7, SeqDef
<1>9. Len(Contents) = Held
  BY <1>7, <1>8
<1>. QED
  BY <1>5, <1>8, <1>9 DEF OutputSound

LEMMA ContentsAreHeldNext == UartInv' => OutputSound'
  BY ContentsAreHeld, PTL

\* A byte joins the queue when the write index passes it.
LEMMA AdvanceAccepts ==
    ASSUME UartInv, UartInv', NEW self \in Thread, WriteAdvance(self)
    PROVE  Output!Accept(value[self])
<1>1. /\ uartPc[self] = "writeAdvance" /\ ~Full(tx) /\ tx.data[tx.write] = value[self]
      /\ value[self] \in Byte /\ sent' = sent
  BY DEF WriteAdvance, Goto, UartInv, RoomToWrite, Writing
<1>2. tx' = [data |-> tx.data, read |-> tx.read, write |-> Advance(tx.write),
             pending |-> tx.pending, semaphore |-> tx.semaphore]
  BY RingFields DEF WriteAdvance
<1>3. /\ Held \in 0 .. Size - 2 /\ Size \in Nat /\ Held' = Held + 1
      /\ PlaceFrom(tx.read, Held + 1) = tx.write
  BY <1>1, <1>2, RingFields, RingArithmetic DEF Held, Full
<1>. DEFINE now == Contents'  later == Append(Contents, value[self])
<1>4. OutputSound /\ OutputSound'
  BY ContentsAreHeld, ContentsAreHeldNext
<1>5. /\ now \in Seq(Byte \cup {NoByte}) /\ Len(now) = Held + 1
      /\ \A n \in 1 .. Held + 1 : now[n] = tx.data[PlaceFrom(tx.read, n)]
  BY <1>2, <1>3, <1>4 DEF OutputSound
<1>6. /\ later \in Seq(Byte \cup {NoByte}) /\ Len(later) = Held + 1
      /\ \A n \in 1 .. Held : later[n] = tx.data[PlaceFrom(tx.read, n)]
      /\ later[Held + 1] = value[self]
  BY <1>1, <1>3, <1>4 DEF OutputSound
<1>. HIDE DEF now, later
<1>7. \A n \in 1 .. Len(now) : now[n] = later[n]
  <2>1. now[Held + 1] = later[Held + 1]
    BY <1>1, <1>3, <1>5, <1>6
  <2>. QED
    BY <1>3, <1>5, <1>6, <2>1
<1>8. now = later
  BY <1>5, <1>6, <1>7, SeqEqual
<1>9. Len(Contents) < Size - 1
  BY <1>3, <1>4 DEF OutputSound
<1>. QED
  BY <1>1, <1>8, <1>9 DEF now, later, Output!Accept

\* UartInterrupt takes the first byte of the queue.
LEMMA TransmitReceives ==
    ASSUME UartInv, UartInv', Transmit
    PROVE  Output!Receive
<1>1. tx.read # tx.write /\ sent' = tx.data[tx.read]
  BY DEF Transmit, Empty
<1>2. tx' = [data |-> tx.data, read |-> Advance(tx.read), write |-> tx.write,
             pending |-> 0, semaphore |-> tx.semaphore + tx.pending]
  BY RingFields DEF Transmit, Wake
<1>3. /\ Held \in 1 .. Size - 1 /\ Size \in Nat /\ Held' = Held - 1
      /\ PlaceFrom(tx.read, 1) = tx.read
      /\ \A n \in 1 .. Held - 1 : PlaceFrom(Advance(tx.read), n) = PlaceFrom(tx.read, n + 1)
  <2>1. tx.read \in 0 .. Size - 1 /\ tx.write \in 0 .. Size - 1
    BY RingFields
  <2>2. Held' = Between(Advance(tx.read), tx.write)
    BY <1>2 DEF Held
  <2>3. Held # 0 /\ Held \in 0 .. Size - 1 /\ Size \in Nat /\ Held' = Held - 1
    <3>1. PICK r \in 0 .. Size - 1, w \in 0 .. Size - 1 : r = tx.read /\ w = tx.write
      BY <2>1
    <3>2. /\ Between(r, w) \in 0 .. Size - 1 /\ Size \in Nat
          /\ Between(r, w) = 0 <=> r = w
          /\ r # w => Between(Advance(r), w) = Between(r, w) - 1
      BY RingArithmetic
    <3>. QED
      BY <1>1, <2>2, <3>1, <3>2 DEF Held
  <2>4. /\ PlaceFrom(tx.read, 1) = tx.read
        /\ \A n \in 1 .. Held - 1 : PlaceFrom(Advance(tx.read), n) = PlaceFrom(tx.read, n + 1)
    BY <1>1, <2>1, RingArithmetic DEF Held
  <2>. QED
    BY <2>3, <2>4
<1>. DEFINE now == Contents'  rest == Tail(Contents)
<1>4. OutputSound /\ OutputSound'
  BY ContentsAreHeld, ContentsAreHeldNext
<1>5. /\ now \in Seq(Byte \cup {NoByte}) /\ Len(now) = Held - 1
      /\ \A n \in 1 .. Held - 1 : now[n] = tx.data[PlaceFrom(tx.read, n + 1)]
  <2>1. now \in Seq(Byte \cup {NoByte}) /\ Len(now) = Held - 1
    BY <1>3, <1>4 DEF OutputSound
  <2>2. \A n \in 1 .. Held - 1 : now[n] = tx.data[PlaceFrom(Advance(tx.read), n)]
    BY <1>2, <1>3, <1>4 DEF OutputSound
  <2>. QED
    BY <1>3, <2>1, <2>2
<1>6. /\ Contents # <<>> /\ Head(Contents) = tx.data[tx.read]
      /\ rest \in Seq(Byte \cup {NoByte}) /\ Len(rest) = Held - 1
      /\ \A n \in 1 .. Held - 1 : rest[n] = Contents[n + 1]
  BY <1>3, <1>4 DEF OutputSound
<1>7. \A n \in 1 .. Held - 1 : rest[n] = tx.data[PlaceFrom(tx.read, n + 1)]
  BY <1>3, <1>4, <1>6 DEF OutputSound
<1>. HIDE DEF now, rest
<1>8. now = rest
  BY <1>5, <1>6, <1>7, SeqEqual
<1>. QED
  BY <1>1, <1>6, <1>8 DEF now, rest, Output!Receive

\* A byte is put where none of the queue is.
LEMMA DataKeepsContents ==
    ASSUME UartInv, UartInv', NEW self \in Thread, WriteData(self)
    PROVE  UNCHANGED Contents
<1>1. uartPc[self] = "writeData" /\ ~Full(tx)
  BY DEF WriteData, Goto, UartInv, RoomToWrite
<1>2. tx' = [data |-> [tx.data EXCEPT ![tx.write] = value[self]], read |-> tx.read,
             write |-> tx.write, pending |-> tx.pending, semaphore |-> tx.semaphore]
  BY RingFields DEF WriteData
<1>3. /\ Held' = Held /\ Held \in Nat
      /\ \A n \in 1 .. Held : /\ PlaceFrom(tx.read, n) # tx.write
                              /\ PlaceFrom(tx.read, n) \in 0 .. Size - 1
  BY <1>1, <1>2, RingFields, RingArithmetic DEF Held, Full
<1>4. OutputSound /\ OutputSound'
  BY ContentsAreHeld, ContentsAreHeldNext
<1>5. \A n \in 1 .. Held : Contents'[n] = Contents[n]
  BY <1>2, <1>3, <1>4, RingFields DEF OutputSound
<1>6. PICK now \in Seq(Byte \cup {NoByte}) : now = Contents' /\ Len(now) = Held
  BY <1>3, <1>4 DEF OutputSound
<1>. QED
  BY <1>4, <1>5, <1>6, SeqEqual DEF OutputSound

LEMMA UartStepImplements ==
    ASSUME UartInv, UartInv', [UartNext]_uartVars
    PROVE  [Output!Next]_(Output!vars)
<1>1. ASSUME UNCHANGED <<Contents, sent>>
      PROVE  UNCHANGED Output!vars
  BY <1>1 DEF Output!vars
<1>2. CASE \E self \in Thread : WriteAdvance(self)
  <2>1. PICK self \in Thread : WriteAdvance(self)
    BY <1>2
  <2>2. value[self] \in Byte
    BY <2>1 DEF WriteAdvance, Goto, UartInv, RoomToWrite, Writing
  <2>. QED
    BY <2>1, <2>2, AdvanceAccepts DEF Output!Next
<1>3. CASE Transmit
  BY <1>3, TransmitReceives DEF Output!Next
<1>4. CASE \E self \in Thread : WriteData(self)
  BY <1>1, <1>4, DataKeepsContents DEF WriteData
<1>5. CASE \E self \in Thread : WriteCount(self) \/ WritePend(self)
  <2>1. /\ UNCHANGED <<tx.data, tx.read, tx.write, sent>>
    BY <1>5, RingFields DEF WriteCount, WritePend
  <2>. QED
    BY <1>1, <2>1 DEF Contents
<1>6. CASE \/ \E self \in Thread : UartLock(self) \/ UartUnlock(self) \/ WriteCheck(self) \/ MaskSet(self)
           \/ UartRead \/ (\E v \in Received : Receive(v)) \/ MaskClear
           \/ UNCHANGED uartVars
  <2>1. UNCHANGED <<tx, sent>>
    BY <1>6 DEF UartLock, UartUnlock, WriteCheck, MaskSet, UartRead, ReadCheck, ReadCount,
       ReadPend, ReadValue,
       ReadWrap, Receive, MaskClear, uartVars
  <2>. QED
    BY <1>1, <2>1 DEF Contents
<1>. QED
  BY <1>2, <1>3, <1>4, <1>5, <1>6 DEF UartNext, UartWrite, UartInterrupt

\* For any writers, bytes and ring sizes: WriteBuffer implements a bounded queue that refuses
\* nothing, so what the threads write is sent once and in their order.
THEOREM OutputIsQueue == UartSpec => OutputQueue
<1>1. UartInit => Output!Init
  <2>. SUFFICES ASSUME UartInit
                PROVE  Output!Init
    OBVIOUS
  <2>1. UartInv /\ sent = NoByte /\ tx = BufferCreate
    BY UartInitEstablishes DEF UartInit
  <2>2. Contents \in Seq(Byte \cup {NoByte}) /\ Len(Contents) = 0
    BY <2>1, ContentsAreHeld, HeldFacts DEF OutputSound, Empty, BufferCreate
  <2>. QED
    BY <2>1, <2>2 DEF Output!Init
<1>. QED
  BY <1>1, UartStepImplements, UartInvariant, PTL DEF UartSpec, OutputQueue, Output!Spec

-----------------------------------------------------------------------------
(* EthernetRing *)

(***************************************************************************)
(* EthernetRing: the inductive invariant.                                  *)
(***************************************************************************)

\* The word the DMA writes at a place of the ring, counted from the first.
Word(p) == Cells(p \div FrameWords + 1)[(p % FrameWords) + 1]

\* A cell is empty or holds the word the DMA has written there, and is empty unless the driver
\* has still to look at it.
CellsInv ==
    \A p \in 0 .. RingSize - 1 :
        \/ ring[At(p)] = BYTE_EMPTY
        \/ gIndex <= p /\ p < written /\ ring[At(p)] = Word(p)

\* The cell begins a frame, of which it holds n bytes.
Began(cell, n) == cell[1] = "mac1" /\ lead[cell[2]] = n

\* The empty cells just seen are the last ones; ok says that the one before began a frame.
ScanInv ==
    ringPc = "scan" =>
        /\ scan.i \in 0 .. RingSize - 1 /\ scan.empty \in 0 .. scan.i
        /\ gIndex + scan.i - scan.empty <= written
        /\ scan.ok > 0 => scan.i > 0 /\ Began(Cell(scan.i - 1), scan.ok)

\* The words the CRC was taken over are those of one frame.
CrcInv ==
    ringPc = "crc" =>
        /\ scan.i \in 0 .. 2
        /\ scan.i >= 1 => Continues(0)
        /\ scan.i = 2 => Continues(1)

DeliveredInv ==
    /\ delivered \in Seq(Frames)
    /\ \A n \in DOMAIN delivered :
          /\ kind[delivered[n]] = "good"
          /\ delivered[n] * FrameWords <= gIndex
          /\ \A m \in DOMAIN delivered : m < n => delivered[m] < delivered[n]

ScanVariables ==
    [i : Nat, ok : {0, 3, 4}, empty : Nat, goal : Nat, wait : BOOLEAN, expected : BOOLEAN]

RingTypeOK ==
    /\ kind \in [Frames -> Kinds] /\ lead \in [Frames -> Leads]
    /\ DOMAIN ring = 0 .. RingSize - 1
    /\ irq \in BOOLEAN
    /\ scan \in ScanVariables
    /\ written \in 0 .. FrameCount * FrameWords
    /\ gIndex \in 0 .. written

RingInv == RingTypeOK /\ CellsInv /\ ScanInv /\ CrcInv /\ DeliveredInv

(***************************************************************************)
(* Places of the ring.                                                     *)
(***************************************************************************)

LEMMA AtArithmetic ==
    /\ RingSize \in Nat /\ RingSize > 2
           /\ FrameCount \in Nat /\ FrameCount * FrameWords < RingSize - 1
           /\ \A p \in 0 .. RingSize - 1 :
                 /\ At(p) = IF p + Origin < RingSize THEN p + Origin ELSE p + Origin - RingSize
                 /\ At(p) \in 0 .. RingSize - 1 /\ At(p + RingSize) = At(p)
                 /\ \A q \in 0 .. RingSize - 1 : At(p) = At(q) => p = q
<1>1. /\ FrameCount \in Nat /\ CountExpected \in Int /\ FrameCount * 3 <= CountExpected
      /\ CountExpected < RingSize - 1 /\ Origin \in 0 .. RingSize - 1
  BY RingAssumption DEF FrameWords
<1>2. RingSize \in Nat /\ RingSize > 2 /\ FrameCount * FrameWords < RingSize - 1
  BY <1>1, RingAssumption DEF FrameWords
<1>3. ASSUME NEW p \in 0 .. RingSize - 1
      PROVE  /\ At(p) = IF p + Origin < RingSize THEN p + Origin ELSE p + Origin - RingSize
             /\ At(p + RingSize) = At(p)
  <2>1. (p + Origin) % RingSize
          = IF p + Origin < RingSize THEN p + Origin ELSE p + Origin - RingSize
    <3>1. RingSize \in Nat \ {0}
      BY <1>2
    <3>. QED
      BY <1>1, <3>1, ModSum
  <2>2. \A d \in 0 .. 2 * RingSize - 1 : (d + RingSize) % RingSize = d % RingSize
    BY <1>2
  <2>3. (p + RingSize) + Origin = (p + Origin) + RingSize /\ p + Origin \in 0 .. 2 * RingSize - 1
    BY <1>1, <1>2
  <2>. QED
    BY <2>1, <2>2, <2>3 DEF At
<1>. QED
  BY <1>1, <1>2, <1>3

LEMMA ThreePlaces ==
    ASSUME NEW p \in Nat
    PROVE  /\ p \div FrameWords \in Nat /\ p % FrameWords \in 0 .. 2
           /\ p = 3 * (p \div FrameWords) + (p % FrameWords)
<1>1. p \div 3 \in Nat /\ p % 3 \in 0 .. 2
  OBVIOUS
<1>2. p = 3 * (p \div 3) + (p % 3)
  OBVIOUS
<1>. QED
  BY <1>1, <1>2 DEF FrameWords

\* What a word says of its frame.
LEMMA WordFacts ==
    ASSUME NEW p \in Nat
    PROVE  /\ Word(p)[1] \in {"mac1", "mac2", "crc", "junk"}
           /\ Word(p)[1] = "mac1" => p % FrameWords = 0 /\ Word(p)[2] = p \div FrameWords + 1
           /\ Word(p)[1] = "mac2" => p % FrameWords = 1 /\ Word(p)[2] = p \div FrameWords + 1
           /\ Word(p)[1] = "crc" => p % FrameWords = 2 /\ Word(p)[2] = p \div FrameWords + 1
                                      /\ kind[p \div FrameWords + 1] = "good"
<1>. DEFINE f == p \div FrameWords + 1
<1>1. p % FrameWords \in {0, 1, 2}
  BY ThreePlaces
<1>2. CASE kind[f] = "other"
  BY <1>1, <1>2 DEF Word, Cells, Junk
<1>3. CASE kind[f] # "other"
  <2>1. Cells(f) = <<<<"mac1", f>>, <<"mac2", f>>, IF kind[f] = "good" THEN <<"crc", f>> ELSE Junk>>
    BY <1>3 DEF Cells
  <2>. HIDE DEF f
  <2>2. CASE p % FrameWords = 0
    BY <2>1, <2>2 DEF Word, f
  <2>3. CASE p % FrameWords = 1
    BY <2>1, <2>3 DEF Word, f
  <2>4. CASE p % FrameWords = 2
    BY <2>1, <2>4 DEF Word, f, Junk
  <2>. QED
    BY <1>1, <2>2, <2>3, <2>4 DEF f
<1>. QED
  BY <1>2, <1>3

LEMMA PlacesInRing ==
    ASSUME RingTypeOK
    PROVE  /\ gIndex \in 0 .. RingSize - 2 /\ written \in 0 .. RingSize - 2 /\ gIndex <= written
           /\ RingSize \in Nat
  BY AtArithmetic DEF RingTypeOK, FrameWords

\* What the driver sees is not empty only where the DMA has written.
LEMMA SeenIsWritten ==
    ASSUME RingTypeOK, CellsInv, NEW n \in 0 .. RingSize - 1, Cell(n) # BYTE_EMPTY
    PROVE  gIndex + n < written /\ Cell(n) = Word(gIndex + n)
<1>1. /\ gIndex \in 0 .. RingSize - 1 /\ written \in 0 .. RingSize - 1 /\ RingSize \in Nat
      /\ gIndex <= written
  BY PlacesInRing
<1>2. CASE gIndex + n < RingSize
  <2>1. gIndex + n \in 0 .. RingSize - 1
    BY <1>1, <1>2
  <2>. QED
    BY <2>1 DEF CellsInv, Cell
<1>3. CASE gIndex + n >= RingSize
  <2>1. PICK p \in 0 .. RingSize - 1 : p = gIndex + n - RingSize
    BY <1>1, <1>3
  <2>2. p < gIndex /\ gIndex + n = p + RingSize
    BY <1>1, <2>1
  <2>3. Cell(n) = ring[At(p)]
    BY <2>2, AtArithmetic DEF Cell
  <2>. QED
    BY <1>1, <2>2, <2>3 DEF CellsInv
<1>. QED
  BY <1>1, <1>2, <1>3

LEMMA ClearedAt ==
    ASSUME RingTypeOK, NEW first \in 0 .. RingSize - 1,
           NEW n \in 0 .. RingSize - first
    PROVE  /\ DOMAIN Cleared(first, n) = 0 .. RingSize - 1
           /\ \A p \in 0 .. RingSize - 1 :
                 Cleared(first, n)[At(p)] = IF first <= p /\ p < first + n THEN BYTE_EMPTY ELSE ring[At(p)]
<1>1. RingSize \in Nat /\ \A p \in 0 .. RingSize - 1 : At(p) \in 0 .. RingSize - 1
  BY AtArithmetic
<1>2. DOMAIN Cleared(first, n) = 0 .. RingSize - 1
  BY DEF Cleared, RingTypeOK
<1>3. ASSUME NEW p \in 0 .. RingSize - 1
      PROVE  (\E j \in 0 .. n - 1 : At(p) = At(first + j)) <=> first <= p /\ p < first + n
  <2>1. ASSUME NEW j \in 0 .. n - 1, At(p) = At(first + j)
        PROVE  first <= p /\ p < first + n
    <3>1. first + j \in 0 .. RingSize - 1
      BY <1>1
    <3>2. p = first + j
      BY <2>1, <3>1, AtArithmetic
    <3>. QED
      BY <1>1, <3>2
  <2>2. ASSUME first <= p, p < first + n
        PROVE  \E j \in 0 .. n - 1 : At(p) = At(first + j)
    <3>1. p - first \in 0 .. n - 1 /\ first + (p - first) = p
      BY <1>1, <2>2
    <3>. QED
      BY <3>1
  <2>. QED
    BY <2>1, <2>2
<1>4. \A p \in 0 .. RingSize - 1 :
        Cleared(first, n)[At(p)]
          = IF \E j \in 0 .. n - 1 : At(p) = At(first + j) THEN BYTE_EMPTY ELSE ring[At(p)]
  BY <1>1 DEF Cleared, RingTypeOK
<1>. QED
  BY <1>2, <1>3, <1>4

\* Cells that the driver empties and leaves behind stay in order.
LEMMA ClearedKeepsCells ==
    ASSUME RingTypeOK, CellsInv, UNCHANGED <<kind, lead, written>>,
           NEW n \in Nat, NEW to \in gIndex .. gIndex + n, to <= written,
           ring' = Cleared(gIndex, n), gIndex' = to, gIndex + n <= RingSize,
           irq' \in BOOLEAN, scan' \in ScanVariables
    PROVE  RingTypeOK' /\ CellsInv'
<1>1. gIndex \in 0 .. RingSize - 1 /\ n \in 0 .. RingSize - gIndex /\ RingSize \in Nat
  BY PlacesInRing
<1>2. /\ DOMAIN ring' = 0 .. RingSize - 1
      /\ \A p \in 0 .. RingSize - 1 :
            ring'[At(p)] = IF gIndex <= p /\ p < gIndex + n THEN BYTE_EMPTY ELSE ring[At(p)]
  BY <1>1, ClearedAt
<1>3. RingTypeOK'
  BY <1>1, <1>2 DEF RingTypeOK
<1>4. \A p \in Int : Word(p)' = Word(p)
  BY DEF Word, Cells
<1>5. \A p : At(p)' = At(p)
  BY DEF At
<1>6. ASSUME NEW p \in 0 .. RingSize - 1
      PROVE  \/ ring'[At(p)] = BYTE_EMPTY
             \/ gIndex' <= p /\ p < written' /\ ring'[At(p)] = Word(p)'
  <2>1. CASE gIndex <= p /\ p < gIndex + n
    BY <1>2, <2>1
  <2>2. CASE ~(gIndex <= p /\ p < gIndex + n)
    <3>1. ring'[At(p)] = ring[At(p)]
      BY <1>2, <2>2
    <3>2. CASE gIndex <= p /\ p < written /\ ring[At(p)] = Word(p)
      BY <1>1, <1>4, <2>2, <3>1, <3>2
    <3>. QED
      BY <3>1, <3>2 DEF CellsInv
  <2>. QED
    BY <2>1, <2>2
<1>. QED
  BY <1>3, <1>5, <1>6 DEF CellsInv, At

\* Where the ring and the place in it stay, so does what was seen in it.
LEMMA SameRing ==
    ASSUME RingTypeOK, CellsInv, UNCHANGED <<kind, lead, ring, written, gIndex>>,
           irq' \in BOOLEAN, scan' \in ScanVariables
    PROVE  RingTypeOK' /\ CellsInv' /\ \A n : Cell(n)' = Cell(n)
<1>1. \A p \in 0 .. RingSize - 1 : Word(p)' = Word(p) /\ At(p)' = At(p)
  BY DEF Word, Cells, At
<1>2. CellsInv'
  BY <1>1 DEF CellsInv, At
<1>3. RingTypeOK'
  BY DEF RingTypeOK
<1>. QED
  BY <1>2, <1>3 DEF Cell, At

LEMMA DeliveredKept ==
    ASSUME RingTypeOK, RingTypeOK', DeliveredInv, UNCHANGED <<kind, lead, delivered>>,
           gIndex <= gIndex'
    PROVE  DeliveredInv'
<1>1. \A n \in DOMAIN delivered : delivered[n] * FrameWords \in Int
  <2>1. \A n \in DOMAIN delivered : delivered[n] \in Int
    BY AtArithmetic, SMTT(60) DEF DeliveredInv, Frames
  <2>. QED
    BY <2>1 DEF FrameWords
<1>2. gIndex \in Int /\ gIndex' \in Int
  BY DEF RingTypeOK
<1>3. \A n \in DOMAIN delivered : delivered[n] * FrameWords <= gIndex'
  BY <1>1, <1>2 DEF DeliveredInv
<1>. QED
  BY <1>3 DEF DeliveredInv

(***************************************************************************)
(* The steps.                                                              *)
(***************************************************************************)

\* The DMA writes where nothing was left and nothing was seen.
LEMMA DmaStep ==
    ASSUME RingInv, Dma
    PROVE  RingInv'
<1>1. /\ gIndex \in 0 .. RingSize - 2 /\ written \in 0 .. RingSize - 2 /\ gIndex <= written
      /\ RingSize \in Nat /\ RingSize > 2 /\ FrameCount * FrameWords \in Nat
  BY PlacesInRing, AtArithmetic DEF RingInv, FrameWords
<1>2. /\ UNCHANGED <<kind, lead, gIndex, ringPc, scan, delivered>> /\ written' = written + 1
      /\ written < FrameCount * FrameWords /\ irq' \in BOOLEAN
  BY DEF Dma, RingInv, RingTypeOK
<1>3. DOMAIN ring = 0 .. RingSize - 1 /\ DOMAIN ring' = DOMAIN ring
  BY DEF RingInv, RingTypeOK, Dma
<1>4. RingTypeOK'
  BY <1>1, <1>2, <1>3 DEF RingInv, RingTypeOK
<1>5. \A p \in 0 .. RingSize - 1 :
        ring'[At(p)] = IF p = written THEN Word(written) ELSE ring[At(p)]
  <2>1. written \in 0 .. RingSize - 1
    BY <1>1
  <2>2. \A p \in 0 .. RingSize - 1 : At(p) \in DOMAIN ring /\ (At(p) = At(written) => p = written)
    BY <1>3, <2>1, AtArithmetic
  <2>3. ring' = [ring EXCEPT ![At(written)] = Word(written)]
    BY DEF Dma, Word, Coming
  <2>. QED
    BY <2>1, <2>2, <2>3
<1>6. \A p \in 0 .. RingSize - 1 : Word(p)' = Word(p) /\ At(p)' = At(p)
  BY <1>2 DEF Word, Cells, At
<1>7. CellsInv'
  BY <1>1, <1>2, <1>5, <1>6 DEF RingInv, CellsInv, At
<1>8. ASSUME NEW n \in 0 .. RingSize - 1, Cell(n) # BYTE_EMPTY
      PROVE  Cell(n)' = Cell(n)
  <2>1. gIndex + n < written
    BY <1>8, SeenIsWritten DEF RingInv
  <2>2. gIndex + n \in 0 .. RingSize - 1 /\ gIndex + n # written
    BY <1>1, <2>1
  <2>3. ring'[At(gIndex + n)] = ring[At(gIndex + n)]
    BY <1>5, <2>2
  <2>. QED
    BY <1>2, <2>3 DEF Cell, At
<1>9. ScanInv'
  <2>1. SUFFICES ASSUME ringPc = "scan" PROVE ScanInv'
    BY <1>2 DEF ScanInv
  <2>2. ScanInv /\ scan.i \in 0 .. RingSize - 1 /\ scan.empty \in 0 .. scan.i
    BY <2>1 DEF RingInv, ScanInv
  <2>3. gIndex + scan.i - scan.empty <= written'
    BY <1>1, <1>2, <2>1, <2>2 DEF ScanInv
  <2>4. PICK k \in -1 .. RingSize - 2 : k = scan.i - 1
    BY <1>1, <2>2
  <2>5. ASSUME scan.ok > 0 PROVE scan.i > 0 /\ Began(Cell(k), scan.ok)'
    <3>1. scan.i > 0 /\ Began(Cell(k), scan.ok)
      BY <2>1, <2>2, <2>4, <2>5 DEF ScanInv
    <3>2. Cell(k) # BYTE_EMPTY /\ k \in 0 .. RingSize - 1
      BY <1>1, <2>2, <2>4, <3>1 DEF BYTE_EMPTY, Began
    <3>3. Cell(k)' = Cell(k)
      BY <1>8, <3>2
    <3>. QED
      BY <1>2, <3>1, <3>3 DEF Began
  <2>. QED
    BY <1>2, <2>1, <2>2, <2>3, <2>4, <2>5 DEF ScanInv
<1>10. CrcInv'
  <2>1. SUFFICES ASSUME ringPc = "crc" PROVE CrcInv'
    BY <1>2 DEF CrcInv
  <2>2. CrcInv /\ scan.i \in 0 .. 2
    BY <2>1 DEF RingInv, CrcInv
  <2>3. ASSUME scan.i >= 1 PROVE Cell(0) # BYTE_EMPTY /\ Cell(0)' = Cell(0)
    <3>1. Cell(0) # BYTE_EMPTY
      BY <2>1, <2>2, <2>3 DEF CrcInv, Continues, BYTE_EMPTY
    <3>. QED
      BY <1>1, <1>8, <3>1
  <2>4. ASSUME scan.i = 2 PROVE Cell(1)' = Cell(1)
    <3>1. Cell(1) # BYTE_EMPTY
      BY <2>1, <2>2, <2>4 DEF CrcInv, Continues, BYTE_EMPTY
    <3>. QED
      BY <1>1, <1>8, <3>1
  <2>5. scan.i >= 1 => Continues(0)'
    BY <2>1, <2>2, <2>3 DEF CrcInv, Continues
  <2>6. scan.i = 2 => Continues(1)'
    BY <2>1, <2>2, <2>3, <2>4 DEF CrcInv, Continues
  <2>. QED
    BY <1>2, <2>2, <2>5, <2>6 DEF CrcInv
<1>11. DeliveredInv'
  BY <1>1, <1>2, <1>4, DeliveredKept DEF RingInv
<1>. QED
  BY <1>4, <1>7, <1>9, <1>10, <1>11 DEF RingInv

\* A step that leaves the ring, the place in it and what was delivered alone, and ends the scan.
LEMMA QuietStep ==
    ASSUME RingInv, UNCHANGED <<kind, lead, ring, written, gIndex, delivered>>,
           irq' \in BOOLEAN, scan' \in ScanVariables, ScanInv', CrcInv'
    PROVE  RingInv'
<1>1. RingTypeOK' /\ CellsInv'
  BY SameRing DEF RingInv
<1>2. DeliveredInv'
  BY <1>1, DeliveredKept DEF RingInv, RingTypeOK
<1>. QED
  BY <1>1, <1>2 DEF RingInv

\* A return without a frame ends the scan.
LEMMA ReturnEnds ==
    ASSUME RingInv, ReturnNothing
    PROVE  /\ scan' \in ScanVariables /\ irq' \in BOOLEAN /\ ScanInv' /\ CrcInv'
           /\ UNCHANGED <<kind, lead, written, delivered>>
<1>1. scan' = NoScan /\ ringPc' \in {"init", "wait"} /\ UNCHANGED <<kind, lead, written, irq, delivered>>
  BY DEF ReturnNothing, dmaVars
<1>2. scan' \in ScanVariables /\ irq' \in BOOLEAN
  BY <1>1 DEF NoScan, ScanVariables, RingInv, RingTypeOK
<1>. QED
  BY <1>1, <1>2 DEF ScanInv, CrcInv

\* A step that empties cells and goes on behind them.
LEMMA ClearingStep ==
    ASSUME RingInv, UNCHANGED <<kind, lead, written, delivered>>,
           NEW n \in Nat, NEW to \in gIndex .. gIndex + n, to <= written,
           ring' = Cleared(gIndex, n), gIndex' = to, gIndex + n <= RingSize,
           irq' \in BOOLEAN, scan' \in ScanVariables, ScanInv', CrcInv'
    PROVE  RingInv'
<1>1. RingTypeOK' /\ CellsInv'
  BY ClearedKeepsCells DEF RingInv
<1>2. gIndex <= gIndex'
  BY PlacesInRing DEF RingInv
<1>3. DeliveredInv'
  BY <1>1, <1>2, DeliveredKept DEF RingInv
<1>. QED
  BY <1>1, <1>3 DEF RingInv

LEMMA ThreadWakesStep ==
    ASSUME RingInv, ThreadWakes
    PROVE  RingInv'
<1>1. /\ UNCHANGED <<kind, lead, ring, written, gIndex, delivered, irq, scan>>
      /\ ringPc' = "begin"
  BY DEF ThreadWakes, dmaVars
<1>2. irq' \in BOOLEAN /\ scan' \in ScanVariables
  BY <1>1 DEF RingInv, RingTypeOK
<1>. QED
  BY <1>1, <1>2, QuietStep DEF ScanInv, CrcInv

LEMMA BeginStep ==
    ASSUME RingInv, Begin
    PROVE  RingInv'
<1>1. UNCHANGED <<kind, lead, ring, written, gIndex, delivered>> /\ irq' = FALSE /\ ringPc' = "scan"
  BY DEF Begin, dmaVars
<1>2. scan' \in ScanVariables /\ scan'.i = 0 /\ scan'.empty = 0 /\ scan'.ok = 0
  <2>1. irq \in BOOLEAN /\ CountExpected \in Nat /\ CountEmpty \in Nat
    BY RingAssumption DEF RingInv, RingTypeOK
  <2>. QED
    BY <2>1 DEF Begin, NoScan, ScanVariables
<1>3. ScanInv'
  BY <1>1, <1>2, PlacesInRing DEF ScanInv, RingInv
<1>4. CrcInv'
  BY <1>1 DEF CrcInv
<1>. QED
  BY <1>1, <1>2, <1>3, <1>4, QuietStep

LEMMA ScanWaitStep ==
    ASSUME RingInv, ScanWait
    PROVE  RingInv'
<1>1. UNCHANGED <<ring, gIndex>>
  BY DEF ScanWait
<1>. QED
  BY <1>1, ReturnEnds, QuietStep DEF ScanWait

\* The first word of a frame has one of the leads.
LEMMA LeadOfWord ==
    ASSUME RingInv, NEW p \in 0 .. written - 1, Word(p)[1] = "mac1"
    PROVE  Word(p)[2] \in Frames /\ lead[Word(p)[2]] \in {3, 4}
<1>1. written \in Nat /\ written <= FrameCount * FrameWords /\ FrameCount \in Nat
  BY AtArithmetic DEF RingInv, RingTypeOK, FrameWords
<1>2. Word(p)[2] = p \div FrameWords + 1 /\ p \in Nat
  BY <1>1, WordFacts
<1>3. p \div FrameWords + 1 \in Frames
  BY <1>1 DEF FrameWords, Frames
<1>. QED
  BY <1>2, <1>3 DEF RingInv, RingTypeOK, Leads

\* The start of a frame: the word before the place was the first of it.
LEMMA ScanStartStep ==
    ASSUME RingInv, ScanStart
    PROVE  RingInv'
<1>1. /\ gIndex \in 0 .. RingSize - 2 /\ written \in 0 .. RingSize - 2 /\ gIndex <= written
      /\ RingSize \in Nat
  BY PlacesInRing DEF RingInv
<1>2. /\ ringPc = "scan" /\ scan.ok > 0 /\ Cell(scan.i)[1] = "mac2"
      /\ UNCHANGED <<kind, lead, written, delivered, irq>> /\ ringPc' = "crc"
      /\ scan' = [NoScan EXCEPT !.i = 1]
      /\ ring' = Cleared(gIndex, scan.i - 1) /\ gIndex' = gIndex + scan.i - 1
  BY DEF ScanStart, InScan, Matches, dmaVars
<1>3. scan.i \in 1 .. RingSize - 1 /\ Cell(scan.i - 1)[1] = "mac1"
  BY <1>1, <1>2 DEF RingInv, ScanInv, Began
<1>4. gIndex + scan.i < written
  BY <1>1, <1>2, <1>3, SeenIsWritten DEF RingInv, BYTE_EMPTY
<1>5. /\ scan.i - 1 \in 0 .. RingSize - gIndex /\ gIndex + scan.i - 1 \in 0 .. RingSize - 1
      /\ gIndex + (scan.i - 1) = gIndex + scan.i - 1 /\ gIndex \in 0 .. RingSize - 1
  BY <1>1, <1>3, <1>4
<1>6. ring'[At(gIndex + scan.i - 1)] = Cell(scan.i - 1)
  <2>1. ~(gIndex + scan.i - 1 < gIndex + (scan.i - 1))
    BY <1>1, <1>3
  <2>2. Cleared(gIndex, scan.i - 1)[At(gIndex + scan.i - 1)] = ring[At(gIndex + scan.i - 1)]
    BY <1>5, <2>1, ClearedAt DEF RingInv
  <2>. QED
    BY <1>2, <1>5, <2>2 DEF Cell
<1>7. scan' \in ScanVariables /\ scan'.i = 1 /\ irq' \in BOOLEAN
  BY <1>2 DEF NoScan, ScanVariables, RingInv, RingTypeOK
<1>8. Continues(0)'
  <2>1. gIndex' + 0 = gIndex + scan.i - 1
    BY <1>2, <1>5
  <2>2. Cell(0)' = ring'[At(gIndex + scan.i - 1)]
    BY <2>1 DEF Cell, At
  <2>. QED
    BY <1>3, <1>6, <2>2 DEF Continues
<1>9. ScanInv' /\ CrcInv'
  BY <1>2, <1>7, <1>8 DEF ScanInv, CrcInv
<1>10. /\ scan.i - 1 \in Nat /\ gIndex + scan.i - 1 \in gIndex .. gIndex + (scan.i - 1)
       /\ gIndex + scan.i - 1 <= written /\ gIndex + (scan.i - 1) <= RingSize
  BY <1>1, <1>3, <1>4
<1>. QED
  BY <1>2, <1>7, <1>9, <1>10, ClearingStep

LEMMA ScanNothingStep ==
    ASSUME RingInv, ScanNothing
    PROVE  RingInv'
<1>1. /\ gIndex \in 0 .. RingSize - 2 /\ written \in 0 .. RingSize - 2 /\ gIndex <= written
      /\ RingSize \in Nat
  BY PlacesInRing DEF RingInv
<1>2. /\ ringPc = "scan" /\ ReturnNothing
      /\ ring' = Cleared(gIndex, scan.i - scan.empty) /\ gIndex' = gIndex + scan.i - scan.empty
  BY DEF ScanNothing, InScan
<1>3. /\ scan.i \in Nat /\ scan.empty \in 0 .. scan.i /\ gIndex + scan.i - scan.empty <= written
  BY <1>1, <1>2 DEF RingInv, ScanInv
<1>4. /\ scan.i - scan.empty \in Nat
      /\ gIndex + scan.i - scan.empty \in gIndex .. gIndex + (scan.i - scan.empty)
      /\ gIndex + (scan.i - scan.empty) <= RingSize
  BY <1>1, <1>3
<1>. QED
  BY <1>2, <1>3, <1>4, ReturnEnds, ClearingStep

LEMMA ScanOnStep ==
    ASSUME RingInv, ScanOn
    PROVE  RingInv'
<1>1. /\ gIndex \in 0 .. RingSize - 2 /\ written \in 0 .. RingSize - 2 /\ gIndex <= written
      /\ RingSize \in Nat
  BY PlacesInRing DEF RingInv
<1>2. PICK k \in 0 .. RingSize - 2 : k = scan.i
  BY <1>1 DEF ScanOn, InScan, RingInv, ScanInv
<1>3. /\ ringPc = "scan" /\ ringPc' = "scan"
      /\ UNCHANGED <<kind, lead, ring, written, gIndex, delivered, irq>>
  BY DEF ScanOn, InScan, dmaVars
<1>4. /\ scan \in ScanVariables /\ irq \in BOOLEAN /\ scan.empty \in 0 .. k
      /\ gIndex + k - scan.empty <= written
  BY <1>2, <1>3 DEF RingInv, RingTypeOK, ScanInv
<1>5. /\ scan' \in ScanVariables /\ irq' \in BOOLEAN /\ scan'.i = k + 1
      /\ scan'.ok = IF Cell(k)[1] = "mac1" THEN lead[Cell(k)[2]] ELSE 0
      /\ scan'.empty = IF Cell(k) = BYTE_EMPTY THEN scan.empty + 1 ELSE 0
  <2>. DEFINE began == IF Cell(k)[1] = "mac1" THEN lead[Cell(k)[2]] ELSE 0
              empty == IF Cell(k) = BYTE_EMPTY THEN scan.empty + 1 ELSE 0
              wait == \/ scan.wait \/ (Cell(k) = BYTE_EMPTY /\ scan.ok = 3)
                      \/ (Cell(k) # BYTE_EMPTY /\ scan.empty > 0)
  <2>1. scan' = [scan EXCEPT !.i = k + 1, !.ok = began, !.empty = empty, !.wait = wait]
    BY <1>2 DEF ScanOn
  <2>2. wait \in BOOLEAN
    BY <1>4 DEF ScanVariables
  <2>0. ASSUME Cell(k)[1] = "mac1" PROVE lead[Cell(k)[2]] \in {3, 4}
    <3>1. Cell(k) # BYTE_EMPTY
      BY <2>0 DEF BYTE_EMPTY
    <3>2. Cell(k) = Word(gIndex + k) /\ gIndex + k < written
      BY <1>1, <3>1, SeenIsWritten DEF RingInv
    <3>. QED
      BY <1>1, <2>0, <3>2, LeadOfWord DEF RingInv
  <2>3. k + 1 \in Nat /\ began \in {0, 3, 4} /\ empty \in Nat
    BY <1>1, <1>2, <1>4, <2>0
  <2>. HIDE DEF began, empty, wait
  <2>4. \A r \in ScanVariables :
          LET s == [r EXCEPT !.i = k + 1, !.ok = began, !.empty = empty, !.wait = wait]
          IN  s \in ScanVariables /\ s.i = k + 1 /\ s.ok = began /\ s.empty = empty
    BY <2>2, <2>3 DEF ScanVariables
  <2>5. scan' \in ScanVariables /\ scan'.i = k + 1 /\ scan'.ok = began /\ scan'.empty = empty
    BY <1>4, <2>1, <2>4
  <2>. QED
    BY <1>3, <1>4, <2>5 DEF began, empty
<1>6. Cell(k)' = Cell(k)
  BY <1>3 DEF Cell, At
<1>7. gIndex + scan'.i - scan'.empty <= written
  <2>1. CASE Cell(k) = BYTE_EMPTY
    BY <1>1, <1>4, <1>5, <2>1
  <2>2. CASE Cell(k) # BYTE_EMPTY
    BY <1>1, <1>5, <2>2, SeenIsWritten DEF RingInv
  <2>. QED
    BY <2>1, <2>2
<1>8. scan'.ok > 0 => scan'.i > 0 /\ Began(Cell(k), scan.ok)'
  <2>. SUFFICES ASSUME scan'.ok > 0 PROVE scan'.i > 0 /\ Began(Cell(k), scan.ok)'
    OBVIOUS
  <2>1. Cell(k)[1] = "mac1" /\ scan'.ok = lead[Cell(k)[2]]
    BY <1>5
  <2>. QED
    BY <1>1, <1>3, <1>5, <1>6, <2>1 DEF Began
<1>9. scan'.i \in 0 .. RingSize - 1 /\ scan'.empty \in 0 .. scan'.i /\ scan'.i - 1 = k
  BY <1>1, <1>4, <1>5
<1>10. ScanInv' /\ CrcInv'
  BY <1>3, <1>7, <1>8, <1>9 DEF ScanInv, CrcInv
<1>. QED
  BY <1>3, <1>5, <1>10, QuietStep

LEMMA ScanEndStep ==
    ASSUME RingInv, ScanEnd
    PROVE  RingInv'
<1>1. UNCHANGED <<kind, lead, ring, written, gIndex, delivered, irq>> /\ ringPc' = "crc" /\ scan' = NoScan
  BY DEF ScanEnd, dmaVars
<1>2. irq' \in BOOLEAN /\ scan' \in ScanVariables /\ scan'.i = 0
  BY <1>1 DEF NoScan, ScanVariables, RingInv, RingTypeOK
<1>. QED
  BY <1>1, <1>2, QuietStep DEF ScanInv, CrcInv

LEMMA CrcOnStep ==
    ASSUME RingInv, CrcOn
    PROVE  RingInv'
<1>1. /\ UNCHANGED <<kind, lead, ring, written, gIndex, delivered, irq>>
      /\ ringPc = "crc" /\ ringPc' = "crc" /\ scan.i < 2 /\ Continues(scan.i)
      /\ scan' = [scan EXCEPT !.i = scan.i + 1]
  BY DEF CrcOn, dmaVars
<1>2. scan \in ScanVariables /\ scan.i \in 0 .. 2 /\ (scan.i >= 1 => Continues(0))
  BY <1>1 DEF RingInv, RingTypeOK, CrcInv
<1>3. scan' \in ScanVariables /\ scan'.i = scan.i + 1 /\ irq' \in BOOLEAN
  BY <1>1, <1>2 DEF ScanVariables, RingInv, RingTypeOK
<1>4. Continues(0)' = Continues(0) /\ Continues(1)' = Continues(1)
  BY <1>1 DEF Continues, Cell, At
<1>5. Continues(0) /\ (scan.i = 1 => Continues(1))
  <2>1. scan.i = 0 => Continues(0)
    BY <1>1
  <2>2. scan.i = 1 => Continues(1)
    BY <1>1
  <2>. QED
    BY <1>1, <1>2, <2>1, <2>2
<1>6. ScanInv' /\ CrcInv'
  BY <1>1, <1>2, <1>3, <1>4, <1>5 DEF ScanInv, CrcInv
<1>. QED
  BY <1>1, <1>3, <1>6, QuietStep

\* What continues to the end is one frame, good, and the place of the driver was its first word.
LEMMA WholeFrame ==
    ASSUME RingInv, ringPc = "crc", scan.i = 2, Continues(2)
    PROVE  /\ gIndex + 3 <= written /\ Cell(0)[2] \in Frames /\ kind[Cell(0)[2]] = "good"
           /\ Cell(0)[2] * FrameWords = gIndex + 3
<1>1. /\ gIndex \in 0 .. RingSize - 2 /\ written \in 0 .. RingSize - 2 /\ gIndex <= written
      /\ RingSize \in Nat /\ RingSize > 2 /\ FrameCount \in Nat
      /\ written <= FrameCount * FrameWords
  BY PlacesInRing, AtArithmetic DEF RingInv, RingTypeOK
<1>2. Continues(0) /\ Continues(1) /\ Continues(2)
  BY DEF RingInv, CrcInv
<1>3. /\ Cell(0)[1] = "mac1" /\ Cell(1)[1] = "mac2" /\ Cell(2)[1] = "crc"
      /\ Cell(1)[2] = Cell(0)[2] /\ Cell(2)[2] = Cell(1)[2]
  <2>1. Cell(0)[1] = "mac1"
    BY <1>2 DEF Continues
  <2>2. Cell(1)[1] = "mac2" /\ Cell(1)[2] = Cell(0)[2]
    BY <1>2 DEF Continues
  <2>3. Cell(2)[1] = "crc" /\ Cell(2)[2] = Cell(1)[2]
    BY <1>2 DEF Continues
  <2>. QED
    BY <2>1, <2>2, <2>3
<1>4. Cell(0) # BYTE_EMPTY /\ Cell(2) # BYTE_EMPTY
  BY <1>3 DEF BYTE_EMPTY
<1>5. /\ gIndex + 2 < written
      /\ Cell(0) = Word(gIndex) /\ Cell(2) = Word(gIndex + 2)
  <2>1. Cell(0) = Word(gIndex + 0) /\ gIndex + 0 = gIndex
    BY <1>1, <1>4, SeenIsWritten DEF RingInv
  <2>2. gIndex + 2 < written /\ Cell(2) = Word(gIndex + 2)
    BY <1>1, <1>4, SeenIsWritten DEF RingInv
  <2>. QED
    BY <2>1, <2>2
<1>6. /\ gIndex % FrameWords = 0 /\ Cell(0)[2] = gIndex \div FrameWords + 1
      /\ Cell(2)[2] = (gIndex + 2) \div FrameWords + 1
      /\ kind[(gIndex + 2) \div FrameWords + 1] = "good"
  <2>1. gIndex \in Nat /\ gIndex + 2 \in Nat
    BY <1>1
  <2>. QED
    BY <1>3, <1>5, <2>1, WordFacts
<1>7. kind[Cell(0)[2]] = "good"
  BY <1>3, <1>6
<1>8. Cell(0)[2] \in Nat /\ Cell(0)[2] * FrameWords = gIndex + 3
  <2>1. PICK q \in Nat : q = gIndex \div FrameWords /\ gIndex = 3 * q
    BY <1>1, <1>6, ThreePlaces
  <2>2. Cell(0)[2] = q + 1
    BY <1>6, <2>1
  <2>. QED
    BY <2>1, <2>2 DEF FrameWords
<1>9. Cell(0)[2] \in Frames
  BY <1>1, <1>5, <1>8 DEF Frames, FrameWords
<1>. QED
  BY <1>1, <1>5, <1>7, <1>8, <1>9

LEMMA CrcEndStep ==
    ASSUME RingInv, CrcEnd
    PROVE  RingInv'
<1>. DEFINE f == Cell(0)[2]
<1>1. /\ UNCHANGED <<kind, lead, written, irq>> /\ ringPc' = "begin" /\ scan' = NoScan
      /\ ring' = Cleared(gIndex, 3) /\ gIndex' = gIndex + 3
      /\ delivered' = Append(delivered, f)
  BY DEF CrcEnd, dmaVars
<1>2. /\ gIndex + 3 <= written /\ f \in Frames /\ kind[f] = "good" /\ f * FrameWords = gIndex + 3
  BY WholeFrame DEF CrcEnd
<1>. HIDE DEF f
<1>3. /\ gIndex \in 0 .. RingSize - 2 /\ written \in 0 .. RingSize - 2 /\ RingSize \in Nat
  BY PlacesInRing DEF RingInv
<1>4. irq' \in BOOLEAN /\ scan' \in ScanVariables
  BY <1>1 DEF NoScan, ScanVariables, RingInv, RingTypeOK
<1>5. RingTypeOK' /\ CellsInv'
  <2>1. 3 \in Nat /\ gIndex + 3 \in gIndex .. gIndex + 3 /\ gIndex + 3 <= RingSize
    BY <1>2, <1>3
  <2>. QED
    BY <1>1, <1>2, <1>4, <2>1, ClearedKeepsCells DEF RingInv
<1>6. /\ delivered \in Seq(Frames) /\ Frames \subseteq Nat /\ gIndex \in Int /\ f \in Nat
      /\ \A n \in DOMAIN delivered :
            /\ kind[delivered[n]] = "good" /\ delivered[n] * FrameWords <= gIndex
            /\ \A m \in DOMAIN delivered : m < n => delivered[m] < delivered[n]
  BY <1>2, <1>3, AtArithmetic DEF RingInv, DeliveredInv, Frames
<1>7. \A n \in DOMAIN delivered :
         delivered[n] \in Nat /\ delivered[n] < f /\ delivered[n] * FrameWords <= gIndex'
  <2>1. \A x \in Nat : x * 3 <= gIndex => x < f /\ x * 3 <= gIndex + 3
    BY <1>2, <1>6 DEF FrameWords
  <2>2. \A n \in DOMAIN delivered : delivered[n] \in Frames
    BY <1>6
  <2>. QED
    BY <1>1, <1>6, <2>1, <2>2 DEF FrameWords
<1>8. /\ delivered' \in Seq(Frames) /\ Len(delivered) \in Nat
      /\ DOMAIN delivered' = 1 .. Len(delivered) + 1 /\ DOMAIN delivered = 1 .. Len(delivered)
      /\ delivered'[Len(delivered) + 1] = f
      /\ \A n \in DOMAIN delivered : delivered'[n] = delivered[n]
  BY <1>1, <1>2, <1>6
<1>9. ASSUME NEW n \in DOMAIN delivered'
      PROVE  /\ kind[delivered'[n]] = "good" /\ delivered'[n] * FrameWords <= gIndex'
             /\ \A m \in DOMAIN delivered' : m < n => delivered'[m] < delivered'[n]
  <2>1. CASE n = Len(delivered) + 1
    <3>1. delivered'[n] = f /\ f * FrameWords <= gIndex'
      BY <1>1, <1>2, <1>6, <1>8, <2>1
    <3>2. \A m \in DOMAIN delivered' : m < n => m \in DOMAIN delivered
      BY <1>8, <2>1
    <3>. QED
      BY <1>2, <1>7, <1>8, <3>1, <3>2
  <2>2. CASE n \in DOMAIN delivered
    <3>1. \A m \in DOMAIN delivered' : m < n => m \in DOMAIN delivered
      BY <1>8, <2>2
    <3>. QED
      BY <1>6, <1>7, <1>8, <2>2, <3>1
  <2>. QED
    BY <1>8, <2>1, <2>2
<1>10. DeliveredInv'
  BY <1>1, <1>8, <1>9 DEF DeliveredInv
<1>. QED
  BY <1>1, <1>5, <1>10 DEF RingInv, ScanInv, CrcInv

LEMMA CrcFailureStep ==
    ASSUME RingInv, CrcFailure
    PROVE  RingInv'
<1>1. ReturnNothing /\ gIndex' = gIndex
  BY DEF CrcFailure
<1>2. CASE gCheckedBefore
  <2>1. ring' = Cleared(gIndex, 1)
    BY <1>2 DEF CrcFailure
  <2>2. /\ 1 \in Nat /\ gIndex \in gIndex .. gIndex + 1 /\ gIndex <= written
        /\ gIndex + 1 <= RingSize
    BY PlacesInRing DEF RingInv
  <2>. QED
    BY <1>1, <2>1, <2>2, ReturnEnds, ClearingStep
<1>3. CASE ~gCheckedBefore
  <2>1. ring' = ring
    BY <1>3 DEF CrcFailure
  <2>. QED
    BY <1>1, <2>1, ReturnEnds, QuietStep
<1>. QED
  BY <1>2, <1>3

LEMMA EthernetInitStep ==
    ASSUME RingInv, EthernetInit
    PROVE  RingInv'
<1>1. /\ ringPc' = "wait" /\ ring' = Cleared(0, RingSize)
      /\ UNCHANGED <<kind, lead, written, irq, gIndex, scan, delivered>>
  BY DEF EthernetInit, dmaVars
<1>2. RingSize \in Nat /\ 0 \in 0 .. RingSize - 1 /\ RingSize \in 0 .. RingSize - 0
  BY AtArithmetic
<1>3. /\ DOMAIN ring' = 0 .. RingSize - 1
      /\ \A p \in 0 .. RingSize - 1 : ring'[At(p)] = BYTE_EMPTY
  <2>1. RingTypeOK
    BY DEF RingInv
  <2>2. /\ DOMAIN Cleared(0, RingSize) = 0 .. RingSize - 1
        /\ \A p \in 0 .. RingSize - 1 : Cleared(0, RingSize)[At(p)]
             = IF 0 <= p /\ p < 0 + RingSize THEN BYTE_EMPTY ELSE ring[At(p)]
    BY <1>2, <2>1, ClearedAt
  <2>3. \A p \in 0 .. RingSize - 1 : 0 <= p /\ p < 0 + RingSize
    BY <1>2
  <2>. QED
    BY <1>1, <2>2, <2>3
<1>4. RingTypeOK' /\ CellsInv'
  <2>1. RingTypeOK'
    <3>1. RingTypeOK
      BY DEF RingInv
    <3>2. /\ kind' = kind /\ lead' = lead /\ irq' = irq /\ scan' = scan /\ written' = written /\ gIndex' = gIndex
          /\ DOMAIN ring' = 0 .. RingSize - 1
      BY <1>1, <1>3
    <3>. QED
      BY <3>1, <3>2 DEF RingTypeOK
  <2>2. \A p \in 0 .. RingSize - 1 : (At(p))' = At(p)
    BY DEF At
  <2>3. CellsInv'
    BY <1>3, <2>2 DEF CellsInv
  <2>. QED
    BY <2>1, <2>3
<1>5. DeliveredInv'
  BY <1>1 DEF RingInv, DeliveredInv
<1>. QED
  BY <1>1, <1>4, <1>5 DEF RingInv, ScanInv, CrcInv

LEMMA RingInitInv ==
    ASSUME RingInit
    PROVE  RingInv
<1>1. /\ ring = [x \in 0 .. RingSize - 1 |-> BYTE_EMPTY] /\ written = 0 /\ gIndex = 0 /\ irq = FALSE
      /\ ringPc = "wait" /\ scan = NoScan /\ delivered = <<>> /\ kind \in [Frames -> Kinds]
      /\ lead \in [Frames -> Leads]
  BY DEF RingInit
<1>2. RingTypeOK
  <2>1. scan \in ScanVariables
    BY <1>1 DEF ScanVariables, NoScan
  <2>2. FrameCount * FrameWords \in Nat
    BY AtArithmetic DEF FrameWords
  <2>3. written \in 0 .. FrameCount * FrameWords /\ gIndex \in 0 .. written
    BY <1>1, <2>2
  <2>4. DOMAIN ring = 0 .. RingSize - 1 /\ irq \in BOOLEAN
    BY <1>1
  <2>. QED
    BY <1>1, <2>1, <2>3, <2>4 DEF RingTypeOK
<1>3. CellsInv
  BY <1>1, AtArithmetic DEF CellsInv
<1>. QED
  BY <1>1, <1>2, <1>3 DEF RingInv, ScanInv, CrcInv, DeliveredInv

LEMMA RingStep ==
    ASSUME RingInv, [RingNext]_ringVars
    PROVE  RingInv'
<1>1. CASE UNCHANGED ringVars
  <2>1. UNCHANGED <<kind, lead, ring, written, gIndex, delivered, irq, scan, ringPc>>
    BY <1>1 DEF ringVars
  <2>2. irq' \in BOOLEAN /\ scan' \in ScanVariables
    BY <2>1 DEF RingInv, RingTypeOK
  <2>3. ScanInv' /\ CrcInv'
    BY <2>1 DEF RingInv, ScanInv, CrcInv, Continues, Cell, At, Began
  <2>. QED
    BY <2>1, <2>2, <2>3, QuietStep
<1>2. CASE RingNext
  BY <1>2, DmaStep, ThreadWakesStep, BeginStep, ScanWaitStep, ScanStartStep, ScanNothingStep,
     ScanOnStep, ScanEndStep, CrcOnStep, CrcEndStep, CrcFailureStep, EthernetInitStep
     DEF RingNext, Driver, EthernetReceive
<1>. QED
  BY <1>1, <1>2

\* The words behind the driver, all round the ring, are empty.
LEMMA RingInvSound ==
    ASSUME RingInv
    PROVE  RingSound
<1>1. /\ gIndex \in 0 .. RingSize - 2 /\ written \in 0 .. RingSize - 2 /\ gIndex <= written
      /\ RingSize \in Nat
  BY PlacesInRing DEF RingInv
<1>2. ASSUME NEW n \in 1 .. RingSize - (written - gIndex)
      PROVE  ring[At(gIndex + RingSize - n)] = BYTE_EMPTY
  <2>1. CASE gIndex < n
    <3>1. PICK p \in 0 .. RingSize - 1 : p = gIndex + RingSize - n
      BY <1>1, <2>1
    <3>2. written <= p
      BY <1>1, <3>1
    <3>. QED
      BY <1>1, <3>1, <3>2 DEF RingInv, CellsInv
  <2>2. CASE gIndex >= n
    <3>1. PICK p \in 0 .. RingSize - 1 : p = gIndex - n
      BY <1>1, <2>2
    <3>2. p < gIndex /\ gIndex + RingSize - n = p + RingSize
      BY <1>1, <3>1
    <3>3. ring[At(p)] = BYTE_EMPTY
      BY <1>1, <3>2 DEF RingInv, CellsInv
    <3>4. At(p + RingSize) = At(p)
      BY AtArithmetic
    <3>. QED
      BY <3>2, <3>3, <3>4
  <2>. QED
    BY <1>1, <2>1, <2>2
<1>3. \A m, n \in DOMAIN delivered : m < n => delivered[m] < delivered[n]
  BY DEF RingInv, DeliveredInv
<1>4. \A n \in DOMAIN delivered : kind[delivered[n]] = "good"
  BY DEF RingInv, DeliveredInv
<1>. QED
  BY <1>1, <1>2, <1>3, <1>4 DEF RingSound

\* Whatever the DMA writes between two reads of the driver, only good frames are delivered, each
\* once and in order, and the words the driver has left behind are empty (EthernetReceive).
THEOREM FramesAreSound == RingSpec => []RingSound
<1>1. RingInit => RingInv
  BY RingInitInv
<1>2. RingInv /\ [RingNext]_ringVars => RingInv'
  BY RingStep
<1>3. RingInv => RingSound
  BY RingInvSound
<1>. QED
  BY <1>1, <1>2, <1>3, PTL DEF RingSpec

(***************************************************************************)
(* No frame is thrown away that was not looked at before.                  *)
(***************************************************************************)

\* While the scan has met no reason to wait, the words it has passed hold no start of a frame
\* that is waited for but the last one, and the empty ones are the last.
LookedInv ==
    ringPc = "scan" =>
        /\ scan.goal >= 2
        /\ scan.wait => scan.i >= 2
        /\ scan.ok > 0 => scan.empty = 0
        /\ ~scan.wait =>
             \A n \in 0 .. RingSize - 1 : n < scan.i - scan.empty =>
                /\ Cell(n) # BYTE_EMPTY
                /\ Began(Cell(n), 3) => n = scan.i - 1 /\ scan.ok = 3

\* The second word of a frame comes after the first.
LEMMA SecondWord ==
    ASSUME NEW p \in Nat, Word(p)[1] = "mac1"
    PROVE  Word(p + 1)[1] = "mac2"
<1>1. p % FrameWords = 0
  BY WordFacts
<1>2. (p + 1) \div FrameWords = p \div FrameWords /\ (p + 1) % FrameWords = 1
  BY <1>1 DEF FrameWords
<1>. DEFINE f == p \div FrameWords + 1
<1>3. kind[f] # "other"
  <2>1. CASE kind[f] = "other"
    <3>1. Word(p) = <<Junk, Junk, Junk>>[1]
      BY <1>1, <2>1 DEF Word, Cells
    <3>. QED
      BY <3>1 DEF Junk
  <2>. QED
    BY <2>1
<1>4. Word(p + 1) = <<"mac2", f>>
  <2>1. Word(p + 1) = Cells(f)[2]
    BY <1>2 DEF Word
  <2>. HIDE DEF f
  <2>. QED
    BY <1>3, <2>1 DEF Cells, f
<1>. QED
  BY <1>4

LEMMA LookedScanOn ==
    ASSUME RingInv, LookedInv, ScanOn
    PROVE  LookedInv'
<1>1. /\ gIndex \in 0 .. RingSize - 2 /\ RingSize \in Nat
  BY PlacesInRing DEF RingInv
<1>2. PICK k \in 0 .. RingSize - 2 : k = scan.i
  BY <1>1 DEF ScanOn, InScan, RingInv, ScanInv
<1>3. /\ ringPc = "scan" /\ UNCHANGED <<ring, gIndex>>
      /\ ~Matches(Cell(k)) /\ UNCHANGED lead
  BY <1>2 DEF ScanOn, InScan, dmaVars
<1>4. /\ scan \in ScanVariables /\ scan.empty \in 0 .. k /\ scan.goal >= 2
      /\ scan.ok > 0 => k > 0 /\ scan.empty = 0
      /\ scan.wait => k >= 2
  BY <1>1, <1>2, <1>3 DEF RingInv, RingTypeOK, ScanInv, LookedInv
<1>. DEFINE began == IF Cell(k)[1] = "mac1" THEN lead[Cell(k)[2]] ELSE 0
            empty == IF Cell(k) = BYTE_EMPTY THEN scan.empty + 1 ELSE 0
            wait == \/ scan.wait \/ (Cell(k) = BYTE_EMPTY /\ scan.ok = 3)
                    \/ (Cell(k) # BYTE_EMPTY /\ scan.empty > 0)
<1>5. /\ scan'.i = k + 1 /\ scan'.ok = began /\ scan'.empty = empty /\ scan'.wait = wait
      /\ scan'.goal = scan.goal
  <2>1. scan' = [scan EXCEPT !.i = k + 1, !.ok = began, !.empty = empty, !.wait = wait]
    BY <1>2 DEF ScanOn
  <2>. HIDE DEF began, empty, wait
  <2>2. \A r \in ScanVariables :
          LET s == [r EXCEPT !.i = k + 1, !.ok = began, !.empty = empty, !.wait = wait]
          IN  s.i = k + 1 /\ s.ok = began /\ s.empty = empty /\ s.wait = wait /\ s.goal = r.goal
    BY DEF ScanVariables
  <2>. QED
    BY <1>4, <2>1, <2>2
<1>6. \A n : Cell(n)' = Cell(n)
  BY <1>3 DEF Cell, At
<1>7. wait => k + 1 >= 2
  BY <1>1, <1>4
<1>8. began > 0 => empty = 0
  BY DEF BYTE_EMPTY
<1>9. ASSUME ~wait, NEW n \in 0 .. RingSize - 1, n < (k + 1) - empty
      PROVE  Cell(n) # BYTE_EMPTY /\ (Began(Cell(n), 3) => n = k /\ began = 3)
  <2>1. \A m \in 0 .. RingSize - 1 : m < k - scan.empty =>
          /\ Cell(m) # BYTE_EMPTY
          /\ Began(Cell(m), 3) => m = k - 1 /\ scan.ok = 3
    BY <1>2, <1>3, <1>9 DEF LookedInv
  <2>2. CASE Cell(k) = BYTE_EMPTY
    <3>1. scan.ok # 3 /\ empty = scan.empty + 1
      BY <1>9, <2>2
    <3>2. n < k - scan.empty
      BY <1>1, <1>4, <1>9, <3>1
    <3>. QED
      BY <2>1, <3>1, <3>2
  <2>3. CASE Cell(k) # BYTE_EMPTY
    <3>1. scan.empty = 0 /\ empty = 0
      BY <1>1, <1>4, <1>9, <2>3
    <3>2. CASE n = k
      BY <2>3, <3>2 DEF Began
    <3>3. CASE n < k
      <4>1. /\ Cell(n) # BYTE_EMPTY
            /\ Began(Cell(n), 3) => n = k - 1 /\ scan.ok = 3
        BY <1>1, <2>1, <3>1, <3>3
      <4>2. ASSUME Began(Cell(n), 3) PROVE FALSE
        <5>1. n + 1 = k /\ scan.ok = 3 /\ Cell(n)[1] = "mac1"
          BY <1>1, <4>1, <4>2 DEF Began
        <5>2. Cell(n) = Word(gIndex + n) /\ Cell(k) = Word(gIndex + k)
          BY <1>1, <2>3, <4>1, SeenIsWritten DEF RingInv
        <5>3. gIndex + n \in Nat /\ gIndex + k = (gIndex + n) + 1
          BY <1>1, <5>1
        <5>4. Cell(k)[1] = "mac2"
          BY <5>1, <5>2, <5>3, SecondWord
        <5>. QED
          BY <1>3, <5>1, <5>4 DEF Matches
      <4>. QED
        BY <4>1, <4>2
    <3>. QED
      BY <1>1, <1>9, <3>1, <3>2, <3>3
  <2>. QED
    BY <2>2, <2>3
<1>. HIDE DEF began, empty, wait
<1>10. (k + 1) - 1 = k
  BY <1>1
<1>. QED
  BY <1>3, <1>4, <1>5, <1>6, <1>7, <1>8, <1>9, <1>10 DEF LookedInv, Began

LEMMA LookedDma ==
    ASSUME RingInv, LookedInv, Dma
    PROVE  LookedInv'
<1>1. /\ gIndex \in 0 .. RingSize - 2 /\ written \in 0 .. RingSize - 2 /\ RingSize \in Nat
  BY PlacesInRing DEF RingInv
<1>2. UNCHANGED <<gIndex, ringPc, scan, lead>>
  BY DEF Dma
<1>3. ASSUME NEW n \in 0 .. RingSize - 1, Cell(n) # BYTE_EMPTY
      PROVE  Cell(n)' = Cell(n)
  <2>1. gIndex + n < written
    BY <1>3, SeenIsWritten DEF RingInv
  <2>2. /\ gIndex + n \in 0 .. RingSize - 1 /\ written \in 0 .. RingSize - 1 /\ gIndex + n # written
    BY <1>1, <2>1
  <2>3. At(gIndex + n) # At(written)
    BY <2>2, AtArithmetic
  <2>4. At(gIndex + n) \in DOMAIN ring
    BY <2>2, AtArithmetic DEF RingInv, RingTypeOK
  <2>5. ring'[At(gIndex + n)] = ring[At(gIndex + n)]
    BY <2>3, <2>4 DEF Dma
  <2>. QED
    BY <1>2, <2>5 DEF Cell, At
<1>. QED
  BY <1>2, <1>3 DEF LookedInv, Began

LEMMA LookedStep ==
    ASSUME RingInv, LookedInv, [RingNext]_ringVars
    PROVE  LookedInv'
<1>1. CASE UNCHANGED ringVars
  BY <1>1 DEF LookedInv, ringVars, Cell, At, Began
<1>2. CASE Begin
  <2>1. scan'.goal >= 2 /\ scan'.i = 0 /\ scan'.empty = 0 /\ scan'.ok = 0 /\ scan'.wait = FALSE
    BY <1>2, RingAssumption DEF Begin, NoScan
  <2>. QED
    BY <2>1, AtArithmetic DEF LookedInv
<1>3. CASE ScanWait \/ ScanNothing \/ CrcFailure
  BY <1>3 DEF ScanWait, ScanNothing, CrcFailure, ReturnNothing, LookedInv
<1>4. CASE ThreadWakes \/ ScanStart \/ ScanEnd \/ CrcOn \/ CrcEnd \/ EthernetInit
  BY <1>4 DEF ThreadWakes, ScanStart, ScanEnd, CrcOn, CrcEnd, EthernetInit, LookedInv
<1>. QED
  BY <1>1, <1>2, <1>3, <1>4, LookedDma, LookedScanOn DEF RingNext, Driver, EthernetReceive

\* Emptying cells that hold no start of a frame leaves every frame in the ring.
LEMMA ClearedKeepsFrames ==
    ASSUME RingInv, NEW f, InRing(f), NEW n \in Nat, ring' = Cleared(gIndex, n),
           \A j \in 0 .. n - 1 : Cell(j) # <<"mac1", f>>
    PROVE  InRing(f)'
<1>1. PICK x \in DOMAIN ring : ring[x] = <<"mac1", f>>
  BY DEF InRing
<1>2. ~ \E j \in 0 .. n - 1 : x = At(gIndex + j)
  BY <1>1 DEF Cell
<1>3. x \in DOMAIN ring' /\ ring'[x] = <<"mac1", f>>
  BY <1>1, <1>2 DEF Cleared
<1>. QED
  BY <1>3 DEF InRing

LEMMA DmaKeepsFrames ==
    ASSUME RingInv, NEW f, InRing(f), Dma
    PROVE  InRing(f)'
<1>1. PICK x \in DOMAIN ring : ring[x] = <<"mac1", f>>
  BY DEF InRing
<1>2. written \in 0 .. RingSize - 1
  BY PlacesInRing DEF RingInv
<1>3. ring[At(written)] = BYTE_EMPTY
  BY <1>2 DEF RingInv, CellsInv
<1>4. x # At(written)
  BY <1>1, <1>3 DEF BYTE_EMPTY
<1>5. x \in DOMAIN ring' /\ ring'[x] = <<"mac1", f>>
  BY <1>1, <1>4 DEF Dma
<1>. QED
  BY <1>5 DEF InRing

LEMMA ScanStartKeepsFrames ==
    ASSUME RingInv, LookedInv, ~gCheckedBefore, NEW f, lead[f] = 3, InRing(f), ScanStart
    PROVE  InRing(f)'
<1>1. /\ ringPc = "scan" /\ scan.ok > 0 /\ ~MustWait
      /\ ring' = Cleared(gIndex, scan.i - 1)
  BY DEF ScanStart, InScan, Matches
<1>2. scan.i \in 1 .. RingSize - 1 /\ scan.empty = 0 /\ RingSize \in Nat
  BY <1>1, AtArithmetic DEF RingInv, ScanInv, LookedInv
<1>3. ~scan.wait
  <2>1. scan.wait => scan.i >= 2
    BY <1>1 DEF LookedInv
  <2>. QED
    BY <1>1, <1>2, <2>1 DEF MustWait, RingInv, RingTypeOK, ScanVariables
<1>4. ASSUME NEW j \in 0 .. (scan.i - 1) - 1 PROVE Cell(j) # <<"mac1", f>>
  <2>1. j \in 0 .. RingSize - 1 /\ j < scan.i - scan.empty /\ j # scan.i - 1
    BY <1>2
  <2>2. ~ Began(Cell(j), 3)
    BY <1>1, <1>3, <2>1 DEF LookedInv
  <2>. QED
    BY <2>2 DEF Began
<1>5. scan.i - 1 \in Nat
  BY <1>2
<1>. QED
  BY <1>1, <1>4, <1>5, ClearedKeepsFrames

LEMMA ScanNothingKeepsFrames ==
    ASSUME RingInv, LookedInv, ~gCheckedBefore, NEW f, lead[f] = 3, InRing(f), ScanNothing
    PROVE  InRing(f)'
<1>1. /\ ringPc = "scan" /\ ~MustWait /\ scan.empty + 1 >= scan.goal
      /\ ring' = Cleared(gIndex, scan.i - scan.empty)
  BY DEF ScanNothing, InScan
<1>2. /\ scan.i \in 0 .. RingSize - 1 /\ scan.empty \in 0 .. scan.i /\ RingSize \in Nat
      /\ scan \in ScanVariables
  BY <1>1, AtArithmetic DEF RingInv, ScanInv, RingTypeOK
<1>3. scan.goal >= 2 /\ (scan.wait => scan.i >= 2)
  BY <1>1 DEF LookedInv
<1>4. scan.empty >= 1 /\ scan.ok = 0
  <2>1. scan.empty >= 1
    BY <1>1, <1>2, <1>3 DEF ScanVariables
  <2>. QED
    BY <1>1, <1>2, <2>1 DEF LookedInv, ScanVariables
<1>5. ~scan.wait \/ scan.empty = scan.i
  BY <1>1, <1>2, <1>3, <1>4 DEF MustWait, ScanVariables
<1>6. ASSUME NEW j \in 0 .. (scan.i - scan.empty) - 1 PROVE Cell(j) # <<"mac1", f>>
  <2>1. j \in 0 .. RingSize - 1 /\ j < scan.i - scan.empty /\ scan.empty # scan.i
    BY <1>2
  <2>2. ~ Began(Cell(j), 3)
    BY <1>1, <1>4, <1>5, <2>1 DEF LookedInv
  <2>. QED
    BY <2>2 DEF Began
<1>7. scan.i - scan.empty \in Nat
  BY <1>2
<1>. QED
  BY <1>1, <1>6, <1>7, ClearedKeepsFrames

\* The end of a frame takes no other frame out of the ring.
LEMMA CrcEndTakesOne ==
    ASSUME RingInv, NEW f, InRing(f), ~InRing(f)', CrcEnd
    PROVE  delivered' = Append(delivered, f)
<1>1. /\ ring' = Cleared(gIndex, 3) /\ delivered' = Append(delivered, Cell(0)[2])
      /\ ringPc = "crc" /\ scan.i = 2
  BY DEF CrcEnd
<1>2. Cell(1)[1] = "mac2" /\ Cell(2)[1] = "crc"
  <2>1. Continues(1) /\ Continues(2)
    BY <1>1 DEF RingInv, CrcInv, CrcEnd
  <2>2. Cell(1)[1] = "mac2"
    BY <2>1 DEF Continues
  <2>3. Cell(2)[1] = "crc"
    BY <2>1 DEF Continues
  <2>. QED
    BY <2>2, <2>3
<1>3. PICK x \in DOMAIN ring : ring[x] = <<"mac1", f>>
  BY DEF InRing
<1>4. PICK j \in 0 .. 3 - 1 : x = At(gIndex + j)
  <2>1. CASE ~ \E j \in 0 .. 3 - 1 : x = At(gIndex + j)
    <3>1. x \in DOMAIN ring' /\ ring'[x] = <<"mac1", f>>
      BY <1>1, <1>3, <2>1 DEF Cleared
    <3>. QED
      BY <3>1 DEF InRing
  <2>. QED
    BY <2>1
<1>5. Cell(j) = <<"mac1", f>> /\ j \in {0, 1, 2}
  BY <1>3, <1>4 DEF Cell
<1>6. j = 0
  BY <1>2, <1>5
<1>. QED
  BY <1>1, <1>5, <1>6

LEMMA NotThrownAwayStep ==
    ASSUME RingInv, LookedInv, RingNext, NEW f \in Frames,
           ~gCheckedBefore, ringPc # "init", lead[f] = 3, InRing(f), ~InRing(f)'
    PROVE  delivered' = Append(delivered, f)
<1>1. CASE Dma
  BY <1>1, DmaKeepsFrames
<1>2. CASE ScanStart
  BY <1>2, ScanStartKeepsFrames
<1>3. CASE ScanNothing
  BY <1>3, ScanNothingKeepsFrames
<1>4. CASE CrcEnd
  BY <1>4, CrcEndTakesOne
<1>5. CASE ThreadWakes \/ Begin \/ ScanWait \/ ScanOn \/ ScanEnd \/ CrcOn \/ CrcFailure
  BY <1>5 DEF ThreadWakes, Begin, ScanWait, ScanOn, ScanEnd, CrcOn, CrcFailure, InRing
<1>6. CASE EthernetInit
  BY <1>6 DEF EthernetInit
<1>. QED
  BY <1>1, <1>2, <1>3, <1>4, <1>5, <1>6 DEF RingNext, Driver, EthernetReceive

\* Until it has looked at part of a frame once before, the driver takes a frame out of the ring only
\* to deliver it, wherever in the ring it is and however much of it has come, if its first word
\* holds as much of its start as EthernetReceive waits for (gCheckedBefore, countOk == 3).
THEOREM FramesNotThrownAway == RingSpec => NotThrownAway
<1>. DEFINE Kept == \A f \in Frames :
                       /\ ~gCheckedBefore /\ ringPc # "init"
                       /\ kind[f] = "good" /\ lead[f] = 3 /\ InRing(f) /\ ~InRing(f)'
                       => delivered' = Append(delivered, f)
<1>1. RingInit => RingInv /\ LookedInv
  BY RingInitInv DEF LookedInv, RingInit
<1>2. RingInv /\ LookedInv /\ [RingNext]_ringVars => (RingInv /\ LookedInv)'
  BY RingStep, LookedStep
<1>3. RingInv /\ LookedInv /\ [RingNext]_ringVars => [Kept]_ringVars
  BY NotThrownAwayStep
<1>. QED
  BY <1>1, <1>2, <1>3, PTL DEF RingSpec, NotThrownAway

-----------------------------------------------------------------------------
(* IpConfig *)

\* The hardware address that is used for the gateway is that of the gateway in use, or
\* everybody's, never that of a gateway before: replies and acknowledgements that come late,
\* twice or out of order do not change that.
THEOREM GatewayIsRight == ConfigSpec => []GatewayRight
<1>1. ConfigInit => GatewayRight
  BY DEF ConfigInit, GatewayRight
<1>2. GatewayRight /\ [ConfigNext]_configVars => GatewayRight'
  <2>. SUFFICES ASSUME GatewayRight, [ConfigNext]_configVars
                PROVE  GatewayRight'
    OBVIOUS
  <2>. USE DEF GatewayRight
  <2>1. CASE IPTick
    BY <2>1 DEF IPTick
  <2>2. ASSUME NEW s \in Server, Offer(s)
        PROVE  GatewayRight'
    BY <2>2 DEF Offer
  <2>3. ASSUME NEW s \in Server, Ack(s)
        PROVE  GatewayRight'
    <3>1. CASE UNCHANGED dhcpVars
      BY <3>1 DEF dhcpVars
    <3>2. CASE ipAddressGateway' = GatewayOf[s] /\ ethernetAddressGateway' = GatewayKnown(s)
      BY <3>2 DEF GatewayKnown
    <3>. QED
      BY <2>3, <3>1, <3>2 DEF Ack
  <2>4. ASSUME NEW h \in Host, ArpReply(h)
        PROVE  GatewayRight'
    BY <2>4 DEF ArpReply
  <2>5. CASE UNCHANGED dhcpVars
    BY <2>5 DEF dhcpVars
  <2>. QED
    BY <2>1, <2>2, <2>3, <2>4, <2>5
    DEF ConfigNext, Arrives, IPOpen, IPSendFrame, Answer, Lose, configVars
<1>. QED
  BY <1>1, <1>2, PTL DEF ConfigSpec
=============================================================================

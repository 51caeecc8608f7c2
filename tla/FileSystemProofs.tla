-------------------------- MODULE FileSystemProofs --------------------------
(***************************************************************************)
(* Proofs about the file system, for any number of blocks, any size of a   *)
(* block, any names, handles and values: a block has one owner, what was   *)
(* written is found again, and an open file keeps its place.               *)
(***************************************************************************)
EXTENDS FileSystem, ListLemmas, FiniteSetTheorems

-----------------------------------------------------------------------------
(* Places: the unit o of the block k of a chain is its unit At(k, o) *)

At(k, o) == (k - 1) * BlockUnits + o

Blk(i) == (i - 1) \div BlockUnits + 1
Off(i) == ((i - 1) % BlockUnits) + 1

\* The units of n blocks
Size(n) == n * BlockUnits

LEMMA Products ==
    ASSUME NEW B \in Nat \ {0}, NEW q \in Nat
    PROVE  /\ q * B \in Nat
           /\ \A p \in Nat : p <= q => p * B <= q * B
           /\ \A p \in Nat : p < q => p * B + B <= q * B
<1>1. q * B \in Nat
  OBVIOUS
<1>2. ASSUME NEW p \in Nat, p <= q
      PROVE  p * B <= q * B
  <2>1. q * B - p * B = (q - p) * B
    OBVIOUS
  <2>2. (q - p) * B \in Nat
    BY <1>2
  <2>. QED
    BY <2>1, <2>2
<1>3. ASSUME NEW p \in Nat, p < q
      PROVE  p * B + B <= q * B
  <2>1. q * B - (p * B + B) = (q - p - 1) * B
    OBVIOUS
  <2>2. (q - p - 1) * B \in Nat
    BY <1>3
  <2>. QED
    BY <2>1, <2>2
<1>. QED
  BY <1>1, <1>2, <1>3

LEMMA Division ==
    ASSUME NEW B \in Nat \ {0}, NEW i \in Nat
    PROVE  /\ i \div B \in Nat /\ i % B \in 0 .. B - 1
           /\ i = (i \div B) * B + (i % B)
  OBVIOUS

LEMMA DivisionUnique ==
    ASSUME NEW B \in Nat \ {0}, NEW q \in Nat, NEW r \in 0 .. B - 1
    PROVE  (q * B + r) \div B = q /\ (q * B + r) % B = r
<1>. DEFINE i == q * B + r
            p == i \div B
            s == i % B
<1>1. i \in Nat
  OBVIOUS
<1>2. p \in Nat /\ s \in 0 .. B - 1 /\ i = p * B + s
  <2>. HIDE DEF i
  <2>. QED BY <1>1, Division
<1>3. q * B + r = p * B + s
  BY <1>2
<1>. HIDE DEF i, p, s
<1>4. ~ p < q
  <2>1. SUFFICES ASSUME p < q
                 PROVE  FALSE
    OBVIOUS
  <2>2. p * B + B <= q * B /\ p * B \in Nat /\ q * B \in Nat
    BY <1>2, <2>1, Products
  <2>. QED
    BY <1>2, <1>3, <2>2
<1>5. ~ q < p
  <2>1. SUFFICES ASSUME q < p
                 PROVE  FALSE
    OBVIOUS
  <2>2. q * B + B <= p * B /\ p * B \in Nat /\ q * B \in Nat
    BY <1>2, <2>1, Products
  <2>. QED
    BY <1>2, <1>3, <2>2
<1>6. p = q
  BY <1>2, <1>4, <1>5
<1>7. s = r
  BY <1>2, <1>3, <1>6
<1>. QED
  BY <1>6, <1>7 DEF p, s, i

LEMMA Places ==
    /\ \A k \in Nat \ {0}, o \in 0 .. BlockUnits :
          At(k, o) \in Nat /\ (o # BlockUnits => At(k, o + 1) = At(k, o) + 1)
    /\ At(1, 0) = 0
    /\ \A k \in Nat \ {0} : At(k, BlockUnits) = Size(k) /\ At(k + 1, 0) = Size(k)
    /\ \A n \in Nat : /\ Size(n) \in Nat /\ Size(n + 1) = Size(n) + BlockUnits
                      /\ n # 0 => Size(n) # 0
    /\ \A n, k \in Nat : k <= n => Size(k) <= Size(n)
<1>. DEFINE B == BlockUnits
<1>0. B \in Nat \ {0}
  BY FilesAssumption
<1>. HIDE DEF B
<1>1. \A n \in Nat : n * B \in Nat /\ (n + 1) * B = n * B + B
  BY <1>0, Products
<1>2. ASSUME NEW k \in Nat \ {0}, NEW o \in 0 .. B
      PROVE  (k - 1) * B + o \in Nat /\ (k - 1) * B + (o + 1) = (k - 1) * B + o + 1
  BY <1>0, <1>1
<1>3. (1 - 1) * B + 0 = 0
  BY <1>0
<1>4. ASSUME NEW k \in Nat \ {0}
      PROVE  (k - 1) * B + B = k * B /\ (k + 1 - 1) * B + 0 = k * B
  BY <1>0
<1>5. ASSUME NEW n \in Nat, n # 0
      PROVE  n * B # 0
  BY <1>0, <1>5
<1>6. ASSUME NEW n \in Nat, NEW k \in Nat, k <= n
      PROVE  k * B <= n * B
  BY <1>0, <1>6, Products
<1>. QED
  BY <1>1, <1>2, <1>3, <1>4, <1>5, <1>6 DEF At, Size, B

LEMMA PlaceBack ==
    ASSUME NEW B \in Nat \ {0}, NEW n \in Nat, NEW i \in 1 .. n * B,
           NEW q \in Nat, NEW r \in 0 .. B - 1, i - 1 = q * B + r
    PROVE  q + 1 \in 1 .. n /\ r + 1 \in 1 .. B /\ q * B + (r + 1) = i
<1>1. n * B \in Nat /\ i <= n * B /\ q * B \in Nat
  OBVIOUS
<1>2. q < n
  <2>1. SUFFICES ASSUME n <= q
                 PROVE  FALSE
    OBVIOUS
  <2>2. n * B <= q * B
    BY <2>1, Products
  <2>. QED
    BY <1>1, <2>2
<1>3. q * B + (r + 1) = i
  BY <1>1
<1>. QED
  BY <1>2, <1>3

LEMMA PlaceThere ==
    ASSUME NEW B \in Nat \ {0}, NEW n \in Nat, NEW q \in Nat, q < n, NEW r \in 0 .. B - 1
    PROVE  q * B + (r + 1) \in 1 .. n * B /\ q * B + (r + 1) - 1 = q * B + r
<1>1. q * B + B <= n * B /\ q * B \in Nat /\ n * B \in Nat
  BY Products
<1>. QED
  BY <1>1

\* Each place of a chain of n blocks is one unit of one block
LEMMA PlaceOf ==
    ASSUME NEW n \in Nat
    PROVE  /\ \A i \in 1 .. Size(n) : /\ Blk(i) \in 1 .. n /\ Off(i) \in 1 .. BlockUnits
                                      /\ At(Blk(i), Off(i)) = i
           /\ \A k \in 1 .. n, o \in 1 .. BlockUnits :
                 /\ At(k, o) \in 1 .. Size(n) /\ Blk(At(k, o)) = k /\ Off(At(k, o)) = o
<1>0. BlockUnits \in Nat \ {0}
  BY FilesAssumption
<1>1. ASSUME NEW i \in 1 .. Size(n)
      PROVE  Blk(i) \in 1 .. n /\ Off(i) \in 1 .. BlockUnits /\ At(Blk(i), Off(i)) = i
  <2>1. i \in 1 .. n * BlockUnits /\ i - 1 \in Nat
    BY <1>0 DEF Size
  <2>2. PICK q \in Nat, r \in 0 .. BlockUnits - 1 :
           /\ q = (i - 1) \div BlockUnits /\ r = (i - 1) % BlockUnits
           /\ i - 1 = q * BlockUnits + r
    BY <1>0, <2>1, Division
  <2>3. Blk(i) = q + 1 /\ Off(i) = r + 1
    BY <2>2, Zenon DEF Blk, Off
  <2>4. q + 1 \in 1 .. n /\ r + 1 \in 1 .. BlockUnits /\ q * BlockUnits + (r + 1) = i
    BY <1>0, <2>1, <2>2, PlaceBack
  <2>5. At(q + 1, r + 1) = q * BlockUnits + (r + 1)
    <3>1. PICK k \in Nat, o \in Nat : k = q + 1 /\ o = r + 1
      BY <1>0
    <3>2. k - 1 = q
      BY <3>1
    <3>3. At(k, o) = q * BlockUnits + o
      BY <3>2, Zenon DEF At
    <3>. QED
      BY <3>1, <3>3, Zenon
  <2>. QED
    BY <2>3, <2>4, <2>5, Zenon
<1>2. ASSUME NEW k \in 1 .. n, NEW o \in 1 .. BlockUnits
      PROVE  At(k, o) \in 1 .. Size(n) /\ Blk(At(k, o)) = k /\ Off(At(k, o)) = o
  <2>1. PICK q \in Nat, r \in 0 .. BlockUnits - 1 : q = k - 1 /\ r = o - 1
    BY <1>0
  <2>2. q < n /\ q + 1 = k /\ r + 1 = o
    BY <2>1
  <2>3. PICK i : i = q * BlockUnits + (r + 1)
    OBVIOUS
  <2>4. At(k, o) = i
    BY <2>1, <2>2, <2>3, Zenon DEF At
  <2>5. i \in 1 .. n * BlockUnits /\ i - 1 = q * BlockUnits + r
    BY <1>0, <2>2, <2>3, PlaceThere
  <2>6. (i - 1) \div BlockUnits = q /\ (i - 1) % BlockUnits = r
    BY <1>0, <2>5, DivisionUnique, Zenon
  <2>7. Blk(i) = k /\ Off(i) = o
    BY <2>2, <2>6, Zenon DEF Blk, Off
  <2>. QED
    BY <2>4, <2>5, <2>7, Zenon DEF Size
<1>. QED
  BY <1>1, <1>2

-----------------------------------------------------------------------------
(* The disk *)

DataUnit == [kind : {"data"}, path : Paths, pos : Nat, value : Values]

EntryUnit == [kind : {"entry"}, name : FileNames \cup {DirectoryName}, block : Blocks, length : Nat,
              dir : BOOLEAN, valid : BOOLEAN]

Unit == {Blank, DirectoryMark} \cup EntryUnit \cup DataUnit

Link == Blocks \cup {EOF}

Disk == [next   : [Blocks -> Link],
         data   : [Blocks -> [1 .. BlockUnits -> Unit]],
         free   : SUBSET Blocks,
         defect : {"none", "overrun", "null"}]

LEMMA DiskTypes ==
    ASSUME NEW d \in Disk
    PROVE  /\ d.next \in [Blocks -> Link] /\ d.data \in [Blocks -> [1 .. BlockUnits -> Unit]]
           /\ d.free \in SUBSET Blocks /\ d.defect \in {"none", "overrun", "null"}
  BY DEF Disk

LEMMA Constants ==
    /\ Root \in Blocks /\ EOF \notin Blocks /\ Blocks \subseteq Nat /\ BlockUnits \in Nat \ {0}
    /\ IsFiniteSet(Blocks) /\ Cardinality(Blocks) \in Nat /\ Cardinality(Blocks) # 0
    /\ Link \subseteq Nat
  BY FilesAssumption, FS_CardinalityType, FS_EmptySet DEF Link, EOF

\* The blocks of a chain, in their order
Linked(next, c) ==
    /\ c \in Seq(Blocks) /\ c # <<>> /\ IsInjective(c)
    /\ \A i \in 1 .. Len(c) : next[c[i]] = IF i = Len(c) THEN EOF ELSE c[i + 1]

\* One block more of the chain from first
Longer(d, first, c) ==
    LET b == IF c = <<>> THEN first ELSE d.next[Last(c)]
    IN IF b = EOF THEN c ELSE Append(c, b)

BlockCount == Cardinality(Blocks)

LEMMA CountNat == BlockCount \in Nat /\ BlockCount # 0
  BY Constants DEF BlockCount

LEMMA LongerType ==
    ASSUME NEW d \in Disk, NEW first \in Link, NEW c \in Seq(Blocks)
    PROVE  Longer(d, first, c) \in Seq(Blocks)
<1>. DEFINE b == IF c = <<>> THEN first ELSE d.next[Last(c)]
<1>1. b \in Link
  <2>1. CASE c = <<>>
    BY <2>1
  <2>2. CASE c # <<>>
    <3>1. Last(c) \in Blocks
      BY <2>2 DEF Last
    <3>. QED
      BY <2>2, <3>1, DiskTypes
  <2>. QED BY <2>1, <2>2
<1>2. b # EOF => b \in Blocks
  BY <1>1 DEF Link
<1>. HIDE DEF b
<1>3. (IF b = EOF THEN c ELSE Append(c, b)) \in Seq(Blocks)
  BY <1>2
<1>. QED
  BY <1>3 DEF b, Longer
LEMMA ChainRule ==
    ASSUME NEW d \in Disk, NEW first \in Link,
           NEW I \in [0 .. BlockCount -> SUBSET Seq(Blocks)], <<>> \in I[0],
           \A i \in 1 .. BlockCount : \A q \in I[i - 1] : Longer(d, first, q) \in I[i]
    PROVE  Chain(d, first) \in I[BlockCount]
<1>. DEFINE n == BlockCount
            T == Seq(Blocks)
            step == [i \in 1 .. n |-> [q \in T |-> Longer(d, first, q)]]
            Is(g) == g = [i \in 0 .. n |-> IF i = 0 THEN <<>> ELSE Longer(d, first, g[i - 1])]
            upto == CHOOSE g : Is(g)
<1>1. Chain(d, first) = upto[n]
  BY DEF Chain, Longer, BlockCount
<1>2. n \in Nat /\ step \in [1 .. n -> [T -> T]]
  <2>. HIDE DEF n
  <2>. QED
    BY CountNat, LongerType DEF n
<1>3. \A i \in 1 .. n : \A q \in I[i - 1] : step[i][q] \in I[i]
  <2>. SUFFICES ASSUME NEW i \in 1 .. n, NEW q \in I[i - 1]
                PROVE  step[i][q] \in I[i]
    OBVIOUS
  <2>1. q \in T
    <3>1. i - 1 \in 0 .. n
      BY <1>2
    <3>. QED
      BY <3>1
  <2>. QED
    BY <2>1
<1>4. PICK g : Solves(g, n, T, I, <<>>, step)
  <2>1. I \in [0 .. n -> SUBSET T]
    OBVIOUS
  <2>2. Closed(n, I, step)
    BY <1>3 DEF Closed
  <2>. HIDE DEF step, T, n
  <2>. QED
    BY <1>2, <2>1, <2>2, FiniteRecursion
<1>4a. /\ g \in [0 .. n -> T]
       /\ g[0] = <<>>
       /\ \A i \in 1 .. n : g[i] = step[i][g[i - 1]]
       /\ \A i \in 0 .. n : g[i] \in I[i]
  BY <1>4 DEF Solves
<1>5. Is(g)
  <2>1. \A i \in 0 .. n : g[i] = IF i = 0 THEN <<>> ELSE Longer(d, first, g[i - 1])
    <3>. SUFFICES ASSUME NEW i \in 0 .. n, i # 0
                  PROVE  g[i] = Longer(d, first, g[i - 1])
      BY <1>4a
    <3>1. i \in 1 .. n /\ i - 1 \in 0 .. n
      BY <1>2
    <3>2. g[i - 1] \in T
      BY <1>4a, <3>1
    <3>. HIDE DEF n, T
    <3>. QED
      BY <1>4a, <3>1, <3>2
  <2>. HIDE DEF n, T
  <2>. QED
    BY <1>4a, <2>1
<1>6. Is(upto)
  BY <1>5, Zenon
<1>7. \A i \in 0 .. n : upto[i] = g[i]
  <2>. DEFINE S == {i \in 0 .. n : upto[i] = g[i]}
  <2>. HIDE DEF upto, n
  <2>1. 0 \in S
    BY <1>2, <1>5, <1>6
  <2>2. ASSUME NEW i \in 1 .. n, i - 1 \in S
        PROVE  i \in S
    <3>1. i \in 0 .. n /\ i - 1 \in 0 .. n /\ i # 0
      BY <1>2
    <3>. QED
      BY <1>5, <1>6, <2>2, <3>1
  <2>. HIDE DEF S
  <2>3. \A i \in 0 .. n : i \in S
    BY <1>2, <2>1, <2>2, CountUp
  <2>. QED
    BY <2>3 DEF S
<1>8. n \in 0 .. n
  BY <1>2
<1>. HIDE DEF n, upto
<1>9. Chain(d, first) = g[n] /\ g[n] \in I[n]
  BY <1>1, <1>4a, <1>7, <1>8
<1>. QED
  BY <1>9 DEF n

LEMMA ChainType ==
    ASSUME NEW d \in Disk, NEW first \in Link
    PROVE  Chain(d, first) \in Seq(Blocks)
<1>. DEFINE I == [i \in 0 .. BlockCount |-> Seq(Blocks)]
<1>1. \A i \in 1 .. BlockCount : i \in 0 .. BlockCount /\ i - 1 \in 0 .. BlockCount
  BY CountNat
<1>2. 0 \in 0 .. BlockCount /\ BlockCount \in 0 .. BlockCount
  BY CountNat
<1>3. \A i \in 1 .. BlockCount : \A q \in I[i - 1] : Longer(d, first, q) \in I[i]
  BY <1>1, LongerType
<1>4. I \in [0 .. BlockCount -> SUBSET Seq(Blocks)] /\ <<>> \in I[0]
  BY <1>2
<1>5. I[BlockCount] = Seq(Blocks)
  BY <1>2
<1>. HIDE DEF I
<1>. QED
  BY <1>3, <1>4, <1>5, ChainRule

\* A chain that names its blocks in order
LEMMA ChainIs ==
    ASSUME NEW d \in Disk, NEW q \in Seq(Blocks), IsInjective(q),
           NEW first, first = IF q = <<>> THEN EOF ELSE q[1],
           \A i \in 1 .. Len(q) : d.next[q[i]] = IF i = Len(q) THEN EOF ELSE q[i + 1]
    PROVE  Chain(d, first) = q
<1>. DEFINE n == BlockCount
            N == Len(q)
            Part(k) == SubSeq(q, 1, k)
            I == [i \in 0 .. n |-> {Part(IF i < N THEN i ELSE N)}]
<1>0. n \in Nat /\ N \in Nat /\ q \in [1 .. N -> Blocks]
  BY CountNat
<1>1. N <= n
  <2>1. q \in Injection(1 .. N, Blocks)
    BY <1>0 DEF Injection
  <2>2. Cardinality(1 .. N) <= Cardinality(Blocks)
    BY <2>1, Constants, FS_Injection
  <2>3. Cardinality(1 .. N) = N
    <3>0. N \in Nat
      BY <1>0
    <3>. HIDE DEF N
    <3>1. 1 \in Int /\ N \in Int /\ (IF 1 > N THEN 0 ELSE N - 1 + 1) = N
      BY <3>0
    <3>. QED
      BY <3>1, FS_Interval
  <2>. QED
    BY <2>2, <2>3 DEF BlockCount
<1>2. first \in Link
  BY DEF Link
<1>3. \A k \in 0 .. N : Part(k) \in Seq(Blocks) /\ Len(Part(k)) = k /\ \A i \in 1 .. k : Part(k)[i] = q[i]
  <2>. TAKE k \in 0 .. N
  <2>. QED OBVIOUS
<1>. HIDE DEF Part, n, N
<1>4. Part(N) = q
  <2>1. Part(N) \in Seq(Blocks) /\ Len(Part(N)) = N /\ \A i \in 1 .. N : Part(N)[i] = q[i]
    BY <1>0, <1>3
  <2>. QED
    BY <2>1 DEF N
<1>5. Part(0) = <<>>
  <2>1. Part(0) \in Seq(Blocks) /\ Len(Part(0)) = 0
    BY <1>0, <1>3
  <2>. QED
    BY <2>1
<1>6. ASSUME NEW k \in 0 .. N, k < N
      PROVE  Longer(d, first, Part(k)) = Part(k + 1)
  <2>1. k + 1 \in 0 .. N /\ k + 1 \in 1 .. N
    BY <1>0, <1>6
  <2>2. Append(Part(k), q[k + 1]) = Part(k + 1)
    <3>1. /\ Part(k) \in Seq(Blocks) /\ Len(Part(k)) = k /\ \A i \in 1 .. k : Part(k)[i] = q[i]
          /\ Part(k + 1) \in Seq(Blocks) /\ Len(Part(k + 1)) = k + 1
          /\ \A i \in 1 .. k + 1 : Part(k + 1)[i] = q[i]
      BY <1>3, <2>1
    <3>2. q[k + 1] \in Blocks
      BY <1>0, <2>1
    <3>. DEFINE a == Append(Part(k), q[k + 1])
    <3>3. a \in Seq(Blocks) /\ Len(a) = k + 1 /\ (\A i \in 1 .. k : a[i] = q[i]) /\ a[k + 1] = q[k + 1]
      BY <3>1, <3>2, AppendProperties
    <3>. HIDE DEF a
    <3>4. \A i \in 1 .. k + 1 : a[i] = Part(k + 1)[i]
      BY <3>1, <3>3
    <3>5. a = Part(k + 1)
      <4>. DEFINE b == Part(k + 1)
      <4>1. b \in Seq(Blocks) /\ Len(b) = k + 1 /\ \A i \in 1 .. k + 1 : a[i] = b[i]
        BY <3>1, <3>4
      <4>. HIDE DEF b
      <4>2. a = b
        BY <3>3, <4>1, SeqEqual
      <4>. QED
        BY <4>2 DEF b
    <3>. QED
      BY <3>5 DEF a
  <2>3. (IF Part(k) = <<>> THEN first ELSE d.next[Last(Part(k))]) = q[k + 1]
    <3>1. CASE k = 0
      <4>1. q # <<>>
        BY <2>1 DEF N
      <4>. QED
        BY <3>1, <1>5, <4>1
    <3>2. CASE k # 0
      <4>1. k \in 1 .. N /\ k # N
        BY <3>2, <1>0, <1>6
      <4>2. Len(Part(k)) = k /\ Part(k)[k] = q[k]
        BY <1>3, <4>1
      <4>3. Part(k) # <<>> /\ Last(Part(k)) = q[k]
        BY <3>2, <4>2 DEF Last
      <4>4. d.next[q[k]] = q[k + 1]
        BY <4>1 DEF N
      <4>. QED
        BY <4>3, <4>4
    <3>. QED
      BY <3>1, <3>2
  <2>4. q[k + 1] # EOF
    BY <1>0, <2>1, Constants
  <2>. QED
    BY <2>2, <2>3, <2>4 DEF Longer
<1>7. Longer(d, first, Part(N)) = Part(N)
  <2>1. CASE q = <<>>
    BY <1>4, <2>1 DEF Longer
  <2>2. CASE q # <<>>
    <3>0. N = Len(q) /\ N # 0
      BY <2>2, EmptySeq DEF N
    <3>a. N \in Nat \ {0}
      BY <1>0, <3>0
    <3>1. N \in 1 .. N /\ N = Len(q)
      BY <3>0, <3>a
    <3>2. d.next[q[N]] = EOF
      BY <3>1
    <3>. QED
      BY <1>4, <2>2, <3>1, <3>2 DEF Longer, Last
  <2>. QED
    BY <2>1, <2>2
<1>8. \A i \in 1 .. n : \A a \in I[i - 1] : Longer(d, first, a) \in I[i]
  <2>. SUFFICES ASSUME NEW i \in 1 .. n
                PROVE  Longer(d, first, Part(IF i - 1 < N THEN i - 1 ELSE N)) = Part(IF i < N THEN i ELSE N)
    <3>1. \A i \in 1 .. n : i \in 0 .. n /\ i - 1 \in 0 .. n
      BY <1>0
    <3>2. \A i \in 1 .. n : /\ I[i] = {Part(IF i < N THEN i ELSE N)}
                            /\ I[i - 1] = {Part(IF i - 1 < N THEN i - 1 ELSE N)}
      BY <3>1
    <3>. HIDE DEF I
    <3>. QED
      BY <3>2
  <2>1. CASE i - 1 < N
    <3>1. i - 1 \in 0 .. N /\ (i - 1) + 1 = i
      BY <2>1, <1>0
    <3>2. Longer(d, first, Part(i - 1)) = Part(i)
      BY <1>6, <2>1, <3>1
    <3>3. (IF i < N THEN i ELSE N) = i
      BY <2>1, <1>0
    <3>. QED
      BY <2>1, <3>2, <3>3
  <2>2. CASE ~ (i - 1 < N)
    <3>1. ~ (i < N)
      BY <2>2, <1>0
    <3>. QED
      BY <2>2, <3>1, <1>7
  <2>. QED
    BY <2>1, <2>2
<1>9. I \in [0 .. n -> SUBSET Seq(Blocks)] /\ <<>> \in I[0] /\ I[n] = {q}
  <2>1. \A i \in 0 .. n : (IF i < N THEN i ELSE N) \in 0 .. N
    BY <1>0
  <2>2. I \in [0 .. n -> SUBSET Seq(Blocks)]
    BY <1>3, <2>1
  <2>3. 0 \in 0 .. n /\ n \in 0 .. n /\ (IF 0 < N THEN 0 ELSE N) = 0 /\ (IF n < N THEN n ELSE N) = N
    BY <1>0, <1>1
  <2>4. I[0] = {Part(0)} /\ I[n] = {Part(N)}
    BY <2>3
  <2>. QED
    BY <1>4, <1>5, <2>2, <2>4
<1>. HIDE DEF I
<1>10. Chain(d, first) \in I[n]
  BY <1>2, <1>8, <1>9, ChainRule DEF n
<1>. QED
  BY <1>9, <1>10

-----------------------------------------------------------------------------
(* Who owns which block *)

\* No path
Nobody == <<"none">>

\* P are the paths of the root, of files and directories, and of those that are being written
\* for the first time; C[p] are the blocks of p, and Own says whose a block is.
Sound(d, P, C, Own) ==
    /\ d \in Disk /\ d.defect = "none"
    /\ Nobody \notin P
    /\ C \in [P -> Seq(Blocks)]
    /\ \A p \in P : Linked(d.next, C[p])
    /\ Own \in [Blocks -> P \cup {Nobody}]
    /\ \A b \in Blocks : /\ b \in d.free <=> Own[b] = Nobody
                         /\ \A p \in P : Own[b] = p <=> b \in Range(C[p])

\* The units of a chain of blocks
UnitsOf(d, c) == [i \in 1 .. Size(Len(c)) |-> d.data[c[Blk(i)]][Off(i)]]

LEMMA LinkedFacts ==
    ASSUME NEW next, NEW c, Linked(next, c)
    PROVE  /\ c \in Seq(Blocks) /\ Len(c) \in Nat \ {0} /\ IsInjective(c)
           /\ \A i \in 1 .. Len(c) : c[i] \in Blocks /\ c[i] \in Range(c)
           /\ \A b \in Range(c) : b \in Blocks /\ \E i \in 1 .. Len(c) : c[i] = b
           /\ \A i, j \in 1 .. Len(c) : c[i] = c[j] => i = j
           /\ \A i \in 1 .. Len(c) : next[c[i]] = IF i = Len(c) THEN EOF ELSE c[i + 1]
<1>1. c \in Seq(Blocks) /\ c # <<>> /\ IsInjective(c)
  BY DEF Linked
<1>2. Len(c) \in Nat /\ Len(c) # 0 /\ c \in [1 .. Len(c) -> Blocks]
  BY <1>1, EmptySeq
<1>3. \A b \in Range(c) : b \in Blocks /\ \E i \in 1 .. Len(c) : c[i] = b
  BY <1>2 DEF Range
<1>4. \A i \in 1 .. Len(c) : c[i] \in Blocks /\ c[i] \in Range(c)
  BY <1>2 DEF Range
<1>5. \A i, j \in 1 .. Len(c) : c[i] = c[j] => i = j
  BY <1>1, <1>2 DEF IsInjective
<1>. QED
  BY <1>1, <1>2, <1>3, <1>4, <1>5 DEF Linked

LEMMA SoundFacts ==
    ASSUME NEW d, NEW P, NEW C, NEW Own, Sound(d, P, C, Own)
    PROVE  /\ d \in Disk
           /\ \A p \in P : /\ Linked(d.next, C[p])
                           /\ C[p][1] \in Blocks /\ C[p][1] \in Range(C[p])
                           /\ Chain(d, C[p][1]) = C[p]
           /\ \A p, q \in P : p # q => Range(C[p]) \cap Range(C[q]) = {}
           /\ \A p \in P : Range(C[p]) \cap d.free = {} /\ Range(C[p]) \subseteq Blocks
<1>1. d \in Disk /\ \A p \in P : Linked(d.next, C[p])
  BY DEF Sound
<1>2. ASSUME NEW p \in P
      PROVE  /\ C[p][1] \in Blocks /\ C[p][1] \in Range(C[p])
             /\ Chain(d, C[p][1]) = C[p] /\ Range(C[p]) \subseteq Blocks
  <2>. DEFINE c == C[p]
  <2>1. Linked(d.next, c)
    BY <1>1
  <2>. HIDE DEF c
  <2>2. c \in Seq(Blocks) /\ Len(c) \in Nat \ {0} /\ IsInjective(c) /\ c # <<>> /\ Range(c) \subseteq Blocks
    BY <2>1, LinkedFacts DEF Linked
  <2>3. 1 \in 1 .. Len(c)
    BY <2>2
  <2>4. c[1] \in Blocks /\ c[1] \in Range(c)
    BY <2>1, <2>3, LinkedFacts
  <2>5. \A i \in 1 .. Len(c) : d.next[c[i]] = IF i = Len(c) THEN EOF ELSE c[i + 1]
    BY <2>1 DEF Linked
  <2>6. Chain(d, c[1]) = c
    BY <1>1, <2>2, <2>5, ChainIs
  <2>. QED
    BY <2>2, <2>4, <2>6 DEF c
<1>3. ASSUME NEW p \in P, NEW q \in P, p # q
      PROVE  Range(C[p]) \cap Range(C[q]) = {}
  BY <1>2, <1>3 DEF Sound
<1>4. ASSUME NEW p \in P
      PROVE  Range(C[p]) \cap d.free = {}
  BY <1>2, DiskTypes DEF Sound
<1>. QED
  BY <1>1, <1>2, <1>3, <1>4

LEMMA UnitsAre ==
    ASSUME NEW d, NEW P, NEW C, NEW Own, Sound(d, P, C, Own), NEW p \in P
    PROVE  Chain(d, C[p][1]) = C[p] /\ Units(d, C[p][1]) = UnitsOf(d, C[p])
<1>1. Chain(d, C[p][1]) = C[p]
  BY SoundFacts
<1>2. Units(d, C[p][1]) = [i \in 1 .. Len(C[p]) * BlockUnits |->
                              d.data[C[p][(i - 1) \div BlockUnits + 1]][((i - 1) % BlockUnits) + 1]]
  BY <1>1, Zenon DEF Units
<1>. QED
  BY <1>1, <1>2, Zenon DEF UnitsOf, Size, Blk, Off

\* The units of a chain, and the places of the units
LEMMA UnitsFacts ==
    ASSUME NEW d \in Disk, NEW next, NEW c, Linked(next, c)
    PROVE  /\ UnitsOf(d, c) \in Seq(Unit) /\ Len(UnitsOf(d, c)) = Size(Len(c))
           /\ Size(Len(c)) \in Nat \ {0}
           /\ \A k \in 1 .. Len(c), o \in 1 .. BlockUnits :
                 UnitsOf(d, c)[At(k, o)] = d.data[c[k]][o]
<1>1. Len(c) \in Nat \ {0} /\ \A i \in 1 .. Len(c) : c[i] \in Blocks
  BY LinkedFacts
<1>2. Size(Len(c)) \in Nat \ {0}
  BY <1>1, Places
<1>3. ASSUME NEW i \in 1 .. Size(Len(c))
      PROVE  d.data[c[Blk(i)]][Off(i)] \in Unit
  <2>1. Blk(i) \in 1 .. Len(c) /\ Off(i) \in 1 .. BlockUnits
    BY <1>1, PlaceOf
  <2>2. c[Blk(i)] \in Blocks
    BY <1>1, <2>1
  <2>3. d.data \in [Blocks -> [1 .. BlockUnits -> Unit]]
    BY DiskTypes
  <2>. QED
    BY <2>1, <2>2, <2>3
<1>4. UnitsOf(d, c) \in [1 .. Size(Len(c)) -> Unit]
  BY <1>3 DEF UnitsOf
<1>5. UnitsOf(d, c) \in Seq(Unit) /\ Len(UnitsOf(d, c)) = Size(Len(c))
  BY <1>2, <1>4
<1>6. ASSUME NEW k \in 1 .. Len(c), NEW o \in 1 .. BlockUnits
      PROVE  UnitsOf(d, c)[At(k, o)] = d.data[c[k]][o]
  <2>1. At(k, o) \in 1 .. Size(Len(c)) /\ Blk(At(k, o)) = k /\ Off(At(k, o)) = o
    BY <1>1, PlaceOf
  <2>. QED
    BY <2>1 DEF UnitsOf
<1>. QED
  BY <1>2, <1>5, <1>6

-----------------------------------------------------------------------------
(* A new block *)

LEMMA Least ==
    ASSUME NEW S \in SUBSET Nat, S # {}, NEW b, b = CHOOSE x \in S : \A y \in S : x <= y
    PROVE  b \in S
<1>1. Min(S) \in S /\ \A y \in S : Min(S) <= y
  BY MinOfNat
<1>. QED
  BY <1>1

\* The disk e is d with the block b, blank, at the end of a chain that ended with the block last, or
\* by itself
NewIn(d, last, e, b) ==
    /\ b \in d.free /\ e \in Disk /\ e.defect = d.defect /\ e.free = d.free \ {b}
    /\ \A x \in Blocks : e.next[x] = IF x = b THEN EOF ELSE IF x = last THEN b ELSE d.next[x]
    /\ \A x \in Blocks : x # b => e.data[x] = d.data[x]
    /\ \A o \in 1 .. BlockUnits : e.data[b][o] = Blank

LEMMA NewBlockIs ==
    ASSUME NEW d \in Disk, NEW f, f.block \in Link
    PROVE  \/ d.free = {} /\ NewBlock(d, f) = [d |-> d, f |-> f]
           \/ \E b, e : /\ NewIn(d, f.block, e, b)
                        /\ NewBlock(d, f) = [d |-> e, f |-> [f EXCEPT !.block = b, !.offset = 0]]
<1>1. CASE d.free = {}
  BY <1>1 DEF NewBlock
<1>2. CASE d.free # {}
  <2>1. d.free \in SUBSET Blocks /\ Blocks \subseteq Nat /\ EOF \notin Blocks
    BY DiskTypes, Constants
  <2>2. PICK b : b = CHOOSE x \in d.free : \A y \in d.free : x <= y
    OBVIOUS
  <2>3. b \in d.free
    BY <1>2, <2>1, <2>2, Least
  <2>. DEFINE chained == IF f.block = EOF THEN d.next ELSE [d.next EXCEPT ![f.block] = b]
              nx == [chained EXCEPT ![b] = EOF]
              dt == [d.data EXCEPT ![b] = [i \in 1 .. BlockUnits |-> Blank]]
              fr == d.free \ {b}
              e == [d EXCEPT !.free = fr, !.next = nx, !.data = dt]
  <2>4. NewBlock(d, f) = [d |-> e, f |-> [f EXCEPT !.block = b, !.offset = 0]]
    BY <1>2, <2>2 DEF NewBlock
  <2>5. b \in Blocks /\ b # EOF
    BY <2>1, <2>3
  <2>6. d.next \in [Blocks -> Link] /\ d.data \in [Blocks -> [1 .. BlockUnits -> Unit]]
    BY DiskTypes
  <2>7. chained \in [Blocks -> Link] /\ \A x \in Blocks : chained[x] = IF x = f.block THEN b ELSE d.next[x]
    <3>1. CASE f.block = EOF
      BY <2>1, <2>6, <3>1
    <3>2. CASE f.block # EOF
      <4>1. f.block \in Blocks /\ b \in Link
        BY <2>5, <3>2 DEF Link
      <4>. QED
        BY <2>6, <3>2, <4>1
    <3>. QED
      BY <3>1, <3>2
  <2>. HIDE DEF chained
  <2>8. nx \in [Blocks -> Link] /\ \A x \in Blocks : nx[x] = IF x = b THEN EOF ELSE chained[x]
    <3>1. EOF \in Link
      BY DEF Link
    <3>. QED
      BY <2>5, <2>7, <3>1
  <2>9. /\ dt \in [Blocks -> [1 .. BlockUnits -> Unit]]
        /\ \A x \in Blocks : x # b => dt[x] = d.data[x]
        /\ \A o \in 1 .. BlockUnits : dt[b][o] = Blank
    <3>1. Blank \in Unit
      BY DEF Unit
    <3>. DEFINE blank == [i \in 1 .. BlockUnits |-> Blank]
    <3>2. blank \in [1 .. BlockUnits -> Unit] /\ \A o \in 1 .. BlockUnits : blank[o] = Blank
      BY <3>1
    <3>. HIDE DEF blank
    <3>3. [d.data EXCEPT ![b] = blank] \in [Blocks -> [1 .. BlockUnits -> Unit]]
      BY <2>5, <2>6, <3>2
    <3>4. /\ \A x \in Blocks : x # b => [d.data EXCEPT ![b] = blank][x] = d.data[x]
          /\ [d.data EXCEPT ![b] = blank][b] = blank
      BY <2>5, <2>6
    <3>. QED
      BY <3>2, <3>3, <3>4 DEF blank
  <2>10. fr \in SUBSET Blocks
    BY <2>1
  <2>. HIDE DEF nx, dt, fr
  <2>11. e \in Disk /\ e.defect = d.defect /\ e.free = fr /\ e.next = nx /\ e.data = dt
    BY <2>8, <2>9, <2>10 DEF Disk
  <2>. HIDE DEF e
  <2>12. NewIn(d, f.block, e, b)
    BY <2>3, <2>7, <2>8, <2>9, <2>11 DEF NewIn, fr
  <2>. QED
    BY <2>4, <2>12
<1>. QED
  BY <1>1, <1>2

\* What does not touch a chain leaves it and its units as they are
LEMMA LinkedSame ==
    ASSUME NEW next, NEW c, Linked(next, c), NEW next2, \A b \in Range(c) : next2[b] = next[b]
    PROVE  Linked(next2, c)
<1>1. \A i \in 1 .. Len(c) : c[i] \in Range(c)
  BY LinkedFacts
<1>. QED
  BY <1>1 DEF Linked

LEMMA UnitsSame ==
    ASSUME NEW next, NEW c, Linked(next, c), NEW d, NEW e, \A b \in Range(c) : e.data[b] = d.data[b]
    PROVE  UnitsOf(e, c) = UnitsOf(d, c)
<1>1. Len(c) \in Nat /\ \A i \in 1 .. Len(c) : c[i] \in Range(c)
  BY LinkedFacts
<1>2. \A i \in 1 .. Size(Len(c)) : c[Blk(i)] \in Range(c)
  BY <1>1, PlaceOf
<1>3. \A i \in 1 .. Size(Len(c)) : e.data[c[Blk(i)]][Off(i)] = d.data[c[Blk(i)]][Off(i)]
  BY <1>2
<1>. QED
  BY <1>3 DEF UnitsOf

\* A path of its own for a new block
Added(d, P, C, p, b, e, D, O) ==
    /\ Sound(e, P \cup {p}, D, O)
    /\ D[p] = <<b>> /\ UnitsOf(e, D[p]) = [i \in 1 .. Size(1) |-> Blank]
    /\ \A q \in P : D[q] = C[q] /\ UnitsOf(e, D[q]) = UnitsOf(d, C[q])

LEMMA SoundNew ==
    ASSUME NEW d, NEW P, NEW C, NEW Own, Sound(d, P, C, Own), NEW p, p \notin P, p # Nobody,
           NEW e, NEW b, NewIn(d, EOF, e, b)
    PROVE  \E D, O : Added(d, P, C, p, b, e, D, O)
<1>. DEFINE Q == P \cup {p}
            D == [q \in Q |-> IF q = p THEN <<b>> ELSE C[q]]
            O == [Own EXCEPT ![b] = p]
<1>1. /\ d \in Disk /\ d.defect = "none" /\ Nobody \notin P /\ C \in [P -> Seq(Blocks)]
      /\ Own \in [Blocks -> P \cup {Nobody}]
      /\ \A x \in Blocks : /\ x \in d.free <=> Own[x] = Nobody
                           /\ \A q \in P : Own[x] = q <=> x \in Range(C[q])
  BY DEF Sound
<1>2. /\ b \in d.free /\ b \in Blocks /\ b # EOF /\ e \in Disk /\ e.defect = "none" /\ e.free = d.free \ {b}
      /\ \A x \in Blocks : e.next[x] = IF x = b THEN EOF ELSE d.next[x]
      /\ \A x \in Blocks : x # b => e.data[x] = d.data[x]
      /\ \A o \in 1 .. BlockUnits : e.data[b][o] = Blank
  BY <1>1, DiskTypes, Constants DEF NewIn
<1>3. D[p] = <<b>> /\ \A q \in P : D[q] = C[q]
  OBVIOUS
<1>4. D \in [Q -> Seq(Blocks)]
  BY <1>1, <1>2
<1>5. O \in [Blocks -> Q \cup {Nobody}] /\ O[b] = p /\ \A x \in Blocks : x # b => O[x] = Own[x]
  BY <1>1, <1>2
<1>. HIDE DEF D, O
<1>6. Range(<<b>>) = {b} /\ <<b>> \in Seq(Blocks) /\ Len(<<b>>) = 1 /\ <<b>>[1] = b
  BY <1>2 DEF Range
<1>7. ASSUME NEW q \in P
      PROVE  /\ Linked(e.next, D[q]) /\ UnitsOf(e, D[q]) = UnitsOf(d, C[q])
             /\ b \notin Range(D[q])
  <2>1. Linked(d.next, C[q]) /\ Range(C[q]) \subseteq Blocks /\ b \notin Range(C[q])
    BY <1>2, SoundFacts
  <2>2. \A x \in Range(C[q]) : e.next[x] = d.next[x] /\ e.data[x] = d.data[x]
    BY <1>2, <2>1
  <2>. QED
    BY <1>3, <2>1, <2>2, LinkedSame, UnitsSame
<1>8. Linked(e.next, <<b>>)
  <2>1. \A i \in 1 .. 1 : i = 1
    OBVIOUS
  <2>2. IsInjective(<<b>>)
    BY DEF IsInjective
  <2>. QED
    BY <1>2, <1>6, <2>1, <2>2 DEF Linked
<1>9. \A q \in Q : Linked(e.next, D[q])
  BY <1>3, <1>7, <1>8
<1>10. ASSUME NEW x \in Blocks
       PROVE  /\ x \in e.free <=> O[x] = Nobody
              /\ \A q \in Q : O[x] = q <=> x \in Range(D[q])
  <2>1. CASE x = b
    BY <1>2, <1>3, <1>5, <1>6, <1>7, <2>1
  <2>2. CASE x # b
    <3>1. O[x] = Own[x] /\ Own[x] # p
      BY <1>1, <1>5, <2>2
    <3>2. x \notin Range(D[p])
      BY <1>3, <1>6, <2>2
    <3>. QED
      BY <1>1, <1>2, <1>3, <2>2, <3>1, <3>2, SMTT(60)
  <2>. QED
    BY <2>1, <2>2
<1>11. Sound(e, Q, D, O)
  BY <1>1, <1>2, <1>4, <1>5, <1>9, <1>10 DEF Sound
<1>12. UnitsOf(e, <<b>>) = [i \in 1 .. Size(1) |-> Blank]
  <2>1. \A i \in 1 .. Size(1) : Blk(i) = 1 /\ Off(i) \in 1 .. BlockUnits
    <3>1. \A i \in 1 .. Size(1) : Blk(i) \in 1 .. 1 /\ Off(i) \in 1 .. BlockUnits
      BY PlaceOf
    <3>. QED
      BY <3>1
  <2>2. \A i \in 1 .. Size(1) : e.data[<<b>>[Blk(i)]][Off(i)] = Blank
    BY <1>2, <1>6, <2>1
  <2>. QED
    BY <1>6, <2>2 DEF UnitsOf
<1>. QED
  BY <1>3, <1>7, <1>11, <1>12 DEF Added

\* A block more for a path
Extended(d, P, C, p, b, e, D, O) ==
    /\ Sound(e, P, D, O) /\ D[p] = Append(C[p], b)
    /\ \A q \in P \ {p} : D[q] = C[q] /\ UnitsOf(e, D[q]) = UnitsOf(d, C[q])
    /\ \A i \in 1 .. Size(Len(D[p])) :
          UnitsOf(e, D[p])[i] = IF i <= Size(Len(C[p])) THEN UnitsOf(d, C[p])[i] ELSE Blank

LEMMA SoundExtend ==
    ASSUME NEW d, NEW P, NEW C, NEW Own, Sound(d, P, C, Own), NEW p \in P,
           NEW e, NEW b, NewIn(d, C[p][Len(C[p])], e, b)
    PROVE  \E D, O : Extended(d, P, C, p, b, e, D, O)
<1>. DEFINE c == C[p]
            n == Len(c)
            r == Append(c, b)
            D == [q \in P |-> IF q = p THEN r ELSE C[q]]
            O == [Own EXCEPT ![b] = p]
<1>1. /\ d \in Disk /\ d.defect = "none" /\ Nobody \notin P /\ C \in [P -> Seq(Blocks)]
      /\ Own \in [Blocks -> P \cup {Nobody}] /\ p # Nobody
      /\ \A x \in Blocks : /\ x \in d.free <=> Own[x] = Nobody
                           /\ \A q \in P : Own[x] = q <=> x \in Range(C[q])
  BY DEF Sound
<1>2. /\ b \in d.free /\ b \in Blocks /\ b # EOF /\ e \in Disk /\ e.defect = "none" /\ e.free = d.free \ {b}
      /\ \A x \in Blocks : e.next[x] = IF x = b THEN EOF ELSE IF x = c[n] THEN b ELSE d.next[x]
      /\ \A x \in Blocks : x # b => e.data[x] = d.data[x]
      /\ \A o \in 1 .. BlockUnits : e.data[b][o] = Blank
  BY <1>1, DiskTypes, Constants DEF NewIn
<1>3. Linked(d.next, c) /\ b \notin Range(c) /\ Range(c) \subseteq Blocks
  BY <1>2, SoundFacts
<1>. HIDE DEF c
<1>4. /\ c \in Seq(Blocks) /\ n \in Nat \ {0} /\ IsInjective(c)
      /\ \A i \in 1 .. n : c[i] \in Blocks /\ c[i] \in Range(c)
      /\ \A i, j \in 1 .. n : c[i] = c[j] => i = j
      /\ \A i \in 1 .. n : d.next[c[i]] = IF i = n THEN EOF ELSE c[i + 1]
  BY <1>3, LinkedFacts
<1>5. /\ r \in Seq(Blocks) /\ Len(r) = n + 1 /\ Range(r) = Range(c) \cup {b} /\ IsInjective(r)
      /\ r[n + 1] = b /\ \A i \in 1 .. n : r[i] = c[i]
  BY <1>2, <1>3, <1>4, AppendRange, AppendProperties
<1>6. D[p] = r /\ \A q \in P \ {p} : D[q] = C[q]
  OBVIOUS
<1>. HIDE DEF n, r
<1>7. D \in [P -> Seq(Blocks)]
  BY <1>1, <1>5
<1>8. O \in [Blocks -> P \cup {Nobody}] /\ O[b] = p /\ \A x \in Blocks : x # b => O[x] = Own[x]
  BY <1>1, <1>2
<1>. HIDE DEF D, O
<1>9. Linked(e.next, r)
  <2>1. r # <<>>
    BY <1>4, <1>5, EmptySeq
  <2>2. ASSUME NEW i \in 1 .. n + 1
        PROVE  e.next[r[i]] = IF i = n + 1 THEN EOF ELSE r[i + 1]
    <3>1. CASE i = n + 1
      BY <1>2, <1>5, <3>1
    <3>2. CASE i # n + 1 /\ i = n
      <4>1. r[i] = c[n] /\ c[n] \in Blocks /\ c[n] # b /\ i + 1 = n + 1
        BY <1>3, <1>4, <1>5, <3>2
      <4>. QED
        BY <1>2, <1>5, <3>2, <4>1
    <3>3. CASE i # n + 1 /\ i # n
      <4>1. i \in 1 .. n /\ i + 1 \in 1 .. n /\ n \in 1 .. n
        BY <1>4, <3>3
      <4>2. r[i] = c[i] /\ r[i + 1] = c[i + 1] /\ c[i] \in Blocks /\ c[i] # b /\ c[i] # c[n]
        BY <1>3, <1>4, <1>5, <3>3, <4>1
      <4>. QED
        BY <1>2, <1>4, <3>3, <4>1, <4>2
    <3>. QED
      BY <3>1, <3>2, <3>3
  <2>. QED
    BY <1>5, <2>1, <2>2 DEF Linked
<1>10. ASSUME NEW q \in P \ {p}
       PROVE  /\ Linked(e.next, D[q]) /\ UnitsOf(e, D[q]) = UnitsOf(d, C[q])
              /\ b \notin Range(D[q])
  <2>1. Linked(d.next, C[q]) /\ Range(C[q]) \subseteq Blocks /\ b \notin Range(C[q])
    BY <1>2, SoundFacts
  <2>2. c[n] \in Range(c) /\ Range(c) \cap Range(C[q]) = {}
    <3>1. n \in 1 .. n
      BY <1>4
    <3>2. Range(c) \cap Range(C[q]) = {}
      BY SoundFacts, SMTT(60) DEF c
    <3>. QED
      BY <1>4, <3>1, <3>2
  <2>3. \A x \in Range(C[q]) : e.next[x] = d.next[x] /\ e.data[x] = d.data[x]
    BY <1>2, <2>1, <2>2
  <2>. QED
    BY <1>6, <2>1, <2>3, LinkedSame, UnitsSame
<1>11. \A q \in P : Linked(e.next, D[q])
  BY <1>6, <1>9, <1>10
<1>12. ASSUME NEW x \in Blocks
       PROVE  /\ x \in e.free <=> O[x] = Nobody
              /\ \A q \in P : O[x] = q <=> x \in Range(D[q])
  <2>1. CASE x = b
    <3>1. x \in Range(D[p])
      BY <1>5, <1>6, <2>1
    <3>. QED
      BY <1>1, <1>2, <1>8, <1>10, <2>1, <3>1
  <2>2. CASE x # b
    <3>1. O[x] = Own[x] /\ (x \in e.free <=> x \in d.free)
      BY <1>2, <1>8, <2>2
    <3>2. x \in Range(D[p]) <=> x \in Range(C[p])
      BY <1>5, <1>6, <2>2 DEF c
    <3>. QED
      BY <1>1, <1>6, <3>1, <3>2
  <2>. QED
    BY <2>1, <2>2
<1>13. Sound(e, P, D, O)
  BY <1>1, <1>2, <1>7, <1>8, <1>11, <1>12 DEF Sound
<1>14. ASSUME NEW i \in 1 .. Size(n + 1)
       PROVE  UnitsOf(e, r)[i] = IF i <= Size(n) THEN UnitsOf(d, c)[i] ELSE Blank
  <2>1. Blk(i) \in 1 .. n + 1 /\ Off(i) \in 1 .. BlockUnits /\ At(Blk(i), Off(i)) = i
    BY <1>4, PlaceOf
  <2>2. UnitsOf(e, r)[i] = e.data[r[Blk(i)]][Off(i)]
    BY <1>5 DEF UnitsOf
  <2>3. Size(n) \in Nat
    BY <1>4, Places
  <2>4. CASE i <= Size(n)
    <3>1. i \in 1 .. Size(n)
      BY <2>3, <2>4
    <3>2. Blk(i) \in 1 .. n
      BY <1>4, <3>1, PlaceOf
    <3>3. UnitsOf(d, c)[i] = d.data[c[Blk(i)]][Off(i)]
      BY <3>1 DEF UnitsOf, n
    <3>4. r[Blk(i)] = c[Blk(i)] /\ c[Blk(i)] \in Blocks /\ c[Blk(i)] # b
      BY <1>3, <1>4, <1>5, <3>2
    <3>. QED
      BY <1>2, <2>2, <2>4, <3>3, <3>4
  <2>5. CASE ~ (i <= Size(n))
    <3>1. Blk(i) \notin 1 .. n
      <4>1. SUFFICES ASSUME Blk(i) \in 1 .. n
                     PROVE  FALSE
        OBVIOUS
      <4>2. At(Blk(i), Off(i)) \in 1 .. Size(n)
        BY <1>4, <2>1, <4>1, PlaceOf
      <4>. QED
        BY <2>1, <2>3, <2>5, <4>2
    <3>2. Blk(i) = n + 1
      BY <1>4, <2>1, <3>1
    <3>. QED
      BY <1>2, <1>5, <2>1, <2>2, <2>5, <3>2
  <2>. QED
    BY <2>4, <2>5
<1>15. \A i \in 1 .. Size(Len(D[p])) :
          UnitsOf(e, D[p])[i] = IF i <= Size(Len(C[p])) THEN UnitsOf(d, C[p])[i] ELSE Blank
  BY <1>5, <1>6, <1>14 DEF n, c
<1>16. D[p] = Append(C[p], b)
  BY <1>6 DEF r, c
<1>. QED
  BY <1>6, <1>10, <1>13, <1>15, <1>16 DEF Extended

\* The blocks of a path are free
Released(d, P, C, p, e, D, O) ==
    /\ Sound(e, P \ {p}, D, O)
    /\ \A q \in P \ {p} : D[q] = C[q] /\ UnitsOf(e, D[q]) = UnitsOf(d, C[q])

LEMMA SoundFree ==
    ASSUME NEW d, NEW P, NEW C, NEW Own, Sound(d, P, C, Own), NEW p \in P,
           NEW e, e = [d EXCEPT !.free = @ \cup Range(C[p])]
    PROVE  \E D, O : Released(d, P, C, p, e, D, O)
<1>. DEFINE Q == P \ {p}
            D == [q \in Q |-> C[q]]
            O == [x \in Blocks |-> IF Own[x] = p THEN Nobody ELSE Own[x]]
            fr == d.free \cup Range(C[p])
<1>1. /\ d \in Disk /\ d.defect = "none" /\ Nobody \notin P /\ C \in [P -> Seq(Blocks)]
      /\ Own \in [Blocks -> P \cup {Nobody}]
      /\ \A x \in Blocks : /\ x \in d.free <=> Own[x] = Nobody
                           /\ \A q \in P : Own[x] = q <=> x \in Range(C[q])
      /\ \A q \in P : Linked(d.next, C[q])
  BY DEF Sound
<1>2. fr \in SUBSET Blocks
  BY <1>1, DiskTypes, SoundFacts
<1>3. e = [d EXCEPT !.free = fr]
  BY <1>1 DEF Disk
<1>4. /\ e \in Disk /\ e.defect = "none" /\ e.next = d.next /\ e.data = d.data
      /\ e.free = fr
  <2>. HIDE DEF fr
  <2>. QED
    BY <1>1, <1>2, <1>3 DEF Disk
<1>5. D \in [Q -> Seq(Blocks)] /\ \A q \in Q : D[q] = C[q]
  BY <1>1
<1>6. O \in [Blocks -> Q \cup {Nobody}]
  BY <1>1
<1>7. ASSUME NEW x \in Blocks
      PROVE  /\ x \in e.free <=> O[x] = Nobody
             /\ \A q \in Q : O[x] = q <=> x \in Range(D[q])
  <2>1. O[x] = IF Own[x] = p THEN Nobody ELSE Own[x]
    OBVIOUS
  <2>. HIDE DEF O, D
  <2>. QED
    BY <1>1, <1>4, <1>5, <2>1
<1>8. \A q \in Q : Linked(e.next, D[q])
  BY <1>1, <1>4, <1>5
<1>9. \A q \in Q : UnitsOf(e, D[q]) = UnitsOf(d, C[q])
  BY <1>4, <1>5 DEF UnitsOf
<1>. HIDE DEF D, O, Q
<1>10. Sound(e, Q, D, O)
  BY <1>1, <1>4, <1>5, <1>6, <1>7, <1>8 DEF Sound, Q
<1>. QED
  BY <1>5, <1>9, <1>10 DEF Q, Released

\* A unit is written
LEMMA SoundPut ==
    ASSUME NEW d, NEW P, NEW C, NEW Own, Sound(d, P, C, Own), NEW p \in P,
           NEW k \in 1 .. Len(C[p]), NEW o \in 1 .. BlockUnits, NEW unit \in Unit,
           NEW e, e = [d EXCEPT !.data[C[p][k]][o] = unit]
    PROVE  /\ Sound(e, P, C, Own)
           /\ \A q \in P \ {p} : UnitsOf(e, C[q]) = UnitsOf(d, C[q])
           /\ \A i \in 1 .. Size(Len(C[p])) :
                 UnitsOf(e, C[p])[i] = IF i = At(k, o) THEN unit ELSE UnitsOf(d, C[p])[i]
<1>. DEFINE c == C[p]
            b == c[k]
            dt == [d.data EXCEPT ![b][o] = unit]
<1>1. /\ d \in Disk /\ d.defect = "none" /\ d.data \in [Blocks -> [1 .. BlockUnits -> Unit]]
  BY DiskTypes DEF Sound
<1>2. Linked(d.next, c) /\ \A q \in P : Linked(d.next, C[q])
  BY SoundFacts
<1>. HIDE DEF c
<1>3. b \in Blocks /\ b \in Range(c) /\ Len(c) \in Nat /\ k \in 1 .. Len(c)
      /\ \A i \in 1 .. Len(c) : c[i] \in Blocks /\ (c[i] = b => i = k)
  BY <1>2, LinkedFacts DEF c
<1>4. e = [d EXCEPT !.data = dt]
  BY <1>1 DEF Disk, c
<1>. HIDE DEF b
<1>5. /\ dt \in [Blocks -> [1 .. BlockUnits -> Unit]]
      /\ dt[b][o] = unit
      /\ \A x \in Blocks : x # b => dt[x] = d.data[x]
      /\ \A j \in 1 .. BlockUnits : j # o => dt[b][j] = d.data[b][j]
  <2>1. d.data[b] \in [1 .. BlockUnits -> Unit]
    BY <1>1, <1>3
  <2>. DEFINE w == [d.data[b] EXCEPT ![o] = unit]
  <2>2. w \in [1 .. BlockUnits -> Unit] /\ w[o] = unit /\ \A j \in 1 .. BlockUnits : j # o => w[j] = d.data[b][j]
    BY <2>1
  <2>3. dt = [d.data EXCEPT ![b] = w]
    OBVIOUS
  <2>. HIDE DEF w, dt
  <2>. QED
    BY <1>1, <1>3, <2>2, <2>3
<1>. HIDE DEF dt
<1>6. e \in Disk /\ e.defect = "none" /\ e.next = d.next /\ e.free = d.free /\ e.data = dt
  BY <1>1, <1>4, <1>5 DEF Disk
<1>7. Sound(e, P, C, Own)
  BY <1>6 DEF Sound
<1>8. ASSUME NEW q \in P \ {p}
      PROVE  UnitsOf(e, C[q]) = UnitsOf(d, C[q])
  <2>1. b \notin Range(C[q]) /\ Range(C[q]) \subseteq Blocks
    BY <1>3, SoundFacts DEF c
  <2>2. \A x \in Range(C[q]) : e.data[x] = d.data[x]
    BY <1>5, <1>6, <2>1
  <2>. QED
    BY <1>2, <2>2, UnitsSame
<1>9. ASSUME NEW i \in 1 .. Size(Len(c))
      PROVE  UnitsOf(e, c)[i] = IF i = At(k, o) THEN unit ELSE UnitsOf(d, c)[i]
  <2>1. /\ Blk(i) \in 1 .. Len(c) /\ Off(i) \in 1 .. BlockUnits /\ At(Blk(i), Off(i)) = i
        /\ Blk(At(k, o)) = k /\ Off(At(k, o)) = o
    BY <1>3, PlaceOf
  <2>2. /\ UnitsOf(e, c)[i] = dt[c[Blk(i)]][Off(i)]
        /\ UnitsOf(d, c)[i] = d.data[c[Blk(i)]][Off(i)]
    BY <1>6 DEF UnitsOf
  <2>3. CASE i = At(k, o)
    <3>1. Blk(i) = k /\ Off(i) = o
      BY <2>1, <2>3
    <3>. QED
      BY <1>5, <2>2, <2>3, <3>1 DEF b
  <2>4. CASE i # At(k, o) /\ Blk(i) = k
    <3>1. Off(i) # o
      BY <2>1, <2>4
    <3>. QED
      BY <1>5, <2>1, <2>2, <2>4, <3>1 DEF b
  <2>5. CASE i # At(k, o) /\ Blk(i) # k
    <3>1. c[Blk(i)] \in Blocks /\ c[Blk(i)] # b
      BY <1>3, <2>1, <2>5
    <3>. QED
      BY <1>5, <2>2, <2>5, <3>1
  <2>. QED
    BY <2>3, <2>4, <2>5
<1>. QED
  BY <1>7, <1>8, <1>9 DEF c

-----------------------------------------------------------------------------
(* What a step does to a file: writing a unit *)

\* The unit after the first at units of p is now unit: D and e are the chains and the disk then
Written(d, P, C, p, at, unit, e, D, O) ==
    /\ Sound(e, P, D, O)
    /\ \A q \in P \ {p} : D[q] = C[q] /\ UnitsOf(e, D[q]) = UnitsOf(d, C[q])
    /\ D[p][1] = C[p][1] /\ Size(Len(C[p])) <= Size(Len(D[p])) /\ at + 1 <= Size(Len(D[p]))
    /\ \A i \in 1 .. Size(Len(D[p])) :
          UnitsOf(e, D[p])[i] = IF i = at + 1 THEN unit
                                ELSE IF i <= Size(Len(C[p])) THEN UnitsOf(d, C[p])[i] ELSE Blank

\* What Put makes of the file f: it is in the block b at the offset o
Moved(f, b, o) ==
    [f EXCEPT !.block = b, !.offset = o, !.pos = @ + 1, !.modified = TRUE,
              !.length = IF @ > f.pos THEN @ ELSE f.pos + 1]

Positioned(f, b, o) == [f EXCEPT !.block = b, !.offset = o]
Ahead(f, o) == [f EXCEPT !.offset = o, !.pos = @ + 1, !.modified = TRUE,
                         !.length = IF @ > f.pos THEN @ ELSE f.pos + 1]
WithUnit(d, b, o, unit) == [d EXCEPT !.data[b][o] = unit]

File == [path : Paths \cup {<<>>}, first : Blocks, block : Blocks, offset : 0 .. BlockUnits,
         pos : Nat, length : Nat, dir : BOOLEAN, modified : BOOLEAN, text : Seq(Unit)]

LEMMA FileFacts ==
    ASSUME NEW f \in File
    PROVE  /\ f.path \in Paths \cup {<<>>} /\ f.first \in Blocks /\ f.block \in Blocks
           /\ f.offset \in 0 .. BlockUnits /\ f.pos \in Nat /\ f.length \in Nat
           /\ f.dir \in BOOLEAN /\ f.modified \in BOOLEAN /\ f.text \in Seq(Unit)
           /\ f.block # EOF
  BY Constants DEF File

\* The file f, when it was at the block b and the offset o, after the unit there
LEMMA MovedIs ==
    ASSUME NEW f \in File, NEW b \in Blocks, NEW o \in 0 .. BlockUnits - 1
    PROVE  /\ Positioned(f, b, o) \in File
           /\ Positioned(f, b, o).block = b /\ Positioned(f, b, o).offset = o
           /\ Ahead(Positioned(f, b, o), o + 1) = Moved(f, b, o + 1)
<1>. DEFINE g == Positioned(f, b, o)
<1>1. o \in 0 .. BlockUnits
  BY FilesAssumption
<1>2. g \in File /\ g.block = b /\ g.offset = o /\ g.pos = f.pos /\ g.length = f.length
  BY <1>1 DEF File, Positioned
<1>3. PICK l : l = IF f.length > f.pos THEN f.length ELSE f.pos + 1
  OBVIOUS
<1>4. Ahead(g, o + 1) = [g EXCEPT !.offset = o + 1, !.pos = f.pos + 1, !.modified = TRUE, !.length = l]
  BY <1>2, <1>3 DEF Ahead
<1>5. Moved(f, b, o + 1) = [f EXCEPT !.block = b, !.offset = o + 1, !.pos = f.pos + 1,
                                     !.modified = TRUE, !.length = l]
  BY <1>3 DEF Moved
<1>6. [g EXCEPT !.offset = o + 1, !.pos = f.pos + 1, !.modified = TRUE, !.length = l]
         = [f EXCEPT !.block = b, !.offset = o + 1, !.pos = f.pos + 1,
                     !.modified = TRUE, !.length = l]
  BY DEF File, Positioned
<1>. QED
  BY <1>2, <1>4, <1>5, <1>6

\* There is room at the place of the file, on this disk
LEMMA PutHere ==
    ASSUME NEW d, NEW P, NEW C, NEW Own, Sound(d, P, C, Own), NEW p \in P,
           NEW k \in 1 .. Len(C[p]), NEW o \in 0 .. BlockUnits - 1, NEW unit \in Unit,
           NEW f, f.block = C[p][k], f.offset = o
    PROVE  /\ PutAt(d, f, unit).d = WithUnit(d, C[p][k], o + 1, unit)
           /\ PutAt(d, f, unit).f = Ahead(f, o + 1)
           /\ Written(d, P, C, p, At(k, o), unit, WithUnit(d, C[p][k], o + 1, unit), C, Own)
<1>1. BlockUnits \in Nat \ {0}
  BY FilesAssumption
<1>2. Linked(d.next, C[p])
  BY SoundFacts
<1>3. Len(C[p]) \in Nat \ {0} /\ C[p][k] \in Blocks /\ C[p][k] # EOF
  BY <1>2, LinkedFacts, Constants
<1>4. ~ (f.block = EOF \/ f.offset >= BlockUnits)
  BY <1>1, <1>3
<1>5. PutAt(d, f, unit) = [d |-> WithUnit(d, C[p][k], o + 1, unit), f |-> Ahead(f, o + 1)]
  BY <1>4, Zenon DEF PutAt, WithUnit, Ahead
<1>6. o + 1 \in 1 .. BlockUnits
  BY <1>1
<1>7. At(k, o + 1) = At(k, o) + 1 /\ At(k, o + 1) \in 1 .. Size(Len(C[p]))
  <2>1. k \in Nat \ {0} /\ o \in 0 .. BlockUnits /\ o # BlockUnits
    BY <1>1
  <2>. QED
    BY <1>3, <1>6, <2>1, Places, PlaceOf
<1>. DEFINE e == WithUnit(d, C[p][k], o + 1, unit)
<1>8. /\ Sound(e, P, C, Own)
      /\ \A q \in P \ {p} : UnitsOf(e, C[q]) = UnitsOf(d, C[q])
      /\ \A i \in 1 .. Size(Len(C[p])) :
            UnitsOf(e, C[p])[i] = IF i = At(k, o + 1) THEN unit ELSE UnitsOf(d, C[p])[i]
  <2>1. PICK j \in 1 .. BlockUnits : j = o + 1
    BY <1>6
  <2>2. e = [d EXCEPT !.data[C[p][k]][j] = unit]
    BY <2>1 DEF WithUnit
  <2>. HIDE DEF e
  <2>3. /\ Sound(e, P, C, Own)
        /\ \A q \in P \ {p} : UnitsOf(e, C[q]) = UnitsOf(d, C[q])
        /\ \A i \in 1 .. Size(Len(C[p])) :
              UnitsOf(e, C[p])[i] = IF i = At(k, j) THEN unit ELSE UnitsOf(d, C[p])[i]
    BY <2>2, SoundPut, SMTT(60)
  <2>. QED
    BY <2>1, <2>3
<1>9. Size(Len(C[p])) \in Nat
  BY <1>3, Places
<1>. HIDE DEF e
<1>10. Written(d, P, C, p, At(k, o), unit, e, C, Own)
  BY <1>7, <1>8, <1>9 DEF Written
<1>11. PutAt(d, f, unit).d = e /\ PutAt(d, f, unit).f = Ahead(f, o + 1)
  <2>1. PutAt(d, f, unit) = [d |-> e, f |-> Ahead(f, o + 1)]
    BY <1>5 DEF e
  <2>. QED
    BY <2>1
<1>. QED
  BY <1>10, <1>11 DEF e

\* The file is behind the unit at of the chain c, and Put has made r of the disk and the file
MovedOn(f, c, at, g) ==
    \E j \in 1 .. Len(c), i \in 0 .. BlockUnits : At(j, i) = at /\ g = Moved(f, c[j], i)

PutIs(d, P, C, p, at, unit, f, r) ==
    \E D, O : Written(d, P, C, p, at, unit, r.d, D, O) /\ MovedOn(f, D[p], at + 1, r.f)

\* Put writes at the place of the file and moves it on, or it writes past the memory
LEMMA PutEffect ==
    ASSUME NEW d, NEW P, NEW C, NEW Own, Sound(d, P, C, Own), NEW p \in P,
           NEW k \in 1 .. Len(C[p]), NEW o \in 0 .. BlockUnits, NEW unit \in Unit,
           NEW f \in File, f.block = C[p][k], f.offset = o
    PROVE  \/ Put(d, f, unit).d.defect = "overrun" /\ Put(d, f, unit).d \in Disk
           \/ PutIs(d, P, C, p, At(k, o), unit, f, Put(d, f, unit))
<1>0. ASSUME NEW e, NEW b, NewIn(d, C[p][Len(C[p])], e, b)
      PROVE  \E D, O : Extended(d, P, C, p, b, e, D, O)
  BY <1>0, SoundExtend, Zenon
<1>. DEFINE c == C[p]
            n == Len(c)
            Here(d1, P1, C1, O1, g, k1, o1) ==
               /\ Written(d1, P1, C1, p, At(k1, o1), unit, PutAt(d1, g, unit).d, C1, O1)
               /\ o1 + 1 \in 0 .. BlockUnits /\ At(k1, o1 + 1) = At(k1, o1) + 1
               /\ PutAt(d1, g, unit).f = Moved(f, C1[p][k1], o1 + 1)
<1>1. BlockUnits \in Nat \ {0} /\ d \in Disk /\ d.defect = "none"
  BY FilesAssumption DEF Sound
<1>2. Linked(d.next, c)
  BY SoundFacts
<1>3. ASSUME NEW d1, NEW C1, NEW O1, Sound(d1, P, C1, O1), NEW k1 \in 1 .. Len(C1[p]),
             NEW o1 \in 0 .. BlockUnits - 1, NEW g, g = Positioned(f, C1[p][k1], o1)
      PROVE  Here(d1, P, C1, O1, g, k1, o1)
  <2>1. Linked(d1.next, C1[p])
    BY <1>3, SoundFacts
  <2>2. C1[p][k1] \in Blocks /\ k1 \in Nat \ {0}
    BY <2>1, LinkedFacts
  <2>3. /\ g.block = C1[p][k1] /\ g.offset = o1
        /\ Ahead(g, o1 + 1) = Moved(f, C1[p][k1], o1 + 1)
    BY <1>3, <2>2, MovedIs
  <2>4. /\ PutAt(d1, g, unit).d = WithUnit(d1, C1[p][k1], o1 + 1, unit)
        /\ PutAt(d1, g, unit).f = Ahead(g, o1 + 1)
        /\ Written(d1, P, C1, p, At(k1, o1), unit, WithUnit(d1, C1[p][k1], o1 + 1, unit), C1, O1)
    BY <1>3, <2>3, PutHere
  <2>5. o1 + 1 \in 0 .. BlockUnits /\ At(k1, o1 + 1) = At(k1, o1) + 1
    <3>1. o1 \in 0 .. BlockUnits /\ o1 # BlockUnits /\ o1 + 1 \in 0 .. BlockUnits
      BY <1>1
    <3>. QED
      BY <2>2, <3>1, Places
  <2>. QED
    BY <2>3, <2>4, <2>5, Zenon
<1>4. CASE o # BlockUnits
  <2>1. o \in 0 .. BlockUnits - 1 /\ f.offset < BlockUnits
    BY <1>1, <1>4
  <2>2. Put(d, f, unit) = PutAt(d, f, unit)
    BY <2>1 DEF Put, Room
  <2>3. f = Positioned(f, C[p][k], o)
    BY DEF File, Positioned
  <2>4. Here(d, P, C, Own, f, k, o)
    BY <1>3, <2>1, <2>3
  <2>. QED
    BY <2>2, <2>4 DEF PutIs, MovedOn
<1>5. CASE o = BlockUnits /\ k # n
  <2>1. k + 1 \in 1 .. Len(c) /\ k \in Nat \ {0} /\ 0 \in 0 .. BlockUnits - 1 /\ ~ (f.offset < BlockUnits)
    <3>1. n \in Nat
      BY <1>2, LinkedFacts
    <3>. QED
      BY <1>1, <1>5, <3>1
  <2>2. d.next[c[k]] = c[k + 1] /\ c[k] \in Blocks /\ c[k + 1] \in Blocks /\ c[k] # EOF /\ c[k + 1] # EOF
    BY <1>2, <1>5, <2>1, LinkedFacts, Constants, SMTT(60)
  <2>. DEFINE g == Positioned(f, c[k + 1], 0)
  <2>3. Put(d, f, unit) = PutAt(d, g, unit)
    <3>1. Room(d, f) = [d |-> d, f |-> g]
      BY <2>1, <2>2 DEF Room, NextBlock, Positioned
    <3>. HIDE DEF g
    <3>. QED
      BY <3>1 DEF Put
  <2>. HIDE DEF g
  <2>4. Here(d, P, C, Own, g, k + 1, 0)
    BY <1>3, <2>1 DEF g
  <2>5. At(k + 1, 0) = At(k, o)
    BY <1>5, <2>1, Places
  <2>. QED
    BY <2>1, <2>3, <2>4, <2>5 DEF PutIs, MovedOn
<1>6. CASE o = BlockUnits /\ k = n
  <2>1. n \in Nat \ {0} /\ c[n] \in Blocks /\ c[n] # EOF /\ d.next[c[n]] = EOF /\ ~ (f.offset < BlockUnits)
        /\ f.block \in Link
    <3>1. n \in Nat \ {0}
      BY <1>2, LinkedFacts
    <3>2. n \in 1 .. n
      BY <3>1
    <3>3. c[n] \in Blocks /\ d.next[c[n]] = EOF
      BY <1>2, <3>2, LinkedFacts
    <3>. QED
      BY <1>1, <1>6, <3>1, <3>3, Constants DEF Link
  <2>2. Room(d, f) = NewBlock(d, f)
    BY <1>6, <2>1 DEF Room
  <2>3. CASE NewBlock(d, f) = [d |-> d, f |-> f]
    <3>1. Put(d, f, unit) = [d |-> [d EXCEPT !.defect = "overrun"], f |-> f]
      <4>1. Put(d, f, unit) = PutAt(d, f, unit)
        BY <2>2, <2>3 DEF Put
      <4>2. f.offset >= BlockUnits
        BY <1>1, <1>6
      <4>. QED
        BY <4>1, <4>2 DEF PutAt
    <3>2. PICK e : e = [d EXCEPT !.defect = "overrun"]
      OBVIOUS
    <3>3. e.defect = "overrun" /\ e \in Disk
      BY <1>1, <3>2 DEF Disk
    <3>4. Put(d, f, unit) = [d |-> e, f |-> f]
      BY <3>1, <3>2
    <3>5. Put(d, f, unit).d = e
      BY <3>4
    <3>. QED
      BY <3>3, <3>5
  <2>4. ASSUME NEW b, NEW e, NewIn(d, f.block, e, b),
               NewBlock(d, f) = [d |-> e, f |-> Positioned(f, b, 0)]
        PROVE  PutIs(d, P, C, p, At(k, o), unit, f, Put(d, f, unit))
    <3>0. NewIn(d, C[p][Len(C[p])], e, b)
      BY <1>6, <2>4
    <3>a. PICK D, O : Extended(d, P, C, p, b, e, D, O)
      BY <3>0, <1>0, Zenon
    <3>1. /\ Sound(e, P, D, O) /\ D[p] = Append(C[p], b)
          /\ \A q \in P \ {p} : D[q] = C[q] /\ UnitsOf(e, D[q]) = UnitsOf(d, C[q])
          /\ \A i \in 1 .. Size(Len(D[p])) :
                UnitsOf(e, D[p])[i] = IF i <= Size(Len(C[p])) THEN UnitsOf(d, C[p])[i] ELSE Blank
      BY <3>a, Zenon DEF Extended
    <3>2. b \in Blocks
      BY <1>1, <2>4, DiskTypes DEF NewIn
    <3>3. c \in Seq(Blocks)
      BY <1>2 DEF Linked
    <3>4. Len(D[p]) = n + 1 /\ D[p][n + 1] = b /\ D[p][1] = c[1]
      <4>1. 1 \in 1 .. n /\ D[p] = Append(c, b)
        BY <2>1, <3>1
      <4>. QED
        BY <3>2, <3>3, <4>1, AppendProperties
    <3>. DEFINE g == Positioned(f, D[p][n + 1], 0)
    <3>5. Put(d, f, unit) = PutAt(e, g, unit)
      <4>1. Room(d, f) = [d |-> e, f |-> g]
        BY <2>2, <2>4, <3>4
      <4>. HIDE DEF g
      <4>. QED
        BY <4>1 DEF Put
    <3>6. n + 1 \in 1 .. Len(D[p]) /\ 0 \in 0 .. BlockUnits - 1
      BY <1>1, <2>1, <3>4
    <3>7. Here(e, P, D, O, g, n + 1, 0)
      BY <1>3, <3>1, <3>6
    <3>8. At(n + 1, 0) = At(k, o) /\ At(k, o) = Size(n)
      BY <1>6, <2>1, Places
    <3>. HIDE DEF g
    <3>9. Written(e, P, D, p, At(k, o), unit, Put(d, f, unit).d, D, O)
      BY <3>5, <3>7, <3>8
    <3>10. Size(n) \in Nat /\ Size(n + 1) \in Nat /\ Size(n) <= Size(n + 1)
           /\ At(n + 1, 0 + 1) = At(n + 1, 0) + 1 /\ Size(n) + 1 <= Size(n + 1)
      <4>1. \A m \in Nat : Size(m) \in Nat /\ Size(m + 1) = Size(m) + BlockUnits
        BY Places
      <4>2. PICK m \in Nat : m = n
        BY <2>1
      <4>3. Size(m) \in Nat /\ Size(m + 1) = Size(m) + BlockUnits
        BY <4>1
      <4>. QED
        BY <1>1, <3>7, <4>2, <4>3
    <3>11. Written(d, P, C, p, At(k, o), unit, Put(d, f, unit).d, D, O)
      BY <3>1, <3>4, <3>8, <3>9, <3>10 DEF Written
    <3>. QED
      BY <3>5, <3>6, <3>7, <3>8, <3>11 DEF PutIs, MovedOn
  <2>. QED
    BY <1>1, <2>1, <2>3, <2>4, NewBlockIs DEF Positioned
<1>. QED
  BY <1>4, <1>5, <1>6

-----------------------------------------------------------------------------
(* Directories *)

Names == FileNames \cup {DirectoryName}
Directories == {<<>>, <<DirectoryName>>}

\* The path of a name in the directory q, and the directory of a path
Sub(q, name) == IF q = <<>> THEN <<name>> ELSE <<DirectoryName, name>>
Up(path) == IF Len(path) = 1 THEN <<>> ELSE <<DirectoryName>>

LEMMA PathFacts ==
    ASSUME NEW path \in Paths
    PROVE  /\ Up(path) \in Directories /\ Last(path) \in Names /\ Sub(Up(path), Last(path)) = path
           /\ Len(path) = 1 => path[1] = Last(path)
           /\ Len(path) # 1 => /\ Len(path) = 2 /\ path[1] = DirectoryName /\ path[2] = Last(path)
                               /\ <<path[1]>> \in Paths /\ Len(<<path[1]>>) = 1
                               /\ Last(<<path[1]>>) = DirectoryName
           /\ path # <<>> /\ path # Nobody /\ Up(path) # path
<1>1. CASE \E n \in Names : path = <<n>>
  <2>1. PICK n \in Names : path = <<n>>
    BY <1>1
  <2>2. Len(path) = 1 /\ path[1] = n
    BY <2>1
  <2>3. n # "none"
    BY FilesAssumption DEF Names
  <2>. QED
    BY <2>1, <2>2, <2>3 DEF Up, Sub, Last, Directories, Nobody
<1>2. CASE \E n \in FileNames : path = <<DirectoryName, n>>
  <2>1. PICK n \in FileNames : path = <<DirectoryName, n>>
    BY <1>2
  <2>2. Len(path) = 2 /\ path[1] = DirectoryName /\ path[2] = n /\ Last(path) = n
    BY <2>1 DEF Last
  <2>3. Up(path) = <<DirectoryName>> /\ <<DirectoryName>> # <<>>
    BY <2>2 DEF Up
  <2>4. <<path[1]>> \in Paths /\ Len(<<path[1]>>) = 1 /\ Last(<<path[1]>>) = DirectoryName
    BY <2>2 DEF Paths, Last
  <2>5. path # Nobody /\ path # <<>> /\ path # <<DirectoryName>>
    <3>1. Len(Nobody) = 1 /\ Len(<<>>) = 0 /\ Len(<<DirectoryName>>) = 1
      BY DEF Nobody
    <3>. QED
      BY <2>2, <3>1
  <2>. QED
    BY <2>1, <2>2, <2>3, <2>4, <2>5 DEF Sub, Directories, Names
<1>. QED
  BY <1>1, <1>2 DEF Paths, Names

LEMMA SubFacts ==
    ASSUME NEW q \in Directories, NEW n
    PROVE  Up(Sub(q, n)) = q /\ Last(Sub(q, n)) = n
<1>1. CASE q = <<>>
  <2>1. Sub(q, n) = <<n>> /\ Len(<<n>>) = 1
    BY <1>1 DEF Sub
  <2>. QED
    BY <1>1, <2>1 DEF Up, Last
<1>2. CASE q = <<DirectoryName>>
  <2>1. Sub(q, n) = <<DirectoryName, n>> /\ Len(<<DirectoryName, n>>) = 2
    BY <1>2 DEF Sub
  <2>. QED
    BY <1>2, <2>1 DEF Up, Last
<1>. QED
  BY <1>1, <1>2 DEF Directories

\* S are the paths of files and directories with an entry, T their entries
Named(S, T) ==
    /\ S \subseteq Paths /\ T \in [S -> EntryUnit]
    /\ \A p \in S : T[p].name = Last(p) /\ T[p].valid

\* The first m units are entries, the valid ones those of the paths in q, each once
Dir(u, m, q, S, T) ==
    /\ u \in Seq(Unit) /\ m \in 0 .. Len(u)
    /\ \A i \in 1 .. m :
          u[i] \in EntryUnit /\ (u[i].valid => Sub(q, u[i].name) \in S /\ u[i] = T[Sub(q, u[i].name)])
    /\ \A i \in m + 1 .. Len(u) : u[i] = Blank
    /\ \A i, j \in 1 .. m : u[i].valid /\ u[j].valid /\ u[i].name = u[j].name => i = j
    /\ \A p \in S : Up(p) = q => \E i \in 1 .. m : u[i] = T[p]

\* The unit at is where an entry for path goes
Fits(u, m, path, S, T, at) ==
    IF path \in S THEN at \in 1 .. m /\ u[at] = T[path]
    ELSE at \in 1 .. m + 1 /\ (at <= m => ~ u[at].valid)

LEMMA Kinds ==
    /\ Blank.kind # "entry" /\ Blank.kind # "data" /\ DirectoryMark.kind # "data"
    /\ \A e \in EntryUnit : /\ e.kind = "entry" /\ e.name \in Names /\ e.valid \in BOOLEAN /\ e # Blank
                            /\ e.block \in Blocks /\ e.length \in Nat /\ e.dir \in BOOLEAN
    /\ \A e \in DataUnit : e.kind = "data"
<1>1. Blank.kind = "blank" /\ DirectoryMark.kind = "dir"
  BY DEF Blank, DirectoryMark
<1>2. \A e \in EntryUnit : e.kind = "entry"
  BY DEF EntryUnit
<1>3. \A e \in EntryUnit : e # Blank
  BY <1>1, <1>2
<1>. QED
  BY <1>1, <1>2, <1>3 DEF EntryUnit, DataUnit, Names

\* Where the search of a directory for a name ends, and where an entry then goes
EndOf(u, name) ==
    Min({i \in DOMAIN u : u[i] = Blank \/ (u[i].kind = "entry" /\ u[i].valid /\ u[i].name = name)}
        \cup {Len(u) + 1})

EntryAt(u, end) ==
    IF end \in DOMAIN u /\ u[end] # Blank THEN end ELSE Min({i \in 1 .. end - 1 : ~ u[i].valid} \cup {end})

LEMMA DirFind ==
    ASSUME NEW S, NEW T, Named(S, T), NEW q \in Directories, NEW u, NEW m, Dir(u, m, q, S, T),
           NEW path \in Paths, Up(path) = q,
           NEW end, end = EndOf(u, Last(path)), NEW at, at = EntryAt(u, end)
    PROVE  /\ end \in DOMAIN u /\ u[end] # Blank <=> path \in S
           /\ path \in S => u[end] = T[path]
           /\ Fits(u, m, path, S, T, at)
<1>. DEFINE Is(e) == e.kind = "entry" /\ e.valid /\ e.name = Last(path)
            E == {i \in DOMAIN u : u[i] = Blank \/ Is(u[i])} \cup {Len(u) + 1}
<1>1. u \in Seq(Unit) /\ Len(u) \in Nat /\ DOMAIN u = 1 .. Len(u) /\ m \in 0 .. Len(u)
  BY DEF Dir
<1>2. end \in E /\ \A y \in E : end <= y
  <2>1. E \in SUBSET Nat /\ E # {}
    BY <1>1
  <2>2. end = Min(E)
    BY DEF EndOf
  <2>. HIDE DEF E
  <2>. QED
    BY <2>1, <2>2, MinOfNat
<1>3. end \in 1 .. Len(u) + 1
  BY <1>1, <1>2
<1>4. CASE path \in S
  <2>1. PICK i \in 1 .. m : u[i] = T[path]
    BY <1>4 DEF Dir
  <2>2. T[path] \in EntryUnit /\ T[path].name = Last(path) /\ T[path].valid
    BY <1>4 DEF Named
  <2>3. i \in E
    BY <1>1, <2>1, <2>2, Kinds
  <2>4. end \in 1 .. m /\ end \in DOMAIN u /\ i \in Nat
    <3>1. end <= i
      BY <1>2, <2>3
    <3>. HIDE DEF E
    <3>2. end \in 1 .. m /\ i \in Nat
      BY <1>1, <1>3, <3>1
    <3>3. end \in 1 .. Len(u)
      BY <1>1, <3>2
    <3>. QED
      BY <1>1, <3>2, <3>3
  <2>5. u[end] \in EntryUnit /\ u[end] # Blank
    BY <2>4, Kinds DEF Dir
  <2>6. end # Len(u) + 1
    BY <1>1, <2>4
  <2>7. Is(u[end])
    BY <1>2, <2>5, <2>6
  <2>8. u[end] = T[Sub(q, Last(path))]
    BY <2>4, <2>7 DEF Dir
  <2>9. Sub(q, Last(path)) = path
    BY PathFacts
  <2>. QED
    BY <1>4, <2>4, <2>5, <2>8, <2>9 DEF Fits, EntryAt
<1>5. CASE path \notin S
  <2>1. \A i \in DOMAIN u : ~ Is(u[i])
    <3>. SUFFICES ASSUME NEW i \in DOMAIN u, Is(u[i])
                  PROVE  FALSE
      OBVIOUS
    <3>1. CASE i \in 1 .. m
      <4>1. Sub(q, u[i].name) \in S
        BY <3>1 DEF Dir
      <4>. QED
        BY <1>5, <4>1, PathFacts
    <3>2. CASE i \notin 1 .. m
      <4>1. i \in m + 1 .. Len(u)
        BY <1>1, <3>2
      <4>2. u[i] = Blank
        BY <4>1 DEF Dir
      <4>. QED
        BY <4>2, Kinds
    <3>. QED
      BY <3>1, <3>2
  <2>2. ~ (end \in DOMAIN u /\ u[end] # Blank)
    BY <1>1, <1>2, <2>1
  <2>3. m + 1 \in E
    <3>1. CASE m = Len(u)
      BY <3>1
    <3>2. CASE m # Len(u)
      <4>b. PICK l \in Nat : l = Len(u)
        BY <1>1
      <4>c. m \in 0 .. l /\ m # l
        BY <1>1, <3>2, <4>b
      <4>d. m + 1 \in m + 1 .. l /\ m + 1 \in 1 .. l
        BY <4>c
      <4>a. m + 1 \in m + 1 .. Len(u) /\ m + 1 \in 1 .. Len(u)
        BY <4>b, <4>d
      <4>1. m + 1 \in m + 1 .. Len(u) /\ m + 1 \in DOMAIN u
        BY <1>1, <4>a
      <4>. QED
        BY <4>1 DEF Dir
    <3>. QED
      BY <3>1, <3>2
  <2>4. end = m + 1
    <3>1. end \notin 1 .. m
      <4>1. SUFFICES ASSUME end \in 1 .. m
                     PROVE  FALSE
        OBVIOUS
      <4>2. u[end] \in EntryUnit /\ end \in DOMAIN u
        BY <1>1, <4>1 DEF Dir
      <4>. QED
        BY <2>2, <4>2, Kinds
    <3>2. end <= m + 1
      BY <1>2, <2>3
    <3>. QED
      BY <1>1, <1>3, <3>1, <3>2
  <2>. DEFINE F == {i \in 1 .. end - 1 : ~ u[i].valid} \cup {end}
  <2>5. at = Min(F)
    BY <2>2 DEF EntryAt
  <2>6. F \in SUBSET Nat /\ F # {} /\ F \subseteq 1 .. m + 1
    <3>1. m \in Nat /\ end - 1 = m /\ end \in 1 .. m + 1
      BY <1>1, <2>4
    <3>2. 1 .. m \subseteq 1 .. m + 1 /\ 1 .. m + 1 \subseteq Nat
      BY <3>1
    <3>3. {i \in 1 .. end - 1 : ~ u[i].valid} \subseteq 1 .. m
      BY <3>1
    <3>. QED
      BY <3>1, <3>2, <3>3
  <2>7. at \in F
    <3>. HIDE DEF F
    <3>. QED
      BY <2>5, <2>6, MinOfNat
  <2>8. at \in 1 .. m + 1 /\ (at <= m => ~ u[at].valid)
    BY <1>1, <2>4, <2>6, <2>7
  <2>. QED
    BY <1>5, <2>2, <2>8 DEF Fits
<1>. QED
  BY <1>4, <1>5

\* The entries when path has the entry e: none if it is not valid
Entered(S, T, path, e) ==
    [p \in IF e.valid THEN S \cup {path} ELSE S \ {path} |-> IF p = path THEN e ELSE T[p]]

\* w is u with e as the unit at, and blank units after it
Overlaid(u, at, e, w) ==
    /\ w \in Seq(Unit) /\ Len(u) <= Len(w) /\ at <= Len(w)
    /\ \A i \in 1 .. Len(w) : w[i] = IF i = at THEN e ELSE IF i <= Len(u) THEN u[i] ELSE Blank

\* Writing an entry there
LEMMA DirPut ==
    ASSUME NEW S, NEW T, Named(S, T), NEW q \in Directories, NEW u, NEW m, Dir(u, m, q, S, T),
           NEW path \in Paths, Up(path) = q, NEW at, Fits(u, m, path, S, T, at),
           NEW e \in EntryUnit, e.name = Last(path), e.valid \/ path \in S,
           NEW S2, S2 = IF e.valid THEN S \cup {path} ELSE S \ {path},
           NEW T2, T2 = Entered(S, T, path, e), NEW w, Overlaid(u, at, e, w)
    PROVE  \E n : Dir(w, n, q, S2, T2)
<1>. DEFINE n == IF at = m + 1 THEN m + 1 ELSE m
<1>0. /\ w \in Seq(Unit) /\ Len(u) <= Len(w) /\ at <= Len(w)
      /\ \A i \in 1 .. Len(w) : w[i] = IF i = at THEN e ELSE IF i <= Len(u) THEN u[i] ELSE Blank
      /\ \A p \in S2 : T2[p] = IF p = path THEN e ELSE T[p]
  BY DEF Overlaid, Entered
<1>1. u \in Seq(Unit) /\ Len(u) \in Nat /\ m \in 0 .. Len(u) /\ Len(w) \in Nat
  BY <1>0 DEF Dir
<1>2. at \in 1 .. n /\ n \in 0 .. Len(w) /\ n >= m /\ (\A i \in 1 .. n : i # at => i \in 1 .. m)
  <2>1. at \in 1 .. m + 1 /\ m \in Nat
    BY <1>1 DEF Fits
  <2>. QED
    BY <1>0, <1>1, <2>1
<1>3. n \in Nat /\ \A i \in 1 .. n : i # at => i \in 1 .. m /\ w[i] = u[i]
  BY <1>0, <1>1, <1>2
<1>4. w[at] = e
  BY <1>0, <1>1, <1>2
<1>5. \A i \in n + 1 .. Len(w) : w[i] = Blank
  <2>. SUFFICES ASSUME NEW i \in n + 1 .. Len(w)
                PROVE  w[i] = Blank
    OBVIOUS
  <2>1. i \in 1 .. Len(w) /\ i # at /\ i \in m + 1 .. Len(w)
    BY <1>1, <1>2, <1>3
  <2>2. i <= Len(u) => i \in m + 1 .. Len(u)
    BY <1>1, <2>1
  <2>3. i <= Len(u) => u[i] = Blank
    BY <2>2 DEF Dir
  <2>. QED
    BY <1>0, <2>1, <2>3
<1>6. Sub(q, Last(path)) = path
  BY PathFacts
\* No other valid entry has the name
<1>7. ASSUME NEW i \in 1 .. m, i # at, u[i].valid
      PROVE  /\ Sub(q, u[i].name) \in S2 /\ u[i] = T2[Sub(q, u[i].name)]
             /\ u[i].name # Last(path)
  <2>1. Sub(q, u[i].name) \in S /\ u[i] = T[Sub(q, u[i].name)]
    BY <1>7 DEF Dir
  <2>2. u[i].name # Last(path)
    <3>1. SUFFICES ASSUME u[i].name = Last(path)
                   PROVE  FALSE
      OBVIOUS
    <3>2. path \in S
      BY <1>6, <2>1, <3>1
    <3>3. at \in 1 .. m /\ u[at] = T[path]
      BY <3>2 DEF Fits
    <3>4. u[at].valid /\ u[at].name = Last(path)
      BY <3>2, <3>3 DEF Named
    <3>. QED
      BY <1>7, <3>1, <3>3, <3>4 DEF Dir
  <2>3. Sub(q, u[i].name) # path
    BY <2>2, SubFacts
  <2>. QED
    BY <1>0, <2>1, <2>2, <2>3
<1>. HIDE DEF n
<1>8. ASSUME NEW i \in 1 .. n
      PROVE  /\ w[i] \in EntryUnit
             /\ w[i].valid => Sub(q, w[i].name) \in S2 /\ w[i] = T2[Sub(q, w[i].name)]
  <2>1. CASE i = at
    BY <1>0, <1>4, <1>6, <2>1
  <2>2. CASE i # at
    <3>1. i \in 1 .. m /\ w[i] = u[i]
      BY <1>3, <2>2
    <3>2. u[i] \in EntryUnit
      BY <3>1 DEF Dir
    <3>. QED
      BY <1>7, <2>2, <3>1, <3>2
  <2>. QED
    BY <2>1, <2>2
<1>9. ASSUME NEW i \in 1 .. n, NEW j \in 1 .. n, w[i].valid, w[j].valid, w[i].name = w[j].name
      PROVE  i = j
  <2>1. CASE i # at /\ j # at
    <3>1. i \in 1 .. m /\ j \in 1 .. m /\ w[i] = u[i] /\ w[j] = u[j]
      BY <1>3, <2>1
    <3>. QED
      BY <1>9, <3>1 DEF Dir
  <2>2. CASE i = at /\ j # at
    <3>1. j \in 1 .. m /\ w[j] = u[j] /\ w[i].name = Last(path)
      BY <1>3, <1>4, <2>2
    <3>. QED
      BY <1>7, <1>9, <2>2, <3>1
  <2>3. CASE i # at /\ j = at
    <3>1. i \in 1 .. m /\ w[i] = u[i] /\ w[j].name = Last(path)
      BY <1>3, <1>4, <2>3
    <3>. QED
      BY <1>7, <1>9, <2>3, <3>1
  <2>. QED
    BY <2>1, <2>2, <2>3
<1>10. ASSUME NEW p \in S2, Up(p) = q
       PROVE  \E i \in 1 .. n : w[i] = T2[p]
  <2>1. CASE p = path
    BY <1>0, <1>2, <1>4, <2>1
  <2>2. CASE p # path
    <3>1. p \in S /\ T2[p] = T[p]
      BY <1>0, <2>2
    <3>2. PICK i \in 1 .. m : u[i] = T[p]
      BY <1>10, <3>1 DEF Dir
    <3>3. i # at
      <4>1. SUFFICES ASSUME i = at
                     PROVE  FALSE
        OBVIOUS
      <4>2. u[at].valid /\ u[at].name = Last(p) /\ Sub(q, Last(p)) = p
        BY <1>10, <3>1, <3>2, <4>1, PathFacts DEF Named
      <4>3. CASE path \in S
        <5>1. u[at].name = Last(path)
          BY <4>3 DEF Fits, Named
        <5>. QED
          BY <1>6, <2>2, <4>2, <5>1
      <4>4. CASE path \notin S
        <5>1. at <= m
          BY <1>1, <4>1
        <5>. QED
          BY <4>2, <4>4, <5>1 DEF Fits
      <4>. QED
        BY <4>3, <4>4
    <3>4. i \in 1 .. n
      BY <1>1, <1>2, <1>3
    <3>. QED
      BY <1>3, <3>1, <3>2, <3>3, <3>4
  <2>. QED
    BY <2>1, <2>2
<1>. QED
  BY <1>0, <1>1, <1>2, <1>5, <1>8, <1>9, <1>10 DEF Dir

LEMMA PlaceIs ==
    ASSUME NEW c, NEW n \in Nat \ {0}, Len(c) = n, NEW at \in 1 .. Size(n) + 1, NEW dir
    PROVE  \E k \in 1 .. n, o \in 0 .. BlockUnits :
              Place(c, dir, at) = Positioned(dir, c[k], o) /\ At(k, o) + 1 = at
<1>1. BlockUnits \in Nat \ {0} /\ Size(n) = n * BlockUnits /\ Size(n) \in Nat
  BY FilesAssumption, Places DEF Size
<1>2. at - 1 \in Nat
  BY <1>1
<1>3. PICK q \in Nat, r \in 0 .. BlockUnits - 1 :
         /\ q = (at - 1) \div BlockUnits /\ r = (at - 1) % BlockUnits
         /\ at - 1 = q * BlockUnits + r
  <2>1. PICK a \in Nat : a = at - 1
    BY <1>2
  <2>2. /\ a \div BlockUnits \in Nat /\ a % BlockUnits \in 0 .. BlockUnits - 1
        /\ a = (a \div BlockUnits) * BlockUnits + (a % BlockUnits)
    BY <1>1, Division
  <2>. QED
    BY <2>1, <2>2, Zenon
<1>4. PICK k : k = Min({(at - 1) \div BlockUnits + 1, Len(c)})
  OBVIOUS
<1>5. k = Min({q + 1, n})
  BY <1>3, <1>4, Zenon
<1>6. k \in {q + 1, n} /\ k <= q + 1 /\ k <= n
  <2>1. {q + 1, n} \in SUBSET Nat /\ {q + 1, n} # {}
    BY <1>3
  <2>. QED
    BY <1>5, <2>1, MinOfNat
<1>7. PICK o : o = at - 1 - (k - 1) * BlockUnits
  OBVIOUS
<1>8. k \in 1 .. n
  BY <1>3, <1>6
<1>9. PICK j \in Nat : j = k - 1
  BY <1>8
<1>10. j * BlockUnits \in Nat /\ o = at - 1 - j * BlockUnits
  <2>1. j * BlockUnits \in Nat
    BY <1>1, Products
  <2>. QED
    BY <1>7, <1>9, <2>1, Zenon
<1>11. o \in 0 .. BlockUnits
  <2>1. CASE k = q + 1
    <3>1. j = q
      BY <1>3, <1>9, <2>1
    <3>2. at - 1 = j * BlockUnits + r
      BY <1>3, <3>1
    <3>. QED
      BY <1>1, <1>3, <1>10, <3>2
  <2>2. CASE k = n /\ k # q + 1
    <3>1. n <= q /\ n = j + 1
      BY <1>3, <1>6, <1>9, <2>2
    <3>2. n * BlockUnits <= q * BlockUnits /\ n * BlockUnits = j * BlockUnits + BlockUnits
      <4>1. n * BlockUnits <= q * BlockUnits
        BY <1>1, <3>1, Products
      <4>2. (j + 1) * BlockUnits = j * BlockUnits + BlockUnits
        BY <1>1
      <4>. QED
        BY <3>1, <4>1, <4>2, Zenon
    <3>3. q * BlockUnits \in Nat /\ n * BlockUnits \in Nat
      BY <1>1, Products
    <3>4. at - 1 <= n * BlockUnits /\ q * BlockUnits <= at - 1
      BY <1>1, <1>3, <3>3
    <3>. QED
      BY <1>1, <1>2, <1>10, <3>2, <3>3, <3>4
  <2>. QED
    BY <1>6, <2>1, <2>2
<1>12. At(k, o) + 1 = at
  <2>1. At(k, o) = j * BlockUnits + o
    BY <1>9, Zenon DEF At
  <2>. QED
    BY <1>1, <1>2, <1>10, <2>1
<1>13. Place(c, dir, at) = Positioned(dir, c[k], o)
  BY <1>4, <1>7, Zenon DEF Place, Positioned
<1>. QED
  BY <1>8, <1>11, <1>12, <1>13

\* The place r.dir says, for the entry of path
EntryPlace(d, C, S, T, path, place) ==
    \E m, k, o :
       /\ Dir(UnitsOf(d, C[Up(path)]), m, Up(path), S, T)
       /\ k \in 1 .. Len(C[Up(path)]) /\ o \in 0 .. BlockUnits
       /\ place \in File /\ place.block = C[Up(path)][k] /\ place.offset = o
       /\ Fits(UnitsOf(d, C[Up(path)]), m, path, S, T, At(k, o) + 1)

LEMMA FileFindIs ==
    ASSUME NEW d, NEW P, NEW C, NEW Own, Sound(d, P, C, Own), NEW S, NEW T, Named(S, T),
           NEW path \in Paths, Up(path) \in P, NEW m, Dir(UnitsOf(d, C[Up(path)]), m, Up(path), S, T),
           NEW dir \in File, dir.first = C[Up(path)][1]
    PROVE  /\ FileFind(d, dir, Last(path)).found <=> path \in S
           /\ FileFind(d, dir, Last(path)).found \in BOOLEAN
           /\ path \in S => FileFind(d, dir, Last(path)).entry = T[path]
           /\ EntryPlace(d, C, S, T, path, FileFind(d, dir, Last(path)).dir)
<1>. DEFINE c == C[Up(path)]
            u == UnitsOf(d, c)
            name == Last(path)
<1>1. Chain(d, dir.first) = c /\ Units(d, dir.first) = u
  BY UnitsAre
<1>2. Linked(d.next, c) /\ d \in Disk
  BY SoundFacts
<1>. HIDE DEF c
<1>3. /\ Len(c) \in Nat \ {0} /\ u \in Seq(Unit) /\ Len(u) = Size(Len(c))
      /\ \A k \in 1 .. Len(c) : c[k] \in Blocks
  BY <1>2, LinkedFacts, UnitsFacts
<1>. HIDE DEF u
<1>4. Dir(u, m, Up(path), S, T) /\ Up(path) \in Directories
  BY PathFacts DEF u, c
<1>5. PICK end : end = EndOf(u, name)
  OBVIOUS
<1>6. PICK at : at = EntryAt(u, end)
  OBVIOUS
<1>7. /\ end \in DOMAIN u /\ u[end] # Blank <=> path \in S
      /\ path \in S => u[end] = T[path]
      /\ Fits(u, m, path, S, T, at)
  BY <1>4, <1>5, <1>6, DirFind
<1>8. FileFind(d, dir, name) = FoundAt(c, u, dir, end)
  BY <1>1, <1>5, Zenon DEF FileFind, EndOf
<1>9. FoundAt(c, u, dir, end)
        = [found |-> end \in DOMAIN u /\ u[end] # Blank,
           entry |-> IF end \in DOMAIN u /\ u[end] # Blank THEN u[end] ELSE Blank,
           dir   |-> Place(c, dir, at)]
  <2>1. (IF end \in DOMAIN u /\ u[end] # Blank THEN end
         ELSE Min({i \in 1 .. end - 1 : ~ u[i].valid} \cup {end})) = at
    BY <1>6, Zenon DEF EntryAt
  <2>. QED
    BY <2>1, Zenon DEF FoundAt
<1>10. /\ FileFind(d, dir, name).found = (end \in DOMAIN u /\ u[end] # Blank)
       /\ FileFind(d, dir, name).entry = IF end \in DOMAIN u /\ u[end] # Blank THEN u[end] ELSE Blank
       /\ FileFind(d, dir, name).dir = Place(c, dir, at)
  <2>1. PICK found, entry, place : /\ found = (end \in DOMAIN u /\ u[end] # Blank)
                                   /\ entry = IF end \in DOMAIN u /\ u[end] # Blank THEN u[end] ELSE Blank
                                   /\ place = Place(c, dir, at)
    OBVIOUS
  <2>2. FileFind(d, dir, name) = [found |-> found, entry |-> entry, dir |-> place]
    BY <1>8, <1>9, <2>1, Zenon
  <2>3. /\ FileFind(d, dir, name).found = found /\ FileFind(d, dir, name).entry = entry
        /\ FileFind(d, dir, name).dir = place
    BY <2>2
  <2>. QED
    BY <2>1, <2>3, Zenon
<1>11. at \in 1 .. Size(Len(c)) + 1
  <2>1. m \in 0 .. Len(u) /\ Len(u) \in Nat
    BY <1>3, <1>4 DEF Dir
  <2>2. at \in 1 .. m + 1
    BY <1>7, <2>1 DEF Fits
  <2>. QED
    BY <1>3, <2>1, <2>2
<1>12. PICK k \in 1 .. Len(c), o \in 0 .. BlockUnits :
          Place(c, dir, at) = Positioned(dir, c[k], o) /\ At(k, o) + 1 = at
  BY <1>3, <1>11, PlaceIs, SMTT(60)
<1>13. /\ Positioned(dir, c[k], o) \in File /\ Positioned(dir, c[k], o).block = c[k]
       /\ Positioned(dir, c[k], o).offset = o
  BY <1>3 DEF File, Positioned
<1>14. EntryPlace(d, C, S, T, path, FileFind(d, dir, name).dir)
  <2>1. PICK place : place = FileFind(d, dir, name).dir
    OBVIOUS
  <2>2. place \in File /\ place.block = c[k] /\ place.offset = o
    BY <1>10, <1>12, <1>13, <2>1
  <2>. QED
    BY <1>4, <1>7, <1>12, <2>1, <2>2 DEF EntryPlace, c, u
<1>. QED
  BY <1>7, <1>10, <1>14

\* What the disk holds: the paths P have the chains C, those in S have the entries T
Holds(d, P, C, S, T) ==
    /\ <<>> \in P /\ P \subseteq Paths \cup {<<>>} /\ S \subseteq P \ {<<>>} /\ C[<<>>][1] = Root
    /\ Named(S, T)
    /\ \A p \in S : /\ T[p].block = C[p][1] /\ (T[p].dir <=> p = <<DirectoryName>>)
                    /\ T[p].length <= Size(Len(C[p]))
                    /\ p = <<DirectoryName>> => T[p].length = 0
    /\ \A p \in P : Len(p) = 2 => <<DirectoryName>> \in S
    /\ \A q \in P \cap Directories : \E m : Dir(UnitsOf(d, C[q]), m, q, S, T)

LEMMA RootIs ==
    /\ RootDirectory \in File /\ RootDirectory.first = Root
    /\ \A p \in Paths, b \in Blocks, n \in Nat, i \in BOOLEAN :
          /\ Opened(p, b, n, i) \in File /\ Opened(p, b, n, i).first = b
<1>1. Root \in Blocks /\ 0 \in 0 .. BlockUnits /\ <<>> \in Seq(Unit) /\ 0 \in Nat
  BY FilesAssumption
<1>. QED
  BY <1>1 DEF RootDirectory, Opened, File

LEMMA FindIs ==
    ASSUME NEW d, NEW P, NEW C, NEW Own, Sound(d, P, C, Own), NEW S, NEW T, Holds(d, P, C, S, T),
           NEW path \in Paths
    PROVE  LET r == FileFindRecursive(d, path) IN
           /\ path \in S => r.rc = 0 /\ r.entry = T[path] /\ Up(path) \in P
           /\ path \notin S => r.rc = IF Up(path) \in P /\ Up(path) \in S \cup {<<>>} THEN -1 ELSE -2
           /\ Up(path) \in S \cup {<<>>} => EntryPlace(d, C, S, T, path, r.dir)
<1>. DEFINE r == FileFindRecursive(d, path)
            first == FileFind(d, RootDirectory, path[1])
            below == FindBelow(d, first, path)
<1>1. /\ <<>> \in P /\ S \subseteq P /\ C[<<>>][1] = Root /\ Named(S, T) /\ <<>> \in Directories
      /\ <<DirectoryName>> \in Directories /\ S \subseteq Paths
      /\ \A p \in S : T[p].block = C[p][1] /\ (Len(p) = 2 => <<DirectoryName>> \in S)
      /\ \A q \in P \cap Directories : \E m : Dir(UnitsOf(d, C[q]), m, q, S, T)
  BY DEF Holds, Directories, Named
<1>2. /\ r.entry = below.entry /\ r.dir = below.dir
      /\ r.rc = IF ~ first.found /\ Len(path) > 1 THEN -2 ELSE IF below.found THEN 0 ELSE -1
  BY DEF FileFindRecursive
<1>3. CASE Len(path) = 1
  <2>1. path[1] = Last(path) /\ Up(path) = <<>>
    BY <1>3, PathFacts DEF Up
  <2>2. below = first
    BY <1>3 DEF FindBelow
  <2>3. PICK m : Dir(UnitsOf(d, C[<<>>]), m, <<>>, S, T)
    BY <1>1
  <2>4. /\ first.found <=> path \in S
        /\ path \in S => first.entry = T[path]
        /\ EntryPlace(d, C, S, T, path, first.dir)
    BY <1>1, <2>1, <2>3, RootIs, FileFindIs
  <2>. HIDE DEF r, first, below
  <2>. QED
    BY <1>1, <1>2, <1>3, <2>1, <2>2, <2>4 DEF r
<1>4. CASE Len(path) # 1
  <2>. DEFINE dn == <<DirectoryName>>
  <2>1. /\ Len(path) = 2 /\ path[1] = DirectoryName /\ path[2] = Last(path) /\ Up(path) = dn
        /\ dn \in Paths /\ Last(dn) = DirectoryName /\ Up(dn) = <<>> /\ dn # <<>>
    BY <1>4, PathFacts DEF Up
  <2>2. PICK m : Dir(UnitsOf(d, C[<<>>]), m, <<>>, S, T)
    BY <1>1
  <2>3. /\ first.found <=> dn \in S
        /\ dn \in S => first.entry = T[dn]
    <3>1. first = FileFind(d, RootDirectory, Last(dn))
      BY <2>1
    <3>. HIDE DEF dn, first
    <3>2. Dir(UnitsOf(d, C[Up(dn)]), m, Up(dn), S, T) /\ RootDirectory.first = C[Up(dn)][1] /\ Up(dn) \in P
      BY <1>1, <2>1, <2>2, RootIs
    <3>. QED
      BY <1>1, <2>1, <3>1, <3>2, RootIs, FileFindIs
  <2>4. CASE dn \notin S
    <3>1. r.rc = -2 /\ path \notin S
      <4>. HIDE DEF r, first, below
      <4>. QED
        BY <1>1, <1>2, <2>1, <2>3, <2>4
    <3>. QED
      BY <2>1, <2>4, <3>1
  <2>5. CASE dn \in S
    <3>1. T[dn] \in EntryUnit /\ T[dn].block = C[dn][1] /\ dn \in P /\ dn \in Directories
      BY <1>1, <2>5 DEF Named
    <3>2. PICK dir : dir = Opened(<<path[1]>>, first.entry.block, first.entry.length, TRUE)
      OBVIOUS
    <3>3. dir \in File /\ dir.first = C[dn][1]
      <4>1. dir = Opened(dn, C[dn][1], T[dn].length, TRUE)
        BY <2>1, <2>3, <2>5, <3>1, <3>2
      <4>2. C[dn][1] \in Blocks /\ T[dn].length \in Nat
        BY <3>1, SoundFacts, Kinds
      <4>. QED
        BY <2>1, <4>1, <4>2, RootIs
    <3>4. PICK n : Dir(UnitsOf(d, C[dn]), n, dn, S, T)
      BY <1>1, <3>1
    <3>. DEFINE s == FileFind(d, dir, Last(path))
    <3>5. /\ s.found <=> path \in S
          /\ path \in S => s.entry = T[path]
          /\ EntryPlace(d, C, S, T, path, s.dir)
      <4>. HIDE DEF dn, s
      <4>1. Dir(UnitsOf(d, C[Up(path)]), n, Up(path), S, T) /\ dir.first = C[Up(path)][1] /\ Up(path) \in P
        BY <2>1, <3>1, <3>3, <3>4
      <4>. QED
        <5>1. s = FileFind(d, dir, Last(path))
          BY DEF s
        <5>2. Named(S, T) /\ dir \in File
          BY <1>1, <3>3
        <5>. QED
          BY <4>1, <5>1, <5>2, FileFindIs
    <3>6. below = s
      BY <1>4, <2>1, <2>3, <2>5, <3>2, Zenon DEF FindBelow
    <3>. HIDE DEF r, first, below, s, dn
    <3>. QED
      BY <1>1, <1>2, <2>1, <2>3, <2>5, <3>1, <3>5, <3>6 DEF r
  <2>. QED
    BY <2>4, <2>5
<1>. QED
  BY <1>3, <1>4

-----------------------------------------------------------------------------
(* What the calls do to what the disk holds *)

\* Files keep their blocks and units, and everything its first block
Kept(d, C, e, D, P) ==
    \A p \in P : /\ D[p][1] = C[p][1] /\ Size(Len(C[p])) <= Size(Len(D[p]))
                 /\ p \notin Directories => D[p] = C[p] /\ UnitsOf(e, D[p]) = UnitsOf(d, C[p])

LEMMA EnteredNamed ==
    ASSUME NEW S, NEW T, Named(S, T), NEW path \in Paths, NEW e \in EntryUnit, e.name = Last(path)
    PROVE  Named(IF e.valid THEN S \cup {path} ELSE S \ {path}, Entered(S, T, path, e))
<1>. DEFINE S2 == IF e.valid THEN S \cup {path} ELSE S \ {path}
            T2 == Entered(S, T, path, e)
<1>1. \A p \in S2 : T2[p] = (IF p = path THEN e ELSE T[p]) /\ (p = path \/ p \in S) /\ (p = path => e.valid)
  BY DEF Entered
<1>2. T2 = [p \in S2 |-> T2[p]]
  BY DEF Entered
<1>. HIDE DEF T2
<1>3. \A p \in S2 : T2[p] \in EntryUnit /\ T2[p].name = Last(p) /\ T2[p].valid
  BY <1>1 DEF Named
<1>4. S2 \subseteq Paths
  BY DEF Named
<1>5. T2 \in [S2 -> EntryUnit]
  BY <1>2, <1>3
<1>. HIDE DEF S2
<1>6. Named(S2, T2)
  BY <1>3, <1>4, <1>5 DEF Named
<1>. QED
  BY <1>6 DEF S2, T2

\* An entry in one directory leaves the other
LEMMA DirSame ==
    ASSUME NEW S, NEW T, NEW S2, NEW T2, NEW path, NEW q \in Directories, Up(path) # q,
           NEW u, NEW m, Dir(u, m, q, S, T),
           \A p : p # path => (p \in S2 <=> p \in S),
           \A p \in S : p # path => T2[p] = T[p]
    PROVE  Dir(u, m, q, S2, T2)
<1>1. \A n : Sub(q, n) # path
  BY SubFacts
<1>2. \A i \in 1 .. m : u[i].valid => Sub(q, u[i].name) \in S2 /\ u[i] = T2[Sub(q, u[i].name)]
  BY <1>1 DEF Dir
<1>3. \A p \in S2 : Up(p) = q => \E i \in 1 .. m : u[i] = T2[p]
  BY DEF Dir
<1>. QED
  BY <1>2, <1>3 DEF Dir

\* Each directory has the entries of its files
Listed(d, P, C, S, T) == \A q \in P \cap Directories : \E m : Dir(UnitsOf(d, C[q]), m, q, S, T)

LEMMA EntryPut ==
    ASSUME NEW d, NEW P, NEW C, NEW Own, Sound(d, P, C, Own), NEW S, NEW T, Named(S, T),
           NEW path \in Paths, Up(path) \in P,
           NEW place, EntryPlace(d, C, S, T, path, place),
           Listed(d, P, C, S, T),
           NEW unit \in EntryUnit, unit.name = Last(path), unit.valid \/ path \in S,
           NEW S2, S2 = IF unit.valid THEN S \cup {path} ELSE S \ {path},
           NEW e, e = Put(d, place, unit).d
    PROVE  \/ e.defect = "overrun" /\ e \in Disk
           \/ \E D, O : /\ Sound(e, P, D, O) /\ Kept(d, C, e, D, P)
                        /\ Listed(e, P, D, S2, Entered(S, T, path, unit))
<1>. DEFINE q0 == Up(path)
            c == C[q0]
            u == UnitsOf(d, c)
            T2 == Entered(S, T, path, unit)
<1>1. PICK m, k, o :
         /\ Dir(u, m, q0, S, T) /\ k \in 1 .. Len(c) /\ o \in 0 .. BlockUnits
         /\ place \in File /\ place.block = c[k] /\ place.offset = o
         /\ Fits(u, m, path, S, T, At(k, o) + 1)
  BY DEF EntryPlace
<1>2. unit \in Unit
  BY DEF Unit
<1>3. SUFFICES ASSUME ~ (e.defect = "overrun" /\ e \in Disk)
               PROVE  \E D, O : Sound(e, P, D, O) /\ Kept(d, C, e, D, P) /\ Listed(e, P, D, S2, T2)
  OBVIOUS
<1>4. PICK D, O : Written(d, P, C, q0, At(k, o), unit, e, D, O)
  <2>1. PutIs(d, P, C, q0, At(k, o), unit, place, Put(d, place, unit))
    BY <1>1, <1>2, <1>3, PutEffect
  <2>. QED
    BY <2>1 DEF PutIs
<1>5. /\ Sound(e, P, D, O)
      /\ \A q \in P \ {q0} : D[q] = C[q] /\ UnitsOf(e, D[q]) = UnitsOf(d, C[q])
      /\ D[q0][1] = C[q0][1] /\ Size(Len(C[q0])) <= Size(Len(D[q0])) /\ At(k, o) + 1 <= Size(Len(D[q0]))
      /\ \A i \in 1 .. Size(Len(D[q0])) :
            UnitsOf(e, D[q0])[i] = IF i = At(k, o) + 1 THEN unit
                                   ELSE IF i <= Size(Len(C[q0])) THEN UnitsOf(d, C[q0])[i] ELSE Blank
  BY <1>4, Zenon DEF Written
<1>6. Linked(d.next, C[q0]) /\ Linked(e.next, D[q0]) /\ d \in Disk /\ e \in Disk
      /\ \A q \in P : Linked(d.next, C[q])
  BY <1>5, SoundFacts
<1>7. /\ Len(u) = Size(Len(C[q0])) /\ UnitsOf(e, D[q0]) \in Seq(Unit)
      /\ Len(UnitsOf(e, D[q0])) = Size(Len(D[q0]))
  BY <1>6, UnitsFacts
<1>8. q0 \in Directories
  BY PathFacts
<1>9. \A p \in S2 : T2[p] = IF p = path THEN unit ELSE T[p]
  BY DEF Entered
<1>10. \E n : Dir(UnitsOf(e, D[q0]), n, q0, S2, T2)
  <2>. DEFINE w == UnitsOf(e, D[q0])
              at == At(k, o) + 1
  <2>1. Overlaid(u, at, unit, w)
    BY <1>5, <1>7 DEF Overlaid
  <2>2. Dir(u, m, q0, S, T) /\ Fits(u, m, path, S, T, at)
    BY <1>1
  <2>. HIDE DEF w, at, u, q0, T2
  <2>3. Up(path) = q0
    BY DEF q0
  <2>. QED
    <3>1. T2 = Entered(S, T, path, unit)
      BY DEF T2
    <3>2. \E n : Dir(w, n, q0, S2, T2)
      BY <1>8, <2>1, <2>2, <2>3, <3>1, DirPut
    <3>. QED
      BY <3>2 DEF w
<1>11. ASSUME NEW q \in P \cap Directories, q # q0
       PROVE  \E n : Dir(UnitsOf(e, D[q]), n, q, S2, T2)
  <2>1. PICK n : Dir(UnitsOf(d, C[q]), n, q, S, T)
    BY DEF Listed
  <2>2. UnitsOf(e, D[q]) = UnitsOf(d, C[q])
    BY <1>5, <1>11
  <2>3. /\ \A p : p # path => (p \in S2 <=> p \in S)
        /\ \A p \in S : p # path => T2[p] = T[p]
    BY <1>9
  <2>4. Dir(UnitsOf(d, C[q]), n, q, S2, T2)
    <3>. HIDE DEF T2
    <3>. QED
      BY <1>11, <2>1, <2>3, DirSame
  <2>. QED
    BY <2>2, <2>4
<1>12. Kept(d, C, e, D, P)
  <2>1. \A p \in P : Size(Len(C[p])) \in Nat
    BY <1>6, UnitsFacts
  <2>. QED
    BY <1>5, <1>8, <2>1 DEF Kept
<1>13. \A q \in P \cap Directories : \E n : Dir(UnitsOf(e, D[q]), n, q, S2, T2)
  BY <1>10, <1>11
<1>. QED
  BY <1>5, <1>12, <1>13 DEF Listed

LEMMA HoldsFacts ==
    ASSUME NEW d, NEW P, NEW C, NEW Own, Sound(d, P, C, Own), NEW S, NEW T, Holds(d, P, C, S, T)
    PROVE  /\ <<>> \in P /\ P \subseteq Paths \cup {<<>>} /\ S \subseteq P /\ S \subseteq Paths
           /\ C[<<>>][1] = Root /\ Named(S, T)
           /\ \A p \in S : /\ T[p] \in EntryUnit /\ T[p].block = C[p][1]
                           /\ (T[p].dir <=> p = <<DirectoryName>>)
                           /\ T[p].length \in Nat /\ T[p].length <= Size(Len(C[p]))
                           /\ p = <<DirectoryName>> => T[p].length = 0
           /\ \A p \in P : Size(Len(C[p])) \in Nat \ {0}
           /\ \A p \in P : Len(p) = 2 => <<DirectoryName>> \in S
           /\ \A p \in P \cap Paths : Up(p) \in S \cup {<<>>} /\ Up(p) \in P /\ Up(p) # p
           /\ \A q \in P \cap Directories : \E m : Dir(UnitsOf(d, C[q]), m, q, S, T)
<1>1. /\ <<>> \in P /\ P \subseteq Paths \cup {<<>>} /\ S \subseteq P /\ S \subseteq Paths
      /\ C[<<>>][1] = Root /\ Named(S, T)
      /\ \A p \in P : Len(p) = 2 => <<DirectoryName>> \in S
  BY DEF Holds
<1>2. \A p \in S : T[p] \in EntryUnit /\ T[p].length \in Nat
  BY <1>1, Kinds DEF Named
<1>3. ASSUME NEW p \in P
      PROVE  Size(Len(C[p])) \in Nat \ {0}
  <2>1. Linked(d.next, C[p]) /\ d \in Disk
    BY SoundFacts
  <2>. QED
    BY <2>1, UnitsFacts
<1>4. ASSUME NEW p \in P \cap Paths
      PROVE  Up(p) \in S \cup {<<>>} /\ Up(p) \in P /\ Up(p) # p
  <2>1. CASE Len(p) = 1
    BY <1>1, <2>1, PathFacts DEF Up
  <2>2. CASE Len(p) # 1
    <3>1. Len(p) = 2 /\ Up(p) = <<DirectoryName>> /\ Up(p) # p
      BY <2>2, PathFacts DEF Up
    <3>. QED
      BY <1>1, <3>1
  <2>. QED
    BY <2>1, <2>2
<1>. QED
  BY <1>1, <1>2, <1>3, <1>4 DEF Holds

\* OS_fclose gives a file its entry
LEMMA StoreClose ==
    ASSUME NEW d, NEW P, NEW C, NEW Own, Sound(d, P, C, Own), NEW S, NEW T, Holds(d, P, C, S, T),
           NEW path \in P \cap Paths, NEW unit \in EntryUnit, unit.name = Last(path), unit.valid,
           unit.block = C[path][1], unit.dir <=> path = <<DirectoryName>>,
           unit.length <= Size(Len(C[path])), path = <<DirectoryName>> => unit.length = 0,
           NEW e, e = Put(d, FileFindRecursive(d, path).dir, unit).d
    PROVE  \/ e.defect = "overrun"
           \/ \E D, O : /\ Sound(e, P, D, O) /\ Kept(d, C, e, D, P)
                        /\ Holds(e, P, D, S \cup {path}, Entered(S, T, path, unit))
<1>. DEFINE S2 == S \cup {path}
            T2 == Entered(S, T, path, unit)
<1>1. /\ <<>> \in P /\ P \subseteq Paths \cup {<<>>} /\ S \subseteq P /\ S \subseteq Paths
      /\ C[<<>>][1] = Root /\ Named(S, T)
      /\ \A p \in S : /\ T[p] \in EntryUnit /\ T[p].block = C[p][1]
                      /\ (T[p].dir <=> p = <<DirectoryName>>)
                      /\ T[p].length \in Nat /\ T[p].length <= Size(Len(C[p]))
                      /\ p = <<DirectoryName>> => T[p].length = 0
      /\ \A p \in P : Size(Len(C[p])) \in Nat \ {0}
      /\ \A p \in P : Len(p) = 2 => <<DirectoryName>> \in S
      /\ Up(path) \in S \cup {<<>>} /\ Up(path) \in P
      /\ \A q \in P \cap Directories : \E m : Dir(UnitsOf(d, C[q]), m, q, S, T)
  BY HoldsFacts
<1>2. EntryPlace(d, C, S, T, path, FileFindRecursive(d, path).dir)
  BY <1>1, FindIs
<1>3. S2 = IF unit.valid THEN S \cup {path} ELSE S \ {path}
  OBVIOUS
<1>4. SUFFICES ASSUME e.defect # "overrun"
               PROVE  \E D, O : Sound(e, P, D, O) /\ Kept(d, C, e, D, P) /\ Holds(e, P, D, S2, T2)
  OBVIOUS
<1>. HIDE DEF S2, T2
<1>5. PICK D, O : Sound(e, P, D, O) /\ Kept(d, C, e, D, P) /\ Listed(e, P, D, S2, T2)
  <2>1. Listed(d, P, C, S, T)
    BY <1>1 DEF Listed
  <2>. QED
    BY <1>1, <1>2, <1>3, <1>4, <2>1, EntryPut DEF T2
<1>6. Named(S2, T2)
  BY <1>1, <1>3, EnteredNamed DEF T2
<1>7. \A p \in S2 : p \in P /\ T2[p] = IF p = path THEN unit ELSE T[p]
  BY <1>1 DEF S2, T2, Entered
<1>8. \A p \in P : /\ D[p][1] = C[p][1] /\ Size(Len(C[p])) <= Size(Len(D[p])) /\ Size(Len(D[p])) \in Nat
  <2>1. \A p \in P : Size(Len(D[p])) \in Nat
    <3>. SUFFICES ASSUME NEW p \in P
                  PROVE  Size(Len(D[p])) \in Nat
      OBVIOUS
    <3>1. Linked(e.next, D[p]) /\ e \in Disk
      BY <1>5, SoundFacts
    <3>. QED
      BY <3>1, UnitsFacts
  <2>. QED
    BY <1>5, <2>1 DEF Kept
<1>9. ASSUME NEW p \in S2
      PROVE  /\ T2[p].block = D[p][1] /\ (T2[p].dir <=> p = <<DirectoryName>>)
             /\ T2[p].length <= Size(Len(D[p]))
             /\ p = <<DirectoryName>> => T2[p].length = 0
  <2>1. p \in P /\ D[p][1] = C[p][1] /\ Size(Len(C[p])) <= Size(Len(D[p]))
        /\ Size(Len(D[p])) \in Nat /\ Size(Len(C[p])) \in Nat
    BY <1>1, <1>7, <1>8
  <2>2. CASE p = path
    <3>1. T2[p] = unit /\ unit.length \in Nat
      BY <1>7, <2>2, Kinds
    <3>. QED
      BY <2>1, <2>2, <3>1
  <2>3. CASE p # path
    <3>1. p \in S /\ T2[p] = T[p]
      BY <1>7, <2>3 DEF S2
    <3>. QED
      BY <1>1, <2>1, <3>1
  <2>. QED
    BY <2>2, <2>3
<1>10. S2 \subseteq P \ {<<>>} /\ (<<DirectoryName>> \in S => <<DirectoryName>> \in S2)
  <2>1. path # <<>> /\ \A p \in S : p # <<>>
    BY <1>1, PathFacts
  <2>. QED
    BY <1>1, <2>1 DEF S2
<1>11. Holds(e, P, D, S2, T2)
  BY <1>1, <1>5, <1>6, <1>8, <1>9, <1>10 DEF Holds, Listed
<1>. QED
  BY <1>5, <1>11

\* OS_fdelete frees the blocks and makes the entry invalid
Deleted(d, P, C, S, T, path, e, D, O, T2) ==
    /\ Sound(e, P \ {path}, D, O) /\ Kept(d, C, e, D, P \ {path})
    /\ Holds(e, P \ {path}, D, S \ {path}, T2)
    /\ \A p \in S \ {path} : T2[p] = T[p]

LEMMA StoreDelete ==
    ASSUME NEW d, NEW P, NEW C, NEW Own, Sound(d, P, C, Own), NEW S, NEW T, Holds(d, P, C, S, T),
           NEW path \in S, path = <<DirectoryName>> => \A p \in P : Len(p) # 2,
           NEW e, e = OS_fdelete(d, path)
    PROVE  \/ e.defect = "overrun" /\ e \in Disk
           \/ \E D, O, T2 : Deleted(d, P, C, S, T, path, e, D, O, T2)
<1>. DEFINE Q == P \ {path}
            S2 == S \ {path}
            unit == [T[path] EXCEPT !.valid = FALSE]
            T2 == Entered(S, T, path, unit)
            r == FileFindRecursive(d, path)
            f == [d EXCEPT !.free = @ \cup Range(C[path])]
<1>1. /\ <<>> \in P /\ P \subseteq Paths \cup {<<>>} /\ S \subseteq P /\ S \subseteq Paths
      /\ C[<<>>][1] = Root /\ Named(S, T)
      /\ \A p \in S : /\ T[p] \in EntryUnit /\ T[p].block = C[p][1]
                      /\ (T[p].dir <=> p = <<DirectoryName>>)
                      /\ T[p].length \in Nat /\ T[p].length <= Size(Len(C[p]))
                      /\ p = <<DirectoryName>> => T[p].length = 0
      /\ \A p \in P : Size(Len(C[p])) \in Nat \ {0}
      /\ \A p \in P : Len(p) = 2 => <<DirectoryName>> \in S
      /\ Up(path) \in S \cup {<<>>} /\ Up(path) \in P /\ Up(path) # path
      /\ \A q \in P \cap Directories : \E m : Dir(UnitsOf(d, C[q]), m, q, S, T)
  BY HoldsFacts
<1>2. r.rc = 0 /\ r.entry = T[path] /\ EntryPlace(d, C, S, T, path, r.dir)
  <2>1. path \in Paths
    BY <1>1
  <2>. QED
    BY <1>1, <2>1, FindIs
<1>3. e = Put(f, r.dir, unit).d
  <2>1. Chain(d, T[path].block) = C[path] /\ ToSet(C[path]) = Range(C[path])
    <3>1. Chain(d, C[path][1]) = C[path]
      BY <1>1, SoundFacts
    <3>2. ToSet(C[path]) = Range(C[path])
      BY DEF ToSet, Range
    <3>. QED
      BY <1>1, <3>1, <3>2
  <2>. HIDE DEF r, f, unit
  <2>2. e = DeleteFound(d, r)
    BY DEF OS_fdelete, r
  <2>3. DeleteFound(d, r) = Put(f, r.dir, unit).d
    BY <1>2, <2>1 DEF DeleteFound, f, unit
  <2>. QED
    BY <2>2, <2>3
<1>. HIDE DEF r, f
<1>4. PICK D1, O1 : Released(d, P, C, path, f, D1, O1)
  BY <1>1, SoundFree DEF f
<1>5. /\ Sound(f, Q, D1, O1)
      /\ \A q \in Q : D1[q] = C[q] /\ UnitsOf(f, D1[q]) = UnitsOf(d, C[q])
  BY <1>4 DEF Released
<1>6. unit \in EntryUnit /\ unit.name = Last(path) /\ unit.valid = FALSE
  <2>1. T[path] \in EntryUnit /\ T[path].name = Last(path)
    BY DEF Named, Holds
  <2>. QED
    BY <2>1 DEF EntryUnit
<1>. HIDE DEF unit, Q
<1>7. /\ Up(path) \in Q /\ <<>> \in Q /\ \A p \in Q : p \in P /\ p # path
  <2>1. path # <<>>
    BY <1>1, PathFacts
  <2>. QED
    BY <1>1, <2>1 DEF Q
<1>8. EntryPlace(f, D1, S, T, path, r.dir)
  <2>1. D1[Up(path)] = C[Up(path)] /\ UnitsOf(f, D1[Up(path)]) = UnitsOf(d, C[Up(path)])
    BY <1>5, <1>7
  <2>. QED
    BY <1>2, <2>1 DEF EntryPlace
<1>9. Listed(f, Q, D1, S, T)
  BY <1>1, <1>5, <1>7 DEF Listed
<1>10. S2 = IF unit.valid THEN S \cup {path} ELSE S \ {path}
  BY <1>6
<1>11. SUFFICES ASSUME ~ (e.defect = "overrun" /\ e \in Disk)
                PROVE  \E D, O : Deleted(d, P, C, S, T, path, e, D, O, T2)
  BY Zenon
<1>. HIDE DEF S2, T2
<1>12. PICK D, O : Sound(e, Q, D, O) /\ Kept(f, D1, e, D, Q) /\ Listed(e, Q, D, S2, T2)
  <2>1. path \in Paths
    BY <1>1
  <2>. QED
    BY <1>1, <1>3, <1>5, <1>6, <1>7, <1>8, <1>9, <1>10, <1>11, <2>1, EntryPut DEF T2
<1>13. Kept(d, C, e, D, Q)
  BY <1>5, <1>12 DEF Kept
<1>14. Named(S2, T2) /\ \A p \in S2 : p \in S /\ p # path /\ p \in Q /\ T2[p] = T[p]
  <2>1. path \in Paths
    BY <1>1
  <2>2. Named(S2, T2)
    BY <1>1, <1>6, <1>10, <2>1, EnteredNamed DEF T2
  <2>3. \A p \in S2 : p \in S /\ p # path /\ T2[p] = T[p]
    BY <1>6 DEF S2, T2, Entered
  <2>. QED
    BY <1>1, <2>2, <2>3 DEF Q
<1>15. ASSUME NEW p \in S2
       PROVE  /\ T2[p].block = D[p][1] /\ (T2[p].dir <=> p = <<DirectoryName>>)
              /\ T2[p].length <= Size(Len(D[p]))
              /\ p = <<DirectoryName>> => T2[p].length = 0
  <2>1. p \in S /\ p \in P /\ p \in Q /\ T2[p] = T[p]
    BY <1>1, <1>14
  <2>2. D[p][1] = C[p][1] /\ Size(Len(C[p])) <= Size(Len(D[p])) /\ Size(Len(C[p])) \in Nat
    BY <1>1, <1>13, <2>1 DEF Kept
  <2>3. Size(Len(D[p])) \in Nat
    <3>1. Linked(e.next, D[p]) /\ e \in Disk
      BY <1>12, <2>1, SoundFacts
    <3>. QED
      BY <3>1, UnitsFacts
  <2>. QED
    BY <1>1, <2>1, <2>2, <2>3
<1>16. \A p \in Q : Len(p) = 2 => <<DirectoryName>> \in S2
  BY <1>1, <1>7 DEF S2
<1>17. S2 \subseteq Q \ {<<>>} /\ Q \subseteq Paths \cup {<<>>} /\ D[<<>>][1] = Root
  <2>1. \A p \in S : p # <<>>
    BY <1>1, PathFacts
  <2>2. D[<<>>][1] = C[<<>>][1]
    BY <1>7, <1>13 DEF Kept
  <2>. QED
    BY <1>1, <1>7, <1>14, <2>1, <2>2
<1>18. Holds(e, Q, D, S2, T2)
  BY <1>7, <1>12, <1>14, <1>15, <1>16, <1>17 DEF Holds, Listed
<1>. QED
  BY <1>12, <1>13, <1>14, <1>18 DEF Deleted, Q, S2

\* A new file or directory has a block, and no entry yet
LEMMA StoreNew ==
    ASSUME NEW d, NEW P, NEW C, NEW Own, Sound(d, P, C, Own), NEW S, NEW T, Holds(d, P, C, S, T),
           NEW path \in Paths, path \notin P, Len(path) = 2 => <<DirectoryName>> \in S,
           NEW e, NEW b, NewIn(d, EOF, e, b)
    PROVE  \E D, O : /\ Sound(e, P \cup {path}, D, O) /\ Kept(d, C, e, D, P)
                     /\ Holds(e, P \cup {path}, D, S, T) /\ D[path][1] = b
<1>. DEFINE Q == P \cup {path}
<1>1. /\ <<>> \in P /\ P \subseteq Paths \cup {<<>>} /\ S \subseteq P /\ S \subseteq Paths
      /\ C[<<>>][1] = Root /\ Named(S, T)
      /\ \A p \in S : /\ T[p] \in EntryUnit /\ T[p].block = C[p][1]
                      /\ (T[p].dir <=> p = <<DirectoryName>>)
                      /\ T[p].length \in Nat /\ T[p].length <= Size(Len(C[p]))
                      /\ p = <<DirectoryName>> => T[p].length = 0
      /\ \A p \in P : Size(Len(C[p])) \in Nat \ {0}
      /\ \A p \in P : Len(p) = 2 => <<DirectoryName>> \in S
      /\ \A q \in P \cap Directories : \E m : Dir(UnitsOf(d, C[q]), m, q, S, T)
  BY HoldsFacts
<1>2. PICK D, O : Added(d, P, C, path, b, e, D, O)
  <2>1. path # Nobody
    BY PathFacts
  <2>. QED
    BY <2>1, SoundNew
<1>3. /\ Sound(e, Q, D, O) /\ D[path] = <<b>> /\ UnitsOf(e, D[path]) = [i \in 1 .. Size(1) |-> Blank]
      /\ \A q \in P : D[q] = C[q] /\ UnitsOf(e, D[q]) = UnitsOf(d, C[q])
  BY <1>2, Zenon DEF Added
<1>4. Kept(d, C, e, D, P)
  BY <1>1, <1>3 DEF Kept
<1>5. ASSUME NEW q \in Q \cap Directories
      PROVE  \E m : Dir(UnitsOf(e, D[q]), m, q, S, T)
  <2>1. CASE q \in P
    BY <1>1, <1>3, <2>1
  <2>2. CASE q \notin P
    <3>1. q = path /\ q = <<DirectoryName>>
      BY <1>1, <2>2 DEF Directories
    <3>2. \A p \in S : Up(p) # q
      <4>. SUFFICES ASSUME NEW p \in S, Up(p) = q
                    PROVE  FALSE
        OBVIOUS
      <4>1. p \in Paths /\ Len(p) # 1
        BY <1>1, <3>1 DEF Up
      <4>2. Len(p) = 2
        BY <4>1, PathFacts
      <4>. QED
        BY <1>1, <2>2, <3>1, <4>2
    <3>. DEFINE u == UnitsOf(e, D[q])
    <3>3. u \in Seq(Unit) /\ Len(u) \in Nat /\ \A i \in 1 .. Len(u) : u[i] = Blank
      <4>1. Linked(e.next, D[q]) /\ e \in Disk
        BY <1>3, SoundFacts
      <4>2. u \in Seq(Unit) /\ Size(1) \in Nat
        BY <4>1, UnitsFacts, Places
      <4>3. u = [i \in 1 .. Size(1) |-> Blank]
        BY <1>3, <3>1
      <4>. HIDE DEF u
      <4>. QED
        BY <4>2, <4>3
    <3>. HIDE DEF u
    <3>4. Dir(u, 0, q, S, T)
      BY <3>2, <3>3 DEF Dir
    <3>. QED
      BY <3>4 DEF u
  <2>. QED
    BY <2>1, <2>2
<1>6. S \subseteq Q \ {<<>>} /\ Q \subseteq Paths \cup {<<>>} /\ D[<<>>][1] = Root
  <2>1. \A p \in S : p # <<>>
    BY <1>1, PathFacts
  <2>. QED
    BY <1>1, <1>3, <2>1
<1>7. \A p \in S : /\ T[p].block = D[p][1] /\ (T[p].dir <=> p = <<DirectoryName>>)
                   /\ T[p].length <= Size(Len(D[p]))
                   /\ p = <<DirectoryName>> => T[p].length = 0
  BY <1>1, <1>3
<1>8. Holds(e, Q, D, S, T)
  BY <1>1, <1>5, <1>6, <1>7 DEF Holds
<1>9. D[path][1] = b
  BY <1>3
<1>. QED
  BY <1>3, <1>4, <1>8, <1>9

\* What is written to a file changes nothing in the directories
LEMMA StoreWrite ==
    ASSUME NEW d, NEW P, NEW C, NEW Own, Sound(d, P, C, Own), NEW S, NEW T, Holds(d, P, C, S, T),
           NEW path \in P, path \notin Directories, NEW at, NEW unit, NEW e, NEW D, NEW O,
           Written(d, P, C, path, at, unit, e, D, O)
    PROVE  Holds(e, P, D, S, T)
<1>1. /\ <<>> \in P /\ P \subseteq Paths \cup {<<>>} /\ S \subseteq P /\ S \subseteq Paths
      /\ C[<<>>][1] = Root /\ Named(S, T)
      /\ \A p \in S : /\ T[p] \in EntryUnit /\ T[p].block = C[p][1]
                      /\ (T[p].dir <=> p = <<DirectoryName>>)
                      /\ T[p].length \in Nat /\ T[p].length <= Size(Len(C[p]))
                      /\ p = <<DirectoryName>> => T[p].length = 0
      /\ \A p \in P : Size(Len(C[p])) \in Nat \ {0}
      /\ \A p \in P : Len(p) = 2 => <<DirectoryName>> \in S
      /\ \A q \in P \cap Directories : \E m : Dir(UnitsOf(d, C[q]), m, q, S, T)
  BY HoldsFacts
<1>2. /\ Sound(e, P, D, O)
      /\ \A q \in P \ {path} : D[q] = C[q] /\ UnitsOf(e, D[q]) = UnitsOf(d, C[q])
      /\ D[path][1] = C[path][1] /\ Size(Len(C[path])) <= Size(Len(D[path]))
  BY Zenon DEF Written
<1>3. \A p \in P : Size(Len(D[p])) \in Nat
  <2>. SUFFICES ASSUME NEW p \in P
                PROVE  Size(Len(D[p])) \in Nat
    OBVIOUS
  <2>1. Linked(e.next, D[p]) /\ e \in Disk
    BY <1>2, SoundFacts
  <2>. QED
    BY <2>1, UnitsFacts
<1>4. \A q \in P \cap Directories : D[q] = C[q] /\ UnitsOf(e, D[q]) = UnitsOf(d, C[q])
  BY <1>2
<1>5. \A q \in P \cap Directories : \E m : Dir(UnitsOf(e, D[q]), m, q, S, T)
  BY <1>1, <1>4
<1>6. ASSUME NEW p \in S
      PROVE  T[p].block = D[p][1] /\ T[p].length <= Size(Len(D[p]))
  <2>1. p \in P /\ D[p][1] = C[p][1] /\ Size(Len(C[p])) <= Size(Len(D[p]))
    BY <1>1, <1>2
  <2>. QED
    BY <1>1, <1>3, <2>1
<1>7. S \subseteq P \ {<<>>} /\ D[<<>>][1] = Root
  <2>1. \A p \in S : p # <<>>
    BY <1>1, PathFacts
  <2>2. D[<<>>][1] = C[<<>>][1]
    BY <1>1, <1>2
  <2>. QED
    BY <1>1, <2>1, <2>2
<1>. QED
  BY <1>1, <1>5, <1>6, <1>7 DEF Holds

-----------------------------------------------------------------------------
(* Open files, what they and the paths should hold, and the invariant *)

\* The file is in a block of its chain, at the place fileOffset says, and text is what it holds
InPlace(d, c, f) ==
    /\ \E k \in 1 .. Len(c) : f.block = c[k] /\ At(k, f.offset) = f.pos
    /\ f.pos <= f.length /\ f.text \in Seq(DataUnit) /\ f.text = SubSeq(UnitsOf(d, c), 1, f.length)

OpenFile(d, P, C, S, f) ==
    /\ f \in File /\ f.path \in P /\ f.first = C[f.path][1]
    /\ f.dir <=> f.path \in Directories
    /\ f.length <= Size(Len(C[f.path])) /\ (f.dir => f.length = 0)
    /\ f.path = <<>> => ~ f.modified
    /\ f.path \in S \cup {<<>>} \/ f.modified
    /\ ~ f.dir => InPlace(d, C[f.path], f)

\* A file that is written is open once
Opens(d, P, C, S, o) ==
    /\ DOMAIN o = Handles /\ o = [h \in Handles |-> o[h]]
    /\ \A h \in Handles : o[h] # NoFile => OpenFile(d, P, C, S, o[h])
    /\ \A g, h \in Handles : g # h /\ o[h] # NoFile /\ o[h].modified => o[g].path # o[h].path
    /\ \A p \in P : p = <<>> \/ p \in S \/ \E h \in Handles : o[h].path = p

Busy(o, p) == \E h \in Handles : o[h].path = p /\ o[h].modified

\* What each path should hold: the first units of its blocks, until it is written again
Contents(d, C, S, T, o, cont) ==
    /\ DOMAIN cont = S
    /\ \A p \in S : IF p = <<DirectoryName>> THEN cont[p] = <<DirectoryMark>>
                    ELSE /\ cont[p] \in Seq(DataUnit)
                         /\ Busy(o, p) \/ cont[p] = SubSeq(UnitsOf(d, C[p]), 1, T[p].length)

Good(d, o, cont, P, C, Own, S, T) ==
    /\ Sound(d, P, C, Own) /\ Holds(d, P, C, S, T)
    /\ Opens(d, P, C, S, o) /\ Contents(d, C, S, T, o, cont)

GoodNow(d, o, cont) ==
    d.defect # "none" \/ \E P, C, Own, S, T : Good(d, o, cont, P, C, Own, S, T)

Inv == GoodNow(disk, open, content)

-----------------------------------------------------------------------------
(* What a step leaves of the open files *)

LEMMA OpenFacts ==
    ASSUME NEW d, NEW P, NEW C, NEW S, NEW f, OpenFile(d, P, C, S, f)
    PROVE  /\ f \in File /\ f.path \in P /\ f.first = C[f.path][1] /\ f.dir \in BOOLEAN
           /\ f.dir <=> f.path \in Directories
           /\ f.length \in Nat /\ f.length <= Size(Len(C[f.path])) /\ f.block \in Blocks
  BY FileFacts DEF OpenFile

LEMMA OpenSame ==
    ASSUME NEW d, NEW P, NEW C, NEW S, NEW f, OpenFile(d, P, C, S, f),
           NEW e, NEW Q, NEW D, NEW S2, f.path \in Q, Kept(d, C, e, D, Q),
           Size(Len(C[f.path])) \in Nat, Size(Len(D[f.path])) \in Nat,
           f.path \in S2 \cup {<<>>} \/ f.modified
    PROVE  OpenFile(e, Q, D, S2, f)
<1>1. D[f.path][1] = C[f.path][1] /\ Size(Len(C[f.path])) <= Size(Len(D[f.path]))
  BY DEF Kept
<1>2. f.length <= Size(Len(D[f.path]))
  BY <1>1, FileFacts DEF OpenFile
<1>3. ~ f.dir => InPlace(e, D[f.path], f)
  <2>. SUFFICES ASSUME ~ f.dir
                PROVE  InPlace(e, D[f.path], f)
    OBVIOUS
  <2>1. f.path \notin Directories /\ InPlace(d, C[f.path], f)
    BY DEF OpenFile
  <2>2. D[f.path] = C[f.path] /\ UnitsOf(e, D[f.path]) = UnitsOf(d, C[f.path])
    BY <2>1 DEF Kept
  <2>. QED
    BY <2>1, <2>2 DEF InPlace
<1>. QED
  BY <1>1, <1>2, <1>3 DEF OpenFile

\* One handle changes
LEMMA OpensSet ==
    ASSUME NEW d, NEW P, NEW C, NEW S, NEW o, Opens(d, P, C, S, o), NEW h \in Handles, NEW g,
           NEW e, NEW Q, NEW D, NEW S2, Nobody \notin P,
           \A k \in Handles : k # h /\ o[k] # NoFile => OpenFile(e, Q, D, S2, o[k]),
           g # NoFile =>
             /\ OpenFile(e, Q, D, S2, g)
             /\ \A k \in Handles : k # h /\ o[k] # NoFile /\ (g.modified \/ o[k].modified) =>
                                   o[k].path # g.path,
           \A p \in Q : \/ p = <<>> \/ p \in S2 \/ (g # NoFile /\ g.path = p)
                        \/ \E k \in Handles : k # h /\ o[k].path = p,
           Nobody \notin Q
    PROVE  Opens(e, Q, D, S2, [o EXCEPT ![h] = g])
<1>. DEFINE o2 == [o EXCEPT ![h] = g]
<1>1. /\ DOMAIN o = Handles /\ o = [k \in Handles |-> o[k]]
      /\ \A k \in Handles : o[k] # NoFile => OpenFile(d, P, C, S, o[k])
      /\ \A j, k \in Handles : j # k /\ o[k] # NoFile /\ o[k].modified => o[j].path # o[k].path
  BY DEF Opens
<1>2. /\ DOMAIN o2 = Handles /\ o2 = [k \in Handles |-> o2[k]] /\ o2[h] = g
      /\ \A k \in Handles : k # h => o2[k] = o[k]
  BY <1>1
<1>. HIDE DEF o2
<1>3. \A k \in Handles : o2[k] # NoFile => OpenFile(e, Q, D, S2, o2[k])
  BY <1>2
<1>4. NoFile.path = Nobody
  BY DEF NoFile, Nobody
<1>5. ASSUME NEW j \in Handles, NEW k \in Handles, j # k, o2[k] # NoFile, o2[k].modified
      PROVE  o2[j].path # o2[k].path
  <2>0. o2[k].path \in Q /\ o2[k].path # Nobody
    BY <1>3, <1>5 DEF OpenFile
  <2>1. CASE j # h /\ k # h
    BY <1>1, <1>2, <1>5, <2>1
  <2>2. CASE j = h
    <3>1. CASE g = NoFile
      BY <1>2, <1>4, <2>0, <2>2, <3>1
    <3>2. CASE g # NoFile
      BY <1>2, <1>5, <2>2, <3>2
    <3>. QED
      BY <3>1, <3>2
  <2>3. CASE k = h
    <3>1. j # h /\ o2[j] = o[j] /\ o2[k] = g /\ g # NoFile /\ g.modified
      BY <1>2, <1>5, <2>3
    <3>2. CASE o[j] = NoFile
      BY <1>4, <2>0, <3>1, <3>2
    <3>3. CASE o[j] # NoFile
      BY <3>1, <3>3
    <3>. QED
      BY <3>2, <3>3
  <2>. QED
    BY <2>1, <2>2, <2>3
<1>6. \A p \in Q : p = <<>> \/ p \in S2 \/ \E k \in Handles : o2[k].path = p
  BY <1>2
<1>. QED
  BY <1>2, <1>3, <1>5, <1>6 DEF Opens, o2

\* A file that only moves
Stepped(f, b, o, n) == [f EXCEPT !.block = b, !.offset = o, !.pos = n]

LEMMA SteppedFacts ==
    ASSUME NEW f \in File, NEW b \in Blocks, NEW o \in 0 .. BlockUnits, NEW n \in Nat,
           NEW g, g = Stepped(f, b, o, n)
    PROVE  /\ g \in File /\ g.block = b /\ g.offset = o /\ g.pos = n
           /\ g.path = f.path /\ g.first = f.first /\ g.length = f.length /\ g.dir = f.dir
           /\ g.modified = f.modified /\ g.text = f.text
  BY DEF File, Stepped

LEMMA StepOpen ==
    ASSUME NEW d, NEW P, NEW C, NEW S, NEW f, OpenFile(d, P, C, S, f),
           NEW b \in Blocks, NEW o \in 0 .. BlockUnits, NEW n \in Nat,
           ~ f.dir => n <= f.length /\ \E k \in 1 .. Len(C[f.path]) : b = C[f.path][k] /\ At(k, o) = n
    PROVE  OpenFile(d, P, C, S, Stepped(f, b, o, n))
<1>. DEFINE g == Stepped(f, b, o, n)
<1>1. /\ g \in File /\ g.block = b /\ g.offset = o /\ g.pos = n
      /\ g.path = f.path /\ g.first = f.first /\ g.length = f.length /\ g.dir = f.dir
      /\ g.modified = f.modified /\ g.text = f.text
  BY SteppedFacts DEF OpenFile
<1>. HIDE DEF g
<1>2. ~ g.dir => InPlace(d, C[g.path], g)
  BY <1>1 DEF OpenFile, InPlace
<1>3. OpenFile(d, P, C, S, g)
  BY <1>1, <1>2 DEF OpenFile
<1>. QED
  BY <1>3 DEF g

LEMMA StepGood ==
    ASSUME NEW d, NEW o, NEW cont, NEW P, NEW C, NEW Own, NEW S, NEW T,
           Good(d, o, cont, P, C, Own, S, T), NEW h \in Handles, o[h] # NoFile,
           NEW g, OpenFile(d, P, C, S, g), g.path = o[h].path, g.modified = o[h].modified
    PROVE  Good(d, [o EXCEPT ![h] = g], cont, P, C, Own, S, T)
<1>1. Sound(d, P, C, Own) /\ Holds(d, P, C, S, T) /\ Opens(d, P, C, S, o) /\ Contents(d, C, S, T, o, cont)
  BY DEF Good
<1>2. Nobody \notin P
  BY <1>1 DEF Sound
<1>3. /\ \A k \in Handles : o[k] # NoFile => OpenFile(d, P, C, S, o[k])
      /\ \A j, k \in Handles : j # k /\ o[k] # NoFile /\ o[k].modified => o[j].path # o[k].path
      /\ \A p \in P : p = <<>> \/ p \in S \/ \E k \in Handles : o[k].path = p
  BY <1>1 DEF Opens
<1>4. g # NoFile
  BY <1>2 DEF OpenFile, NoFile, Nobody
<1>5. \A p \in P : \/ p = <<>> \/ p \in S \/ (g # NoFile /\ g.path = p)
                   \/ \E k \in Handles : k # h /\ o[k].path = p
  BY <1>3, <1>4
<1>6. \A k \in Handles : k # h /\ o[k] # NoFile /\ (g.modified \/ o[k].modified) => o[k].path # g.path
  BY <1>3
<1>7. Opens(d, P, C, S, [o EXCEPT ![h] = g])
  BY <1>1, <1>2, <1>3, <1>5, <1>6, OpensSet
<1>8. \A p : Busy(o, p) => Busy([o EXCEPT ![h] = g], p)
  <2>1. DOMAIN o = Handles
    BY <1>1 DEF Opens
  <2>2. \A k \in Handles : [o EXCEPT ![h] = g][k] = IF k = h THEN g ELSE o[k]
    BY <2>1
  <2>. QED
    BY <2>2 DEF Busy
<1>9. Contents(d, C, S, T, [o EXCEPT ![h] = g], cont)
  BY <1>1, <1>8 DEF Contents
<1>. QED
  BY <1>1, <1>7, <1>9 DEF Good

LEMMA GetIs ==
    ASSUME NEW d \in Disk, NEW f \in File
    PROVE  \/ Get(d, f) = f
           \/ /\ f.dir \/ f.pos < f.length
              /\ \/ f.offset # BlockUnits /\ Get(d, f) = Stepped(f, f.block, f.offset + 1, f.pos + 1)
                 \/ /\ f.offset = BlockUnits /\ d.next[f.block] \in Blocks
                    /\ Get(d, f) = Stepped(f, d.next[f.block], 1, f.pos + 1)
<1>1. /\ f.block \in Blocks /\ f.offset \in 0 .. BlockUnits /\ f.pos \in Nat /\ f.length \in Nat
      /\ BlockUnits \in Nat \ {0}
  BY FileFacts, Constants
<1>2. (~ f.dir /\ f.pos >= f.length) \/ f.dir \/ f.pos < f.length
  BY <1>1
<1>3. CASE ~ f.dir /\ f.pos >= f.length
  BY <1>3 DEF Get
<1>4. CASE (f.dir \/ f.pos < f.length) /\ f.offset # BlockUnits
  <2>1. ~ (f.offset >= BlockUnits)
    BY <1>1, <1>4
  <2>2. ~ (~ f.dir /\ f.pos >= f.length)
    BY <1>1, <1>4
  <2>3. Get(d, f) = [f EXCEPT !.offset = @ + 1, !.pos = @ + 1]
    BY <2>1, <2>2 DEF Get
  <2>4. [f EXCEPT !.offset = @ + 1, !.pos = @ + 1] = Stepped(f, f.block, f.offset + 1, f.pos + 1)
    BY DEF File, Stepped
  <2>. QED
    BY <1>4, <2>3, <2>4
<1>5. CASE (f.dir \/ f.pos < f.length) /\ f.offset = BlockUnits
  <2>1. f.offset >= BlockUnits
    BY <1>1, <1>5
  <2>2. ~ (~ f.dir /\ f.pos >= f.length)
    BY <1>1, <1>5
  <2>3. CASE d.next[f.block] = EOF
    <3>1. NextBlock(d, f) = f
      BY <2>3 DEF NextBlock
    <3>. QED
      BY <2>1, <3>1 DEF Get
  <2>4. CASE d.next[f.block] # EOF
    <3>1. d.next[f.block] \in Blocks
      BY <1>1, <2>4, DiskTypes DEF Link
    <3>2. PICK g : g = Positioned(f, d.next[f.block], 0)
      OBVIOUS
    <3>3. NextBlock(d, f) = g
      BY <2>4, <3>2 DEF NextBlock, Positioned
    <3>4. g \in File /\ g.offset = 0 /\ g.pos = f.pos
      <4>1. 0 \in 0 .. BlockUnits
        BY <1>1
      <4>. QED
        BY <3>1, <3>2, <4>1 DEF File, Positioned
    <3>5. Get(d, f) = [g EXCEPT !.offset = @ + 1, !.pos = @ + 1]
      <4>1. ~ (g.offset >= BlockUnits)
        BY <1>1, <3>4
      <4>. QED
        BY <2>1, <2>2, <3>3, <4>1 DEF Get
    <3>6. [g EXCEPT !.offset = @ + 1, !.pos = @ + 1] = Stepped(f, d.next[f.block], 1, f.pos + 1)
      <4>1. [g EXCEPT !.offset = @ + 1, !.pos = @ + 1] = [g EXCEPT !.offset = 1, !.pos = f.pos + 1]
        BY <3>4
      <4>2. [g EXCEPT !.offset = 1, !.pos = f.pos + 1] = Stepped(f, d.next[f.block], 1, f.pos + 1)
        BY <3>2 DEF File, Positioned, Stepped
      <4>. QED
        BY <4>1, <4>2
    <3>. QED
      BY <1>5, <3>1, <3>5, <3>6
  <2>. QED
    BY <2>3, <2>4
<1>. QED
  BY <1>2, <1>3, <1>4, <1>5

\* OS_fread
LEMMA GetOpen ==
    ASSUME NEW d, NEW P, NEW C, NEW Own, Sound(d, P, C, Own), NEW S, NEW f, OpenFile(d, P, C, S, f)
    PROVE  /\ OpenFile(d, P, C, S, Get(d, f))
           /\ Get(d, f).path = f.path /\ Get(d, f).modified = f.modified
<1>. DEFINE c == C[f.path]
<1>1. /\ f \in File /\ f.path \in P /\ f.block \in Blocks /\ f.offset \in 0 .. BlockUnits
      /\ f.pos \in Nat /\ f.length \in Nat /\ BlockUnits \in Nat \ {0}
  BY FileFacts, Constants DEF OpenFile
<1>2. d \in Disk /\ Linked(d.next, c)
  BY <1>1, SoundFacts
<1>. HIDE DEF c
<1>3. /\ Len(c) \in Nat \ {0} /\ \A i \in 1 .. Len(c) : c[i] \in Blocks
      /\ \A i \in 1 .. Len(c) : d.next[c[i]] = IF i = Len(c) THEN EOF ELSE c[i + 1]
  BY <1>2, LinkedFacts
<1>4. CASE Get(d, f) = f
  BY <1>4
<1>5. CASE /\ f.dir \/ f.pos < f.length
           /\ f.offset # BlockUnits /\ Get(d, f) = Stepped(f, f.block, f.offset + 1, f.pos + 1)
  <2>1. f.offset + 1 \in 0 .. BlockUnits /\ f.pos + 1 \in Nat
    BY <1>1, <1>5
  <2>2. ASSUME ~ f.dir
        PROVE  f.pos + 1 <= f.length /\ \E k \in 1 .. Len(c) : f.block = c[k] /\ At(k, f.offset + 1) = f.pos + 1
    <3>1. PICK k \in 1 .. Len(c) : f.block = c[k] /\ At(k, f.offset) = f.pos
      BY <2>2 DEF OpenFile, InPlace, c
    <3>2. At(k, f.offset + 1) = At(k, f.offset) + 1
      <4>1. k \in Nat \ {0}
        BY <1>3
      <4>. QED
        BY <1>1, <1>5, <4>1, Places
    <3>. QED
      BY <1>1, <1>5, <2>2, <3>1, <3>2
  <2>3. OpenFile(d, P, C, S, Stepped(f, f.block, f.offset + 1, f.pos + 1))
    <3>1. PICK o \in 0 .. BlockUnits, n \in Nat : o = f.offset + 1 /\ n = f.pos + 1
      BY <2>1
    <3>2. OpenFile(d, P, C, S, Stepped(f, f.block, o, n))
      BY <1>1, <2>2, <3>1, StepOpen DEF c
    <3>. QED
      BY <3>1, <3>2
  <2>4. PICK g : g = Stepped(f, f.block, f.offset + 1, f.pos + 1)
    OBVIOUS
  <2>5. g.path = f.path /\ g.modified = f.modified
    BY <1>1, <2>4 DEF Stepped, File
  <2>. QED
    BY <1>5, <2>3, <2>4, <2>5
<1>6. CASE /\ f.dir \/ f.pos < f.length
           /\ f.offset = BlockUnits /\ d.next[f.block] \in Blocks
           /\ Get(d, f) = Stepped(f, d.next[f.block], 1, f.pos + 1)
  <2>1. 1 \in 0 .. BlockUnits /\ f.pos + 1 \in Nat
    BY <1>1
  <2>2. ASSUME ~ f.dir
        PROVE  /\ f.pos + 1 <= f.length
               /\ \E k \in 1 .. Len(c) : d.next[f.block] = c[k] /\ At(k, 1) = f.pos + 1
    <3>1. PICK k \in 1 .. Len(c) : f.block = c[k] /\ At(k, f.offset) = f.pos
      BY <2>2 DEF OpenFile, InPlace, c
    <3>2. k # Len(c)
      BY <1>3, <1>6, <3>1, Constants
    <3>3. k + 1 \in 1 .. Len(c) /\ d.next[f.block] = c[k + 1] /\ k \in Nat \ {0}
      BY <1>3, <3>1, <3>2
    <3>4. At(k + 1, 0) = f.pos
      BY <1>6, <3>1, <3>3, Places
    <3>5. At(k + 1, 0 + 1) = At(k + 1, 0) + 1
      <4>1. k + 1 \in Nat \ {0} /\ 0 \in 0 .. BlockUnits /\ 0 # BlockUnits
        BY <1>1, <3>3
      <4>. QED
        BY <4>1, Places
    <3>. QED
      BY <1>1, <1>6, <2>2, <3>3, <3>4, <3>5
  <2>3. OpenFile(d, P, C, S, Stepped(f, d.next[f.block], 1, f.pos + 1))
    <3>1. PICK n \in Nat : n = f.pos + 1
      BY <2>1
    <3>2. PICK b \in Blocks : b = d.next[f.block]
      BY <1>6
    <3>3. OpenFile(d, P, C, S, Stepped(f, b, 1, n))
      BY <1>1, <2>1, <2>2, <3>1, <3>2, StepOpen DEF c
    <3>. QED
      BY <3>1, <3>2, <3>3
  <2>4. PICK g : g = Stepped(f, d.next[f.block], 1, f.pos + 1)
    OBVIOUS
  <2>5. g.path = f.path /\ g.modified = f.modified
    BY <1>1, <2>4 DEF Stepped, File
  <2>. QED
    BY <1>6, <2>3, <2>4, <2>5
<1>. QED
  BY <1>1, <1>2, <1>4, <1>5, <1>6, GetIs

\* OS_fseek goes along the chain from its first block
LEMMA SeekIs ==
    ASSUME NEW d \in Disk, NEW c, Linked(d.next, c), NEW f \in File, f.first = c[1],
           NEW offset \in 0 .. Size(Len(c))
    PROVE  \E k \in 1 .. Len(c), o \in 0 .. BlockUnits :
              Seek(d, f, offset) = Stepped(f, c[k], o, offset) /\ At(k, o) = offset
<1>. DEFINE n == Len(c)
            skip == IF offset = 0 THEN 0 ELSE (offset - 1) \div BlockUnits
<1>1. /\ n \in Nat \ {0} /\ BlockUnits \in Nat \ {0} /\ offset \in Nat
      /\ \A i \in 1 .. n : c[i] \in Blocks
      /\ \A i \in 1 .. n : d.next[c[i]] = IF i = n THEN EOF ELSE c[i + 1]
  <2>1. n \in Nat \ {0} /\ Size(n) \in Nat
    BY LinkedFacts, Places
  <2>. QED
    BY <2>1, LinkedFacts, Constants
<1>. HIDE DEF n
<1>2. PICK s \in Nat, o \in 0 .. BlockUnits : /\ s = skip /\ s < n /\ s * BlockUnits \in Nat
                                              /\ offset = s * BlockUnits + o
  <2>1. CASE offset = 0
    <3>1. 0 * BlockUnits = 0
      BY <1>1
    <3>. QED
      BY <1>1, <2>1, <3>1
  <2>2. CASE offset # 0
    <3>1. PICK a \in Nat : a = offset - 1
      BY <1>1, <2>2
    <3>2. PICK q \in Nat, r \in 0 .. BlockUnits - 1 :
             q = a \div BlockUnits /\ a = q * BlockUnits + r
      BY <1>1, Division
    <3>3. skip = q
      BY <2>2, <3>1, <3>2, Zenon
    <3>4. q * BlockUnits \in Nat /\ n * BlockUnits \in Nat /\ Size(n) = n * BlockUnits
      BY <1>1, Products DEF Size
    <3>5. q < n
      <4>1. SUFFICES ASSUME n <= q
                     PROVE  FALSE
        BY <1>1
      <4>2. n * BlockUnits <= q * BlockUnits
        BY <1>1, <4>1, Products
      <4>3. a < n * BlockUnits
        <5>1. PICK m : m = Size(n)
          OBVIOUS
        <5>2. m \in Nat /\ offset <= m
          BY <3>4, <5>1 DEF n
        <5>. QED
          BY <1>1, <3>1, <3>4, <5>1, <5>2
      <4>4. PICK x \in Nat, y \in Nat : x = q * BlockUnits /\ y = n * BlockUnits
        BY <3>4
      <4>5. a = x + r /\ y <= x /\ a < y
        BY <3>2, <4>2, <4>3, <4>4
      <4>. QED
        BY <4>4, <4>5
    <3>6. offset = q * BlockUnits + (r + 1) /\ r + 1 \in 0 .. BlockUnits
      BY <1>1, <3>1, <3>2, <3>4
    <3>. QED
      BY <3>3, <3>4, <3>5, <3>6
  <2>. QED
    BY <2>1, <2>2
<1>. DEFINE On(i) == {g \in File : \E x \in 0 .. BlockUnits : g = Positioned(f, c[i + 1], x)}
            I == [i \in 0 .. s |-> On(i)]
            step == [i \in 1 .. s |-> [g \in File |-> NextBlock(d, g)]]
            base == [f EXCEPT !.block = f.first]
            Is(g) == g = [i \in 0 .. s |-> IF i = 0 THEN base ELSE NextBlock(d, g[i - 1])]
            at == CHOOSE g : Is(g)
<1>3. Seek(d, f, offset) = [at[s] EXCEPT !.offset = offset - s * BlockUnits, !.pos = offset]
  BY <1>2, Zenon DEF Seek
<1>4. base \in On(0)
  <2>1. f.offset \in 0 .. BlockUnits /\ c[1] \in Blocks
    BY <1>1, FileFacts
  <2>2. base = Positioned(f, c[1], f.offset) /\ base \in File
    BY <2>1 DEF File, Positioned
  <2>3. 0 + 1 = 1
    OBVIOUS
  <2>. QED
    BY <2>1, <2>2, <2>3
<1>5. ASSUME NEW i \in 1 .. s, NEW g \in On(i - 1)
      PROVE  NextBlock(d, g) \in On(i)
  <2>1. PICK x \in 0 .. BlockUnits : g = Positioned(f, c[(i - 1) + 1], x)
    OBVIOUS
  <2>2. (i - 1) + 1 = i /\ i \in 1 .. n /\ i # n /\ i + 1 \in 1 .. n /\ 0 \in 0 .. BlockUnits
    BY <1>1, <1>2
  <2>3. g.block = c[i] /\ c[i] \in Blocks /\ c[i + 1] \in Blocks
    BY <1>1, <2>1, <2>2 DEF File, Positioned
  <2>4. d.next[g.block] = c[i + 1] /\ c[i + 1] # EOF
    BY <1>1, <2>2, <2>3, Constants
  <2>5. NextBlock(d, g) = Positioned(g, c[i + 1], 0)
    BY <2>4 DEF NextBlock, Positioned
  <2>6. Positioned(g, c[i + 1], 0) = Positioned(f, c[i + 1], 0)
    BY <2>1 DEF File, Positioned
  <2>7. Positioned(f, c[i + 1], 0) \in File
    BY <2>2, <2>3 DEF File, Positioned
  <2>. QED
    BY <2>2, <2>5, <2>6, <2>7
<1>6. ASSUME NEW g \in File
      PROVE  NextBlock(d, g) \in File
  <2>1. d.next[g.block] \in Link /\ 0 \in 0 .. BlockUnits
    BY <1>1, FileFacts, DiskTypes
  <2>2. CASE d.next[g.block] = EOF
    BY <2>2 DEF NextBlock
  <2>3. CASE d.next[g.block] # EOF
    <3>1. d.next[g.block] \in Blocks
      BY <2>1, <2>3 DEF Link
    <3>2. NextBlock(d, g) = Positioned(g, d.next[g.block], 0)
      BY <2>3 DEF NextBlock, Positioned
    <3>. QED
      BY <2>1, <3>1, <3>2 DEF File, Positioned
  <2>. QED
    BY <2>2, <2>3
<1>7. step \in [1 .. s -> [File -> File]]
  BY <1>6
<1>8. \A i \in 0 .. s : I[i] = On(i)
  OBVIOUS
<1>9. I \in [0 .. s -> SUBSET File]
  OBVIOUS
<1>10. \A i \in 1 .. s : /\ i \in 0 .. s /\ i - 1 \in 0 .. s
                         /\ \A g \in File : step[i][g] = NextBlock(d, g)
  BY <1>2
<1>11. \A i \in 0 .. s : On(i) \subseteq File
  OBVIOUS
<1>12. 0 \in 0 .. s /\ s \in 0 .. s
  BY <1>2
<1>. HIDE DEF On, I, step, base, at
<1>13. Closed(s, I, step)
  <2>. SUFFICES ASSUME NEW i \in 1 .. s, NEW g \in I[i - 1]
                PROVE  step[i][g] \in I[i]
    BY DEF Closed
  <2>1. I[i - 1] = On(i - 1) /\ I[i] = On(i) /\ g \in File
    BY <1>8, <1>10, <1>11
  <2>. QED
    BY <1>5, <1>10, <2>1
<1>14. PICK a : Solves(a, s, File, I, base, step)
  <2>1. base \in I[0]
    BY <1>4, <1>8, <1>12
  <2>. QED
    BY <1>2, <1>7, <1>9, <1>13, <2>1, FiniteRecursion
<1>15. /\ a \in [0 .. s -> File] /\ a[0] = base
       /\ \A i \in 1 .. s : a[i] = step[i][a[i - 1]]
       /\ \A i \in 0 .. s : a[i] \in I[i]
  BY <1>14 DEF Solves
<1>16. Is(a)
  <2>1. \A i \in 0 .. s : a[i] = IF i = 0 THEN base ELSE NextBlock(d, a[i - 1])
    <3>. SUFFICES ASSUME NEW i \in 0 .. s, i # 0
                  PROVE  a[i] = NextBlock(d, a[i - 1])
      BY <1>15
    <3>1. i \in 1 .. s
      BY <1>2
    <3>2. a[i - 1] \in File
      BY <1>10, <1>15, <3>1
    <3>. QED
      BY <1>10, <1>15, <3>1, <3>2
  <2>. QED
    BY <1>15, <2>1
<1>17. Is(at)
  BY <1>16, Zenon DEF at
<1>18. \A i \in 0 .. s : at[i] = a[i]
  <2>. DEFINE R == {i \in 0 .. s : at[i] = a[i]}
  <2>1. 0 \in R
    BY <1>12, <1>16, <1>17
  <2>2. ASSUME NEW i \in 1 .. s, i - 1 \in R
        PROVE  i \in R
    <3>1. i \in 0 .. s /\ i - 1 \in 0 .. s /\ i # 0
      BY <1>2
    <3>. QED
      BY <1>16, <1>17, <2>2, <3>1
  <2>. HIDE DEF R
  <2>3. \A i \in 0 .. s : i \in R
    BY <1>2, <2>1, <2>2, CountUp
  <2>. QED
    BY <2>3 DEF R
<1>19. PICK x \in 0 .. BlockUnits : at[s] = Positioned(f, c[s + 1], x)
  <2>1. at[s] \in On(s)
    BY <1>8, <1>12, <1>15, <1>18
  <2>. QED
    BY <2>1 DEF On
<1>20. offset - s * BlockUnits = o
  BY <1>1, <1>2
<1>21. Seek(d, f, offset) = Stepped(f, c[s + 1], o, offset)
  <2>1. Seek(d, f, offset) = [Positioned(f, c[s + 1], x) EXCEPT !.offset = o, !.pos = offset]
    BY <1>3, <1>19, <1>20, Zenon
  <2>2. [Positioned(f, c[s + 1], x) EXCEPT !.offset = o, !.pos = offset] = Stepped(f, c[s + 1], o, offset)
    BY DEF File, Positioned, Stepped
  <2>. QED
    BY <2>1, <2>2
<1>22. s + 1 \in 1 .. n /\ At(s + 1, o) = offset
  <2>1. PICK k \in Nat : k = s + 1
    BY <1>2
  <2>2. k - 1 = s
    BY <2>1
  <2>3. At(k, o) = s * BlockUnits + o
    BY <2>2, Zenon DEF At
  <2>4. s < n
    BY <1>2
  <2>5. s + 1 \in 1 .. n
    BY <1>1, <2>4
  <2>. QED
    BY <1>2, <2>1, <2>3, <2>5, Zenon
<1>. QED
  BY <1>21, <1>22 DEF n

-----------------------------------------------------------------------------
(* The calls, one by one *)

LEMMA GoodFacts ==
    ASSUME NEW d, NEW o, NEW cont, NEW P, NEW C, NEW Own, NEW S, NEW T,
           Good(d, o, cont, P, C, Own, S, T)
    PROVE  /\ Sound(d, P, C, Own) /\ Holds(d, P, C, S, T) /\ Opens(d, P, C, S, o)
           /\ Contents(d, C, S, T, o, cont)
           /\ d \in Disk /\ d.defect = "none" /\ Nobody \notin P /\ DOMAIN o = Handles
           /\ \A p \in P : Linked(d.next, C[p]) /\ Size(Len(C[p])) \in Nat \ {0}
           /\ \A h \in Handles : o[h] # NoFile => OpenFile(d, P, C, S, o[h])
<1>1. /\ Sound(d, P, C, Own) /\ Holds(d, P, C, S, T) /\ Opens(d, P, C, S, o)
      /\ Contents(d, C, S, T, o, cont)
  BY DEF Good
<1>2. /\ d \in Disk /\ d.defect = "none" /\ Nobody \notin P
      /\ \A p \in P : Linked(d.next, C[p])
  BY <1>1 DEF Sound
<1>3. \A p \in P : Size(Len(C[p])) \in Nat \ {0}
  BY <1>1, HoldsFacts
<1>4. DOMAIN o = Handles /\ \A h \in Handles : o[h] # NoFile => OpenFile(d, P, C, S, o[h])
  BY <1>1 DEF Opens
<1>. QED
  BY <1>1, <1>2, <1>3, <1>4

\* OS_fread, and OS_fdir on the root directory
LEMMA ReadGood ==
    ASSUME NEW d, NEW o, NEW cont, NEW P, NEW C, NEW Own, NEW S, NEW T,
           Good(d, o, cont, P, C, Own, S, T), NEW h \in Handles, o[h] # NoFile
    PROVE  Good(d, [o EXCEPT ![h] = Get(d, o[h])], cont, P, C, Own, S, T)
<1>1. Sound(d, P, C, Own) /\ OpenFile(d, P, C, S, o[h])
  BY GoodFacts
<1>2. PICK g : g = Get(d, o[h])
  OBVIOUS
<1>3. OpenFile(d, P, C, S, g) /\ g.path = o[h].path /\ g.modified = o[h].modified
  BY <1>1, <1>2, GetOpen
<1>. QED
  BY <1>2, <1>3, StepGood

\* OS_fseek
LEMMA SeekOpen ==
    ASSUME NEW d, NEW P, NEW C, NEW Own, Sound(d, P, C, Own), NEW S, NEW f, OpenFile(d, P, C, S, f),
           ~ f.dir, NEW offset \in 0 .. f.length
    PROVE  /\ OpenFile(d, P, C, S, Seek(d, f, offset))
           /\ Seek(d, f, offset).path = f.path /\ Seek(d, f, offset).modified = f.modified
<1>. DEFINE c == C[f.path]
<1>1. /\ f \in File /\ f.path \in P /\ f.first = c[1] /\ f.length \in Nat /\ f.length <= Size(Len(c))
  BY OpenFacts
<1>2. d \in Disk /\ Linked(d.next, c)
  BY <1>1, SoundFacts
<1>. HIDE DEF c
<1>3. Size(Len(c)) \in Nat /\ \A i \in 1 .. Len(c) : c[i] \in Blocks
  BY <1>2, UnitsFacts, LinkedFacts
<1>4. offset \in 0 .. Size(Len(c)) /\ offset \in Nat /\ offset <= f.length
  BY <1>1, <1>3
<1>5. PICK k \in 1 .. Len(c), x \in 0 .. BlockUnits :
         Seek(d, f, offset) = Stepped(f, c[k], x, offset) /\ At(k, x) = offset
  BY <1>1, <1>2, <1>4, SeekIs
<1>6. PICK b \in Blocks : b = c[k]
  BY <1>3
<1>7. PICK g : g = Stepped(f, b, x, offset)
  OBVIOUS
<1>8. OpenFile(d, P, C, S, g)
  BY <1>4, <1>5, <1>6, <1>7, StepOpen DEF c
<1>9. g.path = f.path /\ g.modified = f.modified
  BY <1>1, <1>4, <1>7, SteppedFacts
<1>. QED
  BY <1>5, <1>6, <1>7, <1>8, <1>9

LEMMA SeekGood ==
    ASSUME NEW d, NEW o, NEW cont, NEW P, NEW C, NEW Own, NEW S, NEW T,
           Good(d, o, cont, P, C, Own, S, T), NEW h \in Handles, o[h] # NoFile, ~ o[h].dir,
           NEW offset \in 0 .. o[h].length
    PROVE  Good(d, [o EXCEPT ![h] = Seek(d, o[h], offset)], cont, P, C, Own, S, T)
<1>1. Sound(d, P, C, Own) /\ OpenFile(d, P, C, S, o[h])
  BY GoodFacts
<1>2. PICK g : g = Seek(d, o[h], offset)
  OBVIOUS
<1>3. OpenFile(d, P, C, S, g) /\ g.path = o[h].path /\ g.modified = o[h].modified
  BY <1>1, <1>2, SeekOpen
<1>. QED
  BY <1>2, <1>3, StepGood

\* OS_fopen of the root directory, for OS_fdir
LEMMA RootGood ==
    ASSUME NEW d, NEW o, NEW cont, NEW P, NEW C, NEW Own, NEW S, NEW T,
           Good(d, o, cont, P, C, Own, S, T), NEW h \in Handles, o[h] = NoFile
    PROVE  Good(d, [o EXCEPT ![h] = RootDirectory], cont, P, C, Own, S, T)
<1>1. /\ Sound(d, P, C, Own) /\ Holds(d, P, C, S, T) /\ Opens(d, P, C, S, o)
      /\ Contents(d, C, S, T, o, cont) /\ Nobody \notin P /\ DOMAIN o = Handles
      /\ \A k \in Handles : o[k] # NoFile => OpenFile(d, P, C, S, o[k])
  BY GoodFacts
<1>2. <<>> \in P /\ C[<<>>][1] = Root /\ Size(Len(C[<<>>])) \in Nat
  BY <1>1, HoldsFacts
<1>3. PICK g : g = RootDirectory
  OBVIOUS
<1>4. /\ g \in File /\ g.path = <<>> /\ g.first = Root /\ g.dir = TRUE /\ g.length = 0
      /\ g.modified = FALSE
  BY <1>3, RootIs DEF RootDirectory, Opened
<1>5. OpenFile(d, P, C, S, g)
  BY <1>2, <1>4 DEF OpenFile, Directories
<1>6. \A k \in Handles : k # h /\ o[k] # NoFile /\ (g.modified \/ o[k].modified) => o[k].path # g.path
  BY <1>1, <1>4 DEF OpenFile
<1>7. NoFile.path = Nobody
  BY DEF NoFile, Nobody
<1>8. \A p \in P : \/ p = <<>> \/ p \in S \/ (g # NoFile /\ g.path = p)
                   \/ \E k \in Handles : k # h /\ o[k].path = p
  BY <1>1, <1>7 DEF Opens
<1>9. Opens(d, P, C, S, [o EXCEPT ![h] = g])
  BY <1>1, <1>5, <1>6, <1>8, OpensSet
<1>10. \A p \in S : Busy(o, p) => Busy([o EXCEPT ![h] = g], p)
  <2>1. \A k \in Handles : [o EXCEPT ![h] = g][k] = IF k = h THEN g ELSE o[k]
    BY <1>1
  <2>2. \A p \in S : p # Nobody
    BY <1>1 DEF Holds
  <2>. QED
    BY <1>7, <2>1, <2>2 DEF Busy
<1>11. Contents(d, C, S, T, [o EXCEPT ![h] = g], cont)
  BY <1>1, <1>10 DEF Contents
<1>. QED
  BY <1>1, <1>3, <1>9, <1>11 DEF Good

\* The text after a unit has been written at pos
TextWith(text, pos, unit) ==
    SubSeq(text, 1, pos) \o <<unit>> \o SubSeq(text, pos + 2, Len(text))

Reach(n, pos) == IF n > pos THEN n ELSE pos + 1

Renewed(u, pos, unit, w) ==
    \A i \in 1 .. Len(w) : w[i] = IF i = pos + 1 THEN unit ELSE IF i <= Len(u) THEN u[i] ELSE Blank

Rewritten(u, n, text, pos, unit, w) ==
    /\ u \in Seq(Unit) /\ n \in Nat /\ n <= Len(u) /\ text \in Seq(DataUnit) /\ text = SubSeq(u, 1, n)
    /\ pos \in Nat /\ pos <= n /\ unit \in DataUnit
    /\ w \in Seq(Unit) /\ Reach(n, pos) <= Len(w) /\ Renewed(u, pos, unit, w)

LEMMA TextPut ==
    ASSUME NEW u, NEW n, NEW text, NEW pos, NEW unit, NEW w, Rewritten(u, n, text, pos, unit, w)
    PROVE  /\ TextWith(text, pos, unit) \in Seq(DataUnit)
           /\ TextWith(text, pos, unit) = SubSeq(w, 1, Reach(n, pos))
<1>1. /\ u \in Seq(Unit) /\ w \in Seq(Unit) /\ unit \in DataUnit
      /\ text \in Seq(DataUnit) /\ text = SubSeq(u, 1, n)
      /\ Len(u) \in Nat /\ Len(w) \in Nat /\ n \in 0 .. Len(u) /\ pos \in 0 .. n
  BY DEF Rewritten
<1>0. PICK l \in 0 .. Len(w) : /\ l = Reach(n, pos) /\ l = IF n > pos THEN n ELSE pos + 1
  BY <1>1 DEF Rewritten, Reach
<1>a. \A i \in 1 .. Len(w) : w[i] = IF i = pos + 1 THEN unit ELSE IF i <= Len(u) THEN u[i] ELSE Blank
  BY DEF Rewritten, Renewed
<1>2. Len(text) = n /\ \A i \in 1 .. n : text[i] = u[i]
  BY <1>1
<1>. DEFINE a == SubSeq(text, 1, pos)
            z == SubSeq(text, pos + 2, Len(text))
            r == TextWith(text, pos, unit)
            t == SubSeq(w, 1, l)
<1>3. a \in Seq(DataUnit) /\ Len(a) = pos /\ \A i \in 1 .. pos : a[i] = text[i]
  BY <1>1, <1>2
<1>4. /\ z \in Seq(DataUnit) /\ Len(z) = IF pos + 2 <= n THEN n - pos - 1 ELSE 0
      /\ \A i \in 1 .. Len(z) : z[i] = text[i + pos + 1]
  <2>1. CASE pos + 2 <= n
    BY <1>1, <1>2, <2>1
  <2>2. CASE ~ (pos + 2 <= n)
    BY <1>1, <1>2, <2>2
  <2>. QED
    BY <2>1, <2>2
<1>5. <<unit>> \in Seq(DataUnit) /\ Len(<<unit>>) = 1 /\ <<unit>>[1] = unit
  BY <1>1
<1>6. r = a \o <<unit>> \o z
  BY DEF TextWith
<1>. HIDE DEF a, z, r
<1>. DEFINE b == a \o <<unit>>
<1>7. b \in Seq(DataUnit) /\ Len(b) = pos + 1
      /\ \A i \in 1 .. pos + 1 : b[i] = IF i <= pos THEN text[i] ELSE unit
  BY <1>1, <1>3, <1>5
<1>. HIDE DEF b
<1>8. /\ r \in Seq(DataUnit) /\ Len(r) = pos + 1 + Len(z)
      /\ \A i \in 1 .. pos + 1 + Len(z) : r[i] = IF i <= pos + 1 THEN b[i] ELSE z[i - (pos + 1)]
  <2>1. r = b \o z
    BY <1>6 DEF b
  <2>2. b \in Seq(DataUnit) /\ z \in Seq(DataUnit) /\ Len(b) = pos + 1
    BY <1>4, <1>7
  <2>3. /\ b \o z \in Seq(DataUnit) /\ Len(b \o z) = Len(b) + Len(z)
        /\ \A i \in 1 .. Len(b) + Len(z) : (b \o z)[i] = IF i <= Len(b) THEN b[i] ELSE z[i - Len(b)]
    BY <2>2, ConcatProperties
  <2>. QED
    BY <2>1, <2>2, <2>3, Zenon
<1>9. Len(r) = l
  BY <1>0, <1>1, <1>4, <1>8
<1>10. ASSUME NEW i \in 1 .. l
       PROVE  r[i] = IF i = pos + 1 THEN unit ELSE text[i]
  <2>1. CASE i <= pos + 1
    BY <1>0, <1>1, <1>7, <1>8, <1>9, <2>1
  <2>2. CASE ~ (i <= pos + 1)
    <3>1. PICK j \in Nat : j = i - (pos + 1)
      BY <1>0, <1>1, <2>2
    <3>2. j \in 1 .. Len(z) /\ j + pos + 1 = i
      BY <1>0, <1>1, <1>4, <1>8, <1>9, <2>2, <3>1
    <3>3. r[i] = z[j]
      BY <1>0, <1>1, <1>8, <1>9, <2>2, <3>1
    <3>. QED
      <4>1. z[j] = text[j + pos + 1]
        BY <1>4, <3>2
      <4>2. r[i] = text[i]
        BY <3>2, <3>3, <4>1, Zenon
      <4>3. i # pos + 1
        BY <1>1, <2>2
      <4>. QED
        BY <4>2, <4>3, Zenon
  <2>. QED
    BY <2>1, <2>2
<1>11. t \in Seq(Unit) /\ Len(t) = l /\ \A i \in 1 .. l : t[i] = w[i]
  BY <1>0, <1>1
<1>. HIDE DEF t
<1>12. ASSUME NEW i \in 1 .. l
       PROVE  r[i] = t[i]
  <2>1. i \in 1 .. Len(w)
    BY <1>0, <1>1
  <2>2. CASE i = pos + 1
    BY <1>a, <1>10, <1>11, <2>1, <2>2
  <2>3. CASE i # pos + 1
    <3>1. i \in 1 .. n /\ i <= Len(u)
      BY <1>0, <1>1, <2>3
    <3>. QED
      BY <1>a, <1>2, <1>10, <1>11, <2>1, <2>3, <3>1
  <2>. QED
    BY <2>2, <2>3
<1>13. Unit = Unit \cup DataUnit
  BY DEF Unit
<1>14. r \in Seq(Unit)
  BY <1>8, <1>13
<1>15. r = t
  BY <1>9, <1>11, <1>12, <1>14, SeqEqual
<1>. QED
  BY <1>0, <1>8, <1>15 DEF r, t

\* The file that has been written, with its text
WithText(f, text) == [f EXCEPT !.text = text]
Wrote(f, b, i, text) == WithText(Moved(f, b, i), text)

IsWrote(f, b, i, text, g) ==
    /\ g \in File /\ g.path = f.path /\ g.first = f.first /\ g.block = b /\ g.offset = i
    /\ g.pos = f.pos + 1 /\ g.length = Reach(f.length, f.pos) /\ g.dir = f.dir
    /\ g.modified = TRUE /\ g.text = text

LEMMA WroteFacts ==
    ASSUME NEW f \in File, NEW b \in Blocks, NEW i \in 0 .. BlockUnits, NEW text \in Seq(Unit)
    PROVE  IsWrote(f, b, i, text, Wrote(f, b, i, text))
<1>. DEFINE g == Wrote(f, b, i, text)
<1>1. PICK n \in Nat, l \in Nat : /\ n = f.pos + 1 /\ l = Reach(f.length, f.pos)
                                  /\ l = IF f.length > f.pos THEN f.length ELSE f.pos + 1
  BY FileFacts DEF Reach
<1>2. g = [f EXCEPT !.block = b, !.offset = i, !.pos = n, !.modified = TRUE, !.length = l, !.text = text]
  <2>1. Moved(f, b, i) = [f EXCEPT !.block = b, !.offset = i, !.pos = n, !.modified = TRUE, !.length = l]
    BY <1>1 DEF Moved
  <2>. QED
    BY <2>1 DEF Wrote, WithText
<1>. HIDE DEF g
<1>3. /\ g \in File /\ g.path = f.path /\ g.first = f.first /\ g.block = b /\ g.offset = i
      /\ g.pos = n /\ g.length = l /\ g.dir = f.dir /\ g.modified = TRUE /\ g.text = text
  BY <1>2 DEF File
<1>4. IsWrote(f, b, i, text, g)
  BY <1>1, <1>3 DEF IsWrote
<1>. QED
  BY <1>4 DEF g

\* OS_fwrite of one unit
LEMMA WriteGood ==
    ASSUME NEW d, NEW o, NEW cont, NEW P, NEW C, NEW Own, NEW S, NEW T,
           Good(d, o, cont, P, C, Own, S, T), NEW h \in Handles, o[h] # NoFile, ~ o[h].dir,
           \A k \in Handles \ {h} : o[k].path # o[h].path, NEW v \in Values,
           NEW unit, unit = Data(o[h], v), NEW r, r = Put(d, o[h], unit), NEW e, e = r.d,
           NEW g, g = WithText(r.f, TextWith(r.f.text, o[h].pos, unit))
    PROVE  GoodNow(e, [o EXCEPT ![h] = g], cont)
<1>. DEFINE f == o[h]
            p == f.path
            c == C[p]
<1>1. /\ Sound(d, P, C, Own) /\ Holds(d, P, C, S, T) /\ Opens(d, P, C, S, o)
      /\ Contents(d, C, S, T, o, cont)
      /\ d \in Disk /\ d.defect = "none" /\ Nobody \notin P /\ DOMAIN o = Handles
      /\ \A q \in P : Linked(d.next, C[q]) /\ Size(Len(C[q])) \in Nat \ {0}
      /\ \A k \in Handles : o[k] # NoFile => OpenFile(d, P, C, S, o[k])
  BY GoodFacts
<1>2. OpenFile(d, P, C, S, f) /\ f \in File /\ p \in P /\ f.first = c[1]
      /\ f.dir = FALSE /\ p \notin Directories /\ InPlace(d, c, f) /\ f.length <= Size(Len(c))
  <2>1. OpenFile(d, P, C, S, f)
    BY <1>1
  <2>2. f.dir \in BOOLEAN
    BY <2>1, FileFacts DEF OpenFile
  <2>. QED
    BY <2>1, <2>2 DEF OpenFile
<1>3. /\ f.pos \in Nat /\ f.length \in Nat /\ f.offset \in 0 .. BlockUnits /\ f.text \in Seq(Unit)
      /\ f.path \in Paths \cup {<<>>}
  BY <1>2, FileFacts
<1>4. p \in Paths
  BY <1>2, <1>3 DEF Directories
<1>5. unit \in DataUnit /\ unit \in Unit
  BY <1>3, <1>4 DEF Data, DataUnit, Unit
<1>. HIDE DEF f, p, c
<1>6. PICK k0 \in 1 .. Len(c) : f.block = c[k0] /\ At(k0, f.offset) = f.pos
  BY <1>2 DEF InPlace
<1>7. /\ f.pos <= f.length /\ f.text \in Seq(DataUnit)
      /\ f.text = SubSeq(UnitsOf(d, c), 1, f.length)
  BY <1>2 DEF InPlace
<1>8. SUFFICES ASSUME e.defect # "overrun"
               PROVE  GoodNow(e, [o EXCEPT ![h] = g], cont)
  BY DEF GoodNow
<1>a. r = Put(d, f, unit)
  BY DEF f
<1>b. e = r.d /\ g = WithText(r.f, TextWith(r.f.text, f.pos, unit))
  BY DEF f
<1>9. PICK D, O : Written(d, P, C, p, f.pos, unit, e, D, O) /\ MovedOn(f, D[p], f.pos + 1, r.f)
  <2>1. PICK x \in 0 .. BlockUnits : x = f.offset
    BY <1>3
  <2>2. k0 \in 1 .. Len(C[p]) /\ f.block = C[p][k0] /\ At(k0, x) = f.pos
    BY <1>6, <2>1 DEF c
  <2>3. Sound(d, P, C, Own) /\ p \in P /\ f \in File
    BY <1>1, <1>2
  <2>4. \/ Put(d, f, unit).d.defect = "overrun" /\ Put(d, f, unit).d \in Disk
        \/ PutIs(d, P, C, p, At(k0, x), unit, f, Put(d, f, unit))
    BY <1>5, <2>1, <2>2, <2>3, PutEffect
  <2>5. PutIs(d, P, C, p, f.pos, unit, f, r)
    BY <1>8, <1>a, <1>b, <2>2, <2>4
  <2>. QED
    BY <1>b, <2>5 DEF PutIs
<1>10. PICK j \in 1 .. Len(D[p]), i \in 0 .. BlockUnits :
          At(j, i) = f.pos + 1 /\ r.f = Moved(f, D[p][j], i)
  BY <1>9 DEF MovedOn
<1>11. /\ Sound(e, P, D, O)
       /\ \A q \in P \ {p} : D[q] = C[q] /\ UnitsOf(e, D[q]) = UnitsOf(d, C[q])
       /\ D[p][1] = c[1] /\ Size(Len(c)) <= Size(Len(D[p])) /\ f.pos + 1 <= Size(Len(D[p]))
       /\ \A n \in 1 .. Size(Len(D[p])) :
             UnitsOf(e, D[p])[n] = IF n = f.pos + 1 THEN unit
                                   ELSE IF n <= Size(Len(c)) THEN UnitsOf(d, c)[n] ELSE Blank
  BY <1>6, <1>9, Zenon DEF Written, c
<1>12. /\ Linked(e.next, D[p]) /\ e \in Disk
       /\ UnitsOf(d, c) \in Seq(Unit) /\ Len(UnitsOf(d, c)) = Size(Len(c)) /\ Size(Len(c)) \in Nat
  <2>1. Linked(e.next, D[p]) /\ e \in Disk
    BY <1>2, <1>11, SoundFacts
  <2>2. Linked(d.next, c)
    BY <1>1, <1>2 DEF c
  <2>. QED
    BY <1>1, <2>1, <2>2, UnitsFacts
<1>13. /\ UnitsOf(e, D[p]) \in Seq(Unit) /\ Len(UnitsOf(e, D[p])) = Size(Len(D[p]))
       /\ Size(Len(D[p])) \in Nat /\ D[p][j] \in Blocks
  BY <1>12, UnitsFacts, LinkedFacts
<1>14. PICK l \in Nat : l = Reach(f.length, f.pos) /\ l = IF f.length > f.pos THEN f.length ELSE f.pos + 1
  BY <1>3 DEF Reach
<1>15. l <= Size(Len(D[p])) /\ f.pos + 1 <= l
  BY <1>2, <1>3, <1>11, <1>12, <1>13, <1>14
<1>16. TextWith(f.text, f.pos, unit) \in Seq(DataUnit)
       /\ TextWith(f.text, f.pos, unit) = SubSeq(UnitsOf(e, D[p]), 1, l)
  <2>1. Renewed(UnitsOf(d, c), f.pos, unit, UnitsOf(e, D[p]))
    BY <1>11, <1>12, <1>13 DEF Renewed
  <2>2. Rewritten(UnitsOf(d, c), f.length, f.text, f.pos, unit, UnitsOf(e, D[p]))
    BY <1>2, <1>3, <1>5, <1>7, <1>12, <1>13, <1>14, <1>15, <2>1 DEF Rewritten
  <2>3. /\ TextWith(f.text, f.pos, unit) \in Seq(DataUnit)
        /\ TextWith(f.text, f.pos, unit) = SubSeq(UnitsOf(e, D[p]), 1, Reach(f.length, f.pos))
    BY <2>2, TextPut
  <2>. QED
    BY <1>14, <2>3, Zenon
<1>17. PICK text \in Seq(DataUnit) : text = TextWith(f.text, f.pos, unit)
  BY <1>16
<1>18. g = Wrote(f, D[p][j], i, text)
  <2>1. Moved(f, D[p][j], i).text = f.text
    BY <1>2 DEF Moved, File
  <2>2. g = WithText(Moved(f, D[p][j], i), TextWith(Moved(f, D[p][j], i).text, f.pos, unit))
    BY <1>b, <1>10, Zenon
  <2>. QED
    BY <1>17, <2>1, <2>2, Zenon DEF Wrote
<1>19. text \in Seq(Unit)
  <2>1. Unit = Unit \cup DataUnit
    BY DEF Unit
  <2>. QED
    BY <2>1
<1>20. /\ g \in File /\ g.path = p /\ g.first = f.first /\ g.block = D[p][j] /\ g.offset = i
       /\ g.pos = f.pos + 1 /\ g.length = l /\ g.dir = FALSE /\ g.modified = TRUE /\ g.text = text
  <2>1. IsWrote(f, D[p][j], i, text, g)
    <3>1. PICK b \in Blocks : b = D[p][j]
      BY <1>13
    <3>2. f \in File
      BY <1>2
    <3>3. IsWrote(f, b, i, text, Wrote(f, b, i, text))
      BY <1>19, <3>2, WroteFacts
    <3>. QED
      BY <1>18, <3>1, <3>3
  <2>. QED
    BY <1>2, <1>14, <2>1 DEF IsWrote, p
<1>21. InPlace(e, D[p], g)
  <2>1. j \in 1 .. Len(D[p]) /\ g.block = D[p][j] /\ At(j, g.offset) = g.pos
    BY <1>10, <1>20
  <2>2. g.pos <= g.length /\ g.text \in Seq(DataUnit) /\ g.text = SubSeq(UnitsOf(e, D[p]), 1, g.length)
    BY <1>15, <1>16, <1>17, <1>20, ZenonT(60)
  <2>. QED
    BY <2>1, <2>2 DEF InPlace
<1>22. OpenFile(e, P, D, S, g)
  <2>1. g.path # <<>>
    BY <1>2, <1>20 DEF Directories
  <2>. QED
    BY <1>2, <1>11, <1>15, <1>20, <1>21, <2>1 DEF OpenFile
<1>23. \A q \in P : Size(Len(D[q])) \in Nat
  <2>. SUFFICES ASSUME NEW q \in P
                PROVE  Size(Len(D[q])) \in Nat
    OBVIOUS
  <2>1. Linked(e.next, D[q])
    BY <1>11, SoundFacts
  <2>. QED
    BY <1>12, <2>1, UnitsFacts
<1>24. ASSUME NEW k \in Handles, k # h, o[k] # NoFile
       PROVE  OpenFile(e, P, D, S, o[k])
  <2>1. OpenFile(d, P, C, S, o[k]) /\ o[k].path \in P
    BY <1>1, <1>24 DEF OpenFile
  <2>2. o[k].path # p
    BY <1>24 DEF p, f
  <2>3. Kept(d, C, e, D, P \ {p})
    <3>. SUFFICES ASSUME NEW q \in P, q # p
                  PROVE  /\ D[q][1] = C[q][1] /\ Size(Len(C[q])) <= Size(Len(D[q]))
                         /\ q \notin Directories => D[q] = C[q] /\ UnitsOf(e, D[q]) = UnitsOf(d, C[q])
      BY DEF Kept
    <3>. QED
      BY <1>1, <1>11
  <2>4. o[k].path \in S \cup {<<>>} \/ o[k].modified
    BY <2>1 DEF OpenFile
  <2>5. OpenFile(e, P \ {p}, D, S, o[k])
    BY <1>1, <1>23, <2>1, <2>2, <2>3, <2>4, OpenSame
  <2>. QED
    BY <2>5 DEF OpenFile
<1>25. \A k \in Handles : k # h => o[k].path # p
  BY DEF p, f
<1>26. Opens(e, P, D, S, [o EXCEPT ![h] = g])
  <2>1. \A q \in P : \/ q = <<>> \/ q \in S \/ (g # NoFile /\ g.path = q)
                     \/ \E k \in Handles : k # h /\ o[k].path = q
    <3>1. g # NoFile
      BY <1>1, <1>2, <1>20 DEF NoFile, Nobody
    <3>. QED
      BY <1>1, <1>20, <3>1 DEF Opens, p, f
  <2>2. \A k \in Handles : k # h /\ o[k] # NoFile => OpenFile(e, P, D, S, o[k])
    BY <1>24
  <2>3. \A k \in Handles : k # h /\ o[k] # NoFile /\ (g.modified \/ o[k].modified) =>
                           o[k].path # g.path
    BY <1>20, <1>25
  <2>. QED
    <3>1. Opens(d, P, C, S, o) /\ Nobody \notin P
      BY <1>1
    <3>2. g # NoFile => /\ OpenFile(e, P, D, S, g)
                        /\ \A k \in Handles : k # h /\ o[k] # NoFile /\ (g.modified \/ o[k].modified) =>
                                              o[k].path # g.path
      BY <1>22, <2>3
    <3>. QED
      BY <2>1, <2>2, <3>1, <3>2, OpensSet
<1>27. Holds(e, P, D, S, T)
  BY <1>1, <1>2, <1>9, StoreWrite
<1>28. DOMAIN o = Handles /\ \A k \in Handles : [o EXCEPT ![h] = g][k] = IF k = h THEN g ELSE o[k]
  BY <1>1
<1>29. Contents(e, D, S, T, [o EXCEPT ![h] = g], cont)
  <2>. SUFFICES ASSUME NEW q \in S, q # <<DirectoryName>>
                PROVE  \/ Busy([o EXCEPT ![h] = g], q)
                       \/ cont[q] = SubSeq(UnitsOf(e, D[q]), 1, T[q].length)
    BY <1>1 DEF Contents
  <2>1. q \in P
    BY <1>1 DEF Holds
  <2>2. CASE q = p
    BY <1>20, <1>28, <2>2 DEF Busy
  <2>3. CASE q # p
    <3>1. Busy(o, q) => Busy([o EXCEPT ![h] = g], q)
      BY <1>28, <2>3 DEF Busy, p, f
    <3>2. UnitsOf(e, D[q]) = UnitsOf(d, C[q])
      BY <1>11, <2>1, <2>3
    <3>. QED
      BY <1>1, <3>1, <3>2 DEF Contents
  <2>. QED
    BY <2>2, <2>3
<1>. QED
  BY <1>11, <1>26, <1>27, <1>29 DEF Good, GoodNow

\* OS_fclose of a file that was only read
LEMMA CloseSame ==
    ASSUME NEW d, NEW o, NEW cont, NEW P, NEW C, NEW Own, NEW S, NEW T,
           Good(d, o, cont, P, C, Own, S, T), NEW h \in Handles, o[h] # NoFile, ~ o[h].modified
    PROVE  Good(d, [o EXCEPT ![h] = NoFile], cont, P, C, Own, S, T)
<1>1. /\ Sound(d, P, C, Own) /\ Holds(d, P, C, S, T) /\ Opens(d, P, C, S, o)
      /\ Contents(d, C, S, T, o, cont) /\ Nobody \notin P /\ DOMAIN o = Handles
      /\ \A k \in Handles : o[k] # NoFile => OpenFile(d, P, C, S, o[k])
  BY GoodFacts
<1>2. o[h].path \in S \cup {<<>>}
  BY <1>1 DEF OpenFile
<1>3. \A p \in P : \/ p = <<>> \/ p \in S \/ \E k \in Handles : k # h /\ o[k].path = p
  BY <1>1, <1>2 DEF Opens
<1>4. PICK g : g = NoFile
  OBVIOUS
<1>5. Opens(d, P, C, S, [o EXCEPT ![h] = g])
  <2>1. \A k \in Handles : k # h /\ o[k] # NoFile => OpenFile(d, P, C, S, o[k])
    BY <1>1
  <2>2. \A p \in P : \/ p = <<>> \/ p \in S \/ (g # NoFile /\ g.path = p)
                     \/ \E k \in Handles : k # h /\ o[k].path = p
    BY <1>3
  <2>. QED
    BY <1>1, <1>4, <2>1, <2>2, OpensSet
<1>6. \A p \in S : Busy(o, p) => Busy([o EXCEPT ![h] = g], p)
  <2>1. \A k \in Handles : [o EXCEPT ![h] = g][k] = IF k = h THEN g ELSE o[k]
    BY <1>1
  <2>. QED
    BY <2>1 DEF Busy
<1>7. Contents(d, C, S, T, [o EXCEPT ![h] = g], cont)
  BY <1>1, <1>6 DEF Contents
<1>. QED
  BY <1>1, <1>4, <1>5, <1>7 DEF Good

\* OS_fclose of a file that was written: its path now holds its text
LEMMA CloseGood ==
    ASSUME NEW d, NEW o, NEW cont, NEW P, NEW C, NEW Own, NEW S, NEW T,
           Good(d, o, cont, P, C, Own, S, T), NEW h \in Handles, o[h] # NoFile, o[h].modified,
           NEW e, e = Put(d, FileFindRecursive(d, o[h].path).dir, Entry(o[h])).d,
           NEW cont2, DOMAIN cont2 = DOMAIN cont \cup {o[h].path},
           \A p \in DOMAIN cont2 : cont2[p] = IF p # o[h].path THEN cont[p]
                                              ELSE IF o[h].dir THEN <<DirectoryMark>> ELSE o[h].text
    PROVE  GoodNow(e, [o EXCEPT ![h] = NoFile], cont2)
<1>. DEFINE f == o[h]
            path == f.path
            unit == Entry(f)
            S2 == S \cup {path}
            T2 == Entered(S, T, path, unit)
<1>1. /\ Sound(d, P, C, Own) /\ Holds(d, P, C, S, T) /\ Opens(d, P, C, S, o)
      /\ Contents(d, C, S, T, o, cont) /\ Nobody \notin P /\ DOMAIN o = Handles
      /\ \A k \in Handles : o[k] # NoFile => OpenFile(d, P, C, S, o[k])
      /\ \A p \in P : Size(Len(C[p])) \in Nat
  BY GoodFacts
<1>2. OpenFile(d, P, C, S, f) /\ f \in File /\ path \in P /\ f.first = C[path][1]
      /\ f.length <= Size(Len(C[path]))
  BY <1>1 DEF OpenFile
<1>3. path \in Paths /\ path # <<>>
  BY <1>2, FileFacts DEF OpenFile
<1>4. (f.dir <=> path = <<DirectoryName>>) /\ (f.dir => f.length = 0) /\ (~ f.dir => InPlace(d, C[path], f))
      /\ f.dir \in BOOLEAN /\ f.length \in Nat /\ f.first \in Blocks
  BY <1>2, <1>3, FileFacts DEF OpenFile, Directories
<1>. HIDE DEF f, path
<1>5. /\ unit \in EntryUnit /\ unit.name = Last(path) /\ unit.valid = TRUE /\ unit.block = f.first
      /\ unit.length = f.length /\ unit.dir = f.dir
  <2>1. Last(path) \in Names
    BY <1>3, PathFacts
  <2>. QED
    BY <1>4, <2>1 DEF EntryUnit, Entry, Names, path
<1>. HIDE DEF unit
<1>6. SUFFICES ASSUME e.defect # "overrun"
               PROVE  GoodNow(e, [o EXCEPT ![h] = NoFile], cont2)
  BY DEF GoodNow
<1>7. PICK D, O : Sound(e, P, D, O) /\ Kept(d, C, e, D, P) /\ Holds(e, P, D, S2, T2)
  <2>1. e = Put(d, FileFindRecursive(d, path).dir, unit).d
    BY DEF path, f, unit
  <2>2. path \in P \cap Paths /\ unit.valid /\ unit.block = C[path][1]
        /\ (unit.dir <=> path = <<DirectoryName>>)
        /\ unit.length <= Size(Len(C[path])) /\ (path = <<DirectoryName>> => unit.length = 0)
    BY <1>2, <1>3, <1>4, <1>5
  <2>. QED
    BY <1>1, <1>5, <1>6, <2>1, <2>2, StoreClose
<1>8. S2 = S \cup {path} /\ \A p \in S2 : T2[p] = IF p = path THEN unit ELSE T[p]
  BY <1>5 DEF Entered
<1>. HIDE DEF S2, T2
<1>9. \A p \in P : Size(Len(D[p])) \in Nat
  BY <1>7, HoldsFacts
<1>10. ASSUME NEW k \in Handles, k # h, o[k] # NoFile
       PROVE  OpenFile(e, P, D, S2, o[k])
  <2>1. OpenFile(d, P, C, S, o[k])
    BY <1>1, <1>10
  <2>2. o[k].path \in P /\ (o[k].path \in S2 \cup {<<>>} \/ o[k].modified)
    BY <1>8, <2>1 DEF OpenFile
  <2>3. Size(Len(C[o[k].path])) \in Nat /\ Size(Len(D[o[k].path])) \in Nat
    BY <1>1, <1>9, <2>2
  <2>. QED
    BY <1>7, <2>1, <2>2, <2>3, OpenSame
<1>11. PICK g : g = NoFile
  OBVIOUS
<1>12. Opens(e, P, D, S2, [o EXCEPT ![h] = g])
  <2>1. \A k \in Handles : k # h /\ o[k] # NoFile => OpenFile(e, P, D, S2, o[k])
    BY <1>10
  <2>2. \A p \in P : \/ p = <<>> \/ p \in S2 \/ (g # NoFile /\ g.path = p)
                     \/ \E k \in Handles : k # h /\ o[k].path = p
    BY <1>1, <1>8 DEF Opens, path, f
  <2>3. Opens(d, P, C, S, o) /\ Nobody \notin P
    BY <1>1
  <2>. QED
    BY <1>11, <2>1, <2>2, <2>3, OpensSet
<1>13. \A p : p # path /\ Busy(o, p) => Busy([o EXCEPT ![h] = g], p)
  <2>1. \A k \in Handles : [o EXCEPT ![h] = g][k] = IF k = h THEN g ELSE o[k]
    BY <1>1
  <2>. QED
    BY <2>1 DEF Busy, path, f
<1>14. DOMAIN cont2 = S2 /\ \A p \in S2 : cont2[p] = IF p # path THEN cont[p]
                                                    ELSE IF f.dir THEN <<DirectoryMark>> ELSE f.text
  BY <1>1, <1>8 DEF Contents, path, f
<1>15. ASSUME NEW p \in S2
       PROVE  IF p = <<DirectoryName>> THEN cont2[p] = <<DirectoryMark>>
              ELSE /\ cont2[p] \in Seq(DataUnit)
                   /\ \/ Busy([o EXCEPT ![h] = g], p)
                      \/ cont2[p] = SubSeq(UnitsOf(e, D[p]), 1, T2[p].length)
  <2>1. p \in P /\ p # <<>>
    BY <1>7 DEF Holds
  <2>2. CASE p = <<DirectoryName>>
    <3>1. CASE p = path
      BY <1>4, <1>14, <2>2, <3>1
    <3>2. CASE p # path
      BY <1>1, <1>8, <1>14, <2>2, <3>2 DEF Contents
    <3>. QED
      BY <3>1, <3>2
  <2>3. CASE p # <<DirectoryName>>
    <3>1. UnitsOf(e, D[p]) = UnitsOf(d, C[p])
      BY <1>7, <2>1, <2>3 DEF Kept, Directories
    <3>2. CASE p = path
      <4>1. cont2[p] = f.text /\ T2[p].length = f.length
        BY <1>4, <1>5, <1>8, <1>14, <2>3, <3>2
      <4>2. f.text \in Seq(DataUnit) /\ f.text = SubSeq(UnitsOf(d, C[p]), 1, f.length)
        BY <1>4, <2>3, <3>2 DEF InPlace
      <4>. QED
        BY <2>3, <3>1, <4>1, <4>2
    <3>3. CASE p # path
      <4>1. p \in S /\ cont2[p] = cont[p] /\ T2[p] = T[p]
        BY <1>8, <1>14, <3>3
      <4>2. cont[p] \in Seq(DataUnit)
            /\ (Busy(o, p) \/ cont[p] = SubSeq(UnitsOf(d, C[p]), 1, T[p].length))
        BY <1>1, <2>3, <4>1 DEF Contents
      <4>3. Busy(o, p) => Busy([o EXCEPT ![h] = g], p)
        BY <1>13, <3>3
      <4>. QED
        BY <2>3, <3>1, <4>1, <4>2, <4>3
    <3>. QED
      BY <3>2, <3>3
  <2>. QED
    BY <2>2, <2>3
<1>16. Contents(e, D, S2, T2, [o EXCEPT ![h] = g], cont2)
  BY <1>14, <1>15 DEF Contents
<1>. QED
  BY <1>7, <1>11, <1>12, <1>16 DEF Good, GoodNow

\* OS_fdelete of a path that no file that is open has
Cleared(e, o, cont, P, C, Own, S, T, path) ==
    Good(e, o, cont, P, C, Own, S, T) /\ path \notin P

Lessened(cont, path, cont2) ==
    DOMAIN cont2 = DOMAIN cont \ {path} /\ \A p \in DOMAIN cont2 : cont2[p] = cont[p]

Unused(o, P, S, path) ==
    /\ \A k \in Handles : o[k].path # path
    /\ path \in S /\ path = <<DirectoryName>> => \A p \in P : Len(p) # 2

LEMMA ClearGood ==
    ASSUME NEW d, NEW o, NEW cont, NEW P, NEW C, NEW Own, NEW S, NEW T,
           Good(d, o, cont, P, C, Own, S, T), NEW path \in Paths, Unused(o, P, S, path),
           NEW e, e = OS_fdelete(d, path), NEW cont2, Lessened(cont, path, cont2)
    PROVE  \/ e.defect = "overrun" /\ e \in Disk
           \/ \E P2, C2, O2, S2, T2 : Cleared(e, o, cont2, P2, C2, O2, S2, T2, path)
<1>. SUFFICES ASSUME path \in S /\ path = <<DirectoryName>> => \A p \in P : Len(p) # 2,
                     \A k \in Handles : o[k].path # path,
                     DOMAIN cont2 = DOMAIN cont \ {path}, \A p \in DOMAIN cont2 : cont2[p] = cont[p]
              PROVE  \/ e.defect = "overrun" /\ e \in Disk
                     \/ \E P2, C2, O2, S2, T2 : Cleared(e, o, cont2, P2, C2, O2, S2, T2, path)
  BY Zenon DEF Unused, Lessened
<1>1. /\ Sound(d, P, C, Own) /\ Holds(d, P, C, S, T) /\ Opens(d, P, C, S, o)
      /\ Contents(d, C, S, T, o, cont) /\ Nobody \notin P /\ DOMAIN o = Handles
      /\ \A k \in Handles : o[k] # NoFile => OpenFile(d, P, C, S, o[k])
      /\ \A p \in P : Size(Len(C[p])) \in Nat
  BY GoodFacts
<1>2. path # <<>>
  BY PathFacts
<1>3. CASE path \notin S
  <2>1. FileFindRecursive(d, path).rc # 0
    <3>1. FileFindRecursive(d, path).rc
             = IF Up(path) \in P /\ Up(path) \in S \cup {<<>>} THEN -1 ELSE -2
      BY <1>1, <1>3, FindIs
    <3>. QED
      BY <3>1
  <2>2. e = d
    BY <2>1 DEF OS_fdelete, DeleteFound
  <2>3. path \notin P
    BY <1>1, <1>2, <1>3 DEF Opens
  <2>4. Contents(d, C, S, T, o, cont2)
    BY <1>1, <1>3 DEF Contents
  <2>5. Cleared(e, o, cont2, P, C, Own, S, T, path)
    BY <1>1, <2>2, <2>3, <2>4 DEF Good, Cleared
  <2>. QED
    BY <2>5
<1>4. CASE path \in S
  <2>. DEFINE Q == P \ {path}
              S2 == S \ {path}
  <2>1. SUFFICES ASSUME ~ (e.defect = "overrun" /\ e \in Disk)
                 PROVE  \E P2, C2, O2, S3, T2 : Cleared(e, o, cont2, P2, C2, O2, S3, T2, path)
    OBVIOUS
  <2>2. PICK D, O, T2 : /\ Sound(e, Q, D, O) /\ Kept(d, C, e, D, Q) /\ Holds(e, Q, D, S2, T2)
                        /\ \A p \in S2 : T2[p] = T[p]
    <3>1. path = <<DirectoryName>> => \A p \in P : Len(p) # 2
      BY <1>4
    <3>2. Sound(d, P, C, Own) /\ Holds(d, P, C, S, T)
      BY <1>1
    <3>3. PICK D, O, T2 : Deleted(d, P, C, S, T, path, e, D, O, T2)
      BY <1>4, <2>1, <3>1, <3>2, StoreDelete
    <3>. QED
      BY <3>3, Zenon DEF Deleted
  <2>3. \A p \in Q : p \in P /\ p # path
    OBVIOUS
  <2>4. \A p \in P : p # path => p \in Q
    OBVIOUS
  <2>5. \A p : p \in S2 <=> p \in S /\ p # path
    OBVIOUS
  <2>6. path \notin Q
    OBVIOUS
  <2>. HIDE DEF Q, S2
  <2>7. \A p \in Q : Size(Len(D[p])) \in Nat
    BY <2>2, HoldsFacts
  <2>8. ASSUME NEW k \in Handles, o[k] # NoFile
        PROVE  OpenFile(e, Q, D, S2, o[k])
    <3>1. OpenFile(d, P, C, S, o[k]) /\ o[k].path # path
      BY <1>1, <2>8
    <3>2. o[k].path \in P /\ (o[k].path \in S \cup {<<>>} \/ o[k].modified)
      BY <3>1 DEF OpenFile
    <3>3. o[k].path \in Q /\ (o[k].path \in S2 \cup {<<>>} \/ o[k].modified)
      BY <2>4, <2>5, <3>1, <3>2
    <3>4. Size(Len(C[o[k].path])) \in Nat /\ Size(Len(D[o[k].path])) \in Nat
      BY <1>1, <2>7, <3>2, <3>3
    <3>. QED
      BY <2>2, <3>1, <3>3, <3>4, OpenSame
  <2>9. Opens(e, Q, D, S2, o)
    <3>1. \A p \in Q : p = <<>> \/ p \in S2 \/ \E k \in Handles : o[k].path = p
      BY <1>1, <2>3, <2>5 DEF Opens
    <3>. QED
      BY <1>1, <2>8, <3>1 DEF Opens
  <2>10. DOMAIN cont2 = S2
    BY <1>1 DEF Contents, S2
  <2>11. ASSUME NEW p \in S2
         PROVE  IF p = <<DirectoryName>> THEN cont2[p] = <<DirectoryMark>>
                ELSE /\ cont2[p] \in Seq(DataUnit)
                     /\ Busy(o, p) \/ cont2[p] = SubSeq(UnitsOf(e, D[p]), 1, T2[p].length)
    <3>1. p \in S /\ cont2[p] = cont[p] /\ T2[p] = T[p] /\ p \in Q /\ p # <<>>
      BY <2>2, <2>5, <2>10 DEF Holds
    <3>2. p # <<DirectoryName>> => UnitsOf(e, D[p]) = UnitsOf(d, C[p])
      BY <2>2, <3>1 DEF Kept, Directories
    <3>3. IF p = <<DirectoryName>> THEN cont[p] = <<DirectoryMark>>
          ELSE /\ cont[p] \in Seq(DataUnit)
               /\ Busy(o, p) \/ cont[p] = SubSeq(UnitsOf(d, C[p]), 1, T[p].length)
      BY <1>1, <3>1 DEF Contents
    <3>. QED
      BY <3>1, <3>2, <3>3
  <2>12. Contents(e, D, S2, T2, o, cont2)
    BY <2>10, <2>11 DEF Contents
  <2>13. Cleared(e, o, cont2, Q, D, O, S2, T2, path)
    BY <2>2, <2>6, <2>9, <2>12 DEF Good, Cleared
  <2>. QED
    BY <2>13
<1>. QED
  BY <1>3, <1>4

LEMMA PathPrefixes ==
    ASSUME NEW path \in Paths
    PROVE  /\ IsPrefix(path, path)
           /\ \A p \in Paths : path = <<DirectoryName>> /\ Len(p) = 2 =>
                               IsPrefix(path, p) /\ IsStrictPrefix(path, p)
<1>1. IsPrefix(path, path)
  <2>1. Len(path) \in Nat
    <3>1. CASE Len(path) = 1
      BY <3>1
    <3>2. CASE Len(path) # 1
      BY <3>2, PathFacts
    <3>. QED
      BY <3>1, <3>2
  <2>. QED
    BY <2>1 DEF IsPrefix
<1>2. ASSUME NEW p \in Paths, path = <<DirectoryName>>, Len(p) = 2
      PROVE  IsPrefix(path, p) /\ IsStrictPrefix(path, p)
  <2>1. PICK n \in FileNames : p = <<DirectoryName, n>>
    <3>1. \A x : Len(<<x>>) = 1
      OBVIOUS
    <3>. QED
      BY <1>2, <3>1 DEF Paths
  <2>2. Len(path) = 1 /\ Len(p) = 2 /\ path # p
    BY <1>2
  <2>3. SubSeq(path, 1, 1) = SubSeq(p, 1, 1)
    BY <1>2, <2>1
  <2>. QED
    BY <2>2, <2>3 DEF IsPrefix, IsStrictPrefix
<1>. QED
  BY <1>1, <1>2

\* OS_fdelete
LEMMA DeleteGood ==
    ASSUME NEW d, NEW o, NEW cont, NEW P, NEW C, NEW Own, NEW S, NEW T,
           Good(d, o, cont, P, C, Own, S, T), NEW path \in Paths,
           \A k \in Handles : o[k] = NoFile \/ ~ IsPrefix(path, o[k].path),
           \A p \in DOMAIN cont : ~ IsStrictPrefix(path, p),
           NEW e, e = OS_fdelete(d, path),
           NEW cont2, DOMAIN cont2 = DOMAIN cont \ {path}, \A p \in DOMAIN cont2 : cont2[p] = cont[p]
    PROVE  GoodNow(e, o, cont2)
<1>1. /\ Holds(d, P, C, S, T) /\ Opens(d, P, C, S, o) /\ Contents(d, C, S, T, o, cont) /\ Nobody \notin P
      /\ \A k \in Handles : o[k] # NoFile => OpenFile(d, P, C, S, o[k])
  BY GoodFacts
<1>2. NoFile.path = Nobody /\ path # Nobody
  BY PathFacts DEF NoFile, Nobody
<1>3. \A k \in Handles : o[k].path # path
  BY <1>2, PathPrefixes
<1>4. ASSUME path = <<DirectoryName>>, NEW p \in P
      PROVE  Len(p) # 2
  <2>1. SUFFICES ASSUME Len(p) = 2
                 PROVE  FALSE
    OBVIOUS
  <2>2. p \in Paths /\ p # <<>> /\ p # Nobody
    <3>1. p \in Paths \cup {<<>>} /\ Len(<<>>) = 0
      BY <1>1 DEF Holds
    <3>. QED
      BY <1>1, <2>1, <3>1
  <2>3. IsPrefix(path, p) /\ IsStrictPrefix(path, p)
    BY <1>4, <2>1, <2>2, PathPrefixes
  <2>4. p \notin S
    BY <1>1, <2>3 DEF Contents
  <2>5. PICK k \in Handles : o[k].path = p
    BY <1>1, <2>2, <2>4 DEF Opens
  <2>6. o[k] # NoFile
    BY <1>2, <2>2, <2>5
  <2>. QED
    BY <2>3, <2>5, <2>6
<1>5. \/ e.defect = "overrun" /\ e \in Disk
      \/ \E P2, C2, O2, S2, T2 : Cleared(e, o, cont2, P2, C2, O2, S2, T2, path)
  <2>1. Unused(o, P, S, path) /\ Lessened(cont, path, cont2)
    BY <1>3, <1>4 DEF Unused, Lessened
  <2>. QED
    BY <2>1, ClearGood
<1>. QED
  BY <1>5 DEF Cleared, GoodNow

\* One more open file, on the disk as it is
LEMMA AddGood ==
    ASSUME NEW d, NEW o, NEW cont, NEW P, NEW C, NEW Own, NEW S, NEW T,
           Good(d, o, cont, P, C, Own, S, T), NEW h \in Handles, o[h] = NoFile,
           NEW g, OpenFile(d, P, C, S, g), ~ g.modified,
           \A k \in Handles : o[k] # NoFile /\ o[k].path = g.path => ~ o[k].modified
    PROVE  Good(d, [o EXCEPT ![h] = g], cont, P, C, Own, S, T)
<1>1. /\ Sound(d, P, C, Own) /\ Holds(d, P, C, S, T) /\ Opens(d, P, C, S, o)
      /\ Contents(d, C, S, T, o, cont) /\ Nobody \notin P /\ DOMAIN o = Handles
      /\ \A k \in Handles : o[k] # NoFile => OpenFile(d, P, C, S, o[k])
  BY GoodFacts
<1>2. NoFile.path = Nobody
  BY DEF NoFile, Nobody
<1>3. Opens(d, P, C, S, [o EXCEPT ![h] = g])
  <2>1. \A k \in Handles : k # h /\ o[k] # NoFile => OpenFile(d, P, C, S, o[k])
    BY <1>1
  <2>2. \A p \in P : \/ p = <<>> \/ p \in S \/ (g # NoFile /\ g.path = p)
                     \/ \E k \in Handles : k # h /\ o[k].path = p
    BY <1>1, <1>2 DEF Opens
  <2>3. Opens(d, P, C, S, o) /\ Nobody \notin P
    BY <1>1
  <2>4. g # NoFile => /\ OpenFile(d, P, C, S, g)
                      /\ \A k \in Handles : k # h /\ o[k] # NoFile /\ (g.modified \/ o[k].modified) =>
                                            o[k].path # g.path
    OBVIOUS
  <2>. QED
    BY <2>1, <2>2, <2>3, <2>4, OpensSet
<1>4. \A p \in S : Busy(o, p) => Busy([o EXCEPT ![h] = g], p)
  <2>1. \A k \in Handles : [o EXCEPT ![h] = g][k] = IF k = h THEN g ELSE o[k]
    BY <1>1
  <2>2. \A p \in S : p # Nobody
    BY <1>1 DEF Holds
  <2>. QED
    BY <1>2, <2>1, <2>2 DEF Busy
<1>5. Contents(d, C, S, T, [o EXCEPT ![h] = g], cont)
  BY <1>1, <1>4 DEF Contents
<1>. QED
  BY <1>1, <1>3, <1>5 DEF Good

\* What OS_fopen makes of the file it has found or made
OpenedAs(f, isdir, text) == [f EXCEPT !.dir = @ \/ isdir, !.text = text]

OldFile(path, first, length, dir, b, x, n, text, g) ==
    /\ g \in File /\ g.path = path /\ g.first = first /\ g.block = b /\ g.offset = x /\ g.pos = n
    /\ g.length = length /\ g.dir = dir /\ ~ g.modified /\ g.text = text

LEMMA OpenedIs ==
    ASSUME NEW path \in Paths, NEW first \in Blocks, NEW length \in Nat, NEW dir \in BOOLEAN,
           NEW f, f = Opened(path, first, length, dir)
    PROVE  /\ f \in File /\ f.path = path /\ f.first = first /\ f.block = first /\ f.offset = 0
           /\ f.pos = 0 /\ f.length = length /\ f.dir = dir /\ ~ f.modified
<1>1. Opened(path, first, length, dir) \in File
  BY RootIs
<1>. QED
  BY <1>1 DEF Opened

LEMMA OldFacts ==
    ASSUME NEW path \in Paths, NEW first \in Blocks, NEW length \in Nat, NEW dir \in BOOLEAN,
           NEW b \in Blocks, NEW x \in 0 .. BlockUnits, NEW n \in Nat, NEW text \in Seq(Unit),
           NEW g, g = OpenedAs(Stepped(Opened(path, first, length, dir), b, x, n), FALSE, text)
    PROVE  OldFile(path, first, length, dir, b, x, n, text, g)
<1>1. PICK f : f = Opened(path, first, length, dir)
  OBVIOUS
<1>2. f \in File /\ f.path = path /\ f.first = first /\ f.length = length /\ f.dir = dir /\ ~ f.modified
  <2>1. f \in File /\ f.path = path /\ f.first = first /\ f.length = length
    BY <1>1, OpenedIs
  <2>2. f.dir = dir
    BY <1>1, OpenedIs
  <2>3. ~ f.modified
    BY <1>1, OpenedIs
  <2>. QED
    BY <2>1, <2>2, <2>3
<1>3. PICK s : s = Stepped(f, b, x, n)
  OBVIOUS
<1>4. /\ s \in File /\ s.path = path /\ s.first = first /\ s.block = b /\ s.offset = x /\ s.pos = n
      /\ s.length = length /\ s.dir = dir /\ ~ s.modified
  BY <1>2, <1>3, SteppedFacts, SMTT(60)
<1>5. g = [s EXCEPT !.dir = dir, !.text = text]
  <2>1. (s.dir \/ FALSE) = dir
    BY <1>4
  <2>2. g = [s EXCEPT !.dir = (s.dir \/ FALSE), !.text = text]
    BY <1>1, <1>3, Zenon DEF OpenedAs
  <2>. QED
    BY <2>1, <2>2, Zenon
<1>. QED
  BY <1>4, <1>5 DEF OldFile, File

LEMMA StepNot ==
    ASSUME NEW path \in Paths, NEW first \in Blocks, NEW length \in Nat, NEW dir \in BOOLEAN
    PROVE  Opened(path, first, length, dir) = Stepped(Opened(path, first, length, dir), first, 0, 0)
<1>1. PICK f : f = Opened(path, first, length, dir)
  OBVIOUS
<1>2. f \in File /\ f.block = first /\ f.offset = 0 /\ f.pos = 0
  BY <1>1, OpenedIs
<1>3. f = Stepped(f, first, 0, 0)
  BY <1>2 DEF File, Stepped
<1>. QED
  BY <1>1, <1>3

\* OS_fopen of a file that exists, at its start or its end
OldOpened(d, e, path, m) ==
    LET f == Opened(path, e.block, e.length, e.dir) IN IF m = "a" THEN Seek(d, f, f.length) ELSE f

Unwritten(o, path) == \A k \in Handles : o[k] # NoFile /\ o[k].path = path => ~ o[k].modified

LEMMA OpenOld ==
    ASSUME NEW d, NEW o, NEW cont, NEW P, NEW C, NEW Own, NEW S, NEW T,
           Good(d, o, cont, P, C, Own, S, T), NEW h \in Handles, o[h] = NoFile, NEW path \in S,
           Unwritten(o, path), NEW m, NEW f1, f1 = OldOpened(d, T[path], path, m),
           NEW g, g = OpenedAs(f1, FALSE, cont[path])
    PROVE  Good(d, [o EXCEPT ![h] = g], cont, P, C, Own, S, T) /\ f1.first # EOF /\ f1 # NoFile
<1>0. PICK f : f = Opened(path, T[path].block, T[path].length, T[path].dir)
  OBVIOUS
<1>17. f1 = IF m = "a" THEN Seek(d, f, f.length) ELSE f
  BY <1>0, Zenon DEF OldOpened
<1>. DEFINE c == C[path]
<1>1. /\ Sound(d, P, C, Own) /\ Holds(d, P, C, S, T) /\ Opens(d, P, C, S, o)
      /\ Contents(d, C, S, T, o, cont) /\ Nobody \notin P /\ d \in Disk
      /\ \A p \in P : Linked(d.next, C[p])
  BY GoodFacts
<1>2. /\ path \in P /\ path \in Paths /\ path # <<>> /\ T[path] \in EntryUnit /\ T[path].block = c[1]
      /\ (T[path].dir <=> path = <<DirectoryName>>)
      /\ T[path].length \in Nat /\ T[path].length <= Size(Len(c))
      /\ path = <<DirectoryName>> => T[path].length = 0
  <2>1. path \in P /\ path \in Paths
    BY <1>1, HoldsFacts
  <2>2. path # <<>>
    BY <2>1, PathFacts
  <2>. QED
    BY <1>1, <2>1, <2>2, HoldsFacts
<1>3. Linked(d.next, c) /\ c[1] \in Blocks /\ c[1] # EOF /\ Size(Len(c)) \in Nat
  <2>1. Linked(d.next, c)
    BY <1>1, <1>2
  <2>2. c[1] \in Blocks
    BY <1>1, <1>2, SoundFacts
  <2>. QED
    BY <1>1, <2>1, <2>2, UnitsFacts, Constants
<1>4. T[path].dir \in BOOLEAN
  BY <1>2, Kinds
<1>. HIDE DEF c
<1>5. PICK first \in Blocks, length \in Nat, dir \in BOOLEAN :
         first = c[1] /\ length = T[path].length /\ dir = T[path].dir
  BY <1>2, <1>3, <1>4
<1>6. f = Opened(path, first, length, dir) /\ f \in File /\ f.first = first /\ f.length = length
      /\ f.path = path
  <2>1. f = Opened(path, first, length, dir)
    BY <1>0, <1>2, <1>5
  <2>2. Opened(path, first, length, dir).length = length /\ Opened(path, first, length, dir).path = path
    BY DEF Opened
  <2>. QED
    BY <1>2, <2>1, <2>2, RootIs
<1>7. /\ Len(c) \in Nat \ {0} /\ \A i \in 1 .. Len(c) : c[i] \in Blocks
  BY <1>3, LinkedFacts
<1>8. PICK k \in 1 .. Len(c), x \in 0 .. BlockUnits, n \in Nat :
         /\ f1 = Stepped(f, c[k], x, n)
         /\ At(k, x) = n /\ n <= length
  <2>1. CASE m = "a"
    <3>1. length \in 0 .. Size(Len(c))
      BY <1>2, <1>3, <1>5
    <3>2. PICK k \in 1 .. Len(c), x \in 0 .. BlockUnits :
             Seek(d, f, length) = Stepped(f, c[k], x, length) /\ At(k, x) = length
      BY <1>1, <1>3, <1>5, <1>6, <3>1, SeekIs
    <3>. QED
      BY <1>6, <1>17, <2>1, <3>2
  <2>2. CASE m # "a"
    <3>1. 1 \in 1 .. Len(c) /\ 0 \in 0 .. BlockUnits /\ At(1, 0) = 0
      BY <1>7, Constants, Places DEF At
    <3>2. f = Stepped(f, c[1], 0, 0)
      BY <1>2, <1>5, <1>6, StepNot
    <3>. QED
      BY <1>17, <2>2, <3>1, <3>2
  <2>. QED
    BY <2>1, <2>2
<1>9. ~ dir => /\ cont[path] \in Seq(DataUnit)
               /\ cont[path] = SubSeq(UnitsOf(d, c), 1, length)
  <2>1. ~ Busy(o, path)
    <3>1. NoFile.path = Nobody
      BY DEF NoFile, Nobody
    <3>. QED
      BY <1>1, <1>2, <3>1 DEF Busy, Unwritten
  <2>. QED
    BY <1>1, <1>2, <1>5, <2>1 DEF Contents, c
<1>10. cont[path] \in Seq(Unit)
  <2>1. CASE dir
    <3>1. cont[path] = <<DirectoryMark>>
      BY <1>1, <1>2, <1>5, <2>1 DEF Contents
    <3>2. DirectoryMark \in Unit
      BY DEF Unit
    <3>. QED
      BY <3>1, <3>2
  <2>2. CASE ~ dir
    <3>1. Unit = Unit \cup DataUnit
      BY DEF Unit
    <3>. QED
      BY <1>9, <2>2, <3>1
  <2>. QED
    BY <2>1, <2>2
<1>11. PICK text \in Seq(Unit), b \in Blocks : text = cont[path] /\ b = c[k]
  BY <1>7, <1>10
<1>12. OldFile(path, first, length, dir, b, x, n, text, g)
  <2>1. g = OpenedAs(Stepped(Opened(path, first, length, dir), b, x, n), FALSE, text)
    BY <1>6, <1>8, <1>11
  <2>. QED
    BY <1>2, <2>1, OldFacts
<1>13. OpenFile(d, P, C, S, g)
  <2>1. /\ g \in File /\ g.path = path /\ g.first = first /\ g.block = b /\ g.offset = x /\ g.pos = n
        /\ g.length = length /\ g.dir = dir /\ ~ g.modified /\ g.text = text
    BY <1>12 DEF OldFile
  <2>2. ~ g.dir => InPlace(d, c, g)
    BY <1>8, <1>9, <1>11, <2>1 DEF InPlace
  <2>3. g.dir <=> g.path \in Directories
    BY <1>2, <1>5, <2>1 DEF Directories
  <2>. QED
    BY <1>2, <1>5, <2>1, <2>2, <2>3 DEF OpenFile, c
<1>14. g.path = path /\ ~ g.modified
  BY <1>12 DEF OldFile
<1>15. f1.path = path /\ f1.first = first
  <2>1. f1 = Stepped(f, b, x, n)
    BY <1>8, <1>11
  <2>2. f1.path = f.path /\ f1.first = f.first
    BY <1>6, <1>8, <1>11, <2>1, SteppedFacts
  <2>. QED
    BY <1>6, <2>2
<1>16. f1 # NoFile
  BY <1>1, <1>2, <1>15 DEF NoFile, Nobody
<1>. QED
  BY <1>3, <1>5, <1>13, <1>14, <1>15, <1>16, AddGood DEF Unwritten

\* What OS_fopen makes of a new block
Started(f) == [f EXCEPT !.first = f.block, !.modified = TRUE]

WideFile == [path : Paths, first : Link, block : Link, offset : 0 .. BlockUnits,
             pos : Nat, length : Nat, dir : BOOLEAN, modified : BOOLEAN, text : Seq(Unit)]

IsNew(path, b, isdir, g) ==
    /\ g \in File /\ g.path = path /\ g.first = b /\ g.block = b /\ g.offset = 0 /\ g.pos = 0
    /\ g.length = 0 /\ g.dir = isdir /\ g.modified /\ g.text = <<>>

LEMMA NewFacts ==
    ASSUME NEW path \in Paths, NEW b \in Blocks, NEW isdir \in BOOLEAN
    PROVE  /\ Opened(path, EOF, 0, FALSE).block = EOF
           /\ Positioned(Opened(path, EOF, 0, FALSE), b, 0).block = b
           /\ IsNew(path, b, isdir,
                    OpenedAs(Started(Positioned(Opened(path, EOF, 0, FALSE), b, 0)), isdir, <<>>))
           /\ Started(Positioned(Opened(path, EOF, 0, FALSE), b, 0)).first = b
           /\ Started(Positioned(Opened(path, EOF, 0, FALSE), b, 0)) # NoFile
<1>0. EOF \in Link /\ b \in Link /\ 0 \in 0 .. BlockUnits /\ <<>> \in Seq(Unit) /\ 0 \in Nat
  BY Constants DEF Link
<1>1. PICK f : f = Opened(path, EOF, 0, FALSE)
  OBVIOUS
<1>2. /\ f \in WideFile /\ f.path = path /\ f.block = EOF /\ f.pos = 0 /\ f.length = 0 /\ ~ f.dir
      /\ f.text = <<>>
  BY <1>0, <1>1 DEF Opened, WideFile
<1>3. PICK p : p = Positioned(f, b, 0)
  OBVIOUS
<1>4. /\ p \in WideFile /\ p.path = path /\ p.block = b /\ p.offset = 0 /\ p.pos = 0 /\ p.length = 0
      /\ ~ p.dir /\ p.text = <<>>
  BY <1>0, <1>2, <1>3 DEF Positioned, WideFile
<1>5. PICK s : s = Started(p)
  OBVIOUS
<1>6. /\ s \in WideFile /\ s.path = path /\ s.first = b /\ s.block = b /\ s.offset = 0 /\ s.pos = 0
      /\ s.length = 0 /\ ~ s.dir /\ s.modified /\ s.text = <<>>
  <2>1. s = [p EXCEPT !.first = b, !.modified = TRUE]
    BY <1>4, <1>5 DEF Started
  <2>. QED
    BY <1>0, <1>4, <2>1 DEF WideFile
<1>7. PICK g : g = OpenedAs(s, isdir, <<>>)
  OBVIOUS
<1>8. IsNew(path, b, isdir, g)
  <2>1. g = [s EXCEPT !.dir = isdir, !.text = <<>>]
    <3>1. g = [s EXCEPT !.dir = (s.dir \/ isdir), !.text = <<>>]
      BY <1>7, Zenon DEF OpenedAs
    <3>2. (s.dir \/ isdir) = isdir
      BY <1>6
    <3>. QED
      BY <3>1, <3>2, Zenon
  <2>2. g \in WideFile /\ g.path = path /\ g.first = b /\ g.block = b /\ g.offset = 0 /\ g.pos = 0
        /\ g.length = 0 /\ g.modified /\ g.text = <<>>
    BY <1>0, <1>6, <2>1 DEF WideFile
  <2>3. g.dir = isdir
    BY <1>6, <2>1 DEF WideFile
  <2>4. g \in File
    BY <2>2 DEF WideFile, File
  <2>. QED
    BY <2>2, <2>3, <2>4 DEF IsNew
<1>9. s # NoFile
  BY <1>6, PathFacts DEF NoFile, Nobody
<1>. QED
  BY <1>1, <1>2, <1>3, <1>4, <1>5, <1>6, <1>7, <1>8, <1>9

\* OS_fopen of a file that does not exist, when there is memory
LEMMA OpenNew ==
    ASSUME NEW d, NEW o, NEW cont, NEW P, NEW C, NEW Own, NEW S, NEW T,
           Good(d, o, cont, P, C, Own, S, T), NEW h \in Handles, o[h] = NoFile,
           NEW path \in Paths, path \notin P, Len(path) = 2 => <<DirectoryName>> \in S,
           \A k \in Handles : o[k].path # path,
           NEW e, NEW b, NewIn(d, EOF, e, b),
           NEW g, NEW isdir \in BOOLEAN, isdir <=> path = <<DirectoryName>>, IsNew(path, b, isdir, g)
    PROVE  GoodNow(e, [o EXCEPT ![h] = g], cont)
<1>. DEFINE Q == P \cup {path}
<1>1. /\ Sound(d, P, C, Own) /\ Holds(d, P, C, S, T) /\ Opens(d, P, C, S, o)
      /\ Contents(d, C, S, T, o, cont) /\ Nobody \notin P /\ DOMAIN o = Handles
      /\ \A k \in Handles : o[k] # NoFile => OpenFile(d, P, C, S, o[k])
      /\ \A p \in P : Size(Len(C[p])) \in Nat
  BY GoodFacts
<1>2. PICK D, O : /\ Sound(e, Q, D, O) /\ Kept(d, C, e, D, P)
                  /\ Holds(e, Q, D, S, T) /\ D[path][1] = b
  <2>1. Sound(d, P, C, Own) /\ Holds(d, P, C, S, T)
    BY <1>1
  <2>2. \E D, O : /\ Sound(e, P \cup {path}, D, O) /\ Kept(d, C, e, D, P)
                  /\ Holds(e, P \cup {path}, D, S, T) /\ D[path][1] = b
    BY <2>1, StoreNew
  <2>. QED
    BY <2>2
<1>3. path # <<>> /\ path # Nobody
  BY PathFacts
<1>4. \A p \in P : p \in Q
  OBVIOUS
<1>5. path \in Q /\ \A p \in Q : p \in P \/ p = path
  OBVIOUS
<1>. HIDE DEF Q
<1>6. /\ g \in File /\ g.path = path /\ g.first = b /\ g.block = b /\ g.offset = 0 /\ g.pos = 0
      /\ g.length = 0 /\ g.dir = isdir /\ g.modified /\ g.text = <<>>
  BY DEF IsNew
<1>7. /\ \A p \in Q : Size(Len(D[p])) \in Nat
      /\ Linked(e.next, D[path]) /\ Len(D[path]) \in Nat \ {0}
  <2>1. \A p \in Q : Size(Len(D[p])) \in Nat
    BY <1>2, HoldsFacts
  <2>2. Linked(e.next, D[path])
    BY <1>2, <1>5, SoundFacts
  <2>. QED
    BY <2>1, <2>2, LinkedFacts
<1>8. InPlace(e, D[path], g)
  <2>1. 1 \in 1 .. Len(D[path]) /\ At(1, 0) = 0
    BY <1>7, Constants DEF At
  <2>2. g.text = SubSeq(UnitsOf(e, D[path]), 1, g.length) /\ g.text \in Seq(DataUnit)
    <3>1. UnitsOf(e, D[path]) \in Seq(Unit)
      BY <1>2, <1>7, SoundFacts, UnitsFacts
    <3>2. SubSeq(UnitsOf(e, D[path]), 1, 0) = <<>>
      BY <3>1
    <3>3. <<>> \in Seq(DataUnit)
      OBVIOUS
    <3>. QED
      BY <1>6, <3>2, <3>3
  <2>. QED
    BY <1>2, <1>6, <2>1, <2>2 DEF InPlace
<1>9. OpenFile(e, Q, D, S, g)
  <2>1. g.dir <=> g.path \in Directories
    BY <1>3, <1>6 DEF Directories
  <2>2. g.length <= Size(Len(D[path])) /\ g.path \in Q /\ g.first = D[g.path][1] /\ g.path # <<>>
    BY <1>2, <1>3, <1>5, <1>6, <1>7
  <2>. QED
    BY <1>6, <1>8, <2>1, <2>2 DEF OpenFile
<1>10. ASSUME NEW k \in Handles, k # h, o[k] # NoFile
       PROVE  OpenFile(e, Q, D, S, o[k])
  <2>1. OpenFile(d, P, C, S, o[k])
    BY <1>1, <1>10
  <2>2. o[k].path \in P /\ (o[k].path \in S \cup {<<>>} \/ o[k].modified)
    BY <2>1 DEF OpenFile
  <2>3. Size(Len(C[o[k].path])) \in Nat /\ Size(Len(D[o[k].path])) \in Nat
    BY <1>1, <1>4, <1>7, <2>2
  <2>4. OpenFile(e, P, D, S, o[k])
    BY <1>2, <2>1, <2>2, <2>3, OpenSame
  <2>. QED
    BY <1>4, <2>4 DEF OpenFile
<1>11. Opens(e, Q, D, S, [o EXCEPT ![h] = g])
  <2>0. NoFile.path = Nobody
    BY DEF NoFile, Nobody
  <2>1. \A k \in Handles : k # h /\ o[k] # NoFile => OpenFile(e, Q, D, S, o[k])
    BY <1>10
  <2>2. g # NoFile
    BY <1>3, <1>6, <2>0
  <2>3. \A p \in Q : \/ p = <<>> \/ p \in S \/ (g # NoFile /\ g.path = p)
                     \/ \E k \in Handles : k # h /\ o[k].path = p
    <3>. SUFFICES ASSUME NEW p \in Q, p # path, p # <<>>, p \notin S
                  PROVE  \E k \in Handles : k # h /\ o[k].path = p
      BY <1>6, <2>2
    <3>1. p \in P
      BY <1>5
    <3>. QED
      BY <1>1, <2>0, <3>1 DEF Opens
  <2>4. Opens(d, P, C, S, o) /\ Nobody \notin P /\ Nobody \notin Q
    BY <1>1, <1>3, <1>5
  <2>5. g # NoFile => /\ OpenFile(e, Q, D, S, g)
                      /\ \A k \in Handles : k # h /\ o[k] # NoFile /\ (g.modified \/ o[k].modified) =>
                                            o[k].path # g.path
    BY <1>6, <1>9
  <2>. QED
    BY <2>1, <2>3, <2>4, <2>5, OpensSet
<1>12. \A p : p # Nobody /\ Busy(o, p) => Busy([o EXCEPT ![h] = g], p)
  <2>1. \A k \in Handles : [o EXCEPT ![h] = g][k] = IF k = h THEN g ELSE o[k]
    BY <1>1
  <2>2. NoFile.path = Nobody
    BY DEF NoFile, Nobody
  <2>. QED
    BY <2>1, <2>2 DEF Busy
<1>13. Contents(e, D, S, T, [o EXCEPT ![h] = g], cont)
  <2>. SUFFICES ASSUME NEW p \in S, p # <<DirectoryName>>
                PROVE  \/ Busy([o EXCEPT ![h] = g], p)
                       \/ cont[p] = SubSeq(UnitsOf(e, D[p]), 1, T[p].length)
    BY <1>1 DEF Contents
  <2>1. p \in P /\ p # <<>> /\ p # Nobody
    BY <1>1 DEF Holds
  <2>2. UnitsOf(e, D[p]) = UnitsOf(d, C[p])
    BY <1>2, <2>1 DEF Kept, Directories
  <2>. QED
    BY <1>1, <1>12, <2>1, <2>2 DEF Contents
<1>. QED
  BY <1>2, <1>11, <1>13 DEF Good, GoodNow

LEMMA NoMemory ==
    ASSUME NEW path \in Paths
    PROVE  /\ Started(Opened(path, EOF, 0, FALSE)).first = EOF
           /\ Started(Opened(path, EOF, 0, FALSE)) # NoFile
<1>1. PICK f : f = Started(Opened(path, EOF, 0, FALSE))
  OBVIOUS
<1>2. f.first = EOF /\ f.path = path
  BY <1>1 DEF Started, Opened
<1>3. f # NoFile
  <2>1. NoFile.path = Nobody
    BY DEF NoFile, Nobody
  <2>2. path # Nobody
    BY PathFacts
  <2>. QED
    BY <1>2, <2>1, <2>2
<1>. QED
  BY <1>1, <1>2, <1>3

\* What OS_fopen does with what the search found
Result(d, f) == [d |-> d, f |-> f]

LEMMA OpenHit ==
    ASSUME NEW d, NEW s, NEW path, NEW m, s.rc = 0,
           NEW f1, f1 = OldOpened(d, s.entry, path, m)
    PROVE  OpenFound(d, s, path, m) = Result(d, f1)
<1>1. s.rc # -2
  OBVIOUS
<1>. QED
  BY <1>1, Zenon DEF OpenFound, Result, OldOpened

LEMMA OpenMiss ==
    ASSUME NEW d, NEW s, NEW path, NEW m, s.rc # 0, s.rc = -2 \/ m = "r"
    PROVE  OpenFound(d, s, path, m) = Result(d, NoFile)
  BY Zenon DEF OpenFound, Result

LEMMA OpenFresh ==
    ASSUME NEW d, NEW s, NEW path, NEW m, s.rc # 0, s.rc # -2, m # "r",
           NEW n, n = NewBlock(d, Opened(path, EOF, 0, FALSE))
    PROVE  OpenFound(d, s, path, m) = Result(n.d, Started(n.f))
  BY Zenon DEF OpenFound, Result, Started

LEMMA ResultIs ==
    ASSUME NEW d, NEW f
    PROVE  Result(d, f).d = d /\ Result(d, f).f = f
  BY DEF Result

\* A file without a block is written through a null pointer
Failing(r) == IF r.f # NoFile /\ r.f.first = EOF THEN [r.d EXCEPT !.defect = "null"] ELSE r.d

AsOpened(f, isdir, text) == IF f = NoFile THEN NoFile ELSE OpenedAs(f, isdir, text)

\* OS_fopen after a file that is overwritten is gone
Asked(o, cont, S, path, m, isdir, text) ==
    /\ isdir => m = "w" /\ path = <<DirectoryName>>
    /\ path = <<DirectoryName>> => isdir \/ path \in S
    /\ m = "w" => path \notin S
    /\ \A k \in Handles : o[k] # NoFile /\ o[k].path = path => m = "r" /\ ~ o[k].modified
    /\ path \in S => text = cont[path]
    /\ path \notin S => text = <<>>

LEMMA SearchGood ==
    ASSUME NEW d, NEW o, NEW cont, NEW P, NEW C, NEW Own, NEW S, NEW T,
           Good(d, o, cont, P, C, Own, S, T), NEW h \in Handles, o[h] = NoFile,
           NEW path \in Paths, NEW m \in {"r", "w", "a"}, NEW isdir \in BOOLEAN,
           NEW text, Asked(o, cont, S, path, m, isdir, text),
           NEW r, r = OpenFound(d, FileFindRecursive(d, path), path, m)
    PROVE  GoodNow(Failing(r), [o EXCEPT ![h] = AsOpened(r.f, isdir, text)], cont)
<1>. SUFFICES ASSUME isdir => m = "w" /\ path = <<DirectoryName>>,
                     path = <<DirectoryName>> => isdir \/ path \in S,
                     m = "w" => path \notin S,
                     \A k \in Handles : o[k] # NoFile /\ o[k].path = path => m = "r" /\ ~ o[k].modified,
                     path \in S => text = cont[path], path \notin S => text = <<>>
              PROVE  GoodNow(Failing(r), [o EXCEPT ![h] = AsOpened(r.f, isdir, text)], cont)
  BY DEF Asked
<1>1. /\ Sound(d, P, C, Own) /\ Holds(d, P, C, S, T) /\ Opens(d, P, C, S, o)
      /\ Nobody \notin P /\ DOMAIN o = Handles /\ d \in Disk
  BY GoodFacts
<1>0. PICK s : s = FileFindRecursive(d, path)
  OBVIOUS
<1>2. r = OpenFound(d, s, path, m)
  BY <1>0
<1>3. /\ path \in S => s.rc = 0 /\ s.entry = T[path]
      /\ path \notin S => s.rc = IF Up(path) \in P /\ Up(path) \in S \cup {<<>>} THEN -1 ELSE -2
  BY <1>0, <1>1, FindIs
<1>4. CASE path \in S
  <2>2. PICK f1 : f1 = OldOpened(d, T[path], path, m)
    OBVIOUS
  <2>3. r = Result(d, f1)
    <3>1. s.rc = 0 /\ s.entry = T[path]
      BY <1>3, <1>4
    <3>2. OpenFound(d, s, path, m) = Result(d, f1)
      BY <2>2, <3>1, OpenHit
    <3>. QED
      BY <1>2, <3>2, Zenon
  <2>4. m = "w" \/ isdir = FALSE
    OBVIOUS
  <2>5. isdir = FALSE
    BY <1>4, <2>4
  <2>6. PICK g : g = OpenedAs(f1, FALSE, cont[path])
    OBVIOUS
  <2>7. Good(d, [o EXCEPT ![h] = g], cont, P, C, Own, S, T) /\ f1.first # EOF /\ f1 # NoFile
    <3>1. Unwritten(o, path)
      BY DEF Unwritten
    <3>2. Good(d, o, cont, P, C, Own, S, T) /\ o[h] = NoFile
      OBVIOUS
    <3>. QED
      BY <1>4, <2>2, <2>6, <3>1, <3>2, OpenOld, ZenonT(60)
  <2>8. r.f = f1 /\ r.d = d
    BY <2>3, ResultIs
  <2>9. Failing(r) = d
    BY <2>7, <2>8, Zenon DEF Failing
  <2>10. AsOpened(r.f, isdir, text) = g
    BY <1>4, <2>5, <2>6, <2>7, <2>8, Zenon DEF AsOpened
  <2>. QED
    BY <2>7, <2>9, <2>10, Zenon DEF GoodNow
<1>5. CASE path \notin S /\ (s.rc = -2 \/ m = "r")
  <2>1. r = Result(d, NoFile)
    <3>1. s.rc # 0
      BY <1>3, <1>5
    <3>2. OpenFound(d, s, path, m) = Result(d, NoFile)
      BY <1>5, <3>1, OpenMiss
    <3>. QED
      BY <1>2, <3>2, Zenon
  <2>2. Failing(r) = d /\ AsOpened(r.f, isdir, text) = NoFile
    <3>1. r.d = d /\ r.f = NoFile
      BY <2>1, ResultIs
    <3>. QED
      BY <3>1, Zenon DEF Failing, AsOpened
  <2>3. o = [k \in Handles |-> o[k]]
    BY <1>1 DEF Opens
  <2>4. [o EXCEPT ![h] = NoFile] = o
    BY <2>3
  <2>. QED
    BY <2>2, <2>4 DEF GoodNow
<1>6. CASE path \notin S /\ s.rc # -2 /\ m # "r"
  <2>0. PICK f : f = Opened(path, EOF, 0, FALSE)
    OBVIOUS
  <2>1. PICK n : n = NewBlock(d, f)
    OBVIOUS
  <2>2. s.rc = -1 /\ Up(path) \in S \cup {<<>>}
    BY <1>3, <1>6
  <2>3. r = Result(n.d, Started(n.f))
    <3>1. n = NewBlock(d, Opened(path, EOF, 0, FALSE))
      BY <2>0, <2>1
    <3>2. OpenFound(d, s, path, m) = Result(n.d, Started(n.f))
      <4>1. s.rc # 0 /\ s.rc # -2 /\ m # "r"
        BY <1>6, <2>2
      <4>. QED
        BY <3>1, <4>1, OpenFresh
    <3>. QED
      BY <1>2, <3>2, Zenon
  <2>4. f.block = EOF /\ EOF \in Link
    BY <2>0, NewFacts, Constants DEF Link, Opened
  <2>5. CASE n = [d |-> d, f |-> f]
    <3>0. r.d = d /\ r.f = Started(f)
      <4>1. n.d = d /\ n.f = f
        BY <2>5
      <4>. QED
        BY <2>3, <4>1, ResultIs
    <3>1. r.d = d /\ r.f # NoFile /\ r.f.first = EOF
      BY <2>0, <3>0, NoMemory, Zenon
    <3>2. Failing(r) = [d EXCEPT !.defect = "null"]
      BY <3>1, Zenon DEF Failing
    <3>3. Failing(r).defect = "null"
      BY <1>1, <3>2 DEF Disk
    <3>. QED
      BY <3>3 DEF GoodNow
  <2>6. ASSUME NEW b, NEW e, NewIn(d, EOF, e, b), n = [d |-> e, f |-> Positioned(f, b, 0)]
        PROVE  GoodNow(Failing(r), [o EXCEPT ![h] = AsOpened(r.f, isdir, text)], cont)
    <3>1. b \in Blocks /\ b # EOF
      BY <1>1, <2>6, DiskTypes, Constants DEF NewIn
    <3>2. r.d = e /\ r.f = Started(Positioned(f, b, 0))
      <4>1. n.d = e /\ n.f = Positioned(f, b, 0)
        BY <2>6
      <4>. QED
        BY <2>3, <4>1, ResultIs
    <3>3. r.f # NoFile /\ r.f.first = b
      BY <2>0, <3>1, <3>2, NewFacts
    <3>4. Failing(r) = e
      BY <3>1, <3>2, <3>3, Zenon DEF Failing
    <3>5. PICK g : g = AsOpened(r.f, isdir, text)
      OBVIOUS
    <3>6. g = OpenedAs(Started(Positioned(f, b, 0)), isdir, <<>>)
      BY <1>6, <3>2, <3>3, <3>5, Zenon DEF AsOpened
    <3>7. IsNew(path, b, isdir, g)
      BY <2>0, <3>1, <3>6, NewFacts
    <3>8. \A k \in Handles : o[k].path # path
      <4>1. NoFile.path = Nobody /\ path # Nobody
        BY PathFacts DEF NoFile, Nobody
      <4>. QED
        BY <1>6, <4>1
    <3>9. path \notin P
      <4>1. path # <<>>
        BY PathFacts
      <4>. QED
        BY <1>1, <1>6, <3>8, <4>1 DEF Opens
    <3>10. Len(path) = 2 => <<DirectoryName>> \in S
      <4>1. Len(path) = 2 => Up(path) = <<DirectoryName>> /\ <<DirectoryName>> # <<>>
        BY DEF Up
      <4>. QED
        BY <2>2, <4>1
    <3>11. isdir <=> path = <<DirectoryName>>
      BY <1>6
    <3>12. GoodNow(e, [o EXCEPT ![h] = g], cont)
      BY <2>6, <3>7, <3>8, <3>9, <3>10, <3>11, OpenNew
    <3>. QED
      BY <3>4, <3>5, <3>12
  <2>7. NewBlock(d, f) = [d |-> d, f |-> f]
        \/ \E b, e : NewIn(d, f.block, e, b) /\ NewBlock(d, f) = [d |-> e, f |-> Positioned(f, b, 0)]
    <3>1. f.block \in Link
      BY <2>4
    <3>. QED
      BY <1>1, <3>1, NewBlockIs DEF Positioned
  <2>. QED
    BY <2>1, <2>4, <2>5, <2>6, <2>7
<1>. QED
  BY <1>4, <1>5, <1>6

\* OS_fopen repairs nothing
LEMMA OpenDisk ==
    ASSUME NEW d \in Disk, d.defect # "none", NEW s, NEW path \in Paths, NEW m,
           NEW r, r = OpenFound(d, s, path, m)
    PROVE  Failing(r).defect # "none"
<1>1. r.d \in Disk /\ r.d.defect # "none"
  <2>1. CASE s.rc = 0
    <3>1. OpenFound(d, s, path, m) = Result(d, OldOpened(d, s.entry, path, m))
      BY <2>1, OpenHit
    <3>. QED
      BY <3>1, ResultIs
  <2>2. CASE s.rc # 0 /\ (s.rc = -2 \/ m = "r")
    <3>1. OpenFound(d, s, path, m) = Result(d, NoFile)
      BY <2>2, OpenMiss
    <3>. QED
      BY <3>1, ResultIs
  <2>3. CASE s.rc # 0 /\ s.rc # -2 /\ m # "r"
    <3>1. PICK f : f = Opened(path, EOF, 0, FALSE)
      OBVIOUS
    <3>2. PICK n : n = NewBlock(d, f)
      OBVIOUS
    <3>3. OpenFound(d, s, path, m) = Result(n.d, Started(n.f))
      BY <2>3, <3>1, <3>2, OpenFresh
    <3>4. f.block \in Link
      BY <3>1, Constants DEF Opened, Link
    <3>5. n.d = d \/ \E b, e : NewIn(d, f.block, e, b) /\ n.d = e
      <4>1. \/ NewBlock(d, f) = Result(d, f)
            \/ \E b, e : NewIn(d, f.block, e, b) /\ NewBlock(d, f) = Result(e, Positioned(f, b, 0))
        BY <3>4, NewBlockIs DEF Result, Positioned
      <4>. QED
        BY <3>2, <4>1, ResultIs
    <3>6. n.d \in Disk /\ n.d.defect # "none"
      BY <3>5 DEF NewIn
    <3>. QED
      BY <3>3, <3>6, ResultIs
  <2>. QED
    BY <2>1, <2>2, <2>3
<1>2. CASE r.f # NoFile /\ r.f.first = EOF
  <2>1. Failing(r) = [r.d EXCEPT !.defect = "null"]
    BY <1>2, Zenon DEF Failing
  <2>. QED
    BY <1>1, <2>1 DEF Disk
<1>3. CASE ~ (r.f # NoFile /\ r.f.first = EOF)
  <2>1. Failing(r) = r.d
    BY <1>3, Zenon DEF Failing
  <2>. QED
    BY <1>1, <2>1
<1>. QED
  BY <1>2, <1>3

\* What Polite says of one call
Allowed(o, cont, path, mode) ==
    /\ \A k \in Handles : o[k] # NoFile /\ o[k].path = path => mode = "r" /\ ~ o[k].modified
    /\ mode \in {"w", "mkdir"} => ~ (path \in DOMAIN cont /\ cont[path] = <<DirectoryMark>>)
    /\ mode = "mkdir" => path = <<DirectoryName>>
    /\ mode # "mkdir" => \/ path # <<DirectoryName>>
                         \/ path \in DOMAIN cont /\ cont[path] = <<DirectoryMark>>

LEMMA ContentFacts ==
    ASSUME NEW d, NEW o, NEW cont, NEW P, NEW C, NEW Own, NEW S, NEW T,
           Good(d, o, cont, P, C, Own, S, T), NEW path
    PROVE  /\ path \in DOMAIN cont <=> path \in S
           /\ path = <<DirectoryName>> /\ path \in S => cont[path] = <<DirectoryMark>>
<1>1. Contents(d, C, S, T, o, cont)
  BY GoodFacts
<1>. QED
  BY <1>1 DEF Contents

FileMode(mode) == IF mode = "mkdir" THEN "w" ELSE mode
FirstText(cont, path, mode) == IF mode = "w" \/ path \notin DOMAIN cont THEN <<>> ELSE cont[path]
Shrunk(cont, path, mode) ==
    IF mode \in {"w", "mkdir"} THEN [p \in DOMAIN cont \ {path} |-> cont[p]] ELSE cont

LEMMA OpenGood ==
    ASSUME NEW d, NEW o, NEW cont, NEW P, NEW C, NEW Own, NEW S, NEW T,
           Good(d, o, cont, P, C, Own, S, T), NEW h \in Handles, o[h] = NoFile,
           NEW path \in Paths, NEW mode \in {"r", "w", "a", "mkdir"}, Allowed(o, cont, path, mode),
           NEW m, m = FileMode(mode), NEW r, r = OS_fopen(d, path, m),
           NEW isdir \in BOOLEAN, isdir <=> mode = "mkdir",
           NEW text, text = FirstText(cont, path, mode), NEW cont2, cont2 = Shrunk(cont, path, mode)
    PROVE  GoodNow(Failing(r), [o EXCEPT ![h] = AsOpened(r.f, isdir, text)], cont2)
<1>. SUFFICES ASSUME m = IF mode = "mkdir" THEN "w" ELSE mode,
                     text = IF mode = "w" \/ path \notin DOMAIN cont THEN <<>> ELSE cont[path],
                     cont2 = IF mode \in {"w", "mkdir"}
                             THEN [p \in DOMAIN cont \ {path} |-> cont[p]] ELSE cont
              PROVE  GoodNow(Failing(r), [o EXCEPT ![h] = AsOpened(r.f, isdir, text)], cont2)
  BY Zenon DEF FileMode, FirstText, Shrunk
<1>7. path \in DOMAIN cont <=> path \in S
  BY ContentFacts
<1>8. path = <<DirectoryName>> /\ path \in S => cont[path] = <<DirectoryMark>>
  BY ContentFacts
<1>2. /\ \A k \in Handles : o[k] # NoFile /\ o[k].path = path => mode = "r" /\ ~ o[k].modified
      /\ mode = "mkdir" => path = <<DirectoryName>>
  BY DEF Allowed
<1>5. mode \in {"w", "mkdir"} => ~ (path \in S /\ path = <<DirectoryName>>)
  <2>1. mode \in {"w", "mkdir"} => ~ (path \in DOMAIN cont /\ cont[path] = <<DirectoryMark>>)
    BY Zenon DEF Allowed
  <2>. QED
    BY <1>7, <1>8, <2>1, Zenon
<1>6. mode # "mkdir" => path # <<DirectoryName>> \/ path \in S
  <2>1. mode # "mkdir" => path # <<DirectoryName>> \/ path \in DOMAIN cont
    BY Zenon DEF Allowed
  <2>. QED
    BY <1>7, <2>1, Zenon
<1>3. CASE mode \in {"w", "mkdir"}
  <2>1. m = "w"
    BY <1>3
  <2>2. PICK e : e = OS_fdelete(d, path)
    OBVIOUS
  <2>3. r = OpenFound(e, FileFindRecursive(e, path), path, m)
    BY <2>1, <2>2, Zenon DEF OS_fopen
  <2>4. DOMAIN cont2 = DOMAIN cont \ {path} /\ \A p \in DOMAIN cont2 : cont2[p] = cont[p]
    BY <1>3
  <2>5. \A k \in Handles : o[k].path # path
    <3>1. NoFile.path = Nobody /\ path # Nobody
      BY PathFacts DEF NoFile, Nobody
    <3>. QED
      BY <1>2, <1>3, <3>1
  <2>6. path \in S /\ path = <<DirectoryName>> => \A p \in P : Len(p) # 2
    BY <1>3, <1>5, Zenon
  <2>7. \/ e.defect = "overrun" /\ e \in Disk
        \/ \E P2, C2, O2, S2, T2 : Cleared(e, o, cont2, P2, C2, O2, S2, T2, path)
    <3>1. Unused(o, P, S, path) /\ Lessened(cont, path, cont2)
      BY <2>4, <2>5, <2>6, Zenon DEF Unused, Lessened
    <3>. QED
      BY <2>2, <3>1, ClearGood
  <2>8. CASE e.defect = "overrun" /\ e \in Disk
    <3>1. Failing(r).defect # "none"
      BY <2>3, <2>8, OpenDisk
    <3>. QED
      BY <3>1 DEF GoodNow
  <2>9. ASSUME NEW P2, NEW C2, NEW O2, NEW S2, NEW T2, Cleared(e, o, cont2, P2, C2, O2, S2, T2, path)
        PROVE  GoodNow(Failing(r), [o EXCEPT ![h] = AsOpened(r.f, isdir, text)], cont2)
    <3>1. Good(e, o, cont2, P2, C2, O2, S2, T2)
      BY <2>9 DEF Cleared
    <3>2. path \notin S2
      <4>1. DOMAIN cont2 = S2
        BY <3>1, GoodFacts DEF Contents
      <4>. QED
        BY <2>4, <4>1
    <3>3. Asked(o, cont2, S2, path, m, isdir, text)
      <4>1. isdir => m = "w" /\ path = <<DirectoryName>>
        BY <1>2, <2>1
      <4>2. path = <<DirectoryName>> => isdir
        BY <1>3, <1>5, <1>6, Zenon
      <4>3. text = <<>>
        <5>1. mode = "mkdir" => path \notin DOMAIN cont
          BY <1>2, <1>3, <1>5, <1>7, Zenon
        <5>2. mode = "w" \/ path \notin DOMAIN cont
          BY <1>3, <5>1
        <5>. QED
          BY <5>2, Zenon
      <4>4. \A k \in Handles : o[k] # NoFile /\ o[k].path = path => m = "r" /\ ~ o[k].modified
        BY <2>5
      <4>. QED
        BY <3>2, <4>1, <4>2, <4>3, <4>4 DEF Asked
    <3>4. m \in {"r", "w", "a"}
      BY <2>1
    <3>. QED
      BY <2>3, <3>1, <3>3, <3>4, SearchGood
  <2>. QED
    BY <2>7, <2>8, <2>9
<1>4. CASE mode \in {"r", "a"}
  <2>1. m = mode /\ m # "w" /\ m \in {"r", "w", "a"} /\ cont2 = cont /\ isdir = FALSE
    BY <1>4
  <2>2. r = OpenFound(d, FileFindRecursive(d, path), path, m)
    BY <2>1, Zenon DEF OS_fopen
  <2>3. Asked(o, cont, S, path, m, isdir, text)
    <3>0. mode # "w" /\ mode # "mkdir"
      BY <1>4
    <3>1. path \in S => text = cont[path]
      BY <1>7, <3>0, Zenon
    <3>2. path \notin S => text = <<>>
      BY <1>7, <3>0, Zenon
    <3>3. path = <<DirectoryName>> => path \in S
      BY <1>6, <3>0, Zenon
    <3>4. \A k \in Handles : o[k] # NoFile /\ o[k].path = path => m = "r" /\ ~ o[k].modified
      BY <1>2, <2>1
    <3>. QED
      BY <2>1, <3>1, <3>2, <3>3, <3>4 DEF Asked
  <2>4. GoodNow(Failing(r), [o EXCEPT ![h] = AsOpened(r.f, isdir, text)], cont)
    BY <2>1, <2>2, <2>3, SearchGood
  <2>. QED
    BY <2>1, <2>4
<1>. QED
  BY <1>3, <1>4

-----------------------------------------------------------------------------
(* The invariant holds at the start and every call keeps it. *)

LEMMA InitInv == FilesInit => Inv
<1>. SUFFICES ASSUME FilesInit PROVE Inv
  OBVIOUS
<1>. DEFINE P == {<<>>}
            C == [p \in P |-> <<Root>>]
            Own == [b \in Blocks |-> IF b = Root THEN <<>> ELSE Nobody]
            S == {}
            T == [p \in S |-> Blank]
<1>1. /\ disk.next = [b \in Blocks |-> EOF] /\ disk.data = [b \in Blocks |-> [i \in 1 .. BlockUnits |-> Blank]]
      /\ disk.free = Blocks \ {Root} /\ disk.defect = "none"
      /\ open = [h \in Handles |-> NoFile] /\ content = [p \in {} |-> <<>>]
  BY DEF FilesInit
<1>2. disk \in Disk
  <2>1. EOF \in Link /\ Blank \in Unit
    BY DEF Link, Unit
  <2>2. [b \in Blocks |-> EOF] \in [Blocks -> Link]
    BY <2>1
  <2>3. [b \in Blocks |-> [i \in 1 .. BlockUnits |-> Blank]] \in [Blocks -> [1 .. BlockUnits -> Unit]]
    BY <2>1
  <2>4. Blocks \ {Root} \in SUBSET Blocks
    OBVIOUS
  <2>. QED
    BY <2>2, <2>3, <2>4 DEF FilesInit, Disk
<1>3. Nobody # <<>> /\ C[<<>>] = <<Root>>
  BY DEF Nobody
<1>4. Linked(disk.next, <<Root>>)
  <2>1. <<Root>> \in Seq(Blocks) /\ Len(<<Root>>) = 1 /\ <<Root>>[1] = Root
    BY Constants
  <2>2. IsInjective(<<Root>>)
    BY <2>1 DEF IsInjective
  <2>3. disk.next[Root] = EOF
    BY <1>1, Constants
  <2>. QED
    BY <2>1, <2>2, <2>3 DEF Linked
<1>5. Sound(disk, P, C, Own)
  <2>1. \A b : b \in Range(<<Root>>) <=> b = Root
    BY DEF Range
  <2>2. C \in [P -> Seq(Blocks)]
    BY Constants
  <2>3. Own \in [Blocks -> P \cup {Nobody}]
    OBVIOUS
  <2>4. \A p \in P : Linked(disk.next, C[p])
    BY <1>3, <1>4
  <2>5. \A b \in Blocks : /\ b \in disk.free <=> Own[b] = Nobody
                          /\ \A p \in P : Own[b] = p <=> b \in Range(C[p])
    BY <1>1, <1>3, <2>1
  <2>. QED
    BY <1>1, <1>2, <1>3, <2>2, <2>3, <2>4, <2>5 DEF Sound
<1>6. Dir(UnitsOf(disk, C[<<>>]), 0, <<>>, S, T)
  <2>1. PICK u : u = UnitsOf(disk, <<Root>>)
    OBVIOUS
  <2>2. u \in Seq(Unit) /\ Len(u) = Size(1) /\ Size(1) \in Nat
    <3>1. PICK c : c = <<Root>>
      OBVIOUS
    <3>2. Linked(disk.next, c) /\ Len(c) = 1 /\ u = UnitsOf(disk, c)
      BY <1>4, <2>1, <3>1
    <3>. QED
      BY <1>2, <3>2, UnitsFacts
  <2>3. \A i \in 1 .. Len(u) : u[i] = Blank
    <3>. SUFFICES ASSUME NEW i \in 1 .. Size(1) PROVE u[i] = Blank
      BY <2>2
    <3>1. Blk(i) \in 1 .. 1 /\ Off(i) \in 1 .. BlockUnits
      BY PlaceOf
    <3>2. u[i] = disk.data[<<Root>>[Blk(i)]][Off(i)]
      BY <2>1 DEF UnitsOf
    <3>3. <<Root>>[Blk(i)] \in Blocks
      BY <3>1, Constants
    <3>. QED
      BY <1>1, <3>1, <3>2, <3>3
  <2>4. Dir(u, 0, <<>>, S, T)
    BY <2>2, <2>3 DEF Dir
  <2>. QED
    BY <1>3, <2>1, <2>4
<1>7. Holds(disk, P, C, S, T)
  <2>1. Named(S, T)
    BY DEF Named
  <2>2. \A q \in P \cap Directories : \E m : Dir(UnitsOf(disk, C[q]), m, q, S, T)
    BY <1>6
  <2>3. C[<<>>][1] = Root /\ \A p \in P : Len(p) # 2
    BY <1>3
  <2>. QED
    BY <2>1, <2>2, <2>3 DEF Holds
<1>. HIDE DEF C, Own, T
<1>8. Opens(disk, P, C, S, open)
  BY <1>1 DEF Opens
<1>9. Contents(disk, C, S, T, open, content)
  BY <1>1 DEF Contents
<1>. HIDE DEF P, S
<1>. QED
  BY <1>5, <1>7, <1>8, <1>9 DEF Inv, GoodNow, Good

LEMMA OpenKeeps ==
    ASSUME Inv, disk.defect = "none", NEW h \in Handles, Open(h)
    PROVE  Inv'
<1>1. PICK P, C, Own, S, T : Good(disk, open, content, P, C, Own, S, T)
  BY DEF Inv, GoodNow
<1>2. PICK path \in Paths, mode \in {"r", "w", "a", "mkdir"} :
         LET r == OS_fopen(disk, path, IF mode = "mkdir" THEN "w" ELSE mode) IN
         /\ ~IsOpen(h) /\ Polite(path, mode)
         /\ disk' = IF r.f # NoFile /\ r.f.first = EOF THEN [r.d EXCEPT !.defect = "null"] ELSE r.d
         /\ open' = [open EXCEPT ![h] =
               IF r.f = NoFile THEN NoFile
               ELSE [r.f EXCEPT !.dir = @ \/ mode = "mkdir",
                                !.text = IF mode = "w" \/ path \notin DOMAIN content THEN <<>>
                                         ELSE content[path]]]
         /\ content' = IF mode \in {"w", "mkdir"}
                       THEN [p \in DOMAIN content \ {path} |-> content[p]] ELSE content
  BY Zenon DEF Open
<1>3. PICK m : m = FileMode(mode)
  OBVIOUS
<1>4. PICK r : r = OS_fopen(disk, path, m)
  OBVIOUS
<1>5. PICK isdir \in BOOLEAN : isdir = (mode = "mkdir")
  OBVIOUS
<1>6. PICK text : text = FirstText(content, path, mode)
  OBVIOUS
<1>7. disk' = Failing(r)
  BY <1>2, <1>3, <1>4, Zenon DEF Failing, FileMode
<1>8. open' = [open EXCEPT ![h] = AsOpened(r.f, isdir, text)]
  BY <1>2, <1>3, <1>4, <1>5, <1>6, Zenon DEF AsOpened, OpenedAs, FileMode, FirstText
<1>9. content' = Shrunk(content, path, mode)
  BY <1>2, Zenon DEF Shrunk
<1>10. open[h] = NoFile /\ Allowed(open, content, path, mode)
  BY <1>2, Zenon DEF Polite, IsOpen, IsDirectory, Allowed
<1>11. isdir <=> mode = "mkdir"
  BY <1>5
<1>12. PICK cont2 : cont2 = Shrunk(content, path, mode)
  OBVIOUS
<1>13. GoodNow(Failing(r), [open EXCEPT ![h] = AsOpened(r.f, isdir, text)], cont2)
  BY <1>1, <1>3, <1>4, <1>6, <1>10, <1>11, <1>12, OpenGood
<1>. QED
  BY <1>7, <1>8, <1>9, <1>12, <1>13, Zenon DEF Inv

LEMMA WriteKeeps ==
    ASSUME Inv, disk.defect = "none", NEW h \in Handles, Write(h)
    PROVE  Inv'
<1>1. PICK P, C, Own, S, T : Good(disk, open, content, P, C, Own, S, T)
  BY DEF Inv, GoodNow
<1>2. PICK v \in Values :
         LET unit == Data(open[h], v)
             r    == Put(disk, open[h], unit)
         IN
         /\ IsOpen(h) /\ ~open[h].dir /\ open[h].pos < MaxLength
         /\ \A g \in Handles \ {h} : open[g].path # open[h].path
         /\ disk' = r.d
         /\ open' = [open EXCEPT ![h] =
                       [r.f EXCEPT !.text = SubSeq(@, 1, open[h].pos) \o <<unit>>
                                            \o SubSeq(@, open[h].pos + 2, Len(@))]]
         /\ UNCHANGED content
  BY Zenon DEF Write
<1>3. PICK unit : unit = Data(open[h], v)
  OBVIOUS
<1>4. PICK r : r = Put(disk, open[h], unit)
  OBVIOUS
<1>5. PICK g : g = WithText(r.f, TextWith(r.f.text, open[h].pos, unit))
  OBVIOUS
<1>6. /\ open[h] # NoFile /\ ~ open[h].dir /\ \A k \in Handles \ {h} : open[k].path # open[h].path
      /\ disk' = r.d /\ content' = content
  BY <1>2, <1>3, <1>4, Zenon DEF IsOpen
<1>7. open' = [open EXCEPT ![h] = g]
  BY <1>2, <1>3, <1>4, <1>5, Zenon DEF WithText, TextWith
<1>8. PICK e : e = r.d
  OBVIOUS
<1>9. GoodNow(e, [open EXCEPT ![h] = g], content)
  BY <1>1, <1>3, <1>4, <1>5, <1>6, <1>8, WriteGood
<1>. QED
  BY <1>6, <1>7, <1>8, <1>9, Zenon DEF Inv

LEMMA CloseKeeps ==
    ASSUME Inv, disk.defect = "none", NEW h \in Handles, Close(h)
    PROVE  Inv'
<1>1. PICK P, C, Own, S, T : Good(disk, open, content, P, C, Own, S, T)
  BY DEF Inv, GoodNow
<1>2. /\ open[h] # NoFile /\ disk' = OS_fclose(disk, open[h])
      /\ open' = [open EXCEPT ![h] = NoFile]
      /\ content' = IF ~open[h].modified THEN content
                    ELSE [p \in DOMAIN content \cup {open[h].path} |->
                            IF p # open[h].path THEN content[p]
                            ELSE IF open[h].dir THEN <<DirectoryMark>> ELSE open[h].text]
  BY Zenon DEF Close, IsOpen
<1>3. CASE ~ open[h].modified
  <2>1. disk' = disk /\ content' = content
    BY <1>2, <1>3, Zenon DEF OS_fclose
  <2>2. Good(disk, [open EXCEPT ![h] = NoFile], content, P, C, Own, S, T)
    BY <1>1, <1>2, <1>3, CloseSame
  <2>. QED
    BY <1>2, <2>1, <2>2, Zenon DEF Inv, GoodNow
<1>4. CASE open[h].modified
  <2>1. PICK e : e = Put(disk, FileFindRecursive(disk, open[h].path).dir, Entry(open[h])).d
    OBVIOUS
  <2>2. disk' = e
    BY <1>2, <1>4, <2>1, Zenon DEF OS_fclose
  <2>3. PICK cont2 : cont2 = [p \in DOMAIN content \cup {open[h].path} |->
                            IF p # open[h].path THEN content[p]
                            ELSE IF open[h].dir THEN <<DirectoryMark>> ELSE open[h].text]
    OBVIOUS
  <2>4. content' = cont2
    BY <1>2, <1>4, <2>3, Zenon
  <2>5. /\ DOMAIN cont2 = DOMAIN content \cup {open[h].path}
        /\ \A p \in DOMAIN cont2 : cont2[p] = IF p # open[h].path THEN content[p]
                                              ELSE IF open[h].dir THEN <<DirectoryMark>> ELSE open[h].text
    BY <2>3
  <2>6. GoodNow(e, [open EXCEPT ![h] = NoFile], cont2)
    BY <1>1, <1>2, <1>4, <2>1, <2>5, CloseGood
  <2>. QED
    BY <1>2, <2>2, <2>4, <2>6, Zenon DEF Inv
<1>. QED
  BY <1>3, <1>4

LEMMA DeleteKeeps ==
    ASSUME Inv, disk.defect = "none", Delete
    PROVE  Inv'
<1>1. PICK P, C, Own, S, T : Good(disk, open, content, P, C, Own, S, T)
  BY DEF Inv, GoodNow
<1>2. PICK path \in Paths :
         /\ \A h \in Handles : ~IsOpen(h) \/ ~IsPrefix(path, open[h].path)
         /\ \A p \in DOMAIN content : ~IsStrictPrefix(path, p)
         /\ disk' = OS_fdelete(disk, path)
         /\ content' = [p \in DOMAIN content \ {path} |-> content[p]]
         /\ UNCHANGED open
  BY Zenon DEF Delete
<1>3. PICK e : e = OS_fdelete(disk, path)
  OBVIOUS
<1>4. PICK cont2 : cont2 = [p \in DOMAIN content \ {path} |-> content[p]]
  OBVIOUS
<1>5. DOMAIN cont2 = DOMAIN content \ {path} /\ \A p \in DOMAIN cont2 : cont2[p] = content[p]
  BY <1>4
<1>6. \A k \in Handles : open[k] = NoFile \/ ~IsPrefix(path, open[k].path)
  BY <1>2, Zenon DEF IsOpen
<1>7. \A p \in DOMAIN content : ~IsStrictPrefix(path, p)
  BY <1>2, Zenon
<1>8. GoodNow(e, open, cont2)
  BY <1>1, <1>3, <1>5, <1>6, <1>7, DeleteGood
<1>. QED
  BY <1>2, <1>3, <1>4, <1>8, Zenon DEF Inv

LEMMA PlaceKeeps ==
    ASSUME Inv, disk.defect = "none", NEW h \in Handles, OpenRoot(h) \/ Read(h) \/ SeekTo(h)
    PROVE  Inv'
<1>1. PICK P, C, Own, S, T : Good(disk, open, content, P, C, Own, S, T)
  BY DEF Inv, GoodNow
<1>2. ASSUME NEW o, open' = o, disk' = disk, content' = content,
             Good(disk, o, content, P, C, Own, S, T)
      PROVE  Inv'
  BY <1>2, Zenon DEF Inv, GoodNow
<1>3. CASE OpenRoot(h)
  <2>1. open[h] = NoFile /\ open' = [open EXCEPT ![h] = RootDirectory] /\ disk' = disk /\ content' = content
    BY <1>3, Zenon DEF OpenRoot, IsOpen
  <2>2. Good(disk, [open EXCEPT ![h] = RootDirectory], content, P, C, Own, S, T)
    BY <1>1, <2>1, RootGood
  <2>. QED
    BY <1>2, <2>1, <2>2, Zenon
<1>4. CASE Read(h)
  <2>1. open[h] # NoFile /\ open' = [open EXCEPT ![h] = Get(disk, open[h])] /\ disk' = disk /\ content' = content
    BY <1>4, Zenon DEF Read, IsOpen
  <2>2. Good(disk, [open EXCEPT ![h] = Get(disk, open[h])], content, P, C, Own, S, T)
    BY <1>1, <2>1, ReadGood
  <2>. QED
    BY <1>2, <2>1, <2>2, Zenon
<1>5. CASE SeekTo(h)
  <2>1. /\ open[h] # NoFile /\ ~ open[h].dir /\ disk' = disk /\ content' = content
        /\ \E offset \in 0 .. open[h].length : open' = [open EXCEPT ![h] = Seek(disk, open[h], offset)]
    BY <1>5, Zenon DEF SeekTo, IsOpen
  <2>2. PICK offset \in 0 .. open[h].length : open' = [open EXCEPT ![h] = Seek(disk, open[h], offset)]
    BY <2>1
  <2>3. Good(disk, [open EXCEPT ![h] = Seek(disk, open[h], offset)], content, P, C, Own, S, T)
    BY <1>1, <2>1, SeekGood
  <2>. QED
    BY <1>2, <2>1, <2>2, <2>3, Zenon
<1>. QED
  BY <1>3, <1>4, <1>5

LEMMA InvNext == Inv /\ [Next]_vars => Inv'
<1>1. ASSUME Inv, Next PROVE Inv'
  <2>1. disk.defect = "none"
    BY <1>1 DEF Next
  <2>2. CASE Delete
    BY <1>1, <2>1, <2>2, DeleteKeeps
  <2>3. ASSUME NEW h \in Handles, Open(h) PROVE Inv'
    BY <1>1, <2>1, <2>3, OpenKeeps
  <2>4. ASSUME NEW h \in Handles, OpenRoot(h) \/ Read(h) \/ SeekTo(h) PROVE Inv'
    BY <1>1, <2>1, <2>4, PlaceKeeps
  <2>5. ASSUME NEW h \in Handles, Write(h) PROVE Inv'
    BY <1>1, <2>1, <2>5, WriteKeeps
  <2>6. ASSUME NEW h \in Handles, Close(h) PROVE Inv'
    BY <1>1, <2>1, <2>6, CloseKeeps
  <2>. QED
    BY <1>1, <2>2, <2>3, <2>4, <2>5, <2>6, Zenon DEF Next
<1>2. ASSUME Inv, UNCHANGED vars PROVE Inv'
  BY <1>2, Zenon DEF Inv, vars
<1>. QED
  BY <1>1, <1>2

LEMMA AlwaysInv == Spec => []Inv
  BY InitInv, InvNext, PTL DEF Spec

-----------------------------------------------------------------------------
(* What the invariant says of the properties *)

LEMMA EntriesAre ==
    ASSUME NEW P, NEW C, NEW Own, NEW S, NEW T, Good(disk, open, content, P, C, Own, S, T),
           NEW q \in P \cap Directories
    PROVE  Entries(C[q][1]) = {T[p] : p \in {x \in S : Up(x) = q}}
<1>1. Sound(disk, P, C, Own) /\ Holds(disk, P, C, S, T) /\ Units(disk, C[q][1]) = UnitsOf(disk, C[q])
  BY GoodFacts, UnitsAre
<1>2. PICK u : u = UnitsOf(disk, C[q])
  OBVIOUS
<1>3. PICK m : Dir(u, m, q, S, T)
  BY <1>1, <1>2 DEF Holds
<1>4. /\ u \in Seq(Unit) /\ m \in 0 .. Len(u)
      /\ \A i \in 1 .. m :
            u[i] \in EntryUnit /\ (u[i].valid => Sub(q, u[i].name) \in S /\ u[i] = T[Sub(q, u[i].name)])
      /\ \A i \in m + 1 .. Len(u) : u[i] = Blank
      /\ \A p \in S : Up(p) = q => \E i \in 1 .. m : u[i] = T[p]
  BY <1>3 DEF Dir
<1>5. \A p \in S : T[p] \in EntryUnit /\ T[p].valid
  BY <1>1, HoldsFacts DEF Named
<1>6. ASSUME NEW e \in Range(u), e.kind = "entry", e.valid
      PROVE  \E p \in S : Up(p) = q /\ e = T[p]
  <2>1. PICK i \in 1 .. Len(u) : e = u[i]
    BY <1>4, <1>6 DEF Range
  <2>2. i \in 1 .. m
    <3>1. u[i] # Blank
      BY <1>6, <2>1, Kinds
    <3>. QED
      BY <1>4, <2>1, <3>1
  <2>3. Sub(q, u[i].name) \in S /\ u[i] = T[Sub(q, u[i].name)]
    BY <1>4, <1>6, <2>1, <2>2
  <2>4. Up(Sub(q, u[i].name)) = q
    BY SubFacts
  <2>. QED
    BY <2>1, <2>3, <2>4
<1>7. ASSUME NEW p \in S, Up(p) = q
      PROVE  T[p] \in Range(u) /\ T[p].kind = "entry" /\ T[p].valid
  <2>1. PICK i \in 1 .. m : u[i] = T[p]
    BY <1>4, <1>7
  <2>2. i \in DOMAIN u
    BY <1>4, <2>1
  <2>. QED
    BY <1>5, <2>1, <2>2, Kinds DEF Range
<1>8. Entries(C[q][1]) = {e \in Range(u) : e.kind = "entry" /\ e.valid}
  <2>1. ToSet(u) = Range(u)
    BY DEF ToSet, Range
  <2>. QED
    BY <1>1, <1>2, <2>1 DEF Entries
<1>. QED
  BY <1>6, <1>7, <1>8

LEMMA HeadsAre ==
    ASSUME NEW P, NEW C, NEW Own, NEW S, NEW T, Good(disk, open, content, P, C, Own, S, T)
    PROVE  Heads = {C[p][1] : p \in P}
<1>1. /\ Sound(disk, P, C, Own) /\ Holds(disk, P, C, S, T) /\ Opens(disk, P, C, S, open)
      /\ DOMAIN open = Handles
  BY GoodFacts
<1>2. /\ <<>> \in P /\ P \subseteq Paths \cup {<<>>} /\ S \subseteq P /\ S \subseteq Paths
      /\ C[<<>>][1] = Root
      /\ \A p \in S : /\ T[p] \in EntryUnit /\ T[p].block = C[p][1]
                      /\ (T[p].dir <=> p = <<DirectoryName>>)
      /\ \A p \in P \cap Paths : Up(p) \in S \cup {<<>>}
  BY <1>1, HoldsFacts
<1>3. Entries(Root) = {T[p] : p \in {x \in S : Up(x) = <<>>}}
  BY <1>2, EntriesAre DEF Directories
<1>4. <<DirectoryName>> \in S =>
         Entries(T[<<DirectoryName>>].block) = {T[p] : p \in {x \in S : Up(x) = <<DirectoryName>>}}
  BY <1>2, EntriesAre DEF Directories
<1>5. \A p \in S : Up(p) = <<>> \/ (Up(p) = <<DirectoryName>> /\ <<DirectoryName>> \in S)
  BY <1>2, PathFacts DEF Directories
<1>6. <<DirectoryName>> \in S => Up(<<DirectoryName>>) = <<>>
  BY DEF Up
<1>7. \A b : b \in Heads <=>
         \/ b = Root
         \/ \E e \in Entries(Root) : b = e.block
         \/ \E t \in Entries(Root) : t.dir /\ \E e \in Entries(t.block) : b = e.block
         \/ \E h \in Handles : open[h] # NoFile /\ b = open[h].first
  BY DEF Heads, IsOpen
<1>8. ASSUME NEW b \in Heads PROVE \E p \in P : b = C[p][1]
  <2>1. CASE b = Root
    BY <1>2, <2>1
  <2>2. CASE \E e \in Entries(Root) : b = e.block
    BY <1>2, <1>3, <2>2
  <2>3. CASE \E t \in Entries(Root) : t.dir /\ \E e \in Entries(t.block) : b = e.block
    <3>1. PICK t \in Entries(Root) : t.dir /\ \E e \in Entries(t.block) : b = e.block
      BY <2>3
    <3>2. PICK x \in S : Up(x) = <<>> /\ t = T[x]
      BY <1>3, <3>1
    <3>3. x = <<DirectoryName>>
      BY <1>2, <3>1, <3>2
    <3>4. PICK e \in Entries(T[<<DirectoryName>>].block) : b = e.block
      BY <3>1, <3>2, <3>3
    <3>5. PICK p \in S : e = T[p]
      BY <1>4, <3>2, <3>3, <3>4
    <3>. QED
      BY <1>2, <3>4, <3>5
  <2>4. CASE \E h \in Handles : open[h] # NoFile /\ b = open[h].first
    <3>1. PICK h \in Handles : open[h] # NoFile /\ b = open[h].first
      BY <2>4
    <3>2. OpenFile(disk, P, C, S, open[h])
      BY <3>1, GoodFacts
    <3>. QED
      BY <3>1, <3>2, OpenFacts
  <2>. QED
    BY <1>7, <1>8, <2>1, <2>2, <2>3, <2>4
<1>9. ASSUME NEW p \in P PROVE C[p][1] \in Heads
  <2>1. CASE p = <<>>
    BY <1>2, <1>7, <2>1
  <2>2. CASE p \in S /\ Up(p) = <<>>
    <3>1. T[p] \in Entries(Root) /\ T[p].block = C[p][1]
      BY <1>2, <1>3, <2>2
    <3>. QED
      BY <1>7, <3>1
  <2>3. CASE p \in S /\ Up(p) # <<>>
    <3>1. Up(p) = <<DirectoryName>> /\ <<DirectoryName>> \in S
      BY <1>5, <2>3
    <3>2. PICK t : t = T[<<DirectoryName>>]
      OBVIOUS
    <3>3. t \in Entries(Root)
      BY <1>3, <1>6, <3>1, <3>2
    <3>4. t.dir
      BY <1>2, <3>1, <3>2
    <3>5. T[p] \in Entries(t.block) /\ T[p].block = C[p][1]
      BY <1>2, <1>4, <2>3, <3>1, <3>2
    <3>. QED
      BY <1>7, <3>3, <3>4, <3>5
  <2>4. CASE p # <<>> /\ p \notin S
    <3>0. NoFile.path = Nobody /\ Nobody \notin P
      BY GoodFacts DEF NoFile, Nobody
    <3>1. PICK h \in Handles : open[h].path = p
      BY <1>1, <2>4 DEF Opens
    <3>2. open[h] # NoFile
      BY <3>0, <3>1
    <3>3. open[h].first = C[p][1]
      BY <3>1, <3>2, GoodFacts, OpenFacts
    <3>. QED
      BY <1>7, <3>2, <3>3
  <2>. QED
    BY <2>1, <2>2, <2>3, <2>4
<1>. QED
  BY <1>8, <1>9

LEMMA InvOwned == Inv => BlocksOwned
<1>. SUFFICES ASSUME Inv, disk.defect = "none" PROVE
          /\ disk.free = Blocks \ UNION {ToSet(Chain(disk, b)) : b \in Heads}
          /\ \A b, c \in Heads : b # c => ToSet(Chain(disk, b)) \cap ToSet(Chain(disk, c)) = {}
  BY Zenon DEF BlocksOwned
<1>1. PICK P, C, Own, S, T : Good(disk, open, content, P, C, Own, S, T)
  BY DEF Inv, GoodNow
<1>2. Heads = {C[p][1] : p \in P}
  BY <1>1, HeadsAre
<1>3. Sound(disk, P, C, Own)
  BY <1>1, GoodFacts
<1>4. \A p \in P : Chain(disk, C[p][1]) = C[p] /\ Range(C[p]) \subseteq Blocks
  BY <1>3, SoundFacts
<1>5. \A c : ToSet(c) = Range(c)
  BY DEF ToSet, Range
<1>6. UNION {ToSet(Chain(disk, b)) : b \in Heads} = UNION {Range(C[p]) : p \in P}
  BY <1>2, <1>4, <1>5
<1>7. disk.free = Blocks \ UNION {Range(C[p]) : p \in P}
  <2>1. /\ disk.free \subseteq Blocks
        /\ \A b \in Blocks : Own[b] \in P \cup {Nobody}
        /\ \A b \in Blocks : /\ b \in disk.free <=> Own[b] = Nobody
                             /\ \A p \in P : Own[b] = p <=> b \in Range(C[p])
        /\ Nobody \notin P
    BY <1>3, DiskTypes DEF Sound
  <2>. QED
    BY <2>1
<1>8. \A b, c \in Heads : b # c => ToSet(Chain(disk, b)) \cap ToSet(Chain(disk, c)) = {}
  <2>. SUFFICES ASSUME NEW b \in Heads, NEW c \in Heads, b # c
                PROVE  ToSet(Chain(disk, b)) \cap ToSet(Chain(disk, c)) = {}
    OBVIOUS
  <2>1. PICK p \in P : b = C[p][1]
    BY <1>2
  <2>2. PICK q \in P : c = C[q][1]
    BY <1>2
  <2>3. p # q
    BY <2>1, <2>2
  <2>4. Range(C[p]) \cap Range(C[q]) = {}
    BY <1>3, <2>3, SoundFacts
  <2>5. ToSet(Chain(disk, b)) = Range(C[p]) /\ ToSet(Chain(disk, c)) = Range(C[q])
    BY <1>4, <1>5, <2>1, <2>2
  <2>. QED
    BY <2>4, <2>5
<1>. QED
  BY <1>6, <1>7, <1>8

LEMMA InvReads == Inv => ReadsBack
<1>. SUFFICES ASSUME Inv, disk.defect = "none", NEW path \in Paths,
                     NEW r, r = FileFindRecursive(disk, path)
              PROVE  IF path \notin DOMAIN content THEN r.rc # 0
                     ELSE /\ r.rc = 0 /\ r.entry.dir = IsDirectory(path)
                          /\ \/ r.entry.dir
                             \/ \E h \in Handles : open[h].path = path /\ open[h].modified
                             \/ Text(r.entry.block, r.entry.length) = content[path]
  BY Zenon DEF ReadsBack
<1>1. PICK P, C, Own, S, T : Good(disk, open, content, P, C, Own, S, T)
  BY DEF Inv, GoodNow
<1>2. Sound(disk, P, C, Own) /\ Holds(disk, P, C, S, T) /\ Contents(disk, C, S, T, open, content)
  BY <1>1, GoodFacts
<1>3. path \in DOMAIN content <=> path \in S
  BY <1>1, ContentFacts
<1>4. /\ path \in S => r.rc = 0 /\ r.entry = T[path]
      /\ path \notin S => r.rc # 0
  BY <1>2, FindIs
<1>5. CASE path \notin S
  BY <1>3, <1>4, <1>5
<1>6. CASE path \in S
  <2>1. /\ T[path].block = C[path][1] /\ T[path].dir \in BOOLEAN /\ path \in P
        /\ (T[path].dir <=> path = <<DirectoryName>>)
    BY <1>2, <1>6, HoldsFacts, Kinds
  <2>2. IsDirectory(path) \in BOOLEAN /\ (IsDirectory(path) <=> path = <<DirectoryName>>)
    <3>1. CASE path = <<DirectoryName>>
      <4>1. content[path] = <<DirectoryMark>>
        BY <1>1, <1>6, <3>1, ContentFacts
      <4>. QED
        BY <1>3, <1>6, <3>1, <4>1 DEF IsDirectory
    <3>2. CASE path # <<DirectoryName>>
      <4>1. content[path] \in Seq(DataUnit)
        BY <1>2, <1>6, <3>2 DEF Contents
      <4>2. content[path] # <<DirectoryMark>>
        <5>1. PICK s \in Seq(DataUnit) : s = content[path]
          BY <4>1
        <5>2. Len(<<DirectoryMark>>) = 1 /\ <<DirectoryMark>>[1] = DirectoryMark
          OBVIOUS
        <5>3. DirectoryMark \notin DataUnit
          BY Kinds
        <5>4. \A i \in 1 .. Len(s) : s[i] \in DataUnit
          OBVIOUS
        <5>. QED
          BY <5>1, <5>2, <5>3, <5>4
      <4>. QED
        BY <3>2, <4>2 DEF IsDirectory
    <3>. QED
      BY <3>1, <3>2
  <2>3. r.entry.dir = IsDirectory(path)
    BY <1>4, <1>6, <2>1, <2>2
  <2>4. \/ r.entry.dir
        \/ \E h \in Handles : open[h].path = path /\ open[h].modified
        \/ Text(r.entry.block, r.entry.length) = content[path]
    <3>. SUFFICES ASSUME path # <<DirectoryName>>, ~ Busy(open, path)
                  PROVE  Text(r.entry.block, r.entry.length) = content[path]
      BY <1>4, <1>6, <2>1 DEF Busy
    <3>1. content[path] = SubSeq(UnitsOf(disk, C[path]), 1, T[path].length)
      BY <1>2, <1>6 DEF Contents
    <3>2. Units(disk, C[path][1]) = UnitsOf(disk, C[path])
      BY <1>2, <2>1, UnitsAre
    <3>. QED
      BY <1>4, <1>6, <2>1, <3>1, <3>2 DEF Text
  <2>. QED
    BY <1>3, <1>4, <1>6, <2>3, <2>4, Zenon
<1>. QED
  BY <1>5, <1>6

OnPlace(f) ==
    LET g == IF f.offset >= BlockUnits THEN NextBlock(disk, f) ELSE f
    IN /\ Text(f.first, f.length) = f.text
       /\ f.pos < f.length => disk.data[g.block][g.offset + 1] = f.text[f.pos + 1]

LEMMA InvPlace == Inv => PlaceKept
<1>. SUFFICES ASSUME Inv, disk.defect = "none", NEW h \in Handles, IsOpen(h), ~ open[h].dir
              PROVE  OnPlace(open[h])
  BY Zenon DEF PlaceKept, OnPlace
<1>8. PICK f : f = open[h]
  OBVIOUS
<1>9. PICK g : g = IF f.offset >= BlockUnits THEN NextBlock(disk, f) ELSE f
  OBVIOUS
<1>1. PICK P, C, Own, S, T : Good(disk, open, content, P, C, Own, S, T)
  BY DEF Inv, GoodNow
<1>2. Sound(disk, P, C, Own) /\ OpenFile(disk, P, C, S, f)
  BY <1>1, <1>8, GoodFacts DEF IsOpen
<1>. DEFINE c == C[f.path]
<1>3. f \in File /\ f.path \in P /\ f.first = c[1] /\ InPlace(disk, c, f) /\ f.length <= Size(Len(c))
  BY <1>2, <1>8 DEF OpenFile
<1>4. Linked(disk.next, c) /\ Units(disk, c[1]) = UnitsOf(disk, c) /\ disk \in Disk
  BY <1>2, <1>3, SoundFacts, UnitsAre
<1>. HIDE DEF c
<1>5. /\ UnitsOf(disk, c) \in Seq(Unit) /\ Len(UnitsOf(disk, c)) = Size(Len(c))
      /\ Size(Len(c)) \in Nat \ {0}
      /\ \A k \in 1 .. Len(c), o \in 1 .. BlockUnits :
            UnitsOf(disk, c)[At(k, o)] = disk.data[c[k]][o]
  BY <1>4, UnitsFacts
<1>6. Text(f.first, f.length) = f.text
  BY <1>3, <1>4 DEF Text, InPlace
<1>7. ASSUME f.pos < f.length PROVE disk.data[g.block][g.offset + 1] = f.text[f.pos + 1]
  <2>1. PICK k \in 1 .. Len(c) : f.block = c[k] /\ At(k, f.offset) = f.pos
    BY <1>3 DEF InPlace
  <2>2. f.offset \in 0 .. BlockUnits /\ f.pos \in Nat /\ f.length \in Nat
    BY <1>3, FileFacts
  <2>3. f.text[f.pos + 1] = UnitsOf(disk, c)[f.pos + 1]
    <3>1. f.text = SubSeq(UnitsOf(disk, c), 1, f.length)
      BY <1>3 DEF InPlace
    <3>. QED
      BY <1>3, <1>5, <1>7, <2>2, <3>1, SMTT(60)
  <2>6. Len(c) \in Nat \ {0} /\ k \in Nat \ {0}
    BY <1>4, LinkedFacts
  <2>7. PICK x \in 0 .. BlockUnits, n \in Nat : x = f.offset /\ n = f.pos
    BY <2>2
  <2>8. At(k, x) = n
    BY <2>1, <2>7
  <2>4. CASE f.offset # BlockUnits
    <3>1. g = f
      BY <1>9, <2>2, <2>4, Constants
    <3>2. At(k, f.offset + 1) = f.pos + 1 /\ f.offset + 1 \in 1 .. BlockUnits
      <4>1. x # BlockUnits /\ x + 1 \in 1 .. BlockUnits
        BY <2>4, <2>7, Constants
      <4>2. At(k, x + 1) = n + 1
        BY <2>6, <2>8, <4>1, Places
      <4>. QED
        BY <2>7, <4>1, <4>2
    <3>. QED
      BY <1>5, <2>1, <2>3, <3>1, <3>2
  <2>5. CASE f.offset = BlockUnits
    <3>1. Len(c) \in Nat \ {0} /\ \A i \in 1 .. Len(c) : disk.next[c[i]] = IF i = Len(c) THEN EOF ELSE c[i + 1]
      BY <1>4, LinkedFacts
    <3>2. f.pos = Size(k)
      <4>1. At(k, BlockUnits) = Size(k)
        BY <2>6, Places
      <4>. QED
        BY <2>1, <2>5, <4>1
    <3>3. k # Len(c)
      BY <1>3, <1>5, <1>7, <2>2, <3>2
    <3>4. k + 1 \in 1 .. Len(c) /\ disk.next[f.block] = c[k + 1] /\ c[k + 1] # EOF
      <4>1. k + 1 \in 1 .. Len(c)
        BY <3>1, <3>3
      <4>2. c[k + 1] \in Blocks
        BY <1>4, <4>1, LinkedFacts
      <4>. QED
        BY <2>1, <3>1, <3>3, <4>1, <4>2, Constants
    <3>5. g = [f EXCEPT !.block = c[k + 1], !.offset = 0]
      <4>1. f.offset >= BlockUnits
        BY <2>2, <2>5, Constants
      <4>. QED
        BY <1>9, <3>4, <4>1, Zenon DEF NextBlock
    <3>6. g.block = c[k + 1] /\ g.offset = 0
      BY <1>3, <3>5 DEF File
    <3>7. At(k + 1, 1) = f.pos + 1 /\ 1 \in 1 .. BlockUnits
      <4>1. At(k + 1, 0) = Size(k) /\ k + 1 \in Nat \ {0} /\ 0 \in 0 .. BlockUnits /\ 0 # BlockUnits
        BY <2>6, Places, Constants
      <4>2. At(k + 1, 0 + 1) = At(k + 1, 0) + 1
        BY <4>1, Places
      <4>. QED
        BY <3>2, <4>1, <4>2, Constants
    <3>. QED
      BY <1>5, <2>3, <3>4, <3>6, <3>7
  <2>. QED
    BY <2>4, <2>5
<1>. QED
  BY <1>6, <1>7, <1>8, <1>9, Zenon DEF OnPlace

\* Whatever the number and the size of the blocks, the names and the files open at the same
\* time: as long as no call has written past a block or through a null pointer, a block is
\* free or in the chain of exactly one file or directory (OS_fopen, OS_fdelete, BlockRead)
THEOREM NoBlockLost == Spec => []BlocksOwned
  BY AlwaysInv, InvOwned, PTL

\* A file that was written and closed is found under its name with what was written, and a
\* name that was not written or was deleted is not found (FileFindRecursive, OS_fclose)
THEOREM FoundAgain == Spec => []ReadsBack
  BY AlwaysInv, InvReads, PTL

\* An open file holds what was written to it, and the next unit that is read or written is the
\* one fileOffset names, also where one block ends and the next begins (OS_fread, OS_fwrite, OS_fseek)
THEOREM PlaceIsKept == Spec => []PlaceKept
  BY AlwaysInv, InvPlace, PTL
=============================================================================

----------------------------- MODULE ListLemmas -----------------------------
(***************************************************************************)
(* What the operators of SequencesExt that model linked lists return: the  *)
(* lemmas the proofs about the kernel's lists rest on.                     *)
(***************************************************************************)
EXTENDS Integers, SequencesExt, SequenceTheorems, WellFoundedInduction, TLAPS

\* A nonempty set of natural numbers has a least element (the search for the place
\* of a node in a list stops at the first that fits).
LEMMA MinOfNat ==
    ASSUME NEW S \in SUBSET Nat, S # {}
    PROVE  Min(S) \in S /\ \A y \in S : Min(S) <= y
<1>. DEFINE Less == {ss \in Nat \X Nat : ss[1] < ss[2]}
<1>1. OpToRel(<, Nat) = Less
  BY Zenon DEF OpToRel
<1>2. IsWellFoundedOn(Less, Nat)
  BY <1>1, NatLessThanWellFounded
<1>3. PICK x \in S : \A y \in S : ~ (<<y, x>> \in Less)
  <2>. HIDE DEF Less
  <2>. QED BY <1>2, WFMin
<1>4. \A y, z \in Nat : y < z => <<y, z>> \in Less
  OBVIOUS
<1>. HIDE DEF Less
<1>5. S \subseteq Nat
  OBVIOUS
<1>6. \A y \in S : ~ (y < x)
  BY <1>3, <1>4, <1>5
<1>7. \A y \in S : x <= y
  BY <1>5, <1>6
<1>. QED
  BY <1>7 DEF Min

\* Inserting an element at a place of a sequence moves the later ones up.
LEMMA InsertAtProperties ==
    ASSUME NEW S, NEW s \in Seq(S), NEW k \in 1 .. Len(s) + 1, NEW e \in S
    PROVE  /\ InsertAt(s, k, e) \in Seq(S)
           /\ Len(InsertAt(s, k, e)) = Len(s) + 1
           /\ \A i \in 1 .. Len(s) + 1 :
                InsertAt(s, k, e)[i] = IF i < k THEN s[i] ELSE IF i = k THEN e ELSE s[i - 1]
<1>. DEFINE front == SubSeq(s, 1, k - 1)
            back == SubSeq(s, k, Len(s))
<1>1. front \in Seq(S) /\ Len(front) = k - 1 /\ \A i \in 1 .. k - 1 : front[i] = s[i]
  OBVIOUS
<1>2. back \in Seq(S) /\ Len(back) = Len(s) + 1 - k /\ \A i \in 1 .. Len(s) + 1 - k : back[i] = s[k + i - 1]
  OBVIOUS
<1>3. InsertAt(s, k, e) = front \o <<e>> \o back
  BY DEF InsertAt
<1>. HIDE DEF front, back
<1>4. front \o <<e>> \in Seq(S) /\ Len(front \o <<e>>) = k
  BY <1>1
<1>5. InsertAt(s, k, e) \in Seq(S) /\ Len(InsertAt(s, k, e)) = Len(s) + 1
  <2>1. (front \o <<e>>) \o back \in Seq(S)
    BY <1>2, <1>4, Zenon, ConcatProperties
  <2>2. Len((front \o <<e>>) \o back) = Len(front \o <<e>>) + Len(back)
    BY <1>2, <1>4, Zenon, ConcatProperties
  <2>3. Len(front \o <<e>>) + Len(back) = Len(s) + 1
    <3>1. Len(back) = Len(s) + 1 - k /\ Len(front \o <<e>>) = k /\ Len(s) \in Nat
      BY <1>2, <1>4
    <3>. HIDE DEF front, back
    <3>. QED
      BY <3>1
  <2>. HIDE DEF front, back
  <2>. QED
    BY <1>3, <2>1, <2>2, <2>3, Zenon
<1>6. ASSUME NEW i \in 1 .. Len(s) + 1, i < k
      PROVE  InsertAt(s, k, e)[i] = s[i]
  BY <1>1, <1>2, <1>3, <1>6
<1>7. InsertAt(s, k, e)[k] = e
  BY <1>1, <1>2, <1>3
<1>8. ASSUME NEW i \in 1 .. Len(s) + 1, i > k
      PROVE  InsertAt(s, k, e)[i] = s[i - 1]
  <2>1. InsertAt(s, k, e)[i] = back[i - k]
    BY <1>1, <1>2, <1>3, <1>8
  <2>2. back[i - k] = s[i - 1]
    BY <1>2, <1>8
  <2>. QED
    BY <2>1, <2>2
<1>. QED
  BY <1>5, <1>6, <1>7, <1>8

\* Removing the element at a place of a sequence moves the later ones down.
LEMMA RemoveAtProperties ==
    ASSUME NEW S, NEW s \in Seq(S), NEW k \in 1 .. Len(s)
    PROVE  /\ RemoveAt(s, k) \in Seq(S)
           /\ Len(RemoveAt(s, k)) = Len(s) - 1
           /\ \A i \in 1 .. Len(s) - 1 :
                RemoveAt(s, k)[i] = IF i < k THEN s[i] ELSE s[i + 1]
<1>. DEFINE front == SubSeq(s, 1, k - 1)
            back == SubSeq(s, k + 1, Len(s))
<1>1. front \in Seq(S) /\ Len(front) = k - 1 /\ \A i \in 1 .. k - 1 : front[i] = s[i]
  OBVIOUS
<1>2. back \in Seq(S) /\ Len(back) = Len(s) - k /\ \A i \in 1 .. Len(s) - k : back[i] = s[k + i]
  OBVIOUS
<1>3. RemoveAt(s, k) = front \o back
  BY DEF RemoveAt
<1>. HIDE DEF front, back
<1>4. RemoveAt(s, k) \in Seq(S) /\ Len(RemoveAt(s, k)) = Len(s) - 1
  <2>1. front \o back \in Seq(S)
    BY <1>1, <1>2, Zenon, ConcatProperties
  <2>2. Len(front \o back) = Len(front) + Len(back)
    BY <1>1, <1>2, Zenon, ConcatProperties
  <2>. QED
    BY <1>1, <1>2, <1>3, <2>1, <2>2
<1>5. ASSUME NEW i \in 1 .. Len(s) - 1, i < k
      PROVE  RemoveAt(s, k)[i] = s[i]
  BY <1>1, <1>2, <1>3, <1>5
<1>6. ASSUME NEW i \in 1 .. Len(s) - 1, i >= k
      PROVE  RemoveAt(s, k)[i] = s[i + 1]
  <2>1. RemoveAt(s, k)[i] = back[i - k + 1]
    BY <1>1, <1>2, <1>3, <1>6
  <2>2. back[i - k + 1] = s[i + 1]
    BY <1>2, <1>6
  <2>. QED
    BY <2>1, <2>2
<1>. QED
  BY <1>4, <1>5, <1>6

\* A sequence without repetition has, after an insertion of a new element, just
\* that element more.
LEMMA InsertAtRange ==
    ASSUME NEW S, NEW s \in Seq(S), NEW k \in 1 .. Len(s) + 1, NEW e \in S
    PROVE  /\ Range(InsertAt(s, k, e)) = Range(s) \cup {e}
           /\ IsInjective(s) /\ e \notin Range(s) => IsInjective(InsertAt(s, k, e))
<1>. DEFINE t == InsertAt(s, k, e)
<1>1. /\ t \in Seq(S)
      /\ Len(t) = Len(s) + 1
      /\ \A i \in 1 .. Len(s) + 1 : t[i] = IF i < k THEN s[i] ELSE IF i = k THEN e ELSE s[i - 1]
  BY InsertAtProperties
<1>. HIDE DEF t
<1>2. Range(t) \subseteq Range(s) \cup {e}
  BY <1>1 DEF Range
<1>3. \A i \in DOMAIN s : s[i] \in Range(t)
  <2>. TAKE i \in DOMAIN s
  <2>1. CASE i < k
    BY <2>1, <1>1 DEF Range
  <2>2. CASE i >= k
    <3>1. i + 1 \in DOMAIN t /\ t[i + 1] = s[i]
      BY <2>2, <1>1
    <3>. QED BY <3>1 DEF Range
  <2>. QED BY <2>1, <2>2
<1>4. e \in Range(t)
  BY <1>1 DEF Range
<1>5. ASSUME IsInjective(s), e \notin Range(s)
      PROVE  IsInjective(t)
  <2>1. DOMAIN t = 1 .. Len(s) + 1 /\ DOMAIN s = 1 .. Len(s)
    BY <1>1
  <2>2. \A i \in DOMAIN s : s[i] # e
    BY <1>5 DEF Range
  <2>3. \A i, j \in 1 .. Len(s) : s[i] = s[j] => i = j
    BY <1>5, <2>1 DEF IsInjective
  <2>4. ASSUME NEW i \in 1 .. Len(s) + 1, NEW j \in 1 .. Len(s) + 1, t[i] = t[j]
        PROVE  i = j
    <3>1. CASE i < k /\ j < k
      <4>1. s[i] = s[j]
        BY <3>1, <2>4, <1>1
      <4>. QED BY <3>1, <4>1, <2>3
    <3>2. CASE i > k /\ j > k
      <4>1. s[i - 1] = s[j - 1]
        BY <3>2, <2>4, <1>1
      <4>. QED BY <3>2, <4>1, <2>3
    <3>3. CASE i < k /\ j > k
      <4>1. s[i] = s[j - 1]
        BY <3>3, <2>4, <1>1
      <4>. QED BY <3>3, <4>1, <2>3
    <3>4. CASE i > k /\ j < k
      <4>1. s[i - 1] = s[j]
        BY <3>4, <2>4, <1>1
      <4>. QED BY <3>4, <4>1, <2>3
    <3>5. CASE i = k
      BY <3>5, <2>1, <2>2, <2>4, <1>1
    <3>6. CASE j = k
      <4>1. t[i] = e
        BY <3>6, <2>4, <1>1
      <4>2. CASE i < k
        BY <4>1, <4>2, <2>1, <2>2, <1>1
      <4>3. CASE i > k
        <5>1. t[i] = s[i - 1] /\ i - 1 \in DOMAIN s
          BY <4>3, <2>1, <1>1
        <5>. QED BY <4>1, <5>1, <2>2
      <4>. QED BY <3>6, <4>2, <4>3
    <3>. QED
      BY <3>1, <3>2, <3>3, <3>4, <3>5, <3>6
  <2>. QED
    BY <2>1, <2>4 DEF IsInjective
<1>. QED
  BY <1>2, <1>3, <1>4, <1>5 DEF t, Range

\* A sequence without repetition has, after a removal, just that element less.
LEMMA RemoveAtRange ==
    ASSUME NEW S, NEW s \in Seq(S), NEW k \in 1 .. Len(s), IsInjective(s)
    PROVE  /\ Range(RemoveAt(s, k)) = Range(s) \ {s[k]}
           /\ IsInjective(RemoveAt(s, k))
<1>. DEFINE t == RemoveAt(s, k)
<1>1. /\ t \in Seq(S)
      /\ Len(t) = Len(s) - 1
      /\ \A i \in 1 .. Len(s) - 1 : t[i] = IF i < k THEN s[i] ELSE s[i + 1]
  BY RemoveAtProperties
<1>. HIDE DEF t
<1>2. Range(t) \subseteq Range(s) \ {s[k]}
  BY <1>1 DEF Range, IsInjective
<1>3. \A i \in DOMAIN s : i # k => s[i] \in Range(t)
  <2>. SUFFICES ASSUME NEW i \in DOMAIN s, i # k
                PROVE  s[i] \in Range(t)
    OBVIOUS
  <2>1. CASE i < k
    BY <2>1, <1>1 DEF Range
  <2>2. CASE i > k
    <3>1. i - 1 \in DOMAIN t /\ t[i - 1] = s[i]
      BY <2>2, <1>1
    <3>. QED BY <3>1 DEF Range
  <2>. QED BY <2>1, <2>2
<1>4. IsInjective(t)
  <2>1. \A i, j \in 1 .. Len(s) : s[i] = s[j] => i = j
    BY DEF IsInjective
  <2>2. ASSUME NEW i \in 1 .. Len(s) - 1, NEW j \in 1 .. Len(s) - 1, t[i] = t[j]
        PROVE  i = j
    <3>. DEFINE Up(n) == IF n < k THEN n ELSE n + 1
    <3>1. s[Up(i)] = s[Up(j)]
      BY <2>2, <1>1
    <3>2. Up(i) \in 1 .. Len(s) /\ Up(j) \in 1 .. Len(s)
      OBVIOUS
    <3>3. Up(i) = Up(j)
      BY <3>1, <3>2, <2>1
    <3>. QED
      BY <3>3
  <2>. QED
    BY <2>2, <1>1 DEF IsInjective
<1>. QED
  BY <1>2, <1>3, <1>4 DEF t, Range

\* Appending a new element to a sequence without repetition.
LEMMA AppendRange ==
    ASSUME NEW S, NEW s \in Seq(S), NEW e \in S
    PROVE  /\ Append(s, e) \in Seq(S)
           /\ Len(Append(s, e)) = Len(s) + 1
           /\ Range(Append(s, e)) = Range(s) \cup {e}
           /\ IsInjective(s) /\ e \notin Range(s) => IsInjective(Append(s, e))
<1>. DEFINE t == Append(s, e)
<1>1. /\ t \in Seq(S)
      /\ Len(t) = Len(s) + 1
      /\ \A i \in 1 .. Len(s) : t[i] = s[i]
      /\ t[Len(s) + 1] = e
  OBVIOUS
<1>. HIDE DEF t
<1>2. Range(t) = Range(s) \cup {e}
  <2>1. \A i \in DOMAIN t : t[i] \in Range(s) \cup {e}
    BY <1>1 DEF Range
  <2>2. \A i \in DOMAIN s : s[i] \in Range(t)
    BY <1>1 DEF Range
  <2>3. e \in Range(t)
    BY <1>1 DEF Range
  <2>. QED BY <2>1, <2>2, <2>3 DEF Range
<1>3. ASSUME IsInjective(s), e \notin Range(s)
      PROVE  IsInjective(t)
  <2>1. \A i \in 1 .. Len(s) : s[i] # e
    BY <1>3 DEF Range
  <2>. QED
    BY <1>1, <1>3, <2>1 DEF IsInjective
<1>. QED
  BY <1>1, <1>2, <1>3 DEF t

\* A list in the order of the keys of its elements.
KeySorted(list, key) ==
    \A i, j \in 1 .. Len(list) : i < j => key[list[i]] <= key[list[j]]

\* An insertion between the keys that are no greater and those that are no less keeps it.
LEMMA InsertSorted ==
    ASSUME NEW S, NEW key \in [S -> Int], NEW s \in Seq(S), NEW e \in S,
           NEW k \in 1 .. Len(s) + 1, KeySorted(s, key),
           \A i \in 1 .. k - 1 : key[s[i]] <= key[e],
           \A i \in k .. Len(s) : key[e] <= key[s[i]]
    PROVE  KeySorted(InsertAt(s, k, e), key)
<1>. DEFINE t == InsertAt(s, k, e)
<1>1. /\ t \in Seq(S)
      /\ Len(t) = Len(s) + 1
      /\ \A i \in 1 .. Len(s) + 1 : t[i] = IF i < k THEN s[i] ELSE IF i = k THEN e ELSE s[i - 1]
  BY InsertAtProperties
<1>. HIDE DEF t
<1>2. \A i \in 1 .. Len(s) : s[i] \in S /\ key[s[i]] \in Int
  OBVIOUS
<1>3. ASSUME NEW i \in 1 .. Len(t), NEW j \in 1 .. Len(t), i < j
      PROVE  key[t[i]] <= key[t[j]]
  <2>1. CASE j < k
    <3>1. t[i] = s[i] /\ t[j] = s[j] /\ i \in 1 .. Len(s) /\ j \in 1 .. Len(s)
      BY <1>1, <1>3, <2>1
    <3>. QED
      BY <1>3, <3>1 DEF KeySorted
  <2>2. CASE j = k
    <3>1. t[i] = s[i] /\ t[j] = e /\ i \in 1 .. k - 1
      BY <1>1, <1>3, <2>2
    <3>. QED
      BY <3>1
  <2>3. CASE j > k /\ i = k
    <3>1. t[i] = e /\ t[j] = s[j - 1] /\ j - 1 \in k .. Len(s)
      BY <1>1, <2>3
    <3>. QED
      BY <3>1
  <2>4. CASE j > k /\ i < k
    <3>1. t[i] = s[i] /\ t[j] = s[j - 1] /\ i < j - 1 /\ i \in 1 .. Len(s) /\ j - 1 \in 1 .. Len(s)
      BY <1>1, <2>4
    <3>. QED
      BY <3>1 DEF KeySorted
  <2>5. CASE j > k /\ i > k
    <3>1. /\ t[i] = s[i - 1] /\ t[j] = s[j - 1] /\ i - 1 < j - 1
          /\ i - 1 \in 1 .. Len(s) /\ j - 1 \in 1 .. Len(s)
      BY <1>1, <1>3, <2>5
    <3>. QED
      BY <3>1 DEF KeySorted
  <2>. QED
    BY <2>1, <2>2, <2>3, <2>4, <2>5
<1>. QED
  BY <1>3 DEF KeySorted, t

\* So does appending the greatest.
LEMMA AppendSorted ==
    ASSUME NEW S, NEW key \in [S -> Int], NEW s \in Seq(S), NEW e \in S, KeySorted(s, key),
           \A i \in 1 .. Len(s) : key[s[i]] <= key[e]
    PROVE  KeySorted(Append(s, e), key)
<1>. DEFINE t == Append(s, e)
<1>1. /\ Len(t) = Len(s) + 1
      /\ \A i \in 1 .. Len(s) : t[i] = s[i]
      /\ t[Len(s) + 1] = e
  OBVIOUS
<1>. HIDE DEF t
<1>2. ASSUME NEW i \in 1 .. Len(t), NEW j \in 1 .. Len(t), i < j
      PROVE  key[t[i]] <= key[t[j]]
  <2>1. CASE j = Len(s) + 1
    BY <1>1, <1>2, <2>1
  <2>2. CASE j # Len(s) + 1
    <3>1. i \in 1 .. Len(s) /\ j \in 1 .. Len(s)
      BY <1>1, <1>2, <2>2
    <3>2. key[s[i]] <= key[s[j]]
      BY <1>2, <3>1 DEF KeySorted
    <3>. QED
      BY <1>1, <3>1, <3>2
  <2>. QED
    BY <2>1, <2>2
<1>. QED
  BY <1>2 DEF KeySorted, t

\* And any removal.
LEMMA RemoveSorted ==
    ASSUME NEW S, NEW key \in [S -> Int], NEW s \in Seq(S), NEW k \in 1 .. Len(s), KeySorted(s, key)
    PROVE  KeySorted(RemoveAt(s, k), key)
<1>. DEFINE t == RemoveAt(s, k)
            Up(n) == IF n < k THEN n ELSE n + 1
<1>1. /\ t \in Seq(S)
      /\ Len(t) = Len(s) - 1
      /\ \A i \in 1 .. Len(s) - 1 : t[i] = s[Up(i)]
  BY RemoveAtProperties
<1>. HIDE DEF t
<1>2. ASSUME NEW i \in 1 .. Len(t), NEW j \in 1 .. Len(t), i < j
      PROVE  key[t[i]] <= key[t[j]]
  <2>1. Up(i) \in 1 .. Len(s) /\ Up(j) \in 1 .. Len(s) /\ Up(i) < Up(j)
    BY <1>1, <1>2
  <2>2. t[i] = s[Up(i)] /\ t[j] = s[Up(j)]
    BY <1>1
  <2>. QED
    BY <2>1, <2>2 DEF KeySorted
<1>. QED
  BY <1>2 DEF KeySorted, t

(***************************************************************************)
(* Counters and indices that wrap.                                         *)
(***************************************************************************)

LEMMA ModDifference ==
    ASSUME NEW W \in Nat \ {0}, NEW n \in 0 .. W - 1, NEW m \in 0 .. W - 1
    PROVE  (n - m) % W = IF n >= m THEN n - m ELSE n - m + W
<1>1. \A d \in Int : 0 <= d /\ d < W => d % W = d
  OBVIOUS
<1>2. \A d \in Int : -W <= d /\ d < 0 => d % W = d + W
  OBVIOUS
<1>. QED
  BY <1>1, <1>2

LEMMA ModSum ==
    ASSUME NEW W \in Nat \ {0}, NEW n \in 0 .. W - 1, NEW m \in 0 .. W - 1
    PROVE  (n + m) % W = IF n + m < W THEN n + m ELSE n + m - W
<1>1. \A d \in Int : 0 <= d /\ d < W => d % W = d
  OBVIOUS
<1>2. \A d \in Int : W <= d /\ d < W + W => d % W = d - W
  OBVIOUS
<1>. QED
  BY <1>1, <1>2

(***************************************************************************)
(* Recursion along a list.                                                 *)
(***************************************************************************)

\* What holds of 0, and of a number when it holds of the one before, holds of all.
LEMMA CountUp ==
    ASSUME NEW n \in Nat, NEW S, 0 \in S, \A i \in 1 .. n : i - 1 \in S => i \in S
    PROVE  \A i \in 0 .. n : i \in S
<1>. DEFINE Out == {i \in 0 .. n : i \notin S}
<1>1. SUFFICES ASSUME Out # {}
               PROVE  FALSE
  OBVIOUS
<1>2. Out \in SUBSET Nat
  OBVIOUS
<1>3. Min(Out) \in Out /\ \A y \in Out : Min(Out) <= y
  <2>. HIDE DEF Out
  <2>. QED BY <1>1, <1>2, MinOfNat
<1>. DEFINE k == Min(Out)
<1>. HIDE DEF k
<1>4. k \in 0 .. n /\ k \notin S /\ \A y \in Out : k <= y
  BY <1>3 DEF k
<1>5. k # 0
  BY <1>4
<1>6. k \in 1 .. n /\ k - 1 \in 0 .. n /\ k - 1 < k
  BY <1>4, <1>5
<1>7. k - 1 \in S
  BY <1>4, <1>6
<1>. QED
  BY <1>4, <1>6, <1>7

\* A recursion of n steps, each between the sets of the values possible there
Closed(n, I, step) ==
    \A i \in 1 .. n : \A a \in I[i - 1] : step[i][a] \in I[i]

Solves(g, n, T, I, base, step) ==
    /\ g \in [0 .. n -> T]
    /\ g[0] = base
    /\ \A i \in 1 .. n : g[i] = step[i][g[i - 1]]
    /\ \A i \in 0 .. n : g[i] \in I[i]

LEMMA FiniteRecursion ==
    ASSUME NEW n \in Nat, NEW T, NEW I \in [0 .. n -> SUBSET T], NEW base \in I[0],
           NEW step \in [1 .. n -> [T -> T]], Closed(n, I, step)
    PROVE  \E g : Solves(g, n, T, I, base, step)
<1>. DEFINE Sol(g, k) == Solves(g, k, T, I, base, step)
            S == {k \in 0 .. n : \E g : Sol(g, k)}
<1>1. 0 \in S
  <2>1. base \in T
    BY I[0] \in SUBSET T
  <2>2. Sol([i \in 0 .. 0 |-> base], 0)
    BY <2>1 DEF Solves
  <2>. HIDE DEF Sol
  <2>. QED
    BY <2>2
<1>2. ASSUME NEW k \in 1 .. n, k - 1 \in S
      PROVE  k \in S
  <2>1. PICK g : Sol(g, k - 1)
    BY <1>2
  <2>2. k - 1 \in 0 .. n /\ k \in 0 .. n /\ k - 1 \in 0 .. k - 1 /\ k \notin 0 .. k - 1
    OBVIOUS
  <2>. DEFINE v == step[k][g[k - 1]]
              h == [i \in 0 .. k |-> IF i = k THEN v ELSE g[i]]
  <2>3. g[k - 1] \in I[k - 1] /\ g[k - 1] \in T
    BY <2>1, <2>2 DEF Solves
  <2>4. v \in I[k] /\ v \in T
    BY <2>2, <2>3 DEF Closed
  <2>. HIDE DEF v
  <2>5. h \in [0 .. k -> T]
    <3>1. \A i \in 0 .. k : i # k => i \in 0 .. k - 1
      OBVIOUS
    <3>. QED
      BY <2>1, <2>4, <3>1 DEF Solves
  <2>6. \A i \in 0 .. k - 1 : h[i] = g[i]
    OBVIOUS
  <2>7. h[k] = v
    OBVIOUS
  <2>8. h[0] = base
    BY <2>1, <2>6 DEF Solves
  <2>. HIDE DEF h
  <2>9. \A i \in 1 .. k : h[i] = step[i][h[i - 1]]
    <3>. SUFFICES ASSUME NEW i \in 1 .. k
                  PROVE  h[i] = step[i][h[i - 1]]
      OBVIOUS
    <3>1. CASE i = k
      BY <3>1, <2>2, <2>6, <2>7 DEF v
    <3>2. CASE i # k
      <4>1. i \in 1 .. k - 1 /\ i \in 0 .. k - 1 /\ i - 1 \in 0 .. k - 1
        BY <3>2
      <4>. QED
        BY <4>1, <2>1, <2>6 DEF Solves
    <3>. QED
      BY <3>1, <3>2
  <2>10. \A i \in 0 .. k : h[i] \in I[i]
    <3>1. \A i \in 0 .. k : i # k => i \in 0 .. k - 1
      OBVIOUS
    <3>. QED
      BY <3>1, <2>1, <2>4, <2>6, <2>7 DEF Solves
  <2>11. Sol(h, k)
    BY <2>5, <2>8, <2>9, <2>10 DEF Solves
  <2>. HIDE DEF Sol
  <2>. QED
    BY <2>2, <2>11
<1>3. \A i \in 1 .. n : i - 1 \in S => i \in S
  BY <1>2
<1>. HIDE DEF S
<1>4. n \in S
  <2>1. \A i \in 0 .. n : i \in S
    BY <1>1, <1>3, CountUp, Zenon
  <2>. QED
    BY <2>1
<1>5. PICK g : Sol(g, n)
  BY <1>4 DEF S
<1>. QED
  BY <1>5
=============================================================================

------------------------------ MODULE SoftFloat ------------------------------
(* The floating point library that gcc calls (kernel/math.c): numbers without  *)
(* infinities or denormals, whose words are W to the 8 of the code, for a       *)
(* fraction of 3W bits with the hidden one, and an exponent of E bits.  Each    *)
(* step shortens a number as the code's shifts do.                              *)
EXTENDS Integers

CONSTANTS W, E, Exponents, Fractions   \* the samples' exponents and fractions

VARIABLE sample

P == 3 * W
One == 2 ^ (P - 1)                     \* 0x00800000: the hidden one
Bias == 2 ^ (E - 1)                    \* 0x80
Zero == [s |-> 0, e |-> 0, f |-> 0]
Fraction(a) == One + a.f
Signed(s, n) == IF s = 1 THEN - n ELSE n

\* C divides towards zero
Quotient(a, b) == IF a < 0 THEN - ((- a) \div b) ELSE a \div b

\* Bits of a number that is not 0
Length(n) == CHOOSE k \in 1..31 : 2 ^ (k - 1) <= n /\ n \div 2 < 2 ^ (k - 1)

\* An exponent that is too large runs into the sign, one that is too small gives 0
Pack(s, e, n) ==
    IF e < 1 THEN Zero
    ELSE [s |-> IF (e \div 2 ^ E) % 2 = 1 THEN 1 ELSE s, e |-> e % 2 ^ E, f |-> n % One]

\* The loops that shift a fraction down, and up, to P bits
Down(s, e, n) ==
    LET k == IF Length(n) > P THEN Length(n) - P ELSE 0
    IN  Pack(s, e + k, n \div 2 ^ k)
UpOrDown(s, e, n) ==
    IF Length(n) >= P THEN Down(s, e, n)
    ELSE Pack(s, e - (P - Length(n)), n * 2 ^ (P - Length(n)))

FP_Neg(a) == [a EXCEPT !.s = 1 - @]

\* The fraction of the smaller number loses its last bits
Aligned(a, e) == Signed(a.s, IF e - a.e < 30 THEN Fraction(a) \div 2 ^ (e - a.e) ELSE 0)

FP_Add(a, b) ==
    LET e   == IF a.e > b.e THEN a.e ELSE b.e
        sum == Aligned(a, e) + Aligned(b, e)
    IN  IF sum = 0 THEN Zero
        ELSE UpOrDown(IF sum < 0 THEN 1 ELSE 0, e, IF sum < 0 THEN - sum ELSE sum)

FP_Sub(a, b) == FP_Add(a, FP_Neg(b))

Sign(a, b) == (a.s + b.s) % 2

FP_Mult(a, b) == Down(Sign(a, b), a.e + b.e - Bias + 1, (Fraction(a) * Fraction(b)) \div One)

\* A first quotient by the upper 2W bits of b, and what it leaves of a
FirstQuotient(a, b) == ((a * 2 ^ (W \div 2)) \div (b \div 2 ^ W)) * 2 ^ (P \div 2)
Remainder(a, b) == a - (FirstQuotient(a, b) * b) \div 2 ^ P

LongQuotient(a, b) ==
    FirstQuotient(a, b) + Quotient(Remainder(a, b) * 2 ^ (2 * W), b \div 2 ^ W)

FP_Div(a, b) == Down(Sign(a, b), a.e - (b.e - Bias) - 2, LongQuotient(Fraction(a), Fraction(b)))

FP_ToLong(a) ==
    LET shift == Bias + 4 * W - 3 - a.e
    IN  Signed(a.s, IF shift <= 0 THEN Fraction(a) * 2 ^ (W - 1)
                    ELSE IF shift < 4 * W - 1 THEN (Fraction(a) * 2 ^ (W - 1)) \div 2 ^ shift
                    ELSE 0)

FP_ToFloat(n) ==
    IF n = 0 THEN Zero
    ELSE UpOrDown(IF n < 0 THEN 1 ELSE 0, Bias + P - 2, IF n < 0 THEN - n ELSE n)

FP_Cmp(a, b) ==
    LET gt == IF a.s = 1 THEN -1 ELSE 1 IN
    IF a = b THEN 0
    ELSE IF a.s # b.s THEN (IF a.s > b.s THEN -1 ELSE 1)
    ELSE IF a.e # b.e THEN (IF a.e > b.e THEN gt ELSE - gt)
    ELSE IF a.f > b.f THEN gt ELSE - gt
-----------------------------------------------------------------------------
Numbers == [s : {0, 1}, e : Exponents \ {0}, f : Fractions] \cup {Zero}
Regular == Numbers \ {Zero}

SampleInit == sample = [kind |-> "none"]
TakeSample == sample.kind = "none" /\ \E a \in Regular : sample' = [kind |-> "float", number |-> a]

\* In units of the last place of the least number there is
Exact(a) == IF a = Zero THEN 0 ELSE Signed(a.s, Fraction(a) * 2 ^ a.e)
Abs(n) == IF n < 0 THEN - n ELSE n
Largest(S) == CHOOSE x \in S : \A y \in S : x >= y
InRange(e) == 1 <= e /\ e < 2 ^ E - 1

\* A sum is off by less than one unit of the last place of the largest of the three, unless
\* they are so small that what cancels becomes 0, or that 0, which is added as the number
\* with exponent 0 and no fraction, counts
SumClose(a, b) ==
    LET r == FP_Add(a, b) e == Largest({a.e, b.e, r.e})
    IN  a.e >= P /\ r.e < 2 ^ E - 1 => Abs(Exact(r) - (Exact(a) + Exact(b))) < 2 ^ e

\* A product is cut, by less than a unit; a quotient is off by less than three
ProductCut(a, b) ==
    LET e == a.e + b.e - Bias + 1
        r == FP_Mult(a, b)
        d == r.e - e
        off == Fraction(a) * Fraction(b) - Fraction(r) * One * 2 ^ d
    IN  InRange(e) => r.s = Sign(a, b) /\ d \in {0, 1} /\ 0 <= off /\ off < One * 2 ^ d

QuotientClose(a, b) ==
    LET e == a.e - b.e + Bias - 2
        r == FP_Div(a, b)
        d == r.e - e
    IN  InRange(e) =>
          /\ r.s = Sign(a, b) /\ d \in {0, 1}
          /\ Abs(Fraction(r) * 2 ^ d * Fraction(b) - Fraction(a) * 2 ^ P) < 3 * 2 ^ d * Fraction(b)

\* The assertion of FP_Div on what the first quotient leaves
RemainderSmall(a, b) == Abs(Remainder(Fraction(a), Fraction(b))) < 2 ^ (2 * W) - 1

\* Numbers compare as their values do, and integers of up to P bits survive the way there
\* and back, larger ones lose what does not fit
Compared(a, b) ==
    FP_Cmp(a, b) = (IF Exact(a) > Exact(b) THEN 1 ELSE IF Exact(a) < Exact(b) THEN -1 ELSE 0)

ThereAndBack(a) ==
    LET n == Signed(a.s, Fraction(a)) IN
    /\ FP_ToLong(FP_ToFloat(n)) = n
    /\ LET m == FP_ToLong(FP_ToFloat(n * 8 + 5)) IN Abs(m - (n * 8 + 5)) < 8

\* The arithmetic of kernel/math.c is as close as its shifts allow, in every case: the
\* numbers are far apart, cancel, carry, or change the exponent.
FloatsClose ==
    sample.kind = "float" =>
      LET a == sample.number IN
      /\ ThereAndBack(a)
      /\ \A b \in Numbers : SumClose(a, b) /\ Compared(a, b)
      /\ \A b \in Regular : ProductCut(a, b) /\ QuotientClose(a, b) /\ RemainderSmall(a, b)
=============================================================================

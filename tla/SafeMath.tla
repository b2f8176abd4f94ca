---------------------------- MODULE SafeMath ----------------------------
(***************************************************************************)
(* types/SafeMath.ts and types/SafeMathI128.ts: checked arithmetic on      *)
(* words.  A u256 is four segments, a u128 or i128 two, of SegmentBits     *)
(* (64) bits.  A function returns a value or Throw; the operators below    *)
(* hand an operand that is Throw on, as an exception leaves the caller.    *)
(* The library's u256.add, sub and mul wrap; its div and comparisons are   *)
(* exact.                                                                  *)
(***************************************************************************)
EXTENDS Outcomes, Powers

CONSTANTS
    SegmentBits,        \* 64 in the code
    Scale,              \* SCALE_1E6, the fixed point of the logarithms
    Ln2,                \* LN2_SCALED, ln(2) at that scale
    MaxPow10Exponent    \* 77, the largest power of ten that fits

TwoTo == PowersOf(2)

Bits == 4 * SegmentBits
Modulus == TwoTo[Bits]
Word == 0 .. Modulus - 1

ASSUME SafeMathAssumption ==
    /\ SegmentBits \in Nat \ {0} /\ Throw \notin Int
    /\ MaxPow10Exponent \in Nat
    /\ PowersOf(10)[MaxPow10Exponent] < Modulus
    /\ PowersOf(10)[MaxPow10Exponent + 1] >= Modulus

MaxWord == Modulus - 1

Wrap(n) == n % Modulus

-----------------------------------------------------------------------------
(* Addition to remainder *)

Add(a, b) ==
    IF Throw \in {a, b} \/ Wrap(a + b) < a THEN Throw ELSE Wrap(a + b)

Sub(a, b) ==
    IF Throw \in {a, b} \/ a < b THEN Throw ELSE a - b

MulUnchecked(a, b) == IF Throw \in {a, b} THEN Throw ELSE Wrap(a * b)

\* The product wraps and is checked by dividing it again.
Mul(a, b) ==
    IF Throw \in {a, b} THEN Throw
    ELSE IF a = 0 \/ b = 0 THEN 0
    ELSE LET c == Wrap(a * b)
         IN  IF c \div a # b THEN Throw ELSE c

Div(a, b) ==
    IF Throw \in {a, b} \/ b = 0 THEN Throw ELSE a \div b

Mod(a, b) ==
    IF b = 0 THEN Throw ELSE Wrap(a - Wrap((a \div b) * b))

LesserOf(a, b) == IF a < b THEN a ELSE b
GreaterOf(a, b) == IF a > b THEN a ELSE b
IsEven(a) == a % 2 = 0
Inc(a) == IF a = MaxWord THEN Throw ELSE a + 1
Dec(a) == IF a = 0 THEN Throw ELSE a - 1

-----------------------------------------------------------------------------
(* Modular arithmetic.  Neither sum can exceed the word. *)

AddModNoCarry(x, y, m) ==
    LET mMinusY == Wrap(m - y) IN
    IF x >= mMinusY THEN Wrap(x - mMinusY) ELSE Wrap(x + y)

DoubleModNoCarry(x, m) == AddModNoCarry(x, x, m)

\* The loop of mulmod: from its variables in a turn to what it returns.
MulModLoop(m) ==
    LET loop[v \in [a : Word, b : Word, res : Word]] ==
            IF v.b = 0 THEN v.res
            ELSE loop[[a |-> IF v.b \div 2 = 0 THEN v.a ELSE DoubleModNoCarry(v.a, m),
                       b |-> v.b \div 2,
                       res |-> IF IsEven(v.b) THEN v.res ELSE AddModNoCarry(v.res, v.a, m)]]
    IN  loop

MulMod(x, y, m) ==
    LET reduced(v) == IF v >= m THEN Mod(v, m) ELSE v
    IN  IF m = 0 THEN Throw ELSE MulModLoop(m)[[a |-> reduced(x), b |-> reduced(y), res |-> 0]]

\* The extended Euclid of modInverse keeps the coefficients s as magnitude
\* and sign, because a word has no sign.
NextCoefficient(old, s, quotient) ==
    LET prod == Wrap(quotient * s.abs) IN
    IF old.neg # s.neg THEN [abs |-> Wrap(old.abs + prod), neg |-> old.neg]
    ELSE IF old.abs >= prod THEN [abs |-> old.abs - prod, neg |-> old.neg]
    ELSE [abs |-> prod - old.abs, neg |-> ~old.neg]

Coefficient == [abs : Word, neg : BOOLEAN]
EuclidLoop ==
    LET loop[v \in [oldR : Word, r : Word, oldS : Coefficient, s : Coefficient]] ==
            IF v.r = 0 THEN [gcd |-> v.oldR, s |-> v.oldS]
            ELSE loop[[oldR |-> v.r, r |-> v.oldR % v.r, oldS |-> v.s,
                       s |-> NextCoefficient(v.oldS, v.s, v.oldR \div v.r)]]
    IN  loop

ModInverse(k, p) ==
    LET end == EuclidLoop[[oldR |-> k, r |-> p, oldS |-> [abs |-> 1, neg |-> FALSE],
                           s |-> [abs |-> 0, neg |-> FALSE]]]
        least == Mod(end.s.abs, p)
    IN  IF p \in {0, 1} \/ k = 0 THEN Throw
        ELSE IF end.gcd # 1 THEN Throw
        ELSE IF end.s.neg /\ least # 0 THEN p - least ELSE least

-----------------------------------------------------------------------------
(* Shifts, roots and powers *)

Segment(v, j) ==
    IF j < 0 THEN 0 ELSE (v \div TwoTo[SegmentBits * j]) % TwoTo[SegmentBits]

\* shl (n = 4) and shl128 (n = 2): every segment of the result joins the low
\* bits of one segment and the high bits of the one below.
ShlSegments(n, value, shift) ==
    LET seg == shift \div SegmentBits
        bit == shift % SegmentBits
        r(j) == ((Segment(value, j - seg) * TwoTo[bit]) % TwoTo[SegmentBits])
                + (IF bit = 0 THEN 0
                   ELSE Segment(value, j - seg - 1) \div TwoTo[SegmentBits - bit])
        upTo[j \in Nat] ==
            r(j) * TwoTo[SegmentBits * j] + (IF j = 0 THEN 0 ELSE upTo[j - 1])
    IN  IF shift = 0 THEN value
        ELSE IF shift < 0 \/ shift >= n * SegmentBits THEN 0
        ELSE upTo[n - 1]

Shl(value, shift) == ShlSegments(4, value, shift)
Shl128(value, shift) == ShlSegments(2, value, shift)

\* Newton's method; the library's div throws at zero.
SqrtLoop(y) ==
    LET loop[v \in [x : Word, z : Word]] ==
            IF v.x >= v.z THEN v.z
            ELSE IF v.x = 0 THEN Throw
            ELSE loop[[x |-> Wrap(y \div v.x + v.x) \div 2, z |-> v.x]]
    IN  loop

Sqrt(y) ==
    IF y > 3 THEN SqrtLoop(y)[[x |-> y \div 2 + 1, z |-> y]]
    ELSE IF y # 0 THEN 1 ELSE 0

Result == Word \cup {Throw}
PowLoop ==
    LET loop[v \in [result : Result, base : Result, exponent : Word]] ==
            IF v.exponent = 0 THEN v.result
            ELSE loop[[result |-> IF IsEven(v.exponent) THEN v.result
                                  ELSE Mul(v.result, v.base),
                       base |-> IF v.exponent \div 2 = 0 THEN v.base ELSE Mul(v.base, v.base),
                       exponent |-> v.exponent \div 2]]
    IN  loop

Pow(base, exponent) ==
    IF exponent = 0 THEN 1
    ELSE IF base \in {0, 1} THEN base
    ELSE PowLoop[[result |-> 1, base |-> base, exponent |-> exponent]]

Pow10(exponent) ==
    LET times[i \in Nat] == IF i = 0 THEN 1 ELSE Mul(times[i - 1], 10)
    IN  IF exponent > MaxPow10Exponent THEN Throw ELSE times[exponent]

-----------------------------------------------------------------------------
(* Logarithms *)

\* The first segment from the top that is not zero, and the bits in it.
BitLength(x) ==
    LET length(v) == CHOOSE n \in 1 .. SegmentBits : TwoTo[n - 1] <= v /\ v < TwoTo[n]
        top == CHOOSE j \in 0 .. 3 :
                   Segment(x, j) # 0 /\ \A i \in 0 .. 3 : i > j => Segment(x, i) = 0
    IN  IF x = 0 THEN 0 ELSE SegmentBits * top + length(Segment(x, top))

ApproximateLog2(x) == IF BitLength(x) = 0 THEN Throw ELSE BitLength(x) - 1

ApproxLog(x) ==
    IF BitLength(x) = 0 THEN Throw
    ELSE IF BitLength(x) = 1 THEN 0
    ELSE Mul(BitLength(x) - 1, Ln2)

\* A plausible slip: the series without its second term.
PolyWithoutCube(r) ==
    LET denom == 2 * Scale + r
    IN  IF Throw = r \/ r >= Scale THEN Throw
        ELSE 2 * ((r * Scale + denom \div 2) \div denom)

\* 2 atanh(z / (2 + z)) for z = r / Scale: odd powers to the ninth, rounded.
PolyLn1p3(r) ==
    LET denom == 2 * Scale + r
        w == (r * Scale + denom \div 2) \div denom
        times(u, v) == (u * v + Scale \div 2) \div Scale
        w2 == times(w, w)
        w3 == times(w2, w)
        w5 == times(w3, w2)
        w7 == times(w5, w2)
        w9 == times(w7, w2)
        sum == w + (w3 + 1) \div 3 + (w5 + 2) \div 5 + (w7 + 3) \div 7 + (w9 + 4) \div 9
    IN  IF Throw = r \/ r >= Scale THEN Throw
        ELSE IF r = 0 THEN 0
        ELSE IF sum = 0 THEN 1 ELSE 2 * sum

\* x = 2^k (1 + r): the product with the scale throws for large remainders.
PreciseLog(x) ==
    LET k == BitLength(x) - 1
        pow2k == Shl(1, k)
        xPrime == Sub(x, pow2k)
    IN  IF BitLength(x) = 0 THEN Throw
        ELSE IF BitLength(x) = 1 THEN 0
        ELSE IF xPrime = 0 THEN Mul(k, Ln2)
        ELSE Add(Mul(k, Ln2), PolyLn1p3(Div(Mul(xPrime, Scale), pow2k)))

PreciseLogRatio(a, b) ==
    LET ratio == Div(Mul(a, Scale), b)
        halve[temp \in Nat, k \in Nat] ==
            IF temp >= 2 * Scale THEN halve[temp \div 2, k + 1]
            ELSE Add(Mul(k, Ln2), PolyLn1p3(temp - Scale))
    IN  IF b = 0 \/ a = 0 THEN Throw
        ELSE IF a = b THEN 0
        ELSE IF ratio = Throw THEN Throw
        ELSE IF ratio < Scale THEN Throw
        ELSE IF ratio = Scale THEN 0
        ELSE halve[ratio, 0]

-----------------------------------------------------------------------------
(* SafeMathI128: two segments, two's complement *)

HalfRange == TwoTo[2 * SegmentBits - 1]
Signed == -HalfRange .. HalfRange - 1
WrapSigned(n) == ((n + HalfRange) % (2 * HalfRange)) - HalfRange

\* (a ^ c) & (b ^ c) and (a ^ b) & (a ^ c) have the sign bit set.
SignDiffers(a, b) == (a < 0) # (b < 0)

AddI(a, b) ==
    LET c == WrapSigned(a + b)
    IN  IF SignDiffers(a, c) /\ SignDiffers(b, c) THEN Throw ELSE c

SubI(a, b) ==
    LET c == WrapSigned(a - b)
    IN  IF SignDiffers(a, b) /\ SignDiffers(a, c) THEN Throw ELSE c

IncI(a) == IF a = HalfRange - 1 THEN Throw ELSE AddI(a, 1)
DecI(a) == IF a = -HalfRange THEN Throw ELSE SubI(a, 1)
NegI(a) == IF a = -HalfRange THEN Throw ELSE WrapSigned(-a)
AbsI(a) == IF a >= 0 THEN a ELSE NegI(a)

-----------------------------------------------------------------------------
(* What the functions promise, by definitions that share nothing with them *)

Exact(n, values) == IF n \in values THEN n ELSE Throw

\* base ^ exponent, or Throw when it is no word: computed one factor at a time.
ExactPowers(base) ==
    LET power[n \in Nat] ==
            IF n = 0 THEN 1
            ELSE IF power[n - 1] = Throw THEN Throw
            ELSE Exact(power[n - 1] * base, Word)
    IN  power
ExactPower(base, exponent) ==
    IF base <= 1 /\ exponent > 0 THEN base
    ELSE ExactPowers(base)[IF exponent > Bits THEN Bits ELSE exponent]

\* The sum, difference, product, quotient, remainder and power of two words
\* are exact, and the call reverts just when they are not words.
WordsExact(a, b) ==
    /\ Add(a, b) = Exact(a + b, Word)
    /\ Sub(a, b) = Exact(a - b, Word)
    /\ Mul(a, b) = Exact(a * b, Word)
    /\ Div(a, b) = IF b = 0 THEN Throw ELSE a \div b
    /\ Mod(a, b) = IF b = 0 THEN Throw ELSE a % b
    /\ LesserOf(a, b) + GreaterOf(a, b) = a + b /\ LesserOf(a, b) <= GreaterOf(a, b)
    /\ Pow(a, b) = ExactPower(a, b)

RootExact(a) == Sqrt(a) * Sqrt(a) <= a /\ a < (Sqrt(a) + 1) * (Sqrt(a) + 1)

ShiftsExact(a) ==
    /\ \A shift \in -1 .. Bits + 1 :
          Shl(a, shift) = IF shift < 0 THEN 0 ELSE Wrap(a * TwoTo[shift])
    /\ a < TwoTo[2 * SegmentBits] =>
          \A shift \in 0 .. Bits :
             Shl128(a, shift) = (a * TwoTo[shift]) % TwoTo[2 * SegmentBits]

RootAndShiftsExact(a) ==
    /\ Inc(a) = Exact(a + 1, Word) /\ Dec(a) = Exact(a - 1, Word)
    /\ RootExact(a)
    /\ ShiftsExact(a)
    /\ a # 0 => TwoTo[ApproximateLog2(a)] <= a /\ a < TwoTo[BitLength(a)]
    /\ Pow10(a) = ExactPower(10, a)

\* The inverse is found just when the two have no common factor.
ModularExact(a, b, m) ==
    /\ MulMod(a, b, m) = IF m = 0 THEN Throw ELSE (a * b) % m
    /\ IF ModInverse(a, m) = Throw
       THEN a = 0 \/ m <= 1 \/ \E d \in 2 .. m : a % d = 0 /\ m % d = 0
       ELSE ModInverse(a, m) \in 1 .. m - 1 /\ (ModInverse(a, m) * a) % m = 1

SignedExact(a, b) ==
    /\ AddI(a, b) = Exact(a + b, Signed) /\ SubI(a, b) = Exact(a - b, Signed)
    /\ IncI(a) = Exact(a + 1, Signed) /\ DecI(a) = Exact(a - 1, Signed)
    /\ NegI(a) = Exact(-a, Signed)
    /\ AbsI(a) = Exact(IF a < 0 THEN -a ELSE a, Signed)

\* A logarithm grows with its argument and turns products into sums, up to
\* Tolerance; a ratio of a to 1 is a itself.
LogarithmLaws(a, b, Tolerance) ==
    LET la == PreciseLog(a)
        near(x, y) == x - y \in -Tolerance .. Tolerance
        defined(S) == Throw \notin S
    IN  /\ defined({la, PreciseLog(a + 1)}) => la <= PreciseLog(a + 1)
        /\ defined({la, PreciseLog(b), PreciseLog(a * b)})
              => near(PreciseLog(a * b), la + PreciseLog(b))
        /\ defined({la, PreciseLogRatio(a * b, b)}) => near(PreciseLogRatio(a * b, b), la)
        /\ defined({PreciseLogRatio(a, b), PreciseLogRatio(a + 1, b)})
              => PreciseLogRatio(a, b) <= PreciseLogRatio(a + 1, b)
        /\ near(ApproxLog(a), Ln2 * ApproximateLog2(a))
=============================================================================

--------------------------- MODULE SafeMath_proofs ---------------------------
(***************************************************************************)
(* For words of any width: checked arithmetic is exact.                    *)
(***************************************************************************)
EXTENDS SafeMathCalls, BasicFacts

-----------------------------------------------------------------------------
(* Powers *)

\* The powers of two.
LEMMA TwoToFacts ==
    /\ TwoTo[0] = 1 /\ TwoTo[1] = 2
    /\ \A n \in Nat : TwoTo[n] \in Nat \ {0} /\ TwoTo[n + 1] = 2 * TwoTo[n]
    /\ \A m, n \in Nat : TwoTo[m + n] = TwoTo[m] * TwoTo[n]
    /\ \A m, n \in Nat : m <= n => TwoTo[m] <= TwoTo[n]
  <1>1. 2 \in Nat \ {0} /\ 2 \in Nat
    OBVIOUS
  <1>2. TwoTo[0] = 1 /\ \A n \in Nat : TwoTo[n] \in Nat /\ TwoTo[n + 1] = 2 * TwoTo[n]
    BY <1>1, PowerSteps DEF TwoTo
  <1>3. TwoTo[0 + 1] = 2 * TwoTo[0]
    BY <1>2
  <1>4. \A m, n \in Nat : TwoTo[m + n] = TwoTo[m] * TwoTo[n]
    BY <1>1, PowerOfSum DEF TwoTo
  <1>5. \A m, n \in Nat : TwoTo[n] >= 1 /\ TwoTo[m] <= TwoTo[m + n]
    BY <1>1, PowersGrow DEF TwoTo
  <1>6. ASSUME NEW m \in Nat, NEW n \in Nat, m <= n PROVE TwoTo[m] <= TwoTo[n]
    <2>1. n - m \in Nat /\ m + (n - m) = n
      BY <1>6
    <2> QED
      BY <1>5, <2>1
  <1>7. ASSUME NEW n \in Nat PROVE TwoTo[n] \in Nat \ {0}
    <2>1. TwoTo[n] >= 1 /\ TwoTo[n] \in Nat
      BY <1>2, <1>5
    <2> QED
      BY <2>1
  <1>8. TwoTo[1] = 2
    BY <1>2, <1>3
  <1> QED
    BY <1>2, <1>4, <1>6, <1>7, <1>8

-----------------------------------------------------------------------------
(* Words *)

\* The number of words is a power of two, of at least sixteen.
LEMMA Words ==
    /\ SegmentBits \in Nat \ {0} /\ Bits \in Nat /\ Throw \notin Int
    /\ Modulus \in Nat \ {0} /\ Modulus >= 16
    /\ \A n \in Int : n \in Word <=> 0 <= n /\ n < Modulus
    /\ \A n \in Word : n \in Nat /\ n < Modulus /\ n # Throw
  <1>1. SegmentBits \in Nat \ {0} /\ Bits \in Nat /\ Bits >= 4 /\ Throw \notin Int
    BY SafeMathAssumption DEF Bits
  <1>2. Modulus \in Nat \ {0}
    BY <1>1, TwoToFacts DEF Modulus
  <1>3. TwoTo[4] = 16
    <2>1. 1 \in Nat /\ 2 \in Nat /\ 1 + 1 = 2 /\ 2 + 2 = 4
      OBVIOUS
    <2>2. TwoTo[1 + 1] = TwoTo[1] * TwoTo[1] /\ TwoTo[2 + 2] = TwoTo[2] * TwoTo[2]
      BY <2>1, TwoToFacts, Zenon
    <2>3. TwoTo[1] = 2
      BY TwoToFacts
    <2>4. TwoTo[2] = 4
      BY <2>1, <2>2, <2>3
    <2> QED
      BY <2>1, <2>2, <2>4
  <1>4. Modulus >= 16
    <2>1. TwoTo[4] <= TwoTo[Bits]
      BY <1>1, TwoToFacts
    <2> QED
      BY <1>2, <1>3, <2>1 DEF Modulus
  <1>5. \A n \in Int : n \in Word <=> 0 <= n /\ n < Modulus
    BY <1>2 DEF Word
  <1>6. \A n \in Word : n \in Nat /\ n < Modulus
    BY <1>2 DEF Word
  <1> QED
    BY <1>1, <1>2, <1>4, <1>5, <1>6

\* What wraps stays a word, near the words by adding or taking off their number.
LEMMA Wrapping ==
    ASSUME NEW n \in Int
    PROVE  /\ Wrap(n) \in Word
           /\ 0 <= n /\ n < Modulus => Wrap(n) = n
           /\ Modulus <= n /\ n < 2 * Modulus => Wrap(n) = n - Modulus
           /\ -Modulus <= n /\ n < 0 => Wrap(n) = n + Modulus
  <1>1. Modulus \in Nat \ {0} /\ 0 \in Int /\ 1 \in Int /\ -1 \in Int
    BY Words
  <1>2. Wrap(n) \in Word
    <2>1. n % Modulus \in 0 .. Modulus - 1
      BY <1>1, DivisionOfInt, Zenon
    <2> QED
      BY <2>1 DEF Wrap, Word
  <1>3. ASSUME 0 <= n, n < Modulus PROVE Wrap(n) = n
    <2>1. n = Modulus * 0 + n
      BY <1>1
    <2> QED
      BY <1>1, <1>3, <2>1, DivisionIs, Zenon DEF Wrap
  <1>4. ASSUME Modulus <= n, n < 2 * Modulus PROVE Wrap(n) = n - Modulus
    <2>1. /\ n - Modulus \in Int /\ 0 <= n - Modulus /\ n - Modulus < Modulus
          /\ n = Modulus * 1 + (n - Modulus)
      BY <1>1, <1>4
    <2> QED
      BY <1>1, <2>1, DivisionIs, Zenon DEF Wrap
  <1>5. ASSUME -Modulus <= n, n < 0 PROVE Wrap(n) = n + Modulus
    <2>1. /\ n + Modulus \in Int /\ 0 <= n + Modulus /\ n + Modulus < Modulus
          /\ n = Modulus * (-1) + (n + Modulus)
      BY <1>1, <1>5
    <2> QED
      BY <1>1, <2>1, DivisionIs, Zenon DEF Wrap
  <1> QED
    BY <1>2, <1>3, <1>4, <1>5

-----------------------------------------------------------------------------
(* Sums, differences, products, quotients and remainders *)

\* SafeMath.ts: add and sub are exact, and revert when the result is no word.
LEMMA SumsExact ==
    ASSUME NEW a \in Word, NEW b \in Word
    PROVE  /\ Add(a, b) = Exact(a + b, Word)
           /\ Sub(a, b) = Exact(a - b, Word)
  <1>1. /\ a \in Nat /\ b \in Nat /\ a < Modulus /\ b < Modulus /\ Throw \notin {a, b}
        /\ Modulus \in Nat
    BY Words
  <1>2. a + b \in Int /\ a - b \in Int
    BY <1>1
  <1>3. /\ a + b \in Word <=> 0 <= a + b /\ a + b < Modulus
        /\ a - b \in Word <=> 0 <= a - b /\ a - b < Modulus
    BY <1>2, Words
  <1>4. /\ a + b < Modulus => Wrap(a + b) = a + b
        /\ Modulus <= a + b => Wrap(a + b) = a + b - Modulus
    <2> DEFINE n == a + b
    <2>1. n \in Int /\ 0 <= n /\ n < 2 * Modulus
      BY <1>1
    <2> HIDE DEF n
    <2>2. /\ n < Modulus => Wrap(n) = n
          /\ Modulus <= n => Wrap(n) = n - Modulus
      BY <2>1, Wrapping
    <2> QED
      BY <1>1, <2>2 DEF n
  <1>5. Add(a, b) = Exact(a + b, Word)
    <2>1. CASE a + b < Modulus
      BY <1>1, <1>3, <1>4, <2>1 DEF Add, Exact
    <2>2. CASE Modulus <= a + b
      BY <1>1, <1>3, <1>4, <2>2 DEF Add, Exact
    <2> QED
      BY <1>1, <2>1, <2>2
  <1>6. Sub(a, b) = Exact(a - b, Word)
    BY <1>1, <1>3 DEF Sub, Exact
  <1> QED
    BY <1>5, <1>6

\* A product divided by its first factor is the second; after the product has wrapped,
\* the quotient is smaller.
LEMMA ProductQuotient ==
    ASSUME NEW a \in Nat \ {0}, NEW b \in Nat
    PROVE  /\ (a * b) \div a = b
           /\ \A c \in Nat : c < a * b => c \div a # b
  <1>1. a * b \in Int /\ 0 \in Int /\ a * b = a * b + 0 /\ 0 <= 0 /\ 0 < a
    OBVIOUS
  <1>2. (a * b) \div a = b
    BY <1>1, DivisionIs
  <1>3. ASSUME NEW c \in Nat, c < a * b PROVE c \div a # b
    <2>1. c \div a < b
      BY <1>3, QuotientBelow
    <2>2. c \div a \in Nat
      BY Division
    <2> QED
      BY <2>1, <2>2
  <1> QED
    BY <1>2, <1>3

\* SafeMath.ts: mul wraps and divides again, and so finds every product that is no word.
LEMMA ProductExact ==
    ASSUME NEW a \in Word, NEW b \in Word
    PROVE  Mul(a, b) = Exact(a * b, Word)
  <1>1. /\ a \in Nat /\ b \in Nat /\ a < Modulus /\ b < Modulus /\ Throw \notin {a, b}
        /\ Modulus \in Nat \ {0}
    BY Words
  <1>2. a * b \in Nat
    BY <1>1
  <1>3. a * b \in Word <=> a * b < Modulus
    BY <1>2, Words
  <1>4. CASE a = 0 \/ b = 0
    <2>1. a * b = 0
      BY <1>1, <1>4
    <2> QED
      BY <1>1, <1>3, <1>4, <2>1 DEF Mul, Exact
  <1>5. CASE a # 0 /\ b # 0
    <2> DEFINE c == Wrap(a * b)
    <2>1. Mul(a, b) = IF c \div a # b THEN Throw ELSE c
      BY <1>1, <1>5 DEF Mul
    <2>2. c \in Nat /\ c < Modulus /\ (a * b < Modulus => c = a * b)
      BY <1>2, Wrapping, Words
    <2> HIDE DEF c
    <2>3. /\ (a * b) \div a = b
          /\ c < a * b => c \div a # b
      BY <1>1, <1>5, <2>2, ProductQuotient
    <2>4. CASE a * b < Modulus
      BY <1>3, <2>1, <2>2, <2>3, <2>4 DEF Exact
    <2>5. CASE Modulus <= a * b
      <3>1. c < a * b
        BY <1>1, <1>2, <2>2, <2>5
      <3>2. a * b \notin Word
        BY <1>1, <1>2, <1>3, <2>5
      <3> QED
        BY <2>1, <2>3, <3>1, <3>2 DEF Exact
    <2> QED
      BY <1>1, <1>2, <2>4, <2>5
  <1> QED
    BY <1>4, <1>5

\* SafeMath.ts: mod, by a quotient, a product and a difference, is the remainder.
LEMMA RemainderExact ==
    ASSUME NEW a \in Word, NEW b \in Word
    PROVE  /\ Div(a, b) = IF b = 0 THEN Throw ELSE a \div b
           /\ Mod(a, b) = IF b = 0 THEN Throw ELSE a % b
           /\ b # 0 => a % b \in Word /\ a % b < b
  <1>1. /\ a \in Nat /\ b \in Nat /\ a < Modulus /\ b < Modulus /\ Throw \notin {a, b}
        /\ Modulus \in Nat \ {0}
    BY Words
  <1>2. Div(a, b) = IF b = 0 THEN Throw ELSE a \div b
    BY <1>1 DEF Div
  <1>3. ASSUME b # 0
        PROVE  Mod(a, b) = a % b /\ a % b \in Word /\ a % b < b
    <2> DEFINE q == a \div b
               r == a % b
    <2>0. b \in Nat \ {0}
      BY <1>1, <1>3
    <2>1. q \in Nat /\ r \in Nat /\ r \in 0 .. b - 1 /\ a = b * q + r
      BY <1>1, <2>0, Division, Zenon
    <2> HIDE DEF q, r
    <2>2. q * b = b * q /\ q * b \in Nat /\ r < b
      BY <1>1, <2>1
    <2>3. q * b <= a
      BY <1>1, <2>1, <2>2
    <2>4. Wrap(q * b) = q * b
      BY <1>1, <2>2, <2>3, Wrapping
    <2>5. a - q * b = r /\ r < Modulus
      BY <1>1, <2>1, <2>2
    <2>6. Wrap(r) = r
      BY <1>1, <2>1, <2>5, Wrapping
    <2>7. Mod(a, b) = Wrap(a - Wrap(q * b))
      BY <1>3 DEF Mod, q
    <2>8. Mod(a, b) = r
      BY <2>4, <2>5, <2>6, <2>7
    <2>9. r \in Word
      BY <2>1, <2>5, Words
    <2> QED
      BY <2>2, <2>8, <2>9 DEF r
  <1>4. b = 0 => Mod(a, b) = Throw
    BY DEF Mod
  <1> QED
    BY <1>2, <1>3, <1>4

\* SafeMath.ts: min and max, and inc and dec at the ends of the words.
LEMMA NeighboursExact ==
    ASSUME NEW a \in Word, NEW b \in Word
    PROVE  /\ LesserOf(a, b) + GreaterOf(a, b) = a + b
           /\ LesserOf(a, b) <= GreaterOf(a, b)
           /\ Inc(a) = Exact(a + 1, Word) /\ Dec(a) = Exact(a - 1, Word)
  <1>1. a \in Nat /\ b \in Nat /\ a < Modulus /\ b < Modulus /\ Modulus \in Nat \ {0}
    BY Words
  <1>2. /\ a + 1 \in Word <=> a + 1 < Modulus
        /\ a - 1 \in Word <=> 0 <= a - 1
    <2>1. a + 1 \in Int /\ a - 1 \in Int /\ 0 <= a + 1 /\ a - 1 < Modulus
      BY <1>1
    <2> QED
      BY <2>1, Words
  <1>3. LesserOf(a, b) + GreaterOf(a, b) = a + b /\ LesserOf(a, b) <= GreaterOf(a, b)
    BY <1>1 DEF LesserOf, GreaterOf
  <1>4. Inc(a) = Exact(a + 1, Word)
    BY <1>1, <1>2 DEF Inc, Exact, MaxWord
  <1>5. Dec(a) = Exact(a - 1, Word)
    BY <1>1, <1>2 DEF Dec, Exact
  <1> QED
    BY <1>3, <1>4, <1>5

-----------------------------------------------------------------------------
(* Signed words *)

\* Half of the signed words are negative.
LEMMA SignedWords ==
    /\ HalfRange \in Nat /\ HalfRange >= 2
    /\ 2 * HalfRange = TwoTo[2 * SegmentBits] /\ 2 * HalfRange <= Modulus
    /\ \A n \in Int : n \in Signed <=> -HalfRange <= n /\ n < HalfRange
    /\ \A n \in Signed : n \in Int /\ n # Throw
  <1> DEFINE e == 2 * SegmentBits - 1
  <1>1. e \in Nat /\ 1 <= e /\ 1 \in Nat /\ e + 1 \in Nat
    BY Words
  <1>2. HalfRange = TwoTo[e]
    BY DEF HalfRange
  <1>3. e + 1 = 2 * SegmentBits /\ e + 1 <= Bits
    BY Words DEF Bits
  <1> HIDE DEF e
  <1>4. HalfRange \in Nat \ {0} /\ TwoTo[e + 1] = 2 * HalfRange
    BY <1>1, <1>2, TwoToFacts
  <1>5. HalfRange >= 2
    <2>1. TwoTo[1] <= TwoTo[e]
      BY <1>1, TwoToFacts, Zenon
    <2>2. TwoTo[1] = 2
      BY TwoToFacts
    <2> QED
      BY <1>2, <1>4, <2>1, <2>2
  <1>6. 2 * HalfRange = TwoTo[2 * SegmentBits]
    BY <1>3, <1>4
  <1>7. 2 * HalfRange <= Modulus
    <2>1. TwoTo[e + 1] <= TwoTo[Bits]
      BY <1>1, <1>3, Words, TwoToFacts, Zenon
    <2> QED
      BY <1>4, <2>1 DEF Modulus
  <1>8. \A n \in Int : n \in Signed <=> -HalfRange <= n /\ n < HalfRange
    BY <1>4 DEF Signed
  <1>9. \A n \in Signed : n \in Int /\ n # Throw
    BY <1>4, Words DEF Signed
  <1> QED
    BY <1>4, <1>5, <1>6, <1>7, <1>8, <1>9

\* What wraps in two's complement stays signed.
LEMMA SignedWrapping ==
    ASSUME NEW n \in Int, -3 * HalfRange <= n, n < 3 * HalfRange
    PROVE  WrapSigned(n) = IF n < -HalfRange THEN n + 2 * HalfRange
                           ELSE IF n >= HalfRange THEN n - 2 * HalfRange ELSE n
  <1> DEFINE m == 2 * HalfRange
             v == n + HalfRange
             q == IF n < -HalfRange THEN -1 ELSE IF n >= HalfRange THEN 1 ELSE 0
             r == v - m * q
  <1>1. HalfRange \in Nat /\ HalfRange >= 2
    BY SignedWords
  <1>2. /\ m \in Nat \ {0} /\ v \in Int /\ q \in Int /\ r \in Int
        /\ 0 <= r /\ r < m /\ v = m * q + r
    BY <1>1
  <1>3. r = HalfRange + (IF n < -HalfRange THEN n + 2 * HalfRange
                         ELSE IF n >= HalfRange THEN n - 2 * HalfRange ELSE n)
    BY <1>1
  <1>4. WrapSigned(n) = (v % m) - HalfRange
    BY DEF WrapSigned
  <1> HIDE DEF m, v, q, r
  <1>5. v % m = r
    BY <1>2, DivisionIs, Zenon
  <1> QED
    BY <1>1, <1>3, <1>4, <1>5

\* SafeMathI128.ts: add, sub, inc, dec, neg and abs are exact, and revert when the result
\* is no signed word.
LEMMA SignedAreExact ==
    ASSUME NEW a \in Signed, NEW b \in Signed
    PROVE  SignedExact(a, b)
  <1>1. /\ HalfRange \in Nat /\ HalfRange >= 2
        /\ a \in Int /\ -HalfRange <= a /\ a < HalfRange
        /\ b \in Int /\ -HalfRange <= b /\ b < HalfRange
    BY SignedWords
  <1>2. ASSUME NEW x \in Int, NEW y \in Int, -HalfRange <= x, x < HalfRange,
               -HalfRange <= y, y < HalfRange
        PROVE  AddI(x, y) = Exact(x + y, Signed) /\ SubI(x, y) = Exact(x - y, Signed)
    <2>1. /\ x + y \in Int /\ -3 * HalfRange <= x + y /\ x + y < 3 * HalfRange
          /\ x - y \in Int /\ -3 * HalfRange <= x - y /\ x - y < 3 * HalfRange
      BY <1>1, <1>2
    <2>2. /\ x + y \in Signed <=> -HalfRange <= x + y /\ x + y < HalfRange
          /\ x - y \in Signed <=> -HalfRange <= x - y /\ x - y < HalfRange
      BY <2>1, SignedWords
    <2>3. AddI(x, y) = Exact(x + y, Signed)
      <3>1. WrapSigned(x + y) = IF x + y < -HalfRange THEN x + y + 2 * HalfRange
                                ELSE IF x + y >= HalfRange THEN x + y - 2 * HalfRange
                                ELSE x + y
        <4> DEFINE n == x + y
        <4>1. n \in Int /\ -3 * HalfRange <= n /\ n < 3 * HalfRange
          BY <2>1
        <4> HIDE DEF n
        <4>2. WrapSigned(n) = IF n < -HalfRange THEN n + 2 * HalfRange
                              ELSE IF n >= HalfRange THEN n - 2 * HalfRange ELSE n
          BY <4>1, SignedWrapping, Zenon
        <4> QED
          BY <1>1, <1>2, <4>2 DEF n
      <3> QED
        BY <1>1, <1>2, <2>2, <3>1 DEF AddI, Exact, SignDiffers
    <2>4. SubI(x, y) = Exact(x - y, Signed)
      <3>1. WrapSigned(x - y) = IF x - y < -HalfRange THEN x - y + 2 * HalfRange
                                ELSE IF x - y >= HalfRange THEN x - y - 2 * HalfRange
                                ELSE x - y
        BY <2>1, SignedWrapping, Zenon
      <3> QED
        BY <1>1, <1>2, <2>2, <3>1 DEF SubI, Exact, SignDiffers
    <2> QED
      BY <2>3, <2>4
  <1>3. AddI(a, b) = Exact(a + b, Signed) /\ SubI(a, b) = Exact(a - b, Signed)
    BY <1>1, <1>2
  <1>4. IncI(a) = Exact(a + 1, Signed) /\ DecI(a) = Exact(a - 1, Signed)
    <2>1. AddI(a, 1) = Exact(a + 1, Signed) /\ SubI(a, 1) = Exact(a - 1, Signed)
      BY <1>1, <1>2
    <2>2. /\ a + 1 \in Signed <=> a + 1 < HalfRange
          /\ a - 1 \in Signed <=> -HalfRange <= a - 1
      <3>1. a + 1 \in Int /\ a - 1 \in Int /\ -HalfRange <= a + 1 /\ a - 1 < HalfRange
        BY <1>1
      <3> QED
        BY <3>1, SignedWords
    <2> QED
      BY <1>1, <2>1, <2>2 DEF IncI, DecI, Exact
  <1>5. NegI(a) = Exact(-a, Signed)
    <2>1. -a \in Int /\ -3 * HalfRange <= -a /\ -a < 3 * HalfRange
      BY <1>1
    <2>2. -a \in Signed <=> -HalfRange <= -a /\ -a < HalfRange
      BY <2>1, SignedWords
    <2>3. WrapSigned(-a) = IF -a < -HalfRange THEN -a + 2 * HalfRange
                           ELSE IF -a >= HalfRange THEN -a - 2 * HalfRange ELSE -a
      BY <2>1, SignedWrapping, Zenon
    <2> QED
      BY <1>1, <2>2, <2>3 DEF NegI, Exact
  <1>6. AbsI(a) = Exact(IF a < 0 THEN -a ELSE a, Signed)
    <2>1. CASE a < 0
      BY <1>1, <1>5, <2>1 DEF AbsI
    <2>2. CASE 0 <= a
      BY <1>1, <2>2 DEF AbsI, Exact
    <2> QED
      BY <1>1, <2>1, <2>2
  <1> QED
    BY <1>3, <1>4, <1>5, <1>6 DEF SignedExact

-----------------------------------------------------------------------------
(* Products modulo m *)

\* The sum of two remainders, without a carry, and half of a number.
LEMMA AddModExact ==
    ASSUME NEW m \in Word \ {0}, NEW x \in Word, NEW y \in Word
    PROVE  /\ AddModNoCarry(x, y, m) \in Word
           /\ x < m /\ y < m => /\ AddModNoCarry(x, y, m) = (x + y) % m
                                /\ AddModNoCarry(x, y, m) < m
  <1>1. /\ m \in Nat \ {0} /\ m < Modulus /\ x \in Nat /\ x < Modulus
        /\ y \in Nat /\ y < Modulus /\ Modulus \in Nat
    BY Words
  <1>2. AddModNoCarry(x, y, m) \in Word
    <2>1. \A n \in Int : Wrap(n) \in Word
      BY Wrapping
    <2>2. x + y \in Int /\ m - y \in Int
      BY <1>1
    <2>3. Wrap(m - y) \in Int
      BY <2>1, <2>2, Words
    <2>4. x - Wrap(m - y) \in Int
      BY <1>1, <2>3
    <2> QED
      BY <2>1, <2>2, <2>4 DEF AddModNoCarry
  <1>3. ASSUME x < m, y < m
        PROVE  AddModNoCarry(x, y, m) = (x + y) % m /\ AddModNoCarry(x, y, m) < m
    <2>1. Wrap(m - y) = m - y
      <3> DEFINE n == m - y
      <3>1. n \in Int /\ 0 <= n /\ n < Modulus
        BY <1>1, <1>3
      <3> HIDE DEF n
      <3>2. Wrap(n) = n
        BY <3>1, Wrapping
      <3> QED
        BY <3>2 DEF n
    <2>2. CASE x >= m - y
      <3> DEFINE r == x - (m - y)
      <3>1. r \in Int /\ 0 <= r /\ r < m /\ r < Modulus /\ x + y = m * 1 + r
            /\ x + y \in Int /\ 1 \in Int
        BY <1>1, <1>3, <2>2
      <3>2. AddModNoCarry(x, y, m) = Wrap(r)
        BY <2>1, <2>2 DEF AddModNoCarry
      <3> HIDE DEF r
      <3>3. Wrap(r) = r
        BY <3>1, Wrapping
      <3>4. (x + y) % m = r
        BY <1>1, <3>1, DivisionIs
      <3> QED
        BY <3>1, <3>2, <3>3, <3>4
    <2>3. CASE ~(x >= m - y)
      <3> DEFINE r == x + y
      <3>1. r \in Int /\ 0 <= r /\ r < m /\ r < Modulus /\ r = m * 0 + r /\ 0 \in Int
        BY <1>1, <1>3, <2>3
      <3>2. AddModNoCarry(x, y, m) = Wrap(r)
        BY <2>1, <2>3 DEF AddModNoCarry
      <3> HIDE DEF r
      <3>3. Wrap(r) = r
        BY <3>1, Wrapping
      <3>4. r % m = r
        BY <1>1, <3>1, DivisionIs
      <3> QED
        BY <3>1, <3>2, <3>3, <3>4 DEF r
    <2> QED
      BY <2>2, <2>3
  <1> QED
    BY <1>2, <1>3

\* A positive number is twice its half, which is smaller, and one more if it is odd.
LEMMA Halves ==
    ASSUME NEW n \in Nat \ {0}
    PROVE  /\ n \div 2 \in Nat /\ n \div 2 < n
           /\ IsEven(n) => n = 2 * (n \div 2)
           /\ ~IsEven(n) => n = 2 * (n \div 2) + 1
  BY DEF IsEven

MulModState == [a : Word, b : Word, res : Word]
MulModNext(m, v) ==
    [a |-> IF v.b \div 2 = 0 THEN v.a ELSE DoubleModNoCarry(v.a, m),
     b |-> v.b \div 2,
     res |-> IF IsEven(v.b) THEN v.res ELSE AddModNoCarry(v.res, v.a, m)]

\* The next state of the loop is one, and closer to its end.
LEMMA MulModNextType ==
    ASSUME NEW m \in Word \ {0}, NEW v \in MulModState, v.b # 0
    PROVE  /\ MulModNext(m, v) \in MulModState
           /\ MulModNext(m, v).b \in Nat /\ v.b \in Nat /\ MulModNext(m, v).b < v.b
  <1>1. v.a \in Word /\ v.b \in Word /\ v.res \in Word /\ v.b \in Nat \ {0} /\ v.b < Modulus
    BY Words DEF MulModState
  <1>2. v.b \div 2 \in Nat /\ v.b \div 2 < v.b
    BY <1>1, Halves
  <1>3. v.b \div 2 \in Word
    BY <1>1, <1>2, Words
  <1>4. DoubleModNoCarry(v.a, m) \in Word /\ AddModNoCarry(v.res, v.a, m) \in Word
    BY <1>1, AddModExact DEF DoubleModNoCarry
  <1> QED
    BY <1>1, <1>2, <1>3, <1>4 DEF MulModNext, MulModState

\* The loop follows its recursion.
LEMMA MulModLoopLaw ==
    ASSUME NEW m \in Word \ {0}
    PROVE  \A v \in MulModState :
              MulModLoop(m)[v] = IF v.b = 0 THEN v.res ELSE MulModLoop(m)[MulModNext(m, v)]
  <1> DEFINE S == MulModState
             stop == {v \in S : v.b = 0}
             base == [v \in S |-> v.res]
             next == [v \in S |-> IF v.b = 0 THEN v ELSE MulModNext(m, v)]
             rank == [v \in S |-> v.b]
  <1>1. /\ rank \in [S -> Nat] /\ stop \in SUBSET S /\ base \in [S -> Word]
        /\ next \in [S -> S] /\ \A s \in S \ stop : rank[next[s]] < rank[s]
    <2>1. rank \in [S -> Nat] /\ base \in [S -> Word]
      BY Words DEF MulModState
    <2>2. next \in [S -> S] /\ \A s \in S \ stop : rank[next[s]] < rank[s]
      BY MulModNextType
    <2> QED
      BY <2>1, <2>2
  <1>2. ASSUME NEW f, NEW v \in S
        PROVE  (IF v \in stop THEN base[v] ELSE f[next[v]])
                  = (IF v.b = 0 THEN v.res ELSE f[MulModNext(m, v)])
    OBVIOUS
  <1> HIDE DEF stop, base, next, rank
  <1>3. PICK f : IsLoop(f, S, stop, base, next)
    BY <1>1, LoopExists, Zenon
  <1>4. f = [v \in S |-> IF v.b = 0 THEN v.res ELSE f[MulModNext(m, v)]]
    BY <1>2, <1>3 DEF IsLoop
  <1>5. MulModLoop(m) = [v \in S |-> IF v.b = 0 THEN v.res
                                     ELSE MulModLoop(m)[MulModNext(m, v)]]
    BY <1>4 DEF MulModLoop, MulModState, MulModNext
  <1> QED
    BY <1>5

\* The loop keeps the product and what it has summed up, modulo m.
LEMMA MulModLoopExact ==
    ASSUME NEW m \in Word \ {0}
    PROVE  \A v \in MulModState :
              v.a < m /\ v.res < m => MulModLoop(m)[v] = (v.res + v.a * v.b) % m
  <1> DEFINE S == MulModState
             loop == MulModLoop(m)
             rank == [v \in S |-> v.b]
             T == {v \in S : v.a < m /\ v.res < m => loop[v] = (v.res + v.a * v.b) % m}
  <1>1. \A v \in S : loop[v] = IF v.b = 0 THEN v.res ELSE loop[MulModNext(m, v)]
    BY MulModLoopLaw
  <1> HIDE DEF loop
  <1>2. ASSUME NEW v \in S, \A t \in S : rank[t] < rank[v] => t \in T PROVE v \in T
    <2> SUFFICES ASSUME v.a < m, v.res < m PROVE loop[v] = (v.res + v.a * v.b) % m
      OBVIOUS
    <2> DEFINE a == v.a
               b == v.b
               res == v.res
    <2>1. /\ m \in Nat \ {0} /\ a \in Word /\ res \in Word
          /\ a \in Nat /\ b \in Nat /\ res \in Nat /\ a < m /\ res < m
      BY Words DEF MulModState
    <2>2. CASE b = 0
      <3>1. res + a * b = res /\ res = m * 0 + res /\ 0 <= res
        BY <2>1, <2>2
      <3>2. res % m = res
        BY <2>1, <3>1, DivisionIs
      <3> QED
        BY <1>1, <2>2, <3>1, <3>2
    <2>3. CASE b # 0
      <3> DEFINE w == MulModNext(m, v)
                 h == b \div 2
      <3>1. /\ w \in S /\ w.b \in Nat /\ w.b < b /\ loop[v] = loop[w]
        BY <1>1, <2>3, MulModNextType
      <3>2. w \in T
        BY <1>2, <3>1
      <3>3. /\ w.b = h
            /\ w.a = IF h = 0 THEN a ELSE AddModNoCarry(a, a, m)
            /\ w.res = IF IsEven(b) THEN res ELSE AddModNoCarry(res, a, m)
        BY DEF MulModNext, DoubleModNoCarry
      <3>4. /\ AddModNoCarry(a, a, m) = (a + a) % m /\ AddModNoCarry(a, a, m) < m
            /\ AddModNoCarry(res, a, m) = (res + a) % m /\ AddModNoCarry(res, a, m) < m
        BY <2>1, AddModExact
      <3> HIDE DEF w
      <3>5. loop[w] = (w.res + w.a * w.b) % m
        <4>1. w.a < m /\ w.res < m
          BY <2>1, <3>3, <3>4
        <4> QED
          BY <3>2, <4>1
      <3>6. /\ h \in Nat /\ (IsEven(b) => b = 2 * h) /\ (~IsEven(b) => b = 2 * h + 1)
        BY <2>1, <2>3, Halves
      <3> HIDE DEF h, a, b, res
      <3>7. \E k \in Int : w.a * h = a * (2 * h) + m * k
        <4>1. CASE h = 0
          <5>1. w.a * h = a * (2 * h) + m * 0
            BY <2>1, <3>3, <4>1
          <5> QED
            BY <5>1
        <4>2. CASE h # 0
          <5>1. w.a = (a + a) % m /\ a + a \in Int
            BY <2>1, <3>3, <3>4, <4>2
          <5>2. PICK q \in Int : w.a = (a + a) + m * q
            BY <2>1, <5>1, RemainderIs
          <5>3. (a + a + m * q) * h = a * (2 * h) + m * (q * h) /\ q * h \in Int
            BY <2>1, <3>6
          <5> QED
            BY <5>2, <5>3
        <4> QED
          BY <4>1, <4>2
      <3>8. \E l \in Int : w.res = res + (IF IsEven(b) THEN 0 ELSE a) + m * l
        <4>1. CASE IsEven(b)
          <5>1. w.res = res + 0 + m * 0
            BY <2>1, <3>3, <4>1
          <5> QED
            BY <4>1, <5>1
        <4>2. CASE ~IsEven(b)
          <5>1. w.res = (res + a) % m /\ res + a \in Int
            BY <2>1, <3>3, <3>4, <4>2
          <5>2. PICK q \in Int : w.res = (res + a) + m * q
            BY <2>1, <5>1, RemainderIs
          <5> QED
            BY <4>2, <5>2
        <4> QED
          BY <4>1, <4>2
      <3>9. PICK k \in Int, l \in Int :
               /\ w.a * h = a * (2 * h) + m * k
               /\ w.res = res + (IF IsEven(b) THEN 0 ELSE a) + m * l
        BY <3>7, <3>8
      <3>10. a * b = a * (2 * h) + (IF IsEven(b) THEN 0 ELSE a)
        <4>1. CASE IsEven(b)
          <5>1. a * (2 * h) \in Nat
            BY <2>1, <3>6
          <5> QED
            BY <3>6, <4>1, <5>1
        <4>2. CASE ~IsEven(b)
          <5>1. a * (2 * h + 1) = a * (2 * h) + a
            BY <2>1, <3>6
          <5> QED
            BY <3>6, <4>2, <5>1
        <4> QED
          BY <4>1, <4>2
      <3> DEFINE odd == IF IsEven(b) THEN 0 ELSE a
      <3>11. odd \in Int /\ a * (2 * h) \in Int /\ m * k \in Int /\ m * l \in Int
        BY <2>1, <3>6
      <3> HIDE DEF odd
      <3>12. w.res + w.a * w.b = (res + a * b) + m * (k + l)
        <4>1. m * (k + l) = m * k + m * l
          BY <2>1
        <4>2. w.res + w.a * w.b = (res + odd + m * l) + (a * (2 * h) + m * k)
          BY <3>3, <3>9 DEF odd
        <4>3. a * b = a * (2 * h) + odd
          BY <3>10 DEF odd
        <4> QED
          BY <2>1, <3>11, <4>1, <4>2, <4>3
      <3>13. res + a * b \in Int /\ k + l \in Int
        BY <2>1
      <3>14. ((res + a * b) + m * (k + l)) % m = (res + a * b) % m
        BY <2>1, <3>13, MultipleLeavesRemainder, Zenon
      <3> QED
        BY <3>1, <3>5, <3>12, <3>14 DEF a, b, res
    <2> QED
      BY <2>2, <2>3
  <1>3. \A v \in S : v \in T
    <2>1. rank \in [S -> Nat] /\ T \in SUBSET S
      BY Words DEF MulModState
    <2> HIDE DEF T, rank
    <2> QED
      BY <1>2, <2>1, RankInduction, Zenon
  <1> QED
    BY <1>3 DEF loop

\* SafeMath.ts: mulmod is exact although no product fits a word.
LEMMA MulModExact ==
    ASSUME NEW x \in Word, NEW y \in Word, NEW m \in Word
    PROVE  MulMod(x, y, m) = IF m = 0 THEN Throw ELSE (x * y) % m
  <1>1. CASE m = 0
    BY <1>1 DEF MulMod
  <1>2. CASE m # 0
    <2> DEFINE reduced(v) == IF v >= m THEN Mod(v, m) ELSE v
    <2>1. m \in Nat \ {0} /\ m \in Word \ {0}
      BY <1>2, Words
    <2>2. ASSUME NEW v \in Word
          PROVE  reduced(v) = v % m /\ reduced(v) \in Word /\ v % m \in Nat /\ v % m < m
      <3>1. Mod(v, m) = v % m /\ v % m \in Word /\ v % m < m
        BY <1>2, RemainderExact
      <3>2. v \in Nat /\ v % m \in Nat
        BY <3>1, Words
      <3>3. ASSUME ~(v >= m) PROVE v % m = v
        <4>1. v < m /\ 0 <= v /\ v = m * 0 + v
          BY <2>1, <3>2, <3>3
        <4> QED
          BY <2>1, <3>2, <4>1, DivisionIs
      <3> QED
        BY <3>1, <3>2, <3>3
    <2> DEFINE v == [a |-> reduced(x), b |-> reduced(y), res |-> 0]
    <2>3. 0 \in Word /\ 0 < m
      BY <2>1, Words
    <2>4. v \in MulModState /\ v.a < m /\ v.res < m /\ v.a = x % m /\ v.b = y % m /\ v.res = 0
      BY <2>2, <2>3 DEF MulModState
    <2>5. MulMod(x, y, m) = MulModLoop(m)[v]
      BY <1>2 DEF MulMod
    <2> HIDE DEF v
    <2>6. MulModLoop(m)[v] = (v.res + v.a * v.b) % m
      BY <2>1, <2>4, MulModLoopExact
    <2>7. x \in Int /\ y \in Int /\ x % m \in Int /\ y % m \in Int
      BY <2>2, Words
    <2>8. v.res + v.a * v.b = (x % m) * (y % m)
      BY <2>4, <2>7
    <2>9. ((x % m) * (y % m)) % m = (x * (y % m)) % m
      BY <2>1, <2>7, RemainderOfProduct, Zenon
    <2>10. (x * (y % m)) % m = (x * y) % m
      <3>1. x * (y % m) = (y % m) * x /\ x * y = y * x
        BY <2>7
      <3>2. ((y % m) * x) % m = (y * x) % m
        BY <2>1, <2>7, RemainderOfProduct, Zenon
      <3> QED
        BY <3>1, <3>2
    <2> QED
      BY <1>2, <2>5, <2>6, <2>8, <2>9, <2>10
  <1> QED
    BY <1>1, <1>2

-----------------------------------------------------------------------------
(* Powers of words *)

\* The powers of a square are the even powers.
LEMMA PowersOfSquare ==
    ASSUME NEW b \in Nat
    PROVE  \A n \in Nat : PowersOf(b * b)[n] = PowersOf(b)[2 * n]
  <1> DEFINE bb == b * b
             g == PowersOf(b)
             h == PowersOf(bb)
             P == {n \in Nat : h[n] = g[2 * n]}
  <1>0. bb \in Nat
    OBVIOUS
  <1>1. /\ g[0] = 1 /\ \A n \in Nat : g[n] \in Nat /\ g[n + 1] = b * g[n]
    BY PowerSteps
  <1>2. /\ h[0] = 1 /\ \A n \in Nat : h[n] \in Nat /\ h[n + 1] = bb * h[n]
    <2> HIDE DEF bb
    <2> QED
      BY <1>0, PowerSteps
  <1> HIDE DEF g, h
  <1>3. P \in SUBSET Nat /\ 0 \in P
    BY <1>1, <1>2
  <1>4. ASSUME NEW n \in P PROVE n + 1 \in P
    <2>1. /\ n \in Nat /\ 2 * n \in Nat /\ 2 * n + 1 \in Nat
          /\ 2 * (n + 1) = (2 * n + 1) + 1 /\ h[n] = g[2 * n] /\ n + 1 \in Nat
      OBVIOUS
    <2>2. g[(2 * n + 1) + 1] = b * g[2 * n + 1] /\ g[2 * n + 1] = b * g[2 * n]
      BY <1>1, <2>1
    <2>3. h[n + 1] = bb * h[n] /\ g[2 * n] \in Nat
      BY <1>1, <1>2, <2>1
    <2>4. b * (b * g[2 * n]) = (b * b) * g[2 * n]
      BY <2>3
    <2> QED
      BY <2>1, <2>2, <2>3, <2>4
  <1>5. \A n \in Nat : n \in P
    <2> HIDE DEF P
    <2> QED
      BY <1>3, <1>4, SetInduction, Zenon
  <1> QED
    BY <1>5 DEF g, h

\* The powers of a number from two up are at least those of two.
LEMMA PowersAtLeastTwoTo ==
    ASSUME NEW b \in Nat, b >= 2
    PROVE  \A n \in Nat : PowersOf(b)[n] >= TwoTo[n]
  <1> DEFINE g == PowersOf(b)
             P == {n \in Nat : g[n] >= TwoTo[n]}
  <1>1. /\ g[0] = 1 /\ \A n \in Nat : g[n] \in Nat /\ g[n + 1] = b * g[n]
    BY PowerSteps
  <1>2. TwoTo[0] = 1 /\ \A n \in Nat : TwoTo[n] \in Nat /\ TwoTo[n + 1] = 2 * TwoTo[n]
    BY TwoToFacts
  <1> HIDE DEF g
  <1>3. P \in SUBSET Nat /\ 0 \in P
    BY <1>1, <1>2
  <1>4. ASSUME NEW n \in P PROVE n + 1 \in P
    <2>1. /\ n \in Nat /\ n + 1 \in Nat /\ g[n] \in Nat /\ TwoTo[n] \in Nat /\ g[n] >= TwoTo[n]
          /\ g[n + 1] = b * g[n] /\ TwoTo[n + 1] = 2 * TwoTo[n]
      BY <1>1, <1>2
    <2>2. b * g[n] >= 2 * g[n]
      BY <2>1
    <2>3. g[n + 1] >= TwoTo[n + 1]
      BY <2>1, <2>2
    <2> QED
      BY <2>1, <2>3
  <1>5. \A n \in Nat : n \in P
    <2> HIDE DEF P
    <2> QED
      BY <1>3, <1>4, SetInduction, Zenon
  <1> QED
    BY <1>5 DEF g

\* What is exact is the number itself below the number of words, and else reverts.
LEMMA ExactWord ==
    ASSUME NEW n \in Nat
    PROVE  /\ n < Modulus => n \in Word /\ Exact(n, Word) = n
           /\ Modulus <= n => Exact(n, Word) = Throw
           /\ Exact(n, Word) \in Result
  <1>1. n \in Word <=> n < Modulus
    BY Words
  <1>2. Modulus \in Nat
    BY Words
  <1> QED
    BY <1>1, <1>2 DEF Exact, Result

\* The reference for powers follows the recursion that defines it.
LEMMA ExactPowersLaw ==
    ASSUME NEW b \in Nat
    PROVE  /\ ExactPowers(b)[0] = 1
           /\ \A n \in Nat :
                 ExactPowers(b)[n + 1] = IF ExactPowers(b)[n] = Throw THEN Throw
                                         ELSE Exact(ExactPowers(b)[n] * b, Word)
  <1> DEFINE join == [n \in Nat |-> [v \in Result |->
                          IF v = Throw THEN Throw ELSE Exact(v * b, Word)]]
             x == ExactPowers(b)
  <1>2. join \in [Nat -> [Result -> Result]] /\ 1 \in Result
    <2>1. ASSUME NEW v \in Result
          PROVE  (IF v = Throw THEN Throw ELSE Exact(v * b, Word)) \in Result
      <3>1. CASE v = Throw
        BY <3>1 DEF Result
      <3>2. CASE v # Throw
        <4>1. v * b \in Nat
          BY <3>2, Words DEF Result
        <4>2. Exact(v * b, Word) \in Result
          <5> DEFINE n == v * b
          <5> HIDE DEF n
          <5>1. n \in Nat
            BY <4>1 DEF n
          <5> QED
            BY <5>1, ExactWord DEF n
        <4> QED
          BY <3>2, <4>2
      <3> QED
        BY <3>1, <3>2
    <2>2. 1 \in Result
      BY Words DEF Result
    <2> QED
      BY <2>1, <2>2
  <1>3. ASSUME NEW f \in [Nat -> Result], NEW n \in Nat, n # 0
        PROVE  join[n][f[n - 1]] =
                  IF f[n - 1] = Throw THEN Throw ELSE Exact(f[n - 1] * b, Word)
    <2>1. n - 1 \in Nat
      BY <1>3
    <2>2. f[n - 1] \in Result
      BY <2>1
    <2>3. \A v \in Result : join[n][v] = IF v = Throw THEN Throw ELSE Exact(v * b, Word)
      OBVIOUS
    <2> HIDE DEF join
    <2> QED
      BY <2>2, <2>3
  <1> HIDE DEF join
  <1>4. PICK f \in [Nat -> Result] : FollowsNat(f, 1, join)
    BY <1>2, NatRecursion, Zenon
  <1>5. f = [n \in Nat |-> IF n = 0 THEN 1
                           ELSE IF f[n - 1] = Throw THEN Throw
                           ELSE Exact(f[n - 1] * b, Word)]
    <2>1. ASSUME NEW n \in Nat
          PROVE  f[n] = IF n = 0 THEN 1
                        ELSE IF f[n - 1] = Throw THEN Throw ELSE Exact(f[n - 1] * b, Word)
      BY <1>3, <1>4 DEF FollowsNat
    <2> QED
      BY <2>1
  <1>6. x = [n \in Nat |-> IF n = 0 THEN 1
                           ELSE IF x[n - 1] = Throw THEN Throw
                           ELSE Exact(x[n - 1] * b, Word)]
    BY <1>5 DEF ExactPowers
  <1> HIDE DEF x
  <1>7. ASSUME NEW n \in Nat
        PROVE  x[n + 1] = IF x[n] = Throw THEN Throw ELSE Exact(x[n] * b, Word)
    <2>1. n + 1 \in Nat /\ n + 1 # 0 /\ n + 1 - 1 = n
      OBVIOUS
    <2> QED
      BY <1>6, <2>1
  <1>8. x[0] = 1
    BY <1>6
  <1> QED
    BY <1>7, <1>8 DEF x

\* It has each power that is a word, and Throw from the first that is none.
LEMMA ExactPowersAre ==
    ASSUME NEW b \in Nat \ {0}
    PROVE  \A n \in Nat : ExactPowers(b)[n] = Exact(PowersOf(b)[n], Word)
  <1> DEFINE g == PowersOf(b)
             x == ExactPowers(b)
             P == {n \in Nat : x[n] = Exact(g[n], Word)}
  <1>1. /\ g[0] = 1 /\ \A n \in Nat : g[n] \in Nat /\ g[n] >= 1 /\ g[n + 1] = b * g[n]
    BY PowerSteps, PowersGrow
  <1>7. /\ x[0] = 1
        /\ \A n \in Nat : x[n + 1] = IF x[n] = Throw THEN Throw ELSE Exact(x[n] * b, Word)
    BY ExactPowersLaw
  <1> HIDE DEF g, x
  <1>8. P \in SUBSET Nat /\ 0 \in P
    <2>1. x[0] = 1
      BY <1>7
    <2>2. Exact(1, Word) = 1
      BY ExactWord, Words
    <2> QED
      BY <1>1, <2>1, <2>2
  <1>9. ASSUME NEW n \in P PROVE n + 1 \in P
    <2>1. /\ n \in Nat /\ n + 1 \in Nat /\ g[n] \in Nat /\ g[n] >= 1
          /\ g[n + 1] = b * g[n] /\ g[n + 1] \in Nat /\ x[n] = Exact(g[n], Word)
      BY <1>1
    <2>2. CASE g[n] < Modulus
      <3>1. x[n] = g[n] /\ g[n] # Throw
        BY <2>1, <2>2, ExactWord, Words
      <3>2. x[n] * b = g[n + 1]
        BY <2>1, <3>1
      <3> QED
        BY <1>7, <2>1, <3>1, <3>2
    <2>3. CASE Modulus <= g[n]
      <3>1. x[n] = Throw
        BY <2>1, <2>3, ExactWord
      <3>2. g[n] <= g[n + 1]
        BY <2>1
      <3>3. Modulus <= g[n + 1]
        BY <2>1, <2>3, <3>2, Words
      <3>4. Exact(g[n + 1], Word) = Throw
        BY <2>1, <3>3, ExactWord
      <3> QED
        BY <1>7, <2>1, <3>1, <3>4
    <2> QED
      BY <2>1, <2>2, <2>3, Words
  <1>10. \A n \in Nat : n \in P
    <2> HIDE DEF P
    <2> QED
      BY <1>8, <1>9, SetInduction, Zenon
  <1> QED
    BY <1>10 DEF g, x

\* The product of two outcomes reverts when one does.
LEMMA ProductOfResults ==
    ASSUME NEW a \in Result, NEW b \in Result
    PROVE  /\ Mul(a, b) \in Result
           /\ Throw \in {a, b} => Mul(a, b) = Throw
           /\ Throw \notin {a, b} =>
                 a \in Word /\ b \in Word /\ Mul(a, b) = Exact(a * b, Word)
  <1>1. ASSUME Throw \notin {a, b}
        PROVE  a \in Word /\ b \in Word /\ Mul(a, b) = Exact(a * b, Word)
    BY <1>1, ProductExact DEF Result
  <1>2. ASSUME Throw \in {a, b} PROVE Mul(a, b) = Throw
    BY <1>2 DEF Mul
  <1>3. Mul(a, b) \in Result
    <2>1. CASE Throw \in {a, b}
      BY <1>2, <2>1 DEF Result
    <2>2. CASE Throw \notin {a, b}
      BY <1>1, <2>2 DEF Exact, Result
    <2> QED
      BY <2>1, <2>2
  <1> QED
    BY <1>1, <1>2, <1>3

PowState == [result : Result, base : Result, exponent : Word]
PowNext(v) ==
    [result |-> IF IsEven(v.exponent) THEN v.result ELSE Mul(v.result, v.base),
     base |-> IF v.exponent \div 2 = 0 THEN v.base ELSE Mul(v.base, v.base),
     exponent |-> v.exponent \div 2]

\* The next state of the loop is one, and closer to its end.
LEMMA PowNextType ==
    ASSUME NEW v \in PowState, v.exponent # 0
    PROVE  /\ PowNext(v) \in PowState
           /\ PowNext(v).exponent \in Nat /\ v.exponent \in Nat
           /\ PowNext(v).exponent < v.exponent
  <1>1. /\ v.result \in Result /\ v.base \in Result /\ v.exponent \in Nat \ {0}
        /\ v.exponent < Modulus
    BY Words DEF PowState
  <1>2. v.exponent \div 2 \in Nat /\ v.exponent \div 2 < v.exponent
    BY <1>1, Halves
  <1>3. v.exponent \div 2 \in Word
    BY <1>1, <1>2, Words
  <1>4. Mul(v.result, v.base) \in Result /\ Mul(v.base, v.base) \in Result
    BY <1>1, ProductOfResults
  <1> QED
    BY <1>1, <1>2, <1>3, <1>4 DEF PowNext, PowState

\* The loop follows its recursion.
LEMMA PowLoopLaw ==
    \A v \in PowState :
       PowLoop[v] = IF v.exponent = 0 THEN v.result ELSE PowLoop[PowNext(v)]
  <1> DEFINE S == PowState
             stop == {v \in S : v.exponent = 0}
             base == [v \in S |-> v.result]
             next == [v \in S |-> IF v.exponent = 0 THEN v ELSE PowNext(v)]
             rank == [v \in S |-> v.exponent]
  <1>1. /\ rank \in [S -> Nat] /\ stop \in SUBSET S /\ base \in [S -> Result]
        /\ next \in [S -> S] /\ \A s \in S \ stop : rank[next[s]] < rank[s]
    <2>1. rank \in [S -> Nat] /\ base \in [S -> Result]
      BY Words DEF PowState
    <2>2. next \in [S -> S] /\ \A s \in S \ stop : rank[next[s]] < rank[s]
      BY PowNextType
    <2> QED
      BY <2>1, <2>2
  <1>2. ASSUME NEW f, NEW v \in S
        PROVE  (IF v \in stop THEN base[v] ELSE f[next[v]])
                  = (IF v.exponent = 0 THEN v.result ELSE f[PowNext(v)])
    OBVIOUS
  <1> HIDE DEF stop, base, next, rank
  <1>3. PICK f : IsLoop(f, S, stop, base, next)
    BY <1>1, LoopExists, Zenon
  <1>4. f = [v \in S |-> IF v.exponent = 0 THEN v.result ELSE f[PowNext(v)]]
    BY <1>2, <1>3 DEF IsLoop
  <1>5. PowLoop = [v \in S |-> IF v.exponent = 0 THEN v.result ELSE PowLoop[PowNext(v)]]
    BY <1>4 DEF PowLoop, PowState, PowNext
  <1> QED
    BY <1>5

\* What the loop has still to return from one of its states.
PowValue(v) ==
    IF v.exponent = 0 THEN v.result
    ELSE IF Throw \in {v.result, v.base} THEN Throw
    ELSE Exact(v.result * PowersOf(v.base)[v.exponent], Word)

\* One turn of the loop does not change it, for bases from two up.
LEMMA PowTurn ==
    ASSUME NEW v \in PowState, v.exponent # 0,
           v.result = Throw \/ v.result >= 1, v.base = Throw \/ v.base >= 2
    PROVE  /\ PowNext(v).result = Throw \/ PowNext(v).result >= 1
           /\ PowNext(v).base = Throw \/ PowNext(v).base >= 2
           /\ PowValue(PowNext(v)) = PowValue(v)
  <1> DEFINE e == v.exponent
             h == e \div 2
             r == v.result
             b == v.base
             w == PowNext(v)
             r2 == w.result
             b2 == w.base
  <1>1. /\ e \in Nat \ {0} /\ r \in Result /\ b \in Result
    BY Words DEF PowState
  <1>2. /\ h \in Nat /\ h < e
        /\ IsEven(e) => e = 2 * h
        /\ ~IsEven(e) => e = 2 * h + 1
    BY <1>1, Halves
  <1>3. /\ w.exponent = h
        /\ r2 = IF IsEven(e) THEN r ELSE Mul(r, b)
        /\ b2 = IF h = 0 THEN b ELSE Mul(b, b)
    BY DEF PowNext
  <1>4. PowValue(v) = IF Throw \in {r, b} THEN Throw ELSE Exact(r * PowersOf(b)[e], Word)
    BY DEF PowValue
  <1>5. PowValue(w) = IF h = 0 THEN r2 ELSE IF Throw \in {r2, b2} THEN Throw
                      ELSE Exact(r2 * PowersOf(b2)[h], Word)
    BY <1>3 DEF PowValue
  <1>6. /\ Throw \in {r, b} => Mul(r, b) = Throw
        /\ b = Throw => Mul(b, b) = Throw
        /\ Throw \notin {r, b} => /\ r \in Word /\ b \in Word /\ Mul(r, b) = Exact(r * b, Word)
                                  /\ Mul(b, b) = Exact(b * b, Word)
    BY <1>1, ProductOfResults
  <1>7. r = Throw \/ r >= 1
    OBVIOUS
  <1>8. b = Throw \/ b >= 2
    OBVIOUS
  <1> HIDE DEF e, h, r, b, w, r2, b2
  <1>9. CASE Throw \in {r, b}
    <2>1. PowValue(v) = Throw
      BY <1>4, <1>9
    <2>2. h = 0 => ~IsEven(e)
      BY <1>1, <1>2
    <2>3. PowValue(w) = Throw
      BY <1>3, <1>5, <1>6, <1>9, <2>2
    <2>4. (r2 = Throw \/ r2 = r) /\ (b2 = Throw \/ b2 = b \/ Throw \notin {b})
      BY <1>3, <1>6, <1>9
    <2>5. b2 = Throw \/ b2 >= 2
      <3>1. CASE b = Throw
        BY <1>3, <1>6, <3>1
      <3>2. CASE b # Throw
        <4>1. Mul(b, b) = Exact(b * b, Word) /\ b \in Word /\ b \in Nat
          BY <1>1, <3>2, ProductOfResults, Words
        <4>2. b >= 2 /\ b * b >= 2
          BY <1>8, <3>2, <4>1
        <4> QED
          BY <1>3, <4>1, <4>2 DEF Exact
      <3> QED
        BY <3>1, <3>2
    <2> QED
      BY <1>7, <2>1, <2>3, <2>4, <2>5 DEF r2, b2, w
  <1>10. CASE Throw \notin {r, b}
    <2> DEFINE g == PowersOf(b)
               s == PowersOf(b * b)
               o == IF IsEven(e) THEN 1 ELSE b
    <2>1. /\ r \in Nat /\ b \in Nat /\ r >= 1 /\ b >= 2 /\ r < Modulus /\ b < Modulus
          /\ Modulus \in Nat
      BY <1>6, <1>7, <1>8, <1>10, Words
    <2>2. /\ r * b \in Nat /\ b * b \in Nat /\ b * b >= b /\ r * b >= 1
          /\ b * b \in Nat \ {0} /\ o \in Nat /\ r * o \in Nat /\ r * o >= 1
      BY <2>1
    <2>3. \A n \in Nat : /\ g[n] \in Nat /\ g[n + 1] = b * g[n] /\ g[0] = 1
                         /\ s[n] = g[2 * n]
      BY <2>1, PowerSteps, PowersOfSquare
    <2>4. s[0] = 1 /\ \A n \in Nat : s[n] \in Nat /\ s[n] >= 1 /\ s[n + 1] = (b * b) * s[n]
      <3> DEFINE c == b * b
      <3>1. c \in Nat \ {0}
        BY <2>2
      <3> HIDE DEF c
      <3>2. /\ PowersOf(c)[0] = 1
            /\ \A n \in Nat : PowersOf(c)[n] \in Nat /\ PowersOf(c)[n] >= 1
                              /\ PowersOf(c)[n + 1] = c * PowersOf(c)[n]
        BY <3>1, PowerSteps, PowersGrow
      <3> QED
        BY <3>2 DEF c
    <2> HIDE DEF g, s
    <2>5. s[h] \in Nat /\ s[h] >= 1 /\ g[e] = o * s[h]
      <3>1. s[h] \in Nat /\ s[h] >= 1 /\ s[h] = g[2 * h] /\ 2 * h \in Nat
        BY <1>2, <2>3, <2>4
      <3>2. CASE IsEven(e)
        BY <1>2, <3>1, <3>2
      <3>3. CASE ~IsEven(e)
        BY <1>2, <2>3, <3>1, <3>3
      <3> QED
        BY <3>1, <3>2, <3>3
    <2>6. r2 = Exact(r * o, Word)
      <3>1. CASE IsEven(e)
        <4>1. r * o = r
          BY <2>1, <3>1
        <4>2. Exact(r, Word) = r
          BY <2>1, ExactWord
        <4> QED
          BY <1>3, <3>1, <4>1, <4>2
      <3>2. CASE ~IsEven(e)
        BY <1>3, <1>6, <1>10, <3>2
      <3> QED
        BY <3>1, <3>2
    <2>7. b2 = IF h = 0 THEN b ELSE Exact(b * b, Word)
      BY <1>3, <1>6, <1>10
    <2>8. PowValue(v) = Exact(r * (o * s[h]), Word)
      BY <1>4, <1>10, <2>5 DEF g
    <2> DEFINE p == r * o
    <2>9. p \in Nat /\ p >= 1 /\ r * (o * s[h]) = p * s[h] /\ p * s[h] \in Nat
          /\ p * s[h] >= p /\ p * s[h] >= s[h]
      <3>1. p \in Nat /\ p >= 1 /\ s[h] \in Nat /\ s[h] >= 1 /\ o \in Nat
        BY <2>2, <2>5
      <3>2. r * (o * s[h]) = (r * o) * s[h]
        BY <2>1, <3>1
      <3> HIDE DEF o
      <3>3. r * (o * s[h]) = p * s[h]
        BY <3>2
      <3> HIDE DEF p
      <3>4. p * s[h] \in Nat /\ p * s[h] >= p * 1 /\ p * s[h] >= 1 * s[h]
        BY <3>1
      <3> QED
        BY <3>1, <3>3, <3>4
    <2> HIDE DEF o
    <2>10. r2 = Exact(p, Word)
      BY <2>6
    <2> HIDE DEF p
    <2>11. /\ p < Modulus => r2 = p /\ r2 # Throw /\ r2 \in Word
           /\ Modulus <= p => r2 = Throw
      BY <2>9, <2>10, ExactWord, Words
    <2>12. PowValue(v) = Exact(p * s[h], Word)
      BY <2>8, <2>9
    <2>13. Modulus <= p * s[h] => PowValue(v) = Throw
      <3> DEFINE n == p * s[h]
      <3>1. n \in Nat /\ PowValue(v) = Exact(n, Word)
        BY <2>9, <2>12
      <3> HIDE DEF n
      <3>2. Modulus <= n => PowValue(v) = Throw
        BY <3>1, ExactWord
      <3> QED
        BY <3>2 DEF n
    <2>14. PowValue(w) = PowValue(v)
      <3>1. CASE h = 0
        <4>1. p * s[h] = p
          BY <2>4, <2>9, <3>1
        <4> QED
          BY <1>5, <2>10, <2>12, <3>1, <4>1
      <3>2. CASE h # 0 /\ Modulus <= p
        <4>1. Modulus <= p * s[h]
          BY <2>1, <2>9, <3>2
        <4> QED
          BY <1>5, <2>11, <2>13, <3>2, <4>1
      <3>3. CASE h # 0 /\ p < Modulus /\ Modulus <= b * b
        <4>1. b2 = Throw
          BY <2>2, <2>7, <3>3, ExactWord
        <4>2. h - 1 \in Nat /\ h - 1 + 1 = h
          BY <1>2, <3>3
        <4>3. s[h] = (b * b) * s[h - 1] /\ s[h - 1] \in Nat /\ s[h - 1] >= 1
          BY <2>4, <4>2
        <4>4. s[h] >= b * b
          <5> DEFINE c == b * b
          <5>1. c \in Nat /\ s[h] = c * s[h - 1]
            BY <2>2, <4>3
          <5> HIDE DEF c
          <5>2. c * s[h - 1] >= c * 1
            BY <4>3, <5>1
          <5>3. s[h] >= c
            BY <5>1, <5>2
          <5> QED
            BY <5>3 DEF c
        <4>5. Modulus <= p * s[h]
          BY <2>1, <2>2, <2>5, <2>9, <3>3, <4>4
        <4> QED
          BY <1>5, <2>13, <3>3, <4>1, <4>5
      <3>4. CASE h # 0 /\ p < Modulus /\ b * b < Modulus
        <4>1. b2 = b * b /\ b2 # Throw
          BY <2>2, <2>7, <3>4, ExactWord, Words
        <4>2. r2 = p /\ r2 # Throw
          BY <2>11, <3>4
        <4>3. r2 * PowersOf(b2)[h] = p * s[h]
          BY <4>1, <4>2 DEF s
        <4> QED
          BY <1>5, <2>12, <3>4, <4>1, <4>2, <4>3
      <3> QED
        BY <2>1, <2>2, <2>9, <3>1, <3>2, <3>3, <3>4
    <2>15. r2 = Throw \/ r2 >= 1
      BY <2>1, <2>9, <2>11
    <2>16. b2 = Throw \/ b2 >= 2
      BY <2>1, <2>2, <2>7 DEF Exact
    <2> QED
      BY <2>14, <2>15, <2>16 DEF r2, b2, w
  <1> QED
    BY <1>9, <1>10

\* The loop returns the exact outcome.
LEMMA PowLoopExact ==
    \A v \in PowState :
       (v.result = Throw \/ v.result >= 1) /\ (v.base = Throw \/ v.base >= 2)
          => PowLoop[v] = PowValue(v)
  <1> DEFINE S == PowState
             rank == [v \in S |-> v.exponent]
             Bound(v) == (v.result = Throw \/ v.result >= 1) /\ (v.base = Throw \/ v.base >= 2)
             T == {v \in S : Bound(v) => PowLoop[v] = PowValue(v)}
  <1>1. ASSUME NEW v \in S, \A t \in S : rank[t] < rank[v] => t \in T PROVE v \in T
    <2> SUFFICES ASSUME Bound(v) PROVE PowLoop[v] = PowValue(v)
      OBVIOUS
    <2>1. PowLoop[v] = IF v.exponent = 0 THEN v.result ELSE PowLoop[PowNext(v)]
      BY PowLoopLaw
    <2>2. CASE v.exponent = 0
      BY <2>1, <2>2 DEF PowValue
    <2>3. CASE v.exponent # 0
      <3> DEFINE w == PowNext(v)
      <3>1. w \in S /\ w.exponent < v.exponent
        BY <2>3, PowNextType
      <3>2. Bound(w) /\ PowValue(w) = PowValue(v)
        BY <2>3, PowTurn
      <3> HIDE DEF w
      <3>3. w \in T
        BY <1>1, <3>1
      <3>4. PowLoop[w] = PowValue(w)
        BY <3>2, <3>3
      <3> QED
        BY <2>1, <2>3, <3>2, <3>4 DEF w
    <2> QED
      BY <2>2, <2>3
  <1>2. \A v \in S : v \in T
    <2>1. rank \in [S -> Nat] /\ T \in SUBSET S
      BY Words DEF PowState
    <2> HIDE DEF T, rank
    <2> QED
      BY <1>1, <2>1, RankInduction, Zenon
  <1> QED
    BY <1>2

\* The reference for powers stops looking after as many factors as a word has bits.
LEMMA ExactPowerIs ==
    ASSUME NEW b \in Nat, b >= 2, NEW e \in Nat
    PROVE  ExactPower(b, e) = Exact(PowersOf(b)[e], Word)
  <1>1. b \in Nat \ {0} /\ ~(b <= 1) /\ Bits \in Nat /\ Modulus \in Nat
    BY Words
  <1>2. CASE e <= Bits
    BY <1>1, <1>2, ExactPowersAre DEF ExactPower
  <1>3. CASE e > Bits
    <2> DEFINE p == PowersOf(b)[Bits]
               q == PowersOf(b)[e]
    <2>1. ExactPower(b, e) = Exact(p, Word)
      BY <1>1, <1>3, ExactPowersAre DEF ExactPower
    <2>2. p \in Nat /\ q \in Nat /\ p >= Modulus
      BY <1>1, PowerSteps, PowersAtLeastTwoTo DEF Modulus
    <2>3. p <= q
      <3>1. e - Bits \in Nat /\ Bits + (e - Bits) = e
        BY <1>1, <1>3
      <3>2. PowersOf(b)[Bits] <= PowersOf(b)[Bits + (e - Bits)]
        BY <1>1, <3>1, PowersGrow
      <3> QED
        BY <3>1, <3>2
    <2> HIDE DEF p, q
    <2>4. Exact(p, Word) = Throw /\ Exact(q, Word) = Throw
      BY <1>1, <2>2, <2>3, ExactWord
    <2> QED
      BY <2>1, <2>4 DEF q
  <1> QED
    BY <1>1, <1>2, <1>3

\* SafeMath.ts: pow, by squaring, reverts just when the power is no word.
LEMMA PowExact ==
    ASSUME NEW b \in Word, NEW e \in Word
    PROVE  Pow(b, e) = ExactPower(b, e)
  <1>1. b \in Nat /\ e \in Nat
    BY Words
  <1>2. CASE e = 0
    <2>1. ExactPowers(b)[0] = 1 /\ Bits \in Nat
      BY <1>1, ExactPowersLaw, Words
    <2> QED
      BY <1>2, <2>1 DEF Pow, ExactPower
  <1>3. CASE e # 0 /\ b <= 1
    BY <1>1, <1>3 DEF Pow, ExactPower
  <1>4. CASE e # 0 /\ b >= 2
    <2> DEFINE v == [result |-> 1, base |-> b, exponent |-> e]
    <2>1. /\ v \in PowState /\ v.result = 1 /\ v.base = b /\ v.exponent = e
          /\ Throw \notin {v.result, v.base}
      BY <1>1, Words DEF PowState, Result
    <2>2. Pow(b, e) = PowLoop[v]
      BY <1>1, <1>4 DEF Pow
    <2> HIDE DEF v
    <2>3. PowLoop[v] = PowValue(v)
      BY <1>4, <2>1, PowLoopExact
    <2>4. PowValue(v) = Exact(1 * PowersOf(b)[e], Word)
      BY <1>4, <2>1 DEF PowValue
    <2>5. 1 * PowersOf(b)[e] = PowersOf(b)[e]
      BY <1>1, PowerSteps
    <2>6. ExactPower(b, e) = Exact(PowersOf(b)[e], Word)
      BY <1>1, <1>4, ExactPowerIs
    <2> QED
      BY <2>2, <2>3, <2>4, <2>5, <2>6
  <1> QED
    BY <1>1, <1>2, <1>3, <1>4

\* SafeMath.ts: pow10 reverts just above its largest exponent.
LEMMA Pow10Exact ==
    ASSUME NEW e \in Nat
    PROVE  Pow10(e) = ExactPower(10, e)
  <1> DEFINE max == MaxPow10Exponent
             g == PowersOf(10)
             join == [n \in Nat |-> [v \in Result |-> Mul(v, 10)]]
             times == CHOOSE f : f = [i \in Nat |-> IF i = 0 THEN 1 ELSE Mul(f[i - 1], 10)]
             P == {n \in Nat : times[n] = Exact(g[n], Word)}
  <1>1. 10 \in Nat /\ 10 >= 2 /\ 10 \in Word /\ 10 \in Result /\ 1 \in Result /\ 10 \in Nat \ {0}
    BY Words DEF Result
  <1>2. /\ g[0] = 1
        /\ \A n \in Nat : g[n] \in Nat /\ g[n] >= 1 /\ g[n + 1] = 10 * g[n]
    BY <1>1, PowerSteps, PowersGrow
  <1>3. join \in [Nat -> [Result -> Result]]
    BY <1>1, ProductOfResults
  <1>4. ASSUME NEW f \in [Nat -> Result], NEW n \in Nat, n # 0
        PROVE  join[n][f[n - 1]] = Mul(f[n - 1], 10)
    <2>1. n - 1 \in Nat
      BY <1>4
    <2>2. f[n - 1] \in Result /\ \A v \in Result : join[n][v] = Mul(v, 10)
      BY <2>1
    <2> HIDE DEF join
    <2> QED
      BY <2>2
  <1> HIDE DEF join, g
  <1>5. PICK f \in [Nat -> Result] : FollowsNat(f, 1, join)
    BY <1>1, <1>3, NatRecursion, Zenon
  <1>6. f = [i \in Nat |-> IF i = 0 THEN 1 ELSE Mul(f[i - 1], 10)]
    <2>1. ASSUME NEW n \in Nat PROVE f[n] = IF n = 0 THEN 1 ELSE Mul(f[n - 1], 10)
      BY <1>4, <1>5 DEF FollowsNat
    <2> QED
      BY <2>1
  <1>7. times = [i \in Nat |-> IF i = 0 THEN 1 ELSE Mul(times[i - 1], 10)]
    BY <1>6
  <1>8. Pow10(e) = IF e > max THEN Throw ELSE times[e]
    BY DEF Pow10
  <1> HIDE DEF times
  <1>9. P \in SUBSET Nat /\ 0 \in P
    <2>1. times[0] = 1 /\ Exact(1, Word) = 1
      BY <1>7, ExactWord, Words
    <2> QED
      BY <1>2, <2>1
  <1>10. ASSUME NEW n \in P PROVE n + 1 \in P
    <2>1. /\ n \in Nat /\ n + 1 \in Nat /\ n + 1 # 0 /\ n + 1 - 1 = n
          /\ times[n] = Exact(g[n], Word)
      OBVIOUS
    <2>2. /\ times[n + 1] = Mul(times[n], 10)
          /\ g[n] \in Nat /\ g[n] >= 1 /\ g[n + 1] = 10 * g[n] /\ g[n + 1] \in Nat
      BY <1>2, <1>7, <2>1
    <2>3. CASE g[n] < Modulus
      <3>1. times[n] = g[n] /\ g[n] \in Word
        BY <2>1, <2>2, <2>3, ExactWord
      <3>2. Mul(times[n], 10) = Exact(g[n] * 10, Word) /\ g[n] * 10 = g[n + 1]
        BY <1>1, <2>2, <3>1, ProductExact
      <3> QED
        BY <2>1, <2>2, <3>2
    <2>4. CASE Modulus <= g[n]
      <3>1. times[n] = Throw /\ Exact(g[n + 1], Word) = Throw
        <4>1. Modulus <= g[n + 1]
          BY <2>2, <2>4, Words
        <4> QED
          BY <2>1, <2>2, <2>4, <4>1, ExactWord
      <3>2. Mul(Throw, 10) = Throw
        BY DEF Mul
      <3> QED
        BY <2>1, <2>2, <3>1, <3>2
    <2> QED
      BY <2>2, <2>3, <2>4, Words
  <1>11. \A n \in Nat : n \in P
    <2> HIDE DEF P
    <2> QED
      BY <1>9, <1>10, SetInduction, Zenon
  <1>12. ExactPower(10, e) = Exact(g[e], Word)
    BY <1>1, ExactPowerIs DEF g
  <1>13. CASE e <= max
    <2>1. max \in Nat
      BY SafeMathAssumption
    <2> QED
      BY <1>8, <1>11, <1>12, <1>13, <2>1
  <1>14. CASE e > max
    <2>1. max \in Nat /\ Modulus \in Nat /\ g[max + 1] >= Modulus
      BY SafeMathAssumption, Words DEF g
    <2> DEFINE d == e - (max + 1)
    <2>2. d \in Nat /\ (max + 1) + d = e /\ max + 1 \in Nat
      BY <1>14, <2>1
    <2>3. g[max + 1] <= g[(max + 1) + d]
      <3> DEFINE n == max + 1
      <3>1. n \in Nat
        BY <2>1
      <3> HIDE DEF n, d
      <3>2. g[n] <= g[n + d]
        BY <1>1, <2>2, <3>1, PowersGrow DEF g
      <3> QED
        BY <3>2 DEF n
    <2> HIDE DEF d
    <2>4. g[e] >= Modulus
      <3>1. g[(max + 1) + d] = g[e]
        BY <2>2, Zenon
      <3>2. g[max + 1] \in Nat /\ g[e] \in Nat
        BY <1>2, <2>2
      <3> QED
        BY <2>1, <2>3, <3>1, <3>2
    <2>5. Exact(g[e], Word) = Throw
      BY <1>2, <2>1, <2>4, ExactWord
    <2> QED
      BY <1>8, <1>12, <1>14, <2>5
  <1> QED
    <2>1. max \in Nat
      BY SafeMathAssumption
    <2> QED
      BY <1>13, <1>14, <2>1

-----------------------------------------------------------------------------
(* Roots *)

RootState == [x : Word, z : Word]
RootNext(y, v) == [x |-> Wrap(y \div v.x + v.x) \div 2, z |-> v.x]

\* The loop follows its recursion, and its states stay states.
LEMMA SqrtLoopLaw ==
    ASSUME NEW y \in Word
    PROVE  /\ \A v \in RootState : v.x # 0 => RootNext(y, v) \in RootState
           /\ \A v \in RootState :
                 SqrtLoop(y)[v] = IF v.x >= v.z THEN v.z
                                  ELSE IF v.x = 0 THEN Throw ELSE SqrtLoop(y)[RootNext(y, v)]
  <1> DEFINE S == RootState
             stop == {v \in S : v.x >= v.z \/ v.x = 0}
             base == [v \in S |-> IF v.x >= v.z THEN v.z ELSE Throw]
             next == [v \in S |-> IF v.x = 0 THEN v ELSE RootNext(y, v)]
             rank == [v \in S |-> v.z]
  <1>0. y \in Nat
    BY Words
  <1>1. ASSUME NEW v \in S, v.x # 0 PROVE RootNext(y, v) \in S
    <2>1. v.x \in Nat \ {0} /\ v.x \in Word
      BY <1>1, Words DEF RootState
    <2>2. y \div v.x \in Nat
      BY <1>0, <2>1, Division
    <2> DEFINE n == y \div v.x + v.x
    <2>3. n \in Int
      BY <2>1, <2>2
    <2> HIDE DEF n
    <2>4. Wrap(n) \in Word
      BY <2>3, Wrapping
    <2>5. Wrap(n) \in Nat /\ Wrap(n) < Modulus
      BY <2>4, Words
    <2>6. Wrap(n) \div 2 \in Nat /\ Wrap(n) \div 2 <= Wrap(n)
      BY <2>5
    <2>7. Wrap(n) \div 2 \in Word
      BY <2>5, <2>6, Words
    <2> QED
      BY <2>1, <2>7 DEF RootNext, RootState, n
  <1>2. ASSUME NEW v \in S PROVE v.x \in Nat /\ v.z \in Nat /\ v.z \in Word
    BY Words DEF RootState
  <1>3. /\ rank \in [S -> Nat] /\ stop \in SUBSET S /\ base \in [S -> Result]
        /\ next \in [S -> S]
    BY <1>1, <1>2 DEF Result
  <1>4. \A s \in S \ stop : rank[next[s]] < rank[s]
    <2>1. ASSUME NEW s \in S \ stop PROVE rank[next[s]] < rank[s]
      <3>1. s.x < s.z /\ s.x # 0
        BY <1>2
      <3>2. RootNext(y, s) \in S /\ RootNext(y, s).z = s.x
        BY <1>1, <3>1 DEF RootNext
      <3>3. next[s] = RootNext(y, s)
        BY <3>1
      <3> QED
        BY <3>1, <3>2, <3>3
    <2> QED
      BY <2>1
  <1>5. ASSUME NEW f, NEW v \in S
        PROVE  (IF v \in stop THEN base[v] ELSE f[next[v]])
                  = (IF v.x >= v.z THEN v.z
                     ELSE IF v.x = 0 THEN Throw ELSE f[RootNext(y, v)])
    OBVIOUS
  <1> HIDE DEF stop, base, next, rank
  <1>6. PICK f : IsLoop(f, S, stop, base, next)
    BY <1>3, <1>4, LoopExists, Zenon
  <1>7. f = [v \in S |-> IF v.x >= v.z THEN v.z
                         ELSE IF v.x = 0 THEN Throw ELSE f[RootNext(y, v)]]
    BY <1>5, <1>6 DEF IsLoop
  <1>8. SqrtLoop(y) = [v \in S |-> IF v.x >= v.z THEN v.z ELSE IF v.x = 0 THEN Throw
                                   ELSE SqrtLoop(y)[RootNext(y, v)]]
    BY <1>7 DEF SqrtLoop, RootState, RootNext
  <1> QED
    BY <1>1, <1>8

\* One step of Newton's method: from any guess the next one is at least the root, and when
\* it is no smaller, the guess was at most the root.
LEMMA NewtonStep ==
    ASSUME NEW y \in Nat, NEW z \in Nat \ {0}, NEW x \in Nat, x = (y \div z + z) \div 2
    PROVE  /\ (x + 1) * (x + 1) > y
           /\ x >= z => z * z <= y
  <1> DEFINE q == y \div z
             r == y % z
  <1>1. q \in Nat /\ r \in 0 .. z - 1 /\ y = z * q + r
    BY Division, Zenon
  <1>2. x = (q + z) \div 2
    OBVIOUS
  <1> HIDE DEF q, r
  <1>3. 2 * x + 1 >= q + z /\ 2 * x <= q + z
    BY <1>1, <1>2
  <1>4. (x + 1) * (x + 1) > y
    <2> DEFINE a == x + 1
               p == q + 1
    <2>1. a \in Nat /\ p \in Nat /\ 2 * a >= p + z
      BY <1>1, <1>3
    <2>2. y < z * p
      <3>1. z * p = z * q + z
        BY <1>1
      <3> HIDE DEF p
      <3> QED
        BY <1>1, <3>1
    <2> HIDE DEF a, p
    <2>3. (2 * a) * (2 * a) >= (p + z) * (p + z)
      <3> DEFINE s == p + z
                 t == 2 * a
      <3>1. s \in Nat /\ t \in Nat /\ t >= s
        BY <2>1
      <3> HIDE DEF s, t
      <3>2. t * t >= s * t /\ s * t >= s * s
        BY <3>1
      <3>3. t * t >= s * s
        BY <3>1, <3>2
      <3> QED
        BY <3>3 DEF s, t
    <2>4. (p + z) * (p + z) = 4 * (z * p) + (p - z) * (p - z)
      BY <2>1
    <2>5. (p - z) * (p - z) >= 0
      <3> DEFINE d == p - z
      <3>1. d \in Int
        BY <2>1
      <3> HIDE DEF d
      <3>2. d * d >= 0
        BY <3>1
      <3> QED
        BY <3>2 DEF d
    <2>6. (2 * a) * (2 * a) = 4 * (a * a)
      BY <2>1
    <2> DEFINE aa == a * a
               zp == z * p
               dd == (p - z) * (p - z)
    <2>7. aa \in Int /\ zp \in Int /\ dd \in Int /\ 4 * aa >= 4 * zp + dd /\ dd >= 0 /\ y < zp
      BY <2>1, <2>2, <2>3, <2>4, <2>5, <2>6
    <2> HIDE DEF aa, zp, dd
    <2>8. aa > y
      BY <2>7
    <2> QED
      BY <2>8 DEF aa, a
  <1>5. ASSUME x >= z PROVE z * z <= y
    <2>1. q >= z
      BY <1>1, <1>3, <1>5
    <2>2. z * q >= z * z
      BY <1>1, <2>1
    <2> QED
      BY <1>1, <2>2
  <1> QED
    BY <1>4, <1>5

\* The guess of a state that the loop leaves does not wrap.
LEMMA NewtonFits ==
    ASSUME NEW y \in Nat, NEW x \in Nat, x >= 2, x < y
    PROVE  y \div x + x <= y /\ y \div x + x \in Nat
  <1> DEFINE q == y \div x
             r == y % x
  <1>1. q \in Nat /\ r \in 0 .. x - 1 /\ y = x * q + r
    <2>1. x \in Nat \ {0}
      OBVIOUS
    <2> QED
      BY <2>1, Division, Zenon
  <1> HIDE DEF q, r
  <1>2. CASE q <= 1
    BY <1>1, <1>2
  <1>3. CASE q >= 2
    <2> DEFINE a == x - 2
               b == q - 2
    <2>1. a \in Nat /\ b \in Nat /\ x = a + 2 /\ q = b + 2
      BY <1>1, <1>3
    <2> HIDE DEF a, b
    <2>2. (a + 2) * (b + 2) = a * b + 2 * a + 2 * b + 4 /\ a * b >= 0
      BY <2>1
    <2>3. x * q = a * b + 2 * a + 2 * b + 4
      BY <2>1, <2>2
    <2>4. x * q >= x + q
      BY <2>1, <2>2, <2>3
    <2> QED
      BY <1>1, <2>4
  <1> QED
    BY <1>1, <1>2, <1>3

\* What holds of a state of the loop: neither guess is below the root, and the newer one is
\* smaller, or comes from the older one by a step of Newton's method.
RootGuess(y, v) ==
    /\ (v.x + 1) * (v.x + 1) > y /\ (v.z + 1) * (v.z + 1) > y
    /\ v.z <= y /\ v.z # 0
    /\ v.x < v.z \/ v.x = (y \div v.z + v.z) \div 2

\* A turn of the loop keeps it.
LEMMA RootTurn ==
    ASSUME NEW y \in Word, y > 3, NEW v \in RootState, RootGuess(y, v), v.x < v.z
    PROVE  v.x # 0 /\ RootNext(y, v) \in RootState /\ RootGuess(y, RootNext(y, v))
  <1> DEFINE x == v.x
             z == v.z
             w == RootNext(y, v)
             n == y \div x + x
  <1>1. /\ y \in Nat /\ y < Modulus /\ x \in Nat /\ z \in Nat /\ x < z /\ z <= y
        /\ (x + 1) * (x + 1) > y
    BY Words DEF RootState, RootGuess
  <1> HIDE DEF x, z
  <1>2. x >= 2
    <2>1. ASSUME x = 0 \/ x = 1 PROVE FALSE
      BY <1>1, <2>1
    <2> QED
      BY <1>1, <2>1
  <1>3. x < y /\ x # 0 /\ x \in Nat \ {0} /\ x <= y
    BY <1>1, <1>2
  <1>4. n <= y /\ n \in Nat
    BY <1>1, <1>2, <1>3, NewtonFits
  <1>5. w.x = Wrap(n) \div 2 /\ w.z = x
    BY DEF RootNext, x
  <1> HIDE DEF n
  <1>6. Wrap(n) = n
    <2>1. 0 <= n /\ n < Modulus /\ n \in Int
      BY <1>1, <1>4, Words
    <2> QED
      BY <2>1, Wrapping
  <1>7. w.x = n \div 2 /\ w.x \in Nat
    BY <1>4, <1>5, <1>6
  <1>8. (w.x + 1) * (w.x + 1) > y
    <2> DEFINE t == w.x
    <2>1. t \in Nat /\ t = (y \div x + x) \div 2
      BY <1>7 DEF n
    <2> HIDE DEF t
    <2>2. (t + 1) * (t + 1) > y
      BY <1>1, <1>3, <2>1, NewtonStep
    <2> QED
      BY <2>2 DEF t
  <1>9. w \in RootState
    BY <1>3, SqrtLoopLaw DEF x
  <1>10. w.x = (y \div w.z + w.z) \div 2
    BY <1>5, <1>7 DEF n
  <1> HIDE DEF w
  <1>11. RootGuess(y, w)
    BY <1>1, <1>3, <1>5, <1>8, <1>10 DEF RootGuess
  <1> QED
    BY <1>3, <1>9, <1>11 DEF w, x

\* SafeMath.ts: sqrt is the largest number whose square is no larger.
LEMMA SqrtExact ==
    ASSUME NEW y \in Word
    PROVE  RootExact(y)
  <1> DEFINE S == RootState
             loop == SqrtLoop(y)
             rank == [v \in S |-> v.z]
             Root(n) == n \in Nat /\ n * n <= y /\ y < (n + 1) * (n + 1)
             T == {v \in S : RootGuess(y, v) => Root(loop[v])}
  <1>1. y \in Nat /\ y < Modulus
    BY Words
  <1>2. CASE y <= 3
    <2>1. Sqrt(y) = IF y # 0 THEN 1 ELSE 0
      BY <1>1, <1>2 DEF Sqrt
    <2>2. y = 0 \/ y = 1 \/ y = 2 \/ y = 3
      BY <1>1, <1>2
    <2> QED
      BY <2>1, <2>2 DEF RootExact
  <1>3. CASE y > 3
    <2>1. ASSUME NEW v \in S, \A t \in S : rank[t] < rank[v] => t \in T PROVE v \in T
      <3> SUFFICES ASSUME RootGuess(y, v) PROVE Root(loop[v])
        OBVIOUS
      <3>1. v.x \in Nat /\ v.z \in Nat
        BY Words DEF RootState
      <3>2. loop[v] = IF v.x >= v.z THEN v.z
                      ELSE IF v.x = 0 THEN Throw ELSE loop[RootNext(y, v)]
        BY SqrtLoopLaw
      <3> HIDE DEF loop
      <3>3. CASE v.x >= v.z
        <4> DEFINE x == v.x
                   z == v.z
        <4>1. /\ x \in Nat /\ z \in Nat \ {0} /\ x = (y \div z + z) \div 2 /\ x >= z
              /\ (z + 1) * (z + 1) > y
          BY <3>1, <3>3 DEF RootGuess
        <4>2. loop[v] = z
          BY <3>2, <3>3
        <4> HIDE DEF x, z
        <4>3. z * z <= y
          BY <1>1, <4>1, NewtonStep
        <4> QED
          BY <1>1, <4>1, <4>2, <4>3
      <3>4. CASE v.x < v.z
        <4> DEFINE w == RootNext(y, v)
        <4>1. v.x # 0 /\ w \in S /\ RootGuess(y, w)
          BY <1>3, <3>4, RootTurn
        <4>2. w.z = v.x
          BY DEF RootNext
        <4>3. loop[v] = loop[w]
          BY <3>1, <3>2, <3>4, <4>1
        <4> HIDE DEF w
        <4>4. w \in T
          BY <2>1, <3>4, <4>1, <4>2
        <4> QED
          BY <4>1, <4>3, <4>4
      <3> QED
        BY <3>1, <3>3, <3>4
    <2>2. \A v \in S : v \in T
      <3>1. rank \in [S -> Nat] /\ T \in SUBSET S
        BY Words DEF RootState
      <3> HIDE DEF T, rank
      <3> QED
        BY <2>1, <3>1, RankInduction, Zenon
    <2> DEFINE h == y \div 2 + 1
               v == [x |-> h, z |-> y]
    <2>3. h \in Nat /\ h < y /\ h # 0 /\ 2 * h > y
      BY <1>1, <1>3
    <2>4. (h + 1) * (h + 1) > y /\ (y + 1) * (y + 1) > y
      <3> HIDE DEF h
      <3>1. /\ (h + 1) * (h + 1) = h * h + 2 * h + 1 /\ h * h >= 0
            /\ (y + 1) * (y + 1) = y * y + 2 * y + 1 /\ y * y >= 0
        BY <1>1, <2>3
      <3> QED
        BY <1>1, <2>3, <3>1
    <2>5. v \in S /\ v.x = h /\ v.z = y
      <3>1. h \in Word
        BY <1>1, <2>3, Words
      <3> QED
        BY <3>1 DEF RootState
    <2>6. Sqrt(y) = loop[v]
      BY <1>3 DEF Sqrt
    <2> HIDE DEF v, h
    <2>7. RootGuess(y, v)
      BY <1>1, <2>3, <2>4, <2>5 DEF RootGuess
    <2>8. Root(Sqrt(y))
      BY <2>2, <2>5, <2>6, <2>7
    <2> QED
      BY <2>8 DEF RootExact
  <1> QED
    BY <1>1, <1>2, <1>3

-----------------------------------------------------------------------------
(* Inverses modulo p *)

EuclidState == [oldR : Word, r : Word, oldS : Coefficient, s : Coefficient]
EuclidNext(v) == [oldR |-> v.r, r |-> v.oldR % v.r, oldS |-> v.s,
                  s |-> NextCoefficient(v.oldS, v.s, v.oldR \div v.r)]

\* The next coefficient is one.
LEMMA NextCoefficientType ==
    ASSUME NEW old \in Coefficient, NEW s \in Coefficient, NEW q \in Nat
    PROVE  NextCoefficient(old, s, q) \in Coefficient
  <1> DEFINE prod == Wrap(q * s.abs)
             a == old.abs
  <1>1. s.abs \in Nat /\ a \in Nat /\ a < Modulus /\ a \in Word /\ old.neg \in BOOLEAN
    BY Words DEF Coefficient
  <1>2. prod \in Word
    <2>1. q * s.abs \in Int
      BY <1>1
    <2> QED
      BY <2>1, Wrapping
  <1>3. prod \in Nat /\ prod < Modulus
    BY <1>2, Words
  <1> HIDE DEF prod, a
  <1>4. Wrap(a + prod) \in Word
    <2>1. a + prod \in Int
      BY <1>1, <1>3
    <2> QED
      BY <2>1, Wrapping
  <1>5. a >= prod => a - prod \in Word
    BY <1>1, <1>3, Words
  <1>6. ~(a >= prod) => prod - a \in Word
    BY <1>1, <1>3, Words
  <1>7. NextCoefficient(old, s, q) =
          IF old.neg # s.neg THEN [abs |-> Wrap(a + prod), neg |-> old.neg]
          ELSE IF a >= prod THEN [abs |-> a - prod, neg |-> old.neg]
          ELSE [abs |-> prod - a, neg |-> ~old.neg]
    BY DEF NextCoefficient, a, prod
  <1>8. ASSUME NEW n \in Word, NEW g \in BOOLEAN PROVE [abs |-> n, neg |-> g] \in Coefficient
    BY DEF Coefficient
  <1>9. CASE old.neg # s.neg
    BY <1>1, <1>4, <1>7, <1>8, <1>9
  <1>10. CASE old.neg = s.neg /\ a >= prod
    BY <1>1, <1>5, <1>7, <1>8, <1>10
  <1>11. CASE old.neg = s.neg /\ ~(a >= prod)
    <2>1. (~old.neg) \in BOOLEAN
      OBVIOUS
    <2> QED
      BY <1>6, <1>7, <1>8, <1>11, <2>1
  <1> QED
    BY <1>9, <1>10, <1>11

\* The loop follows its recursion, and its states stay states.
LEMMA EuclidLoopLaw ==
    /\ \A v \in EuclidState : v.r # 0 => EuclidNext(v) \in EuclidState
    /\ \A v \in EuclidState :
          EuclidLoop[v] = IF v.r = 0 THEN [gcd |-> v.oldR, s |-> v.oldS]
                          ELSE EuclidLoop[EuclidNext(v)]
  <1> DEFINE S == EuclidState
             V == [gcd : Word, s : Coefficient]
             stop == {v \in S : v.r = 0}
             base == [v \in S |-> [gcd |-> v.oldR, s |-> v.oldS]]
             next == [v \in S |-> IF v.r = 0 THEN v ELSE EuclidNext(v)]
             rank == [v \in S |-> v.r]
  <1>1. ASSUME NEW v \in S, v.r # 0
        PROVE  EuclidNext(v) \in S /\ EuclidNext(v).r \in Nat /\ EuclidNext(v).r < v.r
    <2>1. /\ v.oldR \in Word /\ v.r \in Word /\ v.oldS \in Coefficient /\ v.s \in Coefficient
          /\ v.oldR \in Nat /\ v.r \in Nat \ {0}
      BY <1>1, Words DEF EuclidState
    <2>2. v.oldR % v.r \in Word /\ v.oldR % v.r < v.r /\ v.oldR % v.r \in Nat
      BY <1>1, <2>1, RemainderExact, Words
    <2>3. v.oldR \div v.r \in Nat
      BY <2>1, Division
    <2>4. NextCoefficient(v.oldS, v.s, v.oldR \div v.r) \in Coefficient
      BY <2>1, <2>3, NextCoefficientType
    <2> QED
      BY <2>1, <2>2, <2>4 DEF EuclidNext, EuclidState
  <1>2. /\ rank \in [S -> Nat] /\ stop \in SUBSET S /\ base \in [S -> V]
        /\ next \in [S -> S] /\ \A s \in S \ stop : rank[next[s]] < rank[s]
    <2>1. rank \in [S -> Nat] /\ base \in [S -> V]
      BY Words DEF EuclidState
    <2>2. next \in [S -> S] /\ \A s \in S \ stop : rank[next[s]] < rank[s]
      BY <1>1
    <2> QED
      BY <2>1, <2>2
  <1>3. ASSUME NEW f, NEW v \in S
        PROVE  (IF v \in stop THEN base[v] ELSE f[next[v]])
                  = (IF v.r = 0 THEN [gcd |-> v.oldR, s |-> v.oldS] ELSE f[EuclidNext(v)])
    OBVIOUS
  <1> HIDE DEF V, stop, base, next, rank
  <1>4. PICK f : IsLoop(f, S, stop, base, next)
    BY <1>2, LoopExists, Zenon
  <1>5. f = [v \in S |-> IF v.r = 0 THEN [gcd |-> v.oldR, s |-> v.oldS] ELSE f[EuclidNext(v)]]
    BY <1>3, <1>4 DEF IsLoop
  <1>6. EuclidLoop = [v \in S |-> IF v.r = 0 THEN [gcd |-> v.oldR, s |-> v.oldS]
                                  ELSE EuclidLoop[EuclidNext(v)]]
    BY <1>5 DEF EuclidLoop, EuclidState, EuclidNext
  <1> QED
    BY <1>1, <1>6

\* The number that a magnitude and a sign stand for.
Value(c) == IF c.neg THEN -c.abs ELSE c.abs

\* As long as the magnitudes fit and the signs take turns, the next coefficient is exact.
LEMMA NextCoefficientExact ==
    ASSUME NEW old \in Coefficient, NEW s \in Coefficient, NEW q \in Nat,
           old.abs + q * s.abs < Modulus,
           old.neg # s.neg \/ old.abs = 0 \/ s.abs = 0
    PROVE  LET n == NextCoefficient(old, s, q)
           IN  /\ n.abs = old.abs + q * s.abs
               /\ Value(n) = Value(old) - q * Value(s)
               /\ s.neg # n.neg \/ s.abs = 0 \/ n.abs = 0
  <1> DEFINE m == q * s.abs
             prod == Wrap(m)
             a == old.abs
             n == NextCoefficient(old, s, q)
  <1>1. /\ a \in Nat /\ s.abs \in Nat /\ m \in Nat /\ old.neg \in BOOLEAN /\ s.neg \in BOOLEAN
        /\ Modulus \in Nat
    BY Words DEF Coefficient
  <1>2. a + m < Modulus
    OBVIOUS
  <1>3. q * Value(s) = IF s.neg THEN -m ELSE m
    <2>1. CASE s.neg
      <3>1. Value(s) = -s.abs
        BY <2>1 DEF Value
      <3>2. q * (-s.abs) = -(q * s.abs)
        BY <1>1
      <3> QED
        BY <2>1, <3>1, <3>2
    <2>2. CASE ~s.neg
      BY <2>2 DEF Value
    <2> QED
      BY <2>1, <2>2
  <1>4. s.abs = 0 => m = 0
    OBVIOUS
  <1> HIDE DEF m, a
  <1>5. prod = m /\ Wrap(a + prod) = a + m
    <2>1. m \in Int /\ 0 <= m /\ m < Modulus
      BY <1>1, <1>2
    <2>2. Wrap(m) = m
      BY <2>1, Wrapping
    <2> DEFINE t == a + m
    <2>3. t \in Int /\ 0 <= t /\ t < Modulus
      BY <1>1, <1>2
    <2> HIDE DEF t
    <2>4. Wrap(t) = t
      BY <2>3, Wrapping
    <2> QED
      BY <2>2, <2>4 DEF t
  <1>6. n = IF old.neg # s.neg THEN [abs |-> a + m, neg |-> old.neg]
            ELSE IF a >= m THEN [abs |-> a - m, neg |-> old.neg]
            ELSE [abs |-> m - a, neg |-> ~old.neg]
    BY <1>5 DEF NextCoefficient, a, m
  <1> HIDE DEF n, prod
  <1>7. Value(old) = IF old.neg THEN -a ELSE a
    BY DEF Value, a
  <1>8. old.neg # s.neg \/ a = 0 \/ m = 0
    BY <1>4 DEF a
  <1>9. CASE old.neg # s.neg
    <2>1. n.abs = a + m /\ n.neg = old.neg
      BY <1>6, <1>9
    <2>2. CASE old.neg
      <3>1. ~s.neg /\ Value(n) = -(a + m) /\ q * Value(s) = m /\ Value(old) = -a
        BY <1>1, <1>3, <1>7, <1>9, <2>1, <2>2 DEF Value
      <3>2. Value(n) = Value(old) - q * Value(s)
        BY <1>1, <3>1
      <3> QED
        BY <1>9, <2>1, <3>2 DEF n, m, a
    <2>3. CASE ~old.neg
      <3>1. s.neg /\ Value(n) = a + m /\ q * Value(s) = -m /\ Value(old) = a
        BY <1>1, <1>3, <1>7, <1>9, <2>1, <2>3 DEF Value
      <3>2. Value(n) = Value(old) - q * Value(s)
        BY <1>1, <3>1
      <3> QED
        BY <1>9, <2>1, <3>2 DEF n, m, a
    <2> QED
      BY <2>2, <2>3
  <1>10. CASE old.neg = s.neg /\ m = 0
    <2>1. n.abs = a /\ n.neg = old.neg
      BY <1>1, <1>6, <1>10
    <2>2. Value(n) = Value(old)
      BY <1>7, <2>1 DEF Value
    <2>3. q * Value(s) = 0 /\ Value(old) \in Int
      BY <1>1, <1>3, <1>7, <1>10
    <2>4. s.abs = 0 \/ n.abs = 0
      <3>1. s.abs = 0 \/ a = 0
        BY <1>10 DEF a
      <3> QED
        BY <2>1, <3>1
    <2> QED
      BY <1>1, <1>10, <2>1, <2>2, <2>3, <2>4 DEF n, m, a
  <1>11. CASE old.neg = s.neg /\ m # 0
    <2>1. a = 0 /\ m > 0
      BY <1>1, <1>8, <1>11
    <2>2. n.abs = m /\ n.neg = ~old.neg
      BY <1>1, <1>6, <1>11, <2>1
    <2>3. s.neg # n.neg
      BY <1>1, <1>11, <2>2
    <2>4. Value(old) = 0
      <3>1. Value(old) = -a \/ Value(old) = a
        BY <1>7
      <3> QED
        BY <1>1, <2>1, <3>1
    <2>5. Value(n) = IF s.neg THEN m ELSE -m
      BY <1>1, <1>11, <2>2 DEF Value
    <2>6. Value(n) = Value(old) - q * Value(s)
      <3>1. CASE s.neg
        BY <1>1, <1>3, <2>4, <2>5, <3>1
      <3>2. CASE ~s.neg
        BY <1>1, <1>3, <2>4, <2>5, <3>2
      <3> QED
        BY <3>1, <3>2
    <2>7. n.abs = a + m
      BY <1>1, <2>1, <2>2
    <2> QED
      BY <2>3, <2>6, <2>7 DEF n, m, a
  <1> QED
    BY <1>9, <1>10, <1>11

\* What holds of a state of the loop: the signs take turns, the magnitudes and the remainders
\* make up p, each remainder is its coefficient times k modulo p, and k is made up of both.
EuclidInvariant(k, p, v) ==
    /\ v.oldS.neg # v.s.neg \/ v.oldS.abs = 0 \/ v.s.abs = 0
    /\ v.oldS.abs * v.r + v.s.abs * v.oldR = p
    /\ \E m \in Int : v.oldR = Value(v.oldS) * k + m * p
    /\ \E m \in Int : v.r = Value(v.s) * k + m * p
    /\ \E c, d \in Int : k = c * v.oldR + d * v.r

\* A turn of the loop keeps it; no magnitude gets larger than p, so none wraps.
LEMMA EuclidTurn ==
    ASSUME NEW k \in Word, NEW p \in Word, NEW v \in EuclidState, v.r # 0,
           EuclidInvariant(k, p, v)
    PROVE  EuclidInvariant(k, p, EuclidNext(v))
  <1> DEFINE o == v.oldR
             r == v.r
             a == v.oldS.abs
             b == v.s.abs
             q == o \div r
             t == o % r
             x == Value(v.oldS)
             y == Value(v.s)
             n == NextCoefficient(v.oldS, v.s, q)
             w == EuclidNext(v)
  <1>1. /\ k \in Nat /\ p \in Nat /\ p < Modulus /\ Modulus \in Nat
        /\ o \in Nat /\ r \in Nat \ {0} /\ a \in Nat /\ b \in Nat
        /\ v.oldS \in Coefficient /\ v.s \in Coefficient
    BY Words DEF EuclidState, Coefficient
  <1>2. x \in Int /\ y \in Int
    BY <1>1 DEF Value
  <1>3. q \in Nat /\ t \in Nat /\ o = r * q + t
    BY <1>1, Division, Zenon
  <1>4. w.oldR = r /\ w.r = t /\ w.oldS = v.s /\ w.s = n
    BY DEF EuclidNext
  <1>5. a * r + b * o = p
    BY DEF EuclidInvariant
  <1>6. PICK l \in Int, m \in Int : o = x * k + l * p /\ r = y * k + m * p
    BY DEF EuclidInvariant
  <1>7. PICK c \in Int, d \in Int : k = c * o + d * r
    BY DEF EuclidInvariant
  <1>8. v.oldS.neg # v.s.neg \/ a = 0 \/ b = 0
    BY DEF EuclidInvariant
  <1> HIDE DEF o, r, q, t, x, y, a, b, w
  <1>9. b * t + (a + q * b) * r = p
    <2>1. b * (r * q + t) = b * (r * q) + b * t
      BY <1>1, <1>3
    <2>2. (a + q * b) * r = a * r + b * (r * q)
      BY <1>1, <1>3
    <2> DEFINE u == b * (r * q)
               e == b * t
               f == a * r
               g == (a + q * b) * r
    <2>3. u \in Int /\ e \in Int /\ f \in Int
      BY <1>1, <1>3
    <2>4. f + (u + e) = p
      BY <1>3, <1>5, <2>1
    <2>5. g = f + u
      BY <2>2
    <2> HIDE DEF u, e, f, g
    <2>6. e + g = p
      BY <2>3, <2>4, <2>5
    <2> QED
      BY <2>6 DEF e, g
  <1>10. a + q * b < Modulus
    <2> DEFINE s == a + q * b
    <2>1. s \in Nat /\ b * t \in Nat /\ b * t + s * r = p
      BY <1>1, <1>3, <1>9
    <2> HIDE DEF s
    <2>2. s * r >= s * 1
      BY <1>1, <2>1
    <2>3. s <= p
      BY <1>1, <2>1, <2>2
    <2>4. s < Modulus
      BY <1>1, <2>1, <2>3
    <2> QED
      BY <2>4 DEF s
  <1>11. /\ n.abs = a + q * b /\ Value(n) = x - q * y
         /\ v.s.neg # n.neg \/ b = 0 \/ n.abs = 0
    <2>1. /\ v.oldS.abs + q * v.s.abs < Modulus
          /\ v.oldS.neg # v.s.neg \/ v.oldS.abs = 0 \/ v.s.abs = 0
      BY <1>8, <1>10 DEF a, b
    <2>2. LET nn == NextCoefficient(v.oldS, v.s, q)
          IN  /\ nn.abs = v.oldS.abs + q * v.s.abs
              /\ Value(nn) = Value(v.oldS) - q * Value(v.s)
              /\ v.s.neg # nn.neg \/ v.s.abs = 0 \/ nn.abs = 0
      BY <1>1, <1>3, <2>1, NextCoefficientExact
    <2> QED
      BY <2>2 DEF a, b, x, y
  <1> HIDE DEF n
  <1>12. \E e \in Int : t = Value(n) * k + e * p
    <2> DEFINE e == l - q * m
    <2>1. e \in Int
      BY <1>3, <1>6
    <2>2. t = o - r * q
      BY <1>1, <1>3
    <2>3. (y * k + m * p) * q = (q * y) * k + (q * m) * p
      BY <1>1, <1>2, <1>3, <1>6
    <2>4. (x - q * y) * k = x * k - (q * y) * k
      BY <1>1, <1>2, <1>3
    <2>5. (l - q * m) * p = l * p - (q * m) * p
      BY <1>1, <1>3, <1>6
    <2>6. r * q = (q * y) * k + (q * m) * p
      BY <1>6, <2>3
    <2> DEFINE xk == x * k
               lp == l * p
               qyk == (q * y) * k
               qmp == (q * m) * p
               vk == (x - q * y) * k
               ep == (l - q * m) * p
               rq == r * q
    <2>7. xk \in Int /\ lp \in Int /\ qyk \in Int /\ qmp \in Int
      BY <1>1, <1>2, <1>3, <1>6
    <2>8. t = o - rq /\ o = xk + lp /\ rq = qyk + qmp /\ vk = xk - qyk /\ ep = lp - qmp
      BY <1>6, <2>2, <2>4, <2>5, <2>6
    <2> HIDE DEF xk, lp, qyk, qmp, vk, ep, rq
    <2>9. t = vk + ep
      BY <2>7, <2>8
    <2>10. t = Value(n) * k + (l - q * m) * p
      BY <1>11, <2>9 DEF vk, ep
    <2> QED
      BY <2>1, <2>10
  <1>13. \E e, f \in Int : k = e * r + f * t
    <2>1. c * q + d \in Int /\ c \in Int
      BY <1>3, <1>7
    <2>2. c * (r * q + t) = (c * q) * r + c * t
      BY <1>1, <1>3, <1>7
    <2>3. (c * q + d) * r = (c * q) * r + d * r
      BY <1>1, <1>3, <1>7
    <2> DEFINE ct == c * t
               dr == d * r
               cqr == (c * q) * r
               er == (c * q + d) * r
               co == c * o
    <2>4. ct \in Int /\ dr \in Int /\ cqr \in Int
      BY <1>1, <1>3, <1>7
    <2>5. co = cqr + ct /\ er = cqr + dr /\ k = co + dr
      BY <1>3, <1>7, <2>2, <2>3
    <2> HIDE DEF ct, dr, cqr, er, co
    <2>6. k = er + ct
      BY <2>4, <2>5
    <2> QED
      BY <2>1, <2>6 DEF er, ct
  <1>14. \E e \in Int : r = Value(v.s) * k + e * p
    BY <1>6 DEF y
  <1>15. w.oldS.abs * w.r + w.s.abs * w.oldR = p
    BY <1>4, <1>9, <1>11 DEF b
  <1> QED
    BY <1>4, <1>11, <1>12, <1>13, <1>14, <1>15 DEF EuclidInvariant, w, b

\* The loop ends with a common factor of k and p, and its coefficient.
LEMMA EuclidLoopExact ==
    ASSUME NEW k \in Word, NEW p \in Word
    PROVE  \A v \in EuclidState : EuclidInvariant(k, p, v) =>
              LET end == EuclidLoop[v]
              IN  /\ end.gcd \in Word /\ end.s \in Coefficient
                  /\ \E m \in Int : end.gcd = Value(end.s) * k + m * p
                  /\ \E c, d \in Int : k = c * end.gcd /\ p = d * end.gcd
  <1> DEFINE S == EuclidState
             rank == [v \in S |-> v.r]
             Good(end) == /\ end.gcd \in Word /\ end.s \in Coefficient
                          /\ \E m \in Int : end.gcd = Value(end.s) * k + m * p
                          /\ \E c, d \in Int : k = c * end.gcd /\ p = d * end.gcd
             T == {v \in S : EuclidInvariant(k, p, v) => Good(EuclidLoop[v])}
  <1>1. ASSUME NEW v \in S, \A t \in S : rank[t] < rank[v] => t \in T PROVE v \in T
    <2> SUFFICES ASSUME EuclidInvariant(k, p, v) PROVE Good(EuclidLoop[v])
      OBVIOUS
    <2>1. EuclidLoop[v] = IF v.r = 0 THEN [gcd |-> v.oldR, s |-> v.oldS]
                          ELSE EuclidLoop[EuclidNext(v)]
      BY EuclidLoopLaw
    <2>2. CASE v.r = 0
      <3> DEFINE o == v.oldR
                 a == v.oldS.abs
                 b == v.s.abs
                 r == v.r
      <3>1. /\ o \in Word /\ v.oldS \in Coefficient /\ o \in Nat /\ a \in Nat /\ b \in Nat
        BY Words DEF EuclidState, Coefficient
      <3>2. PICK c \in Int, d \in Int : k = c * o + d * r
        BY DEF EuclidInvariant
      <3>3. a * r + b * o = p
        BY DEF EuclidInvariant
      <3>4. \E m \in Int : o = Value(v.oldS) * k + m * p
        BY DEF EuclidInvariant
      <3> HIDE DEF o, a, b, r
      <3>5. r = 0
        BY <2>2 DEF r
      <3>6. d * r = 0 /\ a * r = 0 /\ c * o \in Int /\ b * o \in Int
        BY <3>1, <3>2, <3>5
      <3>7. k = c * o /\ p = b * o /\ b \in Int
        BY <3>1, <3>2, <3>3, <3>6
      <3>8. EuclidLoop[v] = [gcd |-> o, s |-> v.oldS]
        BY <2>1, <2>2 DEF o
      <3> DEFINE end == EuclidLoop[v]
      <3>9. end.gcd = o /\ end.s = v.oldS
        BY <3>8
      <3> HIDE DEF end
      <3>10. Good(end)
        BY <3>1, <3>2, <3>4, <3>7, <3>9
      <3> QED
        BY <3>10 DEF end
    <2>3. CASE v.r # 0
      <3> DEFINE w == EuclidNext(v)
      <3>1. w \in S /\ EuclidInvariant(k, p, w)
        BY <2>3, EuclidLoopLaw, EuclidTurn
      <3>2. w.r < v.r
        <4>1. w.r = v.oldR % v.r
          BY DEF EuclidNext
        <4>2. v.oldR \in Nat /\ v.r \in Nat \ {0}
          BY <2>3, Words DEF EuclidState
        <4>3. v.oldR % v.r \in 0 .. v.r - 1
          BY <4>2, Division, Zenon
        <4> HIDE DEF w
        <4> QED
          BY <4>1, <4>2, <4>3
      <3> HIDE DEF w
      <3>3. w \in T
        BY <1>1, <3>1, <3>2
      <3> QED
        BY <2>1, <2>3, <3>1, <3>3 DEF w
    <2> QED
      BY <2>2, <2>3
  <1>2. \A v \in S : v \in T
    <2>1. rank \in [S -> Nat] /\ T \in SUBSET S
      BY Words DEF EuclidState
    <2> HIDE DEF T, rank
    <2> QED
      BY <1>1, <2>1, RankInduction, Zenon
  <1> QED
    BY <1>2

\* SafeMath.ts: modInverse finds the inverse just when k and p have no common factor.
LEMMA ModInverseExact ==
    ASSUME NEW k \in Word, NEW p \in Word
    PROVE  IF ModInverse(k, p) = Throw
           THEN k = 0 \/ p <= 1 \/ \E d \in 2 .. p : k % d = 0 /\ p % d = 0
           ELSE ModInverse(k, p) \in 1 .. p - 1 /\ (ModInverse(k, p) * k) % p = 1
  <1>1. k \in Nat /\ p \in Nat /\ p < Modulus
    BY Words
  <1>2. CASE p \in {0, 1} \/ k = 0
    BY <1>1, <1>2 DEF ModInverse
  <1>3. CASE ~(p \in {0, 1} \/ k = 0)
    <2> DEFINE v == [oldR |-> k, r |-> p, oldS |-> [abs |-> 1, neg |-> FALSE],
                     s |-> [abs |-> 0, neg |-> FALSE]]
               end == EuclidLoop[v]
               g == end.gcd
               a == end.s.abs
               u == Value(end.s)
               least == Mod(a, p)
               inverse == ModInverse(k, p)
    <2>1. p >= 2 /\ k >= 1 /\ p \in Nat \ {0}
      BY <1>1, <1>3
    <2>2. inverse = IF g # 1 THEN Throw
                    ELSE IF end.s.neg /\ least # 0 THEN p - least ELSE least
      BY <1>3 DEF ModInverse
    <2>3. v \in EuclidState
      BY Words DEF EuclidState, Coefficient
    <2>4. EuclidInvariant(k, p, v)
      <3>1. Value(v.oldS) = 1 /\ Value(v.s) = 0 /\ v.oldS.abs = 1 /\ v.s.abs = 0
            /\ v.oldR = k /\ v.r = p
        BY DEF Value
      <3> HIDE DEF v
      <3>2. 1 * p + 0 * k = p /\ k = 1 * k + 0 * p /\ p = 0 * k + 1 * p
        BY <1>1
      <3>3. 0 \in Int /\ 1 \in Int
        OBVIOUS
      <3> QED
        BY <3>1, <3>2, <3>3 DEF EuclidInvariant
    <2> HIDE DEF v
    <2>5. /\ g \in Word /\ end.s \in Coefficient
          /\ \E m \in Int : g = u * k + m * p
          /\ \E c, d \in Int : k = c * g /\ p = d * g
      BY <2>3, <2>4, EuclidLoopExact
    <2>6. /\ g \in Nat /\ a \in Word /\ a \in Nat /\ u = (IF end.s.neg THEN -a ELSE a)
          /\ end.s.neg \in BOOLEAN
      BY <2>5, Words DEF Coefficient, Value
    <2>7. u \in Int
      BY <2>6
    <2> DEFINE negative == end.s.neg
    <2> HIDE DEF end, g, a, u, inverse, negative
    <2>8. CASE g # 1
      <3>1. PICK c \in Int, d \in Int : k = c * g /\ p = d * g
        BY <2>5
      <3>2. g # 0
        <4>1. ASSUME g = 0 PROVE FALSE
          <5>1. p = 0
            BY <3>1, <4>1
          <5> QED
            BY <2>1, <5>1
        <4> QED
          BY <4>1
      <3>3. d >= 1
        <4>1. ASSUME d <= 0 PROVE FALSE
          <5>1. d * g <= 0
            BY <2>6, <4>1
          <5> QED
            BY <2>1, <3>1, <5>1
        <4> QED
          BY <4>1
      <3>4. g <= p
        <4>1. d * g >= 1 * g
          BY <2>6, <3>3
        <4> QED
          BY <2>6, <3>1, <4>1
      <3>5. k % g = 0 /\ p % g = 0
        <4>1. /\ g \in Nat \ {0} /\ k \in Int /\ p \in Int /\ 0 \in Int /\ 0 <= 0 /\ 0 < g
              /\ k = g * c + 0 /\ p = g * d + 0
          BY <1>1, <2>6, <3>1, <3>2
        <4> QED
          BY <4>1, DivisionIs, Zenon
      <3>6. g \in 2 .. p
        BY <1>1, <2>6, <2>8, <3>2, <3>4
      <3> QED
        BY <2>2, <2>8, <3>5, <3>6 DEF inverse
    <2>9. CASE g = 1
      <3>1. least = a % p /\ least \in Nat /\ least < p
        <4>1. least = a % p /\ a % p \in Word /\ a % p < p
          BY <2>1, <2>6, RemainderExact
        <4> QED
          BY <4>1, Words
      <3>2. PICK e \in Int : a % p = a + p * e
        <4>1. a \in Int
          BY <2>6
        <4> QED
          BY <2>1, <4>1, RemainderIs, Zenon
      <3>3. PICK m \in Int : 1 = u * k + m * p
        BY <2>5, <2>9
      <3> HIDE DEF least
      <3>4. least = a + p * e
        BY <3>1, <3>2
      <3>5. least # 0
        <4>1. ASSUME least = 0 PROVE FALSE
          <5>1. a = p * (-e)
            BY <2>1, <2>6, <3>4, <4>1
          <5>2. \E f \in Int : u = p * f
            <6>1. p * e = -a /\ p * (-e) = a /\ -e \in Int
              BY <2>1, <2>6, <5>1
            <6>2. CASE negative
              BY <2>6, <6>1, <6>2 DEF negative
            <6>3. CASE ~negative
              BY <2>6, <6>1, <6>3 DEF negative
            <6> QED
              BY <6>2, <6>3
          <5>3. PICK f \in Int : u = p * f
            BY <5>2
          <5>4. f * k + m \in Int /\ (p * f) * k + m * p = p * (f * k + m)
            BY <1>1, <2>1, <3>3, <5>3
          <5> DEFINE h == f * k + m
          <5>5. h \in Int /\ 1 = p * h
            BY <3>3, <5>3, <5>4
          <5> HIDE DEF h
          <5>6. h >= 1
            <6>1. ASSUME h <= 0 PROVE FALSE
              <7>1. p * h <= 0
                BY <2>1, <5>5, <6>1
              <7> QED
                BY <5>5, <7>1
            <6> QED
              BY <5>5, <6>1
          <5>7. p * h >= p * 1
            BY <2>1, <5>5, <5>6
          <5> QED
            BY <2>1, <5>5, <5>7
        <4> QED
          BY <4>1
      <3>6. inverse = IF negative THEN p - least ELSE least
        BY <2>2, <2>9, <3>5 DEF inverse, least, negative
      <3>7. inverse \in Int /\ 1 <= inverse /\ inverse <= p - 1
        BY <2>1, <3>1, <3>5, <3>6
      <3>8. \E f \in Int : inverse = u + p * f
        <4>1. CASE negative
          <5>1. u = -a
            BY <2>6, <4>1 DEF negative
          <5>2. p * (1 - e) = p - p * e /\ 1 - e \in Int /\ p * e \in Int
            BY <2>1
          <5>3. inverse = u + p * (1 - e)
            BY <2>1, <2>6, <3>4, <3>6, <4>1, <5>1, <5>2
          <5> QED
            BY <5>2, <5>3
        <4>2. CASE ~negative
          <5>1. u = a
            BY <2>6, <4>2 DEF negative
          <5> QED
            BY <3>4, <3>6, <4>2, <5>1
        <4> QED
          BY <4>1, <4>2
      <3>9. PICK f \in Int : inverse = u + p * f
        BY <3>8
      <3>10. inverse * k = 1 + p * (f * k - m)
        <4>1. (u + p * f) * k = u * k + p * (f * k)
          BY <1>1, <2>7
        <4>2. p * (f * k - m) = p * (f * k) - m * p
          BY <1>1
        <4> DEFINE uk == u * k
                   pfk == p * (f * k)
                   mp == m * p
                   ik == inverse * k
                   last == p * (f * k - m)
        <4>3. uk \in Int /\ pfk \in Int /\ mp \in Int
          BY <1>1, <2>7
        <4>4. ik = uk + pfk /\ last = pfk - mp /\ 1 = uk + mp
          BY <3>3, <3>9, <4>1, <4>2
        <4> HIDE DEF uk, pfk, mp, ik, last
        <4>5. ik = 1 + last
          BY <4>3, <4>4
        <4> QED
          BY <4>5 DEF ik, last
      <3> DEFINE ik == inverse * k
                 h == f * k - m
      <3>11. ik \in Int /\ h \in Int /\ ik = p * h + 1 /\ 1 \in Int /\ 0 <= 1 /\ 1 < p
        <4>1. h \in Int /\ ik \in Int
          BY <1>1, <3>7
        <4>2. ik = 1 + p * h
          BY <3>10
        <4> HIDE DEF h, ik
        <4>3. p * h \in Int
          BY <2>1, <4>1
        <4> QED
          BY <2>1, <4>1, <4>2, <4>3
      <3> HIDE DEF ik, h
      <3>12. ik % p = 1
        BY <2>1, <3>11, DivisionIs
      <3>13. inverse # Throw /\ inverse \in 1 .. p - 1
        BY <1>1, <3>7, Words
      <3> QED
        BY <3>12, <3>13 DEF ik, inverse
    <2> QED
      BY <2>8, <2>9
  <1> QED
    BY <1>2, <1>3

-----------------------------------------------------------------------------
(* Shifts *)

\* One more digit of a remainder.
LEMMA OneMoreDigit ==
    ASSUME NEW x \in Nat, NEW e \in Nat \ {0}, NEW b \in Nat \ {0}
    PROVE  x % (e * b) = (x % e) + e * ((x \div e) % b)
  <1> DEFINE p == x \div e
             r == x % e
             q == p \div b
             t == p % b
  <1>1. p \in Nat /\ r \in Nat /\ r \in 0 .. e - 1 /\ x = e * p + r
    BY Division, Zenon
  <1> HIDE DEF p, r
  <1>2. q \in Nat /\ t \in Nat /\ t \in 0 .. b - 1 /\ p = b * q + t
    BY <1>1, Division, Zenon
  <1> HIDE DEF q, t
  <1> DEFINE m == e * b
             s == e * t + r
  <1>3. x = m * q + s
    <2>1. e * (b * q + t) = (e * b) * q + e * t
      BY <1>2
    <2> DEFINE u == (e * b) * q
               w == e * t
               y == e * p
    <2>2. u \in Nat /\ w \in Nat /\ x = y + r /\ y = u + w
      BY <1>1, <1>2, <2>1
    <2> HIDE DEF u, w, y
    <2>3. x = u + (w + r)
      BY <1>1, <2>2
    <2> QED
      BY <2>3 DEF u, w
  <1>4. m \in Nat \ {0} /\ s \in Int /\ 0 <= s /\ s < m
    <2>1. e * (t + 1) <= e * b
      <3>1. t + 1 <= b /\ t + 1 \in Nat
        BY <1>2
      <3> QED
        BY <3>1
    <2>2. e * (t + 1) = e * t + e
      BY <1>2
    <2>3. e * b \in Nat /\ e * b # 0
      BY <1>1
    <2>4. e * t \in Nat
      BY <1>2
    <2> QED
      BY <1>1, <2>1, <2>2, <2>3, <2>4
  <1> HIDE DEF m, s
  <1>5. x % m = s
    BY <1>2, <1>3, <1>4, DivisionIs
  <1> QED
    BY <1>5 DEF m, s, r, t, p

\* A common factor does not change a quotient.
LEMMA CommonFactor ==
    ASSUME NEW x \in Nat, NEW y \in Nat \ {0}, NEW k \in Nat \ {0}
    PROVE  (x * k) \div (y * k) = x \div y
  <1> DEFINE p == x \div y
             r == x % y
             m == y * k
             s == r * k
             z == x * k
  <1>1. p \in Nat /\ r \in Nat /\ r \in 0 .. y - 1 /\ x = y * p + r
    BY Division, Zenon
  <1> HIDE DEF p, r
  <1>2. z = m * p + s
    BY <1>1
  <1>3. m \in Nat \ {0} /\ s \in Int /\ 0 <= s /\ z \in Int
    BY <1>1
  <1>4. s < m
    <2>1. r + 1 <= y
      BY <1>1
    <2>2. (r + 1) * k <= y * k
      BY <1>1, <2>1
    <2>3. (r + 1) * k = r * k + k
      BY <1>1
    <2>4. r * k \in Nat /\ y * k \in Nat
      BY <1>1
    <2> QED
      BY <2>2, <2>3, <2>4
  <1> HIDE DEF m, s, z
  <1>5. z \div m = p
    BY <1>1, <1>2, <1>3, <1>4, DivisionIs
  <1> QED
    BY <1>5 DEF z, m, p

\* A segment of a product with c, where c and d make up the base b: the low bits of the
\* segment and the high bits of the one below.
DigitsJoin(v, e, c, d, b) ==
    ((v * c) \div (e * b)) % b
       = ((((v \div (e * b)) % b) * c) % b) + (((v \div e) % b) \div d)

\* It is so for every number.
LEMMA ShiftedDigit ==
    ASSUME NEW v \in Nat, NEW e \in Nat \ {0}, NEW c \in Nat \ {0}, NEW d \in Nat \ {0},
           NEW b \in Nat \ {0}, b = c * d
    PROVE  DigitsJoin(v, e, c, d, b)
  <1> DEFINE f == v \div e
             l == v % e
             g == f \div b
             t == f % b
             u == g \div b
             s == g % b
             y1 == t \div d
             y0 == t % d
             x1 == s \div d
             x0 == s % d
  <1>1. f \in Nat /\ l \in Nat /\ l \in 0 .. e - 1 /\ v = e * f + l
    BY Division, Zenon
  <1> HIDE DEF f, l
  <1>2. g \in Nat /\ t \in Nat /\ t \in 0 .. b - 1 /\ f = b * g + t
    BY <1>1, Division, Zenon
  <1> HIDE DEF g, t
  <1>3. u \in Nat /\ s \in Nat /\ s \in 0 .. b - 1 /\ g = b * u + s
    BY <1>2, Division, Zenon
  <1> HIDE DEF u, s
  <1>4. y1 \in Nat /\ y0 \in Nat /\ y0 \in 0 .. d - 1 /\ t = d * y1 + y0
    BY <1>2, Division, Zenon
  <1>5. x1 \in Nat /\ x0 \in Nat /\ x0 \in 0 .. d - 1 /\ s = d * x1 + x0
    BY <1>3, Division, Zenon
  <1> HIDE DEF y1, y0, x1, x0
  <1>6. y1 + 1 <= c
    <2>1. ASSUME c <= y1 PROVE FALSE
      <3>1. d * c <= d * y1
        BY <1>4, <2>1
      <3>2. c * d = d * c
        OBVIOUS
      <3> QED
        BY <1>2, <1>4, <3>1, <3>2
    <2> QED
      BY <1>4, <2>1
  <1>7. v \div (e * b) = g
    <2> DEFINE m == e * b
               r == e * t + l
    <2>1. m \in Nat \ {0}
      OBVIOUS
    <2>2. v = m * g + r
      <3>1. e * (b * g + t) = (e * b) * g + e * t
        BY <1>2
      <3> DEFINE a1 == e * f
                 a2 == (e * b) * g
                 a3 == e * t
      <3>2. a2 \in Nat /\ a3 \in Nat /\ v = a1 + l /\ a1 = a2 + a3
        BY <1>1, <1>2, <3>1
      <3> HIDE DEF a1, a2, a3
      <3>3. v = a2 + (a3 + l)
        BY <1>1, <3>2
      <3> QED
        BY <3>3 DEF a2, a3
    <2>3. r \in Int /\ 0 <= r /\ r < m
      <3>1. e * (t + 1) <= e * b
        <4>1. t + 1 <= b /\ t + 1 \in Nat
          BY <1>2
        <4> QED
          BY <4>1
      <3>2. e * (t + 1) = e * t + e /\ e * t \in Nat /\ e * b \in Nat
        BY <1>2
      <3> QED
        BY <1>1, <3>1, <3>2
    <2> HIDE DEF m, r
    <2>4. v \div m = g
      BY <1>2, <2>1, <2>2, <2>3, DivisionIs
    <2> QED
      BY <2>4 DEF m
  <1> DEFINE sc == s * c
             cx == c * x0
  <1>8. cx \in Nat /\ cx + c <= b
    <2>1. c * (x0 + 1) <= c * d
      <3>1. x0 + 1 <= d /\ x0 + 1 \in Nat
        BY <1>5
      <3> QED
        BY <3>1
    <2>2. c * (x0 + 1) = c * x0 + c
      BY <1>5
    <2> QED
      BY <1>5, <2>1, <2>2
  <1>9. sc = b * x1 + cx
    <2>1. (d * x1 + x0) * c = (c * d) * x1 + c * x0
      BY <1>5
    <2> QED
      BY <1>5, <2>1
  <1>10. sc % b = cx
    <2>1. sc \in Int /\ 0 <= cx /\ cx < b
      BY <1>3, <1>8
    <2> HIDE DEF sc, cx
    <2> QED
      BY <1>5, <1>8, <1>9, <2>1, DivisionIs
  <1> DEFINE m == e * b
             h == g * c + y1
             r == c * (y0 * e + l)
             vc == v * c
  <1>11. vc = m * h + r
    <2>1. v = e * (b * g + (d * y1 + y0)) + l
      BY <1>1, <1>2, <1>4
    <2>2. (e * (b * g + (d * y1 + y0)) + l) * c
            = (e * b) * (g * c) + (e * (c * d)) * y1 + c * (y0 * e + l)
      BY <1>1, <1>2, <1>4
    <2>3. (e * b) * (g * c + y1) = (e * b) * (g * c) + (e * b) * y1
      BY <1>2, <1>4
    <2> DEFINE a1 == (e * b) * (g * c)
               a2 == (e * b) * y1
               a3 == (e * b) * (g * c + y1)
    <2>4. a1 \in Nat /\ a2 \in Nat /\ r \in Nat /\ vc = a1 + a2 + r /\ a3 = a1 + a2
      BY <1>1, <1>2, <1>4, <2>1, <2>2, <2>3
    <2> HIDE DEF a1, a2, r, vc
    <2>5. vc = a3 + r
      BY <2>4
    <2> QED
      BY <2>5
  <1>12. r \in Int /\ 0 <= r /\ r < m /\ m \in Nat \ {0} /\ h \in Nat /\ vc \in Int
    <2> DEFINE z == y0 * e + l
    <2>1. z \in Nat /\ z + 1 <= d * e
      <3>1. (y0 + 1) * e <= d * e
        <4>1. y0 + 1 <= d /\ y0 + 1 \in Nat
          BY <1>4
        <4> QED
          BY <4>1
      <3>2. (y0 + 1) * e = y0 * e + e /\ y0 * e \in Nat /\ d * e \in Nat
        BY <1>4
      <3> QED
        BY <1>1, <3>1, <3>2
    <2>2. e * (c * d) = c * (d * e)
      OBVIOUS
    <2> DEFINE de == d * e
    <2>3. de \in Nat /\ m = c * de
      BY <2>2
    <2>4. h \in Nat /\ vc \in Int /\ m \in Nat \ {0}
      BY <1>2, <1>4
    <2> HIDE DEF z, de, m, h, vc
    <2>5. z + 1 <= de
      BY <2>1 DEF de
    <2>6. c * (z + 1) <= c * de /\ c * (z + 1) = c * z + c /\ c * z \in Nat
      BY <2>1, <2>3, <2>5
    <2>7. r = c * z
      BY DEF z
    <2> HIDE DEF r
    <2> QED
      BY <2>3, <2>4, <2>6, <2>7
  <1> HIDE DEF sc, cx, m, h, r, vc
  <1>13. vc \div m = h
    BY <1>11, <1>12, DivisionIs
  <1>14. h % b = cx + y1
    <2> DEFINE n == u * c + x1
               o == cx + y1
    <2>1. h = b * n + o
      <3>1. (b * u + s) * c = b * (u * c) + s * c
        BY <1>3
      <3>2. b * (u * c + x1) = b * (u * c) + b * x1
        BY <1>3, <1>5
      <3> DEFINE a1 == b * (u * c)
                 a2 == b * x1
                 a3 == g * c
                 a4 == b * (u * c + x1)
      <3>3. a1 \in Nat /\ a2 \in Nat /\ a3 = a1 + sc /\ h = a3 + y1 /\ a4 = a1 + a2
        BY <1>3, <1>5, <3>1, <3>2 DEF h, sc
      <3>4. sc = a2 + cx
        BY <1>9
      <3> HIDE DEF a1, a2, a3, a4
      <3>5. h = a4 + (cx + y1)
        BY <1>4, <1>8, <3>3, <3>4
      <3> QED
        BY <3>5 DEF a4
    <2>2. n \in Int /\ o \in Int /\ 0 <= o /\ o < b
      BY <1>3, <1>4, <1>5, <1>6, <1>8
    <2> HIDE DEF n, o
    <2>3. h % b = o
      <3>1. h \in Int
        BY <1>12
      <3> QED
        BY <2>1, <2>2, <3>1, DivisionIs, Zenon
    <2> QED
      BY <2>3 DEF o
  <1>15. (vc \div m) % b = (sc % b) + y1
    BY <1>10, <1>13, <1>14
  <1> QED
    BY <1>7, <1>15 DEF DigitsJoin, vc, m, sc, s, y1, t, f

\* The weight of a segment.
Weight(j) == TwoTo[SegmentBits * j]

\* Weights are powers of the first.
LEMMA Weights ==
    /\ Weight(0) = 1 /\ \A j \in Nat : Weight(j) \in Nat \ {0}
    /\ TwoTo[SegmentBits] \in Nat \ {0}
    /\ \A j \in Nat : Weight(j + 1) = Weight(j) * TwoTo[SegmentBits]
    /\ \A i, j \in Nat : Weight(i + j) = Weight(i) * Weight(j)
  <1>1. SegmentBits \in Nat
    BY Words
  <1>2. Weight(0) = 1
    <2>1. SegmentBits * 0 = 0
      BY <1>1
    <2> QED
      BY <2>1, TwoToFacts DEF Weight
  <1>3. ASSUME NEW j \in Nat PROVE Weight(j) \in Nat \ {0}
    <2>1. SegmentBits * j \in Nat
      BY <1>1
    <2> QED
      BY <2>1, TwoToFacts DEF Weight
  <1>4. ASSUME NEW i \in Nat, NEW j \in Nat PROVE Weight(i + j) = Weight(i) * Weight(j)
    <2> DEFINE m == SegmentBits * i
               n == SegmentBits * j
    <2>1. m \in Nat /\ n \in Nat
      BY <1>1
    <2>2. SegmentBits * (i + j) = m + n
      BY <1>1
    <2> HIDE DEF m, n
    <2>3. TwoTo[m + n] = TwoTo[m] * TwoTo[n]
      BY <2>1, TwoToFacts
    <2>4. Weight(i + j) = TwoTo[m + n]
      BY <2>2, Zenon DEF Weight
    <2> QED
      BY <2>3, <2>4 DEF Weight, m, n
  <1>5. Weight(1) = TwoTo[SegmentBits]
    <2>1. SegmentBits * 1 = SegmentBits
      BY <1>1
    <2> QED
      BY <2>1 DEF Weight
  <1>6. ASSUME NEW j \in Nat PROVE Weight(j + 1) = Weight(j) * TwoTo[SegmentBits]
    <2>1. 1 \in Nat
      OBVIOUS
    <2>2. Weight(j + 1) = Weight(j) * Weight(1)
      BY <1>4, <2>1, Zenon
    <2> QED
      BY <1>5, <2>2
  <1> QED
    BY <1>1, <1>2, <1>3, <1>4, <1>6, TwoToFacts

\* What a shift puts into segment j.
JoinedSegment(value, shift, j) ==
    ((Segment(value, j - (shift \div SegmentBits)) * TwoTo[shift % SegmentBits])
        % TwoTo[SegmentBits])
    + (IF shift % SegmentBits = 0 THEN 0
       ELSE Segment(value, j - (shift \div SegmentBits) - 1)
               \div TwoTo[SegmentBits - (shift % SegmentBits)])

\* It is segment j of the product with the power of two.
LEMMA JoinedSegmentExact ==
    ASSUME NEW v \in Nat, NEW shift \in Nat, NEW j \in Nat
    PROVE  JoinedSegment(v, shift, j) = ((v * TwoTo[shift]) \div Weight(j)) % TwoTo[SegmentBits]
  <1> DEFINE q == shift \div SegmentBits
             t == shift % SegmentBits
             c == TwoTo[t]
             d == TwoTo[SegmentBits - t]
             b == TwoTo[SegmentBits]
             w == Weight(q)
             x == v * TwoTo[shift]
             hi == (Segment(v, j - q) * c) % b
             lo == IF t = 0 THEN 0 ELSE Segment(v, j - q - 1) \div d
  <1>1. SegmentBits \in Nat \ {0} /\ b \in Nat \ {0}
    BY Words, Weights
  <1>2. q \in Nat /\ t \in Nat /\ t \in 0 .. SegmentBits - 1 /\ shift = SegmentBits * q + t
    BY <1>1, Division, Zenon
  <1>3. JoinedSegment(v, shift, j) = hi + lo
    BY DEF JoinedSegment
  <1> HIDE DEF q, t
  <1>4. SegmentBits - t \in Nat /\ t + (SegmentBits - t) = SegmentBits
    BY <1>1, <1>2
  <1>5. c \in Nat \ {0} /\ d \in Nat \ {0} /\ b = c * d /\ w \in Nat \ {0}
    <2>1. TwoTo[t + (SegmentBits - t)] = TwoTo[t] * TwoTo[SegmentBits - t]
      BY <1>2, <1>4, TwoToFacts, Zenon
    <2>2. c \in Nat \ {0} /\ d \in Nat \ {0}
      BY <1>2, <1>4, TwoToFacts
    <2>3. w \in Nat \ {0}
      BY <1>2, Weights
    <2> QED
      BY <1>4, <2>1, <2>2, <2>3
  <1>6. TwoTo[shift] = w * c
    <2> DEFINE m == SegmentBits * q
    <2>1. m \in Nat /\ shift = m + t
      BY <1>1, <1>2
    <2> HIDE DEF m
    <2>2. TwoTo[m + t] = TwoTo[m] * TwoTo[t]
      BY <1>2, <2>1, TwoToFacts
    <2> QED
      BY <2>1, <2>2 DEF Weight, m
  <1>7. x = (v * c) * w
    BY <1>5, <1>6
  <1>8. \A i \in Int : i < 0 => Segment(v, i) = 0
    BY DEF Segment
  <1>9. \A i \in Nat : Segment(v, i) = (v \div Weight(i)) % b
    BY DEF Segment, Weight
  <1> DEFINE vc == v * c
  <1>10. vc \in Nat
    BY <1>5
  <1> HIDE DEF c, d, b, w
  <1>11. CASE j < q
    <2>1. j - q \in Int /\ j - q < 0 /\ j - q - 1 \in Int /\ j - q - 1 < 0
      BY <1>2, <1>11
    <2>2. Segment(v, j - q) = 0 /\ Segment(v, j - q - 1) = 0
      BY <1>8, <2>1
    <2>3. hi = 0
      <3>1. 0 * c = 0
        BY <1>5
      <3>2. 0 % b = 0
        BY <1>1, OneTurn
      <3> QED
        BY <2>2, <3>1, <3>2
    <2>4. lo = 0
      <3>1. 0 \div d = 0
        <4>1. 0 = d * 0 + 0 /\ 0 \in Int /\ 0 <= 0 /\ 0 < d
          BY <1>5
        <4> QED
          BY <1>5, <4>1, DivisionIs, Zenon
      <3> QED
        BY <2>2, <3>1
    <2> DEFINE k == q - (j + 1)
               e == Weight(j)
               wk == Weight(k)
    <2>5. k \in Nat /\ (j + 1) + k = q /\ j + 1 \in Nat
      BY <1>2, <1>11
    <2>6. e \in Nat \ {0} /\ wk \in Nat \ {0} /\ w = (e * b) * wk
      <3>1. Weight((j + 1) + k) = Weight(j + 1) * Weight(k) /\ Weight(j + 1) = Weight(j) * b
        BY <2>5, Weights, Zenon DEF b
      <3>2. e \in Nat \ {0} /\ wk \in Nat \ {0}
        BY <2>5, Weights
      <3>3. Weight((j + 1) + k) = w
        BY <2>5, Zenon DEF w
      <3> QED
        BY <3>1, <3>2, <3>3
    <2> HIDE DEF k, e, wk, vc, x
    <2>7. x = e * (b * (vc * wk)) + 0
      <3>1. vc * ((e * b) * wk) = e * (b * (vc * wk))
        BY <1>1, <1>10, <2>6
      <3>2. x = vc * ((e * b) * wk)
        BY <1>7, <2>6 DEF vc
      <3>3. e * (b * (vc * wk)) \in Int
        BY <1>1, <1>10, <2>6
      <3> QED
        BY <3>1, <3>2, <3>3
    <2> DEFINE y == vc * wk
               z == b * y
    <2>8. z \in Int /\ y \in Int /\ z = b * y + 0 /\ x = e * z + 0 /\ 0 \in Int /\ 0 <= 0
          /\ x \in Int /\ 0 < e /\ 0 < b
      <3>1. y \in Int
        BY <1>10, <2>6
      <3>2. b * y \in Int
        BY <1>1, <3>1
      <3>3. e * z \in Int
        BY <2>6, <3>2
      <3> HIDE DEF y
      <3>4. z = b * y + 0
        BY <3>2
      <3>5. x = e * z + 0
        BY <2>7 DEF y
      <3>6. x \in Int
        BY <3>3, <3>5
      <3> QED
        BY <1>1, <2>6, <3>1, <3>2, <3>4, <3>5, <3>6
    <2> HIDE DEF y, z
    <2>9. x \div e = z
      BY <2>6, <2>8, DivisionIs, Zenon
    <2>10. z % b = 0
      BY <1>1, <2>8, DivisionIs, Zenon
    <2> QED
      BY <1>3, <2>3, <2>4, <2>9, <2>10 DEF e, x, b
  <1>12. CASE j = q
    <2>1. j - q = 0 /\ j - q - 1 \in Int /\ j - q - 1 < 0
      BY <1>2, <1>12
    <2>2. lo = 0
      <3>1. Segment(v, j - q - 1) = 0
        BY <1>8, <2>1
      <3>2. 0 \div d = 0
        <4>1. 0 = d * 0 + 0 /\ 0 \in Int /\ 0 <= 0 /\ 0 < d
          BY <1>5
        <4> QED
          BY <1>5, <4>1, DivisionIs, Zenon
      <3> QED
        BY <3>1, <3>2
    <2>3. Segment(v, j - q) = v % b
      <3>1. v \div 1 = v
        OBVIOUS
      <3>2. Segment(v, 0) = (v \div 1) % b
        BY <1>9, Weights
      <3> QED
        BY <2>1, <3>1, <3>2
    <2>4. hi = vc % b
      <3>1. v \in Int /\ c \in Int
        BY <1>5
      <3>2. ((v % b) * c) % b = (v * c) % b
        BY <1>1, <3>1, RemainderOfProduct, Zenon
      <3> QED
        BY <2>3, <3>2
    <2> HIDE DEF vc, x
    <2>5. x \div w = vc
      <3>1. x = w * vc + 0 /\ 0 \in Int /\ 0 <= 0 /\ 0 < w /\ x \in Int /\ vc \in Int
        <4>1. w * vc \in Int /\ vc * w = w * vc
          BY <1>5, <1>10
        <4>2. x = vc * w
          BY <1>7 DEF vc
        <4> QED
          BY <1>5, <1>10, <4>1, <4>2
      <3> QED
        BY <1>5, <3>1, DivisionIs, Zenon
    <2>6. hi \in Int
      BY <1>1, <1>10, <2>4, Division
    <2>7. hi + lo = vc % b
      BY <2>2, <2>4, <2>6
    <2> QED
      BY <1>3, <1>12, <2>5, <2>7 DEF w, x, b
  <1>13. CASE j > q
    <2> DEFINE i == j - q - 1
               e == Weight(i)
               eb == e * b
    <2>1. i \in Nat /\ j - q = i + 1 /\ i + 1 \in Nat /\ (i + 1) + q = j
      BY <1>2, <1>13
    <2>2. e \in Nat \ {0} /\ Weight(i + 1) = eb /\ eb \in Nat \ {0}
      <3>1. e \in Nat \ {0} /\ Weight(i + 1) = eb
        BY <2>1, Weights DEF b
      <3>2. eb \in Nat \ {0}
        BY <1>1, <3>1
      <3> QED
        BY <3>1, <3>2
    <2>3. Weight(j) = eb * w
      <3>1. Weight((i + 1) + q) = Weight(i + 1) * Weight(q)
        BY <1>2, <2>1, Weights, Zenon
      <3>2. Weight((i + 1) + q) = Weight(j)
        BY <2>1, Zenon
      <3> QED
        BY <2>2, <3>1, <3>2 DEF w
    <2>4. Segment(v, j - q) = (v \div eb) % b
      <3>1. Segment(v, i + 1) = (v \div Weight(i + 1)) % b
        BY <1>9, <2>1
      <3> QED
        BY <2>1, <2>2, <3>1
    <2>5. Segment(v, i) = (v \div e) % b
      BY <1>9, <2>1
    <2>6. j - q - 1 = i
      OBVIOUS
    <2> HIDE DEF e, i
    <2>7. (vc \div eb) % b = ((((v \div eb) % b) * c) % b) + (((v \div e) % b) \div d)
      <3>1. ((v * c) \div (e * b)) % b
               = ((((v \div (e * b)) % b) * c) % b) + (((v \div e) % b) \div d)
        <4>1. DigitsJoin(v, e, c, d, b)
          BY <1>1, <1>5, <2>2, ShiftedDigit, Zenon
        <4> QED
          BY <4>1 DEF DigitsJoin
      <3> QED
        BY <3>1
    <2>8. hi = (((v \div eb) % b) * c) % b
      BY <2>4
    <2>9. lo = ((v \div e) % b) \div d
      <3>1. CASE t # 0
        BY <2>5, <2>6, <3>1
      <3>2. CASE t = 0
        <4>1. c = 1
          BY <3>2, TwoToFacts DEF c
        <4>2. d = b
          BY <1>1, <1>5, <4>1
        <4> DEFINE y == (v \div e) % b
        <4>3. y \in Nat /\ y < b
          <5>1. v \div e \in Nat
            BY <2>2, Division
          <5>2. y \in 0 .. b - 1 /\ y \in Nat
            BY <1>1, <5>1, Division, Zenon
          <5> HIDE DEF y
          <5> QED
            BY <1>1, <5>2
        <4> HIDE DEF y
        <4>4. y \div b = 0
          <5>1. y = b * 0 + y /\ 0 <= y /\ 0 \in Int /\ y \in Int
            BY <1>1, <4>3
          <5> QED
            BY <1>1, <4>3, <5>1, DivisionIs, Zenon
        <4> QED
          BY <3>2, <4>2, <4>4 DEF y
      <3> QED
        BY <3>1, <3>2
    <2>10. x \div Weight(j) = vc \div eb
      <3> HIDE DEF vc, eb
      <3>1. (vc * w) \div (eb * w) = vc \div eb
        BY <1>5, <1>10, <2>2, CommonFactor
      <3>2. x = vc * w
        BY <1>7 DEF vc
      <3> QED
        BY <2>3, <3>1, <3>2
    <2> HIDE DEF hi, lo, vc, eb, x
    <2> QED
      BY <1>3, <2>7, <2>8, <2>9, <2>10 DEF x, b
  <1> QED
    BY <1>2, <1>11, <1>12, <1>13

\* A shift of n segments is the product with the power of two, as far as n segments hold it.
LEMMA ShlSegmentsExact ==
    ASSUME NEW n \in Nat \ {0}, NEW v \in Nat, NEW shift \in Int
    PROVE  ShlSegments(n, v, shift) = IF shift = 0 THEN v
                                      ELSE IF shift < 0 THEN 0
                                      ELSE (v * TwoTo[shift]) % Weight(n)
  <1> DEFINE r(j) == JoinedSegment(v, shift, j)
             upTo == CHOOSE f : f = [j \in Nat |->
                        r(j) * Weight(j) + (IF j = 0 THEN 0 ELSE f[j - 1])]
             join == [j \in Nat |-> [u \in Nat |-> r(j) * Weight(j) + u]]
             x == v * TwoTo[shift]
             b == TwoTo[SegmentBits]
             P == {j \in Nat : upTo[j] = x % Weight(j + 1)}
  <1>1. SegmentBits \in Nat \ {0}
    BY Words
  <1>2. ShlSegments(n, v, shift) = IF shift = 0 THEN v
                                   ELSE IF shift < 0 \/ shift >= n * SegmentBits THEN 0
                                   ELSE upTo[n - 1]
    BY DEF ShlSegments, JoinedSegment, Weight
  <1>3. CASE shift <= 0
    BY <1>2, <1>3
  <1>4. CASE shift > 0
    <2>1. shift \in Nat /\ TwoTo[shift] \in Nat \ {0}
      BY <1>4, TwoToFacts
    <2>2. x \in Nat /\ b \in Nat \ {0}
      <3>1. b \in Nat \ {0}
        BY Weights
      <3>2. x \in Nat
        BY <2>1
      <3> QED
        BY <3>1, <3>2
    <2>3. \A j \in Nat : /\ Weight(j) \in Nat \ {0} /\ Weight(j + 1) = Weight(j) * b
                         /\ r(j) = (x \div Weight(j)) % b /\ r(j) \in Nat
      <3>1. ASSUME NEW j \in Nat
            PROVE  r(j) = (x \div Weight(j)) % b /\ r(j) \in Nat
        <4>1. r(j) = (x \div Weight(j)) % b
          BY <2>1, JoinedSegmentExact
        <4> HIDE DEF x, b, r
        <4>2. x \div Weight(j) \in Nat
          BY <2>2, Weights, Division
        <4>3. (x \div Weight(j)) % b \in Nat
          BY <2>2, <4>2, Division, Zenon
        <4> QED
          BY <4>1, <4>3
      <3> QED
        BY <3>1, Weights
    <2> HIDE DEF x, b, r
    <2>4. CASE shift >= n * SegmentBits
      <3> DEFINE k == shift - n * SegmentBits
                 w == Weight(n)
                 t == TwoTo[k]
      <3>1. k \in Nat /\ n * SegmentBits \in Nat /\ n * SegmentBits + k = shift
            /\ SegmentBits * n = n * SegmentBits
        BY <1>1, <2>1, <2>4
      <3>2. TwoTo[n * SegmentBits + k] = TwoTo[n * SegmentBits] * TwoTo[k]
        <4> HIDE DEF k
        <4>1. n * SegmentBits \in Nat /\ k \in Nat
          BY <3>1
        <4> DEFINE m == n * SegmentBits
        <4> HIDE DEF m
        <4>2. TwoTo[m + k] = TwoTo[m] * TwoTo[k]
          BY <4>1, TwoToFacts DEF m
        <4> QED
          BY <4>2 DEF m
      <3>3. TwoTo[shift] = w * t
        <4>1. w = TwoTo[n * SegmentBits]
          BY <3>1 DEF Weight
        <4>2. TwoTo[n * SegmentBits + k] = TwoTo[shift]
          BY <3>1, Zenon
        <4> QED
          BY <3>2, <4>1, <4>2
      <3>4. w \in Nat \ {0} /\ t \in Nat
        BY <2>3, <3>1, TwoToFacts
      <3> HIDE DEF w, t, k
      <3>5. x = w * (v * t) + 0 /\ x \in Int /\ v * t \in Int
        <4>1. v * (w * t) = w * (v * t) /\ v * t \in Int /\ w * (v * t) \in Int
          BY <3>4
        <4>2. x = v * (w * t)
          BY <3>3 DEF x
        <4> QED
          BY <4>1, <4>2
      <3>6. x % w = 0
        <4> DEFINE y == v * t
        <4> HIDE DEF y
        <4>1. x = w * y + 0 /\ x \in Int /\ y \in Int /\ 0 \in Int /\ 0 <= 0 /\ 0 < w
          BY <3>4, <3>5 DEF y
        <4> QED
          BY <3>4, <4>1, DivisionIs, Zenon
      <3> QED
        BY <1>2, <1>4, <2>4, <3>6 DEF w, x
    <2>5. CASE ~(shift >= n * SegmentBits)
      <3>1. join \in [Nat -> [Nat -> Nat]]
        <4>1. ASSUME NEW j \in Nat, NEW u \in Nat PROVE r(j) * Weight(j) + u \in Nat
          <5>1. r(j) \in Nat /\ Weight(j) \in Nat
            BY <2>3
          <5> QED
            BY <5>1
        <4> QED
          BY <4>1
      <3>2. ASSUME NEW f \in [Nat -> Nat], NEW j \in Nat, j # 0
            PROVE  join[j][f[j - 1]] = r(j) * Weight(j) + f[j - 1]
        <4>1. j - 1 \in Nat
          BY <3>2
        <4>2. f[j - 1] \in Nat /\ \A u \in Nat : join[j][u] = r(j) * Weight(j) + u
          BY <4>1
        <4> HIDE DEF join
        <4> QED
          BY <4>2
      <3> HIDE DEF join
      <3> DEFINE first == r(0) * Weight(0)
      <3>3. first \in Nat
        <4>1. r(0) \in Nat /\ Weight(0) \in Nat
          BY <2>3
        <4> QED
          BY <4>1
      <3> HIDE DEF first
      <3>4. PICK f \in [Nat -> Nat] : FollowsNat(f, first, join)
        BY <3>1, <3>3, NatRecursion, Zenon
      <3>5. f = [j \in Nat |-> r(j) * Weight(j) + (IF j = 0 THEN 0 ELSE f[j - 1])]
        <4>1. ASSUME NEW j \in Nat
              PROVE  f[j] = r(j) * Weight(j) + (IF j = 0 THEN 0 ELSE f[j - 1])
          <5>1. CASE j = 0
            <6>1. f[j] = first /\ first = r(j) * Weight(j)
              BY <3>4, <5>1 DEF FollowsNat, first
            <6>2. first + 0 = first
              BY <3>3
            <6> QED
              BY <5>1, <6>1, <6>2
          <5>2. CASE j # 0
            BY <3>2, <3>4, <5>2 DEF FollowsNat
          <5> QED
            BY <5>1, <5>2
        <4> QED
          BY <4>1
      <3>6. upTo = [j \in Nat |-> r(j) * Weight(j) + (IF j = 0 THEN 0 ELSE upTo[j - 1])]
        BY <3>5
      <3> HIDE DEF upTo
      <3>7. P \in SUBSET Nat /\ 0 \in P
        <4>1. upTo[0] = r(0) * Weight(0) + 0 /\ Weight(0) = 1
          BY <3>6, Weights
        <4>2. r(0) = (x \div 1) % b /\ r(0) \in Nat
          BY <2>3, <4>1
        <4>3. x \div 1 = x
          BY <2>2
        <4>4. Weight(0 + 1) = b
          <5>1. 1 * b = b
            BY <2>2
          <5>2. Weight(0 + 1) = Weight(0) * b
            BY Weights, Zenon DEF b
          <5> QED
            BY <4>1, <5>1, <5>2
        <4>5. upTo[0] = r(0)
          BY <4>1, <4>2
        <4>6. upTo[0] = x % Weight(0 + 1)
          BY <4>2, <4>3, <4>4, <4>5
        <4> QED
          BY <4>6
      <3>8. ASSUME NEW j \in P PROVE j + 1 \in P
        <4> DEFINE w == Weight(j + 1)
        <4>1. /\ j \in Nat /\ j + 1 \in Nat /\ j + 1 # 0 /\ j + 1 - 1 = j
              /\ upTo[j] = x % w
          OBVIOUS
        <4>2. upTo[j + 1] = r(j + 1) * w + upTo[j]
          BY <3>6, <4>1
        <4>3. w \in Nat \ {0} /\ Weight((j + 1) + 1) = w * b /\ r(j + 1) = (x \div w) % b
              /\ r(j + 1) \in Nat
          <5> DEFINE i == j + 1
          <5>1. i \in Nat
            BY <4>1
          <5> HIDE DEF i
          <5>2. /\ Weight(i) \in Nat \ {0} /\ Weight(i + 1) = Weight(i) * b
                /\ r(i) = (x \div Weight(i)) % b /\ r(i) \in Nat
            BY <2>3, <5>1
          <5> QED
            BY <5>2 DEF i
        <4> HIDE DEF w
        <4>4. x % (w * b) = (x % w) + w * ((x \div w) % b)
          BY <2>2, <4>3, OneMoreDigit, Zenon
        <4>5. x % w \in Nat
          BY <2>2, <4>3, Division
        <4> DEFINE y == r(j + 1)
        <4>6. y * w + (x % w) = (x % w) + w * y
          <5>1. y \in Nat
            BY <4>3
          <5> HIDE DEF y
          <5>2. y * w = w * y /\ y * w \in Nat
            BY <4>3, <5>1
          <5> QED
            BY <4>5, <5>2
        <4>7. upTo[j + 1] = x % Weight((j + 1) + 1)
          BY <4>1, <4>2, <4>3, <4>4, <4>6
        <4> QED
          BY <4>1, <4>7
      <3>9. \A j \in Nat : j \in P
        <4> HIDE DEF P
        <4> QED
          BY <3>7, <3>8, SetInduction, Zenon
      <3>10. n - 1 \in Nat /\ n - 1 + 1 = n
        OBVIOUS
      <3>11. upTo[n - 1] = x % Weight(n - 1 + 1)
        BY <3>9, <3>10
      <3> QED
        BY <1>2, <1>4, <2>5, <3>10, <3>11 DEF x
    <2> QED
      BY <2>4, <2>5
  <1> QED
    BY <1>3, <1>4

\* SafeMath.ts, SafeMathI128.ts: a shift to the left is exact in its four or two segments.
LEMMA ShiftsAreExact ==
    ASSUME NEW a \in Word
    PROVE  ShiftsExact(a)
  <1>1. a \in Nat /\ a < Modulus /\ SegmentBits \in Nat \ {0} /\ Bits \in Nat
        /\ Modulus \in Nat \ {0}
    BY Words
  <1>2. Weight(4) = Modulus /\ Weight(2) = TwoTo[2 * SegmentBits]
    <2>1. SegmentBits * 4 = Bits /\ SegmentBits * 2 = 2 * SegmentBits
      BY <1>1 DEF Bits
    <2> QED
      BY <2>1 DEF Weight, Modulus
  <1>3. TwoTo[0] = 1 /\ a * 1 = a
    BY <1>1, TwoToFacts
  <1>4. ASSUME NEW shift \in -1 .. Bits + 1
        PROVE  Shl(a, shift) = IF shift < 0 THEN 0 ELSE Wrap(a * TwoTo[shift])
    <2>1. shift \in Int
      BY <1>1
    <2>2. Shl(a, shift) = IF shift = 0 THEN a ELSE IF shift < 0 THEN 0
                          ELSE (a * TwoTo[shift]) % Weight(4)
      BY <1>1, <2>1, ShlSegmentsExact DEF Shl
    <2>3. Wrap(a) = a
      BY <1>1, Wrapping
    <2> QED
      BY <1>2, <1>3, <2>1, <2>2, <2>3 DEF Wrap
  <1>5. ASSUME a < TwoTo[2 * SegmentBits], NEW shift \in 0 .. Bits
        PROVE  Shl128(a, shift) = (a * TwoTo[shift]) % TwoTo[2 * SegmentBits]
    <2> DEFINE w == TwoTo[2 * SegmentBits]
    <2>1. shift \in Int /\ shift >= 0
      BY <1>1
    <2>2. Shl128(a, shift) = IF shift = 0 THEN a ELSE IF shift < 0 THEN 0
                             ELSE (a * TwoTo[shift]) % Weight(2)
      BY <1>1, <2>1, ShlSegmentsExact DEF Shl128
    <2>3. w \in Nat \ {0} /\ a < w
      <3>1. 2 * SegmentBits \in Nat
        BY <1>1
      <3> QED
        BY <1>5, <3>1, TwoToFacts
    <2>4. a % w = a
      <3> HIDE DEF w
      <3>1. a = w * 0 + a /\ 0 <= a /\ a \in Int /\ 0 \in Int
        BY <1>1, <2>3
      <3> QED
        BY <2>3, <3>1, DivisionIs, Zenon
    <2>5. CASE shift = 0
      BY <1>3, <2>2, <2>4, <2>5
    <2>6. CASE shift # 0
      BY <1>2, <2>1, <2>2, <2>6
    <2> QED
      BY <2>5, <2>6
  <1> QED
    BY <1>4, <1>5 DEF ShiftsExact

-----------------------------------------------------------------------------
(* Lengths in bits *)

\* A positive number lies between two powers of two that follow each other.
LEMMA LengthExists ==
    ASSUME NEW s \in Nat \ {0}
    PROVE  \A n \in Nat : s < TwoTo[n] => \E m \in 1 .. n : TwoTo[m - 1] <= s /\ s < TwoTo[m]
  <1> DEFINE P == {n \in Nat : s < TwoTo[n] =>
                      \E m \in 1 .. n : TwoTo[m - 1] <= s /\ s < TwoTo[m]}
  <1>1. P \in SUBSET Nat /\ 0 \in P
    <2>1. ~(s < TwoTo[0])
      BY TwoToFacts
    <2> QED
      BY <2>1
  <1>2. ASSUME NEW n \in P PROVE n + 1 \in P
    <2>1. n \in Nat /\ n + 1 \in Nat /\ n + 1 - 1 = n /\ n + 1 \in 1 .. n + 1
      OBVIOUS
    <2>2. TwoTo[n] \in Nat
      BY <2>1, TwoToFacts
    <2>3. ASSUME s < TwoTo[n + 1]
          PROVE  \E m \in 1 .. n + 1 : TwoTo[m - 1] <= s /\ s < TwoTo[m]
      <3>1. CASE s < TwoTo[n]
        <4>1. PICK m \in 1 .. n : TwoTo[m - 1] <= s /\ s < TwoTo[m]
          BY <3>1
        <4>2. m \in 1 .. n + 1
          BY <2>1, <4>1
        <4> QED
          BY <4>1, <4>2
      <3>2. CASE TwoTo[n] <= s
        BY <2>1, <2>3, <3>2
      <3> QED
        BY <2>2, <3>1, <3>2
    <2> QED
      BY <2>1, <2>3
  <1>3. \A n \in Nat : n \in P
    <2> HIDE DEF P
    <2> QED
      BY <1>1, <1>2, SetInduction, Zenon
  <1> QED
    BY <1>3

\* A word is its highest segment that is not zero, and what is below it.
LEMMA TopSegment ==
    ASSUME NEW a \in Word \ {0}
    PROVE  /\ \E j \in 0 .. 3 :
                 Segment(a, j) # 0 /\ \A i \in 0 .. 3 : i > j => Segment(a, i) = 0
           /\ \A j \in 0 .. 3 : (\A i \in 0 .. 3 : i > j => Segment(a, i) = 0) =>
                 /\ a = (a % Weight(j)) + Weight(j) * Segment(a, j)
                 /\ a % Weight(j) \in Nat /\ a % Weight(j) < Weight(j)
                 /\ Segment(a, j) \in Nat /\ Segment(a, j) < TwoTo[SegmentBits]
  <1> DEFINE b == TwoTo[SegmentBits]
             s(j) == Segment(a, j)
             low(j) == a % Weight(j)
  <1>1. /\ a \in Nat /\ a # 0 /\ a < Modulus /\ Modulus \in Nat \ {0}
        /\ SegmentBits \in Nat \ {0} /\ b \in Nat \ {0}
    BY Words, Weights
  <1>2. ASSUME NEW j \in Nat
        PROVE  /\ Weight(j) \in Nat \ {0} /\ low(j) \in Nat /\ low(j) < Weight(j)
               /\ s(j) \in Nat /\ s(j) < b
               /\ low(j + 1) = low(j) + Weight(j) * s(j)
    <2> DEFINE w == Weight(j)
    <2>1. w \in Nat \ {0} /\ Weight(j + 1) = w * b
      BY Weights
    <2>2. s(j) = (a \div w) % b
      BY DEF Segment, Weight
    <2> HIDE DEF w, b, s
    <2>3. a % w \in 0 .. w - 1 /\ a % w \in Nat /\ a \div w \in Nat
      BY <1>1, <2>1, Division, Zenon
    <2>4. (a \div w) % b \in 0 .. b - 1 /\ (a \div w) % b \in Nat
      BY <1>1, <2>3, Division, Zenon
    <2>5. a % (w * b) = (a % w) + w * ((a \div w) % b)
      BY <1>1, <2>1, OneMoreDigit, Zenon
    <2>6. a % w < w
      BY <2>1, <2>3
    <2>7. s(j) \in Nat /\ s(j) < b
      BY <1>1, <2>2, <2>4
    <2> QED
      BY <2>1, <2>2, <2>3, <2>5, <2>6, <2>7 DEF w
  <1>3. low(4) = a
    <2>1. Weight(4) = Modulus
      <3>1. SegmentBits * 4 = Bits
        BY <1>1 DEF Bits
      <3> QED
        BY <3>1 DEF Weight, Modulus
    <2>2. Wrap(a) = a
      BY <1>1, Wrapping
    <2> QED
      BY <2>1, <2>2 DEF Wrap
  <1>4. low(0) = 0
    <2>1. low(0) \in Nat /\ low(0) < 1
      <3>1. 0 \in Nat
        OBVIOUS
      <3> HIDE DEF low
      <3> QED
        BY <1>2, <3>1, Weights
    <2> HIDE DEF low
    <2> QED
      BY <2>1
  <1>5. ASSUME NEW j \in Nat, s(j) = 0 PROVE low(j + 1) = low(j)
    <2> HIDE DEF s, low
    <2>1. Weight(j) * s(j) = 0 /\ low(j) \in Nat
      BY <1>2, <1>5
    <2> QED
      BY <1>2, <2>1
  <1>6. 0 + 1 = 1 /\ 1 + 1 = 2 /\ 2 + 1 = 3 /\ 3 + 1 = 4
        /\ 0 \in Nat /\ 1 \in Nat /\ 2 \in Nat /\ 3 \in Nat
    OBVIOUS
  <1>7. /\ s(0) = 0 => low(1) = low(0)
        /\ s(1) = 0 => low(2) = low(1)
        /\ s(2) = 0 => low(3) = low(2)
        /\ s(3) = 0 => low(4) = low(3)
    <2> HIDE DEF s, low
    <2>1. /\ s(0) = 0 => low(0 + 1) = low(0)
          /\ s(1) = 0 => low(1 + 1) = low(1)
          /\ s(2) = 0 => low(2 + 1) = low(2)
          /\ s(3) = 0 => low(3 + 1) = low(3)
      BY <1>5, <1>6, Zenon
    <2> QED
      BY <1>6, <2>1, Zenon
  <1> HIDE DEF s, low
  <1>8. \E j \in 0 .. 3 : s(j) # 0 /\ \A i \in 0 .. 3 : i > j => s(i) = 0
    <2>1. ASSUME s(0) = 0, s(1) = 0, s(2) = 0, s(3) = 0 PROVE FALSE
      BY <1>1, <1>3, <1>4, <1>7, <2>1
    <2>2. \A i \in 0 .. 3 : i = 0 \/ i = 1 \/ i = 2 \/ i = 3
      OBVIOUS
    <2>3. CASE s(3) # 0
      <3>1. \A i \in 0 .. 3 : ~(i > 3)
        OBVIOUS
      <3> QED
        BY <2>3, <3>1
    <2>4. CASE s(3) = 0 /\ s(2) # 0
      <3>1. \A i \in 0 .. 3 : i > 2 => i = 3
        OBVIOUS
      <3> QED
        BY <2>4, <3>1
    <2>5. CASE s(3) = 0 /\ s(2) = 0 /\ s(1) # 0
      <3>1. \A i \in 0 .. 3 : i > 1 => i = 2 \/ i = 3
        OBVIOUS
      <3> QED
        BY <2>5, <3>1
    <2>6. CASE s(3) = 0 /\ s(2) = 0 /\ s(1) = 0 /\ s(0) # 0
      <3>1. \A i \in 0 .. 3 : i > 0 => i = 1 \/ i = 2 \/ i = 3
        OBVIOUS
      <3> QED
        BY <2>6, <3>1
    <2> QED
      BY <2>1, <2>3, <2>4, <2>5, <2>6
  <1>9. ASSUME NEW j \in 0 .. 3, \A i \in 0 .. 3 : i > j => s(i) = 0
        PROVE  a = low(j + 1)
    <2>1. CASE j = 3
      BY <1>3, <1>6, <2>1
    <2>2. CASE j = 2
      <3>1. s(3) = 0
        BY <1>9, <2>2
      <3> QED
        BY <1>3, <1>6, <1>7, <2>2, <3>1
    <2>3. CASE j = 1
      <3>1. s(3) = 0 /\ s(2) = 0
        BY <1>9, <2>3
      <3> QED
        BY <1>3, <1>6, <1>7, <2>3, <3>1
    <2>4. CASE j = 0
      <3>1. s(3) = 0 /\ s(2) = 0 /\ s(1) = 0
        BY <1>9, <2>4
      <3> QED
        BY <1>3, <1>6, <1>7, <2>4, <3>1
    <2> QED
      BY <2>1, <2>2, <2>3, <2>4
  <1>10. ASSUME NEW j \in 0 .. 3, \A i \in 0 .. 3 : i > j => s(i) = 0
         PROVE  /\ a = low(j) + Weight(j) * s(j)
                /\ low(j) \in Nat /\ low(j) < Weight(j) /\ s(j) \in Nat /\ s(j) < b
    <2>1. j \in Nat
      OBVIOUS
    <2> QED
      BY <1>2, <1>9, <1>10, <2>1
  <1> QED
    BY <1>8, <1>10 DEF s, low

\* SafeMath.ts: bitLength and approximateLog2 are the length and its predecessor.
LEMMA LogarithmExact ==
    ASSUME NEW a \in Word, a # 0
    PROVE  TwoTo[ApproximateLog2(a)] <= a /\ a < TwoTo[BitLength(a)]
  <1> DEFINE length(v) == CHOOSE n \in 1 .. SegmentBits : TwoTo[n - 1] <= v /\ v < TwoTo[n]
             top == CHOOSE j \in 0 .. 3 :
                       Segment(a, j) # 0 /\ \A i \in 0 .. 3 : i > j => Segment(a, i) = 0
             s == Segment(a, top)
             n == length(s)
             w == Weight(top)
             low == a % w
  <1>1. BitLength(a) = SegmentBits * top + n
    BY DEF BitLength
  <1>2. SegmentBits \in Nat \ {0} /\ a \in Word \ {0} /\ a \in Nat
    BY Words
  <1>3. /\ top \in 0 .. 3 /\ Segment(a, top) # 0
        /\ \A i \in 0 .. 3 : i > top => Segment(a, i) = 0
    BY <1>2, TopSegment
  <1> HIDE DEF top
  <1>4. /\ a = low + w * s /\ low \in Nat /\ low < w /\ s \in Nat \ {0}
        /\ s < TwoTo[SegmentBits]
    BY <1>2, <1>3, TopSegment
  <1>5. top \in Nat /\ w \in Nat \ {0}
    <2>1. top \in Nat
      BY <1>3
    <2> QED
      BY <2>1, Weights
  <1> HIDE DEF s, w, low
  <1>6. n \in 1 .. SegmentBits /\ TwoTo[n - 1] <= s /\ s < TwoTo[n]
    <2>1. \E m \in 1 .. SegmentBits : TwoTo[m - 1] <= s /\ s < TwoTo[m]
      BY <1>2, <1>4, LengthExists
    <2> QED
      BY <2>1
  <1> HIDE DEF length, n
  <1>7. n \in Nat /\ n - 1 \in Nat /\ n # 0
    BY <1>2, <1>6
  <1> DEFINE m == SegmentBits * top
             t == TwoTo[n]
             u == TwoTo[n - 1]
  <1>8. m \in Nat /\ t \in Nat /\ u \in Nat /\ u <= s /\ s + 1 <= t
    <2>1. m \in Nat
      BY <1>2, <1>5
    <2>2. t \in Nat /\ u \in Nat
      BY <1>7, TwoToFacts
    <2> QED
      BY <1>4, <1>6, <2>1, <2>2
  <1>9. TwoTo[m + n] = w * t /\ TwoTo[m + (n - 1)] = w * u
    <2>1. w = TwoTo[m]
      BY DEF w, Weight
    <2> HIDE DEF m
    <2>2. TwoTo[m + n] = TwoTo[m] * TwoTo[n] /\ TwoTo[m + (n - 1)] = TwoTo[m] * TwoTo[n - 1]
      BY <1>7, <1>8, TwoToFacts, Zenon
    <2> QED
      BY <2>1, <2>2
  <1>10. BitLength(a) = m + n /\ ApproximateLog2(a) = m + (n - 1)
    <2> HIDE DEF m
    <2>1. BitLength(a) = m + n
      BY <1>1 DEF m
    <2>2. BitLength(a) # 0 /\ BitLength(a) - 1 = m + (n - 1)
      BY <1>7, <1>8, <2>1
    <2>3. ApproximateLog2(a) = BitLength(a) - 1
      BY <2>2 DEF ApproximateLog2
    <2> QED
      BY <2>1, <2>2, <2>3
  <1> HIDE DEF m, t, u
  <1>11. w * u <= w * s /\ w * (s + 1) <= w * t /\ w * (s + 1) = w * s + w
         /\ w * s \in Nat /\ w * u \in Nat /\ w * t \in Nat
    BY <1>4, <1>5, <1>8
  <1>12. w * u <= a /\ a < w * t
    BY <1>4, <1>5, <1>11
  <1> QED
    BY <1>9, <1>10, <1>12

-----------------------------------------------------------------------------
(* The theorem *)

\* The operands of a call are words.
CallsInv ==
    \/ input = Nothing
    \/ \E a, b, m \in Word : input = Operands(a, b, m)

\* Every call that has been made returns the exact outcome.
LEMMA CallsAreExact == CallsInv => ArithmeticIsExact
  <1> SUFFICES ASSUME CallsInv, input.kind = "arithmetic"
               PROVE  /\ WordsExact(input.a, input.b)
                      /\ input.b = 0 => RootAndShiftsExact(input.a)
                      /\ ModularExact(input.a, input.b, input.m)
                      /\ input.a < 2 * HalfRange /\ input.b < 2 * HalfRange =>
                            SignedExact(input.a - HalfRange, input.b - HalfRange)
    BY DEF ArithmeticIsExact
  <1>1. PICK a \in Word, b \in Word, m \in Word : input = Operands(a, b, m)
    BY DEF CallsInv, Nothing
  <1>2. input.a = a /\ input.b = b /\ input.m = m
    BY <1>1 DEF Operands
  <1>3. a \in Nat /\ b \in Nat /\ a + b \in Nat
    BY Words
  <1>4. WordsExact(a, b)
    BY SumsExact, ProductExact, RemainderExact, NeighboursExact, PowExact DEF WordsExact
  <1>5. RootAndShiftsExact(a)
    BY <1>3, NeighboursExact, SqrtExact, ShiftsAreExact, LogarithmExact, Pow10Exact
       DEF RootAndShiftsExact
  <1>6. ModularExact(a, b, m)
    BY MulModExact, ModInverseExact DEF ModularExact
  <1>7. ASSUME a < 2 * HalfRange, b < 2 * HalfRange
        PROVE  SignedExact(a - HalfRange, b - HalfRange)
    <2> DEFINE x == a - HalfRange
               y == b - HalfRange
    <2>1. x \in Signed /\ y \in Signed
      BY <1>3, <1>7, SignedWords
    <2> HIDE DEF x, y
    <2>2. SignedExact(x, y)
      BY <2>1, SignedAreExact
    <2> QED
      BY <2>2 DEF x, y
  <1> QED
    BY <1>2, <1>4, <1>5, <1>6, <1>7

\* Checked arithmetic (SafeMath.ts, SafeMathI128.ts) returns the exact integer, or reverts
\* just when that is no word, for segments of every width.
THEOREM ArithmeticHolds == CallsSpec => []ArithmeticIsExact
  <1>1. Init => CallsInv
    BY DEF Init, CallsInv
  <1>2. CallsInv /\ [CallsNext]_input => CallsInv'
    <2> SUFFICES ASSUME CallsInv, [CallsNext]_input PROVE CallsInv'
      OBVIOUS
    <2>1. CASE input = Nothing /\ \E a, b, m \in Word : input' = Operands(a, b, m)
      BY <2>1 DEF CallsInv, Operands
    <2>2. CASE input # Nothing /\ input' = Nothing
      BY <2>2 DEF CallsInv, Nothing
    <2>3. CASE UNCHANGED input
      BY <2>3 DEF CallsInv, Nothing, Operands
    <2> QED
      BY <2>1, <2>2, <2>3 DEF CallsNext
  <1>3. CallsInv => ArithmeticIsExact
    BY CallsAreExact
  <1> QED
    BY <1>1, <1>2, <1>3, PTL DEF CallsSpec
===============================================================================

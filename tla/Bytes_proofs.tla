---------------------------- MODULE Bytes_proofs ----------------------------
(***************************************************************************)
(* For every base of the bytes: numbers and their digits stand for each    *)
(* other.  For every set of structures, lengths of identifiers and keys:   *)
(* the cells of stored structures are separate.  Every field of calldata   *)
(* is read back as it was written.                                         *)
(***************************************************************************)
EXTENDS StorageLayout, CodecFields, BasicFacts

-----------------------------------------------------------------------------
(* Digits *)

\* The values of the places of a number.
LEMMA PlaceValues ==
    /\ PlaceValue[0] = 1 /\ PlaceValue[1] = Base
    /\ \A n \in Nat : /\ PlaceValue[n] \in Nat /\ PlaceValue[n] >= 1
                      /\ PlaceValue[n] \in Nat \ {0}
                      /\ PlaceValue[n + 1] = Base * PlaceValue[n]
    /\ \A m, n \in Nat : PlaceValue[m + n] = PlaceValue[m] * PlaceValue[n]
  <1>1. Base \in Nat \ {0} /\ Base \in Nat
    BY CodecAssumption DEF CodecAssumption
  <1>2. PlaceValue[0] = 1 /\ \A n \in Nat : /\ PlaceValue[n] \in Nat
                                          /\ PlaceValue[n + 1] = Base * PlaceValue[n]
    BY <1>1, PowerSteps DEF PlaceValue
  <1>3. \A n \in Nat : PlaceValue[n] >= 1
    <2>1. 0 \in Nat
      OBVIOUS
    <2> QED
      BY <1>1, <2>1, PowersGrow, Zenon DEF PlaceValue
  <1>4. \A m, n \in Nat : PlaceValue[m + n] = PlaceValue[m] * PlaceValue[n]
    BY <1>1, PowerOfSum DEF PlaceValue
  <1>5. PlaceValue[1] = Base
    <2>1. PlaceValue[0 + 1] = Base * PlaceValue[0]
      BY <1>2
    <2> QED
      BY <1>1, <1>2, <2>1
  <1>6. \A n \in Nat : PlaceValue[n] \in Nat \ {0}
    BY <1>2, <1>3
  <1> QED
    BY <1>2, <1>3, <1>4, <1>5, <1>6

\* Dividing twice is dividing by the product.
LEMMA QuotientOfQuotient ==
    ASSUME NEW a \in Nat, NEW m \in Nat \ {0}, NEW n \in Nat \ {0}
    PROVE  (a \div m) \div n = a \div (m * n)
  <1> DEFINE p == a \div m
             r == a % m
             q == p \div n
             s == p % n
  <1>1. p \in Nat /\ r \in 0 .. m - 1 /\ a = m * p + r
    BY Division
  <1>2. q \in Nat /\ s \in 0 .. n - 1 /\ p = n * q + s
    BY <1>1, Division
  <1> HIDE DEF p, r, q, s
  <1> DEFINE t == m * s + r
  <1>3. a = (m * n) * q + t
    <2>1. m * (n * q + s) = (m * n) * q + m * s
      BY <1>1, <1>2
    <2> QED
      BY <1>1, <1>2, <2>1
  <1>4. t \in Nat /\ t < m * n
    <2>1. m * s + m <= m * n
      <3>1. s + 1 <= n
        BY <1>2
      <3>2. m * (s + 1) <= m * n
        BY <1>2, <3>1
      <3> QED
        BY <1>2, <3>2
    <2>2. m * s \in Nat
      BY <1>2
    <2> QED
      BY <1>1, <2>1, <2>2
  <1>5. m * n \in Nat \ {0}
    OBVIOUS
  <1> HIDE DEF t
  <1>6. a \div (m * n) = q
    <2> DEFINE mn == m * n
    <2>1. mn \in Nat \ {0} /\ a = mn * q + t /\ t < mn
      BY <1>3, <1>4, <1>5
    <2> HIDE DEF mn
    <2>2. a \in Int /\ q \in Int /\ t \in Int /\ 0 <= t
      BY <1>2, <1>4
    <2>3. a \div mn = q
      BY <2>1, <2>2, DivisionIs
    <2> QED
      BY <2>3 DEF mn
  <1> QED
    BY <1>6 DEF q, p

\* Digits are bytes, as many as asked for.
LEMMA DigitsAreBytes ==
    ASSUME NEW n \in Nat, NEW w \in Nat
    PROVE  /\ Digits(n, w) \in [1 .. w -> Byte]
           /\ Digits(n, w) \in Seq(Byte) /\ Len(Digits(n, w)) = w
           /\ Digits(n, w) \in Buffer
  <1>1. \A i \in 1 .. w : (n \div PlaceValue[w - i]) % Base \in Byte
    <2> SUFFICES ASSUME NEW i \in 1 .. w PROVE (n \div PlaceValue[w - i]) % Base \in Byte
      OBVIOUS
    <2> DEFINE v == PlaceValue[w - i]
    <2>1. v \in Nat \ {0}
      <3>1. w - i \in Nat
        OBVIOUS
      <3>2. PlaceValue[w - i] \in Nat /\ PlaceValue[w - i] >= 1
        BY <3>1, PlaceValues, Zenon
      <3> QED
        BY <3>2
    <2> HIDE DEF v
    <2>2. n \div v \in Nat
      BY <2>1, Division
    <2>3. (n \div v) % Base \in 0 .. Base - 1
      BY <2>2, CodecAssumption, Division DEF CodecAssumption
    <2> QED
      BY <2>3 DEF Byte, v
  <1>2. Digits(n, w) \in [1 .. w -> Byte]
    BY <1>1 DEF Digits
  <1>3. Byte \subseteq Nat
    BY DEF Byte
  <1> HIDE DEF Byte
  <1>4. Digits(n, w) \in Seq(Byte) /\ Len(Digits(n, w)) = w
    BY <1>2
  <1>5. Digits(n, w) \in Buffer
    <2> DEFINE d == Digits(n, w)
    <2>1. d \in [1 .. w -> Nat]
      BY <1>2, <1>3
    <2> HIDE DEF d
    <2>2. d \in Seq(Nat)
      BY <2>1, SeqDef
    <2> QED
      BY <2>2 DEF Buffer, d
  <1> QED
    BY <1>2, <1>4, <1>5

DigitsJoin(x, k, y, m) ==
    Digits(x * PlaceValue[m] + y, k + m) = Digits(x, k) \o Digits(y, m)

\* The digits of a number that is written as two: those of the one before those of the other.
LEMMA DigitsOfJoined ==
    ASSUME NEW x \in Nat, NEW k \in Nat, NEW m \in Nat, NEW y \in Nat, y < PlaceValue[m]
    PROVE  DigitsJoin(x, k, y, m)
  <1> DEFINE v(i) == PlaceValue[i]
             n == x * v(m) + y
             d == Digits(n, k + m)
             e == Digits(x, k) \o Digits(y, m)
  <1>1. \A i \in Nat : v(i) \in Nat \ {0}
    <2>1. \A i \in Nat : v(i) \in Nat /\ v(i) >= 1
      BY PlaceValues
    <2> HIDE DEF v
    <2> QED
      BY <2>1
  <1>2. \A i, j \in Nat : v(i + j) = v(i) * v(j)
    BY PlaceValues
  <1>b. Base \in Nat \ {0}
    BY CodecAssumption DEF CodecAssumption
  <1>c. \A i \in Nat : v(i + 1) = Base * v(i)
    BY PlaceValues
  <1>v. y < v(m)
    OBVIOUS
  <1> HIDE DEF v
  <1>3. n \in Nat /\ n \div v(m) = x
    <2> DEFINE p == v(m)
    <2>1. p \in Nat \ {0} /\ y < p
      BY <1>1, <1>v
    <2>2. n = p * x + y /\ n \in Nat
      BY <2>1
    <2> HIDE DEF p, n
    <2>3. n \div p = x
      BY <2>1, <2>2, DivisionIs
    <2> QED
      BY <2>2, <2>3 DEF p
  <1>4. ASSUME NEW i \in 1 .. k
        PROVE  (n \div v(k + m - i)) % Base = (x \div v(k - i)) % Base
    <2>1. k - i \in Nat /\ k + m - i = m + (k - i)
      OBVIOUS
    <2>2. v(k + m - i) = v(m) * v(k - i)
      BY <1>2, <2>1
    <2>3. (n \div v(m)) \div v(k - i) = n \div (v(m) * v(k - i))
      <3>1. v(m) \in Nat \ {0} /\ v(k - i) \in Nat \ {0}
        BY <1>1, <2>1
      <3> HIDE DEF n
      <3> QED
        BY <1>3, <3>1, QuotientOfQuotient
    <2> QED
      BY <1>3, <2>2, <2>3
  <1>5. ASSUME NEW i \in 1 .. m
        PROVE  (n \div v(m - i)) % Base = (y \div v(m - i)) % Base
    <2> DEFINE p == v(m - i)
               u == v(i - 1)
               q == y \div p
               r == y % p
    <2>1. m - i \in Nat /\ i - 1 \in Nat /\ m = (m - i) + ((i - 1) + 1)
      OBVIOUS
    <2>2. p \in Nat \ {0} /\ u \in Nat
      BY <1>1, <2>1
    <2>3. v(m) = p * (Base * u)
      <3>1. v((i - 1) + 1) = Base * u
        BY <1>c, <2>1
      <3>2. v((m - i) + ((i - 1) + 1)) = p * v((i - 1) + 1)
        <4>1. (i - 1) + 1 \in Nat
          OBVIOUS
        <4> QED
          BY <1>2, <2>1, <4>1
      <3> QED
        BY <2>1, <3>1, <3>2
    <2>4. q \in Nat /\ r \in 0 .. p - 1 /\ y = p * q + r
      BY <2>2, Division
    <2> HIDE DEF p, u, q, r
    <2> DEFINE w == u * x
    <2>5. w \in Nat /\ n = p * (Base * w + q) + r
      <3>1. x * (p * (Base * u)) = p * (Base * (u * x))
        BY <1>b, <2>2
      <3>2. p * (Base * (u * x)) + (p * q + r) = p * (Base * (u * x) + q) + r
        BY <1>b, <2>2, <2>4
      <3> QED
        BY <2>2, <2>3, <2>4, <3>1, <3>2
    <2> HIDE DEF w
    <2>6. n \div p = q + Base * w
      <3> DEFINE h == Base * w + q
      <3>1. h \in Nat /\ n = p * h + r
        BY <1>b, <2>4, <2>5
      <3> HIDE DEF h, n
      <3>2. n \div p = h
        <4>1. n \in Int /\ h \in Int /\ r \in Int /\ 0 <= r /\ r < p
          BY <1>3, <2>2, <2>4, <3>1
        <4> QED
          BY <2>2, <3>1, <4>1, DivisionIs
      <3> QED
        BY <1>b, <2>4, <2>5, <3>2 DEF h
    <2>7. (q + Base * w) % Base = q % Base
      <3>1. q \in Int /\ w \in Int
        BY <2>4, <2>5
      <3> QED
        BY <1>b, <3>1, MultipleLeavesRemainder, Zenon
    <2> QED
      BY <2>6, <2>7 DEF q, p
  <1>6. /\ d \in Seq(Byte) /\ Len(d) = k + m
        /\ \A i \in 1 .. k + m : d[i] = (n \div v(k + m - i)) % Base
    <2>1. k + m \in Nat
      OBVIOUS
    <2>2. d \in Seq(Byte) /\ Len(d) = k + m
      <3> HIDE DEF n
      <3> QED
        BY <1>3, <2>1, DigitsAreBytes
    <2>3. \A i \in 1 .. k + m : d[i] = (n \div v(k + m - i)) % Base
      <3> HIDE DEF n
      <3> QED
        BY DEF Digits, v
    <2> QED
      BY <2>2, <2>3
  <1>7. /\ Digits(x, k) \in Seq(Byte) /\ Len(Digits(x, k)) = k
        /\ Digits(y, m) \in Seq(Byte) /\ Len(Digits(y, m)) = m
        /\ \A i \in 1 .. k : Digits(x, k)[i] = (x \div v(k - i)) % Base
        /\ \A i \in 1 .. m : Digits(y, m)[i] = (y \div v(m - i)) % Base
    <2>1. /\ \A i \in 1 .. k : Digits(x, k)[i] = (x \div v(k - i)) % Base
          /\ \A i \in 1 .. m : Digits(y, m)[i] = (y \div v(m - i)) % Base
      BY DEF Digits, v
    <2> QED
      BY <2>1, DigitsAreBytes
  <1> HIDE DEF d, n
  <1> DEFINE a == Digits(x, k)
             b == Digits(y, m)
  <1>8. /\ e \in Seq(Byte) /\ Len(e) = k + m
        /\ \A i \in 1 .. k : e[i] = a[i]
        /\ \A i \in k + 1 .. k + m : e[i] = b[i - k]
    <2> HIDE DEF a, b
    <2>1. e = a \o b
      BY DEF a, b
    <2>2. a \in Seq(Byte) /\ Len(a) = k /\ b \in Seq(Byte) /\ Len(b) = m
      BY <1>7 DEF a, b
    <2> HIDE DEF e
    <2>3. /\ e \in Seq(Byte) /\ Len(e) = Len(a) + Len(b)
          /\ \A i \in 1 .. Len(a) + Len(b) :
                e[i] = IF i <= Len(a) THEN a[i] ELSE b[i - Len(a)]
      BY <2>1, <2>2, ConcatProperties
    <2> QED
      BY <2>2, <2>3
  <1>9. \A i \in 1 .. k + m : d[i] = e[i]
    <2> SUFFICES ASSUME NEW i \in 1 .. k + m PROVE d[i] = e[i]
      OBVIOUS
    <2>1. CASE i <= k
      <3>1. i \in 1 .. k
        BY <2>1
      <3>2. d[i] = (n \div v(k + m - i)) % Base /\ e[i] = a[i]
        BY <1>6, <1>8, <3>1
      <3>3. a[i] = (x \div v(k - i)) % Base
        BY <1>7, <3>1
      <3> HIDE DEF a, e
      <3> QED
        BY <1>4, <3>1, <3>2, <3>3
    <2>2. CASE k < i
      <3> DEFINE j == i - k
      <3>1. i \in k + 1 .. k + m /\ j \in 1 .. m /\ k + m - i = m - j
        BY <2>2
      <3>2. d[i] = (n \div v(k + m - i)) % Base /\ e[i] = b[j]
        BY <1>6, <1>8, <3>1
      <3>3. b[j] = (y \div v(m - j)) % Base
        BY <1>7, <3>1
      <3> HIDE DEF b, e, j
      <3>4. (n \div v(m - j)) % Base = (y \div v(m - j)) % Base
        BY <1>5, <3>1
      <3>5. d[i] = (n \div v(m - j)) % Base
        BY <3>1, <3>2
      <3> QED
        BY <3>2, <3>3, <3>4, <3>5
    <2> HIDE DEF a, b, e
    <2> QED
      BY <2>1, <2>2
  <1>10. d = e
    <2> HIDE DEF e
    <2> QED
      BY <1>6, <1>8, <1>9, SeqEqual
  <1> QED
    BY <1>10 DEF d, n, v, DigitsJoin

-----------------------------------------------------------------------------
(* Numbers *)

\* v has the numbers that the first digits of d stand for.
Counts(v, d) ==
    /\ v \in [0 .. Len(d) -> Nat] /\ v[0] = 0
    /\ \A i \in 1 .. Len(d) : v[i] = v[i - 1] * Base + d[i]

\* Digits stand for a number.
LEMMA NumberLaw ==
    ASSUME NEW d \in Seq(Nat)
    PROVE  \E v : Counts(v, d) /\ Number(d) = v[Len(d)]
  <1> DEFINE n == Len(d)
             join == [i \in 1 .. n |-> [x \in Nat |-> x * Base + d[i]]]
             Law(f) == f = [i \in 0 .. n |-> IF i = 0 THEN 0 ELSE f[i - 1] * Base + d[i]]
             v == CHOOSE f : Law(f)
  <1>b. Base \in Nat
    BY CodecAssumption DEF CodecAssumption
  <1>1. n \in Nat /\ \A i \in 1 .. n : d[i] \in Nat
    OBVIOUS
  <1>2. join \in [1 .. n -> [Nat -> Nat]]
    BY <1>b, <1>1
  <1>3. \A i \in 1 .. n, x \in Nat : join[i][x] = x * Base + d[i]
    OBVIOUS
  <1> HIDE DEF join
  <1>4. PICK f \in [0 .. n -> Nat] :
           f = [i \in 0 .. n |-> IF i = 0 THEN 0 ELSE join[i][f[i - 1]]]
    <2> DEFINE first == 0
    <2>1. first \in Nat
      OBVIOUS
    <2> HIDE DEF first, n
    <2>2. \E f \in [0 .. n -> Nat] : FollowsList(f, first, n, join)
      BY <1>1, <1>2, <2>1, ListRecursion, Zenon
    <2> QED
      BY <2>2 DEF first, FollowsList
  <1>5. Law(f)
    <2>1. ASSUME NEW i \in 0 .. n
          PROVE  f[i] = IF i = 0 THEN 0 ELSE f[i - 1] * Base + d[i]
      <3>1. f[i] = IF i = 0 THEN 0 ELSE join[i][f[i - 1]]
        BY <1>4
      <3>2. i # 0 => i \in 1 .. n /\ i - 1 \in 0 .. n
        BY <1>1
      <3>3. i # 0 => f[i - 1] \in Nat
        BY <1>4, <3>2
      <3> HIDE DEF n
      <3> QED
        BY <1>3, <3>1, <3>2, <3>3
    <2>2. f = [i \in 0 .. n |-> f[i]]
      BY <1>4
    <2> HIDE DEF n
    <2> QED
      BY <2>1, <2>2
  <1>6. Law(v)
    <2> HIDE DEF Law
    <2> QED
      BY <1>5, Zenon
  <1>7. Number(d) = v[n]
    BY DEF Number
  <1> HIDE DEF v
  <1>8. v[0] = 0 /\ \A i \in 1 .. n : v[i] = v[i - 1] * Base + d[i]
    <2>1. \A i \in 0 .. n : v[i] = IF i = 0 THEN 0 ELSE v[i - 1] * Base + d[i]
      BY <1>6
    <2>2. 0 \in 0 .. n /\ \A i \in 1 .. n : i \in 0 .. n /\ i # 0
      BY <1>1
    <2> HIDE DEF n
    <2> QED
      BY <2>1, <2>2
  <1>9. v \in [0 .. n -> Nat]
    <2> DEFINE P == {i \in Nat : i <= n => v[i] \in Nat}
    <2>1. P \in SUBSET Nat /\ 0 \in P
      BY <1>8
    <2>2. ASSUME NEW i \in P PROVE i + 1 \in P
      <3> SUFFICES ASSUME i + 1 <= n PROVE v[i + 1] \in Nat
        OBVIOUS
      <3>1. i + 1 \in 1 .. n /\ (i + 1) - 1 = i /\ v[i] \in Nat
        BY <1>1
      <3>2. v[i + 1] = v[i] * Base + d[i + 1] /\ d[i + 1] \in Nat
        BY <1>1, <1>8, <3>1
      <3>3. v[i] * Base \in Nat
        BY <1>b, <3>1
      <3> HIDE DEF P, n
      <3> QED
        BY <3>2, <3>3, <3>1
    <2>3. \A i \in Nat : i \in P
      <3> HIDE DEF P
      <3> QED
        BY <2>1, <2>2, SetInduction, Zenon
    <2>4. \A i \in 0 .. n : v[i] \in Nat
      BY <1>1, <2>3
    <2>5. v = [i \in 0 .. n |-> v[i]]
      BY <1>6
    <2> HIDE DEF n
    <2> QED
      BY <2>4, <2>5
  <1> QED
    BY <1>7, <1>8, <1>9 DEF Counts

\* The digits of a number that has enough places stand for it.
LEMMA NumberOfDigits ==
    ASSUME NEW w \in Nat, NEW n \in Nat, n < PlaceValue[w]
    PROVE  Number(Digits(n, w)) = n
  <1> DEFINE d == Digits(n, w)
             p(i) == PlaceValue[i]

  <1>b. Base \in Nat \ {0}
    BY CodecAssumption DEF CodecAssumption
  <1>1. d \in Seq(Nat) /\ Len(d) = w
    BY DigitsAreBytes DEF Buffer
  <1>2. \A i \in 1 .. w : d[i] = (n \div p(w - i)) % Base
    BY DEF Digits
  <1>3. \A i \in Nat : p(i) \in Nat \ {0} /\ p(i + 1) = Base * p(i)
    <2>1. \A i \in Nat : p(i) \in Nat /\ p(i) >= 1 /\ p(i + 1) = Base * p(i)
      BY PlaceValues
    <2> HIDE DEF p
    <2> QED
      BY <2>1
  <1>4. p(0) = 1 /\ n < p(w)
    BY PlaceValues
  <1> HIDE DEF d, p
  <1>5. PICK v : Counts(v, d) /\ Number(d) = v[w]
    BY <1>1, NumberLaw
  <1>6. v[0] = 0 /\ \A i \in 1 .. w : v[i] = v[i - 1] * Base + d[i]
    BY <1>1, <1>5 DEF Counts
  <1> DEFINE Q == {i \in Nat : i <= w => v[i] = n \div p(w - i)}
  <1>7. Q \in SUBSET Nat /\ 0 \in Q
    <2>1. w - 0 = w /\ n \div p(w) = 0
      <3> DEFINE m == p(w)
      <3>1. m \in Nat \ {0} /\ n < m
        BY <1>3, <1>4
      <3> HIDE DEF m
      <3>2. n \div m = 0
        <4>1. n = m * 0 + n /\ n \in Int /\ 0 \in Int /\ 0 <= n
          BY <3>1
        <4> QED
          BY <3>1, <4>1, DivisionIs
      <3> QED
        BY <3>2 DEF m
    <2> QED
      BY <1>6, <2>1
  <1>8. ASSUME NEW i \in Q PROVE i + 1 \in Q
    <2> SUFFICES ASSUME i + 1 <= w PROVE v[i + 1] = n \div p(w - (i + 1))
      OBVIOUS
    <2> DEFINE j == i + 1
               m == p(w - j)
               q == n \div m
    <2>1. j \in 1 .. w /\ j - 1 = i /\ w - j \in Nat /\ (w - j) + 1 = w - i
      OBVIOUS
    <2>2. v[i] = n \div p(w - i)
      BY <2>1
    <2>3. m \in Nat \ {0} /\ p(w - i) = Base * m
      <3>1. p((w - j) + 1) = Base * p(w - j) /\ p(w - j) \in Nat \ {0}
        BY <1>3, <2>1, Zenon
      <3> HIDE DEF j
      <3> QED
        BY <2>1, <3>1
    <2>4. v[j] = v[i] * Base + d[j] /\ d[j] = q % Base
      BY <1>2, <1>6, <2>1
    <2> HIDE DEF m, j, Q
    <2>5. v[i] = q \div Base
      <3>1. (n \div m) \div Base = n \div (m * Base)
        BY <1>b, <2>3, QuotientOfQuotient
      <3>2. m * Base = Base * m
        BY <1>b, <2>3
      <3> QED
        BY <2>2, <2>3, <3>1, <3>2
    <2>6. q \in Nat
      BY <2>3, Division
    <2> HIDE DEF q
    <2>7. q = Base * (q \div Base) + (q % Base) /\ q \div Base \in Nat
      BY <1>b, <2>6, Division
    <2>8. v[j] = q
      BY <1>b, <2>4, <2>5, <2>7
    <2> QED
      BY <2>8 DEF q, m, j
  <1>9. \A i \in Nat : i \in Q
    <2> HIDE DEF Q
    <2> QED
      BY <1>7, <1>8, SetInduction, Zenon
  <1>10. v[w] = n \div p(w - w) /\ w - w = 0
    BY <1>9
  <1>11. n \div 1 = n
    OBVIOUS
  <1> QED
    BY <1>4, <1>5, <1>10, <1>11 DEF d

\* Every sequence of bytes is that of the digits of its number, which has as many places.
LEMMA DigitsOfNumber ==
    ASSUME NEW w \in Nat, NEW d \in [1 .. w -> Byte]
    PROVE  /\ Number(d) \in Nat /\ Number(d) < PlaceValue[w]
           /\ Digits(Number(d), w) = d
  <1> DEFINE p(i) == PlaceValue[i]
             n == Number(d)
  <1>b. Base \in Nat \ {0}
    BY CodecAssumption DEF CodecAssumption
  <1>1. d \in Seq(Nat) /\ Len(d) = w /\ \A i \in 1 .. w : d[i] \in 0 .. Base - 1
    <2>1. Byte \subseteq Nat
      BY DEF Byte
    <2>2. d \in [1 .. w -> Nat]
      BY <2>1
    <2>3. d \in Seq(Nat)
      BY <2>2, SeqDef
    <2> QED
      BY <2>3 DEF Byte
  <1>2. PICK v : Counts(v, d) /\ n = v[w]
    BY <1>1, NumberLaw
  <1>3. /\ v \in [0 .. w -> Nat] /\ v[0] = 0
        /\ \A i \in 1 .. w : v[i] = v[i - 1] * Base + d[i]
    BY <1>1, <1>2 DEF Counts
  <1>4. \A i \in 1 .. w : v[i] \div Base = v[i - 1] /\ v[i] % Base = d[i]
    <2> SUFFICES ASSUME NEW i \in 1 .. w
                 PROVE  v[i] \div Base = v[i - 1] /\ v[i] % Base = d[i]
      OBVIOUS
    <2>1. /\ v[i] \in Int /\ v[i - 1] \in Int /\ d[i] \in Int /\ 0 <= d[i] /\ d[i] < Base
          /\ v[i] = Base * v[i - 1] + d[i]
      <3>1. i \in 0 .. w /\ i - 1 \in 0 .. w
        OBVIOUS
      <3> QED
        BY <1>b, <1>1, <1>3, <3>1
    <2> QED
      BY <1>b, <2>1, DivisionIs
  <1>5. \A i \in Nat : p(i) \in Nat \ {0} /\ p(i + 1) = Base * p(i)
    BY PlaceValues, Zenon
  <1>6. p(0) = 1
    BY PlaceValues
  <1> HIDE DEF p, n
  <1> DEFINE Q == {i \in Nat : i <= w => v[i] < p(i)}
             R == {j \in Nat : j <= w => v[w - j] = n \div p(j)}
  <1>7. \A i \in Nat : i \in Q
    <2>1. Q \in SUBSET Nat /\ 0 \in Q
      BY <1>3, <1>6
    <2>2. ASSUME NEW i \in Q PROVE i + 1 \in Q
      <3> SUFFICES ASSUME i + 1 <= w PROVE v[i + 1] < p(i + 1)
        OBVIOUS
      <3>1. i + 1 \in 1 .. w /\ (i + 1) - 1 = i /\ i \in 0 .. w /\ v[i] < p(i)
        OBVIOUS
      <3>2. v[i + 1] = v[i] * Base + d[i + 1] /\ d[i + 1] <= Base - 1 /\ d[i + 1] \in Nat
        BY <1>1, <1>3, <3>1
      <3>3. v[i] \in Nat /\ p(i) \in Nat /\ p(i + 1) = Base * p(i)
        BY <1>3, <1>5, <3>1
      <3> DEFINE a == v[i]
                 b == p(i)
      <3> HIDE DEF a, b
      <3>7. v[i + 1] = a * Base + d[i + 1] /\ p(i + 1) = b * Base
        BY <1>b, <3>2, <3>3 DEF a, b
      <3>4. (a + 1) * Base <= b * Base
        <4>1. a \in Nat /\ b \in Nat /\ a + 1 <= b
          BY <3>1, <3>3 DEF a, b
        <4> QED
          BY <1>b, <4>1
      <3>5. (a + 1) * Base = a * Base + Base /\ b * Base = Base * b
        BY <1>b, <3>3 DEF a, b
      <3>6. a * Base \in Nat /\ b * Base \in Nat
        BY <1>b, <3>3 DEF a, b
      <3> HIDE DEF Q
      <3> QED
        BY <1>b, <3>2, <3>4, <3>5, <3>6, <3>7
    <2> HIDE DEF Q
    <2> QED
      BY <2>1, <2>2, SetInduction, Zenon
  <1>8. \A j \in Nat : j \in R
    <2>1. R \in SUBSET Nat /\ 0 \in R
      <3>1. n \div 1 = n /\ w - 0 = w
        BY <1>2, <1>3
      <3> QED
        BY <1>2, <1>6, <3>1
    <2>2. ASSUME NEW j \in R PROVE j + 1 \in R
      <3> SUFFICES ASSUME j + 1 <= w PROVE v[w - (j + 1)] = n \div p(j + 1)
        OBVIOUS
      <3> DEFINE m == p(j)
      <3>1. w - j \in 1 .. w /\ (w - j) - 1 = w - (j + 1) /\ v[w - j] = n \div m
        OBVIOUS
      <3>2. v[w - (j + 1)] = (n \div m) \div Base
        BY <1>4, <3>1
      <3>3. m \in Nat \ {0} /\ p(j + 1) = Base * m /\ n \in Nat
        BY <1>2, <1>3, <1>5
      <3> HIDE DEF m
      <3>4. (n \div m) \div Base = n \div (m * Base)
        BY <1>b, <3>3, QuotientOfQuotient
      <3>5. m * Base = Base * m
        BY <1>b, <3>3
      <3> QED
        BY <3>2, <3>3, <3>4, <3>5
    <2> HIDE DEF R
    <2> QED
      BY <2>1, <2>2, SetInduction, Zenon
  <1>9. n \in Nat /\ n < p(w)
    BY <1>2, <1>3, <1>7
  <1>10. \A i \in 1 .. w : (n \div p(w - i)) % Base = d[i]
    <2> SUFFICES ASSUME NEW i \in 1 .. w PROVE (n \div p(w - i)) % Base = d[i]
      OBVIOUS
    <2>1. w - i \in Nat /\ w - i <= w /\ w - (w - i) = i
      OBVIOUS
    <2>2. v[i] = n \div p(w - i)
      BY <1>8, <2>1
    <2> QED
      BY <1>4, <2>2
  <1>11. Digits(n, w) = d
    <2>1. d = [i \in 1 .. w |-> d[i]]
      OBVIOUS
    <2>2. Digits(n, w) = [i \in 1 .. w |-> (n \div p(w - i)) % Base]
      BY DEF Digits, p
    <2> QED
      BY <1>10, <2>1, <2>2
  <1> QED
    BY <1>9, <1>11 DEF n, p

\* Numbers with the same digits are the same.
LEMMA DigitsTell ==
    ASSUME NEW w \in Nat, NEW m \in Nat, NEW n \in Nat,
           m < PlaceValue[w], n < PlaceValue[w], Digits(m, w) = Digits(n, w)
    PROVE  m = n
  BY NumberOfDigits

-----------------------------------------------------------------------------
(* Lists that are put together *)

\* What stands at the places of two lists, one behind the other.
LEMMA Joined ==
    ASSUME NEW a \in Buffer, NEW b \in Buffer
    PROVE  /\ Len(a) \in Nat /\ Len(b) \in Nat
           /\ a \o b \in Buffer /\ Len(a \o b) = Len(a) + Len(b)
           /\ \A i \in 1 .. Len(a) : (a \o b)[i] = a[i]
           /\ \A i \in 1 .. Len(b) : (a \o b)[Len(a) + i] = b[i]
  <1> DEFINE e == a \o b
  <1>1. /\ e \in Seq(Nat) /\ Len(e) = Len(a) + Len(b)
        /\ \A i \in 1 .. Len(a) + Len(b) : e[i] = IF i <= Len(a) THEN a[i] ELSE b[i - Len(a)]
    BY ConcatProperties DEF Buffer
  <1>2. Len(a) \in Nat /\ Len(b) \in Nat
    BY DEF Buffer
  <1> HIDE DEF e
  <1>3. \A i \in 1 .. Len(a) : e[i] = a[i]
    BY <1>1, <1>2
  <1>4. \A i \in 1 .. Len(b) : e[Len(a) + i] = b[i]
    <2> SUFFICES ASSUME NEW i \in 1 .. Len(b) PROVE e[Len(a) + i] = b[i]
      OBVIOUS
    <2>1. /\ Len(a) + i \in 1 .. Len(a) + Len(b) /\ (Len(a) + i) - Len(a) = i
          /\ ~(Len(a) + i <= Len(a))
      BY <1>2
    <2> QED
      BY <1>1, <2>1
  <1> QED
    BY <1>1, <1>2, <1>3, <1>4 DEF e, Buffer

\* Lists of one length and what follows them are told apart.
LEMMA JoinedTell ==
    ASSUME NEW a \in Buffer, NEW b \in Buffer, NEW x \in Buffer, NEW y \in Buffer,
           Len(a) = Len(b), a \o x = b \o y
    PROVE  a = b /\ x = y
  <1> DEFINE e == a \o x
             g == b \o y
  <1>1. /\ Len(a) \in Nat /\ Len(x) \in Nat /\ Len(y) \in Nat
        /\ Len(e) = Len(a) + Len(x) /\ Len(g) = Len(b) + Len(y)
        /\ \A i \in 1 .. Len(a) : e[i] = a[i] /\ g[i] = b[i]
        /\ \A i \in 1 .. Len(x) : e[Len(a) + i] = x[i]
        /\ \A i \in 1 .. Len(y) : g[Len(b) + i] = y[i]
    <2>1. /\ Len(a) \in Nat /\ Len(x) \in Nat /\ Len(e) = Len(a) + Len(x)
          /\ \A i \in 1 .. Len(a) : e[i] = a[i]
          /\ \A i \in 1 .. Len(x) : e[Len(a) + i] = x[i]
      BY Joined, Zenon
    <2>2. /\ Len(y) \in Nat /\ Len(g) = Len(b) + Len(y)
          /\ \A i \in 1 .. Len(b) : g[i] = b[i]
          /\ \A i \in 1 .. Len(y) : g[Len(b) + i] = y[i]
      BY Joined, Zenon
    <2> HIDE DEF e, g
    <2> QED
      BY <2>1, <2>2, Zenon
  <1>2. e = g
    OBVIOUS
  <1> HIDE DEF e, g
  <1>3. Len(x) = Len(y) /\ \A i \in 1 .. Len(a) : a[i] = b[i]
    BY <1>1, <1>2
  <1>4. \A i \in 1 .. Len(x) : x[i] = y[i]
    BY <1>1, <1>2, <1>3
  <1> QED
    BY <1>1, <1>3, <1>4, SeqEqual DEF Buffer

Unmarked(a, m) == \A i \in 1 .. Len(a) : a[i] # m

\* So are lists without the mark that ends them.
LEMMA MarkedTell ==
    ASSUME NEW a \in Buffer, NEW b \in Buffer, NEW x \in Buffer, NEW y \in Buffer, NEW m \in Nat,
           Unmarked(a, m), Unmarked(b, m), (a \o <<m>>) \o x = (b \o <<m>>) \o y
    PROVE  a = b /\ x = y
  <1>1. <<m>> \in Buffer /\ Len(<<m>>) = 1 /\ <<m>>[1] = m
    BY DEF Buffer
  <1> DEFINE s == a \o <<m>>
             t == b \o <<m>>
             e == s \o x
             g == t \o y
  <1>2. /\ s \in Buffer /\ Len(s) = Len(a) + 1 /\ s[Len(a) + 1] = m
        /\ \A i \in 1 .. Len(a) : s[i] = a[i]
    BY <1>1, Joined
  <1>3. /\ t \in Buffer /\ Len(t) = Len(b) + 1 /\ t[Len(b) + 1] = m
        /\ \A i \in 1 .. Len(b) : t[i] = b[i]
    BY <1>1, Joined
  <1> HIDE DEF s, t
  <1>4. \A i \in 1 .. Len(s) : e[i] = s[i]
    BY <1>2, Joined
  <1>5. \A i \in 1 .. Len(t) : g[i] = t[i]
    BY <1>3, Joined
  <1>6. e = g
    BY DEF s, t
  <1>7. /\ Len(a) \in Nat /\ Len(b) \in Nat
        /\ \A i \in 1 .. Len(a) : a[i] # m
        /\ \A i \in 1 .. Len(b) : b[i] # m
    BY DEF Buffer, Unmarked
  <1>8. Len(a) = Len(b)
    <2> HIDE DEF e, g
    <2>1. ~(Len(a) < Len(b))
      <3> SUFFICES ASSUME Len(a) < Len(b) PROVE FALSE
        OBVIOUS
      <3> DEFINE k == Len(a) + 1
      <3>1. k \in 1 .. Len(b) /\ k \in 1 .. Len(s) /\ k \in 1 .. Len(t)
        BY <1>2, <1>3, <1>7
      <3>2. e[k] = m /\ g[k] = b[k]
        BY <1>2, <1>3, <1>4, <1>5, <3>1
      <3> QED
        BY <1>6, <1>7, <3>1, <3>2
    <2>2. ~(Len(b) < Len(a))
      <3> SUFFICES ASSUME Len(b) < Len(a) PROVE FALSE
        OBVIOUS
      <3> DEFINE k == Len(b) + 1
      <3>1. k \in 1 .. Len(a) /\ k \in 1 .. Len(s) /\ k \in 1 .. Len(t)
        BY <1>2, <1>3, <1>7
      <3>2. g[k] = m /\ e[k] = a[k]
        BY <1>2, <1>3, <1>4, <1>5, <3>1
      <3> QED
        BY <1>6, <1>7, <3>1, <3>2
    <2> QED
      BY <1>7, <2>1, <2>2
  <1>9. s = t /\ x = y
    <2>1. Len(s) = Len(t) /\ s \o x = t \o y
      BY <1>2, <1>3, <1>6, <1>8
    <2>2. s \in Buffer /\ t \in Buffer
      BY <1>2, <1>3
    <2> QED
      BY <2>1, <2>2, JoinedTell, Zenon
  <1>10. a = b
    <2>1. a \o <<m>> = b \o <<m>>
      BY <1>9 DEF s, t
    <2> QED
      BY <1>1, <1>8, <2>1, JoinedTell
  <1> QED
    BY <1>9, <1>10

Groups(a, b, c) == (a \o b) \o c = a \o (b \o c)

\* Lists are put together in any order of grouping.
LEMMA Regrouped ==
    ASSUME NEW a \in Buffer, NEW b \in Buffer, NEW c \in Buffer
    PROVE  Groups(a, b, c)
  BY ConcatAssociative DEF Buffer, Groups

\* No list is longer than nothing by nothing.
LEMMA Padding ==
    /\ \A n \in Int : n <= 0 => [i \in 1 .. n |-> 0] = << >>
    /\ \A a \in Buffer : a \o << >> = a
    /\ \A n \in Nat : [i \in 1 .. n |-> 0] \in Buffer /\ Len([i \in 1 .. n |-> 0]) = n
  <1>1. ASSUME NEW n \in Int, n <= 0 PROVE [i \in 1 .. n |-> 0] = << >>
    BY <1>1
  <1>2. \A a \in Buffer : a \o << >> = a
    BY ConcatEmptySeq DEF Buffer
  <1>3. ASSUME NEW n \in Nat
        PROVE  [i \in 1 .. n |-> 0] \in Buffer /\ Len([i \in 1 .. n |-> 0]) = n
    BY DEF Buffer
  <1> QED
    BY <1>1, <1>2, <1>3

-----------------------------------------------------------------------------
(* Pointers *)

\* A pointer is the identifier and as many bytes as a subpointer has.
LEMMA PointersAreJoined ==
    ASSUME NEW id, NEW sub \in Buffer, NEW exact \in BOOLEAN,
           Len(sub) >= SubBytes, exact => Len(sub) = SubBytes
    PROVE  EncodePointer(id, sub, exact) = Digits(id, IdBytes) \o SubSeq(sub, 1, SubBytes)
  <1>1. SubBytes \in Nat /\ Len(sub) \in Nat
    BY SizesAssumption DEF SizesAssumption, Buffer
  <1>2. EnsureAtLeast30Bytes(sub) = sub
    <2>1. [i \in 1 .. SubBytes - Len(sub) |-> 0] = << >>
      <3>1. SubBytes - Len(sub) \in Int /\ SubBytes - Len(sub) <= 0
        BY <1>1
      <3> QED
        BY <3>1, Padding, Zenon
    <2> QED
      BY <2>1, Padding DEF EnsureAtLeast30Bytes
  <1> QED
    BY <1>2 DEF EncodePointer

\* A subpointer of the right length is taken as it is.
LEMMA PointerOf ==
    ASSUME NEW id, NEW sub \in Buffer, Len(sub) = SubBytes
    PROVE  EncodePointer(id, sub, TRUE) = Digits(id, IdBytes) \o sub
  <1>1. SubBytes \in Nat
    BY SizesAssumption DEF SizesAssumption
  <1>2. SubSeq(sub, 1, SubBytes) = sub
    BY SubSeqFull DEF Buffer
  <1>3. EncodePointer(id, sub, TRUE) = Digits(id, IdBytes) \o SubSeq(sub, 1, SubBytes)
    <2>1. Len(sub) >= SubBytes /\ TRUE \in BOOLEAN
      BY <1>1
    <2> QED
      BY <2>1, PointersAreJoined, Zenon
  <1> QED
    BY <1>2, <1>3

\* Counting on from a cell of a field leads to another cell of the field, as long as the
\* subpointer has no carry.
LEMMA CountingOn ==
    ASSUME NEW id \in Identifier, NEW n \in Nat, NEW i \in Nat, n + i < PlaceValue[SubBytes]
    PROVE  BigEndianAdd(Digits(id, IdBytes) \o Digits(n, SubBytes), i)
             = Digits(id, IdBytes) \o Digits(n + i, SubBytes)
  <1>0. ASSUME NEW k \in Nat, k < PlaceValue[SubBytes]
        PROVE  Digits(id * PlaceValue[SubBytes] + k, IdBytes + SubBytes)
                 = Digits(id, IdBytes) \o Digits(k, SubBytes)
    <2>1. IdBytes \in Nat /\ SubBytes \in Nat /\ id \in Nat
      BY SizesAssumption DEF SizesAssumption, Identifier
    <2>2. DigitsJoin(id, IdBytes, k, SubBytes)
      BY <1>0, <2>1, DigitsOfJoined, Zenon
    <2> QED
      BY <2>2 DEF DigitsJoin
  <1> DEFINE v == PlaceValue[SubBytes]
             u == PlaceValue[IdBytes]
             x == id * v + n
  <1>1. IdBytes \in Nat /\ SubBytes \in Nat
    BY SizesAssumption DEF SizesAssumption
  <1>2. v \in Nat /\ u \in Nat /\ PlaceValue[IdBytes + SubBytes] = u * v
    BY <1>1, PlaceValues
  <1>3. id \in Nat /\ id + 1 <= u
    BY <1>2 DEF Identifier
  <1>4. n < v /\ n + i < v
    BY <1>2
  <1>5. Digits(id, IdBytes) \o Digits(n, SubBytes) = Digits(x, IdBytes + SubBytes)
    BY <1>0, <1>4
  <1> HIDE DEF v, u
  <1>6. x \in Nat /\ x < u * v
    <2> DEFINE iv == id * v
               uv == u * v
    <2>1. iv \in Nat /\ uv \in Nat
      BY <1>2, <1>3
    <2>2. iv + v <= uv
      <3>1. (id + 1) * v <= u * v
        BY <1>2, <1>3
      <3>2. (id + 1) * v = id * v + v
        BY <1>2, <1>3
      <3> QED
        BY <3>1, <3>2
    <2> HIDE DEF iv, uv
    <2>3. iv + n \in Nat /\ iv + n < uv
      BY <1>2, <1>4, <2>1, <2>2
    <2> QED
      BY <2>3 DEF iv, uv
  <1>7. Number(Digits(x, IdBytes + SubBytes)) = x
    <2> HIDE DEF x
    <2>1. IdBytes + SubBytes \in Nat
      BY <1>1
    <2> QED
      BY <1>2, <1>6, <2>1, NumberOfDigits
  <1>8. x + i = id * v + (n + i)
    <2> DEFINE iv == id * v
    <2>1. iv \in Nat
      BY <1>2, <1>3
    <2> HIDE DEF iv
    <2>2. (iv + n) + i = iv + (n + i)
      BY <2>1
    <2> QED
      BY <2>2 DEF iv
  <1>9. Digits(id * v + (n + i), IdBytes + SubBytes)
          = Digits(id, IdBytes) \o Digits(n + i, SubBytes)
    <2>1. n + i \in Nat
      OBVIOUS
    <2> QED
      BY <1>0, <1>4, <2>1 DEF v
  <1> QED
    BY <1>5, <1>7, <1>8, <1>9 DEF BigEndianAdd, PointerBytes

-----------------------------------------------------------------------------
(* The keys that are hashed *)

DecimalDigit == 48 .. 57

\* Dividing by ten.
LEMMA ByTen ==
    /\ \A n \in Nat : /\ n \div 10 \in Nat /\ n % 10 \in 0 .. 9 /\ n = 10 * (n \div 10) + (n % 10)
                      /\ 48 + (n % 10) \in DecimalDigit
    /\ \A n \in Nat : ~(n < 10) => n \div 10 < n
    /\ \A n \in Nat : n < 10 => 48 + n \in DecimalDigit
  <1>1. ASSUME NEW n \in Nat
        PROVE  n \div 10 \in Nat /\ n % 10 \in 0 .. 9 /\ n = 10 * (n \div 10) + (n % 10)
    OBVIOUS
  <1>2. ASSUME NEW n \in Nat, ~(n < 10) PROVE n \div 10 < n
    BY <1>1, <1>2
  <1> QED
    BY <1>1, <1>2 DEF DecimalDigit

\* Decimal writes every number, in decimal digits.
LEMMA DecimalLaw ==
    \A n \in Nat :
       /\ Decimal[n] = IF n < 10 THEN <<48 + n>> ELSE Append(Decimal[n \div 10], 48 + (n % 10))
       /\ Decimal[n] \in Seq(DecimalDigit)
  <1> DEFINE D == Seq(DecimalDigit)
             rank == [n \in Nat |-> n]
             stop == {n \in Nat : n < 10}
             base == [n \in Nat |-> IF n < 10 THEN <<48 + n>> ELSE << >>]
             join == [n \in Nat |-> [s \in D |-> Append(s, 48 + (n % 10))]]
             next == [n \in Nat |-> n \div 10]
             Law(f) == f = [n \in Nat |-> IF n < 10 THEN <<48 + n>>
                                          ELSE Append(f[n \div 10], 48 + (n % 10))]
  <1>1. rank \in [Nat -> Nat] /\ stop \in SUBSET Nat /\ next \in [Nat -> Nat]
    BY ByTen
  <1>2. \A n \in Nat \ stop : rank[next[n]] < rank[n]
    BY ByTen
  <1>3. base \in [Nat -> D]
    <2>1. << >> \in D /\ \A e \in DecimalDigit : <<e>> \in D
      OBVIOUS
    <2> QED
      BY <2>1, ByTen
  <1>4. join \in [Nat -> [D -> D]] /\ \A n \in Nat, s \in D : join[n][s] = Append(s, 48 + (n % 10))
    <2>1. \A s \in D, e \in DecimalDigit : Append(s, e) \in D
      BY AppendProperties
    <2> HIDE DEF D
    <2> QED
      BY <2>1, ByTen
  <1>5. \A n \in Nat : /\ n \in stop <=> n < 10
                       /\ n < 10 => base[n] = <<48 + n>>
                       /\ next[n] = n \div 10
    OBVIOUS
  <1> HIDE DEF rank, stop, base, join, next, D
  <1>6. PICK f \in [Nat -> D] : Follows(f, Nat, stop, base, next, join)
    BY <1>1, <1>2, <1>3, <1>4, Recursion, Zenon
  <1>7. Law(f)
    <2>1. \A n \in Nat : f[n \div 10] \in D
      BY ByTen
    <2>2. ASSUME NEW n \in Nat
          PROVE  f[n] = IF n < 10 THEN <<48 + n>> ELSE Append(f[n \div 10], 48 + (n % 10))
      <3>1. f[n] = IF n \in stop THEN base[n] ELSE join[n][f[next[n]]]
        BY <1>6 DEF Follows
      <3> QED
        BY <1>4, <1>5, <2>1, <3>1
    <2>3. f = [n \in Nat |-> f[n]]
      OBVIOUS
    <2> QED
      BY <2>2, <2>3
  <1>8. Law(Decimal)
    <2>1. Decimal = CHOOSE g : Law(g)
      BY DEF Decimal
    <2> HIDE DEF Law
    <2> QED
      BY <1>7, <2>1, Zenon
  <1> DEFINE g == Decimal
  <1>9. \A n \in Nat : g[n] = IF n < 10 THEN <<48 + n>> ELSE Append(g[n \div 10], 48 + (n % 10))
    BY <1>8
  <1> HIDE DEF g
  <1> DEFINE T == {n \in Nat : g[n] \in D}
  <1>10. ASSUME NEW n \in Nat, \A m \in Nat : rank[m] < rank[n] => m \in T PROVE n \in T
    <2>1. n < 10 => <<48 + n>> \in D
      <3>1. \A e \in DecimalDigit : <<e>> \in D
        BY DEF D
      <3> QED
        BY <3>1, ByTen
    <2>2. ~(n < 10) => Append(g[n \div 10], 48 + (n % 10)) \in D
      <3> SUFFICES ASSUME ~(n < 10) PROVE Append(g[n \div 10], 48 + (n % 10)) \in D
        OBVIOUS
      <3>1. n \div 10 \in Nat /\ n \div 10 < n
        BY ByTen
      <3>2. g[n \div 10] \in D
        BY <1>10, <3>1 DEF rank
      <3> QED
        BY <3>2, ByTen, AppendProperties DEF D
    <2> QED
      BY <1>9, <2>1, <2>2
  <1>11. \A n \in Nat : n \in T
    <2>1. T \in SUBSET Nat
      OBVIOUS
    <2> HIDE DEF T
    <2> QED
      BY <1>1, <1>10, <2>1, RankInduction, Zenon
  <1> QED
    BY <1>9, <1>11 DEF g, D

\* Numbers that are written alike are the same.
LEMMA DecimalTells ==
    \A n, m \in Nat : Decimal[n] = Decimal[m] => n = m
  <1> DEFINE g == Decimal
             D == Seq(DecimalDigit)
             rank == [n \in Nat |-> n]
             T == {n \in Nat : \A m \in Nat : g[n] = g[m] => n = m}
  <1>1. \A n \in Nat :
           /\ g[n] \in D
           /\ n < 10 => g[n] = <<48 + n>>
           /\ ~(n < 10) => g[n] = Append(g[n \div 10], 48 + (n % 10))
    BY DecimalLaw
  <1> HIDE DEF g
  <1>2. \A n \in Nat : n < 10 => Len(g[n]) = 1 /\ g[n][1] = 48 + n
    <2>1. \A e : Len(<<e>>) = 1 /\ <<e>>[1] = e
      OBVIOUS
    <2> QED
      BY <1>1, <2>1
  <1>3. \A n \in Nat : ~(n < 10) => Len(g[n]) >= 2
    <2> SUFFICES ASSUME NEW n \in Nat, ~(n < 10) PROVE Len(g[n]) >= 2
      OBVIOUS
    <2> DEFINE h == g[n \div 10]
    <2>1. n \div 10 \in Nat /\ 48 + (n % 10) \in DecimalDigit
      BY ByTen
    <2>2. h \in D /\ Len(h) \in Nat /\ Len(g[n]) = Len(h) + 1
      <3> DEFINE e == 48 + (n % 10)
      <3>1. h \in D /\ g[n] = Append(h, e) /\ e \in DecimalDigit
        BY <1>1, <2>1
      <3> HIDE DEF h, e
      <3> QED
        BY <3>1, AppendProperties
    <2>3. Len(h) >= 1
      <3>1. CASE n \div 10 < 10
        BY <1>2, <2>1, <3>1
      <3>2. CASE ~(n \div 10 < 10)
        <4> DEFINE k == n \div 10
        <4>1. k \div 10 \in Nat /\ 48 + (k % 10) \in DecimalDigit
          BY <2>1, ByTen
        <4>2. g[k \div 10] \in D /\ h = Append(g[k \div 10], 48 + (k % 10))
          BY <1>1, <2>1, <3>2, <4>1
        <4> HIDE DEF h, k
        <4>3. Len(h) = Len(g[k \div 10]) + 1 /\ Len(g[k \div 10]) \in Nat
          BY <4>1, <4>2, AppendProperties
        <4> QED
          BY <4>3
      <3> QED
        BY <3>1, <3>2
    <2> HIDE DEF h
    <2> QED
      BY <2>2, <2>3
  <1>4. ASSUME NEW n \in Nat, \A k \in Nat : rank[k] < rank[n] => k \in T PROVE n \in T
    <2> SUFFICES ASSUME NEW m \in Nat, g[n] = g[m] PROVE n = m
      OBVIOUS
    <2>1. CASE n < 10
      <3>1. m < 10
        <4>1. Len(g[n]) = 1
          BY <1>2, <2>1
        <4>2. ~(m < 10) => Len(g[m]) >= 2
          BY <1>3
        <4>3. Len(g[m]) = 1
          BY <4>1
        <4> HIDE DEF T, D, rank
        <4> QED
          BY <4>2, <4>3
      <3> QED
        BY <1>2, <2>1, <3>1
    <2>2. CASE ~(n < 10)
      <3>1. ~(m < 10)
        <4> SUFFICES ASSUME m < 10 PROVE FALSE
          OBVIOUS
        <4>1. Len(g[n]) >= 2
          BY <1>3, <2>2
        <4>2. Len(g[m]) = 1
          BY <1>2
        <4>3. Len(g[n]) = 1
          BY <4>2
        <4> HIDE DEF T, D, rank
        <4> QED
          BY <4>1, <4>3
      <3> DEFINE a == n \div 10
                 b == m \div 10
                 c == 48 + (n % 10)
                 d == 48 + (m % 10)
      <3>2. /\ a \in Nat /\ b \in Nat /\ c \in DecimalDigit /\ d \in DecimalDigit
            /\ n = 10 * a + (c - 48) /\ m = 10 * b + (d - 48) /\ a < n
        <4>1. n % 10 \in 0 .. 9 /\ m % 10 \in 0 .. 9
          BY ByTen
        <4>2. c - 48 = n % 10 /\ d - 48 = m % 10
          BY <4>1
        <4> QED
          BY <2>2, <4>2, ByTen
      <3>3. g[n] = Append(g[a], c) /\ g[m] = Append(g[b], d)
        BY <1>1, <2>2, <3>1
      <3> HIDE DEF a, b, c, d
      <3>4. g[a] = g[b] /\ c = d
        <4>1. g[a] \in D /\ g[b] \in D /\ Append(g[a], c) = Append(g[b], d)
          BY <1>1, <3>2, <3>3
        <4>2. c \in DecimalDigit /\ d \in DecimalDigit
          BY <3>2
        <4> DEFINE x == g[a]
                   y == g[b]
        <4>3. x \in Seq(DecimalDigit) /\ y \in Seq(DecimalDigit)
          BY <4>1
        <4>4. Append(x, c) = Append(y, d)
          BY <4>1
        <4> HIDE DEF x, y, D, T, rank
        <4>5. x = y /\ c = d
          BY <4>2, <4>3, <4>4, AppendInjective
        <4> QED
          BY <4>5 DEF x, y
      <3>5. a \in T
        BY <1>4, <3>2
      <3>6. a = b
        BY <3>2, <3>4, <3>5
      <3> QED
        BY <3>2, <3>4, <3>6
    <2> QED
      BY <2>1, <2>2
  <1>5. \A n \in Nat : n \in T
    <2>1. T \in SUBSET Nat /\ rank \in [Nat -> Nat]
      OBVIOUS
    <2> HIDE DEF T, rank
    <2> QED
      BY <1>4, <2>1, RankInduction, Zenon
  <1> QED
    BY <1>5 DEF g

\* The decimal digits of a number are a list without a colon.
LEMMA DecimalIsMarked ==
    ASSUME NEW n \in Nat
    PROVE  Decimal[n] \in Buffer /\ Unmarked(Decimal[n], Colon)
  <1> DEFINE d == Decimal[n]
  <1>1. d \in Seq(DecimalDigit)
    BY DecimalLaw
  <1> HIDE DEF d
  <1>2. DecimalDigit \subseteq Nat /\ Colon \notin DecimalDigit
    BY DEF DecimalDigit, Colon
  <1>3. d \in Seq(Nat)
    BY <1>1, <1>2, SeqMonotonic
  <1>4. \A i \in 1 .. Len(d) : d[i] \in DecimalDigit
    BY <1>1
  <1> QED
    BY <1>2, <1>3, <1>4 DEF d, Buffer, Unmarked

\* What a writer with the room for it holds.
LEMMA Written ==
    /\ \A n \in Nat, b \in Buffer : Len(b) <= n =>
          WriteBytes(NewWriter(n), b) = [written |-> b, capacity |-> n]
    /\ \A n \in Nat, a, b \in Buffer : Len(a) + Len(b) <= n =>
          WriteBytes([written |-> a, capacity |-> n], b) = [written |-> a \o b, capacity |-> n]
    /\ \A n \in Nat, b \in Buffer : Len(b) = n => GetBuffer([written |-> b, capacity |-> n]) = b
  <1>1. \A n \in Nat, a \in Buffer : [written |-> a, capacity |-> n] # Throw
    BY CodecAssumption DEF CodecAssumption
  <1>2. \A b \in Buffer : b # Throw /\ Len(b) \in Nat
    BY CodecAssumption DEF CodecAssumption, Buffer
  <1>3. ASSUME NEW n \in Nat, NEW a \in Buffer, NEW b \in Buffer, Len(a) + Len(b) <= n
        PROVE  WriteBytes([written |-> a, capacity |-> n], b)
                 = [written |-> a \o b, capacity |-> n]
    <2>1. ~(Len(a) + Len(b) > n)
      BY <1>2, <1>3
    <2> QED
      BY <1>1, <1>2, <2>1 DEF WriteBytes
  <1>4. ASSUME NEW n \in Nat, NEW b \in Buffer, Len(b) <= n
        PROVE  WriteBytes(NewWriter(n), b) = [written |-> b, capacity |-> n]
    <2>1. << >> \in Buffer /\ Len(<< >>) + Len(b) <= n
      BY <1>2, <1>4 DEF Buffer
    <2>2. << >> \o b = b
      BY ConcatEmptySeq DEF Buffer
    <2> QED
      BY <1>3, <2>1, <2>2 DEF NewWriter
  <1>5. ASSUME NEW n \in Nat, NEW b \in Buffer, Len(b) = n
        PROVE  GetBuffer([written |-> b, capacity |-> n]) = b
    <2>1. n - Len(b) \in Int /\ n - Len(b) <= 0
      BY <1>5
    <2>2. [i \in 1 .. n - Len(b) |-> 0] = << >>
      BY <2>1, Padding, Zenon
    <2> QED
      BY <2>2, Padding DEF GetBuffer
  <1> QED
    BY <1>3, <1>4, <1>5

\* The fields of a structure have their types.
LEMMA StructureFields ==
    ASSUME NEW s \in Structures
    PROVE  /\ s.id \in Identifier
           /\ s.type \in {"scalar", "string", "ownerTokens", "addressMap", "u256Map", "nested",
                          "merged"}
           /\ s.type = "string" => s.index \in Nat
           /\ s.type \in {"ownerTokens", "addressMap", "u256Map"} => s.key \in KeyWord
           /\ s.type = "nested" => s.parent \in KeyWord /\ s.key \in Seq(Byte)
           /\ s.type = "merged" => s.parent \in Seq(Nat) /\ s.key \in Seq(Nat)
  <1>1. IsStructure(s)
    BY FieldsAssumption DEF FieldsAssumption
  <1> QED
    BY <1>1 DEF IsStructure

\* Structures with the same fields are the same.
LEMMA SameFields ==
    ASSUME NEW s \in Structures, NEW t \in Structures, s.type = t.type, s.id = t.id
    PROVE  /\ s.type = "scalar" => s = t
           /\ s.type = "string" /\ s.index = t.index => s = t
           /\ s.type \in {"ownerTokens", "addressMap", "u256Map"} /\ s.key = t.key => s = t
           /\ s.type \in {"nested", "merged"} /\ s.parent = t.parent /\ s.key = t.key => s = t
  <1>1. IsStructure(s) /\ IsStructure(t)
    BY FieldsAssumption DEF FieldsAssumption
  <1>2. ASSUME s.type = "scalar" PROVE s = t
    <2> DEFINE R == [type : {"scalar"}, id : Identifier]
    <2>1. s \in R /\ t \in R
      BY <1>1, <1>2 DEF IsStructure
    <2>2. \A r \in R : r = [type |-> r.type, id |-> r.id]
      OBVIOUS
    <2> HIDE DEF R
    <2>3. /\ s = [type |-> s.type, id |-> s.id]
          /\ t = [type |-> t.type, id |-> t.id]
      BY <2>1, <2>2
    <2> QED
      BY <1>2, <2>3
  <1>3. ASSUME s.type = "string", s.index = t.index PROVE s = t
    <2> DEFINE R == [type : {"string"}, id : Identifier, index : Nat]
    <2>1. s \in R /\ t \in R
      BY <1>1, <1>3 DEF IsStructure
    <2>2. \A r \in R : r = [type |-> r.type, id |-> r.id, index |-> r.index]
      OBVIOUS
    <2> HIDE DEF R
    <2>3. /\ s = [type |-> s.type, id |-> s.id, index |-> s.index]
          /\ t = [type |-> t.type, id |-> t.id, index |-> t.index]
      BY <2>1, <2>2
    <2> QED
      BY <1>3, <2>3
  <1>4. ASSUME s.type \in {"ownerTokens", "addressMap", "u256Map"}, s.key = t.key PROVE s = t
    <2> DEFINE R == [type : {"ownerTokens", "addressMap", "u256Map"}, id : Identifier,
                     key : KeyWord]
    <2>1. s \in R /\ t \in R
      BY <1>1, <1>4 DEF IsStructure
    <2>2. \A r \in R : r = [type |-> r.type, id |-> r.id, key |-> r.key]
      OBVIOUS
    <2> HIDE DEF R
    <2>3. /\ s = [type |-> s.type, id |-> s.id, key |-> s.key]
          /\ t = [type |-> t.type, id |-> t.id, key |-> t.key]
      BY <2>1, <2>2
    <2> QED
      BY <1>4, <2>3
  <1>5. ASSUME s.type = "nested", s.parent = t.parent, s.key = t.key PROVE s = t
    <2> DEFINE R == [type : {"nested"}, id : Identifier, parent : KeyWord, key : Seq(Byte)]
    <2>1. s \in R /\ t \in R
      BY <1>1, <1>5 DEF IsStructure
    <2>2. \A r \in R : r = [type |-> r.type, id |-> r.id, parent |-> r.parent, key |-> r.key]
      OBVIOUS
    <2> HIDE DEF R
    <2>3. /\ s = [type |-> s.type, id |-> s.id, parent |-> s.parent, key |-> s.key]
          /\ t = [type |-> t.type, id |-> t.id, parent |-> t.parent, key |-> t.key]
      BY <2>1, <2>2
    <2> QED
      BY <1>5, <2>3
  <1>6. ASSUME s.type = "merged", s.parent = t.parent, s.key = t.key PROVE s = t
    <2> DEFINE R == [type : {"merged"}, id : Identifier, parent : Seq(Nat), key : Seq(Nat)]
    <2>1. s \in R /\ t \in R
      BY <1>1, <1>6 DEF IsStructure
    <2>2. \A r \in R : r = [type |-> r.type, id |-> r.id, parent |-> r.parent, key |-> r.key]
      OBVIOUS
    <2> HIDE DEF R
    <2>3. /\ s = [type |-> s.type, id |-> s.id, parent |-> s.parent, key |-> s.key]
          /\ t = [type |-> t.type, id |-> t.id, parent |-> t.parent, key |-> t.key]
      BY <2>1, <2>2
    <2> QED
      BY <1>6, <2>3
  <1> QED
    BY <1>2, <1>3, <1>4, <1>5, <1>6

\* A word is a list, and so is its start, which is that of the digits of its number.
LEMMA Words ==
    ASSUME NEW k \in KeyWord
    PROVE  /\ k \in Buffer /\ Len(k) = WordBytes
           /\ Truncated(k) \in [1 .. SubBytes -> Byte]
           /\ Truncated(k) \in Buffer /\ Len(Truncated(k)) = SubBytes
  <1>1. WordBytes \in Nat /\ SubBytes \in Nat /\ SubBytes <= WordBytes
    BY SizesAssumption DEF SizesAssumption
  <1>2. Byte \subseteq Nat
    BY DEF Byte
  <1>3. k \in [1 .. WordBytes -> Byte]
    BY DEF KeyWord
  <1> HIDE DEF Byte
  <1>4. k \in [1 .. WordBytes -> Nat]
    BY <1>2, <1>3
  <1>5. k \in Seq(Nat) /\ Len(k) = WordBytes
    BY <1>1, <1>4, SeqDef
  <1> DEFINE u == SubSeq(k, 1, SubBytes)
  <1>6. u \in Seq(Byte) /\ Len(u) = SubBytes
    <2>1. \A i \in 1 .. SubBytes : k[i] \in Byte
      BY <1>1, <1>3
    <2>2. 1 \in Int /\ SubBytes \in Int
      BY <1>1
    <2>3. u \in Seq(Byte) /\ Len(u) = IF 1 <= SubBytes THEN SubBytes - 1 + 1 ELSE 0
      BY <2>1, <2>2, SubSeqProperties
    <2> HIDE DEF u
    <2> QED
      BY <1>1, <2>3
  <1> HIDE DEF u
  <1>7. u \in [1 .. SubBytes -> Byte]
    BY <1>6
  <1>8. u \in Seq(Nat)
    BY <1>2, <1>6, SeqMonotonic
  <1> QED
    BY <1>5, <1>6, <1>7, <1>8 DEF Truncated, u, Buffer

\* Different words are hashed differently.
LEMMA U256KeysTell ==
    ASSUME NEW k \in KeyWord, NEW l \in KeyWord, U256MapKey(k) = U256MapKey(l)
    PROVE  k = l
  <1>1. WordBytes \in Nat /\ SubBytes \in Nat /\ SubBytes <= WordBytes
    BY SizesAssumption DEF SizesAssumption
  <1> DEFINE e == EMPTY_POINTER
             n == 2 * WordBytes
             pad == [i \in 1 .. n - (SubBytes + WordBytes) |-> 0]
  <1>2. e \in Buffer /\ Len(e) = SubBytes
    BY <1>1, Padding, Zenon DEF EMPTY_POINTER
  <1>3. n \in Nat /\ SubBytes <= n /\ SubBytes + WordBytes <= n
        /\ n - (SubBytes + WordBytes) \in Nat
    BY <1>1
  <1>4. pad \in Buffer
    <2>1. n - (SubBytes + WordBytes) \in Nat
      BY <1>3
    <2> QED
      BY <2>1, Padding, Zenon
  <1> HIDE DEF e, n, pad
  <1>5. ASSUME NEW x \in KeyWord PROVE U256MapKey(x) = (e \o x) \o pad
    <2>1. x \in Buffer /\ Len(x) = WordBytes
      BY <1>5, Words
    <2>2. WriteBytes(NewWriter(n), e) = [written |-> e, capacity |-> n]
      BY <1>2, <1>3, Written
    <2>3. WriteBytes([written |-> e, capacity |-> n], x) = [written |-> e \o x, capacity |-> n]
      <3>1. Len(e) + Len(x) <= n
        BY <1>2, <1>3, <2>1
      <3> QED
        BY <1>2, <1>3, <2>1, <3>1, Written
    <2>4. Len(e \o x) = SubBytes + WordBytes
      BY <1>2, <2>1, Joined
    <2>5. U256MapKey(x) = GetBuffer([written |-> e \o x, capacity |-> n])
      BY <2>2, <2>3 DEF U256MapKey, e, n
    <2> QED
      BY <2>4, <2>5 DEF GetBuffer, pad
  <1>6. (e \o k) \o pad = (e \o l) \o pad
    BY <1>5
  <1>7. k \in Buffer /\ l \in Buffer /\ Len(k) = Len(l)
    BY Words
  <1>8. e \o k \in Buffer /\ e \o l \in Buffer /\ Len(e \o k) = Len(e \o l)
    <2>1. e \o k \in Buffer /\ Len(e \o k) = Len(e) + Len(k)
      BY <1>2, <1>7, Joined, Zenon
    <2>2. e \o l \in Buffer /\ Len(e \o l) = Len(e) + Len(l)
      BY <1>2, <1>7, Joined, Zenon
    <2> QED
      BY <1>7, <2>1, <2>2
  <1>9. e \o k = e \o l
    <2> DEFINE x == e \o k
               y == e \o l
    <2>1. x \in Buffer /\ y \in Buffer /\ Len(x) = Len(y) /\ x \o pad = y \o pad
      BY <1>6, <1>8
    <2> HIDE DEF x, y
    <2>2. x = y
      BY <1>4, <2>1, JoinedTell
    <2> QED
      BY <2>2 DEF x, y
  <1> QED
    BY <1>2, <1>7, <1>9, JoinedTell

\* Pairs of a word and a key are hashed differently.
LEMMA NestedKeysTell ==
    ASSUME NEW p \in KeyWord, NEW q \in KeyWord, NEW k \in Seq(Byte), NEW l \in Seq(Byte),
           NestedKey(p, k) = NestedKey(q, l)
    PROVE  p = q /\ k = l
  <1>1. p \in Buffer /\ q \in Buffer /\ Len(p) = Len(q)
    BY Words
  <1>2. k \in Buffer /\ l \in Buffer
    <2>1. Byte \subseteq Nat
      BY DEF Byte
    <2> QED
      BY <2>1, SeqMonotonic DEF Buffer
  <1>3. ASSUME NEW a \in Buffer, NEW b \in Buffer PROVE NestedKey(a, b) = a \o b
    <2> DEFINE n == Len(b) + Len(a)
    <2>1. Len(a) \in Nat /\ Len(b) \in Nat
      BY Joined
    <2>2. n \in Nat /\ Len(a) <= n /\ Len(a) + Len(b) <= n
      BY <2>1
    <2>3. a \o b \in Buffer /\ Len(a \o b) = n
      <3>1. a \o b \in Buffer /\ Len(a \o b) = Len(a) + Len(b)
        BY Joined
      <3> QED
        BY <2>1, <3>1
    <2> HIDE DEF n
    <2>4. WriteBytes(NewWriter(n), a) = [written |-> a, capacity |-> n]
      BY <2>2, Written
    <2>5. WriteBytes([written |-> a, capacity |-> n], b) = [written |-> a \o b, capacity |-> n]
      BY <2>2, Written
    <2>6. GetBuffer([written |-> a \o b, capacity |-> n]) = a \o b
      BY <2>2, <2>3, Written
    <2> QED
      BY <2>4, <2>5, <2>6 DEF NestedKey, n
  <1>4. p \o k = q \o l
    BY <1>1, <1>2, <1>3
  <1> QED
    BY <1>1, <1>2, <1>4, JoinedTell

MergedInParts(d, f, g, u, v) ==
    /\ ((((d \o g) \o u) \o f) \o g) \o v \in Buffer
    /\ u \o ((f \o g) \o v) \in Buffer
    /\ ((((d \o g) \o u) \o f) \o g) \o v = (d \o g) \o (u \o ((f \o g) \o v))

\* The parts of a merged key, grouped as it is read.
LEMMA MergedParts ==
    ASSUME NEW d \in Buffer, NEW f \in Buffer, NEW g \in Buffer, NEW u \in Buffer,
           NEW v \in Buffer
    PROVE  MergedInParts(d, f, g, u, v)
  <1>1. PICK dg \in Buffer : dg = d \o g
    BY Joined
  <1>2. PICK fg \in Buffer : fg = f \o g
    BY Joined
  <1>3. PICK dgu \in Buffer : dgu = dg \o u
    BY Joined
  <1>4. PICK fgv \in Buffer : fgv = fg \o v
    BY Joined
  <1>5. (dgu \o f) \o g = dgu \o fg
    <2>1. Groups(dgu, f, g)
      BY Regrouped
    <2> QED
      BY <1>2, <2>1 DEF Groups
  <1>6. (dgu \o fg) \o v = dgu \o fgv
    <2>1. Groups(dgu, fg, v)
      BY Regrouped
    <2> QED
      BY <1>4, <2>1 DEF Groups
  <1>7. dgu \o fgv = dg \o (u \o fgv)
    <2>1. Groups(dg, u, fgv)
      BY Regrouped
    <2> QED
      BY <1>3, <2>1 DEF Groups
  <1>8. PICK ufgv \in Buffer : ufgv = u \o fgv
    BY Joined
  <1>9. dg \o ufgv \in Buffer
    BY Joined
  <1>10. /\ ((dgu \o f) \o g) \o v \in Buffer
         /\ ((dgu \o f) \o g) \o v = dg \o (u \o fgv)
    BY <1>5, <1>6, <1>7, <1>8, <1>9
  <1>11. u \o fgv \in Buffer
    BY <1>8
  <1> QED
    BY <1>1, <1>2, <1>3, <1>4, <1>10, <1>11 DEF MergedInParts

\* So are pairs of keys behind their lengths.
LEMMA MergedKeysTell ==
    ASSUME NEW p \in Buffer, NEW q \in Buffer, NEW k \in Buffer, NEW l \in Buffer,
           MergedKey(p, k) = MergedKey(q, l)
    PROVE  p = q /\ k = l
  <1> DEFINE D(x) == Decimal[Len(x)]
             H(x) == D(x) \o <<Colon>>
  <1>1. ASSUME NEW x \in Buffer
        PROVE  /\ Len(x) \in Nat /\ D(x) \in Buffer /\ H(x) \in Buffer
               /\ Unmarked(D(x), Colon)
    <2>1. Len(x) \in Nat
      BY Joined
    <2>2. D(x) \in Buffer /\ Unmarked(D(x), Colon)
      BY <2>1, DecimalIsMarked, Zenon
    <2>3. <<Colon>> \in Buffer
      BY DEF Buffer, Colon
    <2>4. H(x) \in Buffer
      BY <2>2, <2>3, Joined, Zenon
    <2> QED
      BY <2>1, <2>2, <2>4
  <1>2. ASSUME NEW x \in Buffer, NEW y \in Buffer
        PROVE  /\ x \o (H(y) \o y) \in Buffer
               /\ MergedKey(x, y) = H(x) \o (x \o (H(y) \o y))
    <2>1. PICK a \in Buffer : a = D(x)
      BY <1>1, <1>2
    <2>2. PICK b \in Buffer : b = D(y)
      BY <1>1, <1>2
    <2>3. PICK c \in Buffer : c = <<Colon>>
      <3>1. <<Colon>> \in Buffer
        BY DEF Buffer, Colon
      <3> QED
        BY <3>1
    <2> DEFINE m == MergeKey(x, y)
               e == (b \o c) \o y
    <2>5. m = ((((a \o c) \o x) \o b) \o c) \o y
      BY <2>1, <2>2, <2>3 DEF MergeKey
    <2>6. m \in Buffer /\ x \o e \in Buffer /\ m = (a \o c) \o (x \o e)
      <3>1. MergedInParts(a, b, c, x, y)
        BY MergedParts
      <3> HIDE DEF m
      <3> QED
        BY <2>5, <3>1 DEF MergedInParts
    <2> HIDE DEF m
    <2>7. MergedKey(x, y) = m
      <3>1. MergedKey(x, y) = GetBuffer(WriteBytes(NewWriter(Len(m)), m))
        BY DEF MergedKey, m
      <3>2. Len(m) \in Nat /\ Len(m) <= Len(m)
        <4>1. m \in Buffer
          BY <2>6
        <4>2. Len(m) \in Nat
          BY <4>1, Joined, Zenon
        <4> QED
          BY <4>2
      <3>3. WriteBytes(NewWriter(Len(m)), m) = [written |-> m, capacity |-> Len(m)]
        BY <2>6, <3>2, Written
      <3>4. GetBuffer([written |-> m, capacity |-> Len(m)]) = m
        BY <2>6, <3>2, Written
      <3> QED
        BY <3>1, <3>3, <3>4
    <2> QED
      BY <2>1, <2>2, <2>3, <2>6, <2>7
  <1> DEFINE X == p \o (H(k) \o k)
             Y == q \o (H(l) \o l)
  <1>3. X \in Buffer /\ Y \in Buffer /\ H(p) \o X = H(q) \o Y
    <2>1. X \in Buffer /\ MergedKey(p, k) = H(p) \o X
      BY <1>2, Zenon
    <2>2. Y \in Buffer /\ MergedKey(q, l) = H(q) \o Y
      BY <1>2, Zenon
    <2> QED
      BY <2>1, <2>2, Zenon
  <1>4. D(p) = D(q) /\ X = Y
    <2> DEFINE a == D(p)
               b == D(q)
    <2>1. /\ a \in Buffer /\ b \in Buffer /\ Colon \in Nat
          /\ Unmarked(a, Colon) /\ Unmarked(b, Colon)
      BY <1>1 DEF Colon
    <2>2. (a \o <<Colon>>) \o X = (b \o <<Colon>>) \o Y
      BY <1>3
    <2> HIDE DEF a, b, X, Y
    <2>3. a = b /\ X = Y
      BY <1>3, <2>1, <2>2, MarkedTell, Zenon
    <2> QED
      BY <2>3 DEF a, b
  <1>5. Len(p) = Len(q)
    BY <1>1, <1>4, DecimalTells
  <1> DEFINE V == H(k) \o k
             W == H(l) \o l
  <1>6. V \in Buffer /\ W \in Buffer
    BY <1>1, Joined, Zenon
  <1>7. p = q /\ V = W
    <2>1. p \o V = q \o W
      BY <1>4
    <2> HIDE DEF V, W
    <2> QED
      BY <1>5, <1>6, <2>1, JoinedTell
  <1>8. k = l
    <2> DEFINE a == D(k)
               b == D(l)
    <2>1. /\ a \in Buffer /\ b \in Buffer /\ Colon \in Nat
          /\ Unmarked(a, Colon) /\ Unmarked(b, Colon)
      BY <1>1 DEF Colon
    <2>2. (a \o <<Colon>>) \o k = (b \o <<Colon>>) \o l
      BY <1>7
    <2> HIDE DEF a, b
    <2> QED
      BY <2>1, <2>2, MarkedTell, Zenon
  <1> QED
    BY <1>7, <1>8

\* The structures of a field that hash their keys hash different ones.
LEMMA HashedKeysTell ==
    ASSUME NEW s \in Structures, NEW t \in Structures, IsHashed(s), s.type = t.type, s.id = t.id,
           s # t
    PROVE  HashedKey(s) # HashedKey(t)
  <1>1. CASE s.type = "u256Map"
    <2>1. s.key \in KeyWord /\ t.key \in KeyWord /\ s.key # t.key
      BY <1>1, StructureFields, SameFields
    <2>2. HashedKey(s) = U256MapKey(s.key) /\ HashedKey(t) = U256MapKey(t.key)
      BY <1>1 DEF HashedKey
    <2> QED
      BY <2>1, <2>2, U256KeysTell
  <1>2. CASE s.type = "nested"
    <2>1. /\ s.parent \in KeyWord /\ t.parent \in KeyWord
          /\ s.key \in Seq(Byte) /\ t.key \in Seq(Byte)
          /\ ~(s.parent = t.parent /\ s.key = t.key)
      BY <1>2, StructureFields, SameFields
    <2>2. HashedKey(s) = NestedKey(s.parent, s.key) /\ HashedKey(t) = NestedKey(t.parent, t.key)
      BY <1>2 DEF HashedKey
    <2> QED
      BY <2>1, <2>2, NestedKeysTell
  <1>3. CASE s.type = "merged"
    <2>1. /\ s.parent \in Buffer /\ t.parent \in Buffer /\ s.key \in Buffer /\ t.key \in Buffer
          /\ ~(s.parent = t.parent /\ s.key = t.key)
      BY <1>3, StructureFields, SameFields DEF Buffer
    <2>2. HashedKey(s) = MergedKey(s.parent, s.key) /\ HashedKey(t) = MergedKey(t.parent, t.key)
      BY <1>3 DEF HashedKey
    <2> QED
      BY <2>1, <2>2, MergedKeysTell
  <1> QED
    BY <1>1, <1>2, <1>3 DEF IsHashed

-----------------------------------------------------------------------------
(* The cells of a structure *)

\* The subpointers of the cells of a structure.
First(s) == Number(Truncated(s.key))
Subs(s) ==
    CASE s.type = "scalar" -> {EMPTY_POINTER}
      [] s.type = "string" ->
            {Digits(s.index * MaxString + i, SubBytes) : i \in 0 .. ChunkCount(MaxString) - 1}
      [] s.type = "ownerTokens" -> {Digits(First(s) + i, SubBytes) : i \in 0 .. Slots}
      [] s.type = "addressMap" -> {Truncated(s.key)}
      [] IsHashed(s) -> {Truncated(Digest(HashedKey(s)))}

HasCells(s) ==
    /\ \A sub \in Subs(s) : sub \in Buffer /\ Len(sub) = SubBytes
    /\ Cells(s, Slots) = {Digits(s.id, IdBytes) \o sub : sub \in Subs(s)}

\* A string has no more cells than bytes.
LEMMA FewChunks ==
    ChunkCount(MaxString) \in Nat /\ ChunkCount(MaxString) <= MaxString
  <1>1. /\ MaxString \in Nat \ {0} /\ HeaderBytes \in Nat \ {0} /\ CellBytes \in Nat \ {0}
    BY SizesAssumption DEF SizesAssumption
  <1>2. CASE MaxString <= HeaderBytes
    BY <1>1, <1>2 DEF ChunkCount
  <1>3. CASE ~(MaxString <= HeaderBytes)
    <2> DEFINE a == MaxString - HeaderBytes
               n == a + CellBytes - 1
               q == n \div CellBytes
               r == n % CellBytes
    <2>1. a \in Nat /\ 1 <= a /\ a + 1 <= MaxString /\ n \in Nat
      BY <1>1, <1>3
    <2>2. q \in Nat /\ r \in 0 .. CellBytes - 1 /\ n = CellBytes * q + r
      <3> HIDE DEF n
      <3> QED
        BY <1>1, <2>1, Division
    <2>3. CellBytes * q <= a + CellBytes - 1
      <3> DEFINE m == CellBytes * q
      <3>1. m \in Nat
        BY <1>1, <2>2
      <3>2. a + CellBytes - 1 = m + r
        BY <2>2
      <3> HIDE DEF m, q, r, a
      <3>3. m <= a + CellBytes - 1
        BY <1>1, <2>1, <2>2, <3>1, <3>2
      <3> QED
        BY <3>3 DEF m
    <2> HIDE DEF a, q, r
    <2>4. q <= a
      <3> SUFFICES ASSUME a + 1 <= q PROVE FALSE
        BY <2>1, <2>2
      <3>1. CellBytes * (a + 1) <= CellBytes * q
        BY <1>1, <2>1, <2>2
      <3>2. CellBytes * (a + 1) = CellBytes * a + CellBytes
        BY <1>1, <2>1
      <3>3. a <= CellBytes * a
        BY <1>1, <2>1
      <3> DEFINE x == CellBytes * a
                 y == CellBytes * q
      <3>4. x \in Nat /\ y \in Nat /\ a <= x /\ x + CellBytes <= y /\ y <= a + CellBytes - 1
        BY <1>1, <2>1, <2>2, <2>3, <3>1, <3>2, <3>3
      <3> HIDE DEF x, y
      <3> QED
        BY <1>1, <2>1, <3>4
    <2>5. ChunkCount(MaxString) = 1 + q
      BY <1>3 DEF ChunkCount, q, a
    <2> QED
      BY <1>1, <2>1, <2>2, <2>4, <2>5
  <1> QED
    BY <1>2, <1>3

\* The subpointer of a string is the number of the byte where it could begin.
LEMMA StringSubPointers ==
    ASSUME NEW n \in Nat
    PROVE  StringSubPointer(n) = Digits(n * MaxString, SubBytes)
  <1>1. WordBytes \in Nat /\ SubBytes \in Nat /\ SubBytes <= WordBytes /\ MaxString \in Nat
    BY SizesAssumption DEF SizesAssumption
  <1> DEFINE x == n * MaxString
             d == Digits(x, WordBytes)
             m == WordBytes - SubBytes + 1
             u == SubSeq(d, m, WordBytes)
             e == Digits(x, SubBytes)
  <1>2. x \in Nat
    BY <1>1
  <1> HIDE DEF x
  <1>3. \A i \in 1 .. WordBytes : d[i] = (x \div PlaceValue[WordBytes - i]) % Base
    BY DEF Digits
  <1>4. \A i \in 1 .. SubBytes : e[i] = (x \div PlaceValue[SubBytes - i]) % Base
    BY DEF Digits
  <1>5. d \in Seq(Byte) /\ Len(d) = WordBytes /\ e \in Seq(Byte) /\ Len(e) = SubBytes
    BY <1>1, <1>2, DigitsAreBytes
  <1>6. m \in 1 .. WordBytes + 1 /\ WordBytes - m + 1 = SubBytes
    BY <1>1
  <1> HIDE DEF d, e
  <1>7. /\ u \in Seq(Byte) /\ Len(u) = SubBytes
        /\ \A i \in 1 .. SubBytes : u[i] = d[m + i - 1]
    <2>1. \A i \in m .. WordBytes : d[i] \in Byte
      BY <1>1, <1>5, <1>6
    <2>2. m \in Int /\ WordBytes \in Int
      BY <1>1
    <2>3. /\ u \in Seq(Byte) /\ Len(u) = IF m <= WordBytes THEN WordBytes - m + 1 ELSE 0
          /\ \A i \in 1 .. WordBytes - m + 1 : u[i] = d[m + i - 1]
      <3> HIDE DEF m
      <3> QED
        BY <2>1, <2>2, SubSeqProperties
    <2> HIDE DEF u
    <2> QED
      BY <1>1, <1>6, <2>3
  <1>8. \A i \in 1 .. SubBytes : u[i] = e[i]
    <2> SUFFICES ASSUME NEW i \in 1 .. SubBytes PROVE u[i] = e[i]
      OBVIOUS
    <2>1. m + i - 1 \in 1 .. WordBytes /\ WordBytes - (m + i - 1) = SubBytes - i
      BY <1>1
    <2> DEFINE k == m + i - 1
    <2>2. u[i] = d[k] /\ d[k] = (x \div PlaceValue[WordBytes - k]) % Base
      BY <1>3, <1>7, <2>1
    <2>3. WordBytes - k = SubBytes - i
      BY <2>1
    <2> HIDE DEF k, u
    <2> QED
      BY <1>4, <2>2, <2>3
  <1>9. u = e
    <2> HIDE DEF u
    <2> QED
      BY <1>5, <1>7, <1>8, SeqEqual
  <1> QED
    BY <1>9 DEF StringSubPointer, e, d, x

\* The cells of a value of its own.
LEMMA ScalarHasCells ==
    ASSUME NEW s \in Structures, s.type = "scalar"
    PROVE  HasCells(s)
  <1>1. SubBytes \in Nat
    BY SizesAssumption DEF SizesAssumption
  <1>2. EMPTY_POINTER \in Buffer /\ Len(EMPTY_POINTER) = SubBytes
    BY <1>1, Padding, Zenon DEF EMPTY_POINTER
  <1>3. EncodePointer(s.id, EMPTY_POINTER, TRUE) = Digits(s.id, IdBytes) \o EMPTY_POINTER
    BY <1>2, PointerOf, Zenon
  <1>4. Subs(s) = {EMPTY_POINTER}
    BY DEF Subs, IsHashed
  <1>5. Cells(s, Slots) = {EncodePointer(s.id, EMPTY_POINTER, TRUE)}
    BY DEF Cells, ScalarCells, IsHashed
  <1> QED
    BY <1>2, <1>3, <1>4, <1>5 DEF HasCells

\* The cells of a string: it counts on from its subpointer.
LEMMA StringHasCells ==
    ASSUME NEW s \in Structures, s.type = "string"
    PROVE  HasCells(s)
  <1> DEFINE p == Digits(s.id, IdBytes)
             x == s.index * MaxString
             R == 0 .. ChunkCount(MaxString) - 1
  <1>1. SubBytes \in Nat /\ MaxString \in Nat /\ ChunkCount(MaxString) \in Nat
        /\ ChunkCount(MaxString) <= MaxString
    BY FewChunks, SizesAssumption DEF SizesAssumption
  <1>2. s.index \in Nat /\ s.id \in Identifier
    BY StructureFields
  <1>3. x \in Nat /\ x + MaxString <= PlaceValue[SubBytes]
    <2>1. (s.index + 1) * MaxString <= PlaceValue[SubBytes]
      BY FieldsAssumption DEF FieldsAssumption
    <2>2. (s.index + 1) * MaxString = x + MaxString
      BY <1>1, <1>2
    <2>3. x \in Nat
      BY <1>1, <1>2
    <2> HIDE DEF x
    <2> QED
      BY <2>1, <2>2, <2>3
  <1>4. EncodePointer(s.id, StringSubPointer(s.index), TRUE) = p \o Digits(x, SubBytes)
    <2> DEFINE u == Digits(x, SubBytes)
    <2> HIDE DEF x
    <2>1. u \in Buffer /\ Len(u) = SubBytes
      BY <1>1, <1>3, DigitsAreBytes
    <2>2. StringSubPointer(s.index) = u
      BY <1>2, StringSubPointers DEF x
    <2> HIDE DEF u
    <2>3. EncodePointer(s.id, u, TRUE) = p \o u
      BY <2>1, PointerOf
    <2> QED
      BY <2>2, <2>3 DEF u
  <1>5. ASSUME NEW i \in R
        PROVE  /\ BigEndianAdd(p \o Digits(x, SubBytes), i) = p \o Digits(x + i, SubBytes)
               /\ x + i \in Nat
    <2>1. i \in Nat /\ i < MaxString
      BY <1>1
    <2>2. PlaceValue[SubBytes] \in Nat
      BY <1>1, PlaceValues
    <2> HIDE DEF x, R
    <2>3. x + i < PlaceValue[SubBytes] /\ x + i \in Nat
      BY <1>1, <1>3, <2>1, <2>2
    <2> QED
      BY <1>2, <1>3, <2>1, <2>3, CountingOn
  <1>6. Subs(s) = {Digits(x + i, SubBytes) : i \in R}
    BY DEF Subs, IsHashed
  <1>7. Cells(s, Slots) = {BigEndianAdd(p \o Digits(x, SubBytes), i) : i \in R}
    <2>1. Cells(s, Slots) = StringCells(s.id, s.index, MaxString)
      BY DEF Cells, IsHashed
    <2> QED
      BY <1>4, <2>1 DEF StringCells
  <1> HIDE DEF x, R, p
  <1>8. \A sub \in Subs(s) : sub \in Buffer /\ Len(sub) = SubBytes
    BY <1>1, <1>5, <1>6, DigitsAreBytes
  <1>9. Cells(s, Slots) = {p \o sub : sub \in Subs(s)}
    <2>1. {BigEndianAdd(p \o Digits(x, SubBytes), i) : i \in R}
            = {p \o Digits(x + i, SubBytes) : i \in R}
      BY <1>5
    <2>2. {p \o sub : sub \in {Digits(x + i, SubBytes) : i \in R}}
            = {p \o Digits(x + i, SubBytes) : i \in R}
      OBVIOUS
    <2> QED
      BY <1>6, <1>7, <2>1, <2>2, Zenon
  <1> QED
    BY <1>8, <1>9 DEF HasCells, p

\* The start of an address as a number.
LEMMA Firsts ==
    ASSUME NEW s \in Structures, s.type = "ownerTokens"
    PROVE  /\ First(s) \in Nat /\ Digits(First(s), SubBytes) = Truncated(s.key)
           /\ First(s) + Slots < PlaceValue[SubBytes]
           /\ Truncated(s.key) \in Buffer /\ Len(Truncated(s.key)) = SubBytes
  <1>1. SubBytes \in Nat
    BY SizesAssumption DEF SizesAssumption
  <1>2. s.key \in KeyWord
    BY StructureFields
  <1> DEFINE u == Truncated(s.key)
  <1>3. u \in [1 .. SubBytes -> Byte] /\ u \in Buffer /\ Len(u) = SubBytes
    BY <1>2, Words
  <1> HIDE DEF u
  <1>4. Number(u) \in Nat /\ Digits(Number(u), SubBytes) = u
    BY <1>1, <1>3, DigitsOfNumber
  <1>5. First(s) = Number(u)
    BY DEF First, u
  <1>6. First(s) + Slots < PlaceValue[SubBytes]
    BY OwnersAssumption DEF OwnersAssumption, First
  <1> QED
    BY <1>3, <1>4, <1>5, <1>6 DEF u

\* The cells of the list of an owner: the header, and the slots that count on from it.
LEMMA OwnerHasCells ==
    ASSUME NEW s \in Structures, s.type = "ownerTokens"
    PROVE  HasCells(s)
  <1> DEFINE p == Digits(s.id, IdBytes)
             x == First(s)
             header == EncodePointer(s.id, Truncated(s.key), TRUE)
             base == BigEndianAdd(header, 1)
  <1>1. SubBytes \in Nat /\ Slots \in Nat /\ PlaceValue[SubBytes] \in Nat
    <2>1. SubBytes \in Nat /\ Slots \in Nat
      BY SizesAssumption DEF SizesAssumption
    <2> QED
      BY <2>1, PlaceValues
  <1>2. s.id \in Identifier
    BY StructureFields
  <1>3. x \in Nat /\ x + Slots < PlaceValue[SubBytes]
    BY Firsts
  <1>4. header = p \o Digits(x, SubBytes)
    <2> DEFINE u == Truncated(s.key)
    <2>1. u \in Buffer /\ Len(u) = SubBytes /\ Digits(x, SubBytes) = u
      BY Firsts
    <2> HIDE DEF u
    <2>2. EncodePointer(s.id, u, TRUE) = p \o u
      BY <2>1, PointerOf
    <2> QED
      BY <2>1, <2>2 DEF u
  <1> HIDE DEF header, x
  <1>5. ASSUME NEW i \in 0 .. Slots - 1
        PROVE  BigEndianAdd(base, i) = p \o Digits(x + (i + 1), SubBytes)
    <2>1. /\ i \in Nat /\ 1 \in Nat /\ x + 1 \in Nat /\ x + 1 < PlaceValue[SubBytes]
          /\ (x + 1) + i < PlaceValue[SubBytes] /\ (x + 1) + i = x + (i + 1)
      BY <1>1, <1>3
    <2>2. base = p \o Digits(x + 1, SubBytes)
      BY <1>2, <1>3, <1>4, <2>1, CountingOn
    <2> DEFINE y == x + 1
    <2>3. y \in Nat /\ y + i < PlaceValue[SubBytes]
      BY <2>1
    <2> HIDE DEF y, base
    <2>4. BigEndianAdd(p \o Digits(y, SubBytes), i) = p \o Digits(y + i, SubBytes)
      BY <1>2, <2>1, <2>3, CountingOn
    <2> QED
      BY <2>1, <2>2, <2>4 DEF y
  <1>6. Subs(s) = {Digits(x + i, SubBytes) : i \in 0 .. Slots}
    BY DEF Subs, IsHashed, x
  <1>7. Cells(s, Slots) = {header} \cup {BigEndianAdd(base, i) : i \in 0 .. Slots - 1}
    <2>1. Cells(s, Slots) = OwnerTokensCells(s.id, s.key, Slots)
      BY DEF Cells, IsHashed
    <2> QED
      BY <2>1, Zenon DEF OwnerTokensCells, ArrayCells, header
  <1> HIDE DEF p, base
  <1>8. \A sub \in Subs(s) : sub \in Buffer /\ Len(sub) = SubBytes
    <2>1. \A i \in 0 .. Slots : x + i \in Nat
      BY <1>1, <1>3
    <2> QED
      BY <1>1, <1>6, <2>1, DigitsAreBytes
  <1>9. ASSUME NEW c PROVE c \in Cells(s, Slots) <=> \E sub \in Subs(s) : c = p \o sub
    <2>1. ASSUME c \in Cells(s, Slots) PROVE \E sub \in Subs(s) : c = p \o sub
      <3>1. CASE c = header
        <4>1. x + 0 = x /\ 0 \in 0 .. Slots
          BY <1>1, <1>3
        <4>2. Digits(x, SubBytes) \in Subs(s)
          BY <1>6, <4>1
        <4> QED
          BY <1>4, <3>1, <4>2
      <3>2. CASE \E i \in 0 .. Slots - 1 : c = BigEndianAdd(base, i)
        <4>1. PICK i \in 0 .. Slots - 1 : c = BigEndianAdd(base, i)
          BY <3>2
        <4>2. i + 1 \in 0 .. Slots
          BY <1>1
        <4>3. Digits(x + (i + 1), SubBytes) \in Subs(s)
          BY <1>6, <4>2
        <4> QED
          BY <1>5, <4>1, <4>3
      <3> QED
        BY <1>7, <2>1, <3>1, <3>2
    <2>2. ASSUME NEW i \in 0 .. Slots PROVE p \o Digits(x + i, SubBytes) \in Cells(s, Slots)
      <3>1. CASE i = 0
        BY <1>3, <1>4, <1>7, <3>1
      <3>2. CASE i # 0
        <4> DEFINE k == i - 1
        <4>1. k \in 0 .. Slots - 1 /\ k + 1 = i
          BY <1>1, <3>2
        <4> HIDE DEF k
        <4>2. BigEndianAdd(base, k) = p \o Digits(x + i, SubBytes)
          BY <1>5, <4>1
        <4> QED
          BY <1>7, <4>1, <4>2
      <3> QED
        BY <3>1, <3>2
    <2> QED
      BY <1>6, <2>1, <2>2
  <1>10. Cells(s, Slots) = {p \o sub : sub \in Subs(s)}
    BY <1>9
  <1> QED
    BY <1>8, <1>10 DEF HasCells, p

\* The cell of a value kept under an address.
LEMMA AddressHasCells ==
    ASSUME NEW s \in Structures, s.type = "addressMap"
    PROVE  HasCells(s)
  <1> DEFINE u == Truncated(s.key)
  <1>1. u \in Buffer /\ Len(u) = SubBytes
    BY StructureFields, Words
  <1>2. Subs(s) = {u}
    BY DEF Subs, IsHashed
  <1>3. Cells(s, Slots) = {EncodePointer(s.id, u, TRUE)}
    BY DEF Cells, AddressMapCells, IsHashed
  <1> HIDE DEF u
  <1>4. EncodePointer(s.id, u, TRUE) = Digits(s.id, IdBytes) \o u
    BY <1>1, PointerOf
  <1> QED
    BY <1>1, <1>2, <1>3, <1>4 DEF HasCells

\* The cell of a value kept under a hash.
LEMMA HashHasCells ==
    ASSUME NEW s \in Structures, IsHashed(s)
    PROVE  HasCells(s)
  <1> DEFINE h == Digest(HashedKey(s))
             u == SubSeq(h, 1, SubBytes)
  <1>1. SubBytes \in Nat \ {0} /\ WordBytes \in Nat /\ SubBytes <= WordBytes
    BY SizesAssumption DEF SizesAssumption
  <1>2. h \in [1 .. WordBytes -> Nat]
    BY DigestAssumption DEF DigestAssumption
  <1>3. Subs(s) = {u}
    BY DEF Subs, IsHashed, Truncated
  <1>4. Cells(s, Slots) = {EncodePointer(s.id, h, FALSE)}
    BY DEF Cells, IsHashed, EncodePointerUnknownLength
  <1> HIDE DEF h
  <1>5. h \in Buffer /\ Len(h) = WordBytes
    BY <1>1, <1>2, SeqDef DEF Buffer
  <1>6. EncodePointer(s.id, h, FALSE) = Digits(s.id, IdBytes) \o u
    <2>1. Len(h) >= SubBytes /\ FALSE \in BOOLEAN
      BY <1>1, <1>5
    <2> QED
      BY <1>5, <2>1, PointersAreJoined, Zenon
  <1>7. u \in Buffer /\ Len(u) = SubBytes
    <2>1. \A i \in 1 .. SubBytes : h[i] \in Nat
      BY <1>1, <1>2
    <2>2. 1 \in Int /\ SubBytes \in Int
      BY <1>1
    <2>3. u \in Seq(Nat) /\ Len(u) = IF 1 <= SubBytes THEN SubBytes - 1 + 1 ELSE 0
      BY <2>1, <2>2, SubSeqProperties
    <2> HIDE DEF u
    <2> QED
      BY <1>1, <2>3 DEF Buffer
  <1> QED
    BY <1>3, <1>4, <1>6, <1>7 DEF HasCells

\* The cells of every structure.
LEMMA EveryHasCells ==
    ASSUME NEW s \in Structures
    PROVE  HasCells(s)
  BY StructureFields, ScalarHasCells, StringHasCells, OwnerHasCells, AddressHasCells, HashHasCells
     DEF IsHashed

-----------------------------------------------------------------------------
(* Cells are separate *)

\* Fields with different identifiers have no cell in common.
LEMMA FieldsApart ==
    ASSUME NEW s \in Structures, NEW t \in Structures, s.id # t.id
    PROVE  Cells(s, Slots) \cap Cells(t, Slots) = {}
  <1>1. IdBytes \in Nat /\ PlaceValue[IdBytes] \in Nat
    <2>1. IdBytes \in Nat
      BY SizesAssumption DEF SizesAssumption
    <2> QED
      BY <2>1, PlaceValues
  <1>2. s.id \in Identifier /\ t.id \in Identifier
    BY StructureFields
  <1>3. /\ s.id \in Nat /\ s.id < PlaceValue[IdBytes]
        /\ t.id \in Nat /\ t.id < PlaceValue[IdBytes]
    BY <1>1, <1>2 DEF Identifier
  <1> DEFINE p == Digits(s.id, IdBytes)
             q == Digits(t.id, IdBytes)
  <1>4. p # q
    BY <1>1, <1>3, DigitsTell
  <1>5. p \in Buffer /\ q \in Buffer /\ Len(p) = Len(q)
    BY <1>1, <1>3, DigitsAreBytes
  <1>6. /\ Cells(s, Slots) = {p \o sub : sub \in Subs(s)}
        /\ Cells(t, Slots) = {q \o sub : sub \in Subs(t)}
        /\ \A sub \in Subs(s) : sub \in Buffer
        /\ \A sub \in Subs(t) : sub \in Buffer
    BY EveryHasCells DEF HasCells
  <1> HIDE DEF p, q
  <1>7. \A a \in Subs(s), b \in Subs(t) : p \o a # q \o b
    BY <1>4, <1>5, <1>6, JoinedTell
  <1> QED
    BY <1>6, <1>7

\* Structures of a field share a cell when they share a subpointer.
LEMMA SubsDecide ==
    ASSUME NEW s \in Structures, NEW t \in Structures, s.id = t.id
    PROVE  Cells(s, Slots) \cap Cells(t, Slots) = {} <=> Subs(s) \cap Subs(t) = {}
  <1>1. IdBytes \in Nat /\ PlaceValue[IdBytes] \in Nat
    <2>1. IdBytes \in Nat
      BY SizesAssumption DEF SizesAssumption
    <2> QED
      BY <2>1, PlaceValues
  <1>2. s.id \in Nat
    <2>1. s.id \in Identifier
      BY StructureFields
    <2> QED
      BY <1>1, <2>1 DEF Identifier
  <1> DEFINE p == Digits(s.id, IdBytes)
  <1>3. p \in Buffer /\ Len(p) = Len(p)
    BY <1>1, <1>2, DigitsAreBytes
  <1>4. /\ Cells(s, Slots) = {p \o sub : sub \in Subs(s)}
        /\ Cells(t, Slots) = {p \o sub : sub \in Subs(t)}
        /\ \A sub \in Subs(s) : sub \in Buffer
        /\ \A sub \in Subs(t) : sub \in Buffer
    BY EveryHasCells DEF HasCells
  <1> HIDE DEF p
  <1>5. \A a \in Subs(s), b \in Subs(t) : p \o a = p \o b => a = b
    BY <1>3, <1>4, JoinedTell
  <1> DEFINE C == Cells(s, Slots)
             D == Cells(t, Slots)
             A == Subs(s)
             B == Subs(t)
  <1>6. C = {p \o sub : sub \in A} /\ D = {p \o sub : sub \in B}
    BY <1>4
  <1>7. \A a \in A, b \in B : p \o a = p \o b => a = b
    BY <1>5
  <1> HIDE DEF A, B, C, D
  <1>8. ASSUME NEW a \in A \cap B PROVE C \cap D # {}
    <2>1. p \o a \in C /\ p \o a \in D
      BY <1>6
    <2> QED
      BY <2>1
  <1>9. ASSUME NEW c \in C \cap D PROVE A \cap B # {}
    <2>1. PICK a \in A : c = p \o a
      BY <1>6
    <2>2. PICK b \in B : c = p \o b
      BY <1>6
    <2>3. a = b
      BY <1>7, <2>1, <2>2
    <2> QED
      BY <2>3
  <1>10. C \cap D = {} <=> A \cap B = {}
    BY <1>8, <1>9
  <1> QED
    BY <1>10 DEF A, B, C, D

\* Two strings of a field.
LEMMA StringsApart ==
    ASSUME NEW s \in Structures, NEW t \in Structures, s.type = "string", t.type = "string",
           s.index < t.index
    PROVE  Subs(s) \cap Subs(t) = {}
  <1> DEFINE M == MaxString
             x == s.index * M
             y == t.index * M
             R == 0 .. ChunkCount(M) - 1
             v == PlaceValue[SubBytes]
  <1>1. SubBytes \in Nat /\ M \in Nat /\ ChunkCount(M) \in Nat /\ ChunkCount(M) <= M /\ v \in Nat
    <2>1. SubBytes \in Nat /\ M \in Nat
      BY SizesAssumption DEF SizesAssumption
    <2> QED
      BY <2>1, FewChunks, PlaceValues
  <1>2. s.index \in Nat /\ t.index \in Nat
    BY StructureFields
  <1>3. x \in Nat /\ y \in Nat /\ x + M <= y /\ y + M <= v
    <2> DEFINE a == s.index
               b == t.index
    <2>1. (b + 1) * M <= v
      BY FieldsAssumption DEF FieldsAssumption
    <2>2. a \in Nat /\ b \in Nat /\ a + 1 <= b
      BY <1>2
    <2> HIDE DEF a, b, M, v
    <2>3. (b + 1) * M = b * M + M /\ (a + 1) * M = a * M + M
      BY <1>1, <2>2
    <2>4. (a + 1) * M <= b * M
      BY <1>1, <2>2
    <2>5. a * M \in Nat /\ b * M \in Nat
      BY <1>1, <2>2
    <2> QED
      BY <2>1, <2>3, <2>4, <2>5 DEF a, b
  <1>4. Subs(s) = {Digits(x + i, SubBytes) : i \in R}
    BY DEF Subs, IsHashed
  <1>5. Subs(t) = {Digits(y + i, SubBytes) : i \in R}
    BY DEF Subs, IsHashed
  <1> HIDE DEF x, y, v
  <1>6. \A i, j \in R : Digits(x + i, SubBytes) # Digits(y + j, SubBytes)
    <2> SUFFICES ASSUME NEW i \in R, NEW j \in R, Digits(x + i, SubBytes) = Digits(y + j, SubBytes)
                 PROVE  FALSE
      OBVIOUS
    <2> DEFINE m == x + i
               n == y + j
    <2>1. i \in Nat /\ j \in Nat /\ i < M /\ j < M
      BY <1>1
    <2>2. m \in Nat /\ n \in Nat /\ m < v /\ n < v /\ m < n
      <3> HIDE DEF M, R
      <3> QED
        BY <1>1, <1>3, <2>1
    <2>3. Digits(m, SubBytes) = Digits(n, SubBytes)
      OBVIOUS
    <2> HIDE DEF m, n
    <2>4. m = n
      BY <1>1, <2>2, <2>3, DigitsTell DEF v
    <2> QED
      BY <2>2, <2>4
  <1> QED
    BY <1>4, <1>5, <1>6

\* The lists of two owners.
LEMMA OwnersApart ==
    ASSUME NEW s \in Structures, NEW t \in Structures,
           s.type = "ownerTokens", t.type = "ownerTokens", First(s) < First(t)
    PROVE  Subs(s) \cap Subs(t) = {}
  <1> DEFINE x == First(s)
             y == First(t)
             v == PlaceValue[SubBytes]
             R == 0 .. Slots
  <1>1. SubBytes \in Nat /\ Slots \in Nat /\ v \in Nat
    <2>1. SubBytes \in Nat /\ Slots \in Nat
      BY SizesAssumption DEF SizesAssumption
    <2> QED
      BY <2>1, PlaceValues
  <1>2. x \in Nat /\ y \in Nat /\ x + Slots < v /\ y + Slots < v
    BY Firsts
  <1>3. x + Slots < y
    BY OwnersAssumption DEF OwnersAssumption, First
  <1>4. Subs(s) = {Digits(x + i, SubBytes) : i \in R}
    BY DEF Subs, IsHashed
  <1>5. Subs(t) = {Digits(y + i, SubBytes) : i \in R}
    BY DEF Subs, IsHashed
  <1> HIDE DEF x, y, v
  <1>6. \A i, j \in R : Digits(x + i, SubBytes) # Digits(y + j, SubBytes)
    <2> SUFFICES ASSUME NEW i \in R, NEW j \in R, Digits(x + i, SubBytes) = Digits(y + j, SubBytes)
                 PROVE  FALSE
      OBVIOUS
    <2> DEFINE m == x + i
               n == y + j
    <2>1. i \in Nat /\ j \in Nat /\ i <= Slots /\ j <= Slots
      BY <1>1
    <2>2. m \in Nat /\ n \in Nat /\ m < v /\ n < v /\ m < n
      BY <1>1, <1>2, <1>3, <2>1
    <2>3. Digits(m, SubBytes) = Digits(n, SubBytes)
      OBVIOUS
    <2> HIDE DEF m, n
    <2>4. m = n
      BY <1>1, <2>2, <2>3, DigitsTell DEF v
    <2> QED
      BY <2>2, <2>4
  <1> QED
    BY <1>4, <1>5, <1>6

\* A hash and the strings of its field.
LEMMA HashAndStringApart ==
    ASSUME NEW s \in Structures, NEW t \in Structures, IsHashed(s), t.type = "string"
    PROVE  Subs(s) \cap Subs(t) = {}
  <1> DEFINE h == Truncated(Digest(HashedKey(s)))
             x == t.index * MaxString
  <1>1. ChunkCount(MaxString) \in Nat /\ ChunkCount(MaxString) <= MaxString /\ MaxString \in Nat
    BY FewChunks, SizesAssumption DEF SizesAssumption
  <1>2. Subs(s) = {h}
    BY DEF Subs, IsHashed
  <1>3. Subs(t) = {Digits(x + i, SubBytes) : i \in 0 .. ChunkCount(MaxString) - 1}
    BY DEF Subs, IsHashed
  <1>4. \A i \in 0 .. MaxString - 1 : h # Digits(x + i, SubBytes)
    BY DigestAssumption DEF DigestAssumption
  <1> HIDE DEF h, x
  <1>5. \A i \in 0 .. ChunkCount(MaxString) - 1 : i \in 0 .. MaxString - 1
    BY <1>1
  <1> QED
    BY <1>2, <1>3, <1>4, <1>5

\* Two hashes of a field.
LEMMA HashesApart ==
    ASSUME NEW s \in Structures, NEW t \in Structures, IsHashed(s), s.type = t.type, s.id = t.id,
           s # t
    PROVE  Subs(s) \cap Subs(t) = {}
  <1>1. HashedKey(s) # HashedKey(t)
    BY HashedKeysTell
  <1>2. IsHashed(t)
    BY DEF IsHashed
  <1>3. Truncated(Digest(HashedKey(s))) # Truncated(Digest(HashedKey(t)))
    BY <1>1, <1>2, DigestAssumption DEF DigestAssumption
  <1>4. /\ Subs(s) = {Truncated(Digest(HashedKey(s)))}
        /\ Subs(t) = {Truncated(Digest(HashedKey(t)))}
    BY DEF Subs, IsHashed
  <1> QED
    BY <1>3, <1>4

SameStart(s, t) ==
    /\ s.type = t.type /\ s.type \in {"addressMap", "ownerTokens"}
    /\ s.id = t.id /\ Truncated(s.key) = Truncated(t.key)

\* Structures share a subpointer of a field exactly when they begin at the same address.
LEMMA SubsApart ==
    ASSUME NEW s \in Structures, NEW t \in Structures, s # t, s.id = t.id
    PROVE  Subs(s) \cap Subs(t) = {} <=> ~SameStart(s, t)
  <1>1. s.type = t.type \/ {s.type, t.type} = {"string", "u256Map"}
    BY FieldsAssumption DEF FieldsAssumption
  <1>2. CASE s.type # t.type
    <2>1. \/ s.type = "string" /\ t.type = "u256Map"
          \/ s.type = "u256Map" /\ t.type = "string"
      BY <1>1, <1>2
    <2>2. Subs(s) \cap Subs(t) = {}
      BY <2>1, HashAndStringApart DEF IsHashed
    <2> QED
      BY <1>2, <2>2 DEF SameStart
  <1>3. CASE s.type = t.type /\ IsHashed(s)
    <2>1. ~SameStart(s, t)
      BY <1>3 DEF IsHashed, SameStart
    <2> QED
      BY <1>3, <2>1, HashesApart
  <1>4. CASE s.type = t.type /\ s.type = "scalar"
    BY <1>4, SameFields
  <1>5. CASE s.type = t.type /\ s.type = "string"
    <2>1. s.index \in Nat /\ t.index \in Nat /\ s.index # t.index
      BY <1>5, StructureFields, SameFields
    <2>2. s.index < t.index \/ t.index < s.index
      BY <2>1
    <2>3. Subs(s) \cap Subs(t) = {}
      BY <1>5, <2>2, StringsApart
    <2> QED
      BY <1>5, <2>3 DEF SameStart
  <1>6. CASE s.type = t.type /\ s.type = "addressMap"
    <2>1. Subs(s) = {Truncated(s.key)} /\ Subs(t) = {Truncated(t.key)}
      BY <1>6 DEF Subs, IsHashed
    <2> QED
      BY <1>6, <2>1 DEF SameStart
  <1>7. CASE s.type = t.type /\ s.type = "ownerTokens"
    <2>1. /\ First(s) \in Nat /\ Digits(First(s), SubBytes) = Truncated(s.key)
          /\ First(t) \in Nat /\ Digits(First(t), SubBytes) = Truncated(t.key)
      BY <1>7, Firsts
    <2>2. CASE First(s) = First(t)
      <3>1. Subs(s) = Subs(t) /\ Subs(s) # {}
        <4>1. /\ Subs(s) = {Digits(First(s) + i, SubBytes) : i \in 0 .. Slots}
              /\ Subs(t) = {Digits(First(t) + i, SubBytes) : i \in 0 .. Slots}
          BY <1>7 DEF Subs, IsHashed
        <4>2. 0 \in 0 .. Slots
          BY SizesAssumption DEF SizesAssumption
        <4> QED
          BY <2>2, <4>1, <4>2
      <3>2. SameStart(s, t)
        BY <1>7, <2>1, <2>2 DEF SameStart
      <3> QED
        BY <3>1, <3>2
    <2>3. CASE First(s) # First(t)
      <3>1. First(s) < First(t) \/ First(t) < First(s)
        BY <2>1, <2>3
      <3>2. Subs(s) \cap Subs(t) = {}
        BY <1>7, <3>1, OwnersApart
      <3>3. ~SameStart(s, t)
        BY <2>1, <2>3 DEF SameStart, First
      <3> QED
        BY <3>2, <3>3
    <2> QED
      BY <2>2, <2>3
  <1> QED
    BY <1>2, <1>3, <1>4, <1>5, <1>6, <1>7, StructureFields DEF IsHashed

\* Structures are separate, whichever they are.
LEMMA StructuresAreSeparate ==
    ASSUME NEW s \in Structures, NEW t \in Structures
    PROVE  Separate(s, t, Slots)
  <1> SUFFICES ASSUME s # t
               PROVE  (Cells(s, Slots) \cap Cells(t, Slots) = {}) = ~SameStart(s, t)
    BY DEF Separate, SameStart
  <1>1. CASE s.id # t.id
    <2>1. ~SameStart(s, t)
      BY <1>1 DEF SameStart
    <2>2. Cells(s, Slots) \cap Cells(t, Slots) = {}
      BY <1>1, FieldsApart
    <2> QED
      BY <2>1, <2>2
  <1>2. CASE s.id = t.id
    <2>1. Cells(s, Slots) \cap Cells(t, Slots) = {} <=> Subs(s) \cap Subs(t) = {}
      BY <1>2, SubsDecide
    <2>2. Subs(s) \cap Subs(t) = {} <=> ~SameStart(s, t)
      BY <1>2, SubsApart
    <2> QED
      BY <2>1, <2>2
  <1> QED
    BY <1>1, <1>2

\* Whatever structures a contract has, within the named assumptions: those that hold as
\* much as they can share no cell, unless two addresses begin with the same bytes.
THEOREM LayoutHolds == LayoutSpec => []CellsAreSeparate
  <1> DEFINE Inv == input.kind = "cells" => input.structure \in Structures
  <1>1. Init => Inv
    BY DEF Init, Nothing
  <1>2. Inv /\ [LayoutNext]_input => Inv'
    <2> SUFFICES ASSUME Inv, [LayoutNext]_input PROVE Inv'
      OBVIOUS
    <2>1. CASE \E s \in Structures : input' = [kind |-> "cells", structure |-> s]
      BY <2>1
    <2>2. CASE input' = Nothing
      BY <2>2 DEF Nothing
    <2>3. CASE UNCHANGED input
      BY <2>3
    <2> QED
      BY <2>1, <2>2, <2>3 DEF LayoutNext
  <1>3. Inv => CellsAreSeparate
    BY StructuresAreSeparate DEF CellsAreSeparate
  <1> QED
    BY <1>1, <1>2, <1>3, PTL DEF LayoutSpec

-----------------------------------------------------------------------------
(* The byte codec: what stands in a buffer, and reading it                *)

\* bytes stand where a reader is.
Holds(r, bytes) ==
    /\ r.offset + Len(bytes) <= Len(r.buffer)
    /\ \A i \in 1 .. Len(bytes) : r.buffer[r.offset + i] = bytes[i]

\* The reader n bytes on, and the outcome of a read.
Moved(r, n) == [buffer |-> r.buffer, offset |-> r.offset + n]
Is(v, r) == [value |-> v, reader |-> r]

\* A reader moved on is a reader.
LEMMA Readers ==
    ASSUME NEW r \in Reader
    PROVE  /\ r.buffer \in Buffer /\ r.offset \in Nat /\ Len(r.buffer) \in Nat
           /\ \A n \in Nat : Moved(r, n) \in Reader
           /\ \A m, n \in Nat : Moved(Moved(r, m), n) = Moved(r, m + n)
           /\ Moved(r, 0) = r
  <1>1. r.buffer \in Buffer /\ r.offset \in Nat /\ r = [buffer |-> r.buffer, offset |-> r.offset]
    BY DEF Reader
  <1>2. Len(r.buffer) \in Nat
    BY <1>1 DEF Buffer
  <1>3. \A n \in Nat : Moved(r, n) \in Reader
    BY <1>1 DEF Moved, Reader
  <1>4. ASSUME NEW m \in Nat, NEW n \in Nat PROVE Moved(Moved(r, m), n) = Moved(r, m + n)
    <2>1. (r.offset + m) + n = r.offset + (m + n)
      BY <1>1
    <2> QED
      BY <2>1 DEF Moved
  <1>5. Moved(r, 0) = r
    <2>1. r.offset + 0 = r.offset
      BY <1>1
    <2> QED
      BY <1>1, <2>1 DEF Moved
  <1> QED
    BY <1>1, <1>2, <1>3, <1>4, <1>5

\* Moving on twice is moving on by both.
LEMMA MovedOn ==
    ASSUME NEW r \in Reader, NEW m \in Nat, NEW n \in Nat
    PROVE  Moved(r, m) \in Reader /\ Moved(Moved(r, m), n) = Moved(r, m + n)
  BY Readers

\* A list in two parts stands where its parts stand one behind the other.
LEMMA HoldsParts ==
    ASSUME NEW r \in Reader, NEW a \in Buffer, NEW b \in Buffer
    PROVE  Holds(r, a \o b) => Holds(r, a) /\ Holds(Moved(r, Len(a)), b)
  <1> DEFINE e == a \o b
  <1>1. /\ Len(a) \in Nat /\ Len(b) \in Nat /\ Len(e) = Len(a) + Len(b)
        /\ \A i \in 1 .. Len(a) : e[i] = a[i]
        /\ \A i \in 1 .. Len(b) : e[Len(a) + i] = b[i]
    BY Joined, Zenon
  <1>2. r.offset \in Nat /\ Len(r.buffer) \in Nat
    BY Readers, Zenon
  <1> HIDE DEF e
  <1> SUFFICES ASSUME Holds(r, e) PROVE Holds(r, a) /\ Holds(Moved(r, Len(a)), b)
    BY DEF e
  <1>3. /\ r.offset + Len(e) <= Len(r.buffer)
        /\ \A i \in 1 .. Len(e) : r.buffer[r.offset + i] = e[i]
    BY DEF Holds
  <1>4. r.offset + Len(a) <= Len(r.buffer) /\ (r.offset + Len(a)) + Len(b) <= Len(r.buffer)
    BY <1>1, <1>2, <1>3
  <1>5. \A i \in 1 .. Len(a) : r.buffer[r.offset + i] = a[i]
    BY <1>1, <1>3
  <1>6. ASSUME NEW i \in 1 .. Len(b) PROVE r.buffer[(r.offset + Len(a)) + i] = b[i]
    <2>1. Len(a) + i \in 1 .. Len(e) /\ r.offset + (Len(a) + i) = (r.offset + Len(a)) + i
      BY <1>1, <1>2
    <2> QED
      BY <1>1, <1>3, <2>1
  <1> QED
    BY <1>4, <1>5, <1>6 DEF Holds, Moved

\* A part of a list.
LEMMA Slice ==
    ASSUME NEW b \in Buffer, NEW m \in Nat, NEW n \in Nat, m + n <= Len(b)
    PROVE  /\ SubSeq(b, m + 1, m + n) \in Buffer /\ Len(SubSeq(b, m + 1, m + n)) = n
           /\ \A i \in 1 .. n : SubSeq(b, m + 1, m + n)[i] = b[m + i]
  <1> DEFINE s == SubSeq(b, m + 1, m + n)
             from == m + 1
             to == m + n
  <1>1. Len(b) \in Nat /\ \A i \in 1 .. Len(b) : b[i] \in Nat
    BY DEF Buffer
  <1>2. from \in Int /\ to \in Int /\ \A i \in from .. to : b[i] \in Nat
    BY <1>1
  <1>3. /\ SubSeq(b, from, to) \in Seq(Nat)
        /\ Len(SubSeq(b, from, to)) = IF from <= to THEN to - from + 1 ELSE 0
        /\ \A i \in 1 .. to - from + 1 : SubSeq(b, from, to)[i] = b[from + i - 1]
    <2> HIDE DEF from, to
    <2> QED
      BY <1>2, SubSeqProperties
  <1>4. /\ s \in Seq(Nat) /\ Len(s) = IF from <= to THEN to - from + 1 ELSE 0
        /\ \A i \in 1 .. to - from + 1 : s[i] = b[from + i - 1]
    BY <1>3
  <1> HIDE DEF s
  <1>5. to - from + 1 = n /\ Len(s) = n
    BY <1>4
  <1>6. ASSUME NEW i \in 1 .. n PROVE s[i] = b[m + i]
    <2>1. from + i - 1 = m + i
      OBVIOUS
    <2> QED
      BY <1>4, <1>5, <2>1
  <1> QED
    BY <1>4, <1>5, <1>6 DEF s, Buffer

\* Bytes that stand there are read.
LEMMA ReadBytesIs ==
    ASSUME NEW r \in Reader, NEW b \in Buffer, Holds(r, b)
    PROVE  ReadBytes(r, Len(b)) = Is(b, Moved(r, Len(b)))
  <1> DEFINE s == SubSeq(r.buffer, r.offset + 1, r.offset + Len(b))
  <1>1. r.buffer \in Seq(Nat) /\ r.offset \in Nat /\ Len(b) \in Nat /\ b \in Seq(Nat)
        /\ Len(r.buffer) \in Nat
    BY Readers DEF Buffer
  <1>2. s = b
    <2>1. r.offset + Len(b) <= Len(r.buffer)
      BY DEF Holds
    <2>2. /\ s \in Seq(Nat) /\ Len(s) = Len(b)
          /\ \A i \in 1 .. Len(b) : s[i] = r.buffer[r.offset + i]
      BY <1>1, <2>1, Slice DEF Buffer
    <2>3. \A i \in 1 .. Len(b) : s[i] = b[i]
      BY <2>2 DEF Holds
    <2> HIDE DEF s
    <2> QED
      BY <1>1, <2>2, <2>3, SeqEqual
  <1>3. [r EXCEPT !.offset = @ + Len(b)] = Moved(r, Len(b))
    BY DEF Reader, Moved
  <1> QED
    BY <1>1, <1>2, <1>3 DEF ReadBytes, VerifyEnd, Holds, Is

\* Bytes that would go beyond the end are not.
LEMMA ReadBytesBeyond ==
    ASSUME NEW r, NEW n, ~(r.offset + n <= Len(r.buffer))
    PROVE  ReadBytes(r, n) = Throw
  BY DEF ReadBytes, VerifyEnd

\* A read that has a value has not thrown.
LEMMA ReadIsNotThrow ==
    ASSUME NEW v \in ReadValue \cup (ReadValue \X Buffer), NEW r \in Reader
    PROVE  Is(v, r) # Throw
  BY ReadsAssumption DEF Is, ReadsAssumption

\* The length of two lists of known lengths put together.
LEMMA JoinedLength ==
    ASSUME NEW a \in Buffer, NEW b \in Buffer, NEW m, NEW n, Len(a) = m, Len(b) = n
    PROVE  a \o b \in Buffer /\ Len(a \o b) = m + n
  <1>1. a \o b \in Buffer /\ Len(a \o b) = Len(a) + Len(b)
    BY Joined, Zenon
  <1> QED
    BY <1>1

\* As many bytes as stand there are read, and the read has not thrown.
LEMMA BytesAreRead ==
    ASSUME NEW r \in Reader, NEW b \in Buffer, NEW n \in Nat, Len(b) = n, Holds(r, b)
    PROVE  /\ ReadBytes(r, n) = Is(b, Moved(r, n)) /\ Moved(r, n) \in Reader
           /\ Is(b, Moved(r, n)) # Throw
  <1>1. ReadBytes(r, n) = Is(b, Moved(r, n)) /\ Moved(r, n) \in Reader
    BY ReadBytesIs, Readers
  <1>2. b \in ReadValue
    BY DEF ReadValue
  <1> QED
    BY <1>1, <1>2, ReadIsNotThrow

-----------------------------------------------------------------------------
(* Single values *)

\* Integers have a width of at least a byte.
LEMMA Widths ==
    /\ \A type \in Integer : Width[type] \in Nat \ {0}
    /\ Width["u16"] = 2 /\ Width["u32"] = 4 /\ Width["u256"] = 32 /\ Width["u8"] = 1
    /\ {"u8", "u16", "u32", "u256"} \subseteq Integer /\ Unsigned \subseteq Integer
    /\ "i16" \notin Unsigned /\ "i32" \notin Unsigned
  BY DEF Width, Integer, Unsigned

\* Turned round twice, bytes are as they were.
LEMMA OrderedTwice ==
    ASSUME NEW b \in Buffer, NEW be \in BOOLEAN
    PROVE  /\ Ordered(b, be) \in Buffer /\ Len(Ordered(b, be)) = Len(b)
           /\ Ordered(Ordered(b, be), be) = b
  <1> DEFINE n == Len(b)
             c == Reverse(b)
  <1>1. n \in Nat /\ b \in [1 .. n -> Nat]
    BY DEF Buffer
  <1>2. c = [i \in 1 .. n |-> b[(n - i) + 1]]
    BY DEF Reverse
  <1> HIDE DEF c, n
  <1>3. c \in [1 .. n -> Nat]
    BY <1>1, <1>2
  <1>4. c \in Seq(Nat) /\ Len(c) = n
    BY <1>1, <1>3
  <1>5. Reverse(c) = [i \in 1 .. n |-> c[(n - i) + 1]]
    BY <1>4 DEF Reverse
  <1>6. ASSUME NEW i \in 1 .. n PROVE c[(n - i) + 1] = b[i]
    <2>1. (n - i) + 1 \in 1 .. n /\ (n - ((n - i) + 1)) + 1 = i
      BY <1>1
    <2> QED
      BY <1>2, <2>1
  <1>7. Reverse(c) = b
    BY <1>1, <1>5, <1>6
  <1> QED
    BY <1>4, <1>7 DEF Ordered, Buffer, c, n

\* Bytes can stand in a buffer.
LEMMA BytesAreNumbers ==
    ASSUME NEW s \in Seq(Byte)
    PROVE  s \in Buffer
  <1>1. Byte \subseteq Nat
    BY CodecAssumption DEF CodecAssumption, Byte
  <1>2. Len(s) \in Nat /\ s \in [1 .. Len(s) -> Byte]
    OBVIOUS
  <1>3. s \in [1 .. Len(s) -> Nat]
    BY <1>1, <1>2
  <1> QED
    BY <1>2, <1>3 DEF Buffer

\* So can a byte string, which is as long as it says.
LEMMA ByteStrings ==
    ASSUME NEW n \in Nat, NEW v \in ByteString(n)
    PROVE  v \in Buffer /\ Len(v) = n
  <1>1. Byte \subseteq Nat
    BY CodecAssumption DEF CodecAssumption, Byte
  <1>2. v \in [1 .. n -> Nat]
    BY <1>1 DEF ByteString
  <1> QED
    BY <1>2 DEF Buffer

\* An integer is read back in the byte order that it was written in.
LEMMA IntegerIs ==
    ASSUME NEW type \in Integer, NEW be \in BOOLEAN, NEW v \in Buffer, Len(v) = Width[type],
           ~(type \in {"i16", "i32"} /\ be), NEW r \in Reader, Holds(r, EncodeInteger(v, be))
    PROVE  ReadInteger(r, type, be) = Is(v, Moved(r, Width[type]))
  <1> DEFINE b == Ordered(v, be)
             w == Width[type]
  <1>1. b \in Buffer /\ Len(b) = w /\ Ordered(b, be) = v
    BY OrderedTwice, Zenon
  <1>2. Holds(r, b)
    BY DEF EncodeInteger
  <1>3. ReadsLittleEndian(type, be) <=> ~be
    BY DEF ReadsLittleEndian
  <1>4. w \in Nat
    BY Widths
  <1> HIDE DEF b, w
  <1>5. ReadBytes(r, w) = Is(b, Moved(r, w)) /\ Moved(r, w) \in Reader
    BY <1>1, <1>2, <1>4, ReadBytesIs, Readers
  <1>6. Is(b, Moved(r, w)) # Throw
    BY <1>1, <1>5, ReadIsNotThrow DEF ReadValue
  <1>7. ReadInteger(r, type, be) = Is(Ordered(b, ~ReadsLittleEndian(type, be)), Moved(r, w))
    BY <1>5, <1>6 DEF ReadInteger, Converted, Is, w
  <1>9. Ordered(b, ~ReadsLittleEndian(type, be)) = v
    <2>1. Ordered(b, ~ReadsLittleEndian(type, be)) = Ordered(b, be)
      BY <1>3 DEF Ordered
    <2> QED
      BY <1>1, <2>1
  <1> QED
    BY <1>7, <1>9 DEF w

\* A signed word that was written in the default order is turned round.
LEMMA SignedIs ==
    ASSUME NEW type \in {"i16", "i32"}, NEW be, NEW v \in Buffer, Len(v) = Width[type],
           NEW r \in Reader, Holds(r, v)
    PROVE  /\ ReadInteger(r, type, be) = Is(Reverse(v), Moved(r, Width[type]))
           /\ Reverse(v) \in Buffer /\ Moved(r, Width[type]) \in Reader
  <1> DEFINE w == Width[type]
             s == Moved(r, w)
  <1>1. type \in Integer /\ w \in Nat /\ ReadsLittleEndian(type, be) <=> TRUE
    BY Widths DEF Integer, Width, ReadsLittleEndian
  <1>2. ReadBytes(r, w) = Is(v, s) /\ s \in Reader /\ Is(v, s) # Throw
    BY <1>1, BytesAreRead
  <1>3. Ordered(v, ~ReadsLittleEndian(type, be)) = Reverse(v)
    BY <1>1 DEF Ordered
  <1>4. Reverse(v) \in Buffer
    <2>1. FALSE \in BOOLEAN /\ Ordered(v, FALSE) = Reverse(v)
      BY DEF Ordered
    <2> QED
      BY <2>1, OrderedTwice
  <1> HIDE DEF s, w
  <1>5. ReadInteger(r, type, be) = [Is(v, s) EXCEPT !.value = Reverse(v)]
    <2>1. Is(v, s).value = v
      BY DEF Is
    <2> QED
      BY <1>2, <1>3, <2>1 DEF ReadInteger, Converted, w
  <1> DEFINE x == Reverse(v)
  <1> HIDE DEF x
  <1>6. [Is(v, s) EXCEPT !.value = x] = Is(x, s)
    BY DEF Is
  <1> QED
    BY <1>2, <1>4, <1>5, <1>6 DEF x, s, w

\* So is a count that fits its width.
LEMMA CountIs ==
    ASSUME NEW type \in {"u16", "u32"}, NEW be \in BOOLEAN, NEW n \in Nat,
           n < PlaceValue[Width[type]], NEW r \in Reader,
           Holds(r, Ordered(Digits(n, Width[type]), be))
    PROVE  ReadCount(r, type, be) = Is(n, Moved(r, Width[type]))
  <1> DEFINE w == Width[type]
             d == Digits(n, w)
  <1>1. type \in Integer /\ ~(type \in {"i16", "i32"} /\ be) /\ w \in Nat
    BY Widths
  <1>2. d \in Buffer /\ Len(d) = w
    BY <1>1, DigitsAreBytes
  <1>3. Number(d) = n
    BY <1>1, NumberOfDigits
  <1> HIDE DEF d
  <1>4. ReadInteger(r, type, be) = Is(d, Moved(r, w))
    BY <1>1, <1>2, IntegerIs DEF EncodeInteger, d
  <1>5. Is(d, Moved(r, w)) # Throw
    BY <1>1, <1>2, ReadIsNotThrow, Readers DEF ReadValue
  <1> QED
    BY <1>3, <1>4, <1>5 DEF ReadCount, Converted, Is

\* Bytes with their length in front are read back (readBytesWithLength).
LEMMA WithLengthIs ==
    ASSUME NEW be \in BOOLEAN, NEW v \in Buffer, Len(v) < PlaceValue[Width.u32],
           NEW r \in Reader, Holds(r, EncodeWithLength(v, be))
    PROVE  ReadBytesWithLength(r, be) = Is(v, Moved(r, Width.u32 + Len(v)))
  <1> DEFINE n == Len(v)
             d == Ordered(Digits(n, Width.u32), be)
             s == Moved(r, Width.u32)
  <1>1. n \in Nat /\ Width.u32 \in Nat /\ Width.u32 = Width["u32"]
    BY Widths DEF Buffer
  <1>2. d \in Buffer /\ Len(d) = Width.u32
    BY <1>1, DigitsAreBytes, OrderedTwice
  <1> HIDE DEF d
  <1>3. Holds(r, d) /\ Holds(s, v)
    BY <1>2, HoldsParts DEF EncodeWithLength, d
  <1>4. s \in Reader /\ Moved(s, n) = Moved(r, Width.u32 + n)
    <2> DEFINE w == Width.u32
    <2>1. w \in Nat
      BY <1>1
    <2> HIDE DEF w, n
    <2>2. Moved(r, w) \in Reader /\ Moved(Moved(r, w), n) = Moved(r, w + n)
      BY <1>1, <2>1, MovedOn, Zenon
    <2> QED
      BY <2>2 DEF w
  <1>5. ReadCount(r, "u32", be) = Is(n, s)
    BY <1>1, <1>3, CountIs DEF d
  <1>6. Is(n, s) # Throw
    BY <1>1, <1>4, ReadIsNotThrow DEF ReadValue
  <1>7. ReadBytes(s, n) = Is(v, Moved(s, n))
    BY <1>3, <1>4, ReadBytesIs
  <1> HIDE DEF s
  <1> QED
    BY <1>4, <1>5, <1>6, <1>7 DEF ReadBytesWithLength, Then, Is

\* Text without a zero byte is read as other bytes are.
LEMMA TextIs ==
    ASSUME NEW v \in Buffer, Len(v) < PlaceValue[Width.u32], \A i \in 1 .. Len(v) : v[i] # 0,
           NEW r \in Reader, Holds(r, EncodeWithLength(v, TRUE))
    PROVE  ReadStringWithLength(r, TRUE) = Is(v, Moved(r, Width.u32 + Len(v)))
  <1> DEFINE n == Len(v)
             d == Ordered(Digits(n, Width.u32), TRUE)
             w == Width.u32
             s == Moved(r, w)
  <1>1. n \in Nat /\ w \in Nat /\ w = Width["u32"]
    BY Widths DEF Buffer
  <1>2. d \in Buffer /\ Len(d) = w
    BY <1>1, DigitsAreBytes, OrderedTwice
  <1>3. Holds(r, d) /\ Holds(s, v)
    <2> HIDE DEF d
    <2> QED
      BY <1>2, HoldsParts DEF EncodeWithLength, d
  <1>4. s \in Reader /\ Moved(s, n) = Moved(r, w + n)
    <2> HIDE DEF w, n
    <2> QED
      BY <1>1, MovedOn, Zenon
  <1>5. ReadCount(r, "u32", TRUE) = Is(n, s)
    BY <1>1, <1>3, CountIs DEF d
  <1>6. Is(n, s) # Throw
    BY <1>1, <1>4, ReadIsNotThrow DEF ReadValue
  <1>7. ReadBytes(s, n) = Is(v, Moved(s, n))
    BY <1>3, <1>4, ReadBytesIs
  <1> HIDE DEF s
  <1>8. ReadString(s, n) = ReadBytes(s, n)
    <2> DEFINE left == SubSeq(s.buffer, s.offset + 1, Len(s.buffer))
               m == Len(s.buffer) - s.offset
    <2>1. /\ s.buffer \in Buffer /\ s.offset \in Nat /\ Len(s.buffer) \in Nat
          /\ s.offset + n <= Len(s.buffer)
          /\ \A i \in 1 .. n : s.buffer[s.offset + i] = v[i]
      BY <1>3, <1>4, Readers DEF Holds
    <2>2. m \in Nat /\ s.offset + m = Len(s.buffer) /\ n <= m
      BY <1>1, <2>1
    <2> HIDE DEF m
    <2>3. \A i \in 1 .. m : left[i] = s.buffer[s.offset + i]
      <3> DEFINE b == s.buffer
                 o == s.offset
      <3>1. b \in Buffer /\ o \in Nat /\ o + m <= Len(b)
        BY <2>1, <2>2
      <3> HIDE DEF b, o
      <3>2. \A i \in 1 .. m : SubSeq(b, o + 1, o + m)[i] = b[o + i]
        BY <2>2, <3>1, Slice
      <3> QED
        BY <2>2, <3>2 DEF b, o
    <2> HIDE DEF left
    <2>4. \A i \in 1 .. n : left[i] # 0
      BY <1>1, <2>1, <2>2, <2>3
    <2>5. {i \in 1 .. n : i <= Len(left) /\ left[i] = 0} = {}
      BY <2>4
    <2> QED
      BY <2>5 DEF ReadString, left
  <1>9. ReadStringWithLength(r, TRUE) = ReadString(s, n)
    <2>1. Is(n, s).value = n /\ Is(n, s).reader = s
      BY DEF Is
    <2> HIDE DEF d, n
    <2> QED
      BY <1>5, <1>6, <2>1 DEF ReadStringWithLength, Then
  <1> QED
    BY <1>4, <1>7, <1>8, <1>9 DEF n, w

\* A boolean is read back.
LEMMA BooleanIs ==
    ASSUME NEW v \in BOOLEAN, NEW r \in Reader, Holds(r, EncodeBoolean(v))
    PROVE  ReadBoolean(r) = Is(v, Moved(r, 1))
  <1> DEFINE x == IF v THEN 1 ELSE 0
             b == <<x>>
  <1>1. b \in Buffer /\ Len(b) = 1 /\ b[1] = x
    BY DEF Buffer
  <1>2. Holds(r, b)
    BY DEF EncodeBoolean
  <1> HIDE DEF b
  <1>3. ReadBytes(r, 1) = Is(b, Moved(r, 1))
    BY <1>1, <1>2, BytesAreRead
  <1>4. Is(b, Moved(r, 1)) # Throw
    BY <1>1, <1>2, BytesAreRead
  <1>5. (b[1] # 0) = v
    BY <1>1
  <1> QED
    BY <1>3, <1>4, <1>5 DEF ReadBoolean, Converted, Is

\* An address is read back.
LEMMA AddressIs ==
    ASSUME NEW v \in Buffer, Len(v) = AddressLength, NEW r \in Reader, Holds(r, v)
    PROVE  /\ EncodeAddress(v) = v
           /\ ReadAddress(r) = Is(v, Moved(r, AddressLength))
  <1>1. EncodeAddress(v) = v
    BY DEF EncodeAddress, AddressLength
  <1> QED
    BY <1>1, ReadBytesIs DEF ReadAddress

\* An extended address is encoded in two addresses and read back.
LEMMA ExtendedAddressIs ==
    ASSUME NEW v \in Extended
    PROVE  /\ EncodeExtendedAddress(v) \in Buffer /\ v \in ReadExtended
           /\ Len(EncodeExtendedAddress(v)) = 2 * AddressLength
           /\ \A r \in Reader : Holds(r, EncodeExtendedAddress(v)) =>
                 ReadExtendedAddress(r) = Is(v, Moved(r, 2 * AddressLength))
  <1> DEFINE a == v.tweaked
             k == v.key
             n == AddressLength
             b == a \o k
  <1>1. n \in Nat /\ n = 32
    BY DEF AddressLength
  <1>2. /\ a \in ByteString(AddressLength) /\ k \in ByteString(AddressLength)
        /\ v = [tweaked |-> a, key |-> k]
    BY DEF Extended
  <1>3. a \in Buffer /\ k \in Buffer /\ Len(a) = n /\ Len(k) = n
    BY <1>1, <1>2, ByteStrings
  <1>4. v \in ReadExtended
    BY <1>2, <1>3 DEF ReadExtended
  <1> HIDE DEF a, k, n
  <1>5. /\ b \in Buffer /\ Len(b) = n + n
        /\ \A i \in 1 .. n : b[i] = a[i]
        /\ \A i \in 1 .. n : b[n + i] = k[i]
    <2>1. /\ b \in Buffer /\ Len(b) = Len(a) + Len(k)
          /\ \A i \in 1 .. Len(a) : b[i] = a[i]
          /\ \A i \in 1 .. Len(k) : b[Len(a) + i] = k[i]
      BY <1>3, Joined, Zenon
    <2> HIDE DEF b
    <2> QED
      BY <1>3, <2>1
  <1>6. EncodeExtendedAddress(v) = b
    BY DEF EncodeExtendedAddress, a, k
  <1> HIDE DEF b
  <1>7. SubSeq(b, 1, n) = a /\ SubSeq(b, n + 1, n + n) = k
    <2>1. 0 \in Nat /\ 0 + n <= Len(b) /\ n + n <= Len(b)
      BY <1>1, <1>5
    <2>2. /\ SubSeq(b, 0 + 1, 0 + n) \in Buffer /\ Len(SubSeq(b, 0 + 1, 0 + n)) = n
          /\ \A i \in 1 .. n : SubSeq(b, 0 + 1, 0 + n)[i] = b[0 + i]
      BY <1>1, <1>5, <2>1, Slice, Zenon
    <2>3. /\ SubSeq(b, n + 1, n + n) \in Buffer /\ Len(SubSeq(b, n + 1, n + n)) = n
          /\ \A i \in 1 .. n : SubSeq(b, n + 1, n + n)[i] = b[n + i]
      BY <1>1, <1>5, <2>1, Slice, Zenon
    <2> DEFINE x == SubSeq(b, 1, n)
               y == SubSeq(b, n + 1, n + n)
    <2>4. x \in Buffer /\ Len(x) = n /\ \A i \in 1 .. n : x[i] = a[i]
      BY <1>1, <1>5, <2>2
    <2>5. y \in Buffer /\ Len(y) = n /\ \A i \in 1 .. n : y[i] = k[i]
      BY <1>5, <2>3
    <2> HIDE DEF x, y
    <2>6. x = a
      BY <1>3, <2>4, SeqEqual DEF Buffer
    <2>7. y = k
      BY <1>3, <2>5, SeqEqual DEF Buffer
    <2> QED
      BY <2>6, <2>7 DEF x, y
  <1>8. ASSUME NEW r \in Reader, Holds(r, b)
        PROVE  ReadExtendedAddress(r) = Is(v, Moved(r, n + n))
    <2> DEFINE m == n + n
    <2>1. m \in Nat /\ Len(b) = m /\ m = 2 * AddressLength /\ n = AddressLength
      BY <1>1, <1>5 DEF n
    <2> HIDE DEF m
    <2>2. ReadBytes(r, m) = Is(b, Moved(r, m)) /\ Is(b, Moved(r, m)) # Throw
      BY <1>5, <1>8, <2>1, BytesAreRead
    <2>3. SubSeq(b, 1, AddressLength) = a /\ SubSeq(b, AddressLength + 1, m) = k
      BY <1>7, <2>1 DEF m
    <2>4. ReadExtendedAddress(r) =
             Is([tweaked |-> SubSeq(b, 1, AddressLength),
                 key |-> SubSeq(b, AddressLength + 1, m)], Moved(r, m))
      <3> DEFINE q == Moved(r, m)
                 l == 2 * AddressLength
                 x == [tweaked |-> SubSeq(b, 1, AddressLength),
                       key |-> SubSeq(b, AddressLength + 1, l)]
      <3>1. ReadBytes(r, l) = Is(b, q) /\ Is(b, q) # Throw /\ Is(b, q).value = b
        BY <2>1, <2>2 DEF Is
      <3> HIDE DEF q, l
      <3>2. ReadExtendedAddress(r) = [Is(b, q) EXCEPT !.value = x]
        BY <3>1 DEF ReadExtendedAddress, Converted, l
      <3>3. [Is(b, q) EXCEPT !.value = x] = Is(x, q)
        <4> HIDE DEF x
        <4> QED
          BY DEF Is
      <3> QED
        BY <2>1, <3>2, <3>3 DEF q, l
    <2> QED
      BY <1>2, <2>3, <2>4 DEF m
  <1>9. n + n = 2 * AddressLength
    BY <1>1 DEF n
  <1> QED
    BY <1>4, <1>5, <1>6, <1>8, <1>9

\* A signature is written behind its address and read back.
LEMMA SchnorrIs ==
    ASSUME NEW v \in [address : Extended, signature : Seq(Byte)],
           Len(v.signature) = SignatureLength
    PROVE  /\ EncodeSchnorr(v) \in Buffer /\ v \in ReadValue
           /\ Len(EncodeSchnorr(v)) = 2 * AddressLength + SignatureLength
           /\ \A r \in Reader : Holds(r, EncodeSchnorr(v)) =>
                 ReadSchnorr(r) = Is(v, Moved(r, 2 * AddressLength + SignatureLength))
  <1> DEFINE a == v.address
             t == v.signature
             n == 2 * AddressLength
             m == SignatureLength
             b == EncodeExtendedAddress(a)
             e == b \o t
  <1>1. n \in Nat /\ m \in Nat
    BY DEF AddressLength, SignatureLength
  <1>2. /\ a \in Extended /\ t \in Buffer /\ Len(t) = m /\ v = [address |-> a, signature |-> t]
    <2>1. t \in Seq(Byte)
      OBVIOUS
    <2> QED
      BY <2>1, BytesAreNumbers
  <1> HIDE DEF a, t
  <1>3. b \in Buffer /\ a \in ReadExtended /\ Len(b) = n
    BY <1>2, ExtendedAddressIs
  <1>4. ASSUME NEW r \in Reader, Holds(r, b)
        PROVE  ReadExtendedAddress(r) = Is(a, Moved(r, n))
    BY <1>2, <1>4, ExtendedAddressIs
  <1>5. EncodeSchnorr(v) = e
    BY <1>2 DEF EncodeSchnorr, a, t
  <1> HIDE DEF n, m, b
  <1>6. e \in Buffer /\ Len(e) = n + m
    BY <1>2, <1>3, Joined
  <1>7. v \in ReadValue
    BY <1>2, <1>3 DEF ReadValue
  <1>8. ASSUME NEW r \in Reader, Holds(r, e)
        PROVE  ReadSchnorr(r) = Is(v, Moved(r, n + m))
    <2> DEFINE s == Moved(r, n)
    <2>1. Holds(r, b) /\ Holds(s, t)
      BY <1>2, <1>3, <1>8, HoldsParts
    <2>2. s \in Reader /\ Moved(s, m) = Moved(r, n + m)
      BY <1>1, MovedOn, Zenon
    <2>3. ReadExtendedAddress(r) = Is(a, s)
      BY <1>4, <2>1
    <2>4. Is(a, s) # Throw
      BY <1>3, <2>2, ReadIsNotThrow DEF ReadValue
    <2> HIDE DEF s
    <2>5. ReadBytes(s, m) = Is(t, Moved(s, m)) /\ Is(t, Moved(s, m)) # Throw
      BY <1>1, <1>2, <2>1, <2>2, BytesAreRead
    <2> DEFINE q == Moved(s, m)
    <2>6. Is(a, s).value = a /\ Is(a, s).reader = s
      BY DEF Is
    <2>7. VerifyEnd(r, r.offset + n + m)
      <3>1. r.offset \in Nat /\ Len(r.buffer) \in Nat /\ r.offset + (n + m) <= Len(r.buffer)
        BY <1>6, <1>8, Readers DEF Holds
      <3> QED
        BY <1>1, <3>1 DEF VerifyEnd
    <2>8. ReadSchnorr(r) = [Is(t, q) EXCEPT !.value = v]
      <3>1. r.offset + n + m = r.offset + 2 * AddressLength + SignatureLength
        BY DEF n, m
      <3>2. ReadSchnorr(r) =
               [Is(t, q) EXCEPT !.value = [address |-> Is(a, s).value, signature |-> @]]
        <4> HIDE DEF q
        <4> QED
          BY <2>3, <2>4, <2>5, <2>6, <2>7, <3>1 DEF ReadSchnorr, Then, Converted, m, q
      <3>3. Is(t, q).value = t
        BY DEF Is
      <3> QED
        BY <1>2, <2>6, <3>2, <3>3
    <2>9. [Is(t, q) EXCEPT !.value = v] = Is(v, q)
      BY DEF Is
    <2> QED
      BY <2>2, <2>8, <2>9
  <1> QED
    BY <1>5, <1>6, <1>7, <1>8 DEF n, m

\* An entry of a map: a key that is read, and the word behind it.
LEMMA EntryIs ==
    ASSUME NEW r \in Reader, NEW keyType \in {"address", "extendedAddress"}, NEW be \in BOOLEAN,
           NEW key \in Buffer \cup ReadExtended, NEW n \in Nat, NEW b \in Buffer, Len(b) = n,
           NEW v \in Buffer, Len(v) = Width.u256,
           Holds(r, b \o EncodeInteger(v, be)),
           (IF keyType = "address" THEN ReadAddress(r) ELSE ReadExtendedAddress(r))
              = Is(key, Moved(r, n))
    PROVE  ReadEntry(r, keyType, be) = Is([key |-> key, value |-> v], Moved(r, n + Width.u256))
  <1> DEFINE w == Width["u256"]
             d == EncodeInteger(v, be)
             s == Moved(r, n)
             q == Moved(s, w)
  <1>1. w \in Nat /\ w = Width.u256 /\ "u256" \in Integer
    BY Widths
  <1>2. d \in Buffer
    BY OrderedTwice DEF EncodeInteger
  <1> HIDE DEF d
  <1>3. Holds(s, d)
    BY <1>2, HoldsParts DEF d
  <1>4. s \in Reader /\ q = Moved(r, n + w)
    <2> HIDE DEF w
    <2> QED
      BY <1>1, MovedOn, Zenon
  <1>5. key \in ReadValue /\ v \in ReadValue
    BY DEF ReadValue
  <1>6. Is(key, s) # Throw /\ Is(key, s).value = key /\ Is(key, s).reader = s
    BY <1>4, <1>5, ReadIsNotThrow DEF Is
  <1> HIDE DEF s
  <1>7. ReadInteger(s, "u256", be) = Is(v, q)
    BY <1>1, <1>3, <1>4, IntegerIs DEF d
  <1>8. Is(v, q) # Throw
    <2>1. q \in Reader
      BY <1>1, <1>4, Readers
    <2> QED
      BY <1>5, <2>1, ReadIsNotThrow
  <1> HIDE DEF q
  <1> DEFINE e == [key |-> key, value |-> v]
  <1>9. ReadEntry(r, keyType, be) = [Is(v, q) EXCEPT !.value = e]
    <2>1. ReadEntry(r, keyType, be) =
             [Is(v, q) EXCEPT !.value = [key |-> Is(key, s).value, value |-> @]]
      BY <1>6, <1>7, <1>8 DEF ReadEntry, Then, Converted, s
    <2>2. Is(v, q).value = v
      BY DEF Is
    <2> QED
      BY <1>6, <2>1, <2>2
  <1>10. [Is(v, q) EXCEPT !.value = e] = Is(e, q)
    <2> HIDE DEF e
    <2> QED
      BY DEF Is
  <1> QED
    BY <1>1, <1>4, <1>9, <1>10

\* The types of elements, their values and sizes.
OneTypes ==
    Integer \cup {"bytesWithLength", "address", "extendedAddress",
                  "addressEntry", "extendedAddressEntry"}
OneValues(type) ==
    CASE type \in Integer -> ByteString(Width[type])
      [] type = "bytesWithLength" -> Counted(Byte)
      [] type = "address" -> ByteString(AddressLength)
      [] type = "extendedAddress" -> Extended
      [] type = "addressEntry" -> Entry(ByteString(AddressLength))
      [] type = "extendedAddressEntry" -> Entry(Extended)
OneSize(v, type) ==
    CASE type \in Integer -> Width[type]
      [] type = "bytesWithLength" -> Width.u32 + Len(v)
      [] type = "address" -> AddressLength
      [] type = "extendedAddress" -> 2 * AddressLength
      [] type = "addressEntry" -> AddressLength + Width.u256
      [] type = "extendedAddressEntry" -> 2 * AddressLength + Width.u256

ReadEntries == [key : Buffer \cup ReadExtended, value : Buffer]
ReadTypes == {Buffer, ReadExtended, ReadEntries}
OneReads(type) ==
    IF type \in {"addressEntry", "extendedAddressEntry"} THEN ReadEntries
    ELSE IF type = "extendedAddress" THEN ReadExtended ELSE Buffer

\* The types of elements that are not integers.
LEMMA OtherTypes ==
    /\ "bytesWithLength" \notin Integer /\ "address" \notin Integer
    /\ "extendedAddress" \notin Integer
    /\ "addressEntry" \notin Integer /\ "extendedAddressEntry" \notin Integer
  BY DEF Integer, Width

\* Values that are read, and lists of them, are values of the reader.
LEMMA ReadSequences ==
    ASSUME NEW T \in ReadTypes
    PROVE  T \subseteq ReadValue /\ Seq(T) \subseteq ReadValue
  BY DEF ReadTypes, ReadEntries, ReadValue

\* What holds of the encoding of a value, and of reading it.
IsOne(v, type, be) ==
    /\ EncodeOne(v, type, be) \in Buffer /\ v \in OneReads(type)
    /\ Len(EncodeOne(v, type, be)) = OneSize(v, type) /\ OneSize(v, type) \in Nat
    /\ \A r \in Reader : Holds(r, EncodeOne(v, type, be)) =>
          ReadOne(r, type, be) = Is(v, Moved(r, OneSize(v, type)))

\* An integer as an element, also a signed word that is the same in both orders.
LEMMA OneInteger ==
    ASSUME NEW type \in Integer, NEW be \in BOOLEAN, NEW v \in OneValues(type),
           type \in {"i16", "i32"} /\ be => Reverse(v) = v
    PROVE  IsOne(v, type, be)
  <1> DEFINE b == EncodeInteger(v, be)
             w == Width[type]
  <1>0. type \notin {"bytesWithLength", "address", "extendedAddress",
                    "addressEntry", "extendedAddressEntry"}
    BY OtherTypes
  <1>1. v \in ByteString(w) /\ w \in Nat
    BY <1>0, Widths DEF OneValues
  <1>2. v \in Buffer /\ Len(v) = w
    BY <1>1, ByteStrings
  <1>3. EncodeOne(v, type, be) = b /\ OneSize(v, type) = w
    BY <1>0 DEF EncodeOne, OneSize
  <1>4. b \in Buffer /\ Len(b) = w
    BY <1>2, OrderedTwice DEF EncodeInteger
  <1>5. OneReads(type) = Buffer
    BY OtherTypes DEF OneReads
  <1>6. ASSUME NEW r \in Reader, Holds(r, b) PROVE ReadOne(r, type, be) = Is(v, Moved(r, w))
    <2>1. ReadInteger(r, type, be) = Is(v, Moved(r, w))
      <3>1. CASE ~(type \in {"i16", "i32"} /\ be)
        BY <1>2, <1>6, <3>1, IntegerIs
      <3>2. CASE type \in {"i16", "i32"} /\ be
        <4>1. Holds(r, v) /\ Reverse(v) = v /\ type \in {"i16", "i32"}
          BY <1>6, <3>2 DEF EncodeInteger, Ordered
        <4>2. ReadInteger(r, type, be) = Is(Reverse(v), Moved(r, Width[type]))
          BY <1>2, <4>1, SignedIs, Zenon
        <4> QED
          BY <4>1, <4>2
      <3> QED
        BY <3>1, <3>2
    <2> QED
      BY <1>0, <2>1 DEF ReadOne
  <1> QED
    BY <1>1, <1>2, <1>3, <1>4, <1>5, <1>6 DEF IsOne

\* Bytes with a length that four bytes can count.
LEMMA CountedBytes ==
    ASSUME NEW S, NEW v \in Counted(S), S \subseteq Byte
    PROVE  v \in Seq(S) /\ v \in Buffer /\ Len(v) \in Nat /\ Len(v) < PlaceValue[Width.u32]
  <1>1. v \in Seq(S) /\ Len(v) < PlaceValue[Width.u32]
    BY DEF Counted
  <1>2. Len(v) \in Nat /\ v \in [1 .. Len(v) -> S]
    BY <1>1
  <1>3. v \in [1 .. Len(v) -> Byte]
    BY <1>2
  <1>4. v \in Seq(Byte)
    BY <1>2, <1>3
  <1> QED
    BY <1>1, <1>2, <1>4, BytesAreNumbers

\* The size of bytes with their length.
LEMMA WithLengthSize ==
    ASSUME NEW be \in BOOLEAN, NEW v \in Buffer
    PROVE  /\ EncodeWithLength(v, be) \in Buffer
           /\ Len(EncodeWithLength(v, be)) = Width.u32 + Len(v)
  <1> DEFINE d == Ordered(Digits(Len(v), Width.u32), be)
  <1>1. Len(v) \in Nat /\ Width.u32 \in Nat
    BY Widths DEF Buffer
  <1>2. d \in Buffer /\ Len(d) = Width.u32
    BY <1>1, DigitsAreBytes, OrderedTwice
  <1> HIDE DEF d
  <1>3. d \o v \in Buffer /\ Len(d \o v) = Width.u32 + Len(v)
    <2> DEFINE w == Width.u32
    <2> HIDE DEF w
    <2>1. Len(d) = w
      BY <1>2 DEF w
    <2>2. d \o v \in Buffer /\ Len(d \o v) = w + Len(v)
      BY <1>2, <2>1, JoinedLength
    <2> QED
      BY <2>2 DEF w
  <1> QED
    BY <1>3 DEF EncodeWithLength, d

\* Bytes with their length as an element.
LEMMA OneWithLength ==
    ASSUME NEW be \in BOOLEAN, NEW v \in OneValues("bytesWithLength")
    PROVE  IsOne(v, "bytesWithLength", be)
  <1> DEFINE type == "bytesWithLength"
             b == EncodeWithLength(v, be)
             n == Width.u32 + Len(v)
  <1>1. v \in Counted(Byte) /\ EncodeOne(v, type, be) = b /\ OneSize(v, type) = n
    BY OtherTypes DEF OneValues, EncodeOne, OneSize
  <1>2. v \in Buffer /\ Len(v) \in Nat /\ Len(v) < PlaceValue[Width.u32] /\ Width.u32 \in Nat
    BY <1>1, CountedBytes, Widths
  <1>3. b \in Buffer /\ Len(b) = n
    BY <1>2, WithLengthSize
  <1>4. ASSUME NEW r \in Reader, Holds(r, b) PROVE ReadOne(r, type, be) = Is(v, Moved(r, n))
    BY <1>2, <1>4, WithLengthIs, OtherTypes DEF ReadOne
  <1>5. OneReads(type) = Buffer /\ n \in Nat
    BY <1>2 DEF OneReads
  <1> HIDE DEF type, b, n
  <1> QED
    BY <1>1, <1>2, <1>3, <1>4, <1>5 DEF IsOne, type

\* An address as an element.
LEMMA OneAddress ==
    ASSUME NEW be \in BOOLEAN, NEW v \in OneValues("address")
    PROVE  IsOne(v, "address", be)
  <1> DEFINE type == "address"
  <1>1. v \in ByteString(AddressLength) /\ AddressLength \in Nat
    BY OtherTypes DEF OneValues, AddressLength
  <1>2. v \in Buffer /\ Len(v) = AddressLength
    BY <1>1, ByteStrings
  <1>3. EncodeOne(v, type, be) = v
    BY <1>1, <1>2, OtherTypes DEF EncodeOne, EncodeAddress, AddressLength
  <1>4. OneSize(v, type) = AddressLength /\ OneReads(type) = Buffer
    BY OtherTypes DEF OneSize, OneReads
  <1>5. ASSUME NEW r \in Reader, Holds(r, v)
        PROVE  ReadOne(r, type, be) = Is(v, Moved(r, AddressLength))
    BY <1>2, <1>5, AddressIs, OtherTypes DEF ReadOne
  <1> HIDE DEF type
  <1> QED
    BY <1>1, <1>2, <1>3, <1>4, <1>5 DEF IsOne, type

\* An extended address as an element.
LEMMA OneExtended ==
    ASSUME NEW be \in BOOLEAN, NEW v \in OneValues("extendedAddress")
    PROVE  IsOne(v, "extendedAddress", be)
  <1> DEFINE type == "extendedAddress"
             n == 2 * AddressLength
             b == EncodeExtendedAddress(v)
  <1>1. v \in Extended /\ n \in Nat
    BY OtherTypes DEF OneValues, AddressLength
  <1>2. b \in Buffer /\ Len(b) = n /\ v \in ReadExtended
    BY <1>1, ExtendedAddressIs
  <1>3. EncodeOne(v, type, be) = b /\ OneSize(v, type) = n /\ OneReads(type) = ReadExtended
    BY OtherTypes DEF EncodeOne, OneSize, OneReads
  <1>4. ASSUME NEW r \in Reader, Holds(r, b) PROVE ReadOne(r, type, be) = Is(v, Moved(r, n))
    <2>1. ReadExtendedAddress(r) = Is(v, Moved(r, n))
      BY <1>1, <1>4, ExtendedAddressIs
    <2> QED
      BY <2>1, OtherTypes DEF ReadOne
  <1> HIDE DEF type, n, b
  <1> QED
    BY <1>1, <1>2, <1>3, <1>4 DEF IsOne, type

\* An entry with an address for its key.
LEMMA OneAddressEntry ==
    ASSUME NEW be \in BOOLEAN, NEW v \in OneValues("addressEntry")
    PROVE  IsOne(v, "addressEntry", be)
  <1> DEFINE type == "addressEntry"
             k == v.key
             x == v.value
             n == AddressLength
             m == Width["u256"]
             d == EncodeInteger(x, be)
             b == k \o d
  <1>1. /\ v = [key |-> k, value |-> x]
        /\ k \in ByteString(AddressLength) /\ x \in ByteString(m)
    BY OtherTypes DEF OneValues, Entry
  <1>2. n \in Nat /\ m \in Nat /\ m = Width.u256
    BY Widths DEF AddressLength
  <1>3. k \in Buffer /\ Len(k) = n /\ x \in Buffer /\ Len(x) = m
    BY <1>1, <1>2, ByteStrings
  <1>4. d \in Buffer /\ Len(d) = m
    BY <1>3, OrderedTwice DEF EncodeInteger
  <1>5. EncodeAddress(k) = k
    BY <1>2, <1>3 DEF EncodeAddress, n
  <1>6. EncodeOne(v, type, be) = b /\ OneSize(v, type) = n + m
    BY <1>5, OtherTypes DEF EncodeOne, OneSize
  <1>7. v \in ReadEntries /\ OneReads(type) = ReadEntries
    BY <1>1, <1>3 DEF ReadEntries, OneReads
  <1> HIDE DEF k, x
  <1>8. b \in Buffer /\ Len(b) = n + m
    <2> HIDE DEF d, n, m
    <2> QED
      BY <1>3, <1>4, JoinedLength
  <1>9. ASSUME NEW r \in Reader, Holds(r, b)
        PROVE  ReadOne(r, type, be) = Is(v, Moved(r, n + m))
    <2>1. Holds(r, k)
      BY <1>3, <1>4, <1>9, HoldsParts
    <2>2. ReadAddress(r) = Is(k, Moved(r, n))
      BY <1>3, <2>1, AddressIs
    <2>3. ReadEntry(r, "address", be) = Is([key |-> k, value |-> x], Moved(r, n + Width.u256))
      BY <1>2, <1>3, <1>9, <2>2, EntryIs
    <2> QED
      BY <1>1, <1>2, <2>3, OtherTypes DEF ReadOne
  <1> HIDE DEF type, b, n, m
  <1> QED
    BY <1>2, <1>6, <1>7, <1>8, <1>9 DEF IsOne, type

\* An entry with an extended address for its key.
LEMMA OneExtendedEntry ==
    ASSUME NEW be \in BOOLEAN, NEW v \in OneValues("extendedAddressEntry")
    PROVE  IsOne(v, "extendedAddressEntry", be)
  <1> DEFINE type == "extendedAddressEntry"
             k == v.key
             x == v.value
             n == 2 * AddressLength
             m == Width["u256"]
             d == EncodeInteger(x, be)
             c == EncodeExtendedAddress(k)
             b == c \o d
  <1>1. v = [key |-> k, value |-> x] /\ k \in Extended /\ x \in ByteString(m)
    BY OtherTypes DEF OneValues, Entry
  <1>2. n \in Nat /\ m \in Nat /\ m = Width.u256
    BY Widths DEF AddressLength
  <1>3. x \in Buffer /\ Len(x) = m
    BY <1>1, <1>2, ByteStrings
  <1>4. c \in Buffer /\ Len(c) = n /\ k \in ReadExtended
    BY <1>1, ExtendedAddressIs
  <1>5. d \in Buffer /\ Len(d) = m
    BY <1>3, OrderedTwice DEF EncodeInteger
  <1>6. EncodeOne(v, type, be) = b /\ OneSize(v, type) = n + m
    BY OtherTypes DEF EncodeOne, OneSize
  <1>7. v \in ReadEntries /\ OneReads(type) = ReadEntries
    BY <1>1, <1>3, <1>4 DEF ReadEntries, OneReads
  <1> HIDE DEF k, x
  <1>8. b \in Buffer /\ Len(b) = n + m
    <2> HIDE DEF d, c, n, m
    <2> QED
      BY <1>4, <1>5, JoinedLength
  <1>9. ASSUME NEW r \in Reader, Holds(r, b)
        PROVE  ReadOne(r, type, be) = Is(v, Moved(r, n + m))
    <2>1. Holds(r, c)
      BY <1>4, <1>5, <1>9, HoldsParts
    <2>2. ReadExtendedAddress(r) = Is(k, Moved(r, n))
      BY <1>1, <2>1, ExtendedAddressIs
    <2> HIDE DEF n
    <2>3. ReadEntry(r, "extendedAddress", be) =
             Is([key |-> k, value |-> x], Moved(r, n + Width.u256))
      BY <1>2, <1>3, <1>4, <1>9, <2>2, EntryIs
    <2> QED
      BY <1>1, <1>2, <2>3, OtherTypes DEF ReadOne
  <1> HIDE DEF type, b, n, m
  <1> QED
    BY <1>2, <1>6, <1>7, <1>8, <1>9 DEF IsOne, type

\* Every element is read back.
LEMMA OneIs ==
    ASSUME NEW type \in OneTypes, NEW be \in BOOLEAN, ~(type \in {"i16", "i32"} /\ be),
           NEW v \in OneValues(type)
    PROVE  IsOne(v, type, be)
  BY OneInteger, OneWithLength, OneAddress, OneExtended, OneAddressEntry, OneExtendedEntry
     DEF OneTypes

-----------------------------------------------------------------------------
(* Lists of values *)

\* h has what the first parts of e are when they are put together.
Joins(h, e) ==
    /\ h[0] = <<>> /\ \A i \in 0 .. Len(e) : h[i] \in Buffer
    /\ \A i \in 1 .. Len(e) : h[i] = h[i - 1] \o e[i]

\* FlattenSeq puts the parts of a list together one by one.
LEMMA FlattenSteps ==
    ASSUME NEW e \in Seq(Buffer)
    PROVE  \E h : Joins(h, e) /\ FlattenSeq(e) = h[Len(e)]
  <1> DEFINE n == Len(e)
             join == [i \in 1 .. n |-> [x \in Buffer |-> x \o e[i]]]
             first == <<>>
             Law(f) == f = [i \in 1 .. n |-> IF i = 1 THEN e[i] ELSE f[i - 1] \o e[i]]
             f == CHOOSE g : Law(g)
             h == [i \in 0 .. n |-> IF i = 0 THEN <<>> ELSE f[i]]
  <1>1. n \in Nat /\ \A i \in 1 .. n : e[i] \in Buffer
    OBVIOUS
  <1>2. first \in Buffer /\ \A x \in Buffer : first \o x = x
    BY DEF Buffer
  <1>3. join \in [1 .. n -> [Buffer -> Buffer]]
    <2>1. ASSUME NEW i \in 1 .. n, NEW x \in Buffer PROVE x \o e[i] \in Buffer
      BY <1>1, Joined
    <2> QED
      BY <2>1
  <1>4. \A i \in 1 .. n, x \in Buffer : join[i][x] = x \o e[i]
    OBVIOUS
  <1> HIDE DEF join, first, n
  <1>5. PICK g \in [0 .. n -> Buffer] : FollowsList(g, first, n, join)
    BY <1>1, <1>2, <1>3, ListRecursion, Zenon
  <1>6. \A i \in 0 .. n : g[i] = IF i = 0 THEN first ELSE join[i][g[i - 1]]
    BY <1>5 DEF FollowsList
  <1>7. ASSUME NEW i \in 1 .. n PROVE g[i] = g[i - 1] \o e[i] /\ g[i - 1] \in Buffer
    <2>1. i \in 0 .. n /\ i # 0 /\ i - 1 \in 0 .. n
      BY <1>1
    <2>2. g[i - 1] \in Buffer
      BY <1>5, <2>1
    <2> QED
      BY <1>4, <1>6, <2>1, <2>2
  <1>8. g[0] = first
    <2>1. 0 \in 0 .. n
      BY <1>1
    <2> QED
      BY <1>6, <2>1
  <1>9. Joins(g, e)
    BY <1>5, <1>7, <1>8 DEF Joins, first, n
  <1>10. CASE n = 0
    <2>1. e = <<>> /\ FlattenSeq(e) = e
      BY <1>10 DEF FlattenSeq, n
    <2> QED
      BY <1>8, <1>9, <1>10, <2>1 DEF first, n
  <1>11. CASE n # 0
    <2> DEFINE k == [i \in 1 .. n |-> g[i]]
    <2>1. Law(k)
      <3>1. ASSUME NEW i \in 1 .. n
            PROVE  k[i] = IF i = 1 THEN e[i] ELSE k[i - 1] \o e[i]
        <4>1. k[i] = g[i - 1] \o e[i]
          BY <1>7
        <4>2. CASE i = 1
          <5>1. g[i - 1] = first
            BY <1>8, <4>2
          <5> QED
            BY <1>1, <1>2, <4>1, <4>2, <5>1
        <4>3. CASE i # 1
          <5>1. i - 1 \in 1 .. n
            BY <1>1, <4>3
          <5>2. k[i - 1] = g[i - 1]
            BY <5>1
          <5> QED
            BY <4>1, <4>3, <5>2
        <4> QED
          BY <4>2, <4>3
      <3> QED
        BY <3>1
    <2> HIDE DEF k, Law
    <2>2. Law(f)
      BY <2>1, Zenon
    <2>3. FlattenSeq(e) = f[n]
      BY <1>11 DEF FlattenSeq, Law, n
    <2> HIDE DEF f
    <2>4. \A i \in 1 .. n : f[i] = IF i = 1 THEN e[i] ELSE f[i - 1] \o e[i]
      BY <2>2 DEF Law
    <2> DEFINE P == {i \in Nat : i + 1 <= n => f[i + 1] = g[i + 1]}
    <2>5. 0 \in P
      <3>1. 1 <= n /\ 1 \in 1 .. n
        BY <1>1, <1>11
      <3>2. f[1] = e[1] /\ g[1] = g[1 - 1] \o e[1] /\ e[1] \in Buffer
        BY <1>1, <1>7, <2>4, <3>1
      <3>3. g[1 - 1] = first
        BY <1>8
      <3>4. f[1] = g[1]
        BY <1>2, <3>2, <3>3
      <3> QED
        BY <3>4
    <2>6. ASSUME NEW i \in P PROVE i + 1 \in P
      <3> SUFFICES ASSUME (i + 1) + 1 <= n PROVE f[(i + 1) + 1] = g[(i + 1) + 1]
        OBVIOUS
      <3> DEFINE j == (i + 1) + 1
      <3>1. j \in 1 .. n /\ j # 1 /\ j - 1 = i + 1 /\ i + 1 <= n /\ i \in Nat
        BY <1>1
      <3>2. f[i + 1] = g[i + 1]
        BY <3>1
      <3> HIDE DEF P, j
      <3>3. f[j] = f[j - 1] \o e[j] /\ g[j] = g[j - 1] \o e[j]
        BY <1>7, <2>4, <3>1
      <3>4. f[j] = g[j]
        BY <3>1, <3>2, <3>3
      <3> QED
        BY <3>4 DEF j
    <2>7. \A i \in Nat : i \in P
      <3>1. P \in SUBSET Nat
        OBVIOUS
      <3> HIDE DEF P
      <3> QED
        BY <2>5, <2>6, <3>1, SetInduction, Zenon
    <2>8. f[n] = g[n]
      <3>1. n - 1 \in P /\ (n - 1) + 1 = n
        BY <1>1, <1>11, <2>7
      <3> QED
        BY <1>1, <3>1
    <2> QED
      BY <1>9, <2>3, <2>8 DEF n
  <1> QED
    BY <1>10, <1>11

\* Where they stand together, each stands behind those before it.
LEMMA PartsStand ==
    ASSUME NEW e \in Seq(Buffer), NEW h, Joins(h, e), NEW r \in Reader, Holds(r, h[Len(e)])
    PROVE  \A i \in 1 .. Len(e) : Holds(Moved(r, Len(h[i - 1])), e[i])
  <1> DEFINE n == Len(e)
             P == {i \in Nat : i <= n => Holds(r, h[n - i])}
  <1>1. n \in Nat /\ \A i \in 1 .. n : e[i] \in Buffer
    OBVIOUS
  <1>2. ASSUME NEW i \in 1 .. n, Holds(r, h[i])
        PROVE  Holds(r, h[i - 1]) /\ Holds(Moved(r, Len(h[i - 1])), e[i])
    <2>1. i - 1 \in 0 .. n /\ e[i] \in Buffer
      BY <1>1
    <2>2. h[i - 1] \in Buffer /\ h[i] = h[i - 1] \o e[i]
      BY <2>1 DEF Joins
    <2> QED
      BY <1>2, <2>1, <2>2, HoldsParts
  <1>3. P \in SUBSET Nat
    OBVIOUS
  <1>4. 0 \in P
    <2>1. n - 0 = n
      BY <1>1
    <2> QED
      BY <2>1
  <1>5. ASSUME NEW i \in P PROVE i + 1 \in P
    <2> SUFFICES ASSUME i + 1 <= n PROVE Holds(r, h[n - (i + 1)])
      OBVIOUS
    <2>1. i \in Nat /\ i <= n /\ n - i \in 1 .. n /\ (n - i) - 1 = n - (i + 1)
      BY <1>1
    <2>2. Holds(r, h[n - i])
      BY <2>1
    <2> HIDE DEF P
    <2> QED
      BY <1>2, <2>1, <2>2
  <1>6. \A i \in Nat : i \in P
    <2> HIDE DEF P
    <2> QED
      BY <1>3, <1>4, <1>5, SetInduction, Zenon
  <1>7. ASSUME NEW i \in 1 .. n PROVE Holds(r, h[i])
    <2>1. n - i \in Nat /\ n - i <= n /\ n - (n - i) = i
      BY <1>1
    <2>2. n - i \in P
      BY <1>6, <2>1
    <2> QED
      BY <2>1, <2>2
  <1> QED
    BY <1>2, <1>7

\* One more value read behind those that were.
MoreRead(read, type, be) ==
    IF read = Throw THEN Throw
    ELSE IF ReadOne(read.reader, type, be) = Throw THEN Throw
    ELSE [ReadOne(read.reader, type, be) EXCEPT !.value = Append(read.value, @)]

IsReadUpTo(f, r, count, type, be) ==
    f = [i \in 0 .. count |-> IF i = 0 THEN Is(<<>>, r) ELSE MoreRead(f[i - 1], type, be)]

\* The first values of a list.
FirstOf(v, i) == [j \in 1 .. i |-> v[j]]

\* ReadMany, by the law of its recursion.
LEMMA ReadManyIs ==
    ASSUME NEW r, NEW count, NEW type, NEW be
    PROVE  ReadMany(r, count, type, be) = (CHOOSE f : IsReadUpTo(f, r, count, type, be))[count]
  BY DEF ReadMany, IsReadUpTo, MoreRead, Then, Converted, Is

\* There is but one such function.
LEMMA ReadUpToIsOne ==
    ASSUME NEW r, NEW count \in Nat, NEW type, NEW be, NEW g,
           IsReadUpTo(g, r, count, type, be)
    PROVE  ReadMany(r, count, type, be) = g[count]
  <1> DEFINE f == CHOOSE x : IsReadUpTo(x, r, count, type, be)
             P == {i \in Nat : i <= count => f[i] = g[i]}
  <1>1. IsReadUpTo(f, r, count, type, be)
    BY Zenon
  <1>2. ReadMany(r, count, type, be) = f[count]
    BY ReadManyIs
  <1> HIDE DEF f
  <1>3. \A i \in 0 .. count :
            /\ f[i] = IF i = 0 THEN Is(<<>>, r) ELSE MoreRead(f[i - 1], type, be)
            /\ g[i] = IF i = 0 THEN Is(<<>>, r) ELSE MoreRead(g[i - 1], type, be)
    BY <1>1 DEF IsReadUpTo
  <1>4. P \in SUBSET Nat /\ 0 \in P
    BY <1>3
  <1>5. ASSUME NEW i \in P PROVE i + 1 \in P
    <2> SUFFICES ASSUME i + 1 <= count PROVE f[i + 1] = g[i + 1]
      OBVIOUS
    <2>1. i \in Nat /\ i + 1 \in 0 .. count /\ i + 1 # 0 /\ (i + 1) - 1 = i /\ f[i] = g[i]
      OBVIOUS
    <2> HIDE DEF P
    <2> QED
      BY <1>3, <2>1
  <1>6. count \in P
    <2> HIDE DEF P
    <2> QED
      BY <1>4, <1>5, SetInduction, Zenon
  <1> QED
    BY <1>2, <1>6

\* A read that goes on.
LEMMA MoreIs ==
    ASSUME NEW sofar, NEW q, NEW type, NEW be, NEW v, NEW s, Is(sofar, q) # Throw,
           ReadOne(q, type, be) = Is(v, s), Is(v, s) # Throw
    PROVE  MoreRead(Is(sofar, q), type, be) = Is(Append(sofar, v), s)
  <1> DEFINE x == Append(sofar, v)
  <1>1. Is(sofar, q).reader = q /\ Is(sofar, q).value = sofar /\ Is(v, s).value = v
    BY DEF Is
  <1>2. MoreRead(Is(sofar, q), type, be) = [Is(v, s) EXCEPT !.value = x]
    BY <1>1 DEF MoreRead
  <1> HIDE DEF x
  <1>3. [Is(v, s) EXCEPT !.value = x] = Is(x, s)
    BY DEF Is
  <1> QED
    BY <1>2, <1>3 DEF x

Encodings(v, type, be) == [i \in 1 .. Len(v) |-> EncodeOne(v[i], type, be)]

\* A list of values is read back as it was written.
LEMMA ManyIs ==
    ASSUME NEW type \in OneTypes, NEW be \in BOOLEAN, ~(type \in {"i16", "i32"} /\ be),
           NEW v \in Seq(OneValues(type))
    PROVE  /\ FlattenSeq(Encodings(v, type, be)) \in Buffer /\ v \in Seq(OneReads(type))
           /\ \A r \in Reader : Holds(r, FlattenSeq(Encodings(v, type, be))) =>
                 ReadMany(r, Len(v), type, be)
                    = Is(v, Moved(r, Len(FlattenSeq(Encodings(v, type, be)))))
  <1> DEFINE e == Encodings(v, type, be)
             n == Len(v)
             T == OneReads(type)
  <1>1. n \in Nat /\ \A i \in 1 .. n : v[i] \in OneValues(type)
    OBVIOUS
  <1>2. \A i \in 1 .. n : IsOne(v[i], type, be) /\ e[i] = EncodeOne(v[i], type, be)
    BY <1>1, OneIs DEF Encodings
  <1>3. e \in Seq(Buffer) /\ Len(e) = n
    <2>1. \A i \in 1 .. n : EncodeOne(v[i], type, be) \in Buffer
      BY <1>2 DEF IsOne
    <2> QED
      BY <1>1, <2>1 DEF Encodings
  <1>4. v \in Seq(T) /\ \A i \in 1 .. n : v[i] \in T
    <2>1. \A i \in 1 .. n : v[i] \in T
      BY <1>2 DEF IsOne
    <2>2. v \in [1 .. n -> T]
      BY <2>1
    <2> HIDE DEF T
    <2> QED
      BY <1>1, <2>1, <2>2
  <1>5. T \in ReadTypes
    BY DEF OneReads, ReadTypes
  <1> HIDE DEF e, T
  <1>6. PICK h : Joins(h, e) /\ FlattenSeq(e) = h[Len(e)]
    BY <1>3, FlattenSteps
  <1>7. \A i \in 0 .. n : h[i] \in Buffer /\ Len(h[i]) \in Nat
    BY <1>3, <1>6 DEF Joins, Buffer
  <1>8. ASSUME NEW r \in Reader, Holds(r, h[n])
        PROVE  ReadMany(r, n, type, be) = Is(v, Moved(r, Len(h[n])))
    <2> DEFINE l(i) == Len(h[i])
               g == [i \in 0 .. n |-> Is(FirstOf(v, i), Moved(r, l(i)))]
    <2>1. \A i \in 0 .. n : FirstOf(v, i) \in Seq(T) /\ Len(FirstOf(v, i)) = i
      BY <1>1, <1>4 DEF FirstOf
    <2>2. \A i \in 0 .. n : Is(FirstOf(v, i), Moved(r, l(i))) # Throw
      <3> SUFFICES ASSUME NEW i \in 0 .. n PROVE Is(FirstOf(v, i), Moved(r, l(i))) # Throw
        OBVIOUS
      <3>1. FirstOf(v, i) \in ReadValue
        BY <1>5, <2>1, ReadSequences
      <3>2. Moved(r, l(i)) \in Reader
        BY <1>7, Readers
      <3> QED
        BY <3>1, <3>2, ReadIsNotThrow
    <2>3. g[0] = Is(<<>>, r)
      <3>1. FirstOf(v, 0) = <<>> /\ h[0] = <<>> /\ 0 \in 0 .. n
        BY <1>1, <1>6 DEF FirstOf, Joins
      <3>2. Moved(r, 0) = r
        BY Readers
      <3> QED
        BY <3>1, <3>2
    <2>4. ASSUME NEW i \in 1 .. n PROVE g[i] = MoreRead(g[i - 1], type, be)
      <3> DEFINE q == Moved(r, l(i - 1))
                 m == OneSize(v[i], type)
                 s == Moved(q, m)
      <3>1. i - 1 \in 0 .. n /\ i \in 0 .. n /\ i - 1 \in Nat /\ (i - 1) + 1 = i
        BY <1>1
      <3>2. Holds(q, e[i])
        BY <1>3, <1>6, <1>8, PartsStand
      <3>3. q \in Reader
        BY <1>7, <3>1, Readers
      <3>4. /\ e[i] \in Buffer /\ Len(e[i]) = m /\ m \in Nat
            /\ ReadOne(q, type, be) = Is(v[i], s)
        BY <1>2, <3>2, <3>3 DEF IsOne
      <3>5. l(i) = l(i - 1) + m
        <4>1. h[i] = h[i - 1] \o e[i] /\ h[i - 1] \in Buffer
          BY <1>3, <1>6, <3>1 DEF Joins
        <4>2. Len(h[i - 1] \o e[i]) = Len(h[i - 1]) + Len(e[i])
          BY <3>4, <4>1, Joined, Zenon
        <4> QED
          BY <3>4, <4>1, <4>2
      <3>6. s = Moved(r, l(i)) /\ s \in Reader
        <4>1. l(i - 1) \in Nat
          BY <1>7, <3>1
        <4>2. Moved(Moved(r, l(i - 1)), m) = Moved(r, l(i - 1) + m)
          BY <3>4, <4>1, MovedOn, Zenon
        <4>3. s \in Reader
          BY <3>3, <3>4, MovedOn, Zenon
        <4> QED
          BY <3>5, <4>2, <4>3
      <3>7. Is(v[i], s) # Throw
        <4>1. v[i] \in ReadValue
          BY <1>4, <1>5, ReadSequences
        <4> QED
          BY <3>6, <4>1, ReadIsNotThrow
      <3>8. Is(FirstOf(v, i - 1), q) # Throw
        BY <2>2, <3>1
      <3>9. Append(FirstOf(v, i - 1), v[i]) = FirstOf(v, i)
        BY <2>1, <3>1 DEF FirstOf
      <3>10. MoreRead(Is(FirstOf(v, i - 1), q), type, be) = Is(FirstOf(v, i), s)
        <4> DEFINE a == FirstOf(v, i - 1)
                   x == v[i]
        <4>1. Is(a, q) # Throw /\ ReadOne(q, type, be) = Is(x, s) /\ Is(x, s) # Throw
          BY <3>4, <3>7, <3>8
        <4>2. Append(a, x) = FirstOf(v, i)
          BY <3>9
        <4> HIDE DEF a, x, q, m, s
        <4>3. MoreRead(Is(a, q), type, be) = Is(Append(a, x), s)
          BY <4>1, MoreIs
        <4> QED
          BY <4>2, <4>3 DEF a
      <3>11. g[i] = Is(FirstOf(v, i), Moved(r, l(i))) /\ g[i - 1] = Is(FirstOf(v, i - 1), q)
        BY <3>1
      <3> QED
        BY <3>6, <3>10, <3>11
    <2>5. IsReadUpTo(g, r, n, type, be)
      <3>1. g = [i \in 0 .. n |-> g[i]]
        OBVIOUS
      <3> HIDE DEF g
      <3>2. ASSUME NEW i \in 0 .. n
            PROVE  g[i] = IF i = 0 THEN Is(<<>>, r) ELSE MoreRead(g[i - 1], type, be)
        <4>1. i = 0 \/ i \in 1 .. n
          BY <1>1
        <4> QED
          BY <2>3, <2>4, <4>1
      <3> QED
        BY <3>1, <3>2 DEF IsReadUpTo
    <2>6. g[n] = Is(v, Moved(r, Len(h[n])))
      <3>1. FirstOf(v, n) = v /\ n \in 0 .. n
        BY <1>1 DEF FirstOf
      <3> QED
        BY <3>1
    <2> HIDE DEF g
    <2> QED
      BY <1>1, <2>5, <2>6, ReadUpToIsOne
  <1> QED
    BY <1>3, <1>4, <1>6, <1>7, <1>8 DEF e, T

\* A list with its count in front is read back as it was written.
LEMMA ArrayIs ==
    ASSUME NEW type \in OneTypes, NEW be \in BOOLEAN, ~(type \in {"i16", "i32"} /\ be),
           NEW v \in Seq(OneValues(type)), Len(v) <= MaxArrayLength,
           NEW order \in BOOLEAN, ~(type \in {"i16", "i32"} /\ order),
           Encodings(v, type, be) = Encodings(v, type, order)
    PROVE  /\ EncodeArray(v, type, be) \in Buffer /\ v \in Seq(OneReads(type))
           /\ Len(EncodeArray(v, type, be))
                 = Width.u16 + Len(FlattenSeq(Encodings(v, type, be)))
           /\ \A r \in Reader : Holds(r, EncodeArray(v, type, be)) =>
                 /\ ReadArray(r, be, type, order)
                       = Is(v, Moved(r, Len(EncodeArray(v, type, be))))
                 /\ ReadArray(r, be, type, order) # Throw
  <1> DEFINE n == Len(v)
             w == Width["u16"]
             d == Ordered(Digits(n, w), be)
             b == FlattenSeq(Encodings(v, type, be))
             a == EncodeArray(v, type, be)
  <1>1. n \in Nat /\ w \in Nat /\ w = 2 /\ w = Width.u16
    BY Widths
  <1>2. d \in Buffer /\ Len(d) = w
    <2> HIDE DEF w
    <2> QED
      BY <1>1, DigitsAreBytes, OrderedTwice
  <1>3. n < PlaceValue[Width["u16"]]
    <2>1. PlaceValue[2] \in Nat
      BY PlaceValues
    <2> QED
      BY <1>1, <2>1 DEF MaxArrayLength
  <1>4. a = d \o b
    <2>1. PlaceValue[2] \in Nat
      BY PlaceValues
    <2>2. (Len(v) > MaxArrayLength) <=> FALSE
      BY <1>1, <2>1 DEF MaxArrayLength
    <2> QED
      BY <1>1, <2>2 DEF EncodeArray, Encodings
  <1>5. /\ b \in Buffer /\ v \in Seq(OneReads(type)) /\ Len(b) \in Nat
        /\ \A r \in Reader : Holds(r, b) => ReadMany(r, n, type, order) = Is(v, Moved(r, Len(b)))
    <2>1. /\ b \in Buffer /\ v \in Seq(OneReads(type))
          /\ \A r \in Reader : Holds(r, b) => ReadMany(r, n, type, order) = Is(v, Moved(r, Len(b)))
      <3>1. b = FlattenSeq(Encodings(v, type, order))
        OBVIOUS
      <3> QED
        BY <3>1, ManyIs
    <2> HIDE DEF b
    <2>2. Len(b) \in Nat
      BY <2>1 DEF Buffer
    <2> QED
      BY <2>1, <2>2
  <1> HIDE DEF a, b
  <1>6. a \in Buffer /\ Len(a) = w + Len(b)
    <2> HIDE DEF d, w
    <2> QED
      BY <1>2, <1>4, <1>5, JoinedLength
  <1>7. v \in ReadValue
    <2>1. OneReads(type) \in ReadTypes
      BY DEF OneReads, ReadTypes
    <2> QED
      BY <1>5, <2>1, ReadSequences
  <1>8. ASSUME NEW r \in Reader, Holds(r, a)
        PROVE  /\ ReadArray(r, be, type, order) = Is(v, Moved(r, Len(a)))
               /\ ReadArray(r, be, type, order) # Throw
    <2> DEFINE s == Moved(r, w)
    <2>1. Holds(r, d) /\ Holds(s, b)
      <3> HIDE DEF d, w
      <3>1. Holds(r, d) /\ Holds(Moved(r, Len(d)), b)
        BY <1>2, <1>4, <1>5, <1>8, HoldsParts
      <3> QED
        BY <1>2, <3>1
    <2>2. ReadCount(r, "u16", be) = Is(n, s)
      BY <1>1, <1>3, <2>1, CountIs
    <2>3. s \in Reader /\ Moved(s, Len(b)) = Moved(r, Len(a))
      <3> HIDE DEF w
      <3>1. s \in Reader /\ Moved(Moved(r, w), Len(b)) = Moved(r, w + Len(b))
        BY <1>1, <1>5, MovedOn, Zenon
      <3> QED
        BY <1>6, <3>1
    <2>4. Is(n, s) # Throw /\ Is(n, s).value = n /\ Is(n, s).reader = s
      BY <1>1, <2>3, ReadIsNotThrow DEF ReadValue, Is
    <2> HIDE DEF s, n
    <2>5. ReadArray(r, be, type, order) = ReadMany(s, n, type, order)
      BY <2>2, <2>4 DEF ReadArray, Then
    <2>6. ReadMany(s, n, type, order) = Is(v, Moved(r, Len(a)))
      BY <1>5, <2>1, <2>3
    <2>7. Moved(r, Len(a)) \in Reader
      <3>1. Len(a) \in Nat
        BY <1>6 DEF Buffer
      <3> QED
        BY <3>1, Readers
    <2> QED
      BY <1>7, <2>5, <2>6, <2>7, ReadIsNotThrow
  <1> QED
    BY <1>1, <1>5, <1>6, <1>8 DEF a, b

\* The bytes of values of one size.
LEMMA FlatLength ==
    ASSUME NEW e \in Seq(Buffer), NEW size \in Nat, \A i \in 1 .. Len(e) : Len(e[i]) = size
    PROVE  Len(FlattenSeq(e)) = Len(e) * size
  <1> DEFINE n == Len(e)
  <1>1. n \in Nat /\ \A i \in 1 .. n : e[i] \in Buffer
    OBVIOUS
  <1>2. PICK h : Joins(h, e) /\ FlattenSeq(e) = h[n]
    BY FlattenSteps
  <1> DEFINE P == {i \in Nat : i <= n => Len(h[i]) = i * size}
  <1>3. P \in SUBSET Nat /\ 0 \in P
    <2>1. h[0] = <<>>
      BY <1>2 DEF Joins
    <2> QED
      BY <2>1
  <1>4. ASSUME NEW i \in P PROVE i + 1 \in P
    <2> SUFFICES ASSUME i + 1 <= n PROVE Len(h[i + 1]) = (i + 1) * size
      OBVIOUS
    <2>1. i \in Nat /\ i + 1 \in 1 .. n /\ i \in 0 .. n /\ (i + 1) - 1 = i
      BY <1>1
    <2>2. Len(h[i]) = i * size
      BY <2>1
    <2> HIDE DEF P
    <2>3. h[i + 1] = h[i] \o e[i + 1] /\ h[i] \in Buffer
      BY <1>2, <2>1 DEF Joins
    <2>4. Len(h[i] \o e[i + 1]) = Len(h[i]) + Len(e[i + 1])
      BY <1>1, <2>1, <2>3, Joined, Zenon
    <2>5. (i + 1) * size = i * size + size
      BY <2>1
    <2> QED
      BY <2>1, <2>2, <2>3, <2>4, <2>5
  <1>5. n \in P
    <2> HIDE DEF P
    <2> QED
      BY <1>1, <1>3, <1>4, SetInduction, Zenon
  <1> QED
    BY <1>2, <1>5

IsTotal(f, v) ==
    f = [i \in 0 .. Len(v) |-> IF i = 0 THEN Width.u16 ELSE f[i - 1] + Width.u32 + Len(v[i])]

\* The bytes of byte strings with their lengths: what is estimated for them.
LEMMA FlatEstimate ==
    ASSUME NEW v \in Seq(Buffer), NEW e \in Seq(Buffer), Len(e) = Len(v),
           \A i \in 1 .. Len(v) : Len(e[i]) = Width.u32 + Len(v[i])
    PROVE  EstimateArrayOfBufferLength(v) = Width.u16 + Len(FlattenSeq(e))
  <1> DEFINE n == Len(v)
             f == CHOOSE x : IsTotal(x, v)
             w == Width.u16
             l == Width.u32
  <1>1. n \in Nat /\ w \in Nat /\ l \in Nat /\ \A i \in 1 .. n : v[i] \in Buffer /\ e[i] \in Buffer
    BY Widths
  <1>2. \A i \in 1 .. n : Len(v[i]) \in Nat
    BY <1>1 DEF Buffer
  <1>3. PICK h : Joins(h, e) /\ FlattenSeq(e) = h[n]
    BY FlattenSteps
  <1>4. \A i \in 0 .. n : h[i] \in Buffer /\ Len(h[i]) \in Nat
    BY <1>3 DEF Joins, Buffer
  <1>5. EstimateArrayOfBufferLength(v) = f[n]
    BY DEF EstimateArrayOfBufferLength, IsTotal
  <1> DEFINE g == [i \in 0 .. n |-> w + Len(h[i])]
  <1>6. g[0] = w
    <2>1. h[0] = <<>> /\ 0 \in 0 .. n
      BY <1>1, <1>3 DEF Joins
    <2> QED
      BY <1>1, <2>1
  <1>7. ASSUME NEW i \in 1 .. n PROVE g[i] = g[i - 1] + l + Len(v[i])
    <2>1. i - 1 \in 0 .. n /\ i \in 0 .. n
      BY <1>1
    <2>2. h[i] = h[i - 1] \o e[i] /\ h[i - 1] \in Buffer
      BY <1>3, <2>1 DEF Joins
    <2>3. Len(h[i - 1] \o e[i]) = Len(h[i - 1]) + Len(e[i])
      BY <1>1, <2>1, <2>2, Joined, Zenon
    <2>4. Len(h[i]) = Len(h[i - 1]) + (l + Len(v[i]))
      BY <2>2, <2>3
    <2>5. g[i] = w + Len(h[i]) /\ g[i - 1] = w + Len(h[i - 1])
      BY <2>1
    <2> DEFINE x == Len(h[i - 1])
               y == Len(v[i])
    <2>6. x \in Nat /\ y \in Nat /\ Len(h[i]) = x + (l + y)
      BY <1>2, <1>4, <2>1, <2>4
    <2>7. g[i] = w + Len(h[i]) /\ g[i - 1] = w + x
      BY <2>5
    <2> HIDE DEF g, w, l, x, y
    <2>8. w + (x + (l + y)) = w + x + l + y
      BY <1>1, <2>6
    <2>9. g[i] = g[i - 1] + l + y
      BY <2>6, <2>7, <2>8
    <2> QED
      BY <2>9 DEF y
  <1>8. g = [i \in 0 .. n |-> g[i]] /\ g[n] = w + Len(FlattenSeq(e))
    BY <1>1, <1>3
  <1> HIDE DEF g
  <1>9. IsTotal(g, v)
    <2>1. ASSUME NEW i \in 0 .. n PROVE g[i] = IF i = 0 THEN w ELSE g[i - 1] + l + Len(v[i])
      <3>1. i = 0 \/ i \in 1 .. n
        BY <1>1
      <3> QED
        BY <1>6, <1>7, <3>1
    <2> QED
      BY <1>8, <2>1 DEF IsTotal
  <1>10. IsTotal(f, v)
    BY <1>9, Zenon
  <1> HIDE DEF f
  <1> DEFINE P == {i \in Nat : i <= n => f[i] = g[i]}
  <1>11. \A i \in 0 .. n : /\ f[i] = IF i = 0 THEN w ELSE f[i - 1] + l + Len(v[i])
                          /\ g[i] = IF i = 0 THEN w ELSE g[i - 1] + l + Len(v[i])
    BY <1>9, <1>10 DEF IsTotal
  <1>12. P \in SUBSET Nat /\ 0 \in P
    BY <1>1, <1>11
  <1>13. ASSUME NEW i \in P PROVE i + 1 \in P
    <2> SUFFICES ASSUME i + 1 <= n PROVE f[i + 1] = g[i + 1]
      OBVIOUS
    <2>1. i \in Nat /\ i + 1 \in 0 .. n /\ i + 1 # 0 /\ (i + 1) - 1 = i /\ f[i] = g[i]
      BY <1>1
    <2> HIDE DEF P
    <2> QED
      BY <1>11, <2>1
  <1>14. n \in P
    <2> HIDE DEF P
    <2> QED
      BY <1>1, <1>12, <1>13, SetInduction, Zenon
  <1> QED
    BY <1>5, <1>8, <1>14

\* The encodings of the values of a list.
LEMMA EncodingsAre ==
    ASSUME NEW type \in OneTypes, NEW be \in BOOLEAN, ~(type \in {"i16", "i32"} /\ be),
           NEW v \in Seq(OneValues(type))
    PROVE  /\ Encodings(v, type, be) \in Seq(Buffer) /\ Len(Encodings(v, type, be)) = Len(v)
           /\ Len(v) \in Nat
           /\ \A i \in 1 .. Len(v) : /\ v[i] \in OneValues(type)
                                     /\ Len(Encodings(v, type, be)[i]) = OneSize(v[i], type)
  <1> DEFINE n == Len(v)
             V == OneValues(type)
  <1>1. n \in Nat /\ \A i \in 1 .. n : v[i] \in V
    <2>1. v \in Seq(V)
      OBVIOUS
    <2> HIDE DEF V
    <2> QED
      BY <2>1
  <1>2. \A i \in 1 .. n : IsOne(v[i], type, be)
    BY <1>1, OneIs
  <1>3. \A i \in 1 .. n : /\ EncodeOne(v[i], type, be) \in Buffer
                          /\ Len(EncodeOne(v[i], type, be)) = OneSize(v[i], type)
    BY <1>2 DEF IsOne
  <1> QED
    BY <1>1, <1>3 DEF Encodings

\* A list of values of one size, with its count.
LEMMA ListIs ==
    ASSUME NEW type \in OneTypes, NEW be \in BOOLEAN, ~(type \in {"i16", "i32"} /\ be),
           NEW v \in Seq(OneValues(type)), Len(v) <= MaxArrayLength,
           NEW size \in Nat, \A x \in OneValues(type) : OneSize(x, type) = size
    PROVE  /\ EncodeArray(v, type, be) \in Buffer /\ v \in Seq(OneReads(type))
           /\ Len(EncodeArray(v, type, be)) = Width.u16 + Len(v) * size
           /\ Width.u16 + Len(v) * size \in Nat
           /\ \A r \in Reader : Holds(r, EncodeArray(v, type, be)) =>
                 /\ ReadArray(r, be, type, be) = Is(v, Moved(r, Width.u16 + Len(v) * size))
                 /\ ReadArray(r, be, type, be) # Throw
  <1> DEFINE e == Encodings(v, type, be)
  <1>1. /\ e \in Seq(Buffer) /\ Len(e) = Len(v) /\ Len(v) \in Nat
        /\ \A i \in 1 .. Len(v) : Len(e[i]) = size
    BY EncodingsAre
  <1> HIDE DEF e
  <1>2. Len(FlattenSeq(e)) = Len(v) * size
    <2>1. Len(FlattenSeq(e)) = Len(e) * size
      BY <1>1, FlatLength
    <2> QED
      BY <1>1, <2>1
  <1>3. Width.u16 \in Nat /\ Len(v) * size \in Nat
    BY <1>1, Widths
  <1>4. Width.u16 + Len(v) * size \in Nat
    <2> DEFINE w == Width.u16
               m == Len(v) * size
    <2>1. w \in Nat /\ m \in Nat
      BY <1>3
    <2> HIDE DEF w, m
    <2>2. w + m \in Nat
      BY <2>1
    <2> QED
      BY <2>2 DEF w, m
  <1>5. /\ EncodeArray(v, type, be) \in Buffer /\ v \in Seq(OneReads(type))
        /\ Len(EncodeArray(v, type, be)) = Width.u16 + Len(FlattenSeq(e))
        /\ \A r \in Reader : Holds(r, EncodeArray(v, type, be)) =>
              /\ ReadArray(r, be, type, be) = Is(v, Moved(r, Len(EncodeArray(v, type, be))))
              /\ ReadArray(r, be, type, be) # Throw
    BY ArrayIs DEF e
  <1> QED
    BY <1>2, <1>4, <1>5

-----------------------------------------------------------------------------
(* Byte strings whose lengths are read in another order than they were      *)
(* written in                                                               *)

\* A length that is the same in both byte orders.
SameBothWays(x) == Reverse(Digits(Len(x), Width.u32)) = Digits(Len(x), Width.u32)

\* What is read for a list of byte strings.
ListReads == {Throw} \cup [value : Seq(Buffer), reader : Reader]

\* Bytes that are read are as many as were asked for.
LEMMA BytesReadAre ==
    ASSUME NEW r \in Reader, NEW n \in Nat, ReadBytes(r, n) # Throw
    PROVE  \E s \in Buffer : Len(s) = n /\ ReadBytes(r, n) = Is(s, Moved(r, n))
  <1> DEFINE s == SubSeq(r.buffer, r.offset + 1, r.offset + n)
  <1>1. r.buffer \in Buffer /\ r.offset \in Nat /\ Len(r.buffer) \in Nat
    BY Readers
  <1>2. r.offset + n <= Len(r.buffer)
    BY DEF ReadBytes, VerifyEnd
  <1>3. s \in Buffer /\ Len(s) = n
    BY <1>1, <1>2, Slice
  <1>4. [r EXCEPT !.offset = @ + n] = Moved(r, n)
    BY DEF Reader, Moved
  <1>5. ReadBytes(r, n) = Is(s, Moved(r, n))
    BY <1>2, <1>4 DEF ReadBytes, VerifyEnd, Is
  <1> HIDE DEF s
  <1> QED
    BY <1>3, <1>5

\* A count that is read in the default order is the number of four bytes.
LEMMA CountReadIs ==
    ASSUME NEW r \in Reader, NEW d \in Buffer, Len(d) = Width.u32,
           ReadBytes(r, Width.u32) = Is(d, Moved(r, Width.u32))
    PROVE  /\ ReadCount(r, "u32", TRUE) = Is(Number(d), Moved(r, Width.u32))
           /\ ReadCount(r, "u32", TRUE) # Throw
           /\ Number(d) \in Nat /\ Moved(r, Width.u32) \in Reader
  <1> DEFINE w == Width["u32"]
             s == Moved(r, w)
             n == Number(d)
  <1>1. w \in Nat /\ w = Width.u32 /\ (ReadsLittleEndian("u32", TRUE) <=> FALSE)
    BY Widths DEF ReadsLittleEndian
  <1>2. s \in Reader
    BY <1>1, Readers
  <1>3. n \in Nat
    <2>1. PICK v : Counts(v, d) /\ n = v[Len(d)]
      BY NumberLaw DEF Buffer
    <2>2. Len(d) \in 0 .. Len(d)
      BY DEF Buffer
    <2> QED
      BY <2>1, <2>2 DEF Counts
  <1>4. Is(d, s) # Throw /\ Is(n, s) # Throw
    BY <1>2, <1>3, ReadIsNotThrow DEF ReadValue
  <1>5. Ordered(d, ~ReadsLittleEndian("u32", TRUE)) = d
    BY <1>1 DEF Ordered
  <1>6. ReadBytes(r, w) = Is(d, s)
    BY <1>1
  <1> HIDE DEF w, s, n
  <1>7. Is(d, s).value = d /\ [Is(d, s) EXCEPT !.value = d] = Is(d, s)
        /\ [Is(d, s) EXCEPT !.value = n] = Is(n, s)
    BY DEF Is
  <1>8. ReadInteger(r, "u32", TRUE) = Is(d, s)
    BY <1>4, <1>5, <1>6, <1>7 DEF ReadInteger, Converted, w
  <1>9. ReadCount(r, "u32", TRUE) = Is(n, s)
    BY <1>4, <1>7, <1>8 DEF ReadCount, Converted, n
  <1> QED
    BY <1>1, <1>2, <1>3, <1>4, <1>9 DEF s, n

\* Bytes that are read with their length are as many as it says.
LEMMA WithLengthReadIs ==
    ASSUME NEW r \in Reader, ReadBytesWithLength(r, TRUE) # Throw
    PROVE  \E d \in Buffer, y \in Buffer :
              /\ ReadBytes(r, Width.u32) = Is(d, Moved(r, Width.u32)) /\ Len(d) = Width.u32
              /\ Len(y) = Number(d) /\ Len(y) \in Nat
              /\ ReadBytesWithLength(r, TRUE) = Is(y, Moved(r, Width.u32 + Len(y)))
  <1> DEFINE w == Width.u32
             s == Moved(r, w)
  <1>1. w \in Nat /\ w = Width["u32"]
    BY Widths
  <1>2. ReadBytes(r, w) # Throw
    <2> SUFFICES ASSUME ReadBytes(r, w) = Throw PROVE FALSE
      OBVIOUS
    <2>1. ReadInteger(r, "u32", TRUE) = Throw
      BY <1>1 DEF ReadInteger, Converted
    <2>2. ReadCount(r, "u32", TRUE) = Throw
      BY <2>1 DEF ReadCount, Converted
    <2> QED
      BY <2>2 DEF ReadBytesWithLength, Then
  <1> HIDE DEF w
  <1>3. PICK d \in Buffer : Len(d) = w /\ ReadBytes(r, w) = Is(d, s)
    BY <1>1, <1>2, BytesReadAre
  <1> DEFINE n == Number(d)
  <1>4. /\ ReadCount(r, "u32", TRUE) = Is(n, s) /\ Is(n, s) # Throw
        /\ n \in Nat /\ s \in Reader
    BY <1>3, CountReadIs DEF w
  <1> HIDE DEF n, s
  <1>5. Is(n, s).value = n /\ Is(n, s).reader = s
    BY DEF Is
  <1>6. ReadBytesWithLength(r, TRUE) = ReadBytes(s, n)
    BY <1>4, <1>5 DEF ReadBytesWithLength, Then
  <1>7. PICK y \in Buffer : Len(y) = n /\ ReadBytes(s, n) = Is(y, Moved(s, n))
    BY <1>4, <1>6, BytesReadAre
  <1>8. Moved(s, n) = Moved(r, w + n)
    BY <1>1, <1>4, MovedOn, Zenon DEF s
  <1> QED
    BY <1>3, <1>4, <1>6, <1>7, <1>8 DEF n, s, w

\* If a byte string is read back from bytes with a little-endian length, then its length
\* is the same in both orders.
LEMMA ReadBackTellsLength ==
    ASSUME NEW r \in Reader, NEW x \in Counted(Byte), Holds(r, EncodeWithLength(x, FALSE)),
           ReadBytesWithLength(r, TRUE) # Throw, NEW q, ReadBytesWithLength(r, TRUE) = Is(x, q)
    PROVE  SameBothWays(x) /\ q = Moved(r, Width.u32 + Len(x))
  <1> DEFINE w == Width.u32
             n == Len(x)
             a == Digits(n, w)
             c == Reverse(a)
  <1>1. w \in Nat /\ n \in Nat /\ x \in Buffer /\ n < PlaceValue[w]
    BY Widths, CountedBytes
  <1>2. a \in [1 .. w -> Byte] /\ a \in Buffer /\ Len(a) = w
    <2> HIDE DEF w, n
    <2> QED
      BY <1>1, DigitsAreBytes
  <1>3. c \in [1 .. w -> Byte]
    <2>1. c = [i \in 1 .. Len(a) |-> a[(Len(a) - i) + 1]]
      BY DEF Reverse
    <2> HIDE DEF a, c, w
    <2>2. \A i \in 1 .. w : (w - i) + 1 \in 1 .. w
      BY <1>1
    <2> QED
      BY <1>2, <2>1, <2>2
  <1>4. c \in Buffer /\ Len(c) = w /\ EncodeWithLength(x, FALSE) = c \o x
    <2>1. FALSE \in BOOLEAN /\ Ordered(a, FALSE) = c
      BY DEF Ordered
    <2>2. EncodeWithLength(x, FALSE) = c \o x
      BY <2>1 DEF EncodeWithLength
    <2> HIDE DEF a, c, w
    <2> QED
      BY <1>2, <2>1, <2>2, OrderedTwice
  <1> HIDE DEF a, c, w, n
  <1>5. ReadBytes(r, w) = Is(c, Moved(r, w))
    <2>1. Holds(r, c)
      <3>1. Holds(r, c \o x)
        BY <1>4
      <3> QED
        BY <1>1, <1>4, <3>1, HoldsParts
    <2> QED
      BY <1>1, <1>4, <2>1, BytesAreRead
  <1>6. PICK d \in Buffer, y \in Buffer :
              /\ ReadBytes(r, w) = Is(d, Moved(r, w)) /\ Len(y) = Number(d)
              /\ ReadBytesWithLength(r, TRUE) = Is(y, Moved(r, w + Len(y)))
    BY WithLengthReadIs DEF w
  <1>7. d = c /\ y = x /\ q = Moved(r, w + n)
    <2> DEFINE s == Moved(r, w)
               p == Moved(r, w + Len(y))
    <2>1. Is(d, s) = Is(c, s) /\ Is(y, p) = Is(x, q)
      BY <1>5, <1>6
    <2> HIDE DEF s, p
    <2>2. /\ Is(d, s).value = d /\ Is(c, s).value = c
          /\ Is(y, p).value = y /\ Is(x, q).value = x
          /\ Is(y, p).reader = p /\ Is(x, q).reader = q
      BY DEF Is
    <2>3. d = c /\ y = x /\ p = q
      BY <2>1, <2>2
    <2> QED
      BY <2>3 DEF n, p
  <1>8. Digits(Number(c), w) = c
    BY <1>1, <1>3, DigitsOfNumber
  <1> QED
    BY <1>6, <1>7, <1>8 DEF SameBothWays, a, c, w, n

\* One more byte string read behind those that were.
LEMMA MoreReadIs ==
    ASSUME NEW x \in Seq(Buffer), NEW q \in Reader,
           MoreRead(Is(x, q), "bytesWithLength", TRUE) # Throw
    PROVE  \E y \in Buffer, p \in Reader :
              /\ ReadBytesWithLength(q, TRUE) = Is(y, p) /\ Is(y, p) # Throw
              /\ MoreRead(Is(x, q), "bytesWithLength", TRUE) = Is(Append(x, y), p)
  <1> DEFINE type == "bytesWithLength"
  <1>1. ReadOne(q, type, TRUE) = ReadBytesWithLength(q, TRUE)
    BY OtherTypes DEF ReadOne
  <1>2. Is(x, q) # Throw /\ ReadBytesWithLength(q, TRUE) # Throw
    BY <1>1 DEF MoreRead, Is
  <1>3. PICK y \in Buffer : /\ Len(y) \in Nat
                            /\ ReadBytesWithLength(q, TRUE) = Is(y, Moved(q, Width.u32 + Len(y)))
    BY <1>2, WithLengthReadIs
  <1> DEFINE p == Moved(q, Width.u32 + Len(y))
  <1>4. p \in Reader
    <2>1. Width.u32 + Len(y) \in Nat
      BY <1>3, Widths
    <2> QED
      BY <2>1, Readers
  <1> HIDE DEF p, type
  <1>5. ReadOne(q, type, TRUE) = Is(y, p) /\ Is(y, p) # Throw
    BY <1>1, <1>2, <1>3 DEF p, type
  <1>6. MoreRead(Is(x, q), type, TRUE) = Is(Append(x, y), p)
    <2> DEFINE z == Append(x, y)
    <2>1. /\ Is(x, q).reader = q /\ Is(x, q).value = x /\ Is(y, p).value = y
          /\ ReadOne(q, type, TRUE) # Throw
      BY <1>5 DEF Is
    <2>2. MoreRead(Is(x, q), type, TRUE) = [Is(y, p) EXCEPT !.value = z]
      BY <1>2, <1>5, <2>1 DEF MoreRead
    <2> HIDE DEF z
    <2>3. [Is(y, p) EXCEPT !.value = z] = Is(z, p)
      BY DEF Is
    <2> QED
      BY <2>2, <2>3 DEF z
  <1> QED
    BY <1>3, <1>4, <1>5, <1>6 DEF p, type

\* What ReadMany goes through.
LEMMA ReadUpToExists ==
    ASSUME NEW r \in Reader, NEW count \in Nat
    PROVE  \E g \in [0 .. count -> ListReads] :
              IsReadUpTo(g, r, count, "bytesWithLength", TRUE)
  <1> DEFINE type == "bytesWithLength"
             more == [read \in ListReads |-> MoreRead(read, type, TRUE)]
             join == [i \in 1 .. count |-> more]
             first == Is(<<>>, r)
  <1>a. Throw \in ListReads /\ \A x \in Seq(Buffer), q \in Reader : Is(x, q) \in ListReads
    BY DEF ListReads, Is
  <1>1. first \in ListReads
    <2>1. <<>> \in Seq(Buffer)
      OBVIOUS
    <2> QED
      BY <1>a, <2>1
  <1>2. ASSUME NEW read \in ListReads PROVE MoreRead(read, type, TRUE) \in ListReads
    <2>1. CASE read = Throw \/ MoreRead(read, type, TRUE) = Throw
      <3>1. MoreRead(read, type, TRUE) = Throw
        BY <2>1 DEF MoreRead
      <3> QED
        BY <1>a, <3>1
    <2>2. CASE read # Throw /\ MoreRead(read, type, TRUE) # Throw
      <3>1. PICK x \in Seq(Buffer), q \in Reader : read = Is(x, q)
        BY <2>2 DEF ListReads, Is
      <3>2. PICK y \in Buffer, p \in Reader : MoreRead(read, type, TRUE) = Is(Append(x, y), p)
        BY <2>2, <3>1, MoreReadIs
      <3>3. Append(x, y) \in Seq(Buffer)
        OBVIOUS
      <3> QED
        BY <1>a, <3>2, <3>3, Zenon
    <2> QED
      BY <2>1, <2>2
  <1>3. more \in [ListReads -> ListReads]
    BY <1>2
  <1> HIDE DEF more
  <1>4. join \in [1 .. count -> [ListReads -> ListReads]]
    BY <1>3
  <1>5. \A i \in 1 .. count, read \in ListReads : join[i][read] = MoreRead(read, type, TRUE)
    BY DEF more
  <1> HIDE DEF join, first, type
  <1>6. PICK g \in [0 .. count -> ListReads] : FollowsList(g, first, count, join)
    BY <1>1, <1>4, ListRecursion, Zenon
  <1>7. \A i \in 0 .. count : g[i] = IF i = 0 THEN first ELSE join[i][g[i - 1]]
    BY <1>6 DEF FollowsList
  <1>8. \A i \in 0 .. count : g[i] = IF i = 0 THEN first ELSE MoreRead(g[i - 1], type, TRUE)
    <2> SUFFICES ASSUME NEW i \in 0 .. count, i # 0 PROVE g[i] = MoreRead(g[i - 1], type, TRUE)
      BY <1>7
    <2>1. i \in 1 .. count /\ i - 1 \in 0 .. count
      OBVIOUS
    <2>2. g[i - 1] \in ListReads
      BY <1>6, <2>1
    <2> QED
      BY <1>5, <1>7, <2>1, <2>2
  <1>9. g = [i \in 0 .. count |-> g[i]]
    BY <1>6
  <1>10. IsReadUpTo(g, r, count, type, TRUE)
    BY <1>8, <1>9 DEF IsReadUpTo, first
  <1> QED
    BY <1>6, <1>10 DEF type

\* If a list of byte strings is read back from bytes with little-endian lengths, then these
\* are the same in both orders.
LEMMA ReadBackTellsLengths ==
    ASSUME NEW v \in Seq(Counted(Byte)), NEW r \in Reader,
           Holds(r, FlattenSeq(Encodings(v, "bytesWithLength", FALSE))),
           ReadMany(r, Len(v), "bytesWithLength", TRUE) # Throw,
           ReadMany(r, Len(v), "bytesWithLength", TRUE).value = v
    PROVE  \A i \in 1 .. Len(v) : SameBothWays(v[i])
  <1> DEFINE type == "bytesWithLength"
             e == Encodings(v, type, FALSE)
             n == Len(v)
  <1>1. n \in Nat /\ \A i \in 1 .. n : v[i] \in Counted(Byte)
    OBVIOUS
  <1>2. \A i \in 1 .. n : /\ v[i] \in Buffer /\ Len(v[i]) \in Nat
                          /\ e[i] = EncodeWithLength(v[i], FALSE) /\ e[i] \in Buffer
                          /\ Len(e[i]) = Width.u32 + Len(v[i])
    <2> SUFFICES ASSUME NEW i \in 1 .. n
                 PROVE  /\ v[i] \in Buffer /\ Len(v[i]) \in Nat
                        /\ e[i] = EncodeWithLength(v[i], FALSE) /\ e[i] \in Buffer
                        /\ Len(e[i]) = Width.u32 + Len(v[i])
      OBVIOUS
    <2>1. v[i] \in Buffer /\ Len(v[i]) \in Nat
      BY <1>1, CountedBytes
    <2>2. EncodeOne(v[i], type, FALSE) = EncodeWithLength(v[i], FALSE)
      BY OtherTypes DEF EncodeOne
    <2>3. e[i] = EncodeWithLength(v[i], FALSE)
      BY <2>2 DEF Encodings
    <2> QED
      BY <2>1, <2>3, WithLengthSize
  <1>3. e \in Seq(Buffer) /\ Len(e) = n
    <2>1. e = [i \in 1 .. n |-> EncodeOne(v[i], type, FALSE)]
      BY DEF Encodings
    <2>2. e \in [1 .. n -> Buffer]
      BY <1>2, <2>1
    <2> HIDE DEF e, n
    <2> QED
      BY <1>1, <2>2
  <1> HIDE DEF e
  <1>4. PICK h : Joins(h, e) /\ FlattenSeq(e) = h[n]
    BY <1>3, FlattenSteps
  <1>5. \A i \in 0 .. n : h[i] \in Buffer /\ Len(h[i]) \in Nat
    BY <1>3, <1>4 DEF Joins, Buffer
  <1>6. \A i \in 1 .. n : Holds(Moved(r, Len(h[i - 1])), e[i])
    BY <1>3, <1>4, PartsStand DEF e
  <1>7. PICK g \in [0 .. n -> ListReads] : IsReadUpTo(g, r, n, type, TRUE)
    BY <1>1, ReadUpToExists
  <1>8. g[n] # Throw /\ g[n].value = v
    BY <1>1, <1>7, ReadUpToIsOne
  <1>9. \A i \in 0 .. n : g[i] = IF i = 0 THEN Is(<<>>, r) ELSE MoreRead(g[i - 1], type, TRUE)
    BY <1>7 DEF IsReadUpTo
  <1> DEFINE Good(i) == /\ g[i].reader = Moved(r, Len(h[i]))
                        /\ \A j \in 1 .. i : SameBothWays(v[j])
             P == {i \in Nat : i <= n =>
                      (g[i] # Throw /\ g[i].value = FirstOf(v, i) => Good(i))}
  <1>10. P \in SUBSET Nat /\ 0 \in P
    <2>1. 0 \in 0 .. n /\ h[0] = <<>> /\ Moved(r, 0) = r /\ 1 .. 0 = {}
      BY <1>1, <1>3, <1>4, Readers DEF Joins
    <2>2. g[0].reader = r
      BY <1>9, <2>1 DEF Is
    <2> QED
      BY <2>1, <2>2
  <1>11. ASSUME NEW k \in P PROVE k + 1 \in P
    <2> DEFINE i == k + 1
    <2>0. k \in Nat /\ i \in Nat
      <3>1. k \in Nat
        BY Zenon
      <3> QED
        BY <3>1
    <2> SUFFICES ASSUME i <= n, g[i] # Throw, g[i].value = FirstOf(v, i) PROVE Good(i)
      BY <2>0
    <2>1. k \in Nat /\ k \in 0 .. n /\ i \in 1 .. n /\ i \in 0 .. n /\ i # 0 /\ i - 1 = k
      <3> HIDE DEF P, Good, n
      <3> QED
        BY <1>1, <2>0
    <2>2. g[k] # Throw /\ g[k].value = FirstOf(v, k) => Good(k)
      BY <2>1
    <2> HIDE DEF P, i
    <2>3. g[i] = MoreRead(g[k], type, TRUE)
      BY <1>9, <2>1
    <2>4. g[k] # Throw /\ g[k] \in ListReads
      BY <1>7, <2>1, <2>3 DEF MoreRead
    <2>5. PICK x \in Seq(Buffer), q \in Reader : g[k] = Is(x, q)
      BY <2>4 DEF ListReads, Is
    <2>6. PICK y \in Buffer, p \in Reader :
             /\ ReadBytesWithLength(q, TRUE) = Is(y, p) /\ Is(y, p) # Throw
             /\ g[i] = Is(Append(x, y), p)
      BY <2>3, <2>5, MoreReadIs
    <2>7. x = FirstOf(v, k) /\ y = v[i]
      <3>1. Append(x, y) = FirstOf(v, i)
        BY <2>6 DEF Is
      <3>2. Len(FirstOf(v, i)) = i /\ \A j \in 1 .. i : FirstOf(v, i)[j] = v[j]
        <4>1. FirstOf(v, i) = [j \in 1 .. i |-> v[j]]
          BY DEF FirstOf
        <4>2. i \in Nat
          BY <2>1
        <4> QED
          BY <4>1, <4>2
      <3>3. Len(x) = k
        <4>1. Len(Append(x, y)) = Len(x) + 1 /\ Len(x) \in Nat
          OBVIOUS
        <4>2. Len(x) + 1 = k + 1
          BY <3>1, <3>2, <4>1 DEF i
        <4> QED
          BY <2>1, <4>1, <4>2
      <3>4. /\ Append(x, y)[i] = y /\ x = [j \in 1 .. k |-> x[j]]
            /\ \A j \in 1 .. k : Append(x, y)[j] = x[j]
        BY <2>1, <3>3 DEF i
      <3>5. \A j \in 1 .. k : j \in 1 .. i
        BY <2>1 DEF i
      <3>6. \A j \in 1 .. k : x[j] = v[j]
        BY <3>1, <3>2, <3>4, <3>5
      <3>7. i \in 1 .. i
        BY <2>1
      <3>8. x = FirstOf(v, k)
        BY <3>4, <3>6 DEF FirstOf
      <3> QED
        BY <3>1, <3>2, <3>4, <3>7, <3>8
    <2>8. q = Moved(r, Len(h[k])) /\ \A j \in 1 .. k : SameBothWays(v[j])
      <3>1. g[k].value = FirstOf(v, k) /\ g[k].reader = q
        BY <2>5, <2>7 DEF Is
      <3> QED
        BY <2>2, <2>4, <3>1
    <2>9. Holds(q, EncodeWithLength(v[i], FALSE))
      BY <1>2, <1>6, <2>1, <2>8
    <2>10. SameBothWays(v[i]) /\ p = Moved(q, Width.u32 + Len(v[i]))
      <3>1. v[i] \in Counted(Byte)
        BY <1>1, <2>1
      <3>2. ReadBytesWithLength(q, TRUE) # Throw /\ ReadBytesWithLength(q, TRUE) = Is(v[i], p)
        BY <2>6, <2>7
      <3> QED
        BY <2>9, <3>1, <3>2, ReadBackTellsLength
    <2>11. p = Moved(r, Len(h[i]))
      <3> DEFINE m == Len(e[i])
                 l == Len(h[k])
      <3>1. m \in Nat /\ l \in Nat /\ m = Width.u32 + Len(v[i])
        <4>1. e[i] \in Buffer /\ Len(e[i]) = Width.u32 + Len(v[i]) /\ Len(h[k]) \in Nat
          BY <1>2, <1>5, <2>1
        <4>2. Len(e[i]) \in Nat
          BY <4>1 DEF Buffer
        <4> QED
          BY <4>1, <4>2
      <3>2. Len(h[i]) = l + m
        <4>1. h[i] = h[k] \o e[i] /\ h[k] \in Buffer /\ e[i] \in Buffer
          BY <1>2, <1>3, <1>4, <2>1 DEF Joins
        <4>2. Len(h[k] \o e[i]) = Len(h[k]) + Len(e[i])
          BY <4>1, Joined, Zenon
        <4> QED
          BY <4>1, <4>2
      <3> HIDE DEF m, l
      <3>3. Moved(Moved(r, l), m) = Moved(r, l + m)
        BY <3>1, MovedOn, Zenon
      <3>4. q = Moved(r, l) /\ p = Moved(q, m)
        BY <2>8, <2>10, <3>1 DEF l
      <3> QED
        BY <3>2, <3>3, <3>4
    <2>12. g[i].reader = p
      BY <2>6 DEF Is
    <2>13. \A j \in 1 .. i : j \in 1 .. k \/ j = i
      BY <2>1 DEF i
    <2> QED
      BY <2>8, <2>10, <2>11, <2>12, <2>13
  <1>12. n \in P
    <2> HIDE DEF P
    <2> QED
      BY <1>1, <1>10, <1>11, SetInduction, Zenon
  <1>13. FirstOf(v, n) = v
    BY <1>1 DEF FirstOf
  <1> QED
    BY <1>1, <1>8, <1>12, <1>13

\* Byte strings whose lengths are the same in both orders have one encoding.
LEMMA SameEncodings ==
    ASSUME NEW v \in Seq(Counted(Byte)), \A i \in 1 .. Len(v) : SameBothWays(v[i])
    PROVE  Encodings(v, "bytesWithLength", FALSE) = Encodings(v, "bytesWithLength", TRUE)
  <1>1. ASSUME NEW i \in 1 .. Len(v)
        PROVE  EncodeOne(v[i], "bytesWithLength", FALSE) = EncodeOne(v[i], "bytesWithLength", TRUE)
    <2>1. \A be : EncodeOne(v[i], "bytesWithLength", be) = EncodeWithLength(v[i], be)
      BY OtherTypes DEF EncodeOne
    <2>2. Ordered(Digits(Len(v[i]), Width.u32), FALSE) = Ordered(Digits(Len(v[i]), Width.u32), TRUE)
      BY DEF SameBothWays, Ordered
    <2> QED
      BY <2>1, <2>2 DEF EncodeWithLength
  <1> QED
    BY <1>1 DEF Encodings

-----------------------------------------------------------------------------
(* Fields *)

\* The sizes are numbers.
LEMMA Sizes ==
    /\ AddressLength \in Nat /\ 2 * AddressLength \in Nat /\ AddressLength + Width.u256 \in Nat
    /\ 2 * AddressLength + Width.u256 \in Nat /\ SignatureLength \in Nat
    /\ 2 * AddressLength + SignatureLength \in Nat
    /\ Width.u16 \in Nat /\ Width.u32 \in Nat
    /\ \A type \in Integer : Width[type] \in Nat
  BY Widths DEF AddressLength, SignatureLength

\* The sizes of values of each type that has but one.
LEMMA OneSizes ==
    /\ \A type \in Integer : \A x : OneSize(x, type) = Width[type]
    /\ \A x : /\ OneSize(x, "address") = AddressLength
              /\ OneSize(x, "extendedAddress") = 2 * AddressLength
              /\ OneSize(x, "addressEntry") = AddressLength + Width.u256
              /\ OneSize(x, "extendedAddressEntry") = 2 * AddressLength + Width.u256
              /\ OneSize(x, "bytesWithLength") = Width.u32 + Len(x)
  <1>1. \A type \in Integer : \A x : OneSize(x, type) = Width[type]
    BY OtherTypes DEF OneSize
  <1> QED
    BY <1>1, OtherTypes DEF OneSize

\* The types of fields that are not integers.
LEMMA FieldTypes ==
    \A type \in {"boolean", "bytesWithLength", "stringWithLength", "address", "extendedAddress",
                 "schnorr", "integers", "buffers", "addresses", "extendedAddresses",
                 "addressMap", "extendedAddressMap"} : type \notin Integer
  BY DEF Integer, Width

\* What holds of the encoding of a field, and of reading it.
IsField(f) ==
    /\ EncodeField(f) \in Buffer /\ f.value \in ReadValue
    /\ Len(EncodeField(f)) = Size(f) /\ Size(f) \in Nat
    /\ \A r \in Reader : Holds(r, EncodeField(f)) =>
          ReadField(r, f) = IF f.type \in Maps /\ HasTwoOfAKey(f.value) THEN Throw
                            ELSE Is(f.value, Moved(r, Size(f)))

\* What holds of the encoding of a field, whatever reads it.
IsEncoded(f) ==
    /\ EncodeField(f) \in Buffer /\ f.value \in ReadValue
    /\ Len(EncodeField(f)) = Size(f) /\ Size(f) \in Nat

\* What holds of a field that is not read back.
IsMisread(f) ==
    /\ IsEncoded(f) /\ f.type \notin Maps
    /\ \A r \in Reader : Holds(r, EncodeField(f)) /\ ReadField(r, f) # Throw =>
          ReadField(r, f).value # f.value

\* An integer as a field.
LEMMA IntegerField ==
    ASSUME NEW f, f.type \in Integer, f.be \in BOOLEAN, f.value \in ByteString(Width[f.type]),
           f.type \in {"i16", "i32"} /\ f.be => Reverse(f.value) = f.value
    PROVE  IsField(f)
  <1> DEFINE v == f.value
             type == f.type
  <1>1. type \in OneTypes /\ v \in OneValues(type)
    BY OtherTypes DEF OneTypes, OneValues
  <1>2. IsOne(v, type, f.be)
    BY <1>1, OneInteger
  <1>3. type \notin Maps
    BY FieldTypes DEF Maps
  <1>4. EncodeField(f) = EncodeOne(v, type, f.be)
    BY FieldTypes DEF EncodeField
  <1>5. Size(f) = Width[type] /\ OneSize(v, type) = Width[type]
    BY FieldTypes, OneSizes DEF Size
  <1>6. \A r : ReadField(r, f) = ReadOne(r, type, f.be)
    BY FieldTypes DEF ReadField
  <1>7. v \in ReadValue
    <2>1. OneReads(type) = Buffer
      BY OtherTypes DEF OneReads
    <2> QED
      BY <1>2, <2>1 DEF IsOne, ReadValue
  <1> QED
    BY <1>2, <1>3, <1>4, <1>5, <1>6, <1>7 DEF IsOne, IsField

\* A signed word in the default order whose bytes tell the orders apart.
IsSignedWord(f) ==
    /\ f.type \in {"i16", "i32"} /\ f.be \in BOOLEAN /\ f.be
    /\ f.value \in ByteString(Width[f.type]) /\ Reverse(f.value) # f.value

\* A signed word in the default order is read back only if it is the same in both.
LEMMA SignedMisread ==
    ASSUME NEW f, IsSignedWord(f)
    PROVE  IsMisread(f)
  <1> USE DEF IsSignedWord
  <1> DEFINE v == f.value
             type == f.type
             w == Width[type]
  <1>1. type \in Integer /\ w \in Nat
    <2>1. type \in Integer
      BY DEF Integer, Width
    <2> QED
      BY <2>1, Widths
  <1>2. v \in Buffer /\ Len(v) = w
    BY <1>1, ByteStrings
  <1>3. type \notin Maps
    BY DEF Maps
  <1>4. EncodeField(f) = v
    BY <1>1, FieldTypes DEF EncodeField, EncodeOne, EncodeInteger, Ordered
  <1>5. Size(f) = w
    BY <1>1, FieldTypes DEF Size
  <1>6. \A r : ReadField(r, f) = ReadInteger(r, type, TRUE)
    BY <1>1, FieldTypes DEF ReadField, ReadOne
  <1>7. IsEncoded(f)
    BY <1>1, <1>2, <1>4, <1>5 DEF IsEncoded, ReadValue
  <1>8. ASSUME NEW r \in Reader, Holds(r, EncodeField(f)) PROVE ReadField(r, f).value # v
    <2>1. ReadField(r, f) = Is(Reverse(v), Moved(r, w))
      <3>1. Holds(r, v) /\ ReadField(r, f) = ReadInteger(r, type, TRUE)
        BY <1>4, <1>6, <1>8
      <3>2. type \in {"i16", "i32"} /\ Len(v) = Width[type]
        BY <1>2
      <3> DEFINE be == TRUE
      <3> HIDE DEF v, type, be
      <3>3. ReadInteger(r, type, be) = Is(Reverse(v), Moved(r, Width[type]))
        <4>1. v \in Buffer /\ r \in Reader /\ Holds(r, v)
          BY <1>2, <3>1
        <4> HIDE DEF w, IsSignedWord
        <4> QED
          BY <3>2, <4>1, SignedIs
      <3> QED
        BY <3>1, <3>3 DEF type, be
    <2>2. Is(Reverse(v), Moved(r, w)).value = Reverse(v)
      BY DEF Is
    <2> QED
      BY <2>1, <2>2
  <1> QED
    BY <1>3, <1>7, <1>8 DEF IsMisread

\* An address or an extended address as a field.
LEMMA OneField ==
    ASSUME NEW f, f.type \in {"address", "extendedAddress"}, f.be \in BOOLEAN,
           f.value \in OneValues(f.type)
    PROVE  IsField(f)
  <1> DEFINE v == f.value
             type == f.type
  <1>2. IsOne(v, type, f.be)
    BY OneAddress, OneExtended
  <1>3. type \notin Maps
    BY DEF Maps
  <1>4. EncodeField(f) = EncodeOne(v, type, f.be)
    BY FieldTypes DEF EncodeField
  <1>5. Size(f) = OneSize(v, type)
    BY FieldTypes, OneSizes DEF Size
  <1>6. \A r : ReadField(r, f) = ReadOne(r, type, f.be)
    BY FieldTypes DEF ReadField
  <1>7. v \in ReadValue
    <2>1. OneReads(type) \in {Buffer, ReadExtended}
      BY OtherTypes DEF OneReads
    <2> QED
      BY <1>2, <2>1 DEF IsOne, ReadValue
  <1> QED
    BY <1>2, <1>3, <1>4, <1>5, <1>6, <1>7 DEF IsOne, IsField

\* A boolean as a field.
LEMMA BooleanField ==
    ASSUME NEW f, f.type = "boolean", f.value \in BOOLEAN
    PROVE  IsField(f)
  <1> DEFINE v == f.value
  <1>1. f.type \notin Maps
    BY DEF Maps
  <1>2. EncodeField(f) = EncodeBoolean(v) /\ Size(f) = 1
    BY FieldTypes DEF EncodeField, Size
  <1>3. EncodeBoolean(v) \in Buffer /\ Len(EncodeBoolean(v)) = 1
    BY DEF EncodeBoolean, Buffer
  <1>4. \A r : ReadField(r, f) = ReadBoolean(r)
    BY FieldTypes DEF ReadField
  <1>5. v \in ReadValue
    BY DEF ReadValue
  <1>6. \A r \in Reader : Holds(r, EncodeBoolean(v)) => ReadBoolean(r) = Is(v, Moved(r, 1))
    BY BooleanIs
  <1> QED
    BY <1>1, <1>2, <1>3, <1>4, <1>5, <1>6 DEF IsField

\* Bytes and text with their length as a field.
LEMMA BytesField ==
    ASSUME NEW f, f.type \in {"bytesWithLength", "stringWithLength"},
           IF f.type = "bytesWithLength" THEN f.value \in Counted(Byte)
           ELSE f.value \in Counted(Byte \ {0})
    PROVE  IsField(f)
  <1> DEFINE v == f.value
             n == Width.u32 + Len(v)
  <1>1. f.type \notin Maps
    BY DEF Maps
  <1>2. EncodeField(f) = EncodeWithLength(v, TRUE) /\ Size(f) = n
    BY FieldTypes DEF EncodeField, Size
  <1>3. v \in Buffer /\ Len(v) \in Nat /\ Len(v) < PlaceValue[Width.u32] /\ v \in ReadValue
    BY CountedBytes DEF ReadValue
  <1>4. EncodeWithLength(v, TRUE) \in Buffer /\ Len(EncodeWithLength(v, TRUE)) = n
    BY <1>3, WithLengthSize
  <1>5. n \in Nat
    BY <1>3, Widths
  <1>6. ASSUME NEW r \in Reader, Holds(r, EncodeWithLength(v, TRUE))
        PROVE  ReadField(r, f) = Is(v, Moved(r, n))
    <2>1. CASE f.type = "bytesWithLength"
      <3>1. ReadField(r, f) = ReadBytesWithLength(r, TRUE)
        BY <2>1, FieldTypes DEF ReadField
      <3> QED
        BY <1>3, <1>6, <3>1, WithLengthIs
    <2>2. CASE f.type = "stringWithLength"
      <3>1. ReadField(r, f) = ReadStringWithLength(r, TRUE)
        BY <2>2, FieldTypes DEF ReadField
      <3>2. v \in Seq(Byte \ {0})
        BY <2>2, CountedBytes
      <3>3. \A i \in 1 .. Len(v) : v[i] # 0
        BY <3>2
      <3> QED
        BY <1>3, <1>6, <3>1, <3>3, TextIs
    <2> QED
      BY <2>1, <2>2
  <1> HIDE DEF n
  <1> QED
    BY <1>1, <1>2, <1>3, <1>4, <1>5, <1>6 DEF IsField

\* An address with its signature as a field.
LEMMA SchnorrField ==
    ASSUME NEW f, f.type = "schnorr", f.value \in [address : Extended, signature : Seq(Byte)],
           Len(f.value.signature) = SignatureLength
    PROVE  IsField(f)
  <1> DEFINE v == f.value
             n == 2 * AddressLength + SignatureLength
  <1>1. f.type \notin Maps
    BY DEF Maps
  <1>2. EncodeField(f) = EncodeSchnorr(v) /\ Size(f) = n
    BY FieldTypes DEF EncodeField, Size
  <1>3. /\ EncodeSchnorr(v) \in Buffer /\ v \in ReadValue /\ Len(EncodeSchnorr(v)) = n
        /\ \A r \in Reader : Holds(r, EncodeSchnorr(v)) => ReadSchnorr(r) = Is(v, Moved(r, n))
    BY SchnorrIs
  <1>4. \A r : ReadField(r, f) = ReadSchnorr(r)
    BY FieldTypes DEF ReadField
  <1>5. n \in Nat
    BY Sizes
  <1> HIDE DEF n
  <1> QED
    BY <1>1, <1>2, <1>3, <1>4, <1>5 DEF IsField

\* A field that is a list of values of one type.
IsListField(f, type, be, size) ==
    /\ EncodeField(f) = EncodeArray(f.value, type, be) /\ Size(f) = size
    /\ f.type \notin Maps /\ \A r : ReadField(r, f) = ReadArray(r, be, type, be)

\* The values of the elements, and what is read for them.
LEMMA ElementTypes ==
    /\ \A type \in Unsigned : /\ type \in OneTypes /\ type \notin {"i16", "i32"}
                              /\ type \in Integer
                              /\ OneValues(type) = ByteString(Width[type])
                              /\ OneReads(type) = Buffer
    /\ OneValues("bytesWithLength") = Counted(Byte) /\ OneReads("bytesWithLength") = Buffer
    /\ OneValues("address") = ByteString(AddressLength) /\ OneReads("address") = Buffer
    /\ OneValues("extendedAddress") = Extended /\ OneReads("extendedAddress") = ReadExtended
    /\ OneValues("addressEntry") = Entry(ByteString(AddressLength))
    /\ OneReads("addressEntry") = ReadEntries
    /\ OneValues("extendedAddressEntry") = Entry(Extended)
    /\ OneReads("extendedAddressEntry") = ReadEntries
    /\ {"bytesWithLength", "address", "extendedAddress", "addressEntry",
        "extendedAddressEntry"} \subseteq OneTypes
  <1>1. Unsigned \subseteq Integer
    BY Widths
  <1>2. ASSUME NEW type \in Unsigned
        PROVE  /\ type \in OneTypes /\ type \notin {"i16", "i32"} /\ type \in Integer
               /\ OneValues(type) = ByteString(Width[type]) /\ OneReads(type) = Buffer
    <2>1. type \in Integer /\ type \notin {"i16", "i32"}
      BY <1>1 DEF Unsigned
    <2>2. type \notin {"bytesWithLength", "address", "extendedAddress", "addressEntry",
                      "extendedAddressEntry"}
      BY <2>1, OtherTypes
    <2> QED
      BY <2>1, <2>2 DEF OneTypes, OneValues, OneReads
  <1>3. /\ OneValues("bytesWithLength") = Counted(Byte)
        /\ OneValues("address") = ByteString(AddressLength)
        /\ OneValues("extendedAddress") = Extended
        /\ OneValues("addressEntry") = Entry(ByteString(AddressLength))
        /\ OneValues("extendedAddressEntry") = Entry(Extended)
    BY OtherTypes DEF OneValues
  <1> QED
    BY <1>2, <1>3 DEF OneReads, OneTypes

\* A list of values of one size as a field.
LEMMA ListField ==
    ASSUME NEW f, NEW type \in OneTypes, NEW be \in BOOLEAN, ~(type \in {"i16", "i32"} /\ be),
           f.value \in Seq(OneValues(type)), Len(f.value) <= MaxArrayLength,
           NEW size \in Nat, \A x \in OneValues(type) : OneSize(x, type) = size,
           IsListField(f, type, be, Width.u16 + Len(f.value) * size),
           OneReads(type) \in {Buffer, ReadExtended}
    PROVE  IsField(f)
  <1> DEFINE v == f.value
             n == Width.u16 + Len(v) * size
             a == EncodeArray(v, type, be)
  <1>1. /\ a \in Buffer /\ v \in Seq(OneReads(type)) /\ Len(a) = n /\ n \in Nat
        /\ \A r \in Reader : Holds(r, a) => ReadArray(r, be, type, be) = Is(v, Moved(r, n))
    BY ListIs
  <1>2. v \in ReadValue
    BY <1>1 DEF ReadValue
  <1>3. /\ EncodeField(f) = a /\ Size(f) = n /\ f.type \notin Maps
        /\ \A r : ReadField(r, f) = ReadArray(r, be, type, be)
    BY DEF IsListField
  <1> HIDE DEF a, n
  <1> QED
    BY <1>1, <1>2, <1>3 DEF IsField

\* An array of integers as a field.
LEMMA IntegersField ==
    ASSUME NEW f, f.type = "integers", f.element \in Unsigned, f.be \in BOOLEAN,
           f.value \in Seq(ByteString(Width[f.element])), Len(f.value) <= MaxArrayLength
    PROVE  IsField(f)
  <1> DEFINE type == f.element
             be == f.be
             size == Width[type]
  <1>1. /\ type \in OneTypes /\ ~(type \in {"i16", "i32"} /\ be) /\ type \in Integer
        /\ OneValues(type) = ByteString(Width[type]) /\ OneReads(type) = Buffer
    BY ElementTypes
  <1>2. size \in Nat /\ \A x \in OneValues(type) : OneSize(x, type) = size
    BY <1>1, OneSizes, Sizes
  <1>3. IsListField(f, type, be, Width.u16 + Len(f.value) * size)
    BY FieldTypes DEF IsListField, EncodeField, EncodeIntegers, Size, ReadField, ReadIntegers, Maps
  <1>4. f.value \in Seq(OneValues(type))
    BY <1>1
  <1> HIDE DEF type, be, size
  <1> QED
    BY <1>1, <1>2, <1>3, <1>4, ListField DEF be

\* An array of addresses as a field.
LEMMA AddressesField ==
    ASSUME NEW f, f.type = "addresses", f.value \in Seq(ByteString(AddressLength)),
           Len(f.value) <= MaxArrayLength
    PROVE  IsField(f)
  <1> DEFINE type == "address"
             size == AddressLength
  <1>1. /\ type \in OneTypes /\ ~(type \in {"i16", "i32"} /\ TRUE)
        /\ OneValues(type) = ByteString(AddressLength) /\ OneReads(type) = Buffer
    BY ElementTypes
  <1>2. size \in Nat /\ \A x \in OneValues(type) : OneSize(x, type) = size
    BY OneSizes, Sizes
  <1>3. IsListField(f, type, TRUE, Width.u16 + Len(f.value) * size)
    BY FieldTypes DEF IsListField, EncodeField, EncodeAddresses, Size, ReadField,
       ReadAddresses, Maps
  <1>4. f.value \in Seq(OneValues(type))
    BY <1>1
  <1> HIDE DEF type, size
  <1> QED
    BY <1>1, <1>2, <1>3, <1>4, ListField

\* An array of extended addresses as a field.
LEMMA ExtendedAddressesField ==
    ASSUME NEW f, f.type = "extendedAddresses", f.value \in Seq(Extended),
           Len(f.value) <= MaxArrayLength
    PROVE  IsField(f)
  <1> DEFINE type == "extendedAddress"
             size == 2 * AddressLength
  <1>1. /\ type \in OneTypes /\ ~(type \in {"i16", "i32"} /\ TRUE)
        /\ OneValues(type) = Extended /\ OneReads(type) = ReadExtended
    BY ElementTypes
  <1>2. size \in Nat /\ \A x \in OneValues(type) : OneSize(x, type) = size
    BY OneSizes, Sizes
  <1>3. IsListField(f, type, TRUE, Width.u16 + Len(f.value) * size)
    BY FieldTypes DEF IsListField, EncodeField, EncodeExtendedAddresses, Size, ReadField,
       ReadExtendedAddresses, Maps
  <1>4. f.value \in Seq(OneValues(type))
    BY <1>1
  <1> HIDE DEF type, size
  <1> QED
    BY <1>1, <1>2, <1>3, <1>4, ListField

\* An array of byte strings as a field, in the size that is estimated for it.
LEMMA BuffersEncoded ==
    ASSUME NEW f, f.type = "buffers", f.be \in BOOLEAN, f.value \in Seq(Counted(Byte)),
           Len(f.value) <= MaxArrayLength
    PROVE  /\ IsEncoded(f) /\ EncodeField(f) = EncodeArray(f.value, "bytesWithLength", f.be)
           /\ \A r : ReadField(r, f) = ReadArray(r, f.be, "bytesWithLength", TRUE)
           /\ f.type \notin Maps
  <1> DEFINE type == "bytesWithLength"
             v == f.value
             be == f.be
             e == Encodings(v, type, be)
             a == EncodeArray(v, type, be)
             n == EstimateArrayOfBufferLength(v)
  <1>1. /\ type \in OneTypes /\ type \notin {"i16", "i32"}
        /\ OneValues(type) = Counted(Byte) /\ OneReads(type) = Buffer /\ v \in Seq(OneValues(type))
    BY ElementTypes
  <1>2. a \in Buffer /\ v \in Seq(Buffer) /\ Len(a) = Width.u16 + Len(FlattenSeq(e))
    BY <1>1, ArrayIs
  <1>3. /\ e \in Seq(Buffer) /\ Len(e) = Len(v)
        /\ \A i \in 1 .. Len(v) : Len(e[i]) = OneSize(v[i], type)
    BY <1>1, EncodingsAre
  <1>4. \A i \in 1 .. Len(v) : Len(e[i]) = Width.u32 + Len(v[i])
    BY <1>3, OneSizes
  <1> HIDE DEF e, a
  <1>5. n = Len(a)
    BY <1>2, <1>3, <1>4, FlatEstimate
  <1>6. /\ EncodeField(f) = a /\ Size(f) = n /\ f.type \notin Maps
        /\ \A r : ReadField(r, f) = ReadArray(r, be, type, TRUE)
    BY FieldTypes DEF EncodeField, EncodeBuffers, Size, ReadField, ReadBuffers, Maps, a
  <1>7. v \in ReadValue /\ Len(a) \in Nat
    BY <1>2 DEF ReadValue, Buffer
  <1> HIDE DEF n
  <1> QED
    BY <1>2, <1>5, <1>6, <1>7 DEF IsEncoded, a

\* It is read back if the lengths in it are written as they are read.
LEMMA BuffersField ==
    ASSUME NEW f, f.type = "buffers", f.be \in BOOLEAN, f.value \in Seq(Counted(Byte)),
           Len(f.value) <= MaxArrayLength,
           ~f.be => \A i \in 1 .. Len(f.value) : SameBothWays(f.value[i])
    PROVE  IsField(f)
  <1> DEFINE type == "bytesWithLength"
             v == f.value
             be == f.be
             a == EncodeArray(v, type, be)
  <1>1. /\ type \in OneTypes /\ type \notin {"i16", "i32"} /\ v \in Seq(OneValues(type))
        /\ be \in BOOLEAN /\ TRUE \in BOOLEAN
    BY ElementTypes
  <1>2. Encodings(v, type, be) = Encodings(v, type, TRUE)
    BY SameEncodings
  <1>3. \A r \in Reader : Holds(r, a) => ReadArray(r, be, type, TRUE) = Is(v, Moved(r, Len(a)))
    <2> HIDE DEF type, be
    <2> QED
      BY <1>1, <1>2, ArrayIs
  <1>4. /\ IsEncoded(f) /\ EncodeField(f) = a /\ f.type \notin Maps
        /\ \A r : ReadField(r, f) = ReadArray(r, be, type, TRUE)
    BY BuffersEncoded
  <1> HIDE DEF a
  <1> QED
    BY <1>3, <1>4 DEF IsEncoded, IsField

\* And only then.
LEMMA BuffersMisread ==
    ASSUME NEW f, f.type = "buffers", f.be = FALSE, f.value \in Seq(Counted(Byte)),
           Len(f.value) <= MaxArrayLength,
           NEW k \in 1 .. Len(f.value), ~SameBothWays(f.value[k])
    PROVE  IsMisread(f)
  <1> DEFINE type == "bytesWithLength"
             v == f.value
             n == Len(v)
             w == Width["u16"]
             d == Ordered(Digits(n, w), FALSE)
             b == FlattenSeq(Encodings(v, type, FALSE))
             a == EncodeArray(v, type, FALSE)
  <1>1. n \in Nat /\ w \in Nat /\ w = 2 /\ w = Width.u16 /\ PlaceValue[2] \in Nat
    <2>1. PlaceValue[2] \in Nat
      BY PlaceValues
    <2>2. n \in Nat
      OBVIOUS
    <2> QED
      BY <2>1, <2>2, Widths
  <1>2. d \in Buffer /\ Len(d) = w
    <2> HIDE DEF w
    <2> QED
      BY <1>1, DigitsAreBytes, OrderedTwice
  <1>3. n < PlaceValue[Width["u16"]] /\ ((n > MaxArrayLength) <=> FALSE)
    BY <1>1 DEF MaxArrayLength
  <1>4. a = d \o b
    BY <1>1, <1>3 DEF EncodeArray, Encodings
  <1>5. b \in Buffer
    <2>1. type \in OneTypes /\ type \notin {"i16", "i32"} /\ v \in Seq(OneValues(type))
      BY ElementTypes
    <2> QED
      BY <2>1, ManyIs
  <1>6. /\ IsEncoded(f) /\ EncodeField(f) = a /\ f.type \notin Maps
        /\ \A r : ReadField(r, f) = ReadArray(r, FALSE, type, TRUE)
    BY BuffersEncoded
  <1> HIDE DEF a, b
  <1>7. ASSUME NEW r \in Reader, Holds(r, a), ReadArray(r, FALSE, type, TRUE) # Throw,
               ReadArray(r, FALSE, type, TRUE).value = v
        PROVE  FALSE
    <2> DEFINE s == Moved(r, w)
    <2>1. Holds(r, d) /\ Holds(s, b)
      <3> HIDE DEF d, w
      <3>1. Holds(r, d) /\ Holds(Moved(r, Len(d)), b)
        BY <1>2, <1>4, <1>5, <1>7, HoldsParts
      <3> QED
        BY <1>2, <3>1
    <2>2. ReadCount(r, "u16", FALSE) = Is(n, s)
      BY <1>1, <1>3, <2>1, CountIs
    <2>3. s \in Reader
      BY <1>1, Readers
    <2>4. Is(n, s) # Throw /\ Is(n, s).value = n /\ Is(n, s).reader = s
      BY <1>1, <2>3, ReadIsNotThrow DEF ReadValue, Is
    <2> HIDE DEF s
    <2>5. ReadArray(r, FALSE, type, TRUE) = ReadMany(s, n, type, TRUE)
      <3> HIDE DEF n
      <3> QED
        BY <2>2, <2>4 DEF ReadArray, Then
    <2>6. SameBothWays(v[k])
      BY <1>7, <2>1, <2>3, <2>5, ReadBackTellsLengths DEF b
    <2> QED
      BY <2>6
  <1>8. ASSUME NEW r \in Reader, Holds(r, EncodeField(f)), ReadField(r, f) # Throw
        PROVE  ReadField(r, f).value # v
    BY <1>6, <1>7, <1>8
  <1> QED
    BY <1>6, <1>8 DEF IsMisread

\* A map as a field: a key that comes twice is refused when it is read.
LEMMA MapField ==
    ASSUME NEW f, f.type \in Maps, f.be \in BOOLEAN,
           NEW type \in {"addressEntry", "extendedAddressEntry"},
           type = IF f.type = "addressMap" THEN "addressEntry" ELSE "extendedAddressEntry",
           f.value \in Seq(OneValues(type)), Len(f.value) <= MaxArrayLength
    PROVE  IsField(f)
  <1> DEFINE v == f.value
             be == f.be
             size == IF f.type = "addressMap" THEN AddressLength + Width.u256
                     ELSE 2 * AddressLength + Width.u256
             n == Width.u16 + Len(v) * size
             a == EncodeArray(v, type, be)
  <1>1. type \in OneTypes /\ ~(type \in {"i16", "i32"} /\ be) /\ OneReads(type) = ReadEntries
    BY ElementTypes
  <1>2. size \in Nat /\ \A x \in OneValues(type) : OneSize(x, type) = size
    BY OneSizes, Sizes
  <1>3. EncodeField(f) = a /\ Size(f) = n
    BY FieldTypes DEF EncodeField, EncodeAddressMap, EncodeExtendedAddressMap, Size, Maps
  <1>4. \A r : ReadField(r, f) = ReadMap(r, be, type)
    BY FieldTypes DEF ReadField, ReadAddressMap, ReadExtendedAddressMap, Maps
  <1> HIDE DEF size
  <1>5. /\ a \in Buffer /\ v \in Seq(ReadEntries) /\ Len(a) = n /\ n \in Nat
        /\ \A r \in Reader : Holds(r, a) => /\ ReadArray(r, be, type, be) = Is(v, Moved(r, n))
                                           /\ ReadArray(r, be, type, be) # Throw
    BY <1>1, <1>2, ListIs
  <1>6. v \in ReadValue
    BY <1>5 DEF ReadValue, ReadEntries
  <1> HIDE DEF a, n
  <1>7. ASSUME NEW r \in Reader, Holds(r, a)
        PROVE  ReadField(r, f) = IF HasTwoOfAKey(v) THEN Throw ELSE Is(v, Moved(r, n))
    <2> DEFINE q == Moved(r, n)
    <2>1. ReadArray(r, be, type, be) = Is(v, q) /\ Is(v, q) # Throw
      BY <1>5, <1>7
    <2>2. Is(v, q).value = v /\ Is(v, q).reader = q /\ Is(v, q) = [value |-> v, reader |-> q]
      BY DEF Is
    <2> HIDE DEF q
    <2>3. ReadMap(r, be, type) = IF HasTwoOfAKey(v) THEN Throw ELSE [value |-> v, reader |-> q]
      BY <2>1, <2>2 DEF ReadMap, Then
    <2> QED
      BY <1>4, <2>2, <2>3 DEF q
  <1> QED
    BY <1>3, <1>5, <1>6, <1>7 DEF IsField

\* A refused field is not encoded.
LEMMA RefusedIs ==
    ASSUME NEW f \in AnyField, Refused(f)
    PROVE  EncodeField(f) = Throw
  <1>1. CASE f.type = "address" /\ Len(f.value) > AddressLength
    <2>1. EncodeField(f) = EncodeOne(f.value, "address", f.be)
      BY <1>1, FieldTypes DEF EncodeField
    <2>2. EncodeOne(f.value, "address", f.be) = EncodeAddress(f.value)
      BY FieldTypes DEF EncodeOne
    <2> QED
      BY <1>1, <2>1, <2>2 DEF EncodeAddress
  <1>2. CASE f.type = "schnorr" /\ Len(f.value.signature) # SignatureLength
    <2>1. EncodeField(f) = EncodeSchnorr(f.value)
      BY <1>2, FieldTypes DEF EncodeField
    <2> QED
      BY <1>2, <2>1 DEF EncodeSchnorr
  <1>3. CASE f.type \in Lists \cup Maps /\ Len(f.value) > MaxArrayLength
    <2>1. \A type, be : EncodeArray(f.value, type, be) = Throw
      BY <1>3 DEF EncodeArray
    <2> QED
      BY <1>3, <2>1, FieldTypes
         DEF Lists, Maps, EncodeField, EncodeIntegers, EncodeBuffers, EncodeAddresses,
             EncodeExtendedAddresses, EncodeAddressMap, EncodeExtendedAddressMap
  <1> QED
    BY <1>1, <1>2, <1>3 DEF Refused

\* Every other field is, and read back.
LEMMA FieldIs ==
    ASSUME NEW f \in AnyField, ~Refused(f), ~Misread(f)
    PROVE  IsField(f)
  <1>2. MaxArrayLength \in Nat
    <2>1. PlaceValue[2] \in Nat /\ PlaceValue[2] >= 1
      BY PlaceValues
    <2> QED
      BY <2>1 DEF MaxArrayLength
  <1>3. ASSUME f.type \in Lists \cup Maps, NEW S, f.value \in Seq(S)
        PROVE  Len(f.value) <= MaxArrayLength
    <2>1. Len(f.value) \in Nat
      BY <1>3
    <2>2. ~(Len(f.value) > MaxArrayLength)
      BY <1>3 DEF Refused
    <2> QED
      BY <1>2, <2>1, <2>2
  <1>4. CASE \E type \in Integer : f \in Method({type}, BOOLEAN, ByteString(Width[type]))
    <2>1. PICK type \in Integer : f \in Method({type}, BOOLEAN, ByteString(Width[type]))
      BY <1>4
    <2>2. f.type = type /\ f.be \in BOOLEAN /\ f.value \in ByteString(Width[type])
      BY <2>1 DEF Method
    <2>3. f.type \in {"i16", "i32"} /\ f.be => Reverse(f.value) = f.value
      BY DEF Misread
    <2> QED
      BY <2>1, <2>2, <2>3, IntegerField
  <1>5. CASE f \in Method({"boolean"}, BOOLEAN, BOOLEAN)
    BY <1>5, BooleanField DEF Method
  <1>6. CASE f \in Method({"bytesWithLength"}, BOOLEAN, Counted(Byte))
    BY <1>6, BytesField DEF Method
  <1>7. CASE f \in Method({"stringWithLength"}, BOOLEAN, Counted(Byte \ {0}))
    BY <1>7, BytesField DEF Method
  <1>8. CASE f \in Method({"address"}, BOOLEAN, {s \in Seq(Byte) : Len(s) >= AddressLength})
    <2>1. f.type = "address" /\ f.be \in BOOLEAN /\ f.value \in Seq(Byte)
          /\ Len(f.value) >= AddressLength
      BY <1>8 DEF Method
    <2>2. Len(f.value) = AddressLength
      <3>1. Len(f.value) \in Nat /\ ~(Len(f.value) > AddressLength)
        BY <2>1 DEF Refused
      <3> QED
        BY <2>1, <3>1, Sizes
    <2>3. f.value \in ByteString(AddressLength)
      BY <2>1, <2>2 DEF ByteString
    <2> QED
      BY <2>1, <2>3, ElementTypes, OneField
  <1>9. CASE f \in Method({"extendedAddress"}, BOOLEAN, Extended)
    <2>1. f.type = "extendedAddress" /\ f.be \in BOOLEAN /\ f.value \in Extended
      BY <1>9 DEF Method
    <2> QED
      BY <2>1, ElementTypes, OneField
  <1>10. CASE f \in Method({"schnorr"}, BOOLEAN, [address : Extended, signature : Seq(Byte)])
    <2>1. f.type = "schnorr" /\ f.value \in [address : Extended, signature : Seq(Byte)]
      BY <1>10 DEF Method
    <2>2. Len(f.value.signature) = SignatureLength
      BY <2>1 DEF Refused
    <2> QED
      BY <2>1, <2>2, SchnorrField
  <1>11. CASE \E type \in Unsigned :
                 f \in [kind : {"field"}, type : {"integers"}, element : {type}, be : BOOLEAN,
                        value : Seq(ByteString(Width[type]))]
    <2>1. PICK type \in Unsigned :
                 f \in [kind : {"field"}, type : {"integers"}, element : {type}, be : BOOLEAN,
                        value : Seq(ByteString(Width[type]))]
      BY <1>11
    <2>2. /\ f.type = "integers" /\ f.element \in Unsigned /\ f.be \in BOOLEAN
          /\ f.value \in Seq(ByteString(Width[f.element]))
      BY <2>1
    <2>3. Len(f.value) <= MaxArrayLength
      BY <1>3, <2>2 DEF Lists
    <2> QED
      BY <2>2, <2>3, IntegersField
  <1>12. CASE f \in Method({"buffers"}, BOOLEAN, Seq(Counted(Byte)))
    <2>1. f.type = "buffers" /\ f.be \in BOOLEAN /\ f.value \in Seq(Counted(Byte))
      BY <1>12 DEF Method
    <2>2. Len(f.value) <= MaxArrayLength
      BY <1>3, <2>1 DEF Lists
    <2>3. ~f.be => \A i \in 1 .. Len(f.value) : SameBothWays(f.value[i])
      <3>1. DOMAIN f.value = 1 .. Len(f.value)
        BY <2>1
      <3> QED
        BY <2>1, <3>1 DEF Misread, SameBothWays
    <2> QED
      BY <2>1, <2>2, <2>3, BuffersField
  <1>13. CASE f \in Method({"addresses"}, BOOLEAN, Seq(ByteString(AddressLength)))
    <2>1. f.type = "addresses" /\ f.value \in Seq(ByteString(AddressLength))
      BY <1>13 DEF Method
    <2>2. Len(f.value) <= MaxArrayLength
      BY <1>3, <2>1 DEF Lists
    <2> QED
      BY <2>1, <2>2, AddressesField
  <1>14. CASE f \in Method({"extendedAddresses"}, BOOLEAN, Seq(Extended))
    <2>1. f.type = "extendedAddresses" /\ f.value \in Seq(Extended)
      BY <1>14 DEF Method
    <2>2. Len(f.value) <= MaxArrayLength
      BY <1>3, <2>1 DEF Lists
    <2> QED
      BY <2>1, <2>2, ExtendedAddressesField
  <1>15. CASE f \in Method({"addressMap"}, BOOLEAN, Seq(Entry(ByteString(AddressLength))))
    <2>1. f.type = "addressMap" /\ f.be \in BOOLEAN
          /\ f.value \in Seq(Entry(ByteString(AddressLength)))
      BY <1>15 DEF Method
    <2>2. Len(f.value) <= MaxArrayLength /\ f.type \in Maps
      BY <1>3, <2>1 DEF Maps
    <2>3. f.value \in Seq(OneValues("addressEntry"))
      BY <2>1, ElementTypes
    <2> QED
      BY <2>1, <2>2, <2>3, MapField
  <1>16. CASE f \in Method({"extendedAddressMap"}, BOOLEAN, Seq(Entry(Extended)))
    <2>1. f.type = "extendedAddressMap" /\ f.be \in BOOLEAN /\ f.value \in Seq(Entry(Extended))
      BY <1>16 DEF Method
    <2>2. Len(f.value) <= MaxArrayLength /\ f.type \in Maps
      BY <1>3, <2>1 DEF Maps
    <2>3. f.value \in Seq(OneValues("extendedAddressEntry"))
      BY <2>1, ElementTypes
    <2> QED
      BY <2>1, <2>2, <2>3, MapField
  <1> QED
    BY <1>4, <1>5, <1>6, <1>7, <1>8, <1>9, <1>10, <1>11, <1>12, <1>13, <1>14, <1>15, <1>16
       DEF AnyField

\* A field is misread if some of its bytes tell the orders apart that it is written and
\* read in.
LEMMA MisreadIs ==
    ASSUME NEW f \in AnyField, ~Refused(f), Misread(f)
    PROVE  IsMisread(f)
  <1>1. CASE f.type \in {"i16", "i32"} /\ f.be /\ Reverse(f.value) # f.value
    <2>1. f.type \in Integer /\ f.type \notin {"boolean", "bytesWithLength", "stringWithLength",
             "address", "extendedAddress", "schnorr", "integers", "buffers", "addresses",
             "extendedAddresses", "addressMap", "extendedAddressMap"}
      BY <1>1 DEF Integer, Width
    <2>2. PICK type \in Integer : f \in Method({type}, BOOLEAN, ByteString(Width[type]))
      BY <2>1 DEF AnyField, Method
    <2>3. f.value \in ByteString(Width[f.type]) /\ f.be \in BOOLEAN
      BY <1>1, <2>2 DEF Method
    <2>4. f.type \in {"i16", "i32"} /\ Reverse(f.value) # f.value
      BY <1>1
    <2>5. f.be
      BY <1>1
    <2>6. IsSignedWord(f)
      BY <2>3, <2>4, <2>5 DEF IsSignedWord
    <2> QED
      BY <2>6, SignedMisread
  <1>2. CASE /\ f.type = "buffers" /\ ~f.be
             /\ \E i \in DOMAIN f.value :
                   LET length == Digits(Len(f.value[i]), Width.u32) IN Reverse(length) # length
    <2>1. f \in Method({"buffers"}, BOOLEAN, Seq(Counted(Byte)))
      BY <1>2, FieldTypes DEF AnyField, Method
    <2>2. f.be = FALSE /\ f.value \in Seq(Counted(Byte))
      BY <1>2, <2>1 DEF Method
    <2>3. DOMAIN f.value = 1 .. Len(f.value) /\ Len(f.value) \in Nat
      BY <2>2
    <2>4. PICK k \in 1 .. Len(f.value) : ~SameBothWays(f.value[k])
      BY <1>2, <2>3 DEF SameBothWays
    <2>5. Len(f.value) <= MaxArrayLength
      <3>1. PlaceValue[2] \in Nat
        BY PlaceValues
      <3>2. ~(Len(f.value) > MaxArrayLength)
        BY <1>2 DEF Refused, Lists
      <3> QED
        BY <2>3, <3>1, <3>2 DEF MaxArrayLength
    <2> QED
      BY <1>2, <2>2, <2>4, <2>5, BuffersMisread
  <1> QED
    BY <1>1, <1>2 DEF Misread

-----------------------------------------------------------------------------
(* A field, and the mark behind it *)

\* What is written is what was written and the bytes behind it, if they fit.
LEMMA Writes ==
    ASSUME NEW a \in Buffer, NEW c \in Nat, NEW b \in Buffer
    PROVE  /\ [written |-> a, capacity |-> c] # Throw /\ b # Throw
           /\ WriteBytes([written |-> a, capacity |-> c], b) =
                 IF Len(a) + Len(b) > c THEN Throw ELSE [written |-> a \o b, capacity |-> c]
  <1> DEFINE w == [written |-> a, capacity |-> c]
             x == a \o b
  <1>1. w # Throw /\ b # Throw
    BY CodecAssumption DEF CodecAssumption
  <1>2. w.written = a /\ w.capacity = c
    OBVIOUS
  <1>3. WriteBytes(w, b) = IF Len(a) + Len(b) > c THEN Throw ELSE [w EXCEPT !.written = x]
    <2> HIDE DEF w
    <2> QED
      BY <1>1, <1>2 DEF WriteBytes
  <1>4. [w EXCEPT !.written = x] = [written |-> x, capacity |-> c]
    <2> HIDE DEF x
    <2> QED
      OBVIOUS
  <1> HIDE DEF w, x
  <1> QED
    BY <1>1, <1>3, <1>4 DEF w, x

\* The mark is a field of one byte.
LEMMA MarkIs ==
    /\ IsField(Mark) /\ Mark.value = <<1>> /\ EncodeField(Mark) = <<1>> /\ Size(Mark) = 1
    /\ Mark.type = "u8" /\ Mark.be = TRUE /\ Mark.type \notin Maps /\ <<1>> \in Buffer
    /\ \A r : ReadField(r, Mark) = ReadInteger(r, "u8", TRUE)
  <1>1. Mark.value = <<1>> /\ Mark.type = "u8" /\ Mark.be = TRUE /\ "u8" \in Integer
    BY Widths DEF Mark, Field
  <1>2. <<1>> \in ByteString(Width["u8"]) /\ <<1>> \in Buffer
    <2>1. 1 \in Byte
      BY CodecAssumption DEF CodecAssumption, Byte
    <2>2. Width["u8"] = 1
      BY Widths
    <2>3. <<1>> \in [1 .. 1 -> Byte]
      BY <2>1
    <2> QED
      BY <2>2, <2>3 DEF ByteString, Buffer
  <1>3. IsField(Mark)
    BY <1>1, <1>2, IntegerField
  <1>4. EncodeField(Mark) = <<1>>
    BY <1>1, FieldTypes DEF EncodeField, EncodeOne, EncodeInteger, Ordered
  <1>5. Size(Mark) = 1
    BY <1>1, FieldTypes, Widths DEF Size
  <1>6. \A r : ReadField(r, Mark) = ReadInteger(r, "u8", TRUE)
    BY <1>1, FieldTypes DEF ReadField, ReadOne
  <1> QED
    BY <1>1, <1>2, <1>3, <1>4, <1>5, <1>6 DEF Maps

\* Both are written where there is room for both.
LEMMA MarkedIs ==
    ASSUME NEW f, EncodeField(f) \in Buffer, NEW c \in Nat
    PROVE  Marked(f, c) = IF Len(EncodeField(f)) + 1 > c THEN Throw
                          ELSE [written |-> EncodeField(f) \o <<1>>, capacity |-> c]
  <1> DEFINE b == EncodeField(f)
             w == [written |-> b, capacity |-> c]
  <1>1. Len(b) \in Nat /\ <<>> \in Buffer /\ <<>> \o b = b /\ Len(<<>>) = 0
    BY DEF Buffer
  <1>2. /\ EncodeField(Mark) = <<1>> /\ <<1>> \in Buffer /\ Len(<<1>>) = 1
    BY MarkIs
  <1> HIDE DEF b
  <1>3. WriteField(NewWriter(c), f) = IF Len(b) > c THEN Throw ELSE w
    <2>1. WriteBytes([written |-> <<>>, capacity |-> c], b) =
             IF Len(<<>>) + Len(b) > c THEN Throw ELSE [written |-> <<>> \o b, capacity |-> c]
      BY <1>1, Writes, Zenon DEF b
    <2> QED
      BY <1>1, <2>1 DEF WriteField, NewWriter, b
  <1>4. WriteBytes(w, <<1>>) =
           IF Len(b) + Len(<<1>>) > c THEN Throw ELSE [written |-> b \o <<1>>, capacity |-> c]
    BY <1>2, Writes, Zenon DEF b
  <1> DEFINE x == <<1>>
             y == [written |-> b \o <<1>>, capacity |-> c]
  <1>5. WriteField(w, Mark) = IF Len(b) + 1 > c THEN Throw ELSE y
    BY <1>2, <1>4 DEF WriteField
  <1>6. WriteField(Throw, Mark) = Throw
    BY DEF WriteField, WriteBytes
  <1> HIDE DEF w, x, y
  <1>7. Marked(f, c) = IF Len(b) + 1 > c THEN Throw ELSE y
    <2>1. CASE Len(b) > c
      <3>1. Len(b) + 1 > c
        BY <1>1, <2>1
      <3> QED
        BY <1>3, <1>6, <2>1, <3>1 DEF Marked
    <2>2. CASE ~(Len(b) > c)
      BY <1>3, <1>5, <2>2 DEF Marked
    <2> QED
      BY <2>1, <2>2
  <1> QED
    BY <1>7 DEF b, y

\* A refused field is not written.
LEMMA RefusedIsNotWritten ==
    ASSUME NEW f \in AnyField, Refused(f), NEW c
    PROVE  Marked(f, c) = Throw
  BY RefusedIs DEF Marked, WriteField, WriteBytes

\* Reading both back, in one expression.
LEMMA ReadBackIs ==
    ASSUME NEW f, NEW bytes
    PROVE  ReadBack(f, bytes) =
              LET first == ReadField(NewReader(bytes), f)
                  second == ReadInteger(first.reader, "u8", TRUE)
              IN  IF first = Throw \/ second = Throw THEN Throw
                  ELSE [second EXCEPT !.value = <<first.value, @>>]
  BY MarkIs DEF ReadBack, Then, Converted

\* A reader at the beginning of its buffer.
LEMMA StartIs ==
    ASSUME NEW s \in Buffer
    PROVE  /\ NewReader(s) \in Reader /\ NewReader(s).buffer = s /\ NewReader(s).offset = 0
           /\ Holds(NewReader(s), s)
  <1>1. NewReader(s) = [buffer |-> s, offset |-> 0]
    BY DEF NewReader
  <1>2. Len(s) \in Nat
    BY DEF Buffer
  <1> QED
    BY <1>1, <1>2 DEF Reader, Holds

\* A field that is encoded is written, in just its size.
LEMMA FieldIsWritten ==
    ASSUME NEW f, IsEncoded(f)
    PROVE  /\ TakesItsSize(f)
           /\ GetBuffer(Marked(f, Size(f) + 1)) = EncodeField(f) \o <<1>>
           /\ EncodeField(f) \o <<1>> \in Buffer
           /\ Len(EncodeField(f) \o <<1>>) = Size(f) + 1
           /\ SubSeq(EncodeField(f) \o <<1>>, 1, Size(f)) = EncodeField(f)
  <1> DEFINE b == EncodeField(f)
             n == Size(f)
             size == n + 1
             bytes == b \o <<1>>
  <1>1. b \in Buffer /\ Len(b) = n /\ n \in Nat
    BY DEF IsEncoded
  <1>3. <<1>> \in Buffer /\ Len(<<1>>) = 1
    BY MarkIs
  <1>4. \A c \in Nat : Marked(f, c) = IF n + 1 > c THEN Throw
                                      ELSE [written |-> bytes, capacity |-> c]
    BY <1>1, MarkedIs
  <1> HIDE DEF b, n
  <1>5. bytes \in Buffer /\ Len(bytes) = size
    <2>1. bytes \in Buffer /\ Len(bytes) = Len(b) + Len(<<1>>)
      BY <1>1, <1>3, Joined, Zenon
    <2> QED
      BY <1>1, <1>3, <2>1
  <1>6. /\ Marked(f, size - 1) = Throw
        /\ Marked(f, size) = [written |-> bytes, capacity |-> size]
        /\ Marked(f, size) # Throw
    <2>1. size - 1 = n /\ size \in Nat /\ n + 1 > n /\ ~(n + 1 > size)
      BY <1>1
    <2> HIDE DEF bytes, size
    <2>2. [written |-> bytes, capacity |-> size] # Throw
      BY <1>5, <2>1, CodecAssumption DEF CodecAssumption
    <2> QED
      BY <1>1, <1>4, <2>1, <2>2
  <1>7. GetBuffer(Marked(f, size)) = bytes
    <2> DEFINE w == [written |-> bytes, capacity |-> size]
    <2>1. GetBuffer(w) = bytes \o [i \in 1 .. size - Len(bytes) |-> 0]
      BY DEF GetBuffer
    <2>2. [i \in 1 .. size - Len(bytes) |-> 0] = <<>>
      <3>1. size - Len(bytes) = 0
        BY <1>1, <1>5
      <3> HIDE DEF size, bytes
      <3> QED
        BY <3>1
    <2>3. bytes \o <<>> = bytes
      <3> HIDE DEF bytes
      <3> QED
        BY <1>5 DEF Buffer
    <2> QED
      BY <1>6, <2>1, <2>2, <2>3
  <1>8. SubSeq(bytes, 1, n) = b
    <2> DEFINE t == SubSeq(bytes, 1, n)
    <2>1. \A i \in 1 .. n : bytes[i] = b[i]
      <3>1. \A i \in 1 .. Len(b) : bytes[i] = b[i]
        BY <1>1, <1>3, Joined, Zenon
      <3> QED
        BY <1>1, <3>1
    <2> HIDE DEF bytes
    <2>2. /\ SubSeq(bytes, 0 + 1, 0 + n) \in Buffer /\ Len(SubSeq(bytes, 0 + 1, 0 + n)) = n
          /\ \A i \in 1 .. n : SubSeq(bytes, 0 + 1, 0 + n)[i] = bytes[0 + i]
      <3>1. 0 \in Nat /\ 0 + n <= Len(bytes)
        BY <1>1, <1>5
      <3> QED
        BY <1>1, <1>5, <3>1, Slice, Zenon
    <2>3. t \in Buffer /\ Len(t) = n /\ \A i \in 1 .. n : t[i] = bytes[i]
      BY <1>1, <2>2
    <2> HIDE DEF t
    <2>4. t = b
      BY <1>1, <2>1, <2>3, SeqEqual DEF Buffer
    <2> QED
      BY <2>4 DEF t
  <1>9. size - 1 = n
    BY <1>1
  <1>10. TakesItsSize(f)
    <2> HIDE DEF bytes
    <2> QED
      BY <1>5, <1>6, <1>7 DEF TakesItsSize, n
  <1> QED
    BY <1>5, <1>7, <1>8, <1>10 DEF b, n

\* A field that is read as it was written comes back.
LEMMA FieldComesBack ==
    ASSUME NEW f, IsField(f)
    PROVE  ComesBack(f)
  <1> DEFINE b == EncodeField(f)
             v == f.value
             n == Size(f)
             size == n + 1
             bytes == b \o <<1>>
             twice == f.type \in Maps /\ HasTwoOfAKey(v)
  <1>1. b \in Buffer /\ v \in ReadValue /\ Len(b) = n /\ n \in Nat
    BY DEF IsField
  <1>2. ASSUME NEW r \in Reader, Holds(r, b)
        PROVE  ReadField(r, f) = IF twice THEN Throw ELSE Is(v, Moved(r, n))
    BY <1>2 DEF IsField
  <1>3. /\ <<1>> \in Buffer /\ Mark.value = <<1>> /\ Len(<<1>>) = 1
        /\ \A r \in Reader : Holds(r, <<1>>) =>
              ReadInteger(r, "u8", TRUE) = Is(<<1>>, Moved(r, 1))
    BY MarkIs DEF IsField
  <1>4. IsEncoded(f)
    BY <1>1 DEF IsEncoded
  <1>5. /\ GetBuffer(Marked(f, size)) = bytes /\ bytes \in Buffer /\ Len(bytes) = size
        /\ SubSeq(bytes, 1, n) = b
    BY <1>4, FieldIsWritten
  <1> HIDE DEF b, v, n
  <1> DEFINE one == <<1>>
             Start(s) == NewReader(s)
  <1>9. ASSUME NEW s \in Buffer
        PROVE  /\ Start(s) \in Reader /\ Start(s).buffer = s /\ Start(s).offset = 0
               /\ Holds(Start(s), s)
    BY StartIs
  <1> HIDE DEF Start, bytes
  <1>10. ReadBack(f, bytes) = IF twice THEN Throw
                              ELSE [value |-> <<v, Mark.value>>,
                                    reader |-> [buffer |-> bytes, offset |-> size]]
    <2> DEFINE r == Start(bytes)
               q == Moved(r, n)
               p == Moved(q, 1)
               x == <<v, one>>
    <2>1. r \in Reader /\ r.offset = 0 /\ r.buffer = bytes /\ Holds(r, b) /\ Holds(q, one)
      BY <1>1, <1>3, <1>5, <1>9, HoldsParts DEF bytes
    <2>2. CASE twice
      <3>1. ReadField(NewReader(bytes), f) = Throw
        BY <1>2, <2>1, <2>2 DEF Start
      <3> QED
        BY <2>2, <3>1, ReadBackIs
    <2>3. CASE ~twice
      <3>1. q \in Reader /\ p \in Reader /\ p = [buffer |-> bytes, offset |-> size]
        <4>1. q \in Reader /\ p \in Reader
          BY <1>1, <2>1, Readers
        <4>2. p = [buffer |-> r.buffer, offset |-> (r.offset + n) + 1]
          BY DEF Moved
        <4>3. (r.offset + n) + 1 = size
          BY <1>1, <2>1
        <4> HIDE DEF r, q, p, size
        <4> QED
          BY <2>1, <4>1, <4>2, <4>3
      <3>2. ReadField(r, f) = Is(v, q)
        BY <1>2, <2>1, <2>3
      <3>3. ReadInteger(q, "u8", TRUE) = Is(one, p)
        BY <1>3, <2>1, <3>1
      <3>4. /\ Is(v, q) # Throw /\ Is(v, q).value = v /\ Is(v, q).reader = q
            /\ Is(one, p) # Throw /\ Is(one, p).value = one
        <4>1. one \in ReadValue
          BY <1>3 DEF ReadValue
        <4> QED
          BY <1>1, <3>1, <4>1, ReadIsNotThrow DEF Is
      <3> HIDE DEF r, q, p, one
      <3>5. ReadBack(f, bytes) = [Is(one, p) EXCEPT !.value = x]
        <4>1. ReadBack(f, bytes) = [Is(one, p) EXCEPT !.value = <<v, @>>]
          BY <3>2, <3>3, <3>4, ReadBackIs DEF r, Start
        <4> QED
          BY <3>4, <4>1
      <3>6. [Is(one, p) EXCEPT !.value = x] = Is(x, p)
        <4> HIDE DEF x
        <4> QED
          BY DEF Is
      <3>7. x = <<v, Mark.value>>
        BY <1>3 DEF one
      <3> HIDE DEF x
      <3> QED
        BY <2>3, <3>1, <3>5, <3>6, <3>7 DEF Is
    <2> QED
      BY <2>2, <2>3
  <1>11. ReadBack(f, b) = Throw
    <2> DEFINE r == Start(b)
               q == Moved(r, n)
    <2>1. r \in Reader /\ r.offset = 0 /\ r.buffer = b /\ Holds(r, b)
      BY <1>1, <1>9
    <2>2. CASE twice
      <3>1. ReadField(NewReader(b), f) = Throw
        BY <1>2, <2>1, <2>2 DEF Start
      <3> QED
        BY <3>1, ReadBackIs
    <2>3. CASE ~twice
      <3>1. ReadField(r, f) = Is(v, q) /\ Is(v, q).reader = q
        BY <1>2, <2>1, <2>3 DEF Is
      <3>2. q.buffer = b /\ q.offset = n
        BY <1>1, <2>1 DEF Moved
      <3> HIDE DEF r, q
      <3>3. ReadInteger(q, "u8", TRUE) = Throw
        <4>1. ~(q.offset + 1 <= Len(q.buffer)) /\ Width["u8"] = 1
          BY <1>1, <3>2, Widths
        <4>2. ReadBytes(q, Width["u8"]) = Throw
          BY <4>1, ReadBytesBeyond
        <4> QED
          BY <4>2 DEF ReadInteger, Converted
      <3> QED
        BY <3>1, <3>3, ReadBackIs DEF r, Start
    <2> QED
      BY <2>2, <2>3
  <1>12. size - 1 = n
    BY <1>1
  <1> QED
    BY <1>5, <1>10, <1>11, <1>12 DEF ComesBack, n, v

\* A field that is misread does not.
LEMMA MisreadDoesNotComeBack ==
    ASSUME NEW f, IsMisread(f)
    PROVE  ~ComesBack(f)
  <1> DEFINE v == f.value
             one == <<1>>
             bytes == EncodeField(f) \o one
             size == Size(f) + 1
             r == NewReader(bytes)
             first == ReadField(r, f)
             second == ReadInteger(first.reader, "u8", TRUE)
             end == [buffer |-> bytes, offset |-> size]
             x == <<v, one>>
  <1>1. IsEncoded(f) /\ ((f.type \in Maps) <=> FALSE) /\ Mark.value = one /\ one \in Buffer
    BY MarkIs DEF IsMisread
  <1>2. /\ GetBuffer(Marked(f, size)) = bytes /\ bytes \in Buffer /\ Len(bytes) = size
        /\ size \in Nat /\ EncodeField(f) \in Buffer /\ v \in ReadValue
    BY <1>1, FieldIsWritten DEF IsEncoded
  <1>3. r \in Reader /\ Holds(r, EncodeField(f))
    <2>1. r \in Reader /\ Holds(r, bytes)
      <3> HIDE DEF bytes
      <3> QED
        BY <1>2, StartIs
    <2> QED
      BY <1>1, <1>2, <2>1, HoldsParts
  <1>4. first # Throw => first.value # v
    BY <1>3 DEF IsMisread
  <1>5. Is(x, end) # Throw
    <2>1. x \in ReadValue \X Buffer
      BY <1>1, <1>2
    <2>2. end \in Reader
      <3> HIDE DEF bytes, size
      <3> QED
        BY <1>2 DEF Reader
    <2> HIDE DEF x, end
    <2> QED
      BY <2>1, <2>2, ReadIsNotThrow
  <1>6. ReadBack(f, bytes) = IF first = Throw \/ second = Throw THEN Throw
                             ELSE [second EXCEPT !.value = <<first.value, @>>]
    <2> HIDE DEF bytes
    <2> QED
      BY ReadBackIs
  <1> HIDE DEF v, one, bytes, size, r, first
  <1>7. ASSUME ReadBack(f, bytes) = Is(x, end) PROVE FALSE
    <2>1. /\ first # Throw /\ second # Throw
          /\ Is(x, end) = [second EXCEPT !.value = <<first.value, second.value>>]
      BY <1>5, <1>6, <1>7
    <2>2. \E y : second = [y EXCEPT !.value = Ordered(y.value, ~ReadsLittleEndian("u8", TRUE))]
                  /\ \E u, p : y = Is(u, p)
      <3> DEFINE y == ReadBytes(first.reader, Width["u8"])
      <3>1. y # Throw
        BY <2>1 DEF ReadInteger, Converted
      <3>2. second = [y EXCEPT !.value = Ordered(y.value, ~ReadsLittleEndian("u8", TRUE))]
        BY <3>1 DEF ReadInteger, Converted
      <3>3. \E u, p : y = Is(u, p)
        BY <3>1 DEF ReadBytes, Is
      <3> HIDE DEF y
      <3> QED
        BY <3>2, <3>3
    <2>3. PICK y, u, p : /\ second = [y EXCEPT !.value = Ordered(y.value,
                                          ~ReadsLittleEndian("u8", TRUE))]
                         /\ y = Is(u, p)
      BY <2>2
    <2> DEFINE c == Ordered(y.value, ~ReadsLittleEndian("u8", TRUE))
    <2> HIDE DEF second, c
    <2>4. second = Is(c, p)
      <3>1. [Is(u, p) EXCEPT !.value = c] = Is(c, p)
        BY DEF Is
      <3> QED
        BY <2>3, <3>1 DEF c
    <2> DEFINE z == <<first.value, second.value>>
    <2> HIDE DEF z, x
    <2>5. [Is(c, p) EXCEPT !.value = z] = Is(z, p)
      BY DEF Is
    <2>6. Is(x, end).value = Is(z, p).value
      BY <2>1, <2>4, <2>5 DEF z
    <2>7. x = z
      BY <2>6 DEF Is
    <2>8. first.value = v
      BY <2>7 DEF x, z
    <2> QED
      BY <1>4, <2>1, <2>8
  <1>8. ComesBack(f) => ReadBack(f, bytes) = Is(x, end)
    <2>1. ComesBack(f) =>
             ReadBack(f, bytes) =
                IF f.type \in Maps /\ HasTwoOfAKey(f.value) THEN Throw
                ELSE [value |-> <<f.value, Mark.value>>, reader |-> end]
      BY <1>2 DEF ComesBack, size
    <2> QED
      BY <1>1, <2>1 DEF Is, v
  <1> QED
    BY <1>7, <1>8

\* A field is read back just when it is not misread.
LEMMA FieldRoundTrips ==
    ASSUME NEW f \in AnyField, ~Refused(f)
    PROVE  TakesItsSize(f) /\ (ComesBack(f) <=> ~Misread(f))
  <1>1. CASE ~Misread(f)
    <2>1. IsField(f)
      BY <1>1, FieldIs
    <2>2. IsEncoded(f)
      BY <2>1 DEF IsField, IsEncoded
    <2> QED
      BY <1>1, <2>1, <2>2, FieldIsWritten, FieldComesBack
  <1>2. CASE Misread(f)
    <2>1. IsMisread(f)
      BY <1>2, MisreadIs
    <2>2. IsEncoded(f)
      BY <2>1 DEF IsMisread
    <2> QED
      BY <1>2, <2>1, <2>2, FieldIsWritten, MisreadDoesNotComeBack
  <1> QED
    BY <1>1, <1>2

\* Every field is written in its size, whatever the base of the bytes, and comes back
\* from the codec as it went in, but for the signed words in the default order and the
\* arrays of buffers in the other one, whose bytes tell the two orders apart: these do not.
THEOREM FieldsRoundTrip == FieldsSpec => []CodecRoundTrips
  <1> DEFINE Inv == input = Nothing \/ input \in AnyField
  <1>1. Nothing.kind # "field"
    BY DEF Nothing
  <1>2. Init => Inv
    BY DEF Init
  <1>3. Inv /\ [FieldsNext]_input => Inv'
    BY DEF FieldsNext
  <1>4. Inv => CodecRoundTrips
    <2> SUFFICES ASSUME Inv, input.kind = "field"
                 PROVE  IF Refused(input)
                        THEN \A capacity \in 0 .. 2 * Size(input) :
                                Marked(input, capacity) = Throw
                        ELSE TakesItsSize(input) /\ (ComesBack(input) <=> ~Misread(input))
      BY DEF CodecRoundTrips
    <2>1. input \in AnyField
      BY <1>1
    <2> QED
      BY <2>1, RefusedIsNotWritten, FieldRoundTrips
  <1> QED
    BY <1>2, <1>3, <1>4, PTL DEF FieldsSpec

===============================================================================

------------------------------ MODULE BasicFacts ------------------------------
(***************************************************************************)
(* What several proofs use of sequences, of quotients and remainders by a  *)
(* number that is not known, and of recursion: induction with sets in the  *)
(* place of predicates, and functions that are defined by recursion.       *)
(***************************************************************************)
EXTENDS Powers, Integers, Sequences, SequenceTheorems, WellFoundedInduction, TLAPS

\* The first k entries of a list.
LEMMA PrefixOf ==
    ASSUME NEW S, NEW list \in Seq(S), NEW k \in Nat, k <= Len(list)
    PROVE  /\ SubSeq(list, 1, k) \in Seq(S) /\ Len(SubSeq(list, 1, k)) = k
           /\ \A i \in 1..k : SubSeq(list, 1, k)[i] = list[i]
  <1>1. 1 \in Int /\ k \in Int /\ \A i \in 1..k : list[i] \in S
    OBVIOUS
  <1>2. /\ SubSeq(list, 1, k) \in Seq(S)
        /\ Len(SubSeq(list, 1, k)) = IF 1 <= k THEN k - 1 + 1 ELSE 0
        /\ \A i \in 1..(k - 1 + 1) : SubSeq(list, 1, k)[i] = list[1 + i - 1]
    BY <1>1, SubSeqProperties
  <1>3. k - 1 + 1 = k /\ (~(1 <= k) => k = 0) /\ \A i \in 1..k : 1 + i - 1 = i
    OBVIOUS
  <1> QED
    BY <1>2, <1>3

\* A remainder is below the divisor, and a number is its quotient and its remainder.
LEMMA Division ==
    ASSUME NEW a \in Nat, NEW m \in Nat \ {0}
    PROVE  /\ a % m \in 0 .. m - 1 /\ a % m \in Nat /\ a \div m \in Nat
           /\ a = m * (a \div m) + (a % m)
  OBVIOUS

\* A smaller number has no larger quotient.
LEMMA DivisionIsMonotone ==
    ASSUME NEW a \in Nat, NEW b \in Nat, a <= b, NEW m \in Nat \ {0}
    PROVE  a \div m <= b \div m
  <1> DEFINE p == a \div m
             q == b \div m
  <1>1. /\ p \in Nat /\ q \in Nat /\ m * p <= a /\ b < m * q + m
    BY Division
  <1> HIDE DEF p, q
  <1>2. ASSUME q < p PROVE FALSE
    <2>1. p >= q + 1
      BY <1>1, <1>2
    <2>2. m * p >= m * (q + 1)
      BY <1>1, <2>1
    <2> QED
      BY <1>1, <2>2
  <1>3. p <= q
    BY <1>1, <1>2
  <1> QED
    BY <1>3 DEF p, q

\* Numbers that are closer than the divisor have different remainders.
LEMMA NearRemaindersDiffer ==
    ASSUME NEW a \in Nat, NEW b \in Nat, NEW m \in Nat \ {0}, a < b, b - a < m
    PROVE  a % m # b % m
  <1> DEFINE p == a \div m
             q == b \div m
             r == a % m
             s == b % m
  <1>1. /\ p \in Nat /\ q \in Nat /\ a = m * p + r /\ b = m * q + s
        /\ r \in 0 .. m - 1 /\ s \in 0 .. m - 1
    BY Division
  <1> HIDE DEF p, q, r, s
  <1>2. ASSUME r = s PROVE FALSE
    <2>1. m * q - m * p = b - a
      BY <1>1, <1>2
    <2>2. CASE q <= p
      <3>1. m * q <= m * p
        BY <1>1, <2>2
      <3> QED
        BY <1>1, <2>1, <3>1
    <2>3. CASE q > p
      <3>1. q >= p + 1
        BY <1>1, <2>3
      <3>2. m * q >= m * (p + 1)
        BY <1>1, <3>1
      <3> QED
        BY <1>1, <2>1, <3>2
    <2> QED
      BY <1>1, <2>2, <2>3
  <1> QED
    BY <1>2 DEF r, s

\* One turn of a ring leads back to the same place.
LEMMA OneTurn ==
    ASSUME NEW m \in Nat \ {0}, NEW a \in 0 .. m - 1
    PROVE  (m + a) % m = a /\ a % m = a
  <1> DEFINE q == (m + a) \div m
             r == (m + a) % m
  <1>1. m + a \in Nat
    OBVIOUS
  <1>2. q \in Nat /\ r \in 0 .. m - 1 /\ m + a = m * q + r
    BY <1>1, Division, Zenon
  <1> HIDE DEF q, r
  <1>3. q # 0
    BY <1>2
  <1>4. ASSUME q >= 2 PROVE FALSE
    <2>1. m * q >= m * 2
      BY <1>2, <1>4
    <2> QED
      BY <1>2, <2>1
  <1>5. q = 1
    BY <1>2, <1>3, <1>4
  <1>6. r = a
    BY <1>2, <1>5
  <1> QED
    BY <1>6 DEF r

\* Adding the divisor or more gives a larger quotient.
LEMMA QuotientGrows ==
    ASSUME NEW a \in Nat, NEW b \in Nat, NEW m \in Nat \ {0}, a + m <= b
    PROVE  a \div m < b \div m
  <1> DEFINE p == a \div m
             q == b \div m
  <1>1. /\ p \in Nat /\ q \in Nat /\ m * p <= a /\ b < m * q + m
    BY Division
  <1> HIDE DEF p, q
  <1>2. ASSUME q <= p PROVE FALSE
    <2>1. m * q <= m * p
      BY <1>1, <1>2
    <2> QED
      BY <1>1, <2>1
  <1>3. p < q
    BY <1>1, <1>2
  <1> QED
    BY <1>3 DEF p, q

\* A number below a multiple of the divisor has a smaller quotient.
LEMMA QuotientBelow ==
    ASSUME NEW a \in Nat, NEW m \in Nat \ {0}, NEW k \in Nat, a < m * k
    PROVE  a \div m < k
  <1> DEFINE p == a \div m
  <1>1. p \in Nat /\ m * p <= a
    BY Division
  <1> HIDE DEF p
  <1>2. ASSUME k <= p PROVE FALSE
    <2>1. m * k <= m * p
      BY <1>1, <1>2
    <2> QED
      BY <1>1, <2>1
  <1>3. p < k
    BY <1>1, <1>2
  <1> QED
    BY <1>3 DEF p

\* Quotient and remainder tell a number.
LEMMA DivisionIsExact ==
    ASSUME NEW a \in Nat, NEW b \in Nat, NEW m \in Nat \ {0},
           a \div m = b \div m, a % m = b % m
    PROVE  a = b
  <1>1. a = m * (a \div m) + (a % m) /\ b = m * (b \div m) + (b % m)
    BY Division
  <1> QED
    BY <1>1, Zenon

\* Cells that are packed m to a slot: each has a slot and a place in it, no two the same.
LEMMA PackedCells ==
    ASSUME NEW n \in Nat \ {0}, NEW m \in Nat \ {0}, NEW c \in 0 .. n - 1
    PROVE  /\ c \div m \in 0 .. ((n - 1) \div m) /\ c % m \in 0 .. m - 1
           /\ \A d \in 0 .. n - 1 : c \div m = d \div m /\ c % m = d % m => c = d
  <1>1. c \in Nat /\ n - 1 \in Nat /\ c <= n - 1
    OBVIOUS
  <1>2. c \div m <= (n - 1) \div m
    BY <1>1, DivisionIsMonotone
  <1>3. /\ c \div m \in Nat /\ (n - 1) \div m \in Nat /\ c % m \in 0 .. m - 1
    BY <1>1, Division
  <1>4. ASSUME NEW d \in 0 .. n - 1, c \div m = d \div m, c % m = d % m PROVE c = d
    <2>1. d \in Nat
      OBVIOUS
    <2> QED
      BY <1>1, <1>4, <2>1, DivisionIsExact
  <1> QED
    BY <1>2, <1>3, <1>4

\* The same for numbers that may be negative.
LEMMA DivisionOfInt ==
    ASSUME NEW a \in Int, NEW m \in Nat \ {0}
    PROVE  /\ a % m \in 0 .. m - 1 /\ a % m \in Nat /\ a \div m \in Int
           /\ a = m * (a \div m) + (a % m)
  OBVIOUS

\* A number has only one quotient and one remainder.
LEMMA DivisionIs ==
    ASSUME NEW a \in Int, NEW m \in Nat \ {0}, NEW q \in Int, NEW r \in Int,
           0 <= r, r < m, a = m * q + r
    PROVE  a \div m = q /\ a % m = r
  <1> DEFINE p == a \div m
             s == a % m
  <1>0. s \in 0 .. m - 1 /\ p \in Int /\ a = m * p + s
    BY DivisionOfInt, Zenon
  <1> HIDE DEF p, s
  <1>1. p \in Int /\ s \in Int /\ 0 <= s /\ s < m /\ a = m * p + s
    BY <1>0
  <1>2. m * p - m * q = r - s
    BY <1>1
  <1>3. ASSUME p < q PROVE FALSE
    <2>1. p + 1 <= q
      BY <1>1, <1>3
    <2>2. m * (p + 1) <= m * q
      BY <1>1, <2>1
    <2> QED
      BY <1>1, <1>2, <2>2
  <1>4. ASSUME q < p PROVE FALSE
    <2>1. q + 1 <= p
      BY <1>1, <1>4
    <2>2. m * (q + 1) <= m * p
      BY <1>1, <2>1
    <2> QED
      BY <1>1, <1>2, <2>2
  <1>5. p = q
    BY <1>1, <1>3, <1>4
  <1>6. s = r
    BY <1>1, <1>2, <1>5
  <1> QED
    BY <1>5, <1>6 DEF p, s

\* A remainder differs from the number by a multiple of the divisor.
LEMMA RemainderIs ==
    ASSUME NEW a \in Int, NEW m \in Nat \ {0}
    PROVE  \E k \in Int : a % m = a + m * k
  <1> DEFINE p == a \div m
             s == a % m
  <1>1. p \in Int /\ s \in Int /\ a = m * p + s
    BY DivisionOfInt
  <1> HIDE DEF p, s
  <1>2. -p \in Int /\ s = a + m * (-p)
    BY <1>1
  <1> QED
    BY <1>2 DEF s

\* A multiple of the divisor does not change the remainder.
LEMMA MultipleLeavesRemainder ==
    ASSUME NEW a \in Int, NEW m \in Nat \ {0}, NEW k \in Int
    PROVE  (a + m * k) % m = a % m
  <1> DEFINE p == a \div m
             s == a % m
  <1>1. p \in Int /\ s \in Int /\ 0 <= s /\ s < m /\ a = m * p + s
    BY DivisionOfInt
  <1> HIDE DEF p, s
  <1>2. a + m * k \in Int /\ p + k \in Int /\ a + m * k = m * (p + k) + s
    BY <1>1
  <1>3. (a + m * k) % m = s
    BY <1>1, <1>2, DivisionIs, Zenon
  <1> QED
    BY <1>3 DEF s

\* The remainder of a product is that of the product of a remainder.
LEMMA RemainderOfProduct ==
    ASSUME NEW a \in Int, NEW b \in Int, NEW m \in Nat \ {0}
    PROVE  /\ ((a % m) * b) % m = (a * b) % m
           /\ ((a % m) + b) % m = (a + b) % m
  <1> DEFINE p == a \div m
             s == a % m
  <1>1. p \in Int /\ s \in Int /\ a = m * p + s
    BY DivisionOfInt
  <1> HIDE DEF p, s
  <1>2. s * b \in Int /\ p * b \in Int /\ a * b = s * b + m * (p * b)
    BY <1>1
  <1>3. (s * b + m * (p * b)) % m = (s * b) % m
    BY <1>2, MultipleLeavesRemainder, Zenon
  <1>4. s + b \in Int /\ a + b = (s + b) + m * p
    BY <1>1
  <1>5. ((s + b) + m * p) % m = (s + b) % m
    BY <1>1, <1>4, MultipleLeavesRemainder, Zenon
  <1> QED
    BY <1>2, <1>3, <1>4, <1>5 DEF s

-----------------------------------------------------------------------------
(* Induction and recursion *)

\* Induction: a set of numbers with zero, and with each the next, is all of them.
LEMMA SetInduction ==
    ASSUME NEW P \in SUBSET Nat, 0 \in P, \A n \in P : n + 1 \in P
    PROVE  \A n \in Nat : n \in P
  <1> SUFFICES ASSUME NEW n \in Nat, n \notin P PROVE FALSE
    OBVIOUS
  <1>1. IsWellFoundedOn(OpToRel(<, Nat), Nat)
    BY NatLessThanWellFounded
  <1>2. PICK m \in Nat \ P : \A k \in Nat \ P : ~(<<k, m>> \in OpToRel(<, Nat))
    <2>1. Nat \ P \subseteq Nat /\ Nat \ P # {}
      OBVIOUS
    <2> QED
      BY <1>1, <2>1, WFMin, Zenon
  <1>3. \A k \in Nat \ P : ~(k < m)
    BY <1>2 DEF OpToRel
  <1>4. m # 0 /\ m - 1 \in Nat /\ m - 1 < m
    OBVIOUS
  <1>5. m - 1 \in P
    BY <1>3, <1>4
  <1>6. m - 1 + 1 = m
    OBVIOUS
  <1> QED
    BY <1>5, <1>6

\* The same for the elements of a set that have ranks: a subset that holds each element
\* with all those of lower rank before it is the whole set.
LEMMA RankInduction ==
    ASSUME NEW S, NEW rank \in [S -> Nat], NEW T \in SUBSET S,
           \A s \in S : (\A t \in S : rank[t] < rank[s] => t \in T) => s \in T
    PROVE  \A s \in S : s \in T
  <1> DEFINE P == {n \in Nat : \A s \in S : rank[s] < n => s \in T}
  <1>1. P \in SUBSET Nat /\ 0 \in P
    OBVIOUS
  <1>2. ASSUME NEW n \in P PROVE n + 1 \in P
    <2>1. ASSUME NEW s \in S, rank[s] < n + 1 PROVE s \in T
      <3>1. ASSUME NEW t \in S, rank[t] < rank[s] PROVE t \in T
        <4>1. rank[t] \in Nat /\ rank[s] \in Nat /\ n \in Nat
          OBVIOUS
        <4>2. rank[t] < n
          BY <2>1, <3>1, <4>1
        <4> QED
          BY <4>2
      <3> QED
        BY <3>1
    <2> QED
      BY <2>1
  <1>3. \A n \in Nat : n \in P
    <2> HIDE DEF P
    <2> QED
      BY <1>1, <1>2, SetInduction, Zenon
  <1>4. ASSUME NEW s \in S PROVE s \in T
    <2>1. rank[s] \in Nat /\ rank[s] + 1 \in Nat /\ rank[s] < rank[s] + 1
      OBVIOUS
    <2>2. rank[s] + 1 \in P
      BY <1>3, <2>1
    <2> QED
      BY <2>1, <2>2
  <1> QED
    BY <1>4

-----------------------------------------------------------------------------
(* Functions defined by recursion: f of s is base of s where the recursion *)
(* stops, and else join of f of the next element, which has a lower rank.  *)

Follows(f, D, stop, base, next, join) ==
    \A s \in D : f[s] = IF s \in stop THEN base[s] ELSE join[s][f[next[s]]]

Below(S, rank, n) == {s \in S : rank[s] < n}

\* Two functions that follow the same recursion up to a rank agree up to it.
LEMMA RecursionsAgree ==
    ASSUME NEW S, NEW rank \in [S -> Nat], NEW stop \in SUBSET S, NEW base, NEW join,
           NEW next \in [S -> S], \A s \in S \ stop : rank[next[s]] < rank[s],
           NEW n \in Nat, NEW f, NEW g,
           Follows(f, Below(S, rank, n), stop, base, next, join),
           Follows(g, Below(S, rank, n), stop, base, next, join)
    PROVE  \A s \in Below(S, rank, n) : f[s] = g[s]
  <1> DEFINE T == {s \in S : rank[s] < n => f[s] = g[s]}
  <1>1. ASSUME NEW s \in S, \A t \in S : rank[t] < rank[s] => t \in T PROVE s \in T
    <2> SUFFICES ASSUME rank[s] < n PROVE f[s] = g[s]
      OBVIOUS
    <2>1. /\ f[s] = IF s \in stop THEN base[s] ELSE join[s][f[next[s]]]
          /\ g[s] = IF s \in stop THEN base[s] ELSE join[s][g[next[s]]]
      BY DEF Follows, Below
    <2>2. CASE s \in stop
      BY <2>1, <2>2
    <2>3. CASE s \notin stop
      <3>1. next[s] \in S /\ rank[next[s]] < rank[s] /\ next[s] \in T
        BY <1>1, <2>3
      <3>2. rank[next[s]] \in Nat /\ rank[s] \in Nat
        BY <3>1
      <3>3. rank[next[s]] < n
        BY <3>1, <3>2
      <3>4. f[next[s]] = g[next[s]]
        BY <3>1, <3>3
      <3> QED
        BY <2>1, <2>3, <3>4
    <2> QED
      BY <2>2, <2>3
  <1>2. \A s \in S : s \in T
    <2>1. T \in SUBSET S
      OBVIOUS
    <2> HIDE DEF T
    <2> QED
      BY <1>1, <2>1, RankInduction, Zenon
  <1> QED
    BY <1>2 DEF Below

\* There is a function that follows the recursion up to any rank.
LEMMA RecursionUpTo ==
    ASSUME NEW S, NEW V, NEW rank \in [S -> Nat], NEW stop \in SUBSET S,
           NEW base \in [S -> V], NEW join \in [S -> [V -> V]],
           NEW next \in [S -> S], \A s \in S \ stop : rank[next[s]] < rank[s]
    PROVE  \A n \in Nat :
              \E f \in [S -> V] : Follows(f, Below(S, rank, n), stop, base, next, join)
  <1> DEFINE P == {n \in Nat : \E f \in [S -> V] :
                      Follows(f, Below(S, rank, n), stop, base, next, join)}
  <1>1. P \in SUBSET Nat /\ 0 \in P
    <2>1. Below(S, rank, 0) = {}
      BY DEF Below
    <2>2. Follows(base, Below(S, rank, 0), stop, base, next, join)
      BY <2>1 DEF Follows
    <2> QED
      BY <2>2
  <1>2. ASSUME NEW n \in P PROVE n + 1 \in P
    <2>1. PICK f \in [S -> V] : Follows(f, Below(S, rank, n), stop, base, next, join)
      OBVIOUS
    <2> DEFINE g == [s \in S |-> IF s \in stop THEN base[s] ELSE join[s][f[next[s]]]]
    <2>2. g \in [S -> V]
      OBVIOUS
    <2>3. ASSUME NEW s \in Below(S, rank, n + 1), s \notin stop
          PROVE  g[next[s]] = f[next[s]]
      <3>1. /\ s \in S /\ rank[s] < n + 1 /\ next[s] \in S /\ rank[next[s]] < rank[s]
            /\ n \in Nat /\ rank[s] \in Nat /\ rank[next[s]] \in Nat
        BY <2>3 DEF Below
      <3>2. next[s] \in Below(S, rank, n)
        BY <3>1 DEF Below
      <3> QED
        BY <2>1, <3>1, <3>2 DEF Follows
    <2>4. Follows(g, Below(S, rank, n + 1), stop, base, next, join)
      <3>1. ASSUME NEW s \in Below(S, rank, n + 1)
            PROVE  g[s] = IF s \in stop THEN base[s] ELSE join[s][g[next[s]]]
        <4>1. s \in S /\ g[s] = IF s \in stop THEN base[s] ELSE join[s][f[next[s]]]
          BY DEF Below
        <4> HIDE DEF g
        <4> QED
          BY <2>3, <4>1
      <3> HIDE DEF g
      <3> QED
        BY <3>1 DEF Follows
    <2>5. n + 1 \in Nat
      BY <1>1
    <2> HIDE DEF g
    <2> QED
      BY <2>2, <2>4, <2>5
  <1>3. \A n \in Nat : n \in P
    <2> HIDE DEF P
    <2> QED
      BY <1>1, <1>2, SetInduction, Zenon
  <1> QED
    BY <1>3

\* So there is one that follows it everywhere.
LEMMA Recursion ==
    ASSUME NEW S, NEW V, NEW rank \in [S -> Nat], NEW stop \in SUBSET S,
           NEW base \in [S -> V], NEW join \in [S -> [V -> V]],
           NEW next \in [S -> S], \A s \in S \ stop : rank[next[s]] < rank[s]
    PROVE  \E f \in [S -> V] : Follows(f, S, stop, base, next, join)
  <1> DEFINE Upto(n) ==
                CHOOSE f \in [S -> V] : Follows(f, Below(S, rank, n), stop, base, next, join)
             f == [s \in S |-> Upto(rank[s] + 1)[s]]
  <1>1. ASSUME NEW n \in Nat
        PROVE  /\ Upto(n) \in [S -> V]
               /\ Follows(Upto(n), Below(S, rank, n), stop, base, next, join)
    BY RecursionUpTo
  <1> HIDE DEF Upto
  <1>2. f \in [S -> V]
    <2>1. ASSUME NEW s \in S PROVE Upto(rank[s] + 1)[s] \in V
      <3>1. rank[s] + 1 \in Nat
        OBVIOUS
      <3> QED
        BY <1>1, <3>1
    <2> QED
      BY <2>1
  <1>3. ASSUME NEW s \in S
        PROVE  f[s] = IF s \in stop THEN base[s] ELSE join[s][f[next[s]]]
    <2> DEFINE g == Upto(rank[s] + 1)
    <2>1. /\ rank[s] + 1 \in Nat /\ rank[s] \in Nat /\ s \in Below(S, rank, rank[s] + 1)
          /\ f[s] = g[s]
      BY DEF Below
    <2>2. g[s] = IF s \in stop THEN base[s] ELSE join[s][g[next[s]]]
      BY <1>1, <2>1 DEF Follows
    <2>3. CASE s \in stop
      BY <2>1, <2>2, <2>3
    <2>4. CASE s \notin stop
      <3> DEFINE t == next[s]
                 h == Upto(rank[t] + 1)
      <3>1. t \in S /\ rank[t] < rank[s] /\ rank[t] \in Nat /\ rank[t] + 1 \in Nat
        BY <2>4
      <3>2. f[t] = h[t] /\ t \in Below(S, rank, rank[t] + 1)
        BY <3>1 DEF Below
      <3>3. Below(S, rank, rank[t] + 1) \subseteq Below(S, rank, rank[s] + 1)
        BY <2>1, <3>1 DEF Below
      <3>4. /\ Follows(h, Below(S, rank, rank[t] + 1), stop, base, next, join)
            /\ Follows(g, Below(S, rank, rank[t] + 1), stop, base, next, join)
        BY <1>1, <2>1, <3>1, <3>3 DEF Follows
      <3> HIDE DEF g, h, f
      <3>5. h[t] = g[t]
        <4> DEFINE n == rank[t] + 1
        <4>1. n \in Nat
          BY <3>1
        <4> HIDE DEF n
        <4>2. \A u \in Below(S, rank, n) : h[u] = g[u]
          BY <3>4, <4>1, RecursionsAgree DEF n
        <4> QED
          BY <3>2, <4>2 DEF n
      <3> QED
        BY <2>1, <2>2, <2>4, <3>2, <3>5
    <2> QED
      BY <2>3, <2>4
  <1> HIDE DEF f
  <1>4. Follows(f, S, stop, base, next, join)
    BY <1>3 DEF Follows
  <1> QED
    BY <1>2, <1>4

\* What follows a recursion has the values that its parts have.
LEMMA RecursionType ==
    ASSUME NEW S, NEW V, NEW rank \in [S -> Nat], NEW stop \in SUBSET S,
           NEW base \in [S -> V], NEW join \in [S -> [V -> V]],
           NEW next \in [S -> S], \A s \in S \ stop : rank[next[s]] < rank[s],
           NEW f, Follows(f, S, stop, base, next, join)
    PROVE  \A s \in S : f[s] \in V
  <1> DEFINE T == {s \in S : f[s] \in V}
  <1>1. ASSUME NEW s \in S, \A t \in S : rank[t] < rank[s] => t \in T PROVE s \in T
    <2>1. f[s] = IF s \in stop THEN base[s] ELSE join[s][f[next[s]]]
      BY DEF Follows
    <2>2. s \notin stop => f[next[s]] \in V
      BY <1>1
    <2> QED
      BY <2>1, <2>2
  <1>2. \A s \in S : s \in T
    <2>1. T \in SUBSET S
      OBVIOUS
    <2> HIDE DEF T
    <2> QED
      BY <1>1, <2>1, RankInduction, Zenon
  <1> QED
    BY <1>2

\* Recursion from a number to the one before it.
FollowsNat(f, first, join) ==
    \A n \in Nat : f[n] = IF n = 0 THEN first ELSE join[n][f[n - 1]]

LEMMA NatRecursion ==
    ASSUME NEW V, NEW first \in V, NEW join \in [Nat -> [V -> V]]
    PROVE  /\ \E f \in [Nat -> V] : FollowsNat(f, first, join)
           /\ \A f : FollowsNat(f, first, join) => \A n \in Nat : f[n] \in V
  <1> DEFINE rank == [n \in Nat |-> n]
             base == [n \in Nat |-> first]
             next == [n \in Nat |-> IF n = 0 THEN 0 ELSE n - 1]
  <1>1. /\ rank \in [Nat -> Nat] /\ {0} \in SUBSET Nat /\ base \in [Nat -> V]
        /\ next \in [Nat -> Nat] /\ \A n \in Nat \ {0} : rank[next[n]] < rank[n]
    OBVIOUS
  <1>2. ASSUME NEW f
        PROVE  Follows(f, Nat, {0}, base, next, join) <=> FollowsNat(f, first, join)
    BY DEF Follows, FollowsNat
  <1> HIDE DEF rank, base, next
  <1>3. \E f \in [Nat -> V] : FollowsNat(f, first, join)
    <2>1. PICK f \in [Nat -> V] : Follows(f, Nat, {0}, base, next, join)
      BY <1>1, Recursion, Zenon
    <2> QED
      BY <1>2, <2>1
  <1>4. ASSUME NEW f, FollowsNat(f, first, join) PROVE \A n \in Nat : f[n] \in V
    <2>1. Follows(f, Nat, {0}, base, next, join)
      BY <1>2, <1>4
    <2> QED
      BY <1>1, <2>1, RecursionType, Zenon
  <1> QED
    BY <1>3, <1>4

\* f goes along a list of n steps.
FollowsList(f, first, n, join) ==
    f = [i \in 0 .. n |-> IF i = 0 THEN first ELSE join[i][f[i - 1]]]

\* Recursion over the places of a list.
LEMMA ListRecursion ==
    ASSUME NEW V, NEW first \in V, NEW n \in Nat, NEW join \in [1 .. n -> [V -> V]]
    PROVE  \E f \in [0 .. n -> V] : FollowsList(f, first, n, join)
  <1> DEFINE all == [i \in Nat |-> IF i \in 1 .. n THEN join[i] ELSE [v \in V |-> v]]
  <1>1. all \in [Nat -> [V -> V]]
    OBVIOUS
  <1>2. \A i \in 1 .. n : all[i] = join[i]
    OBVIOUS
  <1> HIDE DEF all
  <1>3. PICK g \in [Nat -> V] : FollowsNat(g, first, all)
    BY <1>1, NatRecursion, Zenon
  <1> DEFINE f == [i \in 0 .. n |-> g[i]]
  <1>4. f \in [0 .. n -> V]
    OBVIOUS
  <1>5. ASSUME NEW i \in 0 .. n
        PROVE  f[i] = IF i = 0 THEN first ELSE join[i][f[i - 1]]
    <2>1. i \in Nat /\ f[i] = g[i]
      OBVIOUS
    <2>2. g[i] = IF i = 0 THEN first ELSE all[i][g[i - 1]]
      BY <1>3, <2>1 DEF FollowsNat
    <2>3. i # 0 => i \in 1 .. n /\ i - 1 \in 0 .. n
      OBVIOUS
    <2>4. i # 0 => f[i - 1] = g[i - 1]
      BY <2>3
    <2> HIDE DEF f
    <2> QED
      BY <1>2, <2>1, <2>2, <2>3, <2>4
  <1>6. f = [i \in 0 .. n |-> IF i = 0 THEN first ELSE join[i][f[i - 1]]]
    <2>1. f = [i \in 0 .. n |-> f[i]]
      OBVIOUS
    <2> HIDE DEF f
    <2> QED
      BY <1>5, <2>1
  <1>7. FollowsList(f, first, n, join)
    <2> HIDE DEF f
    <2> QED
      BY <1>6 DEF FollowsList
  <1> QED
    BY <1>4, <1>7

\* A loop: f of s is base of s where it stops, and else f of the next element.
IsLoop(f, S, stop, base, next) ==
    f = [s \in S |-> IF s \in stop THEN base[s] ELSE f[next[s]]]

\* A loop whose elements go down in rank ends.
LEMMA LoopExists ==
    ASSUME NEW S, NEW V, NEW rank \in [S -> Nat], NEW stop \in SUBSET S,
           NEW base \in [S -> V], NEW next \in [S -> S],
           \A s \in S \ stop : rank[next[s]] < rank[s]
    PROVE  \E f : IsLoop(f, S, stop, base, next)
  <1> DEFINE join == [s \in S |-> [v \in V |-> v]]
  <1>1. join \in [S -> [V -> V]]
    OBVIOUS
  <1>2. ASSUME NEW f \in [S -> V], NEW s \in S PROVE join[s][f[next[s]]] = f[next[s]]
    <2>1. f[next[s]] \in V /\ \A v \in V : join[s][v] = v
      OBVIOUS
    <2> QED
      BY <2>1
  <1> HIDE DEF join
  <1>3. PICK f \in [S -> V] : Follows(f, S, stop, base, next, join)
    BY <1>1, Recursion, Zenon
  <1>4. \A s \in S : f[s] = IF s \in stop THEN base[s] ELSE f[next[s]]
    BY <1>2, <1>3 DEF Follows
  <1>5. f = [s \in S |-> IF s \in stop THEN base[s] ELSE f[next[s]]]
    BY <1>4
  <1> QED
    BY <1>5 DEF IsLoop

-----------------------------------------------------------------------------
(* Powers *)

\* Powers follow the recursion that defines them, and are natural numbers.
LEMMA PowersLaw ==
    ASSUME NEW base \in Nat
    PROVE  /\ PowersOf(base) \in [Nat -> Nat]
           /\ PowersOf(base) =
                 [n \in Nat |-> IF n = 0 THEN 1 ELSE base * PowersOf(base)[n - 1]]
  <1> DEFINE join == [n \in Nat |-> [v \in Nat |-> base * v]]
  <1>1. join \in [Nat -> [Nat -> Nat]] /\ 1 \in Nat
    OBVIOUS
  <1>2. ASSUME NEW f \in [Nat -> Nat], NEW n \in Nat, n # 0
        PROVE  join[n][f[n - 1]] = base * f[n - 1]
    <2>1. n - 1 \in Nat
      BY <1>2
    <2>2. f[n - 1] \in Nat
      BY <2>1
    <2>3. \A v \in Nat : join[n][v] = base * v
      OBVIOUS
    <2> QED
      BY <2>2, <2>3
  <1> HIDE DEF join
  <1>3. PICK f \in [Nat -> Nat] : FollowsNat(f, 1, join)
    BY <1>1, NatRecursion, Zenon
  <1>4. f = [n \in Nat |-> IF n = 0 THEN 1 ELSE base * f[n - 1]]
    <2>1. ASSUME NEW n \in Nat PROVE f[n] = IF n = 0 THEN 1 ELSE base * f[n - 1]
      BY <1>2, <1>3 DEF FollowsNat
    <2> QED
      BY <2>1
  <1>5. PowersOf(base) = [n \in Nat |-> IF n = 0 THEN 1 ELSE base * PowersOf(base)[n - 1]]
    BY <1>4 DEF PowersOf
  <1>6. \A n \in Nat : PowersOf(base)[n] = IF n = 0 THEN 1 ELSE base * PowersOf(base)[n - 1]
    BY <1>5
  <1>7. \A n \in Nat : PowersOf(base)[n] \in Nat
    <2> DEFINE g == PowersOf(base)
               P == {n \in Nat : g[n] \in Nat}
    <2> HIDE DEF g
    <2>1. P \in SUBSET Nat /\ 0 \in P
      BY <1>6 DEF g
    <2>2. ASSUME NEW n \in P PROVE n + 1 \in P
      <3>1. n + 1 \in Nat /\ n + 1 # 0 /\ n + 1 - 1 = n /\ g[n] \in Nat
        OBVIOUS
      <3>2. g[n + 1] = base * g[n]
        BY <1>6, <3>1 DEF g
      <3> QED
        BY <3>1, <3>2
    <2>3. \A n \in Nat : n \in P
      <3> HIDE DEF P
      <3> QED
        BY <2>1, <2>2, SetInduction, Zenon
    <2> QED
      BY <2>3 DEF g
  <1> QED
    BY <1>5, <1>7

\* A power is the product of the base and the power before it.
LEMMA PowerSteps ==
    ASSUME NEW base \in Nat
    PROVE  /\ PowersOf(base)[0] = 1
           /\ \A n \in Nat : /\ PowersOf(base)[n] \in Nat
                             /\ PowersOf(base)[n + 1] = base * PowersOf(base)[n]
  <1> DEFINE g == PowersOf(base)
  <1>1. g \in [Nat -> Nat] /\ g = [n \in Nat |-> IF n = 0 THEN 1 ELSE base * g[n - 1]]
    BY PowersLaw
  <1> HIDE DEF g
  <1>2. \A n \in Nat : g[n] \in Nat /\ g[n] = IF n = 0 THEN 1 ELSE base * g[n - 1]
    BY <1>1
  <1>3. ASSUME NEW n \in Nat PROVE g[n + 1] = base * g[n]
    <2>1. n + 1 \in Nat /\ n + 1 # 0 /\ n + 1 - 1 = n
      OBVIOUS
    <2> QED
      BY <1>2, <2>1
  <1>4. g[0] = 1
    BY <1>2
  <1> QED
    BY <1>2, <1>3, <1>4 DEF g

\* Powers of sums are products.
LEMMA PowerOfSum ==
    ASSUME NEW base \in Nat, NEW m \in Nat
    PROVE  \A n \in Nat : PowersOf(base)[m + n] = PowersOf(base)[m] * PowersOf(base)[n]
  <1> DEFINE g == PowersOf(base)
             P == {n \in Nat : g[m + n] = g[m] * g[n]}
  <1>1. g[0] = 1 /\ \A n \in Nat : g[n] \in Nat /\ g[n + 1] = base * g[n]
    BY PowerSteps
  <1> HIDE DEF g
  <1>2. P \in SUBSET Nat /\ 0 \in P
    <2>1. m + 0 = m /\ g[m] \in Nat
      BY <1>1
    <2>2. g[m] * 1 = g[m]
      BY <2>1
    <2> QED
      BY <1>1, <2>1, <2>2
  <1>3. ASSUME NEW n \in P PROVE n + 1 \in P
    <2>1. n \in Nat /\ m + n \in Nat /\ m + (n + 1) = (m + n) + 1 /\ g[m + n] = g[m] * g[n]
      OBVIOUS
    <2>2. g[m + (n + 1)] = base * g[m + n] /\ g[n + 1] = base * g[n]
      BY <1>1, <2>1
    <2>3. g[m] \in Nat /\ g[n] \in Nat
      BY <1>1, <2>1
    <2>4. base * (g[m] * g[n]) = g[m] * (base * g[n])
      BY <2>3
    <2> QED
      BY <2>1, <2>2, <2>4
  <1>4. \A n \in Nat : n \in P
    <2> HIDE DEF P
    <2> QED
      BY <1>2, <1>3, SetInduction, Zenon
  <1> QED
    BY <1>4 DEF g

\* The powers of a positive number are positive and grow with the exponent.
LEMMA PowersGrow ==
    ASSUME NEW base \in Nat \ {0}, NEW m \in Nat
    PROVE  \A n \in Nat : /\ PowersOf(base)[n] >= 1
                          /\ PowersOf(base)[m] <= PowersOf(base)[m + n]
  <1> DEFINE g == PowersOf(base)
             P == {n \in Nat : g[n] >= 1}
  <1>1. /\ g[0] = 1 /\ \A n \in Nat : g[n] \in Nat /\ g[n + 1] = base * g[n]
        /\ \A n \in Nat : g[m + n] = g[m] * g[n]
    BY PowerSteps, PowerOfSum
  <1> HIDE DEF g
  <1>2. P \in SUBSET Nat /\ 0 \in P
    BY <1>1
  <1>3. ASSUME NEW n \in P PROVE n + 1 \in P
    <2>1. n \in Nat /\ g[n] \in Nat /\ g[n] >= 1 /\ g[n + 1] = base * g[n]
      BY <1>1
    <2>2. base * g[n] >= 1
      BY <2>1
    <2> QED
      BY <2>1, <2>2
  <1>4. \A n \in Nat : n \in P
    <2> HIDE DEF P
    <2> QED
      BY <1>2, <1>3, SetInduction, Zenon
  <1>5. ASSUME NEW n \in Nat PROVE g[n] >= 1 /\ g[m] <= g[m + n]
    <2>1. g[n] >= 1 /\ g[n] \in Nat /\ g[m] \in Nat /\ g[m + n] = g[m] * g[n]
      BY <1>1, <1>4
    <2>2. g[m] * g[n] >= g[m] * 1
      BY <2>1
    <2> QED
      BY <2>1, <2>2
  <1> QED
    BY <1>5 DEF g
===============================================================================

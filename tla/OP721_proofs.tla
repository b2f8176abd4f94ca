----------------------------- MODULE OP721_proofs -----------------------------
(***************************************************************************)
(* For every set of tokens, addresses and URIs and any number of signed    *)
(* messages: the token of OP721 keeps its types, its enumeration of the    *)
(* tokens of an owner is exact, the records of two tokens and of two lives *)
(* of one token are separate, a signed message acts at most once, and seen *)
(* from outside the token is the registry of TokenRegistry.                *)
(***************************************************************************)
EXTENDS OP721, BasicFacts, FiniteSetTheorems

\* The lists and the indexes say where each token is that has an owner.
Enumerates(lists, index, owner) ==
    /\ lists[Zero] = <<>>
    /\ \A a \in Address : \A i \in 1..Len(lists[a]) :
          owner[lists[a][i]] = a /\ index[lists[a][i]] = i - 1
    /\ \A t \in Token : owner[t] # Zero =>
          /\ index[t] + 1 \in 1..Len(lists[owner[t]])
          /\ lists[owner[t]][index[t] + 1] = t
    /\ \A t \in Token : owner[t] = Zero => index[t] = 0

\* The records of ownership o agree with one another.
Exact(o) ==
    /\ Enumerates(o.tokens, o.index, o.owner)
    /\ \A a \in Address : Len(o.tokens[a]) = o.balance[a]
    /\ \A t \in Token : o.owner[t] = Zero => o.approved[t] = Zero

\* From ownership o, one token has moved to a new owner, and its approval is gone.
Moving(o) ==
    \E t \in Token, to \in Account :
        /\ o.owner[t] # Zero
        /\ ownerOf = [o.owner EXCEPT ![t] = to]
        /\ approved = [o.approved EXCEPT ![t] = Zero]

Existing == {t \in Token : Exists(t)}

\* The records agree now and in what the host restores when a receiver refuses; the total
\* supply counts the tokens, and the URIs go with them.
OwnershipInv ==
    /\ TypeOK
    /\ Exact(Now)
    /\ ~Idle => Exact(pending) /\ Moving(pending)
    /\ totalSupply = Cardinality(Existing)
    /\ \A t \in Token : ~Exists(t) => uriIndex[t] = 0
    /\ UriSlotsDistinct
    /\ maxSupply = 0 => uriOf = <<>>

-----------------------------------------------------------------------------
(* Lists of tokens *)

\* A list whose last entry has taken the place of entry p.
Shortened(list, p) == Front([list EXCEPT ![p] = Last(list)])

\* The last entry takes place p, the others stay where they are.
LEMMA LastTakesPlace ==
    ASSUME NEW S, NEW list \in Seq(S), NEW p \in 1..Len(list)
    PROVE  /\ Shortened(list, p) \in Seq(S) /\ Len(Shortened(list, p)) = Len(list) - 1
           /\ \A i \in 1..(Len(list) - 1) :
                  Shortened(list, p)[i] = IF i = p THEN list[Len(list)] ELSE list[i]
  <1> DEFINE m == [list EXCEPT ![p] = list[Len(list)]]
             r == Shortened(list, p)
  <1>1. /\ m \in Seq(S) /\ Len(m) = Len(list) /\ Len(list) \in Nat \ {0}
        /\ \A i \in 1..Len(list) : m[i] = IF i = p THEN list[Len(list)] ELSE list[i]
    OBVIOUS
  <1>2. r = SubSeq(m, 1, Len(m) - 1)
    BY DEF Shortened, Front, Last
  <1> HIDE DEF m, r
  <1> SUFFICES ASSUME NEW CONSTANT k, k = Len(list) - 1
               PROVE  /\ r \in Seq(S) /\ Len(r) = k
                      /\ \A i \in 1..k : r[i] = IF i = p THEN list[Len(list)] ELSE list[i]
    BY DEF r
  <1>3. k \in Nat /\ Len(m) - 1 = k /\ k <= Len(m)
    BY <1>1
  <1>4. r = SubSeq(m, 1, k)
    BY <1>2, <1>3, Zenon
  <1>5. r \in Seq(S) /\ Len(r) = k /\ \A i \in 1..k : r[i] = m[i]
    <2>1. m \in Seq(S)
      BY <1>1
    <2>2. /\ SubSeq(m, 1, k) \in Seq(S) /\ Len(SubSeq(m, 1, k)) = k
          /\ \A i \in 1..k : SubSeq(m, 1, k)[i] = m[i]
      BY <1>3, <2>1, PrefixOf
    <2> QED
      BY <1>4, <2>2, Zenon
  <1>6. \A i \in 1..k : i \in 1..Len(list)
    BY <1>1
  <1> QED
    BY <1>1, <1>5, <1>6

\* What adding a token to a list, and removing one, returns.
IsAdded(lists, index, to, t, newLists, newIndex) ==
    [tokens |-> newLists, index |-> newIndex] = Added(lists, index, to, t)
IsRemoved(lists, index, from, t, newLists, newIndex) ==
    [tokens |-> newLists, index |-> newIndex] = Removed(lists, index, from, t)

\* Only the list of a has changed, and it is d longer.
GrewBy(lists, newLists, a, d) ==
    /\ Len(newLists[a]) = Len(lists[a]) + d
    /\ \A b \in Address : b # a => newLists[b] = lists[b]

\* Adding a token without an owner to the list of its new owner.
LEMMA AddedEnumerates ==
    ASSUME NEW lists \in [Address -> Seq(Token)], NEW index \in [Token -> Nat],
           NEW owner \in [Token -> Address], Enumerates(lists, index, owner),
           NEW to \in Account, NEW t \in Token, owner[t] = Zero,
           NEW newLists, NEW newIndex,
           IsAdded(lists, index, to, t, newLists, newIndex)
    PROVE  /\ newLists \in [Address -> Seq(Token)] /\ newIndex \in [Token -> Nat]
           /\ Enumerates(newLists, newIndex, [owner EXCEPT ![t] = to])
           /\ GrewBy(lists, newLists, to, 1)
  <1> DEFINE L == lists[to]
             ts == [lists EXCEPT ![to] = Append(L, t)]
             ix == [index EXCEPT ![t] = Len(L)]
             ow == [owner EXCEPT ![t] = to]
  <1>1. newLists = ts /\ newIndex = ix
    BY DEF IsAdded, Added
  <1>2. to \in Address /\ to # Zero /\ Zero \in Address /\ L \in Seq(Token) /\ Len(L) \in Nat
    BY AddressAssumption DEF Account
  <1>3. Append(L, t) \in Seq(Token) /\ Len(Append(L, t)) = Len(L) + 1
        /\ Append(L, t)[Len(L) + 1] = t /\ \A i \in 1..Len(L) : Append(L, t)[i] = L[i]
    BY <1>2
  <1>4. ts \in [Address -> Seq(Token)] /\ ix \in [Token -> Nat]
    BY <1>2, <1>3
  <1>5. /\ ts[to] = Append(L, t) /\ \A a \in Address : a # to => ts[a] = lists[a]
        /\ ix[t] = Len(L) /\ \A u \in Token : u # t => ix[u] = index[u]
        /\ ow[t] = to /\ \A u \in Token : u # t => ow[u] = owner[u]
    BY <1>2
  <1>6. \A a \in Address : \A i \in 1..Len(lists[a]) :
           /\ lists[a][i] \in Token /\ lists[a][i] # t
           /\ owner[lists[a][i]] = a /\ index[lists[a][i]] = i - 1
    <2> SUFFICES ASSUME NEW a \in Address, NEW i \in 1..Len(lists[a])
                 PROVE  /\ lists[a][i] \in Token /\ lists[a][i] # t
                        /\ owner[lists[a][i]] = a /\ index[lists[a][i]] = i - 1
      OBVIOUS
    <2>1. lists[a] \in Seq(Token) /\ lists[a][i] \in Token
      OBVIOUS
    <2>2. owner[lists[a][i]] = a /\ index[lists[a][i]] = i - 1
      BY DEF Enumerates
    <2>3. lists[Zero] = <<>>
      BY DEF Enumerates
    <2> QED
      BY <2>1, <2>2, <2>3, SMTT(20)
  <1> HIDE DEF L, ts, ix, ow
  <1>7. \A a \in Address : \A i \in 1..Len(ts[a]) : ow[ts[a][i]] = a /\ ix[ts[a][i]] = i - 1
    <2> SUFFICES ASSUME NEW a \in Address, NEW i \in 1..Len(ts[a])
                 PROVE  ow[ts[a][i]] = a /\ ix[ts[a][i]] = i - 1
      OBVIOUS
    <2>1. CASE a # to
      BY <2>1, <1>5, <1>6, SMTT(20)
    <2>2. CASE a = to /\ i = Len(L) + 1
      BY <2>2, <1>2, <1>3, <1>5
    <2>3. CASE a = to /\ i # Len(L) + 1
      <3>1. i \in 1..Len(L) /\ ts[a][i] = L[i]
        BY <2>3, <1>2, <1>3, <1>5
      <3> QED
        BY <2>3, <3>1, <1>5, <1>6, SMTT(20) DEF L
    <2> QED
      BY <2>1, <2>2, <2>3
  <1>8. ASSUME NEW u \in Token, ow[u] # Zero
        PROVE  ix[u] + 1 \in 1..Len(ts[ow[u]]) /\ ts[ow[u]][ix[u] + 1] = u
    <2>1. CASE u = t
      BY <2>1, <1>2, <1>3, <1>5
    <2>2. CASE u # t
      <3>1. ow[u] = owner[u] /\ ix[u] = index[u] /\ owner[u] \in Address
        BY <2>2, <1>5
      <3>2. index[u] + 1 \in 1..Len(lists[owner[u]]) /\ lists[owner[u]][index[u] + 1] = u
        BY <1>8, <3>1 DEF Enumerates
      <3>3. CASE owner[u] = to
        BY <3>1, <3>2, <3>3, <1>2, <1>3, <1>5 DEF L
      <3>4. CASE owner[u] # to
        BY <3>1, <3>2, <3>4, <1>5
      <3> QED
        BY <3>3, <3>4
    <2> QED
      BY <2>1, <2>2
  <1>9. \A u \in Token : ow[u] = Zero => ix[u] = 0
    BY <1>2, <1>5 DEF Enumerates
  <1>10. ts[Zero] = <<>>
    BY <1>2, <1>5 DEF Enumerates
  <1>11. Enumerates(ts, ix, ow)
    BY <1>7, <1>8, <1>9, <1>10 DEF Enumerates
  <1> QED
    BY <1>1, <1>3, <1>4, <1>5, <1>11 DEF L, ow, GrewBy

\* Removing a token from the list of its owner: the last one takes its place.
LEMMA RemovedEnumerates ==
    ASSUME NEW lists \in [Address -> Seq(Token)], NEW index \in [Token -> Nat],
           NEW owner \in [Token -> Address], Enumerates(lists, index, owner),
           NEW from \in Account, NEW t \in Token, owner[t] = from,
           NEW newLists, NEW newIndex,
           IsRemoved(lists, index, from, t, newLists, newIndex)
    PROVE  /\ newLists \in [Address -> Seq(Token)] /\ newIndex \in [Token -> Nat]
           /\ Enumerates(newLists, newIndex, [owner EXCEPT ![t] = Zero])
           /\ GrewBy(lists, newLists, from, -1)
  <1> DEFINE L == lists[from]
             n == Len(L)
             p == index[t] + 1
             R == Shortened(L, p)
             ts == [lists EXCEPT ![from] = R]
             ix == [[index EXCEPT ![L[n]] = index[t]] EXCEPT ![t] = 0]
             ow == [owner EXCEPT ![t] = Zero]
  <1>1. newLists = ts /\ newIndex = ix
    BY DEF IsRemoved, Removed, Shortened, Last
  <1>2. /\ from \in Address /\ from # Zero /\ Zero \in Address
        /\ L \in Seq(Token) /\ n \in Nat
    BY AddressAssumption DEF Account
  <1>3. p \in 1..n /\ L[p] = t
    BY <1>2 DEF Enumerates
  <1>4. n \in 1..n /\ L[n] \in Token /\ n - 1 \in Nat
    BY <1>2, <1>3
  <1>5. /\ R \in Seq(Token) /\ Len(R) = n - 1
        /\ \A i \in 1..(n - 1) : R[i] = IF i = p THEN L[n] ELSE L[i]
    <2>1. L \in Seq(Token) /\ p \in 1..Len(L)
      BY <1>2, <1>3
    <2> HIDE DEF L, p
    <2> QED
      BY <2>1, LastTakesPlace
  <1> HIDE DEF R
  <1>6. ts \in [Address -> Seq(Token)] /\ ix \in [Token -> Nat]
    BY <1>2, <1>4, <1>5
  <1>7. /\ ts[from] = R /\ \A a \in Address : a # from => ts[a] = lists[a]
        /\ ix[t] = 0 /\ (L[n] # t => ix[L[n]] = index[t])
        /\ \A u \in Token : u # t /\ u # L[n] => ix[u] = index[u]
        /\ ow[t] = Zero /\ \A u \in Token : u # t => ow[u] = owner[u]
    BY <1>2, <1>4
  <1>8. ASSUME NEW a \in Address, NEW i \in 1..Len(lists[a])
        PROVE  /\ lists[a][i] \in Token
               /\ owner[lists[a][i]] = a /\ index[lists[a][i]] = i - 1
    <2>1. lists[a] \in Seq(Token)
      OBVIOUS
    <2> QED
      BY <2>1, SMTT(20) DEF Enumerates
  <1> HIDE DEF L, n, p, ts, ix, ow
  <1>9. ASSUME NEW i \in 1..n, NEW j \in 1..n, L[i] = L[j] PROVE i = j
    BY <1>2, <1>8, <1>9, SMTT(20) DEF L, n
  <1>10. ASSUME NEW a \in Address, NEW i \in 1..Len(ts[a])
         PROVE  ow[ts[a][i]] = a /\ ix[ts[a][i]] = i - 1
    <2>1. CASE a # from
      <3>1. ts[a] = lists[a]
        BY <2>1, <1>7
      <3>2. /\ lists[a][i] \in Token
            /\ owner[lists[a][i]] = a /\ index[lists[a][i]] = i - 1
        BY <3>1, <1>8
      <3>3. owner[L[n]] = from
        BY <1>2, <1>4, <1>8 DEF L, n
      <3>4. lists[a][i] # t /\ lists[a][i] # L[n]
        BY <2>1, <3>2, <3>3
      <3> QED
        BY <3>1, <3>2, <3>4, <1>7
    <2>2. CASE a = from /\ i = p
      <3>1. p \in 1..(n - 1) /\ ts[a][i] = L[n]
        BY <2>2, <1>5, <1>7
      <3>2. L[n] # t
        BY <1>3, <1>4, <1>9, <3>1
      <3>3. owner[L[n]] = from
        BY <1>2, <1>4, <1>8 DEF L, n
      <3>4. ix[L[n]] = p - 1
        BY <3>2, <1>7 DEF p
      <3> QED
        BY <2>2, <3>1, <3>2, <3>3, <3>4, <1>4, <1>7
    <2>3. CASE a = from /\ i # p
      <3>1. i \in 1..(n - 1) /\ ts[a][i] = L[i] /\ i \in 1..n /\ i # n
        BY <2>3, <1>4, <1>5, <1>7
      <3>2. L[i] # t /\ L[i] # L[n]
        BY <2>3, <3>1, <1>3, <1>4, <1>9
      <3>3. L[i] \in Token /\ owner[L[i]] = from /\ index[L[i]] = i - 1
        BY <3>1, <1>2, <1>8 DEF L, n
      <3> QED
        BY <2>3, <3>1, <3>2, <3>3, <1>7
    <2> QED
      BY <2>1, <2>2, <2>3
  <1>11. ASSUME NEW u \in Token, ow[u] # Zero
         PROVE  ix[u] + 1 \in 1..Len(ts[ow[u]]) /\ ts[ow[u]][ix[u] + 1] = u
    <2>1. u # t /\ ow[u] = owner[u] /\ owner[u] \in Address
      BY <1>7, <1>11
    <2>2. index[u] + 1 \in 1..Len(lists[owner[u]]) /\ lists[owner[u]][index[u] + 1] = u
      BY <1>11, <2>1 DEF Enumerates
    <2>3. CASE owner[u] # from
      <3>1. owner[L[n]] = from
        BY <1>2, <1>4, <1>8 DEF L, n
      <3>2. u # L[n]
        BY <2>3, <3>1
      <3> QED
        BY <2>1, <2>2, <2>3, <3>2, <1>7
    <2>4. CASE owner[u] = from /\ u = L[n]
      <3>1. p # n /\ p \in 1..(n - 1)
        BY <2>1, <2>4, <1>3, <1>4
      <3>2. ix[u] = p - 1
        BY <2>1, <2>4, <1>7 DEF p
      <3>3. R[p] = L[n]
        BY <3>1, <1>5
      <3> QED
        BY <2>1, <2>4, <3>1, <3>2, <3>3, <1>4, <1>5, <1>7
    <2>5. CASE owner[u] = from /\ u # L[n]
      <3> DEFINE q == index[u] + 1
      <3>1. q \in 1..n /\ L[q] = u /\ q # n
        BY <2>2, <2>5 DEF L, n
      <3>2. q \in 1..(n - 1) /\ q # p
        BY <3>1, <2>1, <1>3, <1>4
      <3>3. ix[u] + 1 = q
        BY <2>1, <2>5, <1>7
      <3> HIDE DEF q
      <3>4. R[q] = u
        BY <3>1, <3>2, <1>5
      <3> QED
        BY <2>1, <2>5, <3>2, <3>3, <3>4, <1>5, <1>7
    <2> QED
      BY <2>3, <2>4, <2>5
  <1>12. ASSUME NEW u \in Token, ow[u] = Zero PROVE ix[u] = 0
    <2>1. CASE u = t
      BY <2>1, <1>7
    <2>2. CASE u # t
      <3>1. owner[L[n]] = from
        BY <1>2, <1>4, <1>8 DEF L, n
      <3>2. owner[u] = Zero /\ u # L[n]
        BY <1>2, <1>7, <1>12, <2>2, <3>1
      <3>3. index[u] = 0
        BY <3>2 DEF Enumerates
      <3> QED
        BY <2>2, <3>2, <3>3, <1>7
    <2> QED
      BY <2>1, <2>2
  <1>13. ts[Zero] = <<>>
    BY <1>2, <1>7 DEF Enumerates
  <1>14. Enumerates(ts, ix, ow)
    BY <1>10, <1>11, <1>12, <1>13 DEF Enumerates
  <1> QED
    BY <1>1, <1>5, <1>6, <1>7, <1>14 DEF ow, L, n, GrewBy

-----------------------------------------------------------------------------
(* The records of ownership *)

\* Ownership o once token t has left its owner, and once it has gone to a new one.
TakenFrom(o, t) ==
    LET e == Removed(o.tokens, o.index, o.owner[t], t)
    IN  [owner |-> [o.owner EXCEPT ![t] = Zero], tokens |-> e.tokens, index |-> e.index,
         balance |-> [o.balance EXCEPT ![o.owner[t]] = @ - 1],
         approved |-> [o.approved EXCEPT ![t] = Zero]]
GivenTo(o, to, t) ==
    LET e == Added(o.tokens, o.index, to, t)
    IN  [owner |-> [o.owner EXCEPT ![t] = to], tokens |-> e.tokens, index |-> e.index,
         balance |-> [o.balance EXCEPT ![to] = @ + 1], approved |-> o.approved]

\* Taking a token from its owner keeps the records exact.
LEMMA TakenIsExact ==
    ASSUME NEW o \in Ownership, Exact(o), NEW t \in Token, o.owner[t] # Zero
    PROVE  TakenFrom(o, t) \in Ownership /\ Exact(TakenFrom(o, t))
  <1> DEFINE from == o.owner[t]
             e == Removed(o.tokens, o.index, from, t)
             ls == e.tokens
             is == e.index
             r == TakenFrom(o, t)
  <1>1. /\ o.owner \in [Token -> Address] /\ o.tokens \in [Address -> Seq(Token)]
        /\ o.index \in [Token -> Nat] /\ o.balance \in [Address -> Nat]
        /\ o.approved \in [Token -> Address]
    BY DEF Ownership
  <1>2. from \in Account /\ from \in Address /\ Zero \in Address
    BY <1>1, AddressAssumption DEF Account
  <1>3. Enumerates(o.tokens, o.index, o.owner)
    BY DEF Exact
  <1>4. /\ ls \in [Address -> Seq(Token)] /\ is \in [Token -> Nat]
        /\ Enumerates(ls, is, [o.owner EXCEPT ![t] = Zero])
        /\ Len(ls[from]) = Len(o.tokens[from]) - 1
        /\ \A a \in Address : a # from => ls[a] = o.tokens[a]
    <2> DEFINE ow == o.owner
               ts == o.tokens
               ix == o.index
    <2>1. ow[t] = from /\ IsRemoved(ts, ix, from, t, ls, is)
      BY DEF IsRemoved, IsAdded, Removed, Added
    <2>2. /\ ts \in [Address -> Seq(Token)] /\ ix \in [Token -> Nat]
          /\ ow \in [Token -> Address] /\ Enumerates(ts, ix, ow)
      BY <1>1, <1>3
    <2> HIDE DEF from, e, ls, is, ow, ts, ix
    <2>3. /\ ls \in [Address -> Seq(Token)] /\ is \in [Token -> Nat]
          /\ Enumerates(ls, is, [ow EXCEPT ![t] = Zero])
          /\ GrewBy(ts, ls, from, -1)
      BY <1>2, <2>1, <2>2, RemovedEnumerates
    <2> QED
      BY <2>3 DEF GrewBy, ow, ts
  <1>5. /\ r.owner = [o.owner EXCEPT ![t] = Zero] /\ r.tokens = ls /\ r.index = is
        /\ r.balance = [o.balance EXCEPT ![from] = @ - 1]
        /\ r.approved = [o.approved EXCEPT ![t] = Zero]
        /\ r = [owner |-> r.owner, tokens |-> r.tokens, index |-> r.index,
                balance |-> r.balance, approved |-> r.approved]
    BY DEF TakenFrom
  <1> HIDE DEF r, e, ls, is, from
  <1>6. \A a \in Address : /\ Len(ls[a]) = r.balance[a]
                           /\ Len(ls[a]) \in Nat
    <2> SUFFICES ASSUME NEW a \in Address
                 PROVE  Len(ls[a]) = r.balance[a] /\ Len(ls[a]) \in Nat
      OBVIOUS
    <2>1. ls[a] \in Seq(Token)
      BY <1>4
    <2>2. Len(ls[a]) \in Nat /\ Len(o.tokens[a]) = o.balance[a]
      BY <2>1 DEF Exact
    <2>3. r.balance[a] = IF a = from THEN o.balance[a] - 1 ELSE o.balance[a]
      BY <1>1, <1>2, <1>5
    <2> QED
      BY <1>4, <2>2, <2>3
  <1>7. r.balance \in [Address -> Nat]
    <2>1. r.balance[from] = o.balance[from] - 1 /\ r.balance[from] \in Nat
      BY <1>1, <1>2, <1>5, <1>6
    <2> QED
      BY <1>1, <1>2, <1>5, <2>1
  <1>8. r.owner \in [Token -> Address] /\ r.approved \in [Token -> Address]
    BY <1>1, <1>2, <1>5
  <1>9. \A u \in Token : r.owner[u] = Zero => r.approved[u] = Zero
    <2> SUFFICES ASSUME NEW u \in Token, r.owner[u] = Zero PROVE r.approved[u] = Zero
      OBVIOUS
    <2>1. CASE u = t
      BY <1>1, <1>5, <2>1
    <2>2. CASE u # t
      BY <1>1, <1>5, <2>2 DEF Exact
    <2> QED
      BY <2>1, <2>2
  <1>10. r \in Ownership
    BY <1>4, <1>5, <1>7, <1>8 DEF Ownership
  <1>11. Exact(r)
    BY <1>4, <1>5, <1>6, <1>9 DEF Exact
  <1> QED
    BY <1>10, <1>11 DEF r

\* Giving a token that nobody owns to an owner keeps the records exact.
LEMMA GivenIsExact ==
    ASSUME NEW o \in Ownership, Exact(o), NEW t \in Token, o.owner[t] = Zero, NEW to \in Account
    PROVE  GivenTo(o, to, t) \in Ownership /\ Exact(GivenTo(o, to, t))
  <1> DEFINE e == Added(o.tokens, o.index, to, t)
             ls == e.tokens
             is == e.index
             r == GivenTo(o, to, t)
  <1>1. /\ o.owner \in [Token -> Address] /\ o.tokens \in [Address -> Seq(Token)]
        /\ o.index \in [Token -> Nat] /\ o.balance \in [Address -> Nat]
        /\ o.approved \in [Token -> Address]
    BY DEF Ownership
  <1>2. to \in Address /\ to # Zero
    BY DEF Account
  <1>3. Enumerates(o.tokens, o.index, o.owner)
    BY DEF Exact
  <1>4. /\ ls \in [Address -> Seq(Token)] /\ is \in [Token -> Nat]
        /\ Enumerates(ls, is, [o.owner EXCEPT ![t] = to])
        /\ Len(ls[to]) = Len(o.tokens[to]) + 1
        /\ \A a \in Address : a # to => ls[a] = o.tokens[a]
    <2> DEFINE ow == o.owner
               ts == o.tokens
               ix == o.index
    <2>1. ow[t] = Zero /\ IsAdded(ts, ix, to, t, ls, is)
      BY DEF IsRemoved, IsAdded, Removed, Added
    <2>2. /\ ts \in [Address -> Seq(Token)] /\ ix \in [Token -> Nat]
          /\ ow \in [Token -> Address] /\ Enumerates(ts, ix, ow)
      BY <1>1, <1>3
    <2> HIDE DEF e, ls, is, ow, ts, ix
    <2>3. /\ ls \in [Address -> Seq(Token)] /\ is \in [Token -> Nat]
          /\ Enumerates(ls, is, [ow EXCEPT ![t] = to])
          /\ GrewBy(ts, ls, to, 1)
      BY <2>1, <2>2, AddedEnumerates
    <2> QED
      BY <2>3 DEF GrewBy, ow, ts
  <1>5. /\ r.owner = [o.owner EXCEPT ![t] = to] /\ r.tokens = ls /\ r.index = is
        /\ r.balance = [o.balance EXCEPT ![to] = @ + 1]
        /\ r.approved = o.approved
        /\ r = [owner |-> r.owner, tokens |-> r.tokens, index |-> r.index,
                balance |-> r.balance, approved |-> r.approved]
    BY DEF GivenTo
  <1> HIDE DEF r, e, ls, is
  <1>6. \A a \in Address : Len(ls[a]) = r.balance[a]
    <2> SUFFICES ASSUME NEW a \in Address PROVE Len(ls[a]) = r.balance[a]
      OBVIOUS
    <2>1. Len(o.tokens[a]) = o.balance[a]
      BY DEF Exact
    <2>2. r.balance[a] = IF a = to THEN o.balance[a] + 1 ELSE o.balance[a]
      BY <1>1, <1>2, <1>5
    <2> QED
      BY <1>4, <2>1, <2>2
  <1>7. r.balance \in [Address -> Nat] /\ r.owner \in [Token -> Address]
    <2>1. o.balance[to] + 1 \in Nat
      BY <1>1, <1>2
    <2> QED
      BY <1>1, <1>2, <1>5, <2>1
  <1>8. \A u \in Token : r.owner[u] = Zero => r.approved[u] = Zero
    BY <1>1, <1>2, <1>5 DEF Exact
  <1>9. r \in Ownership
    BY <1>1, <1>4, <1>5, <1>7 DEF Ownership
  <1>10. Exact(r)
    BY <1>4, <1>5, <1>6, <1>8 DEF Exact
  <1> QED
    BY <1>9, <1>10 DEF r

\* The records before a safe transfer are there exactly while its receiver runs.
LEMMA PendingCases ==
    ASSUME TypeOK PROVE ~Idle => pending \in Ownership
  BY DEF TypeOK, Idle

\* A mint gives the new token to its owner.
LEMMA MintGives ==
    ASSUME TypeOK, NEW to \in Address, NEW t \in Token, Mint(to, t)
    PROVE  to \in Account /\ ownerOf[t] = Zero /\ Now' = GivenTo(Now, to, t)
  BY DEF Mint, Exists, Account, Enumerate, GivenTo, Now, ownership

\* A burn takes the token from its owner.
LEMMA BurnTakes ==
    ASSUME TypeOK, NEW sender \in Account, NEW t \in Token, Burn(sender, t)
    PROVE  ownerOf[t] # Zero /\ Now' = TakenFrom(Now, t)
  BY DEF Burn, Exists, Enumerate, TakenFrom, Now, Cleared

\* A transfer takes the token and then gives it, perhaps to the same owner.
LEMMA TransferTakesAndGives ==
    ASSUME TypeOK, NEW sender \in Account, NEW from \in Address, NEW to \in Address,
           NEW t \in Token, Transferred(sender, from, to, t)
    PROVE  /\ to \in Account /\ ownerOf[t] # Zero
           /\ Now' = GivenTo(TakenFrom(Now, t), to, t)
  <1>1. to \in Account /\ ownerOf[t] # Zero /\ from = ownerOf[t]
    BY DEF Transferred, Account
  <1>2. [[ownerOf EXCEPT ![t] = Zero] EXCEPT ![t] = to] = [ownerOf EXCEPT ![t] = to]
    BY DEF TypeOK, Now, Ownership
  <1> QED
    BY <1>1, <1>2 DEF Transferred, Enumerate, TakenFrom, GivenTo, Now, Cleared

\* There are at most as many tokens as ids.
LEMMA ExistingIsCounted ==
    ASSUME NEW E, E \subseteq Token
    PROVE  IsFiniteSet(E) /\ Cardinality(E) \in 0..Cardinality(Token)
  BY BoundAssumption, FS_Subset, FS_CardinalityType DEF BoundAssumption

\* A message that verifies keeps the types of the signatures.
LEMMA VerifyTypes ==
    ASSUME TypeOK, NEW m \in signed, VerifySignature(m)
    PROVE  /\ m \in Message /\ nonceOf' \in [Address -> Nat]
           /\ signed' \subseteq Message /\ used' \subseteq Message
  BY DEF TypeOK, VerifySignature, Message, Account

-----------------------------------------------------------------------------
(* Ownership *)

\* Initially there are no tokens.
LEMMA InitOwnership == Init => OwnershipInv
  <1> SUFFICES ASSUME Init PROVE OwnershipInv
    OBVIOUS
  <1> USE AddressAssumption, BoundAssumption DEF AddressAssumption, BoundAssumption
  <1>1. TypeOK
    <2>1. 0 \in 0..Cardinality(Token)
      BY FS_CardinalityType
    <2> QED
      BY <2>1 DEF Init, TypeOK, Now, Ownership
  <1>2. Exact(Now)
    BY DEF Init, Exact, Enumerates, Now
  <1>3. totalSupply = Cardinality(Existing)
    <2>1. Existing = {}
      BY DEF Init, Existing, Exists
    <2> QED
      BY <2>1, FS_EmptySet DEF Init
  <1>4. Idle /\ UriSlotsDistinct /\ uriOf = <<>> /\ \A t \in Token : uriIndex[t] = 0
    BY DEF Init, Idle, UriSlotsDistinct
  <1> QED
    BY <1>1, <1>2, <1>3, <1>4 DEF OwnershipInv

\* An action that leaves the tokens and the URIs alone.
LEMMA SameRecords ==
    ASSUME OwnershipInv, TypeOK',
           UNCHANGED <<ownership, totalSupply, uris, pending>>, maxSupply' = 0 => maxSupply = 0
    PROVE  OwnershipInv'
  <1>1. Now' = Now /\ Existing' = Existing /\ (Idle' <=> Idle)
    BY DEF Now, Existing, Exists, Idle, ownership
  <1>2. Moving(pending)' <=> Moving(pending)
    BY DEF Moving, ownership
  <1>3. UriSlotsDistinct' <=> UriSlotsDistinct
    BY DEF UriSlotsDistinct, uris
  <1> QED
    BY <1>1, <1>2, <1>3 DEF OwnershipInv, ownership, uris, Exists

\* An approval changes, of a token that exists, while no receiver runs.
LEMMA ApprovedKeepsOwnership ==
    ASSUME OwnershipInv, Idle, NEW operator \in Address, NEW t \in Token, Exists(t),
           Approved(operator, t),
           nonceOf' \in [Address -> Nat], signed' \subseteq Message, used' \subseteq Message
    PROVE  OwnershipInv'
  <1>1. Now' = [Now EXCEPT !.approved = [approved EXCEPT ![t] = operator]]
    BY DEF Approved, Now
  <1>2. TypeOK'
    BY DEF OwnershipInv, TypeOK, Approved, Now, Ownership, supply, uris
  <1>3. Exact(Now)'
    <2>1. \A u \in Token : ownerOf'[u] = Zero => approved'[u] = Zero
      BY DEF OwnershipInv, TypeOK, Now, Ownership, Exact, Approved, Exists
    <2>2. Exact(Now)
      BY DEF OwnershipInv
    <2> QED
      BY <2>1, <2>2 DEF Exact, Now, Approved
  <1>4. Existing' = Existing /\ Idle' /\ UriSlotsDistinct'
    BY DEF OwnershipInv, Existing, Exists, Idle, Approved, UriSlotsDistinct, uris
  <1> QED
    BY <1>2, <1>3, <1>4 DEF OwnershipInv, Approved, supply, uris, Exists

\* A token moves to another owner.
LEMMA TransferredKeepsRecords ==
    ASSUME OwnershipInv, NEW sender \in Account, NEW from \in Address, NEW to \in Address,
           NEW t \in Token, Transferred(sender, from, to, t)
    PROVE  /\ Now' \in Ownership /\ Exact(Now)' /\ Existing' = Existing
           /\ Now \in Ownership /\ Exact(Now)
  <1>1. Now \in Ownership /\ Exact(Now) /\ TypeOK
    BY DEF OwnershipInv, TypeOK
  <1>2. to \in Account /\ ownerOf[t] # Zero /\ Now' = GivenTo(TakenFrom(Now, t), to, t)
    BY <1>1, TransferTakesAndGives
  <1>3. Now.owner = ownerOf
    BY DEF Now
  <1>4. TakenFrom(Now, t) \in Ownership /\ Exact(TakenFrom(Now, t))
    BY <1>1, <1>2, <1>3, TakenIsExact
  <1>5. TakenFrom(Now, t).owner[t] = Zero
    BY <1>1, <1>3 DEF TakenFrom, Ownership
  <1>6. Now' \in Ownership /\ Exact(Now')
    BY <1>2, <1>4, <1>5, GivenIsExact
  <1>7. ownerOf' = [ownerOf EXCEPT ![t] = to]
    BY DEF Transferred
  <1>8. Existing' = Existing
    BY <1>1, <1>2, <1>7 DEF Existing, Exists, Account, TypeOK, Now, Ownership
  <1>9. Exact(Now)'
    BY <1>6 DEF Now, Exact
  <1> QED
    BY <1>1, <1>6, <1>8, <1>9

\* Every action keeps the records in agreement.
LEMMA StepOwnership == OwnershipInv /\ [Next]_vars => OwnershipInv'
  <1> SUFFICES ASSUME OwnershipInv, [Next]_vars PROVE OwnershipInv'
    OBVIOUS
  <1>0. /\ TypeOK /\ Now \in Ownership /\ Exact(Now) /\ Now.owner = ownerOf
        /\ totalSupply = Cardinality(Existing) /\ UriSlotsDistinct
        /\ \A t \in Token : ~Exists(t) => uriIndex[t] = 0
    BY DEF OwnershipInv, TypeOK, Now
  <1>1. ASSUME NEW max \in 1..Cardinality(Token), Instantiate(max) PROVE OwnershipInv'
    <2>1. max \in Nat /\ maxSupply' = max /\ uriOf' = <<>> /\ uriOf = <<>>
      BY <1>0, <1>1 DEF Instantiate, OwnershipInv
    <2>2. TypeOK'
      BY <1>0, <1>1, <2>1 DEF Instantiate, TypeOK, ownership, signatures, Now
    <2> QED
      BY <1>1, <2>1, <2>2, SameRecords DEF Instantiate, uris
  <1>2. ASSUME NEW to \in Address, NEW t \in Token, Mint(to, t) PROVE OwnershipInv'
    <2>1. to \in Account /\ ownerOf[t] = Zero /\ Now' = GivenTo(Now, to, t)
      BY <1>0, <1>2, MintGives
    <2>2. Now' \in Ownership /\ Exact(Now')
      BY <1>0, <2>1, GivenIsExact
    <2>3. Existing' = Existing \cup {t} /\ t \notin Existing
      BY <1>0, <1>2, <2>1 DEF Mint, Existing, Exists, Account, Ownership
    <2>4. totalSupply' = Cardinality(Existing') /\ totalSupply' \in 0..Cardinality(Token)
      <3>1. IsFiniteSet(Existing) /\ Existing' \subseteq Token
        BY ExistingIsCounted DEF Existing
      <3>2. Cardinality(Existing \cup {t}) = Cardinality(Existing) + 1
        BY <2>3, <3>1, FS_AddElement
      <3>3. Cardinality(Existing') \in 0..Cardinality(Token)
        BY <3>1, ExistingIsCounted
      <3> QED
        BY <1>0, <1>2, <2>3, <3>2, <3>3 DEF Mint
    <2>5. TypeOK'
      BY <1>0, <1>2, <2>2, <2>4 DEF Mint, TypeOK, uris, signatures
    <2>6. Exact(Now)' /\ Idle' /\ UriSlotsDistinct'
      BY <1>0, <1>2, <2>2 DEF Mint, Idle, UriSlotsDistinct, uris, Now, Exact
    <2>7. \A u \in Token : ~Exists(u)' => uriIndex'[u] = 0
      BY <1>0, <1>2, <2>3 DEF Mint, Existing, Exists, uris
    <2> QED
      BY <1>2, <2>4, <2>5, <2>6, <2>7 DEF OwnershipInv, Mint, uris
  <1>3. ASSUME NEW sender \in Account, NEW t \in Token, Burn(sender, t) PROVE OwnershipInv'
    <2>1. ownerOf[t] # Zero /\ Now' = TakenFrom(Now, t)
      BY <1>0, <1>3, BurnTakes
    <2>2. Now' \in Ownership /\ Exact(Now')
      BY <1>0, <2>1, TakenIsExact
    <2>3. Existing' = Existing \ {t} /\ t \in Existing
      BY <1>0, <1>3, <2>1 DEF Burn, Existing, Exists, Ownership
    <2>4. totalSupply' = Cardinality(Existing') /\ totalSupply' \in 0..Cardinality(Token)
      <3>1. IsFiniteSet(Existing) /\ Existing' \subseteq Token
        BY ExistingIsCounted DEF Existing
      <3>2. Cardinality(Existing \ {t}) = Cardinality(Existing) - 1
        BY <2>3, <3>1, FS_RemoveElement
      <3>3. Cardinality(Existing') \in 0..Cardinality(Token)
        BY <3>1, ExistingIsCounted
      <3> QED
        BY <1>0, <1>3, <2>3, <3>2, <3>3 DEF Burn
    <2>5. uriIndex' = [uriIndex EXCEPT ![t] = 0] /\ uriOf' = uriOf /\ uriIndex \in [Token -> Nat]
      BY <1>0, <1>3 DEF Burn, TypeOK
    <2>6. TypeOK'
      BY <1>0, <1>3, <2>2, <2>4, <2>5 DEF Burn, TypeOK, signatures
    <2>7. Exact(Now)' /\ Idle'
      BY <1>3, <2>2 DEF Burn, Idle, Now, Exact
    <2>8. UriSlotsDistinct'
      BY <1>0, <2>5 DEF UriSlotsDistinct
    <2>9. \A u \in Token : ~Exists(u)' => uriIndex'[u] = 0
      BY <1>0, <2>3, <2>5 DEF Existing, Exists
    <2> QED
      BY <1>3, <2>4, <2>5, <2>6, <2>7, <2>8, <2>9 DEF OwnershipInv, Burn
  <1>4. ASSUME NEW sender \in Account, NEW from \in Address, NEW to \in Address,
               NEW t \in Token, Transferred(sender, from, to, t),
               pending' = Nothing \/ pending' = Now,
               pending' = Nothing \/ to \in Receivers
        PROVE  OwnershipInv'
    <2>1. /\ Now' \in Ownership /\ Exact(Now)' /\ Existing' = Existing
          /\ Exact(Now)
      BY <1>4, TransferredKeepsRecords
    <2>2. TypeOK'
      BY <1>0, <1>4, <2>1 DEF Transferred, TypeOK, supply, uris, signatures
    <2>3. totalSupply' = totalSupply /\ maxSupply' = maxSupply /\ UNCHANGED uris
      BY <1>4 DEF Transferred, supply
    <2>4. ~Idle' => Exact(pending') /\ Moving(pending)'
      <3>1. SUFFICES ASSUME pending' = Now PROVE Exact(pending') /\ Moving(pending)'
        BY <1>4 DEF Idle
      <3>2. \E u \in Token, h \in Account :
               /\ ownerOf[u] # Zero
               /\ ownerOf' = [ownerOf EXCEPT ![u] = h]
               /\ approved' = [approved EXCEPT ![u] = Zero]
        BY <1>4, <1>0, TransferTakesAndGives DEF Transferred, Cleared
      <3> QED
        BY <2>1, <3>1, <3>2 DEF Moving, Now
    <2>5. UriSlotsDistinct' /\ \A u \in Token : ~Exists(u)' => uriIndex'[u] = 0
      BY <1>0, <2>1, <2>3 DEF UriSlotsDistinct, uris, Existing, Exists
    <2>6. Exact(pending)' <=> Exact(pending')
      BY DEF Exact
    <2> QED
      BY <1>0, <2>1, <2>2, <2>3, <2>4, <2>5, <2>6 DEF OwnershipInv, uris
  <1>5. ASSUME NEW sender \in Account, NEW from \in Address, NEW to \in Address,
               NEW t \in Token, Transfer(sender, from, to, t) \/ SafeTransfer(sender, from, to, t)
        PROVE  OwnershipInv'
    <2>1. Transferred(sender, from, to, t) /\ Idle
      BY <1>5 DEF Transfer, SafeTransfer, Transferred
    <2>2. pending' = Nothing \/ (pending' = Now /\ to \in Receivers)
      BY <1>5, <2>1 DEF Transfer, SafeTransfer, Idle
    <2> QED
      BY <1>4, <2>1, <2>2
  <1>6. CASE ReceiverAccepts
    <2>1. TypeOK' /\ Idle' /\ Existing' = Existing /\ Now' = Now
      BY <1>0, <1>6 DEF ReceiverAccepts, TypeOK, ownership, supply, uris, signatures,
                        Idle, Existing, Exists, Now
    <2>2. Exact(Now)' /\ UriSlotsDistinct'
      BY <1>0, <1>6, <2>1 DEF ReceiverAccepts, UriSlotsDistinct, uris, Exact
    <2> QED
      BY <1>6, <2>1, <2>2 DEF OwnershipInv, ReceiverAccepts, supply, uris, ownership, Exists
  <1>7. CASE ReceiverRejects
    <2>1. ~Idle /\ pending \in Ownership /\ Exact(pending) /\ Moving(pending)
      BY <1>0, <1>7, PendingCases DEF ReceiverRejects, OwnershipInv
    <2>2. /\ ownerOf' = pending.owner /\ tokensOf' = pending.tokens /\ tokenIndex' = pending.index
          /\ balanceOf' = pending.balance /\ approved' = pending.approved /\ pending' = Nothing
          /\ UNCHANGED <<totalSupply, maxSupply, operators, uriIndex, uriOf, nonceOf, signed, used>>
      BY <1>7 DEF ReceiverRejects, supply, uris, signatures
    <2>3. Now' \in Ownership /\ Exact(Now)'
      BY <2>1, <2>2 DEF Now, Ownership, Exact
    <2>4. TypeOK'
      BY <1>0, <2>2, <2>3 DEF TypeOK
    <2>5. Existing' = Existing
      BY <2>1, <2>2 DEF Moving, Existing, Exists, Account, Ownership
    <2>6. Idle' /\ UriSlotsDistinct' /\ \A u \in Token : ~Exists(u)' => uriIndex'[u] = 0
      BY <1>0, <2>2, <2>5 DEF Idle, UriSlotsDistinct, Existing, Exists
    <2> QED
      BY <2>2, <2>3, <2>4, <2>5, <2>6 DEF OwnershipInv
  <1>8. ASSUME NEW sender \in Account, NEW operator \in Address, NEW t \in Token,
               Approve(sender, operator, t)
        PROVE  OwnershipInv'
    <2>1. Idle /\ Exists(t) /\ Approved(operator, t) /\ UNCHANGED signatures
      BY <1>8 DEF Approve, CanApprove
    <2>2. nonceOf' \in [Address -> Nat] /\ signed' \subseteq Message /\ used' \subseteq Message
      BY <1>0, <2>1 DEF TypeOK, signatures
    <2> QED
      BY <2>1, <2>2, ApprovedKeepsOwnership
  <1>9. ASSUME NEW sender \in Account, NEW operator \in Account, NEW grant \in BOOLEAN,
               SetApprovalForAll(sender, operator, grant)
        PROVE  OwnershipInv'
    <2>1. TypeOK'
      BY <1>0, <1>9 DEF SetApprovalForAll, OperatorSet, TypeOK, ownership, supply, uris,
                        signatures, Account, Now
    <2> QED
      BY <1>9, <2>1, SameRecords DEF SetApprovalForAll, OperatorSet, supply
  <1>10. ASSUME NEW sender \in Account, NEW m \in signed, ApproveBySignature(sender, m)
         PROVE  OwnershipInv'
    <2>1. /\ m \in Message /\ nonceOf' \in [Address -> Nat]
          /\ signed' \subseteq Message /\ used' \subseteq Message
      BY <1>0, <1>10, VerifyTypes DEF ApproveBySignature
    <2>2. m.operator \in Address /\ m.token \in Token
      BY <1>10, <2>1 DEF ApproveBySignature, Message
    <2>3. Idle /\ Exists(m.token) /\ Approved(m.operator, m.token)
      BY <1>10 DEF ApproveBySignature, CanApprove
    <2> QED
      BY <2>1, <2>2, <2>3, ApprovedKeepsOwnership
  <1>11. ASSUME NEW m \in signed, SetApprovalForAllBySignature(m) PROVE OwnershipInv'
    <2>1. /\ m \in Message /\ nonceOf' \in [Address -> Nat]
          /\ signed' \subseteq Message /\ used' \subseteq Message
      BY <1>0, <1>11, VerifyTypes DEF SetApprovalForAllBySignature
    <2>2. m.operator \in Address /\ m.owner \in Address
      BY <2>1 DEF Message, Account
    <2>3. TypeOK'
      BY <1>0, <1>11, <2>1, <2>2
         DEF SetApprovalForAllBySignature, OperatorSet, TypeOK, ownership, supply, uris, Now
    <2> QED
      BY <1>11, <2>3, SameRecords DEF SetApprovalForAllBySignature, OperatorSet, supply
  <1>12. ASSUME NEW m \in signed, Lapse(m) PROVE OwnershipInv'
    <2>1. TypeOK'
      BY <1>0, <1>12 DEF Lapse, TypeOK, ownership, supply, uris, Now
    <2> QED
      BY <1>12, <2>1, SameRecords DEF Lapse, supply
  <1>13. ASSUME NEW m \in Signable, Sign(m) PROVE OwnershipInv'
    <2>1. TypeOK'
      BY <1>0, <1>13, AddressAssumption DEF AddressAssumption, Sign, Signable, Message, Account,
                        TypeOK, ownership, supply, uris, Now
    <2> QED
      BY <1>13, <2>1, SameRecords DEF Sign, supply
  <1>14. ASSUME NEW t \in Token, NEW uri \in Uri, maxSupply # 0, SetTokenURI(t, uri)
         PROVE  OwnershipInv'
    <2>1. /\ uriIndex' = [uriIndex EXCEPT ![t] = Len(uriOf)] /\ uriOf' = Append(uriOf, uri)
          /\ uriOf \in Seq(Uri) /\ uriIndex \in [Token -> Nat] /\ Exists(t)
      BY <1>0, <1>14 DEF SetTokenURI, TypeOK
    <2>2. /\ Len(uriOf) \in Nat /\ Append(uriOf, uri) \in Seq(Uri)
          /\ Len(Append(uriOf, uri)) = Len(uriOf) + 1
      BY <2>1
    <2>3. TypeOK'
      BY <1>0, <1>14, <2>1, <2>2 DEF SetTokenURI, TypeOK, ownership, supply, signatures, Now
    <2>4. UriSlotsDistinct'
      BY <1>0, <2>1, <2>2 DEF UriSlotsDistinct
    <2>5. Exact(Now)' /\ Existing' = Existing /\ Idle'
      BY <1>0, <1>14 DEF SetTokenURI, ownership, Now, Exact, Existing, Exists, Idle
    <2>6. \A u \in Token : ~Exists(u)' => uriIndex'[u] = 0
      BY <1>0, <2>1, <2>5 DEF Existing, Exists
    <2> QED
      BY <1>0, <1>14, <2>3, <2>4, <2>5, <2>6 DEF OwnershipInv, SetTokenURI, supply
  <1>15. CASE UNCHANGED vars
    <2>1. TypeOK'
      BY <1>0, <1>15 DEF vars, TypeOK, ownership, supply, uris, signatures, Now
    <2> QED
      BY <1>15, <2>1, SameRecords DEF vars, supply
  <1> QED
    BY <1>1, <1>2, <1>3, <1>5, <1>6, <1>7, <1>8, <1>9, <1>10, <1>11, <1>12, <1>13, <1>14, <1>15
       DEF Next

\* The variables of the token keep their types.
THEOREM Op721TypeCorrect == Spec => []TypeOK
  <1>1. OwnershipInv => TypeOK
    BY DEF OwnershipInv
  <1> QED
    BY <1>1, InitOwnership, StepOwnership, PTL DEF Spec

\* Records that agree enumerate the tokens of every owner exactly.
LEMMA ExactEnumerates == OwnershipInv => EnumerationExact
  <1> SUFFICES ASSUME OwnershipInv PROVE EnumerationExact
    OBVIOUS
  <1>1. /\ Enumerates(tokensOf, tokenIndex, ownerOf)
        /\ \A a \in Address : Len(tokensOf[a]) = balanceOf[a]
        /\ totalSupply = Cardinality({t \in Token : Exists(t)})
        /\ ownerOf \in [Token -> Address] /\ tokenIndex \in [Token -> Nat]
    BY DEF OwnershipInv, Exact, Now, Existing, TypeOK, Ownership
  <1>2. \A a \in Address : \A i \in 1..balanceOf[a] :
           ownerOf[tokensOf[a][i]] = a /\ tokenIndex[tokensOf[a][i]] = i - 1
    BY <1>1 DEF Enumerates
  <1>3. ASSUME NEW t \in Token, Exists(t)
        PROVE  \E i \in 1..balanceOf[ownerOf[t]] : tokensOf[ownerOf[t]][i] = t
    <2>1. /\ tokenIndex[t] + 1 \in 1..balanceOf[ownerOf[t]]
          /\ tokensOf[ownerOf[t]][tokenIndex[t] + 1] = t
      BY <1>1, <1>3 DEF Enumerates, Exists
    <2> QED
      BY <2>1
  <1> QED
    BY <1>1, <1>2, <1>3 DEF EnumerationExact

\* After any minting, burning and moving of any number of tokens, the list of an owner holds
\* exactly its tokens, each where its index says, and supply and balances count them.
THEOREM EnumerationStaysExact == Spec => []EnumerationExact
  BY ExactEnumerates, InitOwnership, StepOwnership, PTL DEF Spec

\* No token inherits the approval, the URI or the place of another, or of an earlier token
\* with its id, and no two tokens share a custom URI slot.
THEOREM RecordsStaySeparate == Spec => []RecordsAreSeparate
  <1>1. OwnershipInv => RecordsAreSeparate
    BY DEF OwnershipInv, RecordsAreSeparate, UnmintedIsBlank, Exact, Enumerates, Now, Exists
  <1> QED
    BY <1>1, InitOwnership, StepOwnership, PTL DEF Spec

-----------------------------------------------------------------------------
(* Signatures *)

\* The messages of an owner that have taken effect.
UsedOf(o) == {m \in used : m.owner = o}

\* Nonces count the messages used, and every message used has a nonce that is past.
NonceInv ==
    /\ TypeOK
    /\ EachSignatureUsedOnce
    /\ IsFiniteSet(used)
    /\ \A m \in used : m.nonce < nonceOf[m.owner]

\* Initially no message has been used.
LEMMA InitNonces == Init => NonceInv
  <1> SUFFICES ASSUME Init PROVE NonceInv
    OBVIOUS
  <1>1. TypeOK
    BY InitOwnership DEF OwnershipInv
  <1>2. used = {} /\ \A o \in Account : nonceOf[o] = 0
    BY DEF Init, Account
  <1>3. \A o \in Account : UsedOf(o) = {}
    BY <1>2 DEF UsedOf
  <1>4. EachSignatureUsedOnce
    BY <1>2, <1>3, FS_EmptySet DEF EachSignatureUsedOnce, UsedOf
  <1> QED
    BY <1>1, <1>2, <1>4, FS_EmptySet DEF NonceInv

\* A message that takes effect is counted, and its nonce is past from then on.
LEMMA UseAdvancesNonce ==
    ASSUME NonceInv, TypeOK', NEW m \in signed, VerifySignature(m)
    PROVE  NonceInv'
  <1>1. m \in Message /\ m.owner \in Account /\ m.owner \in Address /\ m.nonce \in Nat
    BY DEF NonceInv, TypeOK, Message, Account
  <1>2. /\ used' = used \cup {m} /\ m.nonce = nonceOf[m.owner]
        /\ nonceOf' = [nonceOf EXCEPT ![m.owner] = @ + 1]
    BY DEF VerifySignature
  <1>3. nonceOf \in [Address -> Nat] /\ Account \subseteq Address
    BY DEF NonceInv, TypeOK, Account
  <1>4. \A l \in used : l.owner \in Account /\ l.nonce \in Nat /\ l.nonce < nonceOf[l.owner]
    BY DEF NonceInv, TypeOK, Message
  <1>5. m \notin used
    BY <1>1, <1>2, <1>3, <1>4
  <1>6. IsFiniteSet(used')
    BY <1>2, FS_AddElement DEF NonceInv
  <1>7. ASSUME NEW o \in Account
        PROVE  nonceOf'[o] = Cardinality({l \in used' : l.owner = o})
    <2>1. nonceOf[o] = Cardinality(UsedOf(o))
      BY DEF NonceInv, EachSignatureUsedOnce, UsedOf
    <2>2. IsFiniteSet(UsedOf(o))
      BY FS_Subset DEF NonceInv, UsedOf
    <2>3. CASE o = m.owner
      <3>1. {l \in used' : l.owner = o} = UsedOf(o) \cup {m}
        BY <1>2, <2>3 DEF UsedOf
      <3>2. m \notin UsedOf(o)
        BY <1>5 DEF UsedOf
      <3>3. Cardinality(UsedOf(o) \cup {m}) = Cardinality(UsedOf(o)) + 1
        BY <2>2, <3>2, FS_AddElement
      <3>4. nonceOf'[o] = nonceOf[o] + 1
        BY <1>1, <1>2, <1>3, <2>3
      <3> QED
        BY <2>1, <3>1, <3>3, <3>4
    <2>4. CASE o # m.owner
      <3>1. {l \in used' : l.owner = o} = UsedOf(o)
        BY <1>2, <2>4 DEF UsedOf
      <3>2. nonceOf'[o] = nonceOf[o]
        BY <1>1, <1>2, <1>3, <2>4
      <3> QED
        BY <2>1, <3>1, <3>2
    <2> QED
      BY <2>3, <2>4
  <1>8. \A l \in used' : l.nonce < nonceOf'[l.owner]
    BY <1>1, <1>2, <1>3, <1>4
  <1>9. \A k, l \in used' : k.owner = l.owner /\ k.nonce = l.nonce => k = l
    <2>1. \A k, l \in used : k.owner = l.owner /\ k.nonce = l.nonce => k = l
      BY DEF NonceInv, EachSignatureUsedOnce
    <2>2. ASSUME NEW l \in used, l.owner = m.owner, l.nonce = m.nonce PROVE FALSE
      BY <1>1, <1>2, <1>3, <1>4, <2>2
    <2> QED
      BY <1>2, <2>1, <2>2
  <1>10. EachSignatureUsedOnce'
    BY <1>7, <1>9 DEF EachSignatureUsedOnce
  <1> QED
    BY <1>6, <1>8, <1>10 DEF NonceInv

\* Every action counts the messages used; approvals of both kinds share the nonce.
LEMMA StepNonces == NonceInv /\ TypeOK' /\ [Next]_vars => NonceInv'
  <1> SUFFICES ASSUME NonceInv, TypeOK', [Next]_vars PROVE NonceInv'
    OBVIOUS
  <1>1. ASSUME used' = used, nonceOf' = nonceOf PROVE NonceInv'
    BY <1>1 DEF NonceInv, EachSignatureUsedOnce
  <1>2. CASE \E m \in signed : VerifySignature(m)
    BY <1>2, UseAdvancesNonce
  <1>3. CASE ~ \E m \in signed : VerifySignature(m)
    <2>1. used' = used /\ nonceOf' = nonceOf
      BY <1>3
         DEF Next, vars, signatures, Instantiate, Mint, Burn, Transfer, SafeTransfer, Transferred,
             ReceiverAccepts, ReceiverRejects, Approve, SetApprovalForAll, ApproveBySignature,
             SetApprovalForAllBySignature, Lapse, Sign, SetTokenURI
    <2> QED
      BY <1>1, <2>1
  <1> QED
    BY <1>2, <1>3

\* A signed message acts at most once, however many are signed, lapse or are submitted again.
THEOREM Op721SignaturesActOnce == Spec => []EachSignatureUsedOnce
  <1>1. NonceInv => EachSignatureUsedOnce
    BY DEF NonceInv
  <1> QED
    BY <1>1, InitNonces, StepNonces, Op721TypeCorrect, PTL DEF Spec

-----------------------------------------------------------------------------
(* The token is a registry *)

\* What the outside sees of owners and approvals.
SeenOwner == IF Idle THEN ownerOf ELSE pending.owner
SeenSpender == IF Idle THEN approved ELSE pending.approved

\* The token starts as an empty registry.
LEMMA InitRegistry == Init => Registry!Init
  BY DEF Init, Registry!Init, Idle

\* Every step is a step of the registry, or unseen.
LEMMA StepImplementsRegistry == OwnershipInv /\ [Next]_vars => [Registry!Next]_Registry!rvars
  <1> SUFFICES ASSUME OwnershipInv, [Next]_vars PROVE [Registry!Next]_Registry!rvars
    OBVIOUS
  <1>0. TypeOK /\ OwnershipInv'
    BY StepOwnership DEF OwnershipInv
  <1>a. ASSUME SeenOwner' = SeenOwner, SeenSpender' = SeenSpender
        PROVE  [Registry!Next]_Registry!rvars
    BY <1>a DEF SeenOwner, SeenSpender, Registry!rvars
  <1>b. ASSUME ownerOf' = ownerOf, approved' = approved, pending' = pending
        PROVE  [Registry!Next]_Registry!rvars
    BY <1>a, <1>b DEF SeenOwner, SeenSpender, Idle
  <1>c. ASSUME Idle PROVE SeenOwner = ownerOf /\ SeenSpender = approved
    BY <1>c DEF SeenOwner, SeenSpender
  <1>d. ASSUME Idle' PROVE SeenOwner' = ownerOf' /\ SeenSpender' = approved'
    BY <1>d DEF SeenOwner, SeenSpender
  <1>1. ASSUME NEW to \in Address, NEW t \in Token, Mint(to, t)
        PROVE  [Registry!Next]_Registry!rvars
    <2>1. Idle /\ Idle' /\ to \in Account /\ ownerOf[t] = Zero
      BY <1>1 DEF Mint, Idle, Account, Exists
    <2>2. SeenOwner' = [SeenOwner EXCEPT ![t] = to] /\ SeenOwner[t] = Zero
      BY <1>1, <1>c, <1>d, <2>1 DEF Mint
    <2>3. approved[t] = Zero /\ approved \in [Token -> Address]
      BY <1>0, <2>1 DEF OwnershipInv, Exact, Now, TypeOK, Ownership
    <2>4. SeenSpender' = [SeenSpender EXCEPT ![t] = Zero]
      BY <1>1, <1>c, <1>d, <2>1, <2>3 DEF Mint
    <2>5. Registry!Mint(t)
      BY <2>1, <2>2, <2>4 DEF Registry!Mint, Registry!Give, SeenOwner, SeenSpender
    <2> QED
      BY <2>5 DEF Registry!Next
  <1>2. ASSUME NEW sender \in Account, NEW t \in Token, Burn(sender, t)
        PROVE  [Registry!Next]_Registry!rvars
    <2>1. Idle /\ Idle' /\ ownerOf[t] # Zero
      BY <1>2 DEF Burn, Idle, Exists
    <2>2. /\ SeenOwner' = [SeenOwner EXCEPT ![t] = Zero] /\ SeenOwner[t] # Zero
          /\ SeenSpender' = [SeenSpender EXCEPT ![t] = Zero]
      BY <1>2, <1>c, <1>d, <2>1 DEF Burn, Cleared
    <2>3. Registry!Burn(t)
      BY <2>2 DEF Registry!Burn, Registry!Give, SeenOwner, SeenSpender
    <2> QED
      BY <2>3 DEF Registry!Next
  <1>3. ASSUME NEW t \in Token, NEW to \in Account, SeenOwner[t] # Zero,
               SeenOwner' = [SeenOwner EXCEPT ![t] = to],
               SeenSpender' = [SeenSpender EXCEPT ![t] = Zero]
        PROVE  [Registry!Next]_Registry!rvars
    <2>1. Registry!Move(t)
      BY <1>3 DEF Registry!Move, Registry!Give, SeenOwner, SeenSpender
    <2> QED
      BY <2>1 DEF Registry!Next
  <1>4. ASSUME NEW sender \in Account, NEW from \in Address, NEW to \in Address,
               NEW t \in Token, Transfer(sender, from, to, t) \/ SafeTransfer(sender, from, to, t)
        PROVE  [Registry!Next]_Registry!rvars
    <2>1. /\ Idle /\ to \in Account /\ ownerOf[t] # Zero
          /\ ownerOf' = [ownerOf EXCEPT ![t] = to]
          /\ approved' = [approved EXCEPT ![t] = Zero]
          /\ pending' = Nothing \/ pending' = Now
      BY <1>4 DEF Transfer, SafeTransfer, Transferred, Cleared, Idle, Account
    <2>2. CASE Idle'
      BY <1>3, <1>c, <1>d, <2>1, <2>2
    <2>3. CASE ~Idle'
      <3>1. pending' = Now
        BY <2>1, <2>3 DEF Idle
      <3>2. SeenOwner' = ownerOf /\ SeenSpender' = approved
        BY <2>3, <3>1 DEF SeenOwner, SeenSpender, Now
      <3> QED
        BY <1>a, <1>c, <2>1, <3>2
    <2> QED
      BY <2>2, <2>3
  <1>5. CASE ReceiverAccepts
    <2>1. ~Idle /\ Idle' /\ ownerOf' = ownerOf /\ approved' = approved /\ Moving(pending)
      BY <1>5 DEF ReceiverAccepts, Idle, ownership, OwnershipInv
    <2>2. SeenOwner = pending.owner /\ SeenSpender = pending.approved
      BY <2>1 DEF SeenOwner, SeenSpender
    <2>3. PICK t \in Token, to \in Account :
             /\ pending.owner[t] # Zero
             /\ ownerOf = [pending.owner EXCEPT ![t] = to]
             /\ approved = [pending.approved EXCEPT ![t] = Zero]
      BY <2>1 DEF Moving
    <2> QED
      BY <1>3, <1>d, <2>1, <2>2, <2>3
  <1>6. CASE ReceiverRejects
    <2>1. ~Idle /\ Idle' /\ ownerOf' = pending.owner /\ approved' = pending.approved
      BY <1>6 DEF ReceiverRejects, Idle
    <2>2. SeenOwner = pending.owner /\ SeenSpender = pending.approved
      BY <2>1 DEF SeenOwner, SeenSpender
    <2> QED
      BY <1>a, <1>d, <2>1, <2>2
  <1>7. ASSUME Idle, NEW operator \in Address, NEW t \in Token, NEW sender,
               CanApprove(sender, operator, t), Approved(operator, t)
        PROVE  [Registry!Next]_Registry!rvars
    <2>1. /\ Idle' /\ operator \in Account /\ ownerOf[t] \notin {Zero, operator}
          /\ ownerOf' = ownerOf /\ approved' = [approved EXCEPT ![t] = operator]
      BY <1>7 DEF CanApprove, Approved, Exists, Idle, Account
    <2>2. /\ SeenOwner[t] \notin {Zero, operator} /\ SeenOwner' = SeenOwner
          /\ SeenSpender' = [SeenSpender EXCEPT ![t] = operator]
      BY <1>7, <1>c, <1>d, <2>1
    <2>3. Registry!Approve(t, operator)
      BY <2>2 DEF Registry!Approve, SeenOwner, SeenSpender
    <2> QED
      BY <2>1, <2>3 DEF Registry!Next
  <1>8. ASSUME NEW sender \in Account, NEW operator \in Address, NEW t \in Token,
               Approve(sender, operator, t)
        PROVE  [Registry!Next]_Registry!rvars
    BY <1>7, <1>8 DEF Approve
  <1>9. ASSUME NEW sender \in Account, NEW m \in signed, ApproveBySignature(sender, m)
        PROVE  [Registry!Next]_Registry!rvars
    <2>1. m \in Message /\ m.kind = "approve"
      BY <1>0, <1>9 DEF TypeOK, ApproveBySignature
    <2>2. m.operator \in Address /\ m.token \in Token
      BY <2>1 DEF Message
    <2> QED
      BY <1>7, <1>9, <2>2 DEF ApproveBySignature
  <1>10. ASSUME NEW max \in 1..Cardinality(Token), Instantiate(max)
         PROVE  [Registry!Next]_Registry!rvars
    BY <1>b, <1>10 DEF Instantiate, ownership
  <1>11. ASSUME NEW sender \in Account, NEW operator \in Account, NEW grant \in BOOLEAN,
                SetApprovalForAll(sender, operator, grant)
         PROVE  [Registry!Next]_Registry!rvars
    BY <1>b, <1>11 DEF SetApprovalForAll, OperatorSet, ownership
  <1>12. ASSUME NEW m \in signed, SetApprovalForAllBySignature(m) \/ Lapse(m)
         PROVE  [Registry!Next]_Registry!rvars
    BY <1>b, <1>12 DEF SetApprovalForAllBySignature, OperatorSet, Lapse, ownership
  <1>13. ASSUME NEW m \in Signable, Sign(m) PROVE [Registry!Next]_Registry!rvars
    BY <1>b, <1>13 DEF Sign, ownership
  <1>14. ASSUME NEW t \in Token, NEW uri \in Uri, SetTokenURI(t, uri)
         PROVE  [Registry!Next]_Registry!rvars
    BY <1>b, <1>14 DEF SetTokenURI, ownership
  <1>15. CASE UNCHANGED vars
    BY <1>b, <1>15 DEF vars, ownership
  <1> QED
    BY <1>1, <1>2, <1>4, <1>5, <1>6, <1>8, <1>9, <1>10, <1>11, <1>12, <1>13, <1>14, <1>15
       DEF Next

\* Seen from outside its transactions, the token is the abstract registry: a safe transfer
\* happens when its receiver accepts, all of it, or not at all.
THEOREM TokenIsARegistry == Spec => ImplementsTokenRegistry
  BY InitOwnership, StepOwnership, InitRegistry, StepImplementsRegistry, PTL
     DEF Spec, ImplementsTokenRegistry, Registry!Spec
===============================================================================

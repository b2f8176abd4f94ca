----------------------------- MODULE OP20_proofs ------------------------------
(***************************************************************************)
(* For every set of addresses, every limit of the amounts and any number   *)
(* of signed messages: the token of OP20 keeps its types, its spenders     *)
(* stay within what they were granted, a signed message acts at most once, *)
(* the balances add up to the supply, and seen from outside the token is   *)
(* the ledger of TokenLedger.                                              *)
(***************************************************************************)
EXTENDS OP20, FiniteSetTheorems, WellFoundedInduction, TLAPS

(* Sums over finite sets.                                                  *)
(* The sum is a fold; what it is for every set of addresses is shown       *)
(* without an induction theorem, by a smallest counterexample.             *)

\* The element the fold takes first.
Pick(s) == CHOOSE x \in s : TRUE
\* The sums of f over the subsets of S, as the fold computes them.
IsSumOf(g, f, S) ==
    g = [s \in SUBSET S |-> IF s = {} THEN 0 ELSE f[Pick(s)] + g[s \ {Pick(s)}]]

\* FoldFunction is such a sum.
LEMMA FoldIsSum ==
    ASSUME NEW f
    PROVE  FoldFunction(+, 0, f) = (CHOOSE g : IsSumOf(g, f, DOMAIN f))[DOMAIN f]
  BY DEF FoldFunction, FoldFunctionOnSet, MapThenFoldSet, IsSumOf, Pick

\* Among subsets of a finite set there is one without a smaller one.
LEMMA SmallestSet ==
    ASSUME NEW S, IsFiniteSet(S), NEW B, B \subseteq SUBSET S, B # {}
    PROVE  \E T \in B : \A U \in B : U \subseteq T => U = T
  <1>1. IsWellFoundedOn(StrictSubsetOrdering(S), SUBSET S)
    BY FS_StrictSubsetOrderingWellFounded, FS_FiniteSubsetsOfFinite
  <1>2. \E T \in B : \A U \in B : ~(<<U, T>> \in StrictSubsetOrdering(S))
    BY <1>1, WFMin
  <1> QED
    BY <1>2 DEF StrictSubsetOrdering

\* Two sums of the same function agree on the sets that both are defined for.
LEMMA SumsAgree ==
    ASSUME NEW f, NEW S, IsFiniteSet(S), NEW U \in SUBSET S, NEW V \in SUBSET S,
           NEW g, NEW h, IsSumOf(g, f, U), IsSumOf(h, f, V)
    PROVE  \A s \in SUBSET S : s \subseteq U /\ s \subseteq V => g[s] = h[s]
  <1> DEFINE B == {s \in SUBSET S : s \subseteq U /\ s \subseteq V /\ g[s] # h[s]}
  <1>1. ASSUME B # {} PROVE FALSE
    <2>1. PICK T \in B : \A W \in B : W \subseteq T => W = T
      <3> HIDE DEF B
      <3>1. B \subseteq SUBSET S
        BY DEF B
      <3> QED
        BY <1>1, <3>1, SmallestSet
    <2>2. /\ g[T] = IF T = {} THEN 0 ELSE f[Pick(T)] + g[T \ {Pick(T)}]
          /\ h[T] = IF T = {} THEN 0 ELSE f[Pick(T)] + h[T \ {Pick(T)}]
      BY DEF IsSumOf
    <2>3. T # {}
      BY <2>2
    <2>4. Pick(T) \in T
      BY <2>3 DEF Pick
    <2>5. T \ {Pick(T)} \notin B
      BY <2>1, <2>4
    <2>6. g[T \ {Pick(T)}] = h[T \ {Pick(T)}]
      BY <2>5
    <2> QED
      BY <2>2, <2>6
  <1> QED
    BY <1>1

\* Every function has a sum over the subsets of a finite set.
LEMMA SumExists ==
    ASSUME NEW f, NEW S, IsFiniteSet(S)
    PROVE  \E g : IsSumOf(g, f, S)
  <1> DEFINE B == {s \in SUBSET S : ~\E g : IsSumOf(g, f, s)}
  <1>1. ASSUME B # {} PROVE FALSE
    <2>1. PICK T \in B : \A W \in B : W \subseteq T => W = T
      <3> HIDE DEF B
      <3>1. B \subseteq SUBSET S
        BY DEF B
      <3> QED
        BY <1>1, <3>1, SmallestSet
    <2> DEFINE sum(s) == CHOOSE g : IsSumOf(g, f, s)
               value(s) == IF s = {} THEN 0
                           ELSE f[Pick(s)] + sum(s \ {Pick(s)})[s \ {Pick(s)}]
               g == [s \in SUBSET T |-> value(s)]
    <2>2. ASSUME NEW s \in SUBSET T, s # T PROVE IsSumOf(sum(s), f, s)
      <3>1. \E h : IsSumOf(h, f, s)
        BY <2>1, <2>2
      <3> QED
        BY <3>1
    <2>3. ASSUME NEW s \in SUBSET T, s # {}
          PROVE  Pick(s) \in s /\ s \ {Pick(s)} \in SUBSET T /\ s \ {Pick(s)} # T
      BY <2>3 DEF Pick
    <2>4. ASSUME NEW s \in SUBSET T, s # T PROVE sum(s)[s] = value(s)
      <3> HIDE DEF sum
      <3>1. IsSumOf(sum(s), f, s)
        BY <2>2, <2>4
      <3>2. sum(s)[s] = IF s = {} THEN 0 ELSE f[Pick(s)] + sum(s)[s \ {Pick(s)}]
        BY <3>1 DEF IsSumOf
      <3>3. CASE s # {}
        <4> DEFINE r == s \ {Pick(s)}
        <4>1. r \in SUBSET T /\ r # T /\ r \subseteq s
          BY <2>3, <3>3
        <4>2. IsSumOf(sum(r), f, r)
          BY <2>2, <4>1
        <4> HIDE DEF r
        <4>3. sum(s)[r] = sum(r)[r]
          BY <2>1, <3>1, <4>1, <4>2, SumsAgree
        <4> QED
          BY <3>2, <3>3, <4>3 DEF r
      <3>4. CASE s = {}
        BY <3>2, <3>4
      <3> QED
        BY <3>3, <3>4
    <2>5. ASSUME NEW s \in SUBSET T
          PROVE  g[s] = IF s = {} THEN 0 ELSE f[Pick(s)] + g[s \ {Pick(s)}]
      <3> HIDE DEF sum
      <3>1. CASE s # {}
        <4> DEFINE r == s \ {Pick(s)}
        <4>1. r \in SUBSET T /\ r # T
          BY <2>3, <3>1
        <4>2. g[r] = value(r)
          BY <4>1
        <4>3. sum(r)[r] = value(r)
          BY <2>4, <4>1
        <4>4. g[s] = f[Pick(s)] + sum(r)[r]
          BY <3>1
        <4> QED
          BY <3>1, <4>2, <4>3, <4>4
      <3>2. CASE s = {}
        BY <3>2
      <3> QED
        BY <3>1, <3>2
    <2>6. IsSumOf(g, f, T)
      <3> HIDE DEF value
      <3>1. g = [s \in SUBSET T |-> g[s]]
        OBVIOUS
      <3> HIDE DEF g
      <3> QED
        BY <2>5, <3>1 DEF IsSumOf
    <2> QED
      BY <2>6
  <1> QED
    BY <1>1

\* The sum over a finite set.
SumOver(f, S) == (CHOOSE g : IsSumOf(g, f, S))[S]

\* It is computed by the recursion.
LEMMA SumRecursion ==
    ASSUME NEW f, NEW S, IsFiniteSet(S)
    PROVE  \E g : IsSumOf(g, f, S) /\ SumOver(f, S) = g[S]
  BY SumExists DEF SumOver

\* A sum of natural numbers is one, and changing one of them changes the sum by as much.
SumFollowsItsTerms(S) ==
    \A f \in [S -> Nat], a \in S, v \in Nat : \A e :
        e = [f EXCEPT ![a] = v]
        => /\ SumOver(f, S) \in Nat /\ f[a] \in Nat
           /\ SumOver(e, S) = SumOver(f, S) - f[a] + v

\* It does over every finite set.
LEMMA SumChanges == ASSUME NEW S, IsFiniteSet(S) PROVE SumFollowsItsTerms(S)
  <1> SUFFICES ASSUME NEW f \in [S -> Nat], NEW a \in S, NEW v \in Nat,
                      NEW e, e = [f EXCEPT ![a] = v]
               PROVE  /\ SumOver(f, S) \in Nat /\ f[a] \in Nat
                      /\ SumOver(e, S) = SumOver(f, S) - f[a] + v
    BY Zenon DEF SumFollowsItsTerms
  <1>1. PICK g : IsSumOf(g, f, S) /\ SumOver(f, S) = g[S]
    BY SumRecursion
  <1>2. PICK h : IsSumOf(h, e, S) /\ SumOver(e, S) = h[S]
    BY SumRecursion
  <1>3. e \in [S -> Nat] /\ e[a] = v /\ \A b \in S : b # a => e[b] = f[b]
    OBVIOUS
  <1> DEFINE Right(s) == /\ g[s] \in Nat /\ h[s] \in Nat
                         /\ a \in s => f[a] <= g[s] /\ h[s] = g[s] - f[a] + v
                         /\ a \notin s => h[s] = g[s]
             B == {s \in SUBSET S : ~Right(s)}
  <1>4. ASSUME B # {} PROVE FALSE
    <2>1. PICK T \in B : \A W \in B : W \subseteq T => W = T
      <3> HIDE DEF B
      <3>1. B \subseteq SUBSET S
        BY DEF B
      <3> QED
        BY <1>4, <3>1, SmallestSet
    <2>2. /\ g[T] = IF T = {} THEN 0 ELSE f[Pick(T)] + g[T \ {Pick(T)}]
          /\ h[T] = IF T = {} THEN 0 ELSE e[Pick(T)] + h[T \ {Pick(T)}]
      BY <1>1, <1>2 DEF IsSumOf
    <2>3. T # {}
      BY <2>2
    <2> DEFINE p == Pick(T)
               r == T \ {p}
    <2>4. p \in T /\ p \in S /\ r \in SUBSET S /\ r \subseteq T /\ r # T
      BY <2>3 DEF Pick
    <2>5. Right(r)
      BY <2>1, <2>4
    <2>6. g[T] = f[p] + g[r] /\ h[T] = e[p] + h[r]
      BY <2>2, <2>3
    <2>7. p # a => (a \in T <=> a \in r)
      OBVIOUS
    <2>8. p = a => a \in T /\ a \notin r
      BY <2>4
    <2>9. f[p] \in Nat /\ e[p] \in Nat /\ f[a] \in Nat
      BY <1>3, <2>4
    <2> HIDE DEF p, r
    <2>10. Right(T)
      <3>1. CASE p = a
        BY <1>3, <2>5, <2>6, <2>8, <2>9, <3>1
      <3>2. CASE p # a
        BY <1>3, <2>4, <2>5, <2>6, <2>7, <2>9, <3>2
      <3> QED
        BY <3>1, <3>2
    <2> QED
      BY <2>10
  <1>5. Right(S)
    BY <1>4
  <1> QED
    BY <1>1, <1>2, <1>5

\* The sum of zeros is zero.
LEMMA SumOfZeros ==
    ASSUME NEW S, IsFiniteSet(S)
    PROVE  SumOver([a \in S |-> 0], S) = 0
  <1> DEFINE f == [a \in S |-> 0]
  <1>1. PICK g : IsSumOf(g, f, S) /\ SumOver(f, S) = g[S]
    BY SumRecursion
  <1> DEFINE B == {s \in SUBSET S : g[s] # 0}
  <1>2. ASSUME B # {} PROVE FALSE
    <2>1. PICK T \in B : \A W \in B : W \subseteq T => W = T
      <3> HIDE DEF B
      <3>1. B \subseteq SUBSET S
        BY DEF B
      <3> QED
        BY <1>2, <3>1, SmallestSet
    <2>2. g[T] = IF T = {} THEN 0 ELSE f[Pick(T)] + g[T \ {Pick(T)}]
      BY <1>1 DEF IsSumOf
    <2>3. T # {}
      BY <2>2
    <2>4. Pick(T) \in T /\ f[Pick(T)] = 0
      BY <2>3 DEF Pick
    <2>5. g[T \ {Pick(T)}] = 0
      BY <2>1, <2>4
    <2> QED
      BY <2>2, <2>3, <2>4, <2>5
  <1> QED
    BY <1>1, <1>2
-----------------------------------------------------------------------------
(* The token *)

USE AddressAssumption, AmountAssumption
    DEF AddressAssumption, AmountAssumption, Amount, Account

\* Every spender is within its grant, with the given allowances and expenses.
WithinGrant(allowances, expenses) ==
    \A o, s \in Address :
        granted[o][s] < MaxU256 => allowances[o][s] + expenses[o][s] <= granted[o][s]

\* What the host restores when a receiver refuses is within the grants as well.
GrantInv ==
    /\ TypeOK
    /\ AllowanceWithinGrant
    /\ pending.active => WithinGrant(pending.allowances, pending.spent)

\* The messages of an owner that have taken effect.
UsedOf(o) == {m \in used : m.owner = o}

\* Nonces count the messages used, and every message used has a nonce that is past.
NonceInv ==
    /\ TypeOK
    /\ EachSignatureUsedOnce
    /\ IsFiniteSet(used)
    /\ \A m \in used : m.nonce < nonceOf[m.owner]

-----------------------------------------------------------------------------
(* What the operators of the token return. *)

\* While no receiver runs, nothing is there to restore.
LEMMA PendingCases ==
    ASSUME TypeOK
    PROVE  /\ Idle <=> ~pending.active
           /\ ~Idle => pending \in Pending
  <1>1. CASE pending \in Pending
    <2>1. pending.active
      BY <1>1 DEF Pending
    <2> QED
      BY <1>1, <2>1 DEF Idle, None
  <1>2. CASE pending = None
    BY <1>2 DEF Idle, None
  <1> QED
    BY <1>1, <1>2 DEF TypeOK

\* Amounts moved are amounts.
LEMMA MovedIsAmounts ==
    ASSUME TypeOK, NEW from \in Address, NEW to \in Address, NEW n \in Amount,
           CanMove(from, to, n)
    PROVE  Moved(from, to, n) \in [Address -> Amount]
  <1>1. balanceOf[from] - n \in Amount
    BY DEF TypeOK, CanMove
  <1>2. [balanceOf EXCEPT ![from] = @ - n] \in [Address -> Amount]
    BY <1>1 DEF TypeOK
  <1>3. Moved(from, to, n)[to] = [balanceOf EXCEPT ![from] = @ - n][to] + n
    BY <1>2 DEF Moved
  <1> QED
    BY <1>2, <1>3 DEF CanMove, Moved

\* What a spender has left, and what it has spent, are amounts.
LEMMA SpendingIsAmounts ==
    ASSUME TypeOK, NEW o \in Address, NEW s \in Address, NEW n \in Amount, MaySpend(o, s, n)
    PROVE  /\ AllowanceAfter(o, s, n) \in [Address -> [Address -> Amount]]
           /\ SpentAfter(o, s, n) \in [Address -> [Address -> Amount]]
  BY DEF TypeOK, MaySpend, AllowanceAfter, SpentAfter, Charged

\* An increase adds, up to the maximum.
LEMMA IncreaseSaturates ==
    ASSUME NEW p \in Amount, NEW n \in Amount
    PROVE  Increased(p, n) = IF p + n > MaxU256 THEN MaxU256 ELSE p + n
  <1>1. CASE p + n <= MaxU256
    <2>1. (p + n) % (MaxU256 + 1) = p + n
      BY <1>1, SMT
    <2> QED
      BY <1>1, <2>1 DEF Increased, Wrapped
  <1>2. CASE p + n > MaxU256
    <2>1. (p + n) % (MaxU256 + 1) = p + n - (MaxU256 + 1)
      BY <1>2, SMT
    <2> QED
      BY <1>2, <2>1 DEF Increased, Wrapped
  <1> QED
    BY <1>1, <1>2

\* A decrease subtracts, down to zero.
LEMMA DecreaseIsAmount ==
    ASSUME NEW p \in Amount, NEW n \in Amount
    PROVE  Decreased(p, n) \in Amount /\ Decreased(p, n) <= p
  BY DEF Decreased

\* A change of an allowance keeps the types.
LEMMA ChangeIsAmounts ==
    ASSUME TypeOK, NEW kind \in {"increase", "decrease"},
           NEW o \in Address, NEW s \in Address, NEW n \in Amount,
           AllowanceChange(kind, o, s, n)
    PROVE  /\ allowance' \in [Address -> [Address -> Amount]]
           /\ granted' \in [Address -> [Address -> Amount]]
  <1>1. allowance[o][s] \in Amount /\ granted[o][s] \in Amount
    BY DEF TypeOK
  <1>2. Increased(allowance[o][s], n) \in Amount
    BY <1>1, IncreaseSaturates
  <1>3. Decreased(allowance[o][s], n) \in Amount
    BY <1>1, DecreaseIsAmount
  <1> QED
    BY <1>1, <1>2, <1>3 DEF AllowanceChange, TypeOK

-----------------------------------------------------------------------------
(* Types *)

\* The initial state has the types.
LEMMA InitTypes == Init => TypeOK
  BY DEF Init, TypeOK, ZeroMap

\* Every action keeps the types.
LEMMA StepTypes == TypeOK /\ [Next]_vars => TypeOK'
  <1> SUFFICES ASSUME TypeOK, [Next]_vars PROVE TypeOK'
    OBVIOUS
  <1> USE DEF token, world, history
  <1>1. ASSUME NEW max \in Amount, Instantiate(Deployer, max) PROVE TypeOK'
    BY <1>1 DEF Instantiate, TypeOK
  <1>2. ASSUME NEW sender \in Account, NEW from \in Address, NEW to \in Address,
               NEW n \in Amount, Transfer(sender, from, to, n)
        PROVE  TypeOK'
    <2>1. balanceOf' \in [Address -> Amount]
      BY <1>2, MovedIsAmounts DEF Transfer
    <2>2. /\ allowance' \in [Address -> [Address -> Amount]]
          /\ spent' \in [Address -> [Address -> Amount]]
      BY <1>2, SpendingIsAmounts DEF Transfer
    <2> QED
      BY <1>2, <2>1, <2>2 DEF Transfer, TypeOK
  <1>3. ASSUME NEW sender \in Account, NEW from \in Address, NEW to \in Address,
               NEW n \in Amount, SafeTransfer(sender, from, to, n)
        PROVE  TypeOK'
    <2>1. balanceOf' \in [Address -> Amount]
      BY <1>3, MovedIsAmounts DEF SafeTransfer
    <2>2. /\ allowance' \in [Address -> [Address -> Amount]]
          /\ spent' \in [Address -> [Address -> Amount]]
      BY <1>3, SpendingIsAmounts DEF SafeTransfer
    <2>3. to \in Account
      BY <1>3 DEF SafeTransfer, CanMove
    <2>4. pending' \in Pending \cup {None}
      BY <1>3, <2>3 DEF SafeTransfer, TypeOK, Pending
    <2> QED
      BY <1>3, <2>1, <2>2, <2>4 DEF SafeTransfer, TypeOK
  <1>4. CASE ReceiverAccepts
    BY <1>4 DEF ReceiverAccepts, TypeOK
  <1>5. CASE ReceiverRejects
    <2>1. pending \in Pending
      BY <1>5, PendingCases DEF ReceiverRejects
    <2> QED
      BY <1>5, <2>1 DEF ReceiverRejects, TypeOK, Pending
  <1>6. ASSUME NEW kind \in {"increase", "decrease"}, NEW sender \in Account,
               NEW spender \in Spenders, NEW n \in Amount,
               ChangeAllowance(kind, sender, spender, n)
        PROVE  TypeOK'
    <2>1. /\ allowance' \in [Address -> [Address -> Amount]]
          /\ granted' \in [Address -> [Address -> Amount]]
      BY <1>6, ChangeIsAmounts DEF ChangeAllowance
    <2> QED
      BY <1>6, <2>1 DEF ChangeAllowance, TypeOK
  <1>7. ASSUME NEW m \in signed, ChangeBySignature(m) PROVE TypeOK'
    <2>1. m \in Message
      BY DEF TypeOK
    <2>2. /\ allowance' \in [Address -> [Address -> Amount]]
          /\ granted' \in [Address -> [Address -> Amount]]
      BY <1>7, <2>1, ChangeIsAmounts DEF ChangeBySignature, Message
    <2>3. nonceOf' \in [Address -> Nat]
      BY <1>7, <2>1 DEF ChangeBySignature, Message, TypeOK
    <2> QED
      BY <1>7, <2>1, <2>2, <2>3 DEF ChangeBySignature, TypeOK
  <1>8. ASSUME NEW to \in Address, NEW n \in Amount, Mint(to, n) PROVE TypeOK'
    BY <1>8 DEF Mint, Minted, TypeOK
  <1>9. ASSUME NEW from \in Address, NEW n \in Amount, Burn(from, n) PROVE TypeOK'
    BY <1>9 DEF Burn, TypeOK
  <1>10. ASSUME NEW m \in SignableMessages, Sign(m) PROVE TypeOK'
    <2>1. m \in Message
      BY DEF SignableMessages, Message
    <2> QED
      BY <1>10, <2>1 DEF Sign, TypeOK
  <1>11. CASE NewBlock
    BY <1>11 DEF NewBlock, TypeOK
  <1>12. CASE QuantumTransition
    BY <1>12 DEF QuantumTransition, TypeOK
  <1>13. CASE UNCHANGED vars
    BY <1>13 DEF vars, TypeOK
  <1> QED
    BY <1>1, <1>2, <1>3, <1>4, <1>5, <1>6, <1>7, <1>8, <1>9, <1>10, <1>11, <1>12, <1>13
       DEF Next

\* The variables of the token keep their types.
THEOREM TokenTypeCorrect == Spec => []TypeOK
  BY InitTypes, StepTypes, PTL DEF Spec

-----------------------------------------------------------------------------
(* Allowances *)

\* Initially nothing is granted.
LEMMA InitGrant == Init => GrantInv
  <1> SUFFICES ASSUME Init PROVE GrantInv
    OBVIOUS
  <1>1. TypeOK
    BY InitTypes
  <1>2. ~pending.active
    BY DEF Init, None
  <1>3. AllowanceWithinGrant
    BY DEF Init, ZeroMap, AllowanceWithinGrant
  <1> QED
    BY <1>1, <1>2, <1>3 DEF GrantInv

\* What is taken from an allowance is added to what was spent.
LEMMA SpendingStaysWithinGrant ==
    ASSUME TypeOK, AllowanceWithinGrant,
           NEW o \in Address, NEW s \in Address, NEW n \in Amount, MaySpend(o, s, n)
    PROVE  WithinGrant(AllowanceAfter(o, s, n), SpentAfter(o, s, n))
  <1> SUFFICES ASSUME NEW p \in Address, NEW q \in Address, granted[p][q] < MaxU256
               PROVE  AllowanceAfter(o, s, n)[p][q] + SpentAfter(o, s, n)[p][q] <= granted[p][q]
    BY DEF WithinGrant
  <1>1. /\ allowance[p][q] \in Amount /\ spent[p][q] \in Amount /\ granted[p][q] \in Amount
        /\ allowance[p][q] + spent[p][q] <= granted[p][q]
    BY DEF TypeOK, AllowanceWithinGrant
  <1>2. CASE Charged(o, s) /\ p = o /\ q = s
    <2>1. AllowanceAfter(o, s, n)[p][q] = allowance[p][q] - n
      BY <1>2 DEF AllowanceAfter, TypeOK
    <2>2. SpentAfter(o, s, n)[p][q] = IF spent[p][q] + n > MaxU256 THEN MaxU256 ELSE spent[p][q] + n
      BY <1>2 DEF SpentAfter, TypeOK
    <2>3. n <= allowance[p][q]
      BY <1>2 DEF MaySpend
    <2> QED
      BY <1>1, <2>1, <2>2, <2>3
  <1>3. CASE ~(Charged(o, s) /\ p = o /\ q = s)
    <2>1. AllowanceAfter(o, s, n)[p][q] = allowance[p][q]
      BY <1>3 DEF AllowanceAfter, TypeOK
    <2>2. SpentAfter(o, s, n)[p][q] = spent[p][q]
      BY <1>3 DEF SpentAfter, TypeOK
    <2> QED
      BY <1>1, <2>1, <2>2
  <1> QED
    BY <1>2, <1>3

\* An increase raises allowance and grant by the same, and a decrease only the allowance.
LEMMA ChangeStaysWithinGrant ==
    ASSUME TypeOK, AllowanceWithinGrant, NEW kind \in {"increase", "decrease"},
           NEW o \in Address, NEW s \in Address, NEW n \in Amount,
           AllowanceChange(kind, o, s, n), spent' = spent
    PROVE  AllowanceWithinGrant'
  <1> SUFFICES ASSUME NEW p \in Address, NEW q \in Address, granted'[p][q] < MaxU256
               PROVE  allowance'[p][q] + spent'[p][q] <= granted'[p][q]
    BY DEF AllowanceWithinGrant
  <1>1. /\ allowance[p][q] \in Amount /\ spent[p][q] \in Amount /\ granted[p][q] \in Amount
        /\ granted[p][q] < MaxU256 => allowance[p][q] + spent[p][q] <= granted[p][q]
    BY DEF TypeOK, AllowanceWithinGrant
  <1>2. CASE kind = "increase" /\ p = o /\ q = s
    <2>1. allowance'[p][q] = Increased(allowance[p][q], n)
      BY <1>2 DEF AllowanceChange, TypeOK
    <2>2. granted'[p][q] =
             IF granted[p][q] + n > MaxU256 THEN MaxU256 ELSE granted[p][q] + n
      BY <1>2 DEF AllowanceChange, TypeOK
    <2>3. Increased(allowance[p][q], n) =
             IF allowance[p][q] + n > MaxU256 THEN MaxU256 ELSE allowance[p][q] + n
      BY <1>1, IncreaseSaturates
    <2> QED
      BY <1>1, <2>1, <2>2, <2>3
  <1>3. CASE kind = "decrease" /\ p = o /\ q = s
    <2>1. allowance'[p][q] = Decreased(allowance[p][q], n)
      BY <1>3 DEF AllowanceChange, TypeOK
    <2>2. granted'[p][q] = granted[p][q]
      BY <1>3 DEF AllowanceChange
    <2>3. /\ Decreased(allowance[p][q], n) \in Amount
          /\ Decreased(allowance[p][q], n) <= allowance[p][q]
      BY <1>1, DecreaseIsAmount
    <2> QED
      BY <1>1, <2>1, <2>2, <2>3
  <1>4. CASE ~(p = o /\ q = s)
    <2>1. allowance'[p][q] = allowance[p][q]
      BY <1>4 DEF AllowanceChange, TypeOK
    <2>2. granted'[p][q] = granted[p][q]
      BY <1>4 DEF AllowanceChange, TypeOK
    <2> QED
      BY <1>1, <2>1, <2>2
  <1> QED
    BY <1>2, <1>3, <1>4

\* Every action keeps spenders within their grants.
LEMMA StepGrant == GrantInv /\ [Next]_vars => GrantInv'
  <1> SUFFICES ASSUME GrantInv, [Next]_vars PROVE GrantInv'
    OBVIOUS
  <1>0. TypeOK /\ TypeOK'
    BY StepTypes DEF GrantInv
  <1>a. Idle <=> ~pending.active
    BY <1>0, PendingCases
  <1>b. ASSUME Idle, pending' = pending, AllowanceWithinGrant' PROVE GrantInv'
    BY <1>0, <1>a, <1>b DEF GrantInv
  <1>c. ASSUME pending' = pending, allowance' = allowance, spent' = spent, granted' = granted
        PROVE  GrantInv'
    BY <1>0, <1>c DEF GrantInv, AllowanceWithinGrant, WithinGrant
  <1> USE DEF token, world, history
  <1>1. ASSUME NEW sender \in Account, NEW from \in Address, NEW to \in Address,
               NEW n \in Amount, Transfer(sender, from, to, n)
        PROVE  GrantInv'
    <2>1. WithinGrant(AllowanceAfter(from, sender, n), SpentAfter(from, sender, n))
      BY <1>0, <1>1, SpendingStaysWithinGrant DEF GrantInv, Transfer
    <2>2. AllowanceWithinGrant'
      BY <1>1, <2>1 DEF Transfer, WithinGrant, AllowanceWithinGrant
    <2> QED
      BY <1>1, <1>b, <2>2 DEF Transfer
  <1>2. ASSUME NEW sender \in Account, NEW from \in Address, NEW to \in Address,
               NEW n \in Amount, SafeTransfer(sender, from, to, n)
        PROVE  GrantInv'
    <2>1. WithinGrant(AllowanceAfter(from, sender, n), SpentAfter(from, sender, n))
      BY <1>0, <1>2, SpendingStaysWithinGrant DEF GrantInv, SafeTransfer
    <2>2. AllowanceWithinGrant'
      BY <1>2, <2>1 DEF SafeTransfer, WithinGrant, AllowanceWithinGrant
    <2>3. pending'.active => pending'.allowances = allowance /\ pending'.spent = spent
      BY <1>2 DEF SafeTransfer, None
    <2>4. granted' = granted
      BY <1>2 DEF SafeTransfer
    <2> QED
      BY <1>0, <2>2, <2>3, <2>4 DEF GrantInv, AllowanceWithinGrant, WithinGrant
  <1>3. CASE ReceiverAccepts
    <2>1. ~pending'.active
      BY <1>3 DEF ReceiverAccepts, None
    <2> QED
      BY <1>0, <1>3, <2>1 DEF ReceiverAccepts, GrantInv, AllowanceWithinGrant
  <1>4. CASE ReceiverRejects
    <2>1. ~pending'.active
      BY <1>4 DEF ReceiverRejects, None
    <2>2. WithinGrant(pending.allowances, pending.spent)
      BY <1>4, <1>a DEF ReceiverRejects, GrantInv
    <2>3. AllowanceWithinGrant'
      BY <1>4, <2>2 DEF ReceiverRejects, WithinGrant, AllowanceWithinGrant
    <2> QED
      BY <1>0, <2>1, <2>3 DEF GrantInv
  <1>5. ASSUME NEW kind \in {"increase", "decrease"}, NEW sender \in Account,
               NEW spender \in Spenders, NEW n \in Amount,
               ChangeAllowance(kind, sender, spender, n)
        PROVE  GrantInv'
    <2>1. AllowanceWithinGrant'
      BY <1>0, <1>5, ChangeStaysWithinGrant DEF ChangeAllowance, GrantInv
    <2> QED
      BY <1>5, <1>b, <2>1 DEF ChangeAllowance
  <1>6. ASSUME NEW m \in signed, ChangeBySignature(m) PROVE GrantInv'
    <2>1. m \in Message
      BY <1>0 DEF TypeOK
    <2>2. AllowanceWithinGrant'
      BY <1>0, <1>6, <2>1, ChangeStaysWithinGrant DEF ChangeBySignature, GrantInv, Message
    <2> QED
      BY <1>6, <1>b, <2>2 DEF ChangeBySignature
  <1>7. ASSUME NEW max \in Amount, Instantiate(Deployer, max) PROVE GrantInv'
    BY <1>7, <1>c DEF Instantiate
  <1>8. ASSUME NEW to \in Address, NEW n \in Amount, Mint(to, n) PROVE GrantInv'
    BY <1>8, <1>c DEF Mint
  <1>9. ASSUME NEW from \in Address, NEW n \in Amount, Burn(from, n) PROVE GrantInv'
    BY <1>9, <1>c DEF Burn
  <1>10. ASSUME NEW m \in SignableMessages, Sign(m) PROVE GrantInv'
    BY <1>10, <1>c DEF Sign
  <1>11. CASE NewBlock
    BY <1>11, <1>c DEF NewBlock
  <1>12. CASE QuantumTransition
    BY <1>12, <1>c DEF QuantumTransition
  <1>13. CASE UNCHANGED vars
    BY <1>13, <1>c DEF vars
  <1> QED
    BY <1>1, <1>2, <1>3, <1>4, <1>5, <1>6, <1>7, <1>8, <1>9, <1>10, <1>11, <1>12, <1>13
       DEF Next

\* No spender moves more than it was granted, refused transfers and signed changes included.
THEOREM AllowancesAreGranted == Spec => []AllowanceWithinGrant
  <1>1. GrantInv => AllowanceWithinGrant
    BY DEF GrantInv
  <1> QED
    BY <1>1, InitGrant, StepGrant, PTL DEF Spec

\* What grants more lowers no allowance.
LEMMA IncreaseStep ==
    ASSUME TypeOK, NEW kind \in {"increase", "decrease"},
           NEW o \in Address, NEW s \in Address, NEW n \in Amount,
           AllowanceChange(kind, o, s, n), granted' # granted
    PROVE  \A p, q \in Address : allowance'[p][q] >= allowance[p][q]
  <1> SUFFICES ASSUME NEW p \in Address, NEW q \in Address
               PROVE  allowance'[p][q] >= allowance[p][q]
    OBVIOUS
  <1>1. allowance[p][q] \in Amount
    BY DEF TypeOK
  <1>2. kind = "increase"
    BY DEF AllowanceChange
  <1>3. CASE p = o /\ q = s
    <2>1. allowance'[p][q] = Increased(allowance[p][q], n)
      BY <1>2, <1>3 DEF AllowanceChange, TypeOK
    <2>2. Increased(allowance[p][q], n) =
             IF allowance[p][q] + n > MaxU256 THEN MaxU256 ELSE allowance[p][q] + n
      BY <1>1, IncreaseSaturates
    <2> QED
      BY <1>1, <2>1, <2>2
  <1>4. CASE ~(p = o /\ q = s)
    <2>1. allowance'[p][q] = allowance[p][q]
      BY <1>4 DEF AllowanceChange, TypeOK
    <2> QED
      BY <1>1, <2>1
  <1> QED
    BY <1>3, <1>4

\* An increase never lowers an allowance, whatever the amounts.
THEOREM IncreasesOnlyRaise == Spec => IncreaseNeverLowers
  <1>1. TypeOK /\ [Next]_vars
          => [granted' # granted => \A o, s \in Address : allowance'[o][s] >= allowance[o][s]]_vars
    <2> SUFFICES ASSUME TypeOK, Next, granted' # granted
                 PROVE  \A o, s \in Address : allowance'[o][s] >= allowance[o][s]
      OBVIOUS
    <2> USE DEF token, world, history
    <2>1. ASSUME NEW kind \in {"increase", "decrease"}, NEW sender \in Account,
                 NEW spender \in Spenders, NEW n \in Amount,
                 ChangeAllowance(kind, sender, spender, n)
          PROVE  \A o, s \in Address : allowance'[o][s] >= allowance[o][s]
      BY <2>1, IncreaseStep DEF ChangeAllowance
    <2>2. ASSUME NEW m \in signed, ChangeBySignature(m)
          PROVE  \A o, s \in Address : allowance'[o][s] >= allowance[o][s]
      <3>1. m \in Message
        BY DEF TypeOK
      <3> QED
        BY <2>2, <3>1, IncreaseStep DEF ChangeBySignature, Message
    <2> QED
      BY <2>1, <2>2
         DEF Next, Instantiate, Transfer, SafeTransfer, ReceiverAccepts, ReceiverRejects,
             Mint, Burn, Sign, NewBlock, QuantumTransition
  <1> QED
    BY <1>1, TokenTypeCorrect, PTL DEF Spec, IncreaseNeverLowers
-----------------------------------------------------------------------------
(* Signed messages *)

\* Initially no message is used.
LEMMA InitNonces == Init => NonceInv
  <1> SUFFICES ASSUME Init PROVE NonceInv
    OBVIOUS
  <1>1. TypeOK
    BY InitTypes
  <1>2. used = {} /\ \A o \in Account : nonceOf[o] = 0
    BY DEF Init, ZeroMap
  <1>3. IsFiniteSet(used)
    BY <1>2, FS_EmptySet
  <1>4. ASSUME NEW o \in Account PROVE Cardinality(UsedOf(o)) = 0
    <2>1. UsedOf(o) = {}
      BY <1>2 DEF UsedOf
    <2> QED
      BY <2>1, FS_EmptySet
  <1>5. EachSignatureUsedOnce
    BY <1>2, <1>4 DEF EachSignatureUsedOnce, UsedOf
  <1> QED
    BY <1>1, <1>2, <1>3, <1>5 DEF NonceInv

\* A message that is accepted has the nonce its owner is at, which none before it had.
LEMMA UseAdvancesNonce ==
    ASSUME NonceInv, TypeOK', NEW m \in signed, ChangeBySignature(m)
    PROVE  NonceInv'
  <1> USE DEF world, token
  <1>1. m \in Message /\ m.owner \in Account /\ m.nonce \in Nat
    BY DEF NonceInv, TypeOK, Message
  <1>2. /\ used' = used \cup {m} /\ signed' = signed
        /\ nonceOf' = [nonceOf EXCEPT ![m.owner] = @ + 1]
        /\ m.nonce = nonceOf[m.owner]
    BY DEF ChangeBySignature, VerifySignature
  <1>3. nonceOf \in [Address -> Nat]
    BY DEF NonceInv, TypeOK
  <1>4. /\ used \subseteq Message /\ used \subseteq signed
        /\ \A l \in used : l.owner \in Account /\ l.nonce \in Nat /\ l.nonce < nonceOf[l.owner]
    BY DEF NonceInv, TypeOK, Message, EachSignatureUsedOnce
  <1>5. m \notin used
    BY <1>1, <1>2, <1>3, <1>4
  <1>6. IsFiniteSet(used')
    BY <1>2, FS_AddElement DEF NonceInv
  <1>7. ASSUME NEW o \in Account
        PROVE  nonceOf'[o] = Cardinality({l \in used' : l.owner = o})
    <2>1. nonceOf[o] = Cardinality(UsedOf(o))
      BY DEF NonceInv, EachSignatureUsedOnce, UsedOf
    <2>2. IsFiniteSet(UsedOf(o))
      BY FS_Subset DEF NonceInv, UsedOf
    <2>3. CASE o = m.owner
      <3>1. {l \in used' : l.owner = o} = UsedOf(o) \cup {m}
        BY <1>2, <2>3 DEF UsedOf
      <3>2. m \notin UsedOf(o)
        BY <1>5 DEF UsedOf
      <3>3. Cardinality(UsedOf(o) \cup {m}) = Cardinality(UsedOf(o)) + 1
        BY <2>2, <3>2, FS_AddElement
      <3>4. nonceOf'[o] = nonceOf[o] + 1
        BY <1>2, <1>3, <2>3
      <3> QED
        BY <2>1, <3>1, <3>3, <3>4
    <2>4. CASE o # m.owner
      <3>1. {l \in used' : l.owner = o} = UsedOf(o)
        BY <1>2, <2>4 DEF UsedOf
      <3>2. nonceOf'[o] = nonceOf[o]
        BY <1>2, <1>3, <2>4
      <3> QED
        BY <2>1, <3>1, <3>2
    <2> QED
      BY <2>3, <2>4
  <1>8. \A l \in used' : l.nonce < nonceOf'[l.owner]
    BY <1>1, <1>2, <1>3, <1>4
  <1>9. \A k, l \in used' : k.owner = l.owner /\ k.nonce = l.nonce => k = l
    <2>1. \A k, l \in used : k.owner = l.owner /\ k.nonce = l.nonce => k = l
      BY DEF NonceInv, EachSignatureUsedOnce
    <2>2. ASSUME NEW l \in used, l.owner = m.owner, l.nonce = m.nonce PROVE FALSE
      BY <1>1, <1>2, <1>3, <1>4, <2>2
    <2> QED
      BY <1>2, <2>1, <2>2
  <1>10. EachSignatureUsedOnce'
    BY <1>2, <1>4, <1>7, <1>9 DEF EachSignatureUsedOnce
  <1> QED
    BY <1>6, <1>8, <1>10 DEF NonceInv

\* Every action counts the messages used.
LEMMA StepNonces == NonceInv /\ [Next]_vars => NonceInv'
  <1> SUFFICES ASSUME NonceInv, [Next]_vars PROVE NonceInv'
    OBVIOUS
  <1>1. TypeOK'
    BY StepTypes DEF NonceInv
  <1>2. ASSUME used' = used, nonceOf' = nonceOf, signed \subseteq signed' PROVE NonceInv'
    BY <1>1, <1>2 DEF NonceInv, EachSignatureUsedOnce
  <1>3. ASSUME NEW m \in signed, ChangeBySignature(m) PROVE NonceInv'
    BY <1>1, <1>3, UseAdvancesNonce
  <1>4. CASE ~ \E m \in signed : ChangeBySignature(m)
    <2>1. used' = used /\ nonceOf' = nonceOf /\ signed \subseteq signed'
      BY <1>4
         DEF Next, vars, token, world, history, Instantiate, Transfer, SafeTransfer,
             ReceiverAccepts, ReceiverRejects, ChangeAllowance, Mint, Burn, Sign, NewBlock,
             QuantumTransition
    <2> QED
      BY <1>2, <2>1
  <1> QED
    BY <1>3, <1>4

\* A signed message acts at most once, and in the order of its owner's nonces, for any
\* number of messages submitted in any order.
THEOREM SignaturesActOnce == Spec => []EachSignatureUsedOnce
  <1>1. NonceInv => EachSignatureUsedOnce
    BY DEF NonceInv
  <1> QED
    BY <1>1, InitNonces, StepNonces, PTL DEF Spec

-----------------------------------------------------------------------------
(* The token is a ledger *)

\* A transfer whose receiver has not answered yet is a transfer the ledger allows.
LedgerInv ==
    /\ TypeOK
    /\ pending.active =>
          \E from, to \in Address, n \in Amount :
             /\ n <= pending.balances[from]
             /\ balanceOf = [[pending.balances EXCEPT ![from] = @ - n] EXCEPT ![to] = @ + n]

\* What the outside sees of the balances.
Seen == IF pending.active THEN pending.balances ELSE balanceOf

\* The token starts as an empty ledger.
LEMMA InitLedger == Init => LedgerInv /\ Ledger!Init
  <1> SUFFICES ASSUME Init PROVE LedgerInv /\ Ledger!Init
    OBVIOUS
  <1>1. ~pending.active
    BY DEF Init, None
  <1> QED
    BY <1>1, InitTypes DEF LedgerInv, Ledger!Init, Init, ZeroMap

\* Every action keeps the transfer under way one that the ledger allows.
LEMMA StepLedgerInv == LedgerInv /\ [Next]_vars => LedgerInv'
  <1> SUFFICES ASSUME LedgerInv, [Next]_vars PROVE LedgerInv'
    OBVIOUS
  <1>1. TypeOK /\ TypeOK'
    BY StepTypes DEF LedgerInv
  <1>2. Idle <=> ~pending.active
    BY <1>1, PendingCases
  <1>3. ASSUME ~pending'.active PROVE LedgerInv'
    BY <1>1, <1>3 DEF LedgerInv
  <1>4. ASSUME pending' = pending, balanceOf' = balanceOf PROVE LedgerInv'
    BY <1>1, <1>4 DEF LedgerInv
  <1>5. ASSUME NEW sender \in Account, NEW from \in Address, NEW to \in Address,
               NEW n \in Amount, SafeTransfer(sender, from, to, n), pending'.active
        PROVE  LedgerInv'
    <2>1. pending'.balances = balanceOf
      BY <1>5 DEF SafeTransfer, None
    <2>2. /\ n <= balanceOf[from]
          /\ balanceOf' = [[balanceOf EXCEPT ![from] = @ - n] EXCEPT ![to] = @ + n]
      BY <1>5 DEF SafeTransfer, CanMove, Moved
    <2> QED
      BY <1>1, <2>1, <2>2 DEF LedgerInv
  <1>6. CASE pending' = None
    BY <1>3, <1>6 DEF None
  <1> QED
    BY <1>2, <1>3, <1>4, <1>5, <1>6
       DEF Next, vars, token, world, history, Instantiate, Transfer, ReceiverAccepts,
           ReceiverRejects, ChangeAllowance, ChangeBySignature, Mint, Burn, Sign, NewBlock,
           QuantumTransition

\* Moving nothing changes nothing, and moving something is a step of the ledger.
LEMMA MoveIsLedgerStep ==
    ASSUME TypeOK, totalSupply' = totalSupply, maxSupply' = maxSupply,
           Seen \in [Address -> Amount],
           NEW from \in Address, NEW to \in Address, NEW n \in Amount,
           n <= Seen[from], Seen' = [[Seen EXCEPT ![from] = @ - n] EXCEPT ![to] = @ + n]
    PROVE  [Ledger!Next]_Ledger!lvars
  <1>1. CASE n = 0
    <2>1. Seen' = Seen
      BY <1>1
    <2> QED
      BY <2>1 DEF Seen, Ledger!lvars
  <1>2. CASE n # 0
    <2>1. n \in 1 .. MaxU256
      BY <1>2
    <2>2. Ledger!Move(from, to, n)
      BY DEF Ledger!Move, Seen
    <2> QED
      BY <2>1, <2>2 DEF Ledger!Next
  <1> QED
    BY <1>1, <1>2

\* Every action of the token is a step of the ledger or none.
LEMMA StepImplementsLedger == LedgerInv /\ [Next]_vars => [Ledger!Next]_Ledger!lvars
  <1> SUFFICES ASSUME LedgerInv, [Next]_vars PROVE [Ledger!Next]_Ledger!lvars
    OBVIOUS
  <1> USE DEF token, world, history
  <1>0. TypeOK /\ TypeOK'
    BY StepTypes DEF LedgerInv
  <1>a. Idle <=> ~pending.active
    BY <1>0, PendingCases
  <1>b. ASSUME Idle PROVE Seen = balanceOf /\ balanceOf \in [Address -> Amount]
    BY <1>0, <1>a, <1>b DEF Seen, TypeOK
  <1>c. ASSUME Seen' = Seen, totalSupply' = totalSupply, maxSupply' = maxSupply
        PROVE  [Ledger!Next]_Ledger!lvars
    BY <1>c DEF Seen, Ledger!lvars
  <1>d. ASSUME pending' = pending, balanceOf' = balanceOf, totalSupply' = totalSupply,
               maxSupply' = maxSupply
        PROVE  [Ledger!Next]_Ledger!lvars
    BY <1>c, <1>d DEF Seen
  <1>1. ASSUME NEW max \in Amount, Instantiate(Deployer, max)
        PROVE  [Ledger!Next]_Ledger!lvars
    BY <1>1 DEF Instantiate, Ledger!Next, Ledger!SetCap
  <1>2. ASSUME NEW sender \in Account, NEW from \in Address, NEW to \in Address,
               NEW n \in Amount, Transfer(sender, from, to, n)
        PROVE  [Ledger!Next]_Ledger!lvars
    <2>1. Seen' = balanceOf'
      BY <1>2, <1>a DEF Transfer, Seen
    <2> QED
      BY <1>0, <1>2, <1>b, <2>1, MoveIsLedgerStep DEF Transfer, CanMove, Moved
  <1>3. ASSUME NEW sender \in Account, NEW from \in Address, NEW to \in Address,
               NEW n \in Amount, SafeTransfer(sender, from, to, n)
        PROVE  [Ledger!Next]_Ledger!lvars
    <2>1. CASE pending'.active
      <3>1. Seen' = balanceOf
        BY <1>3, <2>1 DEF SafeTransfer, Seen, None
      <3> QED
        BY <1>3, <1>b, <1>c, <3>1 DEF SafeTransfer
    <2>2. CASE ~pending'.active
      <3>1. Seen' = balanceOf'
        BY <2>2 DEF Seen
      <3> QED
        BY <1>0, <1>3, <1>b, <3>1, MoveIsLedgerStep DEF SafeTransfer, CanMove, Moved
    <2> QED
      BY <2>1, <2>2
  <1>4. CASE ReceiverAccepts
    <2>1. pending.active /\ pending \in Pending
      BY <1>0, <1>4, PendingCases DEF ReceiverAccepts
    <2>2. Seen = pending.balances /\ Seen \in [Address -> Amount]
      BY <2>1 DEF Seen, Pending
    <2>3. Seen' = balanceOf
      BY <1>4 DEF ReceiverAccepts, Seen, None
    <2>4. PICK from, to \in Address, n \in Amount :
             /\ n <= Seen[from]
             /\ Seen' = [[Seen EXCEPT ![from] = @ - n] EXCEPT ![to] = @ + n]
      BY <2>1, <2>2, <2>3 DEF LedgerInv
    <2> QED
      BY <1>0, <1>4, <2>2, <2>4, MoveIsLedgerStep DEF ReceiverAccepts
  <1>5. CASE ReceiverRejects
    <2>1. Seen = pending.balances
      BY <1>0, <1>5, PendingCases DEF ReceiverRejects, Seen
    <2>2. Seen' = pending.balances
      BY <1>5 DEF ReceiverRejects, Seen, None
    <2> QED
      BY <1>5, <1>c, <2>1, <2>2 DEF ReceiverRejects
  <1>6. ASSUME NEW to \in Address, NEW n \in Amount, Mint(to, n)
        PROVE  [Ledger!Next]_Ledger!lvars
    <2>1. Seen = balanceOf /\ Seen' = balanceOf'
      BY <1>6, <1>a DEF Mint, Seen
    <2>2. CASE n = 0
      <3>1. balanceOf' = balanceOf /\ totalSupply' = totalSupply /\ maxSupply' = maxSupply
        BY <1>0, <1>6, <2>2 DEF Mint, Minted, TypeOK
      <3> QED
        BY <1>c, <2>1, <3>1
    <2>3. CASE n \in 1 .. MaxU256
      <3>1. Ledger!Mint(to, n)
        BY <1>6, <2>1 DEF Mint, Minted, Ledger!Mint, Seen
      <3> QED
        BY <2>3, <3>1 DEF Ledger!Next
    <2> QED
      BY <2>2, <2>3
  <1>7. ASSUME NEW from \in Address, NEW n \in Amount, Burn(from, n)
        PROVE  [Ledger!Next]_Ledger!lvars
    <2>1. Seen = balanceOf /\ Seen' = balanceOf'
      BY <1>7, <1>a DEF Burn, Seen
    <2>2. CASE n = 0
      <3>1. balanceOf' = balanceOf /\ totalSupply' = totalSupply /\ maxSupply' = maxSupply
        BY <1>0, <1>7, <2>2 DEF Burn, TypeOK
      <3> QED
        BY <1>c, <2>1, <3>1
    <2>3. CASE n \in 1 .. MaxU256
      <3>1. Ledger!Burn(from, n)
        BY <1>7, <2>1 DEF Burn, Ledger!Burn, Seen
      <3> QED
        BY <2>3, <3>1 DEF Ledger!Next
    <2> QED
      BY <2>2, <2>3
  <1>8. ASSUME NEW kind \in {"increase", "decrease"}, NEW sender \in Account,
               NEW spender \in Spenders, NEW n \in Amount,
               ChangeAllowance(kind, sender, spender, n)
        PROVE  [Ledger!Next]_Ledger!lvars
    BY <1>8, <1>d DEF ChangeAllowance
  <1>9. ASSUME NEW m \in signed, ChangeBySignature(m) PROVE [Ledger!Next]_Ledger!lvars
    BY <1>9, <1>d DEF ChangeBySignature
  <1>10. ASSUME NEW m \in SignableMessages, Sign(m) PROVE [Ledger!Next]_Ledger!lvars
    BY <1>10, <1>d DEF Sign
  <1>11. CASE NewBlock
    BY <1>11, <1>d DEF NewBlock
  <1>12. CASE QuantumTransition
    BY <1>12, <1>d DEF QuantumTransition
  <1>13. CASE UNCHANGED vars
    BY <1>13, <1>d DEF vars
  <1> QED
    BY <1>1, <1>2, <1>3, <1>4, <1>5, <1>6, <1>7, <1>8, <1>9, <1>10, <1>11, <1>12, <1>13
       DEF Next

\* Seen from outside its transactions, the token is the abstract ledger: a safe transfer
\* happens when its receiver accepts, all of it, or not at all.
THEOREM TokenIsALedger == Spec => ImplementsTokenLedger
  BY InitLedger, StepLedgerInv, StepImplementsLedger, PTL
     DEF Spec, ImplementsTokenLedger, Ledger!Spec
-----------------------------------------------------------------------------
(* The total supply *)

\* The balances are those of a token with this supply, and the zero address has none.
AddUp(balances, allowances) ==
    /\ SumOver(balances, Address) = totalSupply
    /\ balances[Zero] = 0 /\ \A s \in Address : allowances[Zero][s] = 0

\* What the host restores when a receiver refuses adds up as well.
SupplyInv ==
    /\ TypeOK /\ totalSupply <= maxSupply
    /\ AddUp(balanceOf, allowance)
    /\ pending.active => AddUp(pending.balances, pending.allowances)

\* The property follows.
LEMMA SupplyInvIsEnough == SupplyInv => SupplyConserved
  <1> SUFFICES ASSUME SupplyInv PROVE SupplyConserved
    OBVIOUS
  <1>1. FoldFunction(+, 0, balanceOf) = SumOver(balanceOf, Address)
    <2>1. DOMAIN balanceOf = Address
      BY DEF SupplyInv, TypeOK
    <2> QED
      BY <2>1, FoldIsSum DEF SumOver
  <1> QED
    BY <1>1 DEF SupplyInv, AddUp, SupplyConserved

\* The sum of the balances does.
LEMMA BalanceSum == SumFollowsItsTerms(Address)
  BY SumChanges

\* A token starts without any.
LEMMA InitSupply == Init => SupplyInv
  <1> SUFFICES ASSUME Init PROVE SupplyInv
    OBVIOUS
  <1>1. TypeOK /\ ~pending.active
    BY InitTypes DEF Init, None
  <1>2. SumOver(balanceOf, Address) = 0
    BY SumOfZeros DEF Init, ZeroMap
  <1> QED
    BY <1>1, <1>2 DEF Init, ZeroMap, SupplyInv, AddUp

\* Moving an amount keeps the sum.
LEMMA MoveKeepsSum ==
    ASSUME TypeOK, NEW from \in Address, NEW to \in Address, NEW n \in Amount,
           CanMove(from, to, n)
    PROVE  /\ SumOver(Moved(from, to, n), Address) = SumOver(balanceOf, Address)
           /\ Moved(from, to, n)[Zero] = balanceOf[Zero]
  <1> DEFINE b == balanceOf
             left == b[from] - n
             c == [b EXCEPT ![from] = left]
             there == c[to] + n
             d == [c EXCEPT ![to] = there]
  <1>1. IsFiniteSet(Address) /\ b \in [Address -> Nat] /\ left \in Nat /\ n \in Nat
    BY DEF TypeOK, CanMove
  <1>2. SumOver(c, Address) = SumOver(b, Address) - b[from] + left
        /\ SumOver(b, Address) \in Nat /\ b[from] \in Nat
    <2> HIDE AddressAssumption, AmountAssumption DEF left
    <2> QED
      BY <1>1, BalanceSum, Zenon DEF SumFollowsItsTerms
  <1>3. c \in [Address -> Nat] /\ there \in Nat /\ c[to] \in Nat
    BY <1>1
  <1>4. SumOver(d, Address) = SumOver(c, Address) - c[to] + there
    <2> HIDE AddressAssumption, AmountAssumption DEF b, c, there
    <2>1. d = [c EXCEPT ![to] = there]
      OBVIOUS
    <2> HIDE DEF d
    <2> QED
      BY <1>3, <2>1, BalanceSum, Zenon DEF SumFollowsItsTerms
  <1>5. Moved(from, to, n) = d
    BY DEF Moved
  <1>6. d[Zero] = b[Zero]
    BY <1>1, <1>3 DEF CanMove
  <1>7. SumOver(d, Address) = SumOver(b, Address)
    <2> HIDE DEF c, d, b
    <2> QED
      BY <1>1, <1>2, <1>3, <1>4
  <1> QED
    BY <1>5, <1>6, <1>7

\* Every step keeps the sum, or changes the supply by what it adds or takes away.
LEMMA StepSupply == SupplyInv /\ [Next]_vars => SupplyInv'
  <1> SUFFICES ASSUME SupplyInv, [Next]_vars PROVE SupplyInv'
    OBVIOUS
  <1>0. TypeOK /\ TypeOK'
    BY StepTypes DEF SupplyInv
  <1>1. ASSUME UNCHANGED <<balanceOf, allowance, totalSupply, pending>>,
               totalSupply' <= maxSupply'
        PROVE  SupplyInv'
    BY <1>0, <1>1 DEF SupplyInv, AddUp
  <1>2. ASSUME NEW max \in Amount, Instantiate(Deployer, max) PROVE SupplyInv'
    <2>1. totalSupply <= max
      BY <1>0, <1>2 DEF Instantiate, SupplyInv, TypeOK
    <2> QED
      BY <1>1, <1>2, <2>1 DEF Instantiate
  <1>3. ASSUME NEW sender \in Account, NEW from \in Address, NEW to \in Address,
               NEW n \in Amount, CanMove(from, to, n),
               balanceOf' = Moved(from, to, n), allowance' = AllowanceAfter(from, sender, n),
               UNCHANGED <<totalSupply, maxSupply>>,
               \/ ~pending'.active
               \/ pending'.balances = balanceOf /\ pending'.allowances = allowance
        PROVE  SupplyInv'
    <2>1. /\ SumOver(balanceOf', Address) = SumOver(balanceOf, Address)
          /\ balanceOf'[Zero] = balanceOf[Zero]
      BY <1>0, <1>3, MoveKeepsSum
    <2>2. \A s \in Address : allowance'[Zero][s] = allowance[Zero][s]
      <3>1. from # Zero
        BY <1>3 DEF CanMove
      <3> QED
        BY <1>0, <1>3, <3>1 DEF AllowanceAfter, TypeOK
    <2> QED
      BY <1>0, <1>3, <2>1, <2>2 DEF SupplyInv, AddUp
  <1>4. ASSUME NEW sender \in Account, NEW from \in Address, NEW to \in Address,
               NEW n \in Amount, Transfer(sender, from, to, n)
        PROVE  SupplyInv'
    BY <1>3, <1>4 DEF Transfer, Idle, None
  <1>5. ASSUME NEW sender \in Account, NEW from \in Address, NEW to \in Address,
               NEW n \in Amount, SafeTransfer(sender, from, to, n)
        PROVE  SupplyInv'
    BY <1>3, <1>5 DEF SafeTransfer, None
  <1>6. ASSUME ReceiverAccepts PROVE SupplyInv'
    BY <1>0, <1>6 DEF ReceiverAccepts, SupplyInv, AddUp, token, None
  <1>7. ASSUME ReceiverRejects PROVE SupplyInv'
    <2>1. pending.active
      BY <1>0, <1>7, PendingCases DEF ReceiverRejects
    <2> QED
      BY <1>0, <1>7, <2>1 DEF ReceiverRejects, SupplyInv, AddUp, None
  <1>8. ASSUME NEW kind, NEW owner \in Address, NEW spender \in Address, NEW n,
               AllowanceChange(kind, owner, spender, n), Idle,
               UNCHANGED <<balanceOf, totalSupply, maxSupply, pending>>
        PROVE  SupplyInv'
    <2>1. \A s \in Address : allowance'[Zero][s] = allowance[Zero][s]
      BY <1>0, <1>8 DEF AllowanceChange, TypeOK
    <2> QED
      BY <1>0, <1>8, <2>1 DEF SupplyInv, AddUp, Idle, None
  <1>9. ASSUME NEW kind \in {"increase", "decrease"}, NEW sender \in Account,
               NEW spender \in Spenders, NEW n \in Amount,
               ChangeAllowance(kind, sender, spender, n)
        PROVE  SupplyInv'
    BY <1>8, <1>9 DEF ChangeAllowance
  <1>10. ASSUME NEW m \in signed, ChangeBySignature(m) PROVE SupplyInv'
    <2>1. m.owner \in Address /\ m.spender \in Address
      BY <1>0 DEF TypeOK, Message
    <2> QED
      BY <1>8, <1>10, <2>1 DEF ChangeBySignature
  <1>11. ASSUME NEW to \in Address, NEW n \in Amount, Mint(to, n) PROVE SupplyInv'
    <2> DEFINE new == balanceOf[to] + n
    <2>1. balanceOf \in [Address -> Nat] /\ new \in Nat /\ IsFiniteSet(Address)
      BY <1>0 DEF TypeOK
    <2>2. balanceOf' = [balanceOf EXCEPT ![to] = new] /\ totalSupply' = totalSupply + n
      BY <1>11 DEF Mint, Minted
    <2> HIDE DEF new
    <2>3. SumOver(balanceOf', Address) = SumOver(balanceOf, Address) - balanceOf[to] + new
          /\ SumOver(balanceOf, Address) \in Nat
      <3> HIDE AddressAssumption, AmountAssumption
      <3> QED
        BY <2>1, <2>2, BalanceSum, Zenon DEF SumFollowsItsTerms
    <2>4. SumOver(balanceOf', Address) = totalSupply'
      BY <1>0, <2>1, <2>2, <2>3 DEF SupplyInv, AddUp, new, TypeOK
    <2> QED
      BY <1>0, <1>11, <2>1, <2>2, <2>4 DEF Mint, Minted, Idle, None, SupplyInv, AddUp
  <1>12. ASSUME NEW from \in Address, NEW n \in Amount, Burn(from, n) PROVE SupplyInv'
    <2> DEFINE new == balanceOf[from] - n
    <2>1. balanceOf \in [Address -> Nat] /\ new \in Nat /\ IsFiniteSet(Address)
      BY <1>0, <1>12 DEF TypeOK, Burn
    <2>2. balanceOf' = [balanceOf EXCEPT ![from] = new] /\ totalSupply' = totalSupply - n
      BY <1>12 DEF Burn
    <2> HIDE DEF new
    <2>3. SumOver(balanceOf', Address) = SumOver(balanceOf, Address) - balanceOf[from] + new
          /\ SumOver(balanceOf, Address) \in Nat
      <3> HIDE AddressAssumption, AmountAssumption
      <3> QED
        BY <2>1, <2>2, BalanceSum, Zenon DEF SumFollowsItsTerms
    <2>4. SumOver(balanceOf', Address) = totalSupply'
      BY <1>0, <2>1, <2>2, <2>3 DEF SupplyInv, AddUp, new, TypeOK
    <2>5. totalSupply' <= maxSupply'
      BY <1>0, <1>12 DEF Burn, SupplyInv, TypeOK
    <2> QED
      BY <1>0, <1>12, <2>1, <2>2, <2>4, <2>5 DEF Burn, Idle, None, SupplyInv, AddUp
  <1>13. ASSUME \/ \E m \in SignableMessages : Sign(m)
                \/ NewBlock \/ QuantumTransition \/ UNCHANGED vars
         PROVE  SupplyInv'
    <2>1. UNCHANGED <<balanceOf, allowance, totalSupply, maxSupply, pending>>
      BY <1>13 DEF Sign, NewBlock, QuantumTransition, vars, token
    <2> QED
      BY <1>1, <2>1 DEF SupplyInv
  <1> QED
    BY <1>2, <1>4, <1>5, <1>6, <1>7, <1>9, <1>10, <1>11, <1>12, <1>13 DEF Next

\* The balances always add up to the total supply, which is within the maximum, for every
\* set of addresses and limit of the amounts, through refused safe transfers as well
\* (_transfer, _mint, _burn of OP20.ts).
THEOREM SupplyIsConserved == Spec => []SupplyConserved
  <1> QED
    BY InitSupply, StepSupply, SupplyInvIsEnough, PTL DEF Spec

-----------------------------------------------------------------------------
(* After the consensus transition *)

\* An ML-DSA signature is refused for its length, a Schnorr signature for its scheme.
THEOREM SignedChangesEnd == Spec => NoneAcceptedAfterTransition
  <1>1. [Next]_vars => [~unsafe => used' = used]_vars
    <2> SUFFICES ASSUME Next, ~unsafe PROVE used' = used
      OBVIOUS
    <2>1. ASSUME NEW m \in signed, ChangeBySignature(m) PROVE FALSE
      BY <2>1 DEF ChangeBySignature, VerifySignature, SignatureLength
    <2> QED
      BY <2>1
      DEF Next, Instantiate, Transfer, SafeTransfer, ReceiverAccepts, ReceiverRejects,
          ChangeAllowance, Mint, Burn, Sign, NewBlock, QuantumTransition, history, world
  <1> QED
    BY <1>1, PTL DEF Spec, NoneAcceptedAfterTransition
===============================================================================

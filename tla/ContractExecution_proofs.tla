---------------------- MODULE ContractExecution_proofs ------------------------
(***************************************************************************)
(* For every set of contracts, every reentrancy level, every call depth    *)
(* and every amount of gas: the guard of ContractExecution is exclusive,   *)
(* its storage says who is inside, no instance that runs again works on a  *)
(* stale lock or on stale data, no increment made inside is lost, and the  *)
(* whole implements ExclusiveEntry.                                        *)
(***************************************************************************)
EXTENDS ContractExecution, FiniteSetTheorems, TLAPS

\* Who is inside contract c among the n outermost frames.
HoldsBelow(c, n) == \E i \in 1..n : Entered(i) /\ stack[i].contract = c

\* The guard slots of storage h agree with the n outermost frames.
GuardAgrees(h, n) ==
    \A c \in Contract :
        /\ Guarded(c) => (h[c]["locked"] = True <=> HoldsBelow(c, n))
        /\ Level[c] = "CALLBACK" => h[c]["depth"] = IF HoldsBelow(c, n) THEN 1 ELSE 0

\* What the phase of a frame says of its guard and of its cache.
FrameOK(f, last) ==
    /\ f.phase = "calling" <=> ~last
    /\ f.phase = "started" => ~f.entered /\ f.cache = [s \in Slot |-> NotCached]
    /\ f.phase = "completed" => ~f.entered
    /\ f.phase \in {"body", "calling"} => (f.entered <=> GuardApplies(f))
    /\ f.entered => GuardApplies(f)
    /\ f.entered /\ Level[f.contract] = "CALLBACK" => f.cache["depth"] = 1
    /\ f.cache["locked"] # Unset

FramesOK == \A i \in 1..Len(stack) : FrameOK(stack[i], i = Len(stack))

\* The inductive invariant: the storage agrees with the frames now, and the storage the
\* host would restore for each frame agrees with the frames outside it.
IInv ==
    /\ TypeOK
    /\ FramesOK
    /\ MutualExclusion
    /\ GuardAgrees(host, Len(stack))
    /\ \A i \in 1..Len(stack) : GuardAgrees(stack[i].before.host, i - 1)

-----------------------------------------------------------------------------
\* The running frame is the last one, and is well typed.
LEMMA TopIsFrame ==
    ASSUME TypeOK, Running
    PROVE  /\ Len(stack) \in Nat \ {0} /\ Len(stack) \in 1..Len(stack)
           /\ Top \in Frame /\ Top.contract \in Contract
<1>1. stack \in Seq(Frame) /\ stack # <<>>
  BY DEF TypeOK, Running
<1>2. Len(stack) \in Nat \ {0} /\ Len(stack) \in 1..Len(stack)
  BY <1>1
<1>3. Top \in Frame
  BY <1>1, <1>2 DEF Top
<1> QED BY <1>2, <1>3 DEF Frame

\* What writing w to a slot map gives.
LEMMA UpdatedType ==
    ASSUME NEW V, NEW old \in [Slot -> V], NEW S \in SUBSET Slot, NEW w \in [S -> V]
    PROVE  Updated(old, w) \in [Slot -> V]
  BY DEF Updated

\* Writing no slot leaves the storage as it is.
LEMMA NoWriteChangesNothing ==
    ASSUME NEW V, NEW old \in [Slot -> V]
    PROVE  Updated(old, NoWrite) = old
  BY DEF Updated, NoWrite

\* A step of the running frame replaces it and leaves the others alone.
LEMMA ContinueStep ==
    ASSUME TypeOK, Running,
           NEW f \in Frame, f.contract = Top.contract,
           NEW S \in SUBSET Slot, NEW w \in [S -> SlotValue],
           Continue(f, w)
    PROVE  /\ stack' \in Seq(Frame) /\ Len(stack') = Len(stack)
           /\ host' \in [Contract -> [Slot -> SlotValue]]
           /\ \A i \in 1..Len(stack) : i # Len(stack) => stack'[i] = stack[i]
           /\ stack'[Len(stack)] = [f EXCEPT !.cache = Updated(f.cache, w)]
           /\ host'[f.contract] = Updated(host[f.contract], w)
           /\ \A c \in Contract : c # f.contract => host'[c] = host[c]
<1>1. Top \in Frame /\ Len(stack) \in 1..Len(stack) /\ f.contract \in Contract
  BY TopIsFrame DEF Frame
<1>2. host[f.contract] \in [Slot -> SlotValue]
  BY <1>1 DEF TypeOK
<1>3. Updated(host[f.contract], w) \in [Slot -> SlotValue]
  BY <1>2, UpdatedType
<1>4. host' \in [Contract -> [Slot -> SlotValue]]
  BY <1>1, <1>3 DEF TypeOK, Continue
<1>5. /\ f.cache \in [Slot -> SlotValue \cup {NotCached}]
      /\ w \in [S -> SlotValue \cup {NotCached}]
  BY DEF Frame
<1>6. Updated(f.cache, w) \in [Slot -> SlotValue \cup {NotCached}]
  BY <1>5, UpdatedType
<1>7. [f EXCEPT !.cache = Updated(f.cache, w)] \in Frame
  BY <1>6 DEF Frame
<1>8. stack' = [stack EXCEPT ![Len(stack)] = [f EXCEPT !.cache = Updated(f.cache, w)]]
  BY DEF Continue, ReplaceTop
<1>9. stack' \in Seq(Frame) /\ Len(stack') = Len(stack)
  BY <1>1, <1>7, <1>8 DEF TypeOK
<1>10. \A i \in 1..Len(stack) : i # Len(stack) => stack'[i] = stack[i]
  BY <1>8 DEF TypeOK
<1>11. stack'[Len(stack)] = [f EXCEPT !.cache = Updated(f.cache, w)]
  BY <1>1, <1>8 DEF TypeOK
<1>12. /\ host'[f.contract] = Updated(host[f.contract], w)
       /\ \A c \in Contract : c # f.contract => host'[c] = host[c]
  BY <1>1 DEF TypeOK, Continue
<1> QED BY <1>4, <1>9, <1>10, <1>11, <1>12

-----------------------------------------------------------------------------
\* A step of the running frame that neither enters nor leaves the guard and writes
\* nothing of consequence to the guard's slots preserves the invariant.
LEMMA NeutralStep ==
    ASSUME IInv, Running,
           NEW f \in Frame, f.contract = Top.contract, f.entered = Top.entered,
           f.before = Top.before,
           NEW S \in SUBSET Slot, NEW w \in [S -> SlotValue],
           Continue(f, w),
           FrameOK([f EXCEPT !.cache = Updated(f.cache, w)], TRUE),
           "depth" \notin S,
           "locked" \in S => w["locked"] # True /\ host[f.contract]["locked"] # True,
           gas' \in 0..MaxGas,
           applied' \in [Contract -> Nat], bypassed' \in SUBSET Contract
    PROVE  IInv'
<1>1. TypeOK
  BY DEF IInv
<1>2. /\ stack' \in Seq(Frame) /\ Len(stack') = Len(stack)
      /\ host' \in [Contract -> [Slot -> SlotValue]]
      /\ \A i \in 1..Len(stack) : i # Len(stack) => stack'[i] = stack[i]
      /\ stack'[Len(stack)] = [f EXCEPT !.cache = Updated(f.cache, w)]
      /\ host'[f.contract] = Updated(host[f.contract], w)
      /\ \A c \in Contract : c # f.contract => host'[c] = host[c]
  BY <1>1, ContinueStep
<1>3. Len(stack) \in Nat \ {0} /\ Len(stack) \in 1..Len(stack)
  BY <1>1, TopIsFrame
<1>4. \A i \in 1..Len(stack) : /\ stack'[i].contract = stack[i].contract
                              /\ stack'[i].entered = stack[i].entered
                              /\ stack'[i].before = stack[i].before
  BY <1>2 DEF Top, Frame
<1>5. \A c \in Contract, n \in 0..Len(stack) : HoldsBelow(c, n)' <=> HoldsBelow(c, n)
  BY <1>3, <1>4, SMTT(20) DEF HoldsBelow, Entered
<1>6. \A c \in Contract : /\ host'[c]["locked"] = True <=> host[c]["locked"] = True
                         /\ host'[c]["depth"] = host[c]["depth"]
  <2> SUFFICES ASSUME NEW c \in Contract, c = f.contract
               PROVE  /\ host'[c]["locked"] = True <=> host[c]["locked"] = True
                      /\ host'[c]["depth"] = host[c]["depth"]
    BY <1>2
  <2> QED BY <1>2 DEF Updated, Slot
<1>7. TypeOK'
  BY <1>2 DEF TypeOK
<1>8. FramesOK'
  <2>1. \A i \in 1..Len(stack) : i # Len(stack) => FrameOK(stack'[i], i = Len(stack'))
    BY <1>2 DEF IInv, FramesOK
  <2>2. FrameOK(stack'[Len(stack)], TRUE)
    BY <1>2
  <2>3. \A i \in 1..Len(stack') : FrameOK(stack'[i], i = Len(stack'))
    BY <2>1, <2>2, <1>2, <1>3
  <2> QED BY <2>3 DEF FramesOK
<1>9. MutualExclusion'
  BY <1>2, <1>4 DEF IInv, MutualExclusion, Entered
<1>10. GuardAgrees(host, Len(stack))'
  BY <1>2, <1>3, <1>5, <1>6 DEF IInv, GuardAgrees
<1>11. \A i \in 1..Len(stack') : GuardAgrees(stack[i].before.host, i - 1)'
  <2> SUFFICES ASSUME NEW i \in 1..Len(stack)
               PROVE  GuardAgrees(stack[i].before.host, i - 1)'
    BY <1>2
  <2>1. GuardAgrees(stack[i].before.host, i - 1)
    BY DEF IInv
  <2>2. i - 1 \in 0..Len(stack) /\ stack'[i].before.host = stack[i].before.host
    BY <1>3, <1>4
  <2> QED BY <2>1, <2>2, <1>5 DEF GuardAgrees
<1> QED BY <1>7, <1>8, <1>9, <1>10, <1>11 DEF IInv

-----------------------------------------------------------------------------
\* Facts about the frame that is running.
LEMMA TopFacts ==
    ASSUME IInv, Running
    PROVE  /\ Top \in Frame /\ FrameOK(Top, TRUE)
           /\ Top.contract \in Contract
           /\ Len(stack) \in Nat \ {0} /\ Len(stack) \in 1..Len(stack)
           /\ host[Top.contract] \in [Slot -> SlotValue]
           /\ Top.cache \in [Slot -> SlotValue \cup {NotCached}]
           /\ \A s \in Slot : ValueAt(Top, s) \in SlotValue
<1>1. TypeOK
  BY DEF IInv
<1>2. /\ Top \in Frame /\ Top.contract \in Contract
      /\ Len(stack) \in Nat \ {0} /\ Len(stack) \in 1..Len(stack)
  BY <1>1, TopIsFrame
<1>3. FrameOK(stack[Len(stack)], Len(stack) = Len(stack))
  BY <1>2 DEF IInv, FramesOK
<1>4. FrameOK(Top, TRUE)
  BY <1>3 DEF Top
<1>5. host[Top.contract] \in [Slot -> SlotValue]
  BY <1>1, <1>2 DEF TypeOK
<1>6. Top.cache \in [Slot -> SlotValue \cup {NotCached}]
  BY <1>2 DEF Frame
<1>7. \A s \in Slot : ValueAt(Top, s) \in SlotValue
  BY <1>5, <1>6 DEF ValueAt
<1> QED BY <1>2, <1>4, <1>5, <1>6, <1>7

\* Initially nothing runs and no lock is taken.
LEMMA InitInv == Init => IInv
  BY BoundAssumption
  DEF Init, IInv, TypeOK, FramesOK, MutualExclusion, GuardAgrees, HoldsBelow, Slot,
      SlotValue, True, Guarded

\* A step that only changes the phase of the running frame.
LEMMA PhaseStep ==
    ASSUME IInv, Running, NEW p \in {"body", "completed", "reverted"},
           Continue([Top EXCEPT !.phase = p], NoWrite),
           UNCHANGED <<applied, bypassed>>, gas' \in 0..MaxGas,
           p = "completed" => ~Top.entered,
           p = "body" => (Top.entered <=> GuardApplies(Top))
    PROVE  IInv'
<1> DEFINE f == [Top EXCEPT !.phase = p]
<1>1. /\ Top \in Frame /\ FrameOK(Top, TRUE)
      /\ Top.cache \in [Slot -> SlotValue \cup {NotCached}]
  BY TopFacts
<1>2. p \in Phase
  BY DEF Phase
<1>3. /\ f \in Frame /\ f.contract = Top.contract /\ f.entered = Top.entered
      /\ f.before = Top.before /\ f.cache = Top.cache /\ f.phase = p
      /\ f.selector = Top.selector
  BY <1>1, <1>2 DEF Frame
<1>4. Updated(f.cache, NoWrite) = Top.cache
  BY <1>1, <1>3, NoWriteChangesNothing
<1> DEFINE g == [f EXCEPT !.cache = Updated(f.cache, NoWrite)]
<1>5. /\ g.contract = Top.contract /\ g.entered = Top.entered /\ g.cache = Top.cache
      /\ g.phase = p /\ g.selector = Top.selector
  BY <1>3, <1>4 DEF Frame
<1>6. GuardApplies(g) <=> GuardApplies(Top)
  BY <1>5 DEF GuardApplies
<1>7. FrameOK(g, TRUE)
  BY <1>1, <1>5, <1>6 DEF FrameOK
<1>8. NoWrite \in [{} -> SlotValue]
  BY DEF NoWrite
<1>9. applied' \in [Contract -> Nat] /\ bypassed' \in SUBSET Contract
  BY DEF IInv, TypeOK
<1> HIDE DEF f, g
<1>10. Continue(f, NoWrite)
  BY DEF f
<1> QED BY <1>3, <1>7, <1>8, <1>9, <1>10, NeutralStep DEF g

-----------------------------------------------------------------------------
\* A step of a body: it may change the local variable, cache slots it has read, and write
\* the data slot.
LEMMA BodyStep ==
    ASSUME IInv, In("body"),
           NEW f \in Frame, f.contract = Top.contract, f.entered = Top.entered,
           f.before = Top.before, f.selector = Top.selector,
           f.phase \in {"body", "reverted"},
           f.cache["locked"] # Unset, f.cache["depth"] = Top.cache["depth"],
           NEW S \in SUBSET {"data"}, NEW w \in [S -> SlotValue],
           Continue(f, w),
           gas' \in 0..MaxGas,
           applied' \in [Contract -> Nat], bypassed' \in SUBSET Contract
    PROVE  IInv'
<1>1. Running /\ Top.phase = "body"
  BY DEF In
<1>2. Top \in Frame /\ FrameOK(Top, TRUE)
  BY <1>1, TopFacts
<1> DEFINE g == [f EXCEPT !.cache = Updated(f.cache, w)]
<1>3. /\ g.contract = Top.contract /\ g.entered = Top.entered /\ g.phase = f.phase
      /\ g.selector = Top.selector /\ g.cache = Updated(f.cache, w)
  BY DEF Frame
<1>4. g.cache["locked"] = f.cache["locked"] /\ g.cache["depth"] = f.cache["depth"]
  BY <1>3 DEF Updated, Slot
<1>5. GuardApplies(g) <=> GuardApplies(Top)
  BY <1>3 DEF GuardApplies
<1>6. FrameOK(g, TRUE)
  BY <1>1, <1>2, <1>3, <1>4, <1>5 DEF FrameOK
<1>7. S \in SUBSET Slot /\ "depth" \notin S /\ "locked" \notin S
  BY DEF Slot
<1> QED BY <1>1, <1>6, <1>7, NeutralStep

\* The histories stay what they are.
LEMMA RecordType ==
    ASSUME IInv, Running, Record
    PROVE  applied' \in [Contract -> Nat] /\ bypassed' \in SUBSET Contract
<1>1. Top.contract \in Contract
  BY TopFacts
<1> QED BY <1>1, SMTT(20) DEF IInv, TypeOK, Record

\* The body of a method spends gas, of which some is left.
LEMMA SpendType ==
    ASSUME IInv, Spend
    PROVE  In("body") /\ Running /\ gas' \in 0..MaxGas /\ Top.phase = "body"
  BY BoundAssumption DEF IInv, TypeOK, Spend, In

\* A load fills the local variable and the cache, and leaves the guard alone.
LEMMA LoadInv == ASSUME IInv, Load PROVE IInv'
<1>1. In("body") /\ Running /\ gas' \in 0..MaxGas /\ Top.phase = "body"
  BY SpendType DEF Load
<1>2. /\ Top \in Frame /\ FrameOK(Top, TRUE) /\ ValueAt(Top, "data") \in SlotValue
      /\ Top.cache \in [Slot -> SlotValue \cup {NotCached}]
  BY <1>1, TopFacts DEF Slot
<1> DEFINE c == [Top.cache EXCEPT !["data"] = ValueAt(Top, "data")]
           f == [Reading(Top, "data") EXCEPT !.reg = ValueAt(Top, "data")]
<1>3. c \in [Slot -> SlotValue \cup {NotCached}]
  BY <1>2
<1>4. c["locked"] = Top.cache["locked"] /\ c["depth"] = Top.cache["depth"]
  BY <1>2 DEF Slot
<1>5. f = [Top EXCEPT !.cache = c, !.reg = ValueAt(Top, "data")]
  BY <1>2 DEF Reading, Frame
<1> HIDE DEF c
<1>6. /\ f \in Frame /\ f.contract = Top.contract /\ f.entered = Top.entered
      /\ f.before = Top.before /\ f.selector = Top.selector /\ f.phase = "body"
      /\ f.cache = c
  BY <1>1, <1>2, <1>3, <1>5 DEF Frame
<1>7. f.cache["locked"] # Unset /\ f.cache["depth"] = Top.cache["depth"]
  BY <1>2, <1>4, <1>6 DEF FrameOK
<1>8. Continue(f, NoWrite) /\ NoWrite \in [{} -> SlotValue]
  BY DEF Load, NoWrite
<1>9. applied' \in [Contract -> Nat] /\ bypassed' \in SUBSET Contract
  BY DEF Load, IInv, TypeOK
<1> HIDE DEF f
<1> QED BY <1>1, <1>6, <1>7, <1>8, <1>9, BodyStep

\* A store writes the data slot only.
LEMMA StoreInv == ASSUME IInv, Store PROVE IInv'
<1>1. In("body") /\ Running /\ gas' \in 0..MaxGas /\ Top.phase = "body"
  BY SpendType DEF Store
<1>2. Top \in Frame /\ FrameOK(Top, TRUE)
  BY <1>1, TopFacts
<1>3. Top.reg + 1 \in SlotValue
  BY <1>2, BoundAssumption DEF Store, Frame, SlotValue, NotCached
<1> DEFINE f == [Top EXCEPT !.reg = Top.reg + 1]
           w == [s \in {"data"} |-> Top.reg + 1]
<1>4. /\ f \in Frame /\ f.contract = Top.contract /\ f.entered = Top.entered
      /\ f.before = Top.before /\ f.selector = Top.selector /\ f.phase = "body"
      /\ f.cache = Top.cache
  BY <1>1, <1>2, <1>3 DEF Frame
<1>5. f.cache["locked"] # Unset
  BY <1>2, <1>4 DEF FrameOK
<1>6. Continue(f, w) /\ w \in [{"data"} -> SlotValue]
  BY <1>3 DEF Store
<1>7. applied' \in [Contract -> Nat] /\ bypassed' \in SUBSET Contract
  BY <1>1, RecordType DEF Store
<1> HIDE DEF f, w
<1> QED BY <1>1, <1>4, <1>5, <1>6, <1>7, BodyStep

\* An increment reads and writes the data slot only.
LEMMA AddInv == ASSUME IInv, Add PROVE IInv'
<1>1. In("body") /\ Running /\ gas' \in 0..MaxGas /\ Top.phase = "body"
  BY SpendType DEF Add
<1>2. Top \in Frame /\ FrameOK(Top, TRUE) /\ ValueAt(Top, "data") \in SlotValue
  BY <1>1, TopFacts DEF Slot
<1> DEFINE v == ValueAt(Top, "data") + 1
<1>3. v \in SlotValue
  BY <1>2, BoundAssumption DEF Add, SlotValue
<1> HIDE DEF v
<1> DEFINE f == [Top EXCEPT !.reg = v]
           w == [s \in {"data"} |-> v]
<1>4. /\ f \in Frame /\ f.contract = Top.contract /\ f.entered = Top.entered
      /\ f.before = Top.before /\ f.selector = Top.selector /\ f.phase = "body"
      /\ f.cache = Top.cache
  BY <1>1, <1>2, <1>3 DEF Frame
<1>5. f.cache["locked"] # Unset
  BY <1>2, <1>4 DEF FrameOK
<1>6. Continue(f, w) /\ w \in [{"data"} -> SlotValue]
  BY <1>3 DEF Add, v
<1>7. applied' \in [Contract -> Nat] /\ bypassed' \in SUBSET Contract
  BY <1>1, RecordType DEF Add
<1> HIDE DEF f, w
<1> QED BY <1>1, <1>4, <1>5, <1>6, <1>7, BodyStep

\* An increment that overflows makes the frame fail.
LEMMA AddOverflowInv == ASSUME IInv, AddOverflow PROVE IInv'
<1>1. In("body") /\ Running /\ gas' \in 0..MaxGas /\ Top.phase = "body"
  BY SpendType DEF AddOverflow
<1>2. /\ Top \in Frame /\ FrameOK(Top, TRUE) /\ ValueAt(Top, "data") \in SlotValue
      /\ Top.cache \in [Slot -> SlotValue \cup {NotCached}]
  BY <1>1, TopFacts DEF Slot
<1> DEFINE c == [Top.cache EXCEPT !["data"] = ValueAt(Top, "data")]
           f == [Reading(Top, "data") EXCEPT !.phase = "reverted"]
<1>3. c \in [Slot -> SlotValue \cup {NotCached}]
  BY <1>2
<1>4. c["locked"] = Top.cache["locked"] /\ c["depth"] = Top.cache["depth"]
  BY <1>2 DEF Slot
<1>5. f = [Top EXCEPT !.cache = c, !.phase = "reverted"]
  BY <1>2 DEF Reading, Frame
<1> HIDE DEF c
<1>6. /\ f \in Frame /\ f.contract = Top.contract /\ f.entered = Top.entered
      /\ f.before = Top.before /\ f.selector = Top.selector /\ f.phase = "reverted"
      /\ f.cache = c
  BY <1>2, <1>3, <1>5 DEF Frame, Phase
<1>7. f.cache["locked"] # Unset /\ f.cache["depth"] = Top.cache["depth"]
  BY <1>2, <1>4, <1>6 DEF FrameOK
<1>8. Continue(f, NoWrite) /\ NoWrite \in [{} -> SlotValue]
  BY DEF AddOverflow, NoWrite
<1>9. applied' \in [Contract -> Nat] /\ bypassed' \in SUBSET Contract
  BY DEF AddOverflow, IInv, TypeOK
<1> HIDE DEF f
<1> QED BY <1>1, <1>6, <1>7, <1>8, <1>9, BodyStep

\* Reading the guard initialises its lock at most.
LEMMA ObserveGuardInv == ASSUME IInv, ObserveGuard PROVE IInv'
<1>1. In("body") /\ Running /\ gas' \in 0..MaxGas /\ Top.phase = "body"
  BY SpendType DEF ObserveGuard
<1>2. /\ Top \in Frame /\ FrameOK(Top, TRUE)
      /\ \A s \in Slot : ValueAt(Top, s) \in SlotValue
      /\ Top.cache \in [Slot -> SlotValue \cup {NotCached}]
  BY <1>1, TopFacts
<1> DEFINE lk == ValueAt(Top, "locked")
           dp == ValueAt(Top, "depth")
           c == [[Top.cache EXCEPT !["locked"] = lk] EXCEPT !["depth"] = dp]
           f == Reading(Reading(Top, "locked"), "depth")
<1>3. /\ lk \in SlotValue /\ dp \in SlotValue
      /\ (lk = Unset => host[Top.contract]["locked"] = Unset)
      /\ (Top.cache["depth"] = 1 => dp = 1)
  BY <1>2 DEF ValueAt, FrameOK, Slot, NotCached
<1>4. ValueAt(Reading(Top, "locked"), "depth") = dp
  BY <1>2 DEF Reading, ValueAt, Frame, Slot
<1>5. c \in [Slot -> SlotValue \cup {NotCached}] /\ c["locked"] = lk /\ c["depth"] = dp
  BY <1>2, <1>3 DEF Slot
<1>6. f = [Top EXCEPT !.cache = c]
  BY <1>2, <1>4 DEF Reading, Frame
<1> HIDE DEF c, lk, dp
<1>7. /\ f \in Frame /\ f.contract = Top.contract /\ f.entered = Top.entered
      /\ f.before = Top.before /\ f.selector = Top.selector /\ f.phase = "body"
      /\ f.cache = c
  BY <1>1, <1>2, <1>5, <1>6 DEF Frame
<1> HIDE DEF f
<1> DEFINE S == IF lk = Unset THEN {"locked"} ELSE {}
           w == [s \in S |-> False]
           g == [f EXCEPT !.cache = Updated(f.cache, w)]
<1>8. f.cache["locked"] = lk
  BY <1>5, <1>7
<1>9. Continue(f, w)
  <2>1. CASE lk = Unset
    <3>1. Continue(f, [s \in {"locked"} |-> False])
      BY <2>1, <1>8 DEF ObserveGuard, f
    <3> QED BY <3>1, <2>1
  <2>2. CASE lk # Unset
    <3>1. Continue(f, NoWrite)
      BY <2>2, <1>8 DEF ObserveGuard, f
    <3>2. w = NoWrite
      BY <2>2 DEF NoWrite
    <3> QED BY <3>1, <3>2
  <2> QED BY <2>1, <2>2
<1>10. S \in SUBSET Slot /\ w \in [S -> SlotValue] /\ "depth" \notin S
  BY BoundAssumption DEF Slot, SlotValue, False
<1>11. "locked" \in S => w["locked"] # True /\ host[f.contract]["locked"] # True
  BY <1>3, <1>7 DEF True, False, Unset
<1>12. /\ g.contract = Top.contract /\ g.entered = Top.entered /\ g.phase = "body"
       /\ g.selector = Top.selector /\ g.cache = Updated(f.cache, w)
  BY <1>7 DEF Frame
<1>13. g.cache["locked"] # Unset /\ g.cache["depth"] = dp
  BY <1>5, <1>7, <1>12 DEF Updated, Slot, False, Unset
<1>14. GuardApplies(g) <=> GuardApplies(Top)
  BY <1>12 DEF GuardApplies
<1>15. FrameOK(g, TRUE)
  BY <1>1, <1>2, <1>3, <1>12, <1>13, <1>14 DEF FrameOK
<1>16. applied' \in [Contract -> Nat] /\ bypassed' \in SUBSET Contract
  BY DEF ObserveGuard, IInv, TypeOK
<1> HIDE DEF S, w
<1> QED BY <1>1, <1>7, <1>9, <1>10, <1>11, <1>15, <1>16, NeutralStep

-----------------------------------------------------------------------------
\* A new frame on top of the stack, its caller suspended.
LEMMA PushStep ==
    ASSUME IInv, NEW c \in Contract, NEW sel \in Selector, NEW stop \in BOOLEAN,
           NEW s \in Seq(Frame), Len(s) = Len(stack),
           \A i \in 1..Len(stack) :
               /\ s[i].contract = stack[i].contract /\ s[i].entered = stack[i].entered
               /\ s[i].before = stack[i].before
               /\ FrameOK(s[i], FALSE),
           stack' = Append(s, NewFrame(c, sel, stop)),
           gas' \in 0..MaxGas, UNCHANGED <<host, applied, bypassed>>
    PROVE  IInv'
<1> SUFFICES ASSUME NEW CONSTANT k, k = Len(stack) PROVE IInv'
  OBVIOUS
<1> DEFINE n == NewFrame(c, sel, stop)
<1>1. TypeOK /\ k \in Nat
  BY DEF IInv, TypeOK
<1>2. Now \in World
  BY <1>1 DEF Now, World, TypeOK
<1>3. /\ n \in Frame /\ n.contract = c /\ ~n.entered /\ n.before = Now
      /\ n.phase = "started" /\ n.cache = [x \in Slot |-> NotCached]
  BY <1>2 DEF NewFrame, Frame, Phase
<1> HIDE DEF n
<1>4. stack' \in Seq(Frame) /\ Len(stack') = k + 1 /\ stack'[k + 1] = n
  BY <1>1, <1>3 DEF n
<1>5. \A i \in 1..k : stack'[i] = s[i]
  BY <1>1
<1>6. TypeOK'
  BY <1>1, <1>4 DEF TypeOK
<1>7. FrameOK(n, TRUE)
  BY <1>3 DEF FrameOK, Slot, NotCached, Unset
<1>8. FramesOK'
  <2>1. ASSUME NEW i \in 1..k PROVE FrameOK(stack'[i], i = k + 1)
    <3>1. FrameOK(s[i], FALSE)
      OBVIOUS
    <3>2. stack'[i] = s[i] /\ i # k + 1
      BY <1>1, <1>5
    <3> QED BY <3>1, <3>2 DEF FrameOK
  <2>2. FrameOK(stack'[k + 1], k + 1 = k + 1)
    BY <1>4, <1>7
  <2>3. \A i \in 1..(k + 1) : FrameOK(stack'[i], i = k + 1)
    BY <1>1, <2>1, <2>2
  <2> QED BY <2>3, <1>4 DEF FramesOK
<1>9. \A i \in 1..k : /\ stack'[i].contract = stack[i].contract
                      /\ stack'[i].entered = stack[i].entered
                      /\ stack'[i].before = stack[i].before
  BY <1>5
<1>10. MutualExclusion'
  <2> SUFFICES ASSUME NEW i \in 1..(k + 1), NEW j \in 1..(k + 1),
                      stack'[i].entered, stack'[j].entered,
                      stack'[i].contract = stack'[j].contract
               PROVE  i = j
    BY <1>4 DEF MutualExclusion, Entered
  <2>1. i # k + 1 /\ j # k + 1
    BY <1>3, <1>4
  <2>2. i \in 1..k /\ j \in 1..k
    BY <1>1, <2>1
  <2>3. stack[i].entered /\ stack[j].entered /\ stack[i].contract = stack[j].contract
    BY <1>9, <2>2
  <2> QED BY <2>2, <2>3 DEF IInv, MutualExclusion, Entered
<1>11. \A d \in Contract, m \in 0..k : HoldsBelow(d, m)' <=> HoldsBelow(d, m)
  BY <1>1, <1>9, SMTT(20) DEF HoldsBelow, Entered
<1>12. \A d \in Contract : HoldsBelow(d, k + 1)' <=> HoldsBelow(d, k)
  BY <1>1, <1>3, <1>4, <1>9 DEF HoldsBelow, Entered
<1>13. GuardAgrees(host, k)
  BY DEF IInv
<1>14. GuardAgrees(host, Len(stack))'
  BY <1>4, <1>12, <1>13 DEF GuardAgrees
<1>15. \A i \in 1..(k + 1) : GuardAgrees(stack[i].before.host, i - 1)'
  <2>1. ASSUME NEW i \in 1..k PROVE GuardAgrees(stack[i].before.host, i - 1)'
    <3>1. GuardAgrees(stack[i].before.host, i - 1)
      BY DEF IInv
    <3> QED BY <1>1, <3>1, <1>9, <1>11 DEF GuardAgrees
  <2>2. GuardAgrees(stack[k + 1].before.host, k)'
    BY <1>1, <1>3, <1>4, <1>11, <1>13 DEF GuardAgrees, Now
  <2> QED BY <1>1, <2>1, <2>2
<1> QED BY <1>4, <1>6, <1>8, <1>10, <1>14, <1>15 DEF IInv

\* A transaction starts with one frame, which has not entered.
LEMMA BeginInv ==
    ASSUME IInv, NEW c \in Contract, NEW sel \in Selector, BeginTransaction(c, sel)
    PROVE  IInv'
<1>1. stack' = Append(<<>>, NewFrame(c, sel, TRUE)) /\ stack = <<>>
  BY DEF BeginTransaction
<1>2. <<>> \in Seq(Frame) /\ Len(<<>>) = Len(stack)
  BY <1>1
<1>3. gas' \in 0..MaxGas /\ UNCHANGED <<host, applied, bypassed>>
  BY BoundAssumption DEF BeginTransaction
<1>4. \A i \in 1..Len(stack) :
         /\ <<>>[i].contract = stack[i].contract /\ <<>>[i].entered = stack[i].entered
         /\ <<>>[i].before = stack[i].before
         /\ FrameOK(<<>>[i], FALSE)
  BY <1>1
<1> QED BY <1>1, <1>2, <1>3, <1>4, PushStep

\* A call adds a frame that has not entered yet.
LEMMA CallInv ==
    ASSUME IInv, NEW c \in Contract, NEW sel \in Selector, NEW stop \in BOOLEAN,
           Call(c, sel, stop)
    PROVE  IInv'
<1>1. Running /\ gas' \in 0..MaxGas /\ Top.phase = "body"
  BY SpendType DEF Call
<1>2. /\ Top \in Frame /\ FrameOK(Top, TRUE)
      /\ Len(stack) \in Nat \ {0} /\ Len(stack) \in 1..Len(stack)
  BY <1>1, TopFacts
<1> DEFINE f == [Top EXCEPT !.phase = "calling"]
           s == ReplaceTop(f)
<1>3. /\ f \in Frame /\ f.contract = Top.contract /\ f.entered = Top.entered
      /\ f.before = Top.before /\ f.selector = Top.selector /\ f.phase = "calling"
      /\ f.cache = Top.cache
  BY <1>2 DEF Frame, Phase
<1>4. GuardApplies(f) <=> GuardApplies(Top)
  BY <1>3 DEF GuardApplies
<1>5. FrameOK(f, FALSE)
  BY <1>1, <1>2, <1>3, <1>4 DEF FrameOK
<1> HIDE DEF f
<1>6. /\ s \in Seq(Frame) /\ Len(s) = Len(stack) /\ s[Len(stack)] = f
      /\ \A i \in 1..Len(stack) : i # Len(stack) => s[i] = stack[i]
  BY <1>2, <1>3 DEF ReplaceTop, IInv, TypeOK
<1>7. stack' = Append(s, NewFrame(c, sel, stop)) /\ UNCHANGED <<host, applied, bypassed>>
  BY DEF Call, f
<1> HIDE DEF s
<1>8. ASSUME NEW i \in 1..Len(stack)
      PROVE  /\ s[i].contract = stack[i].contract /\ s[i].entered = stack[i].entered
             /\ s[i].before = stack[i].before
             /\ FrameOK(s[i], FALSE)
  <2>1. CASE i = Len(stack)
    BY <2>1, <1>3, <1>5, <1>6 DEF Top
  <2>2. CASE i # Len(stack)
    <3>1. FrameOK(stack[i], i = Len(stack)) /\ s[i] = stack[i]
      BY <2>2, <1>6 DEF IInv, FramesOK
    <3> QED BY <2>2, <3>1 DEF FrameOK
  <2> QED BY <2>1, <2>2
<1> QED BY <1>1, <1>6, <1>7, <1>8, PushStep

-----------------------------------------------------------------------------
\* Dropping the innermost frames: m of them are left, and the storage agrees with those.
LEMMA Truncation ==
    ASSUME IInv, NEW m \in Nat, m <= Len(stack),
           stack' \in Seq(Frame), Len(stack') = m,
           \A i \in 1..m : /\ stack'[i].contract = stack[i].contract
                           /\ stack'[i].entered = stack[i].entered
                           /\ stack'[i].before = stack[i].before,
           FramesOK',
           host' \in [Contract -> [Slot -> SlotValue]],
           GuardAgrees(host', m),
           applied' \in [Contract -> Nat], bypassed' \in SUBSET Contract,
           gas' \in 0..MaxGas
    PROVE  IInv'
<1>1. Len(stack) \in Nat /\ 1..m \subseteq 1..Len(stack)
  BY DEF IInv, TypeOK
<1>2. MutualExclusion'
  BY <1>1 DEF IInv, MutualExclusion, Entered
<1>3. ASSUME NEW c \in Contract, NEW n \in 0..m
      PROVE  HoldsBelow(c, n)' <=> HoldsBelow(c, n)
  <2>1. \A i \in 1..n : /\ stack'[i].contract = stack[i].contract
                        /\ stack'[i].entered = stack[i].entered
    OBVIOUS
  <2> QED BY <2>1 DEF HoldsBelow, Entered
<1>4. GuardAgrees(host, Len(stack))'
  BY <1>3 DEF GuardAgrees
<1>5. ASSUME NEW i \in 1..m PROVE GuardAgrees(stack[i].before.host, i - 1)'
  <2>1. GuardAgrees(stack[i].before.host, i - 1)
    BY <1>1 DEF IInv
  <2> QED BY <2>1, <1>3 DEF GuardAgrees
<1>6. TypeOK'
  BY DEF TypeOK
<1> QED BY <1>2, <1>4, <1>5, <1>6 DEF IInv

\* The running frame ends and its caller, if there is one, goes on in phase p over the
\* storage h, which agrees with the frames that are left.
LEMMA PopStep ==
    ASSUME IInv, Running, NEW p \in {"body", "reverted"},
           stack' = IF Len(stack) = 1 THEN <<>>
                    ELSE [Caller EXCEPT ![Len(stack) - 1].phase = p],
           host' \in [Contract -> [Slot -> SlotValue]],
           GuardAgrees(host', Len(stack) - 1),
           applied' \in [Contract -> Nat], bypassed' \in SUBSET Contract,
           gas' \in 0..MaxGas
    PROVE  IInv'
<1> SUFFICES ASSUME NEW CONSTANT k, k = Len(stack) PROVE IInv'
  OBVIOUS
<1>1. TypeOK /\ k \in Nat \ {0} /\ stack \in Seq(Frame)
  BY TopIsFrame DEF IInv, TypeOK
<1>2. Caller \in Seq(Frame) /\ Len(Caller) = k - 1 /\ \A i \in 1..(k - 1) : Caller[i] = stack[i]
  BY <1>1 DEF Caller
<1>3. CASE k = 1
  <2>1. stack' = <<>> /\ Len(stack') = 0
    BY <1>3
  <2>2. \A c \in Contract : HoldsBelow(c, 0)' <=> HoldsBelow(c, 0)
    BY DEF HoldsBelow
  <2>3. GuardAgrees(host, 0)'
    BY <1>3, <2>2 DEF GuardAgrees
  <2>4. <<>> \in Seq(Frame)
    OBVIOUS
  <2>5. TypeOK'
    BY <2>1, <2>4 DEF TypeOK
  <2>6. FramesOK'
    BY <2>1 DEF FramesOK
  <2>7. MutualExclusion'
    BY <2>1 DEF MutualExclusion
  <2>8. GuardAgrees(host, Len(stack))'
    BY <2>1, <2>3
  <2>9. \A i \in 1..Len(stack') : GuardAgrees(stack[i].before.host, i - 1)'
    BY <2>1
  <2> QED BY <2>5, <2>6, <2>7, <2>8, <2>9 DEF IInv
<1>4. CASE k # 1
  <2> SUFFICES ASSUME NEW CONSTANT m, m = k - 1 PROVE IInv'
    OBVIOUS
  <2> DEFINE f == [stack[m] EXCEPT !.phase = p]
  <2>1. m \in Nat \ {0} /\ m \in 1..m /\ m \in 1..k
    BY <1>1, <1>4
  <2>2. stack[m] \in Frame /\ FrameOK(stack[m], FALSE)
    <3>1. FrameOK(stack[m], m = Len(stack))
      BY <2>1 DEF IInv, FramesOK
    <3>2. m # Len(stack)
      BY <1>1
    <3> QED BY <1>1, <2>1, <3>1, <3>2 DEF FrameOK
  <2>3. /\ f \in Frame /\ f.contract = stack[m].contract /\ f.entered = stack[m].entered
        /\ f.before = stack[m].before /\ f.selector = stack[m].selector /\ f.phase = p
        /\ f.cache = stack[m].cache
    BY <2>2 DEF Frame, Phase
  <2>4. GuardApplies(f) <=> GuardApplies(stack[m])
    BY <2>3 DEF GuardApplies
  <2>5. FrameOK(f, TRUE)
    BY <2>2, <2>3, <2>4 DEF FrameOK
  <2>6. stack' = [Caller EXCEPT ![m] = f]
    BY <1>2, <1>4, <2>1
  <2> HIDE DEF f
  <2>7. /\ stack' \in Seq(Frame) /\ Len(stack') = m /\ stack'[m] = f
        /\ \A i \in 1..m : i # m => stack'[i] = stack[i]
    BY <1>2, <2>1, <2>3, <2>6
  <2>8. \A i \in 1..m : /\ stack'[i].contract = stack[i].contract
                        /\ stack'[i].entered = stack[i].entered
                        /\ stack'[i].before = stack[i].before
    BY <2>3, <2>7
  <2>9. FramesOK'
    <3>1. ASSUME NEW i \in 1..m, i # m PROVE FrameOK(stack'[i], i = m)
      <4>1. FrameOK(stack[i], i = Len(stack)) /\ i # Len(stack) /\ stack'[i] = stack[i]
        BY <1>1, <2>7, <3>1 DEF IInv, FramesOK
      <4> QED BY <3>1, <4>1 DEF FrameOK
    <3>2. FrameOK(stack'[m], m = m)
      BY <2>5, <2>7
    <3>3. \A i \in 1..m : FrameOK(stack'[i], i = m)
      BY <3>1, <3>2
    <3> QED BY <3>3, <2>7 DEF FramesOK
  <2>10. m \in Nat /\ m <= Len(stack) /\ GuardAgrees(host', m)
    BY <1>1
  <2> QED BY <2>7, <2>8, <2>9, <2>10, Truncation
<1> QED BY <1>3, <1>4

\* Frames inside contract c other than the running one.
LEMMA HoldsSplit ==
    ASSUME IInv, Running, NEW c \in Contract
    PROVE  HoldsBelow(c, Len(stack)) <=>
             \/ HoldsBelow(c, Len(stack) - 1)
             \/ Top.entered /\ Top.contract = c
<1>1. Len(stack) \in Nat \ {0}
  BY TopFacts
<1> QED BY <1>1 DEF HoldsBelow, Entered, Top

\* A frame that returns has left its guard.
LEMMA ReturnInv == ASSUME IInv, Return PROVE IInv'
<1>1. Running /\ Top.phase = "completed"
  BY DEF Return, In
<1>2. FrameOK(Top, TRUE) /\ Len(stack) \in Nat \ {0}
  BY <1>1, TopFacts
<1>3. \A c \in Contract : HoldsBelow(c, Len(stack)) <=> HoldsBelow(c, Len(stack) - 1)
  BY <1>1, <1>2, HoldsSplit DEF FrameOK
<1>4. GuardAgrees(host', Len(stack) - 1)
  BY <1>3 DEF IInv, GuardAgrees, Return
<1>5. /\ host' \in [Contract -> [Slot -> SlotValue]] /\ gas' \in 0..MaxGas
      /\ applied' \in [Contract -> Nat] /\ bypassed' \in SUBSET Contract
  BY DEF Return, IInv, TypeOK
<1>6. stack' = IF Len(stack) = 1 THEN <<>>
               ELSE [Caller EXCEPT ![Len(stack) - 1].phase = "body"]
  BY DEF Return
<1>7. "body" \in {"body", "reverted"}
  OBVIOUS
<1> QED BY <1>1, <1>4, <1>5, <1>6, <1>7, PopStep

\* A failure brings back a storage that agrees with the frames that are left.
LEMMA UnwindInv == ASSUME IInv, Unwind PROVE IInv'
<1>1. Running
  BY DEF Unwind, In
<1>2. Top \in Frame /\ Len(stack) \in Nat \ {0} /\ Len(stack) \in 1..Len(stack)
  BY <1>1, TopFacts
<1>3. Top.before \in World
  BY <1>2 DEF Frame
<1>4. /\ host' \in [Contract -> [Slot -> SlotValue]]
      /\ applied' \in [Contract -> Nat] /\ bypassed' \in SUBSET Contract
  BY <1>3 DEF Unwind, World
<1>5. gas' \in 0..MaxGas
  BY DEF Unwind, IInv, TypeOK
<1>6. GuardAgrees(host', Len(stack) - 1)
  <2>1. GuardAgrees(stack[Len(stack)].before.host, Len(stack) - 1)
    BY <1>2 DEF IInv
  <2> QED BY <2>1 DEF Unwind, Top
<1> DEFINE p == IF Top.stop THEN "reverted" ELSE "body"
<1>7. p \in {"body", "reverted"}
  OBVIOUS
<1>8. stack' = IF Len(stack) = 1 THEN <<>>
               ELSE [Caller EXCEPT ![Len(stack) - 1].phase = p]
  BY DEF Unwind
<1> HIDE DEF p
<1> QED BY <1>1, <1>4, <1>5, <1>6, <1>7, <1>8, PopStep

-----------------------------------------------------------------------------
\* The guard lets the frame in only when nobody is inside.
LEMMA StartGuardedInv == ASSUME IInv, StartGuarded PROVE IInv'
<1> SUFFICES ASSUME NEW CONSTANT k, k = Len(stack), NEW CONSTANT e, e = Top.contract
             PROVE  IInv'
  OBVIOUS
<1>1. Running /\ Top.phase = "started" /\ GuardApplies(Top) /\ ~Blocked(Top)
  BY DEF StartGuarded, In
<1>2. /\ Top \in Frame /\ FrameOK(Top, TRUE) /\ e \in Contract
      /\ k \in Nat \ {0} /\ k \in 1..k
      /\ host[e] \in [Slot -> SlotValue]
      /\ Top.cache \in [Slot -> SlotValue \cup {NotCached}]
  BY <1>1, TopFacts
<1>3. /\ ~Top.entered /\ Top.cache = [s \in Slot |-> NotCached]
      /\ \A s \in Slot : ValueAt(Top, s) = host[e][s]
  BY <1>1, <1>2 DEF FrameOK, ValueAt
<1>4. Level[e] \in {"STANDARD", "CALLBACK"}
  BY <1>1, <1>2, LevelAssumption DEF GuardApplies, Guarded, Levels
<1>5. /\ Guarded(e)
      /\ Level[e] = "STANDARD" => host[e]["locked"] # True
      /\ Level[e] = "CALLBACK" => host[e]["depth"] = 0
  BY <1>1, <1>2, <1>3, <1>4 DEF Blocked, Slot, SlotValue, Guarded
<1>6. ~HoldsBelow(e, k)
  BY <1>2, <1>4, <1>5 DEF IInv, GuardAgrees
<1> DEFINE f == [Top EXCEPT !.phase = "body", !.entered = TRUE]
           S == IF Level[e] = "STANDARD" THEN {"locked"} ELSE {"locked", "depth"}
           w == Acquire(Top)
           g == [f EXCEPT !.cache = Updated(f.cache, w)]
<1>7. w \in [S -> SlotValue] /\ w["locked"] = True /\ (Level[e] = "CALLBACK" => w["depth"] = 1)
  <2>1. CASE Level[e] = "STANDARD"
    <3>1. w = [s \in {"locked"} |-> True]
      BY <2>1 DEF Acquire
    <3>2. S = {"locked"} /\ True \in SlotValue
      BY <2>1, BoundAssumption DEF True, SlotValue
    <3> HIDE DEF w, S
    <3> QED BY <2>1, <3>1, <3>2
  <2>2. CASE Level[e] = "CALLBACK"
    <3>1. ValueAt(Top, "depth") = 0
      BY <1>3, <1>5, <2>2 DEF Slot
    <3>2. w = [s \in {"depth", "locked"} |-> IF s = "depth" THEN 1 ELSE True]
      BY <2>2, <3>1 DEF Acquire
    <3>3. S = {"depth", "locked"} /\ True \in SlotValue /\ 1 \in SlotValue
      BY <2>2, BoundAssumption DEF True, SlotValue
    <3> HIDE DEF w, S
    <3> QED BY <3>2, <3>3
  <2> QED BY <1>4, <2>1, <2>2
<1>8. S \in SUBSET Slot /\ "locked" \in S /\ (Level[e] = "CALLBACK" => "depth" \in S)
  BY DEF Slot
<1>9. /\ f \in Frame /\ f.contract = e /\ f.entered /\ f.before = Top.before
      /\ f.phase = "body" /\ f.selector = Top.selector /\ f.cache = Top.cache
  BY <1>2 DEF Frame, Phase
<1>10. Continue(f, w) /\ gas' = gas /\ applied' = applied /\ bypassed' = bypassed
  BY DEF StartGuarded
<1> HIDE DEF f, w, S
<1>11. TypeOK
  BY DEF IInv
<1>12. /\ stack' \in Seq(Frame) /\ Len(stack') = k
       /\ host' \in [Contract -> [Slot -> SlotValue]]
       /\ \A i \in 1..k : i # k => stack'[i] = stack[i]
       /\ stack'[k] = g
       /\ host'[e] = Updated(host[e], w)
       /\ \A c \in Contract : c # e => host'[c] = host[c]
  <2>1. f.contract = Top.contract /\ w \in [S -> SlotValue] /\ S \in SUBSET Slot
    BY <1>7, <1>8, <1>9
  <2>2. /\ stack' \in Seq(Frame) /\ Len(stack') = Len(stack)
        /\ host' \in [Contract -> [Slot -> SlotValue]]
        /\ \A i \in 1..Len(stack) : i # Len(stack) => stack'[i] = stack[i]
        /\ stack'[Len(stack)] = [f EXCEPT !.cache = Updated(f.cache, w)]
        /\ host'[f.contract] = Updated(host[f.contract], w)
        /\ \A c \in Contract : c # f.contract => host'[c] = host[c]
    BY <2>1, <1>1, <1>9, <1>10, <1>11, ContinueStep
  <2> QED BY <2>2, <1>9
<1>13. /\ g.contract = e /\ g.entered /\ g.before = Top.before
       /\ g.phase = "body" /\ g.selector = Top.selector /\ g.cache = Updated(f.cache, w)
  BY <1>9 DEF Frame
<1>14. /\ g.cache["locked"] = True /\ (Level[e] = "CALLBACK" => g.cache["depth"] = 1)
       /\ host'[e]["locked"] = True /\ (Level[e] = "CALLBACK" => host'[e]["depth"] = 1)
  BY <1>7, <1>8, <1>12, <1>13 DEF Updated, Slot
<1>15. GuardApplies(g)
  BY <1>1, <1>13 DEF GuardApplies
<1>16. FrameOK(g, TRUE)
  BY <1>13, <1>14, <1>15 DEF FrameOK, True, Unset
<1> HIDE DEF g
<1>17. TypeOK'
  BY <1>10, <1>11, <1>12 DEF TypeOK
<1>18. FramesOK'
  <2>1. ASSUME NEW i \in 1..k, i # k PROVE FrameOK(stack'[i], i = k)
    <3>1. FrameOK(stack[i], i = Len(stack)) /\ i # Len(stack) /\ stack'[i] = stack[i]
      BY <1>12, <2>1 DEF IInv, FramesOK
    <3> QED BY <2>1, <3>1 DEF FrameOK
  <2>2. FrameOK(stack'[k], k = k)
    BY <1>12, <1>16
  <2>3. \A i \in 1..k : FrameOK(stack'[i], i = k)
    BY <2>1, <2>2
  <2> QED BY <2>3, <1>12 DEF FramesOK
<1>19. \A i \in 1..k : /\ stack'[i].contract = stack[i].contract
                       /\ stack'[i].before = stack[i].before
                       /\ i # k => stack'[i].entered = stack[i].entered
  BY <1>12, <1>13 DEF Top
<1>20. \A i \in 1..k : stack[i].entered => stack[i].contract # e
  BY <1>6 DEF HoldsBelow, Entered
<1>21. stack'[k].entered /\ stack'[k].contract = e
  BY <1>12, <1>13
<1>22. MutualExclusion'
  <2>1. ASSUME NEW i \in 1..k, NEW j \in 1..k, stack'[i].entered, stack'[j].entered,
               stack'[i].contract = stack'[j].contract
        PROVE  i = j
    BY <2>1, <1>19, <1>20, <1>21 DEF IInv, MutualExclusion, Entered
  <2> QED BY <2>1, <1>12 DEF MutualExclusion, Entered
<1>23. \A c \in Contract, n \in 0..(k - 1) : HoldsBelow(c, n)' <=> HoldsBelow(c, n)
  <2>1. ASSUME NEW c \in Contract, NEW n \in 0..(k - 1)
        PROVE  HoldsBelow(c, n)' <=> HoldsBelow(c, n)
    <3>1. \A i \in 1..n : /\ stack'[i].contract = stack[i].contract
                          /\ stack'[i].entered = stack[i].entered
      BY <1>2, <1>19
    <3> QED BY <3>1 DEF HoldsBelow, Entered
  <2> QED BY <2>1
<1>24. HoldsBelow(e, k)'
  BY <1>2, <1>21 DEF HoldsBelow, Entered
<1>25. \A c \in Contract : c # e => (HoldsBelow(c, k)' <=> HoldsBelow(c, k))
  <2>1. ASSUME NEW c \in Contract, c # e PROVE HoldsBelow(c, k)' <=> HoldsBelow(c, k)
    <3>1. \A i \in 1..k : (stack'[i].entered /\ stack'[i].contract = c)
                             <=> (stack[i].entered /\ stack[i].contract = c)
      BY <1>19, <1>21, <2>1
    <3> QED BY <3>1 DEF HoldsBelow, Entered
  <2> QED BY <2>1
<1>26. GuardAgrees(host, Len(stack))'
  <2>1. ASSUME NEW c \in Contract
        PROVE  /\ Guarded(c) => (host'[c]["locked"] = True <=> HoldsBelow(c, k)')
               /\ Level[c] = "CALLBACK" => host'[c]["depth"] = IF HoldsBelow(c, k)' THEN 1 ELSE 0
    <3>1. CASE c = e
      BY <3>1, <1>14, <1>24
    <3>2. CASE c # e
      BY <3>2, <1>12, <1>25 DEF IInv, GuardAgrees
    <3> QED BY <3>1, <3>2
  <2> QED BY <2>1, <1>12 DEF GuardAgrees
<1>27. ASSUME NEW i \in 1..k PROVE GuardAgrees(stack[i].before.host, i - 1)'
  <2>1. GuardAgrees(stack[i].before.host, i - 1)
    BY DEF IInv
  <2>2. stack'[i].before = stack[i].before /\ i - 1 \in 0..(k - 1)
    BY <1>2, <1>19
  <2> QED BY <2>1, <2>2, <1>23 DEF GuardAgrees
<1> QED BY <1>12, <1>17, <1>18, <1>22, <1>26, <1>27 DEF IInv

\* The frame that leaves was the only one inside, so its lock is released for good.
LEMMA ReleaseInv ==
    ASSUME IInv, In("body"), GuardApplies(Top), ~Underflow(Top),
           Continue([Top EXCEPT !.phase = "completed", !.entered = FALSE], Release(Top)),
           UNCHANGED <<gas, applied, bypassed>>
    PROVE  IInv'
<1> SUFFICES ASSUME NEW CONSTANT k, k = Len(stack), NEW CONSTANT e, e = Top.contract
             PROVE  IInv'
  OBVIOUS
<1>1. Running /\ Top.phase = "body"
  BY DEF In
<1>2. /\ Top \in Frame /\ FrameOK(Top, TRUE) /\ e \in Contract
      /\ k \in Nat \ {0} /\ k \in 1..k
      /\ host[e] \in [Slot -> SlotValue]
      /\ Top.cache \in [Slot -> SlotValue \cup {NotCached}]
  BY <1>1, TopFacts
<1>3. /\ Top.entered
      /\ Level[e] = "CALLBACK" => ValueAt(Top, "depth") = 1
  BY <1>1, <1>2 DEF FrameOK, ValueAt, NotCached
<1>4. Guarded(e) /\ Level[e] \in {"STANDARD", "CALLBACK"}
  BY <1>2, LevelAssumption DEF GuardApplies, Guarded, Levels
<1>5. \A i \in 1..k : i # k /\ stack[i].entered => stack[i].contract # e
  BY <1>2, <1>3 DEF IInv, MutualExclusion, Entered, Top
<1> DEFINE f == [Top EXCEPT !.phase = "completed", !.entered = FALSE]
           S == IF Level[e] = "STANDARD" THEN {"locked"} ELSE {"locked", "depth"}
           w == Release(Top)
           g == [f EXCEPT !.cache = Updated(f.cache, w)]
<1>6. w \in [S -> SlotValue] /\ w["locked"] = False /\ (Level[e] = "CALLBACK" => w["depth"] = 0)
  <2>1. CASE Level[e] = "STANDARD"
    <3>1. w = [s \in {"locked"} |-> False]
      BY <2>1 DEF Release
    <3>2. S = {"locked"} /\ False \in SlotValue
      BY <2>1, BoundAssumption DEF False, SlotValue
    <3> HIDE DEF w, S
    <3> QED BY <2>1, <3>1, <3>2
  <2>2. CASE Level[e] = "CALLBACK"
    <3>1. ValueAt(Top, "depth") - 1 = 0
      BY <1>3, <2>2
    <3>2. w = [s \in {"depth", "locked"} |-> IF s = "depth" THEN 0 ELSE False]
      BY <2>2, <3>1 DEF Release
    <3>3. S = {"depth", "locked"} /\ False \in SlotValue /\ 0 \in SlotValue
      BY <2>2, BoundAssumption DEF False, SlotValue
    <3> HIDE DEF w, S
    <3> QED BY <3>2, <3>3
  <2> QED BY <1>4, <2>1, <2>2
<1>7. S \in SUBSET Slot /\ "locked" \in S /\ (Level[e] = "CALLBACK" => "depth" \in S)
  BY DEF Slot
<1>8. /\ f \in Frame /\ f.contract = e /\ ~f.entered /\ f.before = Top.before
      /\ f.phase = "completed" /\ f.cache = Top.cache
  BY <1>2 DEF Frame, Phase
<1>9. Continue(f, w)
  OBVIOUS
<1> HIDE DEF f, w, S
<1>10. TypeOK
  BY DEF IInv
<1>11. /\ stack' \in Seq(Frame) /\ Len(stack') = k
       /\ host' \in [Contract -> [Slot -> SlotValue]]
       /\ \A i \in 1..k : i # k => stack'[i] = stack[i]
       /\ stack'[k] = g
       /\ host'[e] = Updated(host[e], w)
       /\ \A c \in Contract : c # e => host'[c] = host[c]
  <2>1. f.contract = Top.contract
    BY <1>8
  <2>2. /\ stack' \in Seq(Frame) /\ Len(stack') = Len(stack)
        /\ host' \in [Contract -> [Slot -> SlotValue]]
        /\ \A i \in 1..Len(stack) : i # Len(stack) => stack'[i] = stack[i]
        /\ stack'[Len(stack)] = [f EXCEPT !.cache = Updated(f.cache, w)]
        /\ host'[f.contract] = Updated(host[f.contract], w)
        /\ \A c \in Contract : c # f.contract => host'[c] = host[c]
    BY <2>1, <1>1, <1>6, <1>7, <1>8, <1>9, <1>10, ContinueStep
  <2> QED BY <2>2, <1>8
<1>12. /\ g.contract = e /\ ~g.entered /\ g.before = Top.before
       /\ g.phase = "completed" /\ g.cache = Updated(f.cache, w)
  BY <1>8 DEF Frame
<1>13. /\ g.cache["locked"] = False
       /\ host'[e]["locked"] = False /\ (Level[e] = "CALLBACK" => host'[e]["depth"] = 0)
  BY <1>6, <1>7, <1>11, <1>12 DEF Updated, Slot
<1>14. FrameOK(g, TRUE)
  BY <1>12, <1>13 DEF FrameOK, False, Unset
<1> HIDE DEF g
<1>15. TypeOK'
  BY <1>10, <1>11 DEF TypeOK
<1>16. FramesOK'
  <2>1. ASSUME NEW i \in 1..k, i # k PROVE FrameOK(stack'[i], i = k)
    <3>1. FrameOK(stack[i], i = Len(stack)) /\ i # Len(stack) /\ stack'[i] = stack[i]
      BY <1>11, <2>1 DEF IInv, FramesOK
    <3> QED BY <2>1, <3>1 DEF FrameOK
  <2>2. FrameOK(stack'[k], k = k)
    BY <1>11, <1>14
  <2>3. \A i \in 1..k : FrameOK(stack'[i], i = k)
    BY <2>1, <2>2
  <2> QED BY <2>3, <1>11 DEF FramesOK
<1>17. \A i \in 1..k : /\ stack'[i].contract = stack[i].contract
                       /\ stack'[i].before = stack[i].before
                       /\ i # k => stack'[i].entered = stack[i].entered
  BY <1>11, <1>12 DEF Top
<1>18. ~stack'[k].entered /\ stack'[k].contract = e /\ stack[k].contract = e
  BY <1>11, <1>12 DEF Top
<1>19. MutualExclusion'
  <2>1. ASSUME NEW i \in 1..k, NEW j \in 1..k, stack'[i].entered, stack'[j].entered,
               stack'[i].contract = stack'[j].contract
        PROVE  i = j
    BY <2>1, <1>17, <1>18 DEF IInv, MutualExclusion, Entered
  <2> QED BY <2>1, <1>11 DEF MutualExclusion, Entered
<1>20. \A c \in Contract, n \in 0..(k - 1) : HoldsBelow(c, n)' <=> HoldsBelow(c, n)
  <2>1. ASSUME NEW c \in Contract, NEW n \in 0..(k - 1)
        PROVE  HoldsBelow(c, n)' <=> HoldsBelow(c, n)
    <3>1. \A i \in 1..n : /\ stack'[i].contract = stack[i].contract
                          /\ stack'[i].entered = stack[i].entered
      BY <1>2, <1>17
    <3> QED BY <3>1 DEF HoldsBelow, Entered
  <2> QED BY <2>1
<1>21. ~HoldsBelow(e, k)'
  BY <1>5, <1>17, <1>18 DEF HoldsBelow, Entered
<1>22. \A c \in Contract : c # e => (HoldsBelow(c, k)' <=> HoldsBelow(c, k))
  <2>1. ASSUME NEW c \in Contract, c # e PROVE HoldsBelow(c, k)' <=> HoldsBelow(c, k)
    <3>1. \A i \in 1..k : (stack'[i].entered /\ stack'[i].contract = c)
                             <=> (stack[i].entered /\ stack[i].contract = c)
      BY <1>17, <1>18, <2>1
    <3> QED BY <3>1 DEF HoldsBelow, Entered
  <2> QED BY <2>1
<1>23. GuardAgrees(host, Len(stack))'
  <2>1. ASSUME NEW c \in Contract
        PROVE  /\ Guarded(c) => (host'[c]["locked"] = True <=> HoldsBelow(c, k)')
               /\ Level[c] = "CALLBACK" => host'[c]["depth"] = IF HoldsBelow(c, k)' THEN 1 ELSE 0
    <3>1. CASE c = e
      BY <3>1, <1>13, <1>21 DEF True, False
    <3>2. CASE c # e
      BY <3>2, <1>11, <1>22 DEF IInv, GuardAgrees
    <3> QED BY <3>1, <3>2
  <2> QED BY <2>1, <1>11 DEF GuardAgrees
<1>24. ASSUME NEW i \in 1..k PROVE GuardAgrees(stack[i].before.host, i - 1)'
  <2>1. GuardAgrees(stack[i].before.host, i - 1)
    BY DEF IInv
  <2>2. stack'[i].before = stack[i].before /\ i - 1 \in 0..(k - 1)
    BY <1>2, <1>17
  <2> QED BY <2>1, <2>2, <1>20 DEF GuardAgrees
<1> QED BY <1>11, <1>15, <1>16, <1>19, <1>23, <1>24 DEF IInv

\* The depth of a frame that is inside is one: nonReentrantAfter never underflows.
LEMMA NoUnderflow ==
    ASSUME IInv, In("body"), GuardApplies(Top)
    PROVE  ~Underflow(Top)
<1>1. Running /\ Top.phase = "body"
  BY DEF In
<1>2. FrameOK(Top, TRUE)
  BY <1>1, TopFacts
<1> QED BY <1>1, <1>2 DEF FrameOK, Underflow, ValueAt, NotCached

\* The end of a method releases the guard that the method took.
LEMMA CompleteInv == ASSUME IInv, Complete PROVE IInv'
<1>1. In("body") /\ Running /\ Top.phase = "body"
  BY DEF Complete, In
<1>2. CASE GuardApplies(Top)
  <2>1. ~Underflow(Top)
    BY <1>1, <1>2, NoUnderflow
  <2>2. /\ Continue([Top EXCEPT !.phase = "completed", !.entered = FALSE], Release(Top))
        /\ UNCHANGED <<gas, applied, bypassed>>
    BY <1>2, <2>1 DEF Complete
  <2> QED BY <1>1, <1>2, <2>1, <2>2, ReleaseInv
<1>3. CASE ~GuardApplies(Top)
  <2>1. FrameOK(Top, TRUE)
    BY <1>1, TopFacts
  <2>2. ~Top.entered
    BY <1>3, <2>1 DEF FrameOK
  <2>3. /\ Continue([Top EXCEPT !.phase = "completed"], NoWrite)
        /\ UNCHANGED <<gas, applied, bypassed>>
    BY <1>3 DEF Complete
  <2>4. gas' \in 0..MaxGas /\ UNCHANGED <<applied, bypassed>>
    BY <2>3 DEF IInv, TypeOK
  <2> QED BY <1>1, <2>2, <2>3, <2>4, PhaseStep
<1> QED BY <1>2, <1>3

-----------------------------------------------------------------------------
\* Every step keeps the invariant.
LEMMA NextInv == ASSUME IInv, [Next]_vars PROVE IInv'
<1>1. CASE Begin
  BY <1>1, BeginInv DEF Begin, Selector
<1>2. CASE StartUnguarded
  <2>1. Running /\ Top.phase = "started" /\ ~GuardApplies(Top)
    BY <1>2 DEF StartUnguarded, In
  <2>2. FrameOK(Top, TRUE)
    BY <2>1, TopFacts
  <2>3. ~Top.entered
    BY <2>1, <2>2 DEF FrameOK
  <2>4. gas' \in 0..MaxGas /\ UNCHANGED <<applied, bypassed>>
    BY <1>2 DEF StartUnguarded, IInv, TypeOK
  <2>5. Continue([Top EXCEPT !.phase = "body"], NoWrite)
    BY <1>2 DEF StartUnguarded
  <2>6. "body" \in {"body", "completed", "reverted"} /\ "body" # "completed"
    OBVIOUS
  <2> QED BY <2>1, <2>3, <2>4, <2>5, <2>6, PhaseStep
<1>3. CASE StartGuarded
  BY <1>3, StartGuardedInv
<1>4. CASE StartRefused \/ Throw
  <2>1. Running
    BY <1>4 DEF StartRefused, Throw, In
  <2>2. gas' \in 0..MaxGas /\ UNCHANGED <<applied, bypassed>>
    BY <1>4 DEF StartRefused, Throw, IInv, TypeOK
  <2>3. Continue([Top EXCEPT !.phase = "reverted"], NoWrite)
    BY <1>4 DEF StartRefused, Throw
  <2>4. /\ "reverted" \in {"body", "completed", "reverted"}
        /\ "reverted" # "completed" /\ "reverted" # "body"
    OBVIOUS
  <2> QED BY <2>1, <2>2, <2>3, <2>4, PhaseStep
<1>5. CASE Complete
  BY <1>5, CompleteInv
<1>6. CASE Return
  BY <1>6, ReturnInv
<1>7. CASE Unwind
  BY <1>7, UnwindInv
<1>8. CASE \E c \in Contract, sel \in Callable, stop \in BOOLEAN : Call(c, sel, stop)
  BY <1>8, CallInv DEF Selector
<1>9. ASSUME NEW stop \in BOOLEAN, CallRefused(stop) PROVE IInv'
  <2>1. Running /\ gas' \in 0..MaxGas /\ Top.phase = "body"
    BY <1>9, SpendType DEF CallRefused
  <2>2. FrameOK(Top, TRUE)
    BY <2>1, TopFacts
  <2>3. Top.entered <=> GuardApplies(Top)
    BY <2>1, <2>2 DEF FrameOK
  <2> DEFINE p == IF stop THEN "reverted" ELSE "body"
  <2>4. Continue([Top EXCEPT !.phase = p], NoWrite) /\ UNCHANGED <<applied, bypassed>>
    BY <1>9 DEF CallRefused
  <2>5. p \in {"body", "completed", "reverted"} /\ p # "completed"
    OBVIOUS
  <2> HIDE DEF p
  <2> QED BY <2>1, <2>3, <2>4, <2>5, PhaseStep
<1>10. CASE ObserveGuard
  BY <1>10, ObserveGuardInv
<1>11. CASE Load
  BY <1>11, LoadInv
<1>12. CASE Store
  BY <1>12, StoreInv
<1>13. CASE Add
  BY <1>13, AddInv
<1>14. CASE AddOverflow
  BY <1>14, AddOverflowInv
<1>15. CASE UpdateSelf
  <2>1. Running
    BY <1>15, SpendType DEF UpdateSelf, Call
  <2>2. Top.contract \in Contract
    BY <2>1, TopFacts DEF FrameOK, Frame
  <2>3. "none" \in Selector
    BY DEF Selector
  <2> QED BY <1>15, <2>2, <2>3, CallInv DEF UpdateSelf
<1>16. CASE UNCHANGED vars
  BY <1>16 DEF vars, IInv, TypeOK, FramesOK, FrameOK, MutualExclusion, GuardAgrees,
               HoldsBelow, Entered
<1> QED BY <1>1, <1>2, <1>3, <1>4, <1>5, <1>6, <1>7, <1>8, <1>9, <1>10, <1>11, <1>12,
           <1>13, <1>14, <1>15, <1>16 DEF Next, Execute

-----------------------------------------------------------------------------
(* The results *)

\* The inductive invariant of the execution model: frames are well formed, and the guard in
\* storage and in every state the host may restore agrees with the frames that are inside.
THEOREM Invariance == Spec => []IInv
<1>1. Init => IInv
  BY InitInv
<1>2. IInv /\ [Next]_vars => IInv'
  BY NextInv
<1> QED BY <1>1, <1>2, PTL DEF Spec

\* Storage, cache and stack keep their types under every interleaving of calls.
THEOREM TypeCorrect == Spec => []TypeOK
<1>1. IInv => TypeOK
  BY DEF IInv
<1> QED BY <1>1, Invariance, PTL

\* At most one execution is inside a guarded contract, for both reentrancy levels.
THEOREM GuardIsExclusive == Spec => []MutualExclusion
<1>1. IInv => MutualExclusion
  BY DEF IInv
<1> QED BY <1>1, Invariance, PTL

\* The stored lock and depth are set exactly while somebody is inside, reverts included.
THEOREM LockIsAccurate == Spec => []LockMirrorsEntry
<1>1. IInv => LockMirrorsEntry
  BY DEF IInv, GuardAgrees, LockMirrorsEntry, HoldsBelow, Holds
<1> QED BY <1>1, Invariance, PTL
-----------------------------------------------------------------------------
(* Caches and data *)

\* What frame i has cached of the guard says who was inside when it was on top, which is
\* still so whenever it is on top again.
CacheOK(i) ==
    LET f == stack[i]
    IN  /\ f.cache["locked"] \in
              {NotCached, IF HoldsBelow(f.contract, i) THEN True ELSE False}
        /\ f.cache["depth"] \in
              {NotCached,
               IF Level[f.contract] = "CALLBACK" /\ HoldsBelow(f.contract, i) THEN 1 ELSE 0}
        /\ f.phase = "started" => f.reg = NotCached

\* The values the guard leaves in the slots of storage h.
HostGuard(h) ==
    \A c \in Contract :
        /\ h[c]["locked"] \in {Unset, False, True}
        /\ Level[c] # "CALLBACK" => h[c]["depth"] = 0
        /\ ~Guarded(c) => h[c]["locked"] # True

\* A lock that one of the n outermost frames of s has read or written is initialised.
Initialised(h, s, n) ==
    \A i \in 1..n : s[i].cache["locked"] # NotCached => h[s[i].contract]["locked"] # Unset

\* In world w nothing is lost, and those of the n outermost frames of s that are inside
\* hold no stale data.
DataAgrees(w, s, n) ==
    \A c \in Contract \ w.bypassed :
        /\ w.host[c]["data"] = w.applied[c]
        /\ \A i \in 1..n : s[i].entered /\ s[i].contract = c =>
               /\ s[i].cache["data"] \in {NotCached, w.host[c]["data"]}
               /\ s[i].reg \in {NotCached, w.host[c]["data"]}

WorldOK(w, s, n) ==
    /\ HostGuard(w.host)
    /\ Initialised(w.host, s, n)
    /\ DataAgrees(w, s, n)

\* The second half of the inductive invariant: the world now agrees with all the frames,
\* and the world the host would restore for each frame agrees with the frames outside it.
FreshInv ==
    /\ \A i \in 1..Len(stack) : CacheOK(i)
    /\ WorldOK(Now, stack, Len(stack))
    /\ \A i \in 1..Len(stack) : WorldOK(stack[i].before, stack, i - 1)

\* Initially nothing is cached and nothing has been counted.
LEMMA InitFresh == Init => FreshInv
<1> SUFFICES ASSUME Init PROVE FreshInv
  OBVIOUS
<1>1. stack = <<>> /\ Len(stack) = 0
  BY DEF Init
<1>2. HostGuard(host)
  BY DEF Init, HostGuard, Slot, Unset, False, True
<1>3. WorldOK(Now, stack, 0)
  BY <1>1, <1>2 DEF Init, WorldOK, Now, Initialised, DataAgrees, Slot
<1> QED BY <1>1, <1>3 DEF FreshInv

\* WorldOK speaks of a frame's contract, cache, local variable and entry only.
LEMMA SameFrames ==
    ASSUME NEW w, NEW s, NEW t, NEW n \in Nat, WorldOK(w, s, n),
           \A i \in 1..n : /\ t[i].contract = s[i].contract /\ t[i].entered = s[i].entered
                           /\ t[i].cache = s[i].cache /\ t[i].reg = s[i].reg
    PROVE  WorldOK(w, t, n)
<1>1. Initialised(w.host, t, n)
  BY DEF WorldOK, Initialised
<1>2. DataAgrees(w, t, n)
  BY DEF WorldOK, DataAgrees
<1> QED BY <1>1, <1>2 DEF WorldOK

\* What agrees with some frames agrees with fewer of them.
LEMMA FewerFrames ==
    ASSUME NEW w, NEW s, NEW n \in Nat, NEW m \in 0..n, WorldOK(w, s, n)
    PROVE  WorldOK(w, s, m)
<1>1. 1..m \subseteq 1..n
  OBVIOUS
<1>2. Initialised(w.host, s, m)
  BY <1>1 DEF WorldOK, Initialised
<1>3. DataAgrees(w, s, m)
  BY <1>1 DEF WorldOK, DataAgrees
<1> QED BY <1>2, <1>3 DEF WorldOK

\* Whoever holds a contract's guard is in a guarded contract.
LEMMA HoldersAreGuarded ==
    ASSUME IInv, NEW c \in Contract, NEW n \in 0..Len(stack), HoldsBelow(c, n)
    PROVE  Guarded(c)
<1>1. PICK i \in 1..n : stack[i].entered /\ stack[i].contract = c
  BY DEF HoldsBelow, Entered
<1>2. i \in 1..Len(stack)
  BY <1>1 DEF IInv, TypeOK
<1>3. FrameOK(stack[i], i = Len(stack))
  BY <1>2 DEF IInv, FramesOK
<1> QED BY <1>1, <1>3 DEF FrameOK, GuardApplies

\* What the invariant says of the running frame.
LEMMA TopFresh ==
    ASSUME IInv, FreshInv, Running
    PROVE  /\ \A s \in {"locked", "depth"} :
                  Top.cache[s] \in {NotCached, host[Top.contract][s]}
           /\ host[Top.contract]["locked"] \in {Unset, False, True}
           /\ Top.phase = "started" => Top.reg = NotCached
           /\ Top.contract \notin bypassed =>
                  /\ host[Top.contract]["data"] = applied[Top.contract]
                  /\ Top.entered =>
                        /\ Top.cache["data"] \in {NotCached, host[Top.contract]["data"]}
                        /\ Top.reg \in {NotCached, host[Top.contract]["data"]}
<1> SUFFICES ASSUME NEW CONSTANT k, k = Len(stack), NEW CONSTANT e, e = Top.contract
             PROVE  /\ \A s \in {"locked", "depth"} : Top.cache[s] \in {NotCached, host[e][s]}
                    /\ host[e]["locked"] \in {Unset, False, True}
                    /\ Top.phase = "started" => Top.reg = NotCached
                    /\ e \notin bypassed =>
                          /\ host[e]["data"] = applied[e]
                          /\ Top.entered => /\ Top.cache["data"] \in {NotCached, host[e]["data"]}
                                            /\ Top.reg \in {NotCached, host[e]["data"]}
  OBVIOUS
<1>1. /\ k \in Nat \ {0} /\ k \in 1..k /\ k \in 0..k /\ e \in Contract /\ Top = stack[k]
  BY TopFacts DEF Top
<1>2. CacheOK(k) /\ HostGuard(host) /\ Initialised(host, stack, k) /\ DataAgrees(Now, stack, k)
  BY <1>1 DEF FreshInv, WorldOK, Now
<1>3. GuardAgrees(host, k)
  BY DEF IInv
<1>4. HoldsBelow(e, k) => Guarded(e)
  BY <1>1, HoldersAreGuarded
<1>5. /\ host[e]["locked"] \in {Unset, False, True}
      /\ Level[e] # "CALLBACK" => host[e]["depth"] = 0
      /\ ~Guarded(e) => host[e]["locked"] # True
  BY <1>1, <1>2 DEF HostGuard
<1>6. /\ HoldsBelow(e, k) => host[e]["locked"] = True
      /\ ~HoldsBelow(e, k) => host[e]["locked"] # True
      /\ Level[e] = "CALLBACK" => host[e]["depth"] = IF HoldsBelow(e, k) THEN 1 ELSE 0
  BY <1>1, <1>3, <1>4, <1>5 DEF GuardAgrees
<1>7. Top.cache["locked"] # NotCached => host[e]["locked"] # Unset
  BY <1>1, <1>2 DEF Initialised
<1>8. Top.cache["locked"] \in {NotCached, host[e]["locked"]}
  BY <1>1, <1>2, <1>5, <1>6, <1>7 DEF CacheOK
<1>9. Top.cache["depth"] \in {NotCached, host[e]["depth"]}
  BY <1>1, <1>2, <1>5, <1>6 DEF CacheOK
<1>10. Top.phase = "started" => Top.reg = NotCached
  BY <1>1, <1>2 DEF CacheOK
<1>11. e \notin bypassed =>
          /\ host[e]["data"] = applied[e]
          /\ Top.entered => /\ Top.cache["data"] \in {NotCached, host[e]["data"]}
                            /\ Top.reg \in {NotCached, host[e]["data"]}
  BY <1>1, <1>2 DEF DataAgrees, Now
<1> QED BY <1>5, <1>8, <1>9, <1>10, <1>11

-----------------------------------------------------------------------------
\* A step of the running frame keeps caches and data fresh when what it leaves in its own
\* cache is what it leaves in the storage, and when it writes data only from the inside or
\* gives up the contract's data as bypassed.
LEMMA ContinueFresh ==
    ASSUME IInv, IInv', FreshInv, Running,
           NEW f \in Frame, f.contract = Top.contract, f.before = Top.before,
           f.phase # "started",
           NEW S \in SUBSET Slot, NEW w \in [S -> SlotValue],
           Continue(f, w),
           "locked" \in S => w["locked"] \in {False, True},
           "depth" \in S => Level[Top.contract] = "CALLBACK",
           "locked" \in S /\ ~Guarded(Top.contract) => w["locked"] # True,
           \A s \in {"locked", "depth"} \ S :
               f.cache[s] \in {NotCached, host[Top.contract][s]},
           \A c \in Contract : c # Top.contract =>
               applied'[c] = applied[c] /\ (c \in bypassed' <=> c \in bypassed),
           NEW d, d = Updated(host[Top.contract], w)["data"],
           Top.contract \notin bypassed' =>
               /\ Top.contract \notin bypassed
               /\ d = applied'[Top.contract]
               /\ f.entered => /\ Updated(f.cache, w)["data"] \in {NotCached, d}
                               /\ f.reg \in {NotCached, d}
               /\ f.entered \/ d = host[Top.contract]["data"]
    PROVE  FreshInv'
<1> SUFFICES ASSUME NEW CONSTANT k, k = Len(stack), NEW CONSTANT e, e = Top.contract
             PROVE  FreshInv'
  OBVIOUS
<1> DEFINE g == [f EXCEPT !.cache = Updated(f.cache, w)]
<1>1. /\ k \in Nat \ {0} /\ k \in 1..k /\ k \in 0..k /\ e \in Contract /\ Top = stack[k]
      /\ host[e] \in [Slot -> SlotValue]
  BY TopFacts DEF Top
<1>2. TypeOK /\ \A i \in 1..k : stack[i] \in Frame /\ stack[i].contract \in Contract
  <2>1. stack \in Seq(Frame) /\ TypeOK
    BY DEF IInv, TypeOK
  <2>2. \A i \in 1..k : stack[i] \in Frame
    BY <2>1
  <2> QED BY <2>1, <2>2 DEF Frame
<1>3. /\ stack' \in Seq(Frame) /\ Len(stack') = k
      /\ host' \in [Contract -> [Slot -> SlotValue]]
      /\ \A i \in 1..k : i # k => stack'[i] = stack[i]
      /\ stack'[k] = g
      /\ host'[e] = Updated(host[e], w)
      /\ \A c \in Contract : c # e => host'[c] = host[c]
  BY <1>2, ContinueStep, SMTT(20)
<1>4. /\ g.contract = e /\ g.before = Top.before /\ g.phase = f.phase
      /\ g.entered = f.entered /\ g.reg = f.reg /\ g.cache = Updated(f.cache, w)
  BY DEF Frame
<1>5. \A s \in {"locked", "depth"} : g.cache[s] \in {NotCached, host'[e][s]}
  BY <1>3, <1>4 DEF Updated, Slot
<1>6. /\ host'[e]["locked"] \in {False, True, host[e]["locked"]}
      /\ Level[e] # "CALLBACK" => host'[e]["depth"] = host[e]["depth"]
      /\ ~Guarded(e) => host'[e]["locked"] \in {False, host[e]["locked"]}
  BY <1>3 DEF Updated, Slot
<1>7. /\ g.cache["data"] = Updated(f.cache, w)["data"]
      /\ host'[e]["data"] = d
  BY <1>3, <1>4
<1> HIDE DEF g
<1>8. HostGuard(host) /\ Initialised(host, stack, k) /\ DataAgrees(Now, stack, k)
  BY DEF FreshInv, WorldOK, Now
<1>9. HostGuard(host')
  BY <1>1, <1>3, <1>6, <1>8 DEF HostGuard, False, True
<1>10. FrameOK(g, TRUE) /\ GuardAgrees(host, k)'
  <2>1. FrameOK(stack'[k], k = Len(stack'))
    BY <1>1, <1>3 DEF IInv, FramesOK
  <2>2. FrameOK(g, TRUE)
    BY <1>3, <2>1 DEF FrameOK
  <2> QED BY <1>3, <2>2 DEF IInv, GuardAgrees
<1>11. \A c \in Contract, n \in 0..(k - 1) : HoldsBelow(c, n)' <=> HoldsBelow(c, n)
  <2>1. ASSUME NEW c \in Contract, NEW n \in 0..(k - 1)
        PROVE  HoldsBelow(c, n)' <=> HoldsBelow(c, n)
    <3>1. \A i \in 1..n : stack'[i] = stack[i]
      BY <1>1, <1>3
    <3> QED BY <3>1 DEF HoldsBelow, Entered
  <2> QED BY <2>1
<1>12. HoldsBelow(e, k)' => Guarded(e)
  <2> SUFFICES ASSUME NEW i \in 1..k, stack'[i].entered, stack'[i].contract = e
               PROVE  Guarded(e)
    BY DEF HoldsBelow, Entered
  <2>1. FrameOK(stack'[i], i = k)
    BY <1>3 DEF IInv, FramesOK
  <2> QED BY <2>1 DEF FrameOK, GuardApplies
<1>13. CacheOK(k)'
  <2>1. /\ HoldsBelow(e, k)' => host'[e]["locked"] = True
        /\ ~HoldsBelow(e, k)' => host'[e]["locked"] # True
        /\ Level[e] = "CALLBACK" => host'[e]["depth"] = IF HoldsBelow(e, k)' THEN 1 ELSE 0
    BY <1>1, <1>9, <1>10, <1>12 DEF GuardAgrees, HostGuard
  <2>2. g.cache["locked"] \in {NotCached, IF HoldsBelow(e, k)' THEN True ELSE False}
    BY <1>1, <1>5, <1>9, <1>10, <2>1 DEF HostGuard, FrameOK
  <2>3. g.cache["depth"] \in {NotCached, IF Level[e] = "CALLBACK" /\ HoldsBelow(e, k)'
                                         THEN 1 ELSE 0}
    BY <1>1, <1>5, <1>9, <2>1 DEF HostGuard
  <2> QED BY <1>3, <1>4, <2>2, <2>3 DEF CacheOK
<1>14. ASSUME NEW i \in 1..k, i # k PROVE CacheOK(i)'
  <2>1. CacheOK(i) /\ stack'[i] = stack[i] /\ i \in 0..(k - 1)
    BY <1>1, <1>3, <1>14 DEF FreshInv
  <2>2. stack[i].contract \in Contract
    BY <1>2
  <2> QED BY <1>11, <2>1, <2>2 DEF CacheOK
<1>15. Initialised(host', stack', k)
  <2> SUFFICES ASSUME NEW i \in 1..k, stack'[i].cache["locked"] # NotCached
               PROVE  host'[stack'[i].contract]["locked"] # Unset
    BY DEF Initialised
  <2>1. CASE i = k
    BY <2>1, <1>3, <1>4, <1>5, <1>10 DEF FrameOK
  <2>2. CASE i # k
    <3>1. stack'[i] = stack[i]
      BY <2>2, <1>3
    <3>2. stack[i].contract \in Contract
      BY <1>2
    <3>3. host[stack[i].contract]["locked"] # Unset
      BY <3>1, <1>8 DEF Initialised
    <3> QED BY <3>1, <3>2, <3>3, <1>3, <1>6 DEF False, True, Unset
  <2> QED BY <2>1, <2>2
<1>16. DataAgrees(Now', stack', k)
  <2> SUFFICES ASSUME NEW c \in Contract, c \notin bypassed'
               PROVE  /\ host'[c]["data"] = applied'[c]
                      /\ \A i \in 1..k : stack'[i].entered /\ stack'[i].contract = c =>
                            /\ stack'[i].cache["data"] \in {NotCached, host'[c]["data"]}
                            /\ stack'[i].reg \in {NotCached, host'[c]["data"]}
    BY DEF DataAgrees, Now
  <2>1. c \notin bypassed
    BY <1>1
  <2>2. /\ host[c]["data"] = applied[c]
        /\ \A i \in 1..k : stack[i].entered /\ stack[i].contract = c =>
              /\ stack[i].cache["data"] \in {NotCached, host[c]["data"]}
              /\ stack[i].reg \in {NotCached, host[c]["data"]}
    BY <2>1, <1>8 DEF DataAgrees, Now
  <2>3. CASE c # e
    BY <2>2, <2>3, <1>1, <1>3, <1>4
  <2>4. CASE c = e
    <3>1. host'[e]["data"] = applied'[e]
      BY <2>4, <1>7
    <3>2. ASSUME NEW i \in 1..k, stack'[i].entered, stack'[i].contract = e
          PROVE  /\ stack'[i].cache["data"] \in {NotCached, host'[e]["data"]}
                 /\ stack'[i].reg \in {NotCached, host'[e]["data"]}
      <4>1. CASE i = k
        BY <2>4, <3>2, <4>1, <1>3, <1>4, <1>7
      <4>2. CASE i # k
        <5>1. stack'[i] = stack[i]
          BY <4>2, <1>3
        <5>2. ~g.entered
          BY <4>2, <3>2, <1>1, <1>3, <1>4 DEF IInv, MutualExclusion, Entered
        <5>3. host'[e]["data"] = host[e]["data"]
          BY <2>4, <5>2, <1>4, <1>7
        <5> QED BY <2>2, <2>4, <3>2, <5>1, <5>3
      <4> QED BY <4>1, <4>2
    <3> QED BY <2>4, <3>1, <3>2
  <2> QED BY <2>3, <2>4
<1>17. WorldOK(Now', stack', k)
  BY <1>9, <1>15, <1>16 DEF WorldOK, Now
<1>18. ASSUME NEW i \in 1..k PROVE WorldOK(stack'[i].before, stack', i - 1)
  <2>1. WorldOK(stack[i].before, stack, i - 1) /\ stack'[i].before = stack[i].before
    BY <1>1, <1>3, <1>4 DEF FreshInv
  <2>2. i - 1 \in Nat /\ \A j \in 1..(i - 1) : stack'[j] = stack[j]
    BY <1>1, <1>3
  <2> QED BY <2>1, <2>2, SameFrames
<1> QED BY <1>3, <1>13, <1>14, <1>17, <1>18 DEF FreshInv

\* A step that leaves the guard's slots alone in cache and storage, and writes data only
\* as Record allows.
LEMMA DataFresh ==
    ASSUME IInv, IInv', FreshInv, Running,
           NEW f \in Frame, f.contract = Top.contract, f.before = Top.before,
           f.phase # "started",
           NEW S \in SUBSET {"data"}, NEW w \in [S -> SlotValue],
           Continue(f, w),
           f.cache["locked"] = Top.cache["locked"], f.cache["depth"] = Top.cache["depth"],
           \A c \in Contract : c # Top.contract =>
               applied'[c] = applied[c] /\ (c \in bypassed' <=> c \in bypassed),
           NEW d, d = Updated(host[Top.contract], w)["data"],
           Top.contract \notin bypassed' =>
               /\ Top.contract \notin bypassed
               /\ d = applied'[Top.contract]
               /\ f.entered => /\ Updated(f.cache, w)["data"] \in {NotCached, d}
                               /\ f.reg \in {NotCached, d}
               /\ f.entered \/ d = host[Top.contract]["data"]
    PROVE  FreshInv'
<1>1. \A s \in {"locked", "depth"} : Top.cache[s] \in {NotCached, host[Top.contract][s]}
  BY TopFresh
<1>2. /\ S \in SUBSET Slot /\ "locked" \notin S /\ "depth" \notin S
      /\ \A s \in {"locked", "depth"} \ S : f.cache[s] \in {NotCached, host[Top.contract][s]}
  BY <1>1 DEF Slot
<1> QED BY <1>2, ContinueFresh

\* A step that only moves the running frame to phase p.
LEMMA PhaseFresh ==
    ASSUME IInv, IInv', FreshInv, Running, NEW p \in {"body", "completed", "reverted"},
           Continue([Top EXCEPT !.phase = p], NoWrite),
           UNCHANGED <<applied, bypassed>>
    PROVE  FreshInv'
<1> DEFINE f == [Top EXCEPT !.phase = p]
<1>1. /\ Top \in Frame /\ Top.cache \in [Slot -> SlotValue \cup {NotCached}]
      /\ host[Top.contract] \in [Slot -> SlotValue]
  BY TopFacts
<1>2. p \in Phase /\ p # "started"
  BY DEF Phase
<1>3. /\ f \in Frame /\ f.contract = Top.contract /\ f.before = Top.before
      /\ f.phase # "started" /\ f.entered = Top.entered /\ f.cache = Top.cache
      /\ f.reg = Top.reg
  BY <1>1, <1>2 DEF Frame
<1>4. Continue(f, NoWrite) /\ NoWrite \in [{} -> SlotValue] /\ {} \in SUBSET {"data"}
  BY DEF NoWrite
<1> HIDE DEF f
<1>5. /\ Updated(f.cache, NoWrite) = f.cache
      /\ Updated(host[Top.contract], NoWrite) = host[Top.contract]
  BY <1>1, <1>3, NoWriteChangesNothing
<1>6. Top.contract \notin bypassed' =>
          /\ Top.contract \notin bypassed
          /\ host[Top.contract]["data"] = applied'[Top.contract]
          /\ f.entered => /\ f.cache["data"] \in {NotCached, host[Top.contract]["data"]}
                          /\ f.reg \in {NotCached, host[Top.contract]["data"]}
  BY <1>3, TopFresh
<1>7. \A c \in Contract : applied'[c] = applied[c] /\ (c \in bypassed' <=> c \in bypassed)
  OBVIOUS
<1> QED BY <1>3, <1>4, <1>5, <1>6, <1>7, DataFresh

\* A load caches what the host stores.
LEMMA LoadFresh == ASSUME IInv, IInv', FreshInv, Load PROVE FreshInv'
<1>1. In("body") /\ Running /\ Top.phase = "body"
  BY SpendType DEF Load
<1>2. /\ Top \in Frame /\ ValueAt(Top, "data") \in SlotValue
      /\ Top.cache \in [Slot -> SlotValue \cup {NotCached}]
      /\ host[Top.contract] \in [Slot -> SlotValue]
  BY <1>1, TopFacts DEF Slot
<1> DEFINE v == ValueAt(Top, "data")
           c == [Top.cache EXCEPT !["data"] = v]
           f == [Reading(Top, "data") EXCEPT !.reg = v]
<1>3. c \in [Slot -> SlotValue \cup {NotCached}]
  BY <1>2
<1>4. c["locked"] = Top.cache["locked"] /\ c["depth"] = Top.cache["depth"] /\ c["data"] = v
  BY <1>2 DEF Slot
<1>5. f = [Top EXCEPT !.cache = c, !.reg = v]
  BY <1>2 DEF Reading, Frame
<1>6. v \in SlotValue /\ (Top.cache["data"] \in {NotCached, host[Top.contract]["data"]}
                             => v = host[Top.contract]["data"])
  BY <1>2 DEF ValueAt
<1> HIDE DEF c, v
<1>7. /\ f \in Frame /\ f.contract = Top.contract /\ f.entered = Top.entered
      /\ f.before = Top.before /\ f.phase # "started"
      /\ f.cache = c /\ f.reg = v
  BY <1>1, <1>2, <1>3, <1>5, <1>6 DEF Frame
<1>8. Continue(f, NoWrite) /\ NoWrite \in [{} -> SlotValue] /\ {} \in SUBSET {"data"}
  BY DEF Load, NoWrite, v
<1> HIDE DEF f
<1>9. /\ Updated(f.cache, NoWrite) = f.cache
      /\ Updated(host[Top.contract], NoWrite) = host[Top.contract]
  BY <1>2, <1>3, <1>7, NoWriteChangesNothing
<1>10. UNCHANGED <<applied, bypassed>>
  BY DEF Load
<1>11. Top.contract \notin bypassed' =>
          /\ Top.contract \notin bypassed
          /\ host[Top.contract]["data"] = applied'[Top.contract]
          /\ f.entered => /\ f.cache["data"] \in {NotCached, host[Top.contract]["data"]}
                          /\ f.reg \in {NotCached, host[Top.contract]["data"]}
  BY <1>1, <1>4, <1>6, <1>7, <1>10, TopFresh
<1>12. \A x \in Contract : applied'[x] = applied[x] /\ (x \in bypassed' <=> x \in bypassed)
  BY <1>10
<1> QED BY <1>1, <1>4, <1>7, <1>8, <1>9, <1>11, <1>12, DataFresh

\* An increment that overflows has cached what the host stores.
LEMMA AddOverflowFresh == ASSUME IInv, IInv', FreshInv, AddOverflow PROVE FreshInv'
<1>1. In("body") /\ Running /\ Top.phase = "body"
  BY SpendType DEF AddOverflow
<1>2. /\ Top \in Frame /\ ValueAt(Top, "data") \in SlotValue
      /\ Top.cache \in [Slot -> SlotValue \cup {NotCached}]
      /\ host[Top.contract] \in [Slot -> SlotValue]
  BY <1>1, TopFacts DEF Slot
<1> DEFINE v == ValueAt(Top, "data")
           c == [Top.cache EXCEPT !["data"] = v]
           f == [Reading(Top, "data") EXCEPT !.phase = "reverted"]
<1>3. c \in [Slot -> SlotValue \cup {NotCached}]
  BY <1>2
<1>4. c["locked"] = Top.cache["locked"] /\ c["depth"] = Top.cache["depth"] /\ c["data"] = v
  BY <1>2 DEF Slot
<1>5. f = [Top EXCEPT !.cache = c, !.phase = "reverted"]
  BY <1>2 DEF Reading, Frame
<1>6. Top.cache["data"] \in {NotCached, host[Top.contract]["data"]}
          => v = host[Top.contract]["data"]
  BY <1>2 DEF ValueAt
<1> HIDE DEF c, v
<1>7. /\ f \in Frame /\ f.contract = Top.contract /\ f.entered = Top.entered
      /\ f.before = Top.before /\ f.phase # "started"
      /\ f.cache = c /\ f.reg = Top.reg
  BY <1>2, <1>3, <1>5 DEF Frame, Phase
<1>8. Continue(f, NoWrite) /\ NoWrite \in [{} -> SlotValue] /\ {} \in SUBSET {"data"}
  BY DEF AddOverflow, NoWrite
<1> HIDE DEF f
<1>9. /\ Updated(f.cache, NoWrite) = f.cache
      /\ Updated(host[Top.contract], NoWrite) = host[Top.contract]
  BY <1>2, <1>3, <1>7, NoWriteChangesNothing
<1>10. UNCHANGED <<applied, bypassed>>
  BY DEF AddOverflow
<1>11. Top.contract \notin bypassed' =>
          /\ Top.contract \notin bypassed
          /\ host[Top.contract]["data"] = applied'[Top.contract]
          /\ f.entered => /\ f.cache["data"] \in {NotCached, host[Top.contract]["data"]}
                          /\ f.reg \in {NotCached, host[Top.contract]["data"]}
  BY <1>1, <1>4, <1>6, <1>7, <1>10, TopFresh
<1>12. \A x \in Contract : applied'[x] = applied[x] /\ (x \in bypassed' <=> x \in bypassed)
  BY <1>10
<1> QED BY <1>1, <1>4, <1>7, <1>8, <1>9, <1>11, <1>12, DataFresh

\* Writing v over a value that is not stale, from the inside, counts one increment.
LEMMA WriteFresh ==
    ASSUME IInv, IInv', FreshInv, In("body"), Record,
           NEW v \in SlotValue,
           Continue([Top EXCEPT !.reg = v], [s \in {"data"} |-> v]),
           Top.entered /\ Top.contract \notin bypassed => v = host[Top.contract]["data"] + 1
    PROVE  FreshInv'
<1> DEFINE f == [Top EXCEPT !.reg = v]
           w == [s \in {"data"} |-> v]
<1>1. Running /\ Top.phase = "body"
  BY DEF In
<1>2. /\ Top \in Frame /\ FrameOK(Top, TRUE) /\ Top.contract \in Contract
      /\ Top.cache \in [Slot -> SlotValue \cup {NotCached}]
      /\ host[Top.contract] \in [Slot -> SlotValue]
  BY <1>1, TopFacts
<1>3. /\ f \in Frame /\ f.contract = Top.contract /\ f.entered = Top.entered
      /\ f.before = Top.before /\ f.phase # "started"
      /\ f.cache = Top.cache /\ f.reg = v
  BY <1>1, <1>2 DEF Frame
<1>4. Continue(f, w) /\ w \in [{"data"} -> SlotValue] /\ {"data"} \in SUBSET {"data"}
  OBVIOUS
<1>5. Updated(host[Top.contract], w)["data"] = v /\ Updated(f.cache, w)["data"] = v
  BY DEF Updated, Slot
<1>6. Top.entered <=> GuardApplies(Top)
  BY <1>1, <1>2 DEF FrameOK
<1>7. applied \in [Contract -> Nat]
  BY DEF IInv, TypeOK
<1>8. \A x \in Contract : x # Top.contract =>
          applied'[x] = applied[x] /\ (x \in bypassed' <=> x \in bypassed)
  BY <1>7 DEF Record
<1>9. Top.contract \notin bypassed' =>
          /\ Top.contract \notin bypassed /\ Top.entered
          /\ applied'[Top.contract] = applied[Top.contract] + 1
  BY <1>2, <1>6, <1>7 DEF Record
<1>10. Top.contract \notin bypassed => host[Top.contract]["data"] = applied[Top.contract]
  BY <1>1, TopFresh
<1> HIDE DEF f, w
<1> QED BY <1>1, <1>3, <1>4, <1>5, <1>8, <1>9, <1>10, DataFresh

\* A store writes through, and is counted.
LEMMA StoreFresh == ASSUME IInv, IInv', FreshInv, Store PROVE FreshInv'
<1>1. In("body") /\ Running /\ Top.phase = "body"
  BY SpendType DEF Store
<1>2. Top \in Frame
  BY <1>1, TopFacts
<1>3. Top.reg + 1 \in SlotValue
  BY <1>2, BoundAssumption DEF Store, Frame, SlotValue, NotCached
<1>4. Top.entered /\ Top.contract \notin bypassed => Top.reg = host[Top.contract]["data"]
  BY <1>1, TopFresh DEF Store
<1>5. /\ Continue([Top EXCEPT !.reg = Top.reg + 1], [s \in {"data"} |-> Top.reg + 1])
      /\ Record
  BY DEF Store
<1> QED BY <1>1, <1>3, <1>4, <1>5, WriteFresh

\* An increment writes through, and is counted.
LEMMA AddFresh == ASSUME IInv, IInv', FreshInv, Add PROVE FreshInv'
<1>1. In("body") /\ Running /\ Top.phase = "body"
  BY SpendType DEF Add
<1>2. Top \in Frame /\ ValueAt(Top, "data") \in SlotValue
  BY <1>1, TopFacts DEF Slot
<1> DEFINE v == ValueAt(Top, "data") + 1
<1>3. v \in SlotValue
  BY <1>2, BoundAssumption DEF Add, SlotValue
<1>4. Top.entered /\ Top.contract \notin bypassed => v = host[Top.contract]["data"] + 1
  BY <1>1, TopFresh DEF ValueAt
<1>5. Continue([Top EXCEPT !.reg = v], [s \in {"data"} |-> v]) /\ Record
  BY DEF Add
<1> HIDE DEF v
<1> QED BY <1>1, <1>3, <1>4, <1>5, WriteFresh

\* Reading the guard caches who is inside.
LEMMA ObserveGuardFresh == ASSUME IInv, IInv', FreshInv, ObserveGuard PROVE FreshInv'
<1>1. In("body") /\ Running /\ Top.phase = "body"
  BY SpendType DEF ObserveGuard
<1>2. /\ Top \in Frame /\ \A s \in Slot : ValueAt(Top, s) \in SlotValue
      /\ Top.cache \in [Slot -> SlotValue \cup {NotCached}]
      /\ host[Top.contract] \in [Slot -> SlotValue]
  BY <1>1, TopFacts
<1> DEFINE lk == ValueAt(Top, "locked")
           dp == ValueAt(Top, "depth")
           c == [[Top.cache EXCEPT !["locked"] = lk] EXCEPT !["depth"] = dp]
           f == Reading(Reading(Top, "locked"), "depth")
<1>3. lk \in SlotValue /\ dp \in SlotValue
  BY <1>2 DEF Slot
<1>4. lk = host[Top.contract]["locked"] /\ dp = host[Top.contract]["depth"]
  <2>1. \A s \in {"locked", "depth"} : Top.cache[s] \in {NotCached, host[Top.contract][s]}
    BY <1>1, TopFresh
  <2> QED BY <2>1 DEF ValueAt
<1>5. ValueAt(Reading(Top, "locked"), "depth") = dp
  BY <1>2 DEF Reading, ValueAt, Frame, Slot
<1>6. /\ c \in [Slot -> SlotValue \cup {NotCached}] /\ c["locked"] = lk /\ c["depth"] = dp
      /\ c["data"] = Top.cache["data"]
  BY <1>2, <1>3 DEF Slot
<1>7. f = [Top EXCEPT !.cache = c]
  BY <1>2, <1>5 DEF Reading, Frame
<1> HIDE DEF c, lk, dp
<1>8. /\ f \in Frame /\ f.contract = Top.contract /\ f.entered = Top.entered
      /\ f.before = Top.before /\ f.phase # "started"
      /\ f.cache = c /\ f.reg = Top.reg
  BY <1>1, <1>2, <1>6, <1>7 DEF Frame
<1> HIDE DEF f
<1> DEFINE S == IF lk = Unset THEN {"locked"} ELSE {}
           w == [s \in S |-> False]
<1>9. Continue(f, w)
  <2>1. CASE lk = Unset
    <3>1. Continue(f, [s \in {"locked"} |-> False])
      BY <2>1, <1>6, <1>8 DEF ObserveGuard, f
    <3> QED BY <3>1, <2>1
  <2>2. CASE lk # Unset
    <3>1. Continue(f, NoWrite)
      BY <2>2, <1>6, <1>8 DEF ObserveGuard, f
    <3>2. w = NoWrite
      BY <2>2 DEF NoWrite
    <3> QED BY <3>1, <3>2
  <2> QED BY <2>1, <2>2
<1>10. /\ S \in SUBSET Slot /\ w \in [S -> SlotValue] /\ "depth" \notin S
       /\ "locked" \in S => w["locked"] \in {False, True} /\ w["locked"] # True
  BY BoundAssumption DEF Slot, SlotValue, False, True
<1>11. \A s \in {"locked", "depth"} \ S : f.cache[s] \in {NotCached, host[Top.contract][s]}
  BY <1>4, <1>6, <1>8
<1>12. /\ Updated(host[Top.contract], w)["data"] = host[Top.contract]["data"]
       /\ Updated(f.cache, w)["data"] = Top.cache["data"]
  BY <1>6, <1>8 DEF Updated, Slot
<1>13. UNCHANGED <<applied, bypassed>>
  BY DEF ObserveGuard
<1>14. Top.contract \notin bypassed' =>
          /\ Top.contract \notin bypassed
          /\ host[Top.contract]["data"] = applied'[Top.contract]
          /\ f.entered => /\ Top.cache["data"] \in {NotCached, host[Top.contract]["data"]}
                          /\ f.reg \in {NotCached, host[Top.contract]["data"]}
  BY <1>1, <1>8, <1>13, TopFresh
<1>15. \A x \in Contract : applied'[x] = applied[x] /\ (x \in bypassed' <=> x \in bypassed)
  BY <1>13
<1> HIDE DEF S, w
<1> QED BY <1>1, <1>8, <1>9, <1>10, <1>11, <1>12, <1>14, <1>15, ContinueFresh

\* The hooks write the guard's slots to cache and storage together.
LEMMA HookFresh ==
    ASSUME IInv, IInv', FreshInv, Running, GuardApplies(Top),
           NEW f \in Frame, f.contract = Top.contract, f.before = Top.before,
           f.phase # "started", f.cache = Top.cache, f.reg = Top.reg,
           f.entered => (Top.entered \/ (Top.phase = "started" /\ Top.cache["data"] = NotCached)),
           NEW S \in SUBSET {"locked", "depth"}, NEW w \in [S -> SlotValue],
           Continue(f, w),
           "locked" \in S => w["locked"] \in {False, True},
           "depth" \in S => Level[Top.contract] = "CALLBACK",
           UNCHANGED <<applied, bypassed>>
    PROVE  FreshInv'
<1>1. S \in SUBSET Slot /\ "data" \notin S
  BY DEF Slot
<1>2. Guarded(Top.contract)
  BY DEF GuardApplies
<1>3. \A s \in {"locked", "depth"} \ S : f.cache[s] \in {NotCached, host[Top.contract][s]}
  BY TopFresh
<1>4. /\ Updated(host[Top.contract], w)["data"] = host[Top.contract]["data"]
      /\ Updated(f.cache, w)["data"] = Top.cache["data"]
  BY <1>1 DEF Updated, Slot
<1>5. Top.contract \notin bypassed' =>
          /\ Top.contract \notin bypassed
          /\ host[Top.contract]["data"] = applied'[Top.contract]
          /\ f.entered => /\ Top.cache["data"] \in {NotCached, host[Top.contract]["data"]}
                          /\ f.reg \in {NotCached, host[Top.contract]["data"]}
  BY TopFresh
<1>6. \A x \in Contract : applied'[x] = applied[x] /\ (x \in bypassed' <=> x \in bypassed)
  OBVIOUS
<1> QED BY <1>1, <1>2, <1>3, <1>4, <1>5, <1>6, ContinueFresh

\* Entering caches the lock and the depth that are written.
LEMMA StartGuardedFresh == ASSUME IInv, IInv', FreshInv, StartGuarded PROVE FreshInv'
<1>1. Running /\ Top.phase = "started" /\ GuardApplies(Top) /\ ~Blocked(Top)
  BY DEF StartGuarded, In
<1>2. /\ Top \in Frame /\ FrameOK(Top, TRUE) /\ Top.contract \in Contract
      /\ \A s \in Slot : ValueAt(Top, s) \in SlotValue
  BY <1>1, TopFacts
<1>3. Level[Top.contract] \in {"STANDARD", "CALLBACK"}
  BY <1>1, <1>2, LevelAssumption DEF GuardApplies, Guarded, Levels
<1> DEFINE f == [Top EXCEPT !.phase = "body", !.entered = TRUE]
           w == Acquire(Top)
           S == IF Level[Top.contract] = "STANDARD" THEN {"locked"} ELSE {"locked", "depth"}
<1>4. /\ f \in Frame /\ f.contract = Top.contract /\ f.before = Top.before
      /\ f.phase # "started" /\ f.cache = Top.cache /\ f.reg = Top.reg
  BY <1>2 DEF Frame, Phase
<1>5. Top.cache["data"] = NotCached
  BY <1>1, <1>2 DEF FrameOK, Slot
<1>6. /\ S \in SUBSET {"locked", "depth"} /\ w \in [S -> SlotValue]
      /\ "locked" \in S => w["locked"] \in {False, True}
      /\ "depth" \in S => Level[Top.contract] = "CALLBACK"
  <2>1. CASE Level[Top.contract] = "STANDARD"
    <3>1. w = [s \in {"locked"} |-> True] /\ True \in SlotValue
      BY <2>1, BoundAssumption DEF Acquire, True, SlotValue
    <3> HIDE DEF w
    <3> QED BY <2>1, <3>1
  <2>2. CASE Level[Top.contract] = "CALLBACK"
    <3>1. ValueAt(Top, "depth") = 0
      BY <1>1, <1>2, <2>2 DEF Blocked, Slot, SlotValue
    <3>2. w = [s \in {"depth", "locked"} |-> IF s = "depth" THEN 1 ELSE True]
      BY <2>2, <3>1 DEF Acquire
    <3>3. True \in SlotValue /\ 1 \in SlotValue
      BY BoundAssumption DEF True, SlotValue
    <3> HIDE DEF w
    <3> QED BY <2>2, <3>2, <3>3
  <2> QED BY <1>3, <2>1, <2>2
<1>7. Continue(f, w) /\ UNCHANGED <<applied, bypassed>>
  BY DEF StartGuarded
<1> HIDE DEF f, w, S
<1> QED BY <1>1, <1>4, <1>5, <1>6, <1>7, HookFresh

\* Leaving caches the lock and the depth that are written.
LEMMA CompleteFresh == ASSUME IInv, IInv', FreshInv, Complete PROVE FreshInv'
<1>1. In("body") /\ Running /\ Top.phase = "body" /\ UNCHANGED <<applied, bypassed>>
  BY DEF Complete, In
<1>2. /\ Top \in Frame /\ FrameOK(Top, TRUE) /\ Top.contract \in Contract
  BY <1>1, TopFacts
<1>3. CASE ~GuardApplies(Top)
  <2>1. Continue([Top EXCEPT !.phase = "completed"], NoWrite)
    BY <1>3 DEF Complete
  <2>2. "completed" \in {"body", "completed", "reverted"}
    OBVIOUS
  <2> QED BY <1>1, <2>1, <2>2, PhaseFresh
<1>4. CASE GuardApplies(Top)
  <2>1. ~Underflow(Top)
    BY <1>1, <1>4, NoUnderflow
  <2> DEFINE f == [Top EXCEPT !.phase = "completed", !.entered = FALSE]
             w == Release(Top)
             S == IF Level[Top.contract] = "STANDARD" THEN {"locked"} ELSE {"locked", "depth"}
  <2>2. Continue(f, w)
    BY <1>4, <2>1 DEF Complete
  <2>3. /\ f \in Frame /\ f.contract = Top.contract /\ f.before = Top.before
        /\ f.phase # "started" /\ f.cache = Top.cache /\ f.reg = Top.reg /\ ~f.entered
    BY <1>2 DEF Frame, Phase
  <2>4. Level[Top.contract] \in {"STANDARD", "CALLBACK"}
    BY <1>4, <1>2, LevelAssumption DEF GuardApplies, Guarded, Levels
  <2>5. /\ S \in SUBSET {"locked", "depth"} /\ w \in [S -> SlotValue]
        /\ "locked" \in S => w["locked"] \in {False, True}
        /\ "depth" \in S => Level[Top.contract] = "CALLBACK"
    <3>1. CASE Level[Top.contract] = "STANDARD"
      <4>1. w = [s \in {"locked"} |-> False] /\ False \in SlotValue
        BY <3>1, BoundAssumption DEF Release, False, SlotValue
      <4> HIDE DEF w
      <4> QED BY <3>1, <4>1
    <3>2. CASE Level[Top.contract] = "CALLBACK"
      <4>1. ValueAt(Top, "depth") - 1 = 0
        BY <1>1, <1>2, <1>4, <3>2 DEF FrameOK, ValueAt, NotCached
      <4>2. w = [s \in {"depth", "locked"} |-> IF s = "depth" THEN 0 ELSE False]
        BY <3>2, <4>1 DEF Release
      <4>3. False \in SlotValue /\ 0 \in SlotValue
        BY BoundAssumption DEF False, SlotValue
      <4> HIDE DEF w
      <4> QED BY <3>2, <4>2, <4>3
    <3> QED BY <2>4, <3>1, <3>2
  <2> HIDE DEF f, w, S
  <2> QED BY <1>1, <1>4, <2>2, <2>3, <2>5, HookFresh
<1> QED BY <1>3, <1>4

-----------------------------------------------------------------------------
\* Frames that a call or a return leaves alone, but for their phase, stay fresh.
LEMMA KeptFrames ==
    ASSUME IInv, FreshInv, NEW n \in Nat, n <= Len(stack),
           \A i \in 1..n :
               /\ stack'[i].contract = stack[i].contract
               /\ stack'[i].entered = stack[i].entered
               /\ stack'[i].cache = stack[i].cache /\ stack'[i].reg = stack[i].reg
               /\ stack'[i].before = stack[i].before
               /\ stack'[i].phase = "started" => stack[i].phase = "started"
    PROVE  /\ \A i \in 1..n : CacheOK(i)' /\ WorldOK(stack'[i].before, stack', i - 1)
           /\ \A w : WorldOK(w, stack, n) => WorldOK(w, stack', n)
<1>1. ASSUME NEW i \in 1..n PROVE CacheOK(i)' /\ WorldOK(stack'[i].before, stack', i - 1)
  <2>1. CacheOK(i) /\ WorldOK(stack[i].before, stack, i - 1)
    BY DEF FreshInv, IInv, TypeOK
  <2>2. HoldsBelow(stack[i].contract, i)' <=> HoldsBelow(stack[i].contract, i)
    BY DEF HoldsBelow, Entered
  <2>3. CacheOK(i)'
    BY <2>1, <2>2 DEF CacheOK, HoldsBelow
  <2>4. WorldOK(stack[i].before, stack', i - 1)
    <3>1. i - 1 \in Nat /\ 1..(i - 1) \subseteq 1..n
      OBVIOUS
    <3> QED BY <2>1, <3>1, SameFrames
  <2> QED BY <2>3, <2>4
<1>2. \A w : WorldOK(w, stack, n) => WorldOK(w, stack', n)
  BY SameFrames
<1> QED BY <1>1, <1>2

\* A new frame has cached nothing, and would bring back the world as it is.
LEMMA PushFresh ==
    ASSUME IInv, IInv', FreshInv, NEW c \in Contract, NEW sel, NEW stop,
           NEW s \in Seq(Frame), Len(s) = Len(stack),
           \A i \in 1..Len(stack) :
               /\ s[i].contract = stack[i].contract /\ s[i].entered = stack[i].entered
               /\ s[i].cache = stack[i].cache /\ s[i].reg = stack[i].reg
               /\ s[i].before = stack[i].before
               /\ s[i].phase = "started" => stack[i].phase = "started",
           stack' = Append(s, NewFrame(c, sel, stop)),
           UNCHANGED <<host, applied, bypassed>>
    PROVE  FreshInv'
<1> SUFFICES ASSUME NEW CONSTANT k, k = Len(stack) PROVE FreshInv'
  OBVIOUS
<1> DEFINE n == NewFrame(c, sel, stop)
<1>1. k \in Nat
  BY DEF IInv, TypeOK
<1>2. /\ n.contract = c /\ ~n.entered /\ n.before = Now /\ n.reg = NotCached
      /\ n.cache["locked"] = NotCached /\ n.cache["depth"] = NotCached
  BY DEF NewFrame, Slot
<1> HIDE DEF n
<1>3. /\ Len(stack') = k + 1 /\ stack'[k + 1] = n
      /\ \A i \in 1..k : stack'[i] = s[i]
  BY <1>1 DEF n
<1>4. /\ \A i \in 1..k : CacheOK(i)' /\ WorldOK(stack'[i].before, stack', i - 1)
      /\ \A w : WorldOK(w, stack, k) => WorldOK(w, stack', k)
  BY <1>1, <1>3, KeptFrames
<1>5. WorldOK(Now, stack', k)
  BY <1>4 DEF FreshInv
<1>6. Initialised(host, stack', k + 1)
  BY <1>1, <1>2, <1>3, <1>5 DEF WorldOK, Initialised, Now
<1>7. DataAgrees(Now, stack', k + 1)
  BY <1>1, <1>2, <1>3, <1>5 DEF WorldOK, DataAgrees
<1>8. WorldOK(Now, stack', k + 1) /\ Now' = Now
  BY <1>5, <1>6, <1>7 DEF WorldOK, Now
<1>9. CacheOK(k + 1)'
  BY <1>2, <1>3 DEF CacheOK
<1>10. \A i \in 1..(k + 1) : CacheOK(i)'
  BY <1>1, <1>4, <1>9
<1>11. \A i \in 1..(k + 1) : WorldOK(stack'[i].before, stack', i - 1)
  <2>1. WorldOK(stack'[k + 1].before, stack', (k + 1) - 1)
    BY <1>1, <1>2, <1>3, <1>5
  <2> QED BY <1>1, <1>4, <2>1
<1> QED BY <1>3, <1>8, <1>10, <1>11 DEF FreshInv

\* A transaction starts with a new frame.
LEMMA BeginFresh ==
    ASSUME IInv, IInv', FreshInv, NEW c \in Contract, NEW sel, BeginTransaction(c, sel)
    PROVE  FreshInv'
<1>1. stack' = Append(<<>>, NewFrame(c, sel, TRUE)) /\ stack = <<>>
  BY DEF BeginTransaction
<1>2. <<>> \in Seq(Frame) /\ Len(<<>>) = Len(stack) /\ 1..Len(stack) = {}
  BY <1>1
<1>3. UNCHANGED <<host, applied, bypassed>>
  BY DEF BeginTransaction
<1> QED BY <1>1, <1>2, <1>3, PushFresh

\* A call waits below a new frame.
LEMMA CallFresh ==
    ASSUME IInv, IInv', FreshInv, NEW c \in Contract, NEW sel, NEW stop, Call(c, sel, stop)
    PROVE  FreshInv'
<1>1. Running
  BY SpendType DEF Call
<1>2. Top \in Frame /\ Len(stack) \in 1..Len(stack)
  BY <1>1, TopFacts
<1> DEFINE f == [Top EXCEPT !.phase = "calling"]
           s == ReplaceTop(f)
<1>3. /\ f \in Frame /\ f.contract = Top.contract /\ f.entered = Top.entered
      /\ f.cache = Top.cache /\ f.reg = Top.reg
      /\ f.before = Top.before /\ f.phase # "started"
  BY <1>2 DEF Frame, Phase
<1> HIDE DEF f
<1>4. /\ s \in Seq(Frame) /\ Len(s) = Len(stack) /\ s[Len(stack)] = f
      /\ \A i \in 1..Len(stack) : i # Len(stack) => s[i] = stack[i]
  BY <1>2, <1>3 DEF ReplaceTop, IInv, TypeOK
<1>5. stack' = Append(s, NewFrame(c, sel, stop)) /\ UNCHANGED <<host, applied, bypassed>>
  BY DEF Call, f
<1> HIDE DEF s
<1>6. \A i \in 1..Len(stack) :
         /\ s[i].contract = stack[i].contract /\ s[i].entered = stack[i].entered
         /\ s[i].cache = stack[i].cache /\ s[i].reg = stack[i].reg
         /\ s[i].before = stack[i].before
         /\ s[i].phase = "started" => stack[i].phase = "started"
  BY <1>3, <1>4 DEF Top
<1> QED BY <1>4, <1>5, <1>6, PushFresh

\* A frame that is gone leaves the caches of the others as they were.
LEMMA PopFresh ==
    ASSUME IInv, FreshInv, Running, NEW p \in {"body", "reverted"},
           stack' = IF Len(stack) = 1 THEN <<>>
                    ELSE [Caller EXCEPT ![Len(stack) - 1].phase = p],
           WorldOK(Now', stack, Len(stack) - 1)
    PROVE  FreshInv'
<1> SUFFICES ASSUME NEW CONSTANT k, k = Len(stack), NEW CONSTANT m, m = k - 1
             PROVE  FreshInv'
  OBVIOUS
<1>0. k \in Nat \ {0} /\ stack \in Seq(Frame)
  BY TopFacts DEF IInv, TypeOK
<1>1. m \in Nat /\ m <= Len(stack)
  BY <1>0
<1>2. Caller \in Seq(Frame) /\ Len(Caller) = m /\ \A i \in 1..m : Caller[i] = stack[i]
  BY <1>0, <1>1 DEF Caller
<1>3. Len(stack') = m
  BY <1>1, <1>2
<1>4. ASSUME NEW i \in 1..m
      PROVE  /\ stack'[i].contract = stack[i].contract
             /\ stack'[i].entered = stack[i].entered
             /\ stack'[i].cache = stack[i].cache /\ stack'[i].reg = stack[i].reg
             /\ stack'[i].before = stack[i].before
             /\ stack'[i].phase = "started" => stack[i].phase = "started"
  <2>1. stack' = [Caller EXCEPT ![m].phase = p] /\ Caller[i] = stack[i] /\ m \in 1..m
    BY <1>1, <1>2
  <2>2. Caller[i] \in Frame
    BY <1>2
  <2>3. CASE i # m
    BY <2>1, <2>3, <1>2
  <2>4. CASE i = m
    <3>1. stack'[i] = [stack[i] EXCEPT !.phase = p]
      BY <2>1, <2>4, <1>2
    <3> QED BY <3>1, <2>1, <2>2 DEF Frame
  <2> QED BY <2>3, <2>4
<1>5. /\ \A i \in 1..m : CacheOK(i)' /\ WorldOK(stack'[i].before, stack', i - 1)
      /\ \A w : WorldOK(w, stack, m) => WorldOK(w, stack', m)
  BY <1>1, <1>4, KeptFrames
<1> QED BY <1>3, <1>5 DEF FreshInv

\* A frame that returns leaves the world as it is.
LEMMA ReturnFresh == ASSUME IInv, FreshInv, Return PROVE FreshInv'
<1>1. Running /\ Now' = Now
  BY DEF Return, In, Now
<1>2. Len(stack) \in Nat \ {0}
  BY <1>1, TopFacts
<1>3. WorldOK(Now, stack, Len(stack) - 1)
  <2>1. Len(stack) - 1 \in 0..Len(stack) /\ WorldOK(Now, stack, Len(stack))
    BY <1>2 DEF FreshInv
  <2> QED BY <1>2, <2>1, FewerFrames
<1>4. stack' = IF Len(stack) = 1 THEN <<>>
               ELSE [Caller EXCEPT ![Len(stack) - 1].phase = "body"]
  BY DEF Return
<1> QED BY <1>1, <1>3, <1>4, PopFresh

\* A failure brings back a world that agrees with the frames that are left.
LEMMA UnwindFresh == ASSUME IInv, FreshInv, Unwind PROVE FreshInv'
<1>1. Running
  BY DEF Unwind, In
<1>2. Top \in Frame /\ Len(stack) \in 1..Len(stack)
  BY <1>1, TopFacts
<1>3. Now' = Top.before
  BY <1>2 DEF Unwind, Now, Frame, World
<1>4. WorldOK(Now', stack, Len(stack) - 1)
  BY <1>2, <1>3 DEF FreshInv, Top
<1> DEFINE p == IF Top.stop THEN "reverted" ELSE "body"
<1>5. stack' = IF Len(stack) = 1 THEN <<>>
               ELSE [Caller EXCEPT ![Len(stack) - 1].phase = p]
  BY DEF Unwind
<1>6. p \in {"body", "reverted"}
  OBVIOUS
<1> HIDE DEF p
<1> QED BY <1>1, <1>4, <1>5, <1>6, PopFresh

-----------------------------------------------------------------------------
\* Every step keeps both halves of the invariant.
LEMMA NextFresh == ASSUME IInv, IInv', FreshInv, [Next]_vars PROVE FreshInv'
<1>1. CASE Begin
  BY <1>1, BeginFresh DEF Begin
<1>2. CASE StartUnguarded
  <2>1. /\ Continue([Top EXCEPT !.phase = "body"], NoWrite)
        /\ UNCHANGED <<applied, bypassed>> /\ Running
    BY <1>2 DEF StartUnguarded, In
  <2>2. "body" \in {"body", "completed", "reverted"}
    OBVIOUS
  <2> QED BY <2>1, <2>2, PhaseFresh
<1>3. CASE StartGuarded
  BY <1>3, StartGuardedFresh
<1>4. CASE StartRefused \/ Throw
  <2>1. /\ Continue([Top EXCEPT !.phase = "reverted"], NoWrite)
        /\ UNCHANGED <<applied, bypassed>> /\ Running
    BY <1>4 DEF StartRefused, Throw, In
  <2>2. "reverted" \in {"body", "completed", "reverted"}
    OBVIOUS
  <2> QED BY <2>1, <2>2, PhaseFresh
<1>5. CASE Complete
  BY <1>5, CompleteFresh
<1>6. CASE Return
  BY <1>6, ReturnFresh
<1>7. CASE Unwind
  BY <1>7, UnwindFresh
<1>8. CASE \E c \in Contract, sel \in Callable, stop \in BOOLEAN : Call(c, sel, stop)
  BY <1>8, CallFresh
<1>9. ASSUME NEW stop \in BOOLEAN, CallRefused(stop) PROVE FreshInv'
  <2> DEFINE p == IF stop THEN "reverted" ELSE "body"
  <2>1. Continue([Top EXCEPT !.phase = p], NoWrite) /\ UNCHANGED <<applied, bypassed>>
    BY <1>9 DEF CallRefused
  <2>2. p \in {"body", "completed", "reverted"} /\ Running
    BY <1>9, SpendType DEF CallRefused
  <2> HIDE DEF p
  <2> QED BY <2>1, <2>2, PhaseFresh
<1>10. CASE ObserveGuard
  BY <1>10, ObserveGuardFresh
<1>11. CASE Load
  BY <1>11, LoadFresh
<1>12. CASE Store
  BY <1>12, StoreFresh
<1>13. CASE Add
  BY <1>13, AddFresh
<1>14. CASE AddOverflow
  BY <1>14, AddOverflowFresh
<1>15. CASE UpdateSelf
  <2>1. Running
    BY <1>15, SpendType DEF UpdateSelf, Call
  <2>2. Top.contract \in Contract
    BY <2>1, TopFacts
  <2> QED BY <1>15, <2>2, CallFresh DEF UpdateSelf
<1>16. CASE UNCHANGED vars
  <2>1. stack' = stack /\ Now' = Now
    BY <1>16 DEF vars, Now
  <2>2. \A i \in 1..Len(stack) : CacheOK(i) => CacheOK(i)'
    BY <2>1 DEF CacheOK, HoldsBelow, Entered
  <2> QED BY <2>1, <2>2 DEF FreshInv
<1> QED BY <1>1, <1>2, <1>3, <1>4, <1>5, <1>6, <1>7, <1>8, <1>9, <1>10, <1>11, <1>12,
           <1>13, <1>14, <1>15, <1>16 DEF Next, Execute

\* Both halves hold in every state.
LEMMA FreshInvariance == Spec => [](IInv /\ FreshInv)
<1>1. Init => IInv /\ FreshInv
  BY InitInv, InitFresh
<1>2. IInv /\ FreshInv /\ [Next]_vars => IInv' /\ FreshInv'
  BY NextInv, NextFresh
<1> QED BY <1>1, <1>2, PTL DEF Spec

\* An instance that runs again after a call has nothing stale of the guard in its cache.
THEOREM GuardCacheIsFresh == Spec => []GuardCacheFresh
<1>1. IInv /\ FreshInv => GuardCacheFresh
  BY TopFresh DEF GuardCacheFresh
<1> QED BY <1>1, FreshInvariance, PTL

\* An instance inside the guard has nothing stale of the contract's data, in its cache or in
\* a local variable, unless code outside the guard wrote them.
THEOREM DataCacheIsFresh == Spec => []DataCacheFresh
<1>1. IInv /\ FreshInv => DataCacheFresh
  <2> SUFFICES ASSUME IInv, FreshInv, NEW i \in 1..Len(stack),
                      Entered(i), stack[i].contract \notin bypassed
               PROVE  /\ stack[i].cache["data"] \in {NotCached, host[stack[i].contract]["data"]}
                      /\ stack[i].reg \in {NotCached, host[stack[i].contract]["data"]}
    BY DEF DataCacheFresh
  <2>1. stack \in Seq(Frame)
    BY DEF IInv, TypeOK
  <2>2. stack[i] \in Frame
    BY <2>1
  <2>3. stack[i].contract \in Contract
    BY <2>2 DEF Frame
  <2> QED BY <2>3 DEF FreshInv, WorldOK, DataAgrees, Now, Entered
<1> QED BY <1>1, FreshInvariance, PTL

\* The data slot counts every increment made inside the guard and not rolled back.
THEOREM NoUpdateIsLost == Spec => []NoLostUpdate
<1>1. FreshInv => NoLostUpdate
  BY DEF FreshInv, WorldOK, DataAgrees, Now, NoLostUpdate
<1> QED BY <1>1, FreshInvariance, PTL

-----------------------------------------------------------------------------
(* The exclusive section *)

HeldNow(c) == HoldsBelow(c, Len(stack))

\* In a stack s whose frames exclude each other, a contract counts one frame inside, or none.
LEMMA HoldersCount ==
    ASSUME NEW s, NEW c,
           \A i, j \in 1..Len(s) : s[i].entered /\ s[j].entered
                                    /\ s[i].contract = s[j].contract => i = j
    PROVE  Cardinality({i \in 1..Len(s) : s[i].entered /\ s[i].contract = c})
             = IF \E i \in 1..Len(s) : s[i].entered /\ s[i].contract = c THEN 1 ELSE 0
<1> DEFINE Holders == {i \in 1..Len(s) : s[i].entered /\ s[i].contract = c}
<1>1. CASE \E i \in 1..Len(s) : s[i].entered /\ s[i].contract = c
  <2>1. PICK i \in 1..Len(s) : s[i].entered /\ s[i].contract = c
    BY <1>1
  <2>2. Holders = {i}
    BY <2>1
  <2> HIDE DEF Holders
  <2>3. Cardinality(Holders) = 1
    BY <2>2, FS_Singleton
  <2> QED BY <1>1, <2>3 DEF Holders
<1>2. CASE ~\E i \in 1..Len(s) : s[i].entered /\ s[i].contract = c
  <2>1. Holders = {}
    BY <1>2
  <2> HIDE DEF Holders
  <2>2. Cardinality(Holders) = 0
    BY <2>1, FS_EmptySet
  <2> QED BY <1>2, <2>2 DEF Holders
<1> QED BY <1>1, <1>2

\* Seen from outside, a guarded contract counts one execution inside, or none.
LEMMA InsideCounts ==
    /\ IInv => Inside = [c \in {d \in Contract : Guarded(d)} |->
                             IF HeldNow(c) THEN 1 ELSE 0]
    /\ IInv' => Inside' = [c \in {d \in Contract : Guarded(d)} |->
                               IF HeldNow(c)' THEN 1 ELSE 0]
<1>1. ASSUME IInv, NEW c
      PROVE  Cardinality({i \in 1..Len(stack) : Entered(i) /\ stack[i].contract = c})
                = IF HeldNow(c) THEN 1 ELSE 0
  BY <1>1, HoldersCount DEF HeldNow, HoldsBelow, Entered, IInv, MutualExclusion
<1>2. ASSUME IInv', NEW c
      PROVE  Cardinality({i \in 1..Len(stack) : Entered(i) /\ stack[i].contract = c})'
                = IF HeldNow(c)' THEN 1 ELSE 0
  BY <1>2, HoldersCount DEF HeldNow, HoldsBelow, Entered, IInv, MutualExclusion
<1> QED BY <1>1, <1>2 DEF Inside, Guarded

\* A step that changes who is inside for one contract at most enters it, leaves it or
\* stutters.
LEMMA OneContractStep ==
    ASSUME IInv, IInv', NEW e \in Contract,
           \A c \in Contract : c # e => (HeldNow(c)' <=> HeldNow(c))
    PROVE  [Exclusive!Next]_Inside
<1> DEFINE G == {d \in Contract : Guarded(d)}
<1>1. Inside = [c \in G |-> IF HeldNow(c) THEN 1 ELSE 0]
  BY InsideCounts
<1>2. Inside' = [c \in G |-> IF HeldNow(c)' THEN 1 ELSE 0]
  BY InsideCounts
<1>3. CASE e \notin G \/ (HeldNow(e)' <=> HeldNow(e))
  <2>1. \A c \in G : HeldNow(c)' <=> HeldNow(c)
    BY <1>3
  <2> QED BY <1>1, <1>2, <2>1
<1>4. CASE e \in G /\ HeldNow(e)' /\ ~HeldNow(e)
  <2>1. Inside[e] = 0
    BY <1>1, <1>4
  <2>2. Inside' = [Inside EXCEPT ![e] = 1]
    BY <1>1, <1>2, <1>4
  <2>3. Exclusive!Enter(e)
    BY <2>1, <2>2 DEF Exclusive!Enter
  <2> QED BY <1>4, <2>3 DEF Exclusive!Next
<1>5. CASE e \in G /\ ~HeldNow(e)' /\ HeldNow(e)
  <2>1. Inside[e] = 1
    BY <1>1, <1>5
  <2>2. Inside' = [Inside EXCEPT ![e] = 0]
    BY <1>1, <1>2, <1>5
  <2>3. Exclusive!Leave(e)
    BY <2>1, <2>2 DEF Exclusive!Leave
  <2> QED BY <1>5, <2>3 DEF Exclusive!Next
<1> QED BY <1>3, <1>4, <1>5

\* A step of the running frame changes at most its own contract.
LEMMA ContinueExclusive ==
    ASSUME IInv, IInv', Running, NEW g,
           stack' = ReplaceTop(g), g.contract = Top.contract
    PROVE  [Exclusive!Next]_Inside
<1>1. Top.contract \in Contract /\ Len(stack) \in 1..Len(stack) /\ stack \in Seq(Frame)
  BY TopFacts DEF IInv, TypeOK
<1>2. /\ Len(stack') = Len(stack) /\ stack'[Len(stack)] = g
      /\ \A i \in 1..Len(stack) : i # Len(stack) => stack'[i] = stack[i]
  BY <1>1 DEF ReplaceTop
<1>3. \A c \in Contract : c # Top.contract => (HeldNow(c)' <=> HeldNow(c))
  BY <1>1, <1>2 DEF HeldNow, HoldsBelow, Entered, Top
<1> QED BY <1>1, <1>3, OneContractStep

\* A call enters nothing: the new frame has still to pass the guard.
LEMMA PushExclusive ==
    ASSUME IInv, IInv', NEW c \in Contract, NEW sel, NEW stop,
           NEW s \in Seq(Frame), Len(s) = Len(stack),
           \A i \in 1..Len(stack) : /\ s[i].contract = stack[i].contract
                                    /\ s[i].entered = stack[i].entered,
           stack' = Append(s, NewFrame(c, sel, stop))
    PROVE  [Exclusive!Next]_Inside
<1> SUFFICES ASSUME NEW CONSTANT k, k = Len(stack) PROVE [Exclusive!Next]_Inside
  OBVIOUS
<1>1. k \in Nat
  BY DEF IInv, TypeOK
<1>2. ~NewFrame(c, sel, stop).entered
  BY DEF NewFrame
<1>3. /\ Len(stack') = k + 1 /\ ~stack'[k + 1].entered
      /\ \A i \in 1..k : stack'[i] = s[i]
  BY <1>1, <1>2
<1>4. \A d \in Contract : HeldNow(d)' <=> HeldNow(d)
  BY <1>1, <1>3 DEF HeldNow, HoldsBelow, Entered
<1> QED BY <1>4, OneContractStep

\* A frame that is popped leaves its own contract, if it was inside.
LEMMA PopExclusive ==
    ASSUME IInv, IInv', Running, NEW p,
           stack' = IF Len(stack) = 1 THEN <<>>
                    ELSE [Caller EXCEPT ![Len(stack) - 1].phase = p]
    PROVE  [Exclusive!Next]_Inside
<1> SUFFICES ASSUME NEW CONSTANT k, k = Len(stack), NEW CONSTANT m, m = k - 1
             PROVE  [Exclusive!Next]_Inside
  OBVIOUS
<1>0. k \in Nat \ {0} /\ stack \in Seq(Frame) /\ Top.contract \in Contract
  BY TopFacts DEF IInv, TypeOK
<1>1. k \in Nat \ {0} /\ stack \in Seq(Frame) /\ Top.contract \in Contract /\ m \in Nat
  BY <1>0
<1>2. Caller \in Seq(Frame) /\ Len(Caller) = m /\ \A i \in 1..m : Caller[i] = stack[i]
  BY <1>1 DEF Caller
<1>3. Len(stack') = m
  BY <1>1, <1>2
<1>4. ASSUME NEW i \in 1..m
      PROVE  stack'[i].contract = stack[i].contract /\ stack'[i].entered = stack[i].entered
  <2>1. stack' = [Caller EXCEPT ![m].phase = p] /\ Caller[i] = stack[i] /\ m \in 1..m
    BY <1>1, <1>2
  <2>2. stack[i] \in Frame
    BY <1>1
  <2>3. CASE i # m
    BY <2>1, <2>3, <1>2
  <2>4. CASE i = m
    <3>1. stack'[i] = [stack[i] EXCEPT !.phase = p]
      BY <2>1, <2>4, <1>2, SMTT(20)
    <3> QED BY <3>1, <2>2 DEF Frame
  <2> QED BY <2>3, <2>4
<1>5. \A c \in Contract : HoldsBelow(c, k) <=> HoldsBelow(c, m) \/ (Top.entered /\ Top.contract = c)
  BY HoldsSplit
<1>6. \A c \in Contract : HoldsBelow(c, m)' <=> HoldsBelow(c, m)
  BY <1>4 DEF HoldsBelow, Entered
<1>7. \A c \in Contract : c # Top.contract => (HeldNow(c)' <=> HeldNow(c))
  BY <1>3, <1>5, <1>6 DEF HeldNow, HoldsBelow
<1> QED BY <1>1, <1>7, OneContractStep

\* Every step is an entry or an exit of one contract, or none.
LEMMA NextExclusive == ASSUME IInv, IInv', [Next]_vars PROVE [Exclusive!Next]_Inside
<1>1. CASE Begin
  <2>1. PICK c \in Contract, sel \in Callable : BeginTransaction(c, sel)
    BY <1>1 DEF Begin
  <2>2. /\ <<>> \in Seq(Frame) /\ Len(<<>>) = Len(stack) /\ 1..Len(stack) = {}
        /\ stack' = Append(<<>>, NewFrame(c, sel, TRUE))
    BY <2>1 DEF BeginTransaction
  <2> QED BY <2>2, PushExclusive
<1>2. ASSUME NEW c \in Contract, NEW sel, NEW stop, Call(c, sel, stop)
      PROVE  [Exclusive!Next]_Inside
  <2>1. Running
    BY <1>2, SpendType DEF Call
  <2>2. Top \in Frame /\ Len(stack) \in 1..Len(stack) /\ stack \in Seq(Frame)
    BY <2>1, TopFacts DEF IInv, TypeOK
  <2> DEFINE f == [Top EXCEPT !.phase = "calling"]
             s == ReplaceTop(f)
  <2>3. f \in Frame /\ f.contract = Top.contract /\ f.entered = Top.entered
    BY <2>2 DEF Frame, Phase
  <2>4. stack' = Append(s, NewFrame(c, sel, stop))
    BY <1>2 DEF Call
  <2> HIDE DEF f
  <2>5. /\ s \in Seq(Frame) /\ Len(s) = Len(stack)
        /\ \A i \in 1..Len(stack) : /\ s[i].contract = stack[i].contract
                                    /\ s[i].entered = stack[i].entered
    BY <2>2, <2>3 DEF ReplaceTop, Top
  <2> HIDE DEF s
  <2> QED BY <2>4, <2>5, PushExclusive
<1>3. CASE Return
  BY <1>3, PopExclusive DEF Return, In
<1>4. CASE Unwind
  BY <1>4, PopExclusive DEF Unwind, In
<1>5. ASSUME \/ StartUnguarded \/ StartGuarded \/ StartRefused \/ Complete \/ Throw
             \/ \E stop \in BOOLEAN : CallRefused(stop)
             \/ ObserveGuard \/ Load \/ Store \/ Add \/ AddOverflow
      PROVE  Running
  BY <1>5 DEF StartUnguarded, StartGuarded, StartRefused, Complete, Throw, CallRefused,
              ObserveGuard, Load, Store, Add, AddOverflow, Spend, In
<1>6. ASSUME Running, NEW f, NEW w, Continue(f, w),
             f.contract = Top.contract, "contract" \in DOMAIN f
      PROVE  [Exclusive!Next]_Inside
  <2> DEFINE g == [f EXCEPT !.cache = Updated(f.cache, w)]
  <2>1. stack' = ReplaceTop(g)
    BY <1>6 DEF Continue
  <2>2. g.contract = Top.contract
    BY <1>6
  <2> HIDE DEF g
  <2> QED BY <1>6, <2>1, <2>2, ContinueExclusive
<1>7. ASSUME Running, NEW p, NEW w, Continue([Top EXCEPT !.phase = p], w)
      PROVE  [Exclusive!Next]_Inside
  <2> DEFINE f == [Top EXCEPT !.phase = p]
  <2>1. Top \in Frame
    BY <1>7, TopFacts
  <2>2. f.contract = Top.contract /\ "contract" \in DOMAIN f
    BY <2>1 DEF Frame
  <2>3. Continue(f, w)
    BY <1>7
  <2> HIDE DEF f
  <2> QED BY <1>6, <1>7, <2>2, <2>3
<1>8. ASSUME Running, NEW p, NEW b, NEW w,
              Continue([Top EXCEPT !.phase = p, !.entered = b], w)
       PROVE  [Exclusive!Next]_Inside
  <2> DEFINE f == [Top EXCEPT !.phase = p, !.entered = b]
  <2>1. Top \in Frame
    BY <1>8, TopFacts
  <2>2. f.contract = Top.contract /\ "contract" \in DOMAIN f
    BY <2>1 DEF Frame
  <2>3. Continue(f, w)
    BY <1>8
  <2> HIDE DEF f
  <2> QED BY <1>6, <1>8, <2>2, <2>3
<1>9. ASSUME Running, NEW v, NEW w, Continue([Top EXCEPT !.reg = v], w)
       PROVE  [Exclusive!Next]_Inside
  <2> DEFINE f == [Top EXCEPT !.reg = v]
  <2>1. Top \in Frame
    BY <1>9, TopFacts
  <2>2. f.contract = Top.contract /\ "contract" \in DOMAIN f
    BY <2>1 DEF Frame
  <2>3. Continue(f, w)
    BY <1>9
  <2> HIDE DEF f
  <2> QED BY <1>6, <1>9, <2>2, <2>3
<1>10. CASE \/ StartUnguarded \/ StartRefused \/ Throw
            \/ \E stop \in BOOLEAN : CallRefused(stop)
  BY <1>5, <1>7, <1>10 DEF StartUnguarded, StartRefused, Throw, CallRefused
<1>11. CASE StartGuarded \/ Complete
  BY <1>5, <1>7, <1>8, <1>11 DEF StartGuarded, Complete
<1>12. CASE Store \/ Add
  BY <1>5, <1>9, <1>12 DEF Store, Add
<1>13. CASE Load
  <2> DEFINE f == [Reading(Top, "data") EXCEPT !.reg = ValueAt(Top, "data")]
  <2>1. Running /\ Continue(f, NoWrite)
    BY <1>5, <1>13 DEF Load
  <2>2. f.contract = Top.contract /\ "contract" \in DOMAIN f
    BY <2>1, TopFacts DEF Frame, Reading
  <2> HIDE DEF f
  <2> QED BY <1>6, <2>1, <2>2
<1>14. CASE AddOverflow
  <2> DEFINE f == [Reading(Top, "data") EXCEPT !.phase = "reverted"]
  <2>1. Running /\ Continue(f, NoWrite)
    BY <1>5, <1>14 DEF AddOverflow
  <2>2. f.contract = Top.contract /\ "contract" \in DOMAIN f
    BY <2>1, TopFacts DEF Frame, Reading
  <2> HIDE DEF f
  <2> QED BY <1>6, <2>1, <2>2
<1>15. CASE ObserveGuard
  <2> DEFINE f == Reading(Reading(Top, "locked"), "depth")
  <2>0. Running
    BY <1>5, <1>15
  <2>1. PICK w : Continue(f, w)
    BY <1>15 DEF ObserveGuard
  <2>2. f.contract = Top.contract /\ "contract" \in DOMAIN f
    BY <2>0, TopFacts DEF Frame, Reading
  <2> HIDE DEF f
  <2> QED BY <1>6, <2>0, <2>1, <2>2
<1>16. CASE UNCHANGED vars
  <2>1. Inside' = Inside
    BY <1>16 DEF vars, Inside, Entered, Guarded
  <2> QED BY <2>1
<1>17. CASE UpdateSelf
  <2>1. Running
    BY <1>17, SpendType DEF UpdateSelf, Call
  <2>2. Top.contract \in Contract
    BY <2>1, TopFacts
  <2> QED BY <1>2, <1>17, <2>2 DEF UpdateSelf
<1> QED BY <1>1, <1>2, <1>3, <1>4, <1>16, <1>17, <1>10, <1>11, <1>12, <1>13, <1>14, <1>15
        DEF Next, Execute

\* Seen from outside, the guard of ReentrancyGuard.ts is an exclusive section per contract:
\* a step enters one that is free, leaves one that is taken, or shows nothing.
THEOREM GuardIsAnExclusiveSection == Spec => ImplementsExclusiveEntry
<1>1. Init => Exclusive!Init
  <2> SUFFICES ASSUME Init PROVE Exclusive!Init
    OBVIOUS
  <2>1. \A c \in Contract : ~HeldNow(c)
    BY DEF Init, HeldNow, HoldsBelow
  <2>2. Inside = [c \in {d \in Contract : Guarded(d)} |-> 0]
    BY <2>1, InitInv, InsideCounts
  <2> QED BY <2>2 DEF Exclusive!Init
<1>2. IInv /\ IInv' /\ [Next]_vars => [Exclusive!Next]_Inside
  BY NextExclusive
<1> QED BY <1>1, <1>2, Invariance, PTL DEF Spec, ImplementsExclusiveEntry, Exclusive!Spec
=============================================================================

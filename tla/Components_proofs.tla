--------------------------- MODULE Components_proofs ---------------------------
(***************************************************************************)
(* For any addresses, rates and width of the block number: a renounced     *)
(* authority never comes back, and a stale rate is reported as such.  For  *)
(* every number of plugins and every calldata: a call reaches the plugin   *)
(* registered for its method with the reader at its arguments, and between *)
(* the hooks of all.  For every count of numbers in a slot: packed numbers *)
(* are kept.  For every size of the cells: strings are kept, and nothing   *)
(* is left behind.  For every set of keys and values: the maps of every    *)
(* class are dictionaries.  For every set of elements, size of a slot and  *)
(* length of the ring: packed and boolean arrays are sequences that are    *)
(* saved, and their elements have their own cells.                         *)
(***************************************************************************)
EXTENDS Components, BasicFacts

vs == <<part, pegVars, mapVars, callVars, textVars, slotVars, bitVars, arrayVars>>

\* Each component takes a step of its own, or none.
LEMMA PartsStep ==
    ASSUME [ComponentsNext]_vs
    PROVE  /\ [Map!Next]_mapVars /\ [Call!Next]_callVars
           /\ [Packed!Next]_slotVars /\ [Text!Next]_textVars
           /\ [Array!Next]_arrayVars /\ [Bits!Next]_bitVars
  BY DEF ComponentsNext, vs

-----------------------------------------------------------------------------
(* The authority of a pegged token *)

\* The inductive invariant: before the peg is initialised, and after its authority has
\* renounced, nobody has an offer that could still be accepted; the rate is dated with the
\* block that quoted it, which is not in the future.
PegInv ==
    /\ TypeOK
    /\ pegRate = 0 => authority = Zero
    /\ authority = Zero => pending = Zero
    /\ quotedAt = updatedAt /\ updatedAt <= block

\* A number below the modulus is its own remainder.
LEMMA SmallRemainder ==
    ASSUME NEW a \in Nat, NEW n \in Nat \ {0}, a < n
    PROVE  a % n = a
  BY SMT

\* The initial state satisfies the invariant.
LEMMA InitPeg == Init => PegInv
  BY PegAssumption DEF Init, PegInv, TypeOK

\* Every call, a new block and a stutter preserve it.
LEMMA StepPeg == PegInv /\ [Next]_vars => PegInv'
  <1> SUFFICES ASSUME PegInv, [Next]_vars PROVE PegInv'
    OBVIOUS
  <1> USE PegAssumption DEF PegInv, TypeOK, Sender
  <1>1. ASSUME NEW a \in Address, NEW r \in Rate, NEW s \in 0 .. MaxU64,
               InitializePeg(a, r, s)
        PROVE  PegInv'
    BY <1>1 DEF InitializePeg, Quote
  <1>2. ASSUME NEW sender \in Sender, NEW r \in Rate, UpdatePegRate(sender, r)
        PROVE  PegInv'
    BY <1>2 DEF UpdatePegRate, Quote, OnlyPegAuthority
  <1>3. ASSUME NEW sender \in Sender, NEW s \in 0 .. MaxU64, UpdateMaxStaleness(sender, s)
        PROVE  PegInv'
    BY <1>3 DEF UpdateMaxStaleness, OnlyPegAuthority
  <1>4. ASSUME NEW sender \in Sender, NEW a \in Address, TransferPegAuthority(sender, a)
        PROVE  PegInv'
    BY <1>4 DEF TransferPegAuthority, OnlyPegAuthority, peg
  <1>5. ASSUME NEW sender \in Sender, AcceptPegAuthority(sender)
        PROVE  PegInv'
    BY <1>5 DEF AcceptPegAuthority, peg
  <1>6. ASSUME NEW sender \in Sender, RenouncePegAuthority(sender)
        PROVE  PegInv'
    BY <1>6 DEF RenouncePegAuthority, OnlyPegAuthority, peg
  <1>7. CASE NewBlock
    BY <1>7 DEF NewBlock, peg
  <1>8. CASE UNCHANGED vars
    BY <1>8 DEF vars, peg
  <1> QED
    BY <1>1, <1>2, <1>3, <1>4, <1>5, <1>6, <1>7, <1>8 DEF Next

\* Every reachable state of the peg satisfies the invariant.
THEOREM PegInvariance == Spec => []PegInv
  BY InitPeg, StepPeg, PTL DEF Spec

\* The variables of the peg keep their types.
THEOREM PegTypeCorrect == Spec => []TypeOK
  <1>1. PegInv => TypeOK
    BY DEF PegInv
  <1> QED
    BY <1>1, PegInvariance, PTL

\* In a renounced peg, only the block number changes.
LEMMA RenouncedStep ==
    ASSUME PegInv, Renounced, [Next]_vars
    PROVE  UNCHANGED <<authority, pending, peg>>
  <1> USE PegAssumption DEF PegInv, TypeOK, Sender, Renounced
  <1>1. ASSUME NEW a \in Address, NEW r \in Rate, NEW s \in 0 .. MaxU64,
               InitializePeg(a, r, s)
        PROVE  FALSE
    BY <1>1 DEF InitializePeg
  <1>2. ASSUME NEW sender \in Sender
        PROVE  ~OnlyPegAuthority(sender) /\ ~AcceptPegAuthority(sender)
    BY DEF OnlyPegAuthority, AcceptPegAuthority
  <1>3. CASE NewBlock
    BY <1>3 DEF NewBlock
  <1>4. CASE UNCHANGED vars
    BY <1>4 DEF vars
  <1> QED
    BY <1>1, <1>2, <1>3, <1>4
    DEF Next, UpdatePegRate, UpdateMaxStaleness, TransferPegAuthority, RenouncePegAuthority

\* OP20S.ts: once the authority has renounced, the rate, its date and the allowed staleness
\* are final, and no offer made before can bring an authority back.
THEOREM RenouncingIsFinal == Spec => RenouncedIsFinal
  <1>1. PegInv /\ [Next]_vars => [Renounced => UNCHANGED <<authority, pending, peg>>]_vars
    BY RenouncedStep
  <1> QED
    BY <1>1, PegInvariance, PTL DEF Spec, RenouncedIsFinal

\* OP20S.ts: _isStale reports every rate that is too old, and reports a younger one only
\* when the last block it is good for does not fit 64 bits.
THEOREM StalenessIsReported == Spec => []StaleRateIsReported
  <1>1. ASSUME PegInv PROVE StaleRateIsReported
    <2> USE PegAssumption DEF PegAssumption
    <2> DEFINE lastBlock == updatedAt + maxStaleness
    <2>1. lastBlock \in Nat /\ block \in Nat /\ quotedAt = updatedAt /\ block <= MaxU64
      BY <1>1 DEF PegInv, TypeOK
    <2>2. lastBlock <= MaxU64 => lastBlock % (MaxU64 + 1) = lastBlock
      BY <2>1, SmallRemainder
    <2> QED
      BY <1>1, <2>1, <2>2 DEF StaleRateIsReported, IsStale, PegInv, TypeOK
  <1> QED
    BY <1>1, PegInvariance, PTL

-----------------------------------------------------------------------------
(* A call and its plugins *)

\* Hook name has run for the plugins up to k.
Ran(name, k) == [i \in 1 .. k |-> <<name, i>>]

\* What runs between the start of a call of export e and its end.
BodyRan(e) == IF e = "execute" THEN <<>> ELSE Ran("body", Plugins)

\* The hooks that have run when plugin k is next in phase ph.
RunBefore(ph, e, k) ==
    CASE ph = "started" -> Ran("started", k - 1)
      [] ph = "dispatch" -> Ran("started", Plugins)
      [] ph = "body" -> Ran("started", Plugins) \o Ran("body", k - 1)
      [] ph \in {"completed", "returned"} ->
            Ran("started", Plugins) \o BodyRan(e) \o Ran("completed", k - 1)

\* While a call runs, the hooks have run in order, the plugins that were asked found the
\* reader at the arguments, and no plugin registered for the method has been passed over.
CallInv ==
    /\ phase \in {"idle", "started", "dispatch", "body", "completed", "returned", "reverted"}
    /\ entry \in {"none", "execute", "onDeploy", "onUpdate"}
    /\ handlers \subseteq 0 .. Plugins
    /\ plugin \in 1 .. Plugins + 1 /\ offset \in Nat /\ startOffset \in Nat
    /\ phase = "idle" => plugin = 1 /\ hooks = <<>>
    /\ phase \in {"idle", "started"} => seen = <<>>
    /\ phase = "dispatch" => entry = "execute" /\ offset = startOffset
    /\ phase = "body" => entry # "execute"
    /\ phase = "returned" => plugin = Plugins + 1
    /\ seen \in Seq(Nat) /\ \A i \in 1 .. Len(seen) : seen[i] = startOffset
    /\ phase = "dispatch" /\ plugin # 1 => \A h \in handlers : plugin <= h
    /\ phase \in {"completed", "returned"} /\ entry = "execute" =>
          handledBy \in handlers /\ \A h \in handlers : handledBy <= h
    /\ phase \notin {"idle", "reverted"} => hooks = RunBefore(phase, entry, plugin)

HookCall == {"started", "body", "completed"} \X Nat

\* The hooks of the plugins up to k are a sequence.
LEMMA RanIsSeq ==
    ASSUME NEW name \in {"started", "body", "completed"}, NEW k \in Nat
    PROVE  /\ Ran(name, k) \in Seq(HookCall) /\ Len(Ran(name, k)) = k
           /\ Ran(name, 0) = <<>>
           /\ \A i \in 1 .. k : Ran(name, k)[i] = <<name, i>>
  <1>1. Ran(name, k) \in [1 .. k -> HookCall]
    BY DEF Ran, HookCall
  <1>2. Ran(name, k) \in Seq(HookCall)
    BY <1>1, SeqDef
  <1> QED
    BY <1>1, <1>2 DEF Ran

\* The hook of the next plugin comes behind it.
LEMMA RanGrows ==
    ASSUME NEW name \in {"started", "body", "completed"}, NEW k \in Nat,
           NEW s \in Seq(HookCall)
    PROVE  /\ Append(Ran(name, k), <<name, k + 1>>) = Ran(name, k + 1)
           /\ Append(s \o Ran(name, k), <<name, k + 1>>) = s \o Ran(name, k + 1)
  <1> DEFINE e == <<name, k + 1>>
             r == Ran(name, k)
             q == Ran(name, k + 1)
  <1>1. e \in HookCall /\ <<e>> \in Seq(HookCall)
    BY DEF HookCall
  <1>a. r \in Seq(HookCall) /\ Len(r) = k /\ \A i \in 1 .. k : r[i] = <<name, i>>
    BY RanIsSeq
  <1>b. q \in Seq(HookCall) /\ Len(q) = k + 1 /\ \A i \in 1 .. k + 1 : q[i] = <<name, i>>
    <2>1. k + 1 \in Nat
      OBVIOUS
    <2> QED
      BY <2>1, RanIsSeq
  <1>3. q[k + 1] = e /\ \A i \in 1 .. k : q[i] = r[i]
    <2>1. k + 1 \in 1 .. k + 1 /\ \A i \in 1 .. k : i \in 1 .. k + 1
      OBVIOUS
    <2> HIDE DEF r, q
    <2> QED
      BY <1>a, <1>b, <2>1
  <1> HIDE DEF e, r, q
  <1>4. Append(r, e) = q
    <2>1. Append(r, e) \in Seq(HookCall) /\ Len(Append(r, e)) = k + 1
      BY <1>1, <1>a, <1>b
    <2>2. \A i \in 1 .. k + 1 : Append(r, e)[i] = q[i]
      BY <1>1, <1>a, <1>b, <1>3
    <2> QED
      BY <1>a, <1>b, <2>1, <2>2, SeqEqual
  <1>5. Append(s \o r, e) = (s \o r) \o <<e>> /\ Append(r, e) = r \o <<e>>
    BY <1>1, <1>a, <1>b, ConcatProperties, AppendIsConcat
  <1>6. (s \o r) \o <<e>> = s \o (r \o <<e>>)
    BY <1>1, <1>a, <1>b, ConcatAssociative, SMTT(20)
  <1>7. Append(s \o r, e) = s \o q
    BY <1>4, <1>5, <1>6
  <1> QED
    BY <1>4, <1>7 DEF e, r, q

\* What has run when the next hook has.
LEMMA HookExtends ==
    ASSUME NEW ph \in {"started", "body", "completed"}, NEW e, NEW k \in 1 .. Plugins,
           NEW h, h = RunBefore(ph, e, k)
    PROVE  Append(h, <<ph, k>>) = RunBefore(ph, e, k + 1)
  <1> USE CallAssumption DEF CallAssumption
  <1>1. k - 1 \in Nat /\ (k - 1) + 1 = k /\ (k + 1) - 1 = k
    OBVIOUS
  <1>2. CASE ph = "started"
    <2>1. h = Ran("started", k - 1) /\ RunBefore(ph, e, k + 1) = Ran("started", k)
      BY <1>1, <1>2 DEF RunBefore
    <2>2. Append(Ran("started", k - 1), <<"started", (k - 1) + 1>>) = Ran("started", (k - 1) + 1)
      BY <1>1, RanGrows, EmptySeq
    <2> QED
      BY <1>1, <1>2, <2>1, <2>2
  <1>3. ASSUME NEW s \in Seq(HookCall), NEW name \in {"body", "completed"}, name = ph,
               h = s \o Ran(name, k - 1), RunBefore(ph, e, k + 1) = s \o Ran(name, k)
        PROVE  Append(h, <<ph, k>>) = RunBefore(ph, e, k + 1)
    <2>1. Append(s \o Ran(name, k - 1), <<name, (k - 1) + 1>>) = s \o Ran(name, (k - 1) + 1)
      BY <1>1, RanGrows
    <2> QED
      BY <1>1, <1>3, <2>1
  <1>4. CASE ph = "body"
    <2> DEFINE s == Ran("started", Plugins)
    <2>1. s \in Seq(HookCall)
      BY RanIsSeq
    <2>2. h = s \o Ran("body", k - 1) /\ RunBefore(ph, e, k + 1) = s \o Ran("body", k)
      BY <1>1, <1>4 DEF RunBefore
    <2> HIDE DEF s
    <2> QED
      BY <1>3, <1>4, <2>1, <2>2
  <1>5. CASE ph = "completed"
    <2> DEFINE b == BodyRan(e)
               s == Ran("started", Plugins) \o b
    <2>1. b \in Seq(HookCall) /\ Ran("started", Plugins) \in Seq(HookCall)
      BY RanIsSeq, EmptySeq DEF BodyRan
    <2>2. h = s \o Ran("completed", k - 1) /\ RunBefore(ph, e, k + 1) = s \o Ran("completed", k)
      BY <1>1, <1>5 DEF RunBefore
    <2>3. s \in Seq(HookCall)
      <3> HIDE DEF b
      <3> QED
        BY <2>1, ConcatProperties
    <2> HIDE DEF s
    <2> QED
      BY <1>3, <1>5, <2>2, <2>3
  <1> QED
    BY <1>2, <1>4, <1>5

\* Where one phase ends, the next one begins.
LEMMA NextPhase ==
    ASSUME NEW e
    PROVE  /\ RunBefore("started", e, 1) = <<>>
           /\ RunBefore("started", e, Plugins + 1) = RunBefore("dispatch", e, 1)
           /\ RunBefore("started", e, Plugins + 1) = RunBefore("body", e, 1)
           /\ e = "execute" => \A k \in 1 .. Plugins + 1 :
                 RunBefore("dispatch", e, k) = RunBefore("completed", e, 1)
           /\ e # "execute" =>
                 RunBefore("body", e, Plugins + 1) = RunBefore("completed", e, 1)
  <1> USE CallAssumption DEF CallAssumption
  <1> DEFINE s == Ran("started", Plugins)
             b == Ran("body", Plugins)
  <1>1. s \in Seq(HookCall) /\ b \in Seq(HookCall)
    BY RanIsSeq
  <1>2. Ran("started", 0) = <<>> /\ Ran("body", 0) = <<>> /\ Ran("completed", 0) = <<>>
    BY RanIsSeq
  <1>3. 1 - 1 = 0 /\ Plugins + 1 - 1 = Plugins
    OBVIOUS
  <1>4. RunBefore("started", e, 1) = <<>> /\ RunBefore("started", e, Plugins + 1) = s
    BY <1>2, <1>3 DEF RunBefore
  <1>5. \A k \in 1 .. Plugins + 1 : RunBefore("dispatch", e, k) = s
    BY DEF RunBefore
  <1>6. RunBefore("body", e, 1) = s \o <<>> /\ RunBefore("body", e, Plugins + 1) = s \o b
    <2>1. RunBefore("body", e, 1) = s \o Ran("body", 1 - 1)
      BY DEF RunBefore
    <2>2. RunBefore("body", e, Plugins + 1) = s \o Ran("body", Plugins + 1 - 1)
      BY DEF RunBefore
    <2> QED
      BY <1>2, <1>3, <2>1, <2>2
  <1>7. RunBefore("completed", e, 1) = (s \o BodyRan(e)) \o <<>>
    BY <1>2, <1>3 DEF RunBefore
  <1>c. BodyRan(e) = IF e = "execute" THEN <<>> ELSE b
    BY DEF BodyRan
  <1> HIDE DEF s, b
  <1>8. s \o <<>> = s /\ (s \o b) \o <<>> = s \o b
    BY <1>1, ConcatEmptySeq, ConcatProperties
  <1>9. e = "execute" => \A k \in 1 .. Plugins + 1 :
           RunBefore("dispatch", e, k) = RunBefore("completed", e, 1)
    BY <1>5, <1>7, <1>8, <1>c
  <1>10. e # "execute" => RunBefore("body", e, Plugins + 1) = RunBefore("completed", e, 1)
    BY <1>6, <1>7, <1>8, <1>c
  <1>11. 1 \in 1 .. Plugins + 1
    OBVIOUS
  <1> QED
    BY <1>4, <1>5, <1>6, <1>8, <1>9, <1>10, <1>11

\* Before the host calls, nothing has run.
LEMMA InitCall == Call!Init => CallInv
  BY CallAssumption DEF CallAssumption, Call!Init, CallInv

\* Every step of the call keeps its invariant.
LEMMA StepCall == CallInv /\ [Call!Next]_callVars => CallInv'
  <1> SUFFICES ASSUME CallInv, [Call!Next]_callVars PROVE CallInv'
    OBVIOUS
  <1> USE CallAssumption DEF CallAssumption
  <1>0. /\ phase \notin {"idle", "reverted"} => hooks = RunBefore(phase, entry, plugin)
        /\ plugin \in 1 .. Plugins + 1
    BY DEF CallInv
  <1>1. ASSUME NEW name \in {"execute", "onDeploy", "onUpdate"},
               NEW who \in SUBSET (0 .. Plugins), Call!Enter(name, who)
        PROVE  CallInv'
    <2>1. hooks' = RunBefore(phase', entry', plugin')
      BY <1>1, NextPhase DEF CallInv, Call!Enter
    <2>2. offset' \in Nat
      BY <1>1 DEF Call!Enter, Call!SelectorLength
    <2> QED
      BY <1>1, <2>1, <2>2 DEF CallInv, Call!Enter
  <1>2. ASSUME NEW n \in 0 .. 1, Call!Hook(n) PROVE CallInv'
    <2>1. hooks' = RunBefore(phase', entry', plugin')
      BY <1>0, <1>2, HookExtends DEF Call!Hook
    <2>2. offset' \in Nat
      BY <1>2 DEF CallInv, Call!Hook, Call!Reads
    <2> QED
      BY <1>2, <2>1, <2>2 DEF CallInv, Call!Hook
  <1>3. CASE Call!Started
    <2>1. /\ plugin = Plugins + 1 /\ plugin' = 1 /\ phase = "started"
          /\ hooks' = hooks /\ entry' = entry
      BY <1>0, <1>3 DEF Call!Started
    <2>2. hooks' = RunBefore("dispatch", entry, 1) /\ hooks' = RunBefore("body", entry, 1)
      BY <1>0, <2>1, NextPhase
    <2>3. hooks' = RunBefore(phase', entry', plugin')
      BY <1>3, <2>1, <2>2 DEF Call!Started
    <2> QED
      BY <1>3, <2>1, <2>3 DEF CallInv, Call!Started
  <1>4. ASSUME NEW n \in 0 .. 1, Call!OwnMethod(n) PROVE CallInv'
    <2>1. entry = "execute" /\ phase = "dispatch" /\ plugin = 1 /\ 0 \in handlers
          /\ phase' = "completed" /\ UNCHANGED <<hooks, entry, plugin, handlers>> /\ handledBy' = 0
      BY <1>4 DEF CallInv, Call!OwnMethod, Call!Own
    <2>2. hooks' = RunBefore(phase', entry', plugin')
      BY <1>0, <2>1, NextPhase
    <2>3. \A h \in handlers : 0 <= h
      BY DEF CallInv
    <2>4. offset' \in Nat
      BY <1>4 DEF CallInv, Call!OwnMethod, Call!Reads
    <2> QED
      BY <1>4, <2>1, <2>2, <2>3, <2>4 DEF CallInv, Call!OwnMethod
  <1>5. ASSUME NEW n \in 0 .. 1, Call!TryPlugin(n) PROVE CallInv'
    <2>1. /\ entry = "execute" /\ phase = "dispatch" /\ 0 \notin handlers /\ plugin <= Plugins
          /\ seen' = Append(seen, offset) /\ offset = startOffset
          /\ UNCHANGED <<hooks, entry, handlers, startOffset>>
      BY <1>5 DEF CallInv, Call!TryPlugin, Call!Own
    <2>2. seen' \in Seq(Nat) /\ \A i \in 1 .. Len(seen') : seen'[i] = startOffset'
      <3>1. /\ seen \in Seq(Nat) /\ offset \in Nat
            /\ \A i \in 1 .. Len(seen) : seen[i] = startOffset
        BY DEF CallInv
      <3>2. /\ seen' \in Seq(Nat) /\ Len(seen') = Len(seen) + 1
            /\ seen'[Len(seen) + 1] = offset
            /\ \A i \in 1 .. Len(seen) : seen'[i] = seen[i]
        BY <2>1, <3>1, AppendProperties
      <3> QED
        BY <2>1, <3>1, <3>2
    <2>3. \A h \in handlers : plugin <= h
      BY <2>1 DEF CallInv
    <2>4. CASE plugin \in handlers
      <3>1. phase' = "completed" /\ plugin' = 1 /\ handledBy' = plugin /\ offset' \in Nat
        BY <1>5, <2>4 DEF CallInv, Call!TryPlugin
      <3>2. hooks' = RunBefore(phase', entry', plugin')
        BY <1>0, <2>1, <3>1, NextPhase
      <3> QED
        BY <2>1, <2>2, <2>3, <2>4, <3>1, <3>2 DEF CallInv
    <2>5. CASE plugin \notin handlers
      <3>1. phase' = phase /\ plugin' = plugin + 1 /\ offset' = startOffset
        BY <1>5, <2>5 DEF Call!TryPlugin, Call!OffsetAfterRefusal
      <3>2. hooks' = RunBefore(phase', entry', plugin')
        BY <1>0, <2>1, <3>1 DEF RunBefore
      <3>3. \A h \in handlers : plugin + 1 <= h
        BY <2>3, <2>5 DEF CallInv
      <3> QED
        BY <2>1, <2>2, <3>1, <3>2, <3>3 DEF CallInv
    <2> QED
      BY <2>4, <2>5
  <1>6. CASE Call!Bodied
    <2>1. phase = "body" /\ plugin = Plugins + 1 /\ entry # "execute"
          /\ phase' = "completed" /\ plugin' = 1 /\ UNCHANGED <<hooks, entry>>
      BY <1>0, <1>6 DEF CallInv, Call!Bodied
    <2>2. hooks' = RunBefore(phase', entry', plugin')
      BY <1>0, <2>1, NextPhase
    <2> QED
      BY <1>6, <2>1, <2>2 DEF CallInv, Call!Bodied
  <1>7. CASE Call!Return
    <2>1. phase = "completed" /\ plugin = Plugins + 1 /\ phase' = "returned"
          /\ UNCHANGED <<hooks, entry, plugin>>
      BY <1>0, <1>7 DEF Call!Return
    <2>2. hooks' = RunBefore(phase', entry', plugin')
      BY <1>0, <2>1 DEF RunBefore
    <2> QED
      BY <1>7, <2>1, <2>2 DEF CallInv, Call!Return
  <1>8. CASE Call!Throws
    BY <1>8 DEF CallInv, Call!Throws
  <1>9. CASE Call!Leave
    BY <1>9 DEF CallInv, Call!Leave
  <1>10. CASE UNCHANGED callVars
    BY <1>10 DEF CallInv, callVars
  <1> QED
    BY <1>1, <1>2, <1>3, <1>4, <1>5, <1>6, <1>7, <1>8, <1>9, <1>10
    DEF Call!Next, Call!vars, callVars, Call!Own

\* A call that returns was answered by the contract itself or by the first plugin registered
\* for the method; every plugin that was asked read the arguments from their start, and the
\* hooks of every plugin ran in order around the method.
THEOREM CallsReachTheirHandler == ComponentsSpec => []DispatchReachesTheHandler
  <1>1. ComponentsInit => CallInv
    BY InitCall DEF ComponentsInit
  <1>2. CallInv /\ [ComponentsNext]_vs => CallInv'
    BY PartsStep, StepCall
  <1>3. CallInv => DispatchReachesTheHandler
    <2> SUFFICES ASSUME CallInv PROVE DispatchReachesTheHandler
      OBVIOUS
    <2>1. DOMAIN seen = 1 .. Len(seen)
      BY DEF CallInv
    <2>2. phase = "returned" => hooks = RunBefore("returned", entry, Plugins + 1)
      BY DEF CallInv
    <2>3. RunBefore("returned", entry, Plugins + 1) =
             Ran("started", Plugins) \o BodyRan(entry) \o Ran("completed", Plugins)
      <3> SUFFICES ASSUME NEW k, k = Plugins + 1
                   PROVE  RunBefore("returned", entry, k) =
                             Ran("started", Plugins) \o BodyRan(entry) \o Ran("completed", Plugins)
        OBVIOUS
      <3>1. k - 1 = Plugins
        BY CallAssumption DEF CallAssumption
      <3>2. RunBefore("returned", entry, k) =
               Ran("started", Plugins) \o BodyRan(entry) \o Ran("completed", k - 1)
        BY DEF RunBefore
      <3> QED
        BY <3>1, <3>2, Zenon
    <2> QED
      BY <2>1, <2>2, <2>3
         DEF CallInv, DispatchReachesTheHandler, Call!ArgumentsReachTheHandler, Ran, BodyRan
  <1> QED
    BY <1>1, <1>2, <1>3, PTL DEF ComponentsSpec, vs

-----------------------------------------------------------------------------
(* Packed numbers *)

Numbers == [0 .. Count - 1 -> Number]

\* The packed numbers are as wanted, and a change that is not saved is marked as one.
PackedInv ==
    /\ slot \in Numbers /\ keptSlot \in Numbers /\ numbers \in Numbers
    /\ isLoaded \in BOOLEAN /\ isChanged \in BOOLEAN
    /\ PackedNumbersAreKept
    /\ isChanged => isLoaded
    /\ isLoaded /\ ~isChanged => numbers = slot

\* Initially all numbers are zero.
LEMMA InitPacked == Packed!Init => PackedInv
  BY NumberAssumption
     DEF NumberAssumption, Packed!Init, Packed!Zeros, PackedInv, Numbers, PackedNumbersAreKept,
         Packed!NumbersAreKept, Packed!Ensured

\* Every call of the slot keeps its numbers.
LEMMA StepPacked == PackedInv /\ [Packed!Next]_slotVars => PackedInv'
  <1> SUFFICES ASSUME PackedInv, [Packed!Next]_slotVars PROVE PackedInv'
    OBVIOUS
  <1> USE DEF PackedInv, PackedNumbersAreKept, Packed!NumbersAreKept, Packed!Ensured,
              Packed!storage, Packed!history
  <1>0. Packed!Zeros \in Numbers
    BY NumberAssumption DEF NumberAssumption, Packed!Zeros, Numbers
  <1>1. CASE Packed!Get
    BY <1>1 DEF Packed!Get
  <1>2. CASE Packed!Reset
    BY <1>0, <1>2 DEF Packed!Reset
  <1>3. CASE Packed!Save
    BY <1>3 DEF Packed!Save
  <1>4. CASE Packed!Commit
    BY <1>0, <1>4 DEF Packed!Commit, Packed!NewInstance
  <1>5. CASE Packed!Abort
    BY <1>0, <1>5 DEF Packed!Abort, Packed!NewInstance
  <1>6. ASSUME NEW i \in 0 .. Count - 1, NEW n \in Number, Packed!Set(i, n) PROVE PackedInv'
    <2>1. [Packed!Ensured EXCEPT ![i] = n] \in Numbers
      BY DEF Numbers
    <2>2. Packed!Ensured[i] = n => [Packed!Ensured EXCEPT ![i] = n] = Packed!Ensured
      BY DEF Numbers
    <2> QED
      BY <1>6, <2>1, <2>2 DEF Packed!Set
  <1>7. ASSUME NEW ns \in Numbers, Packed!SetMultiple(ns) PROVE PackedInv'
    BY <1>7 DEF Packed!SetMultiple
  <1>8. CASE UNCHANGED slotVars
    BY <1>8 DEF slotVars
  <1> QED
    BY <1>1, <1>2, <1>3, <1>4, <1>5, <1>6, <1>7, <1>8
       DEF Packed!Next, Packed!vars, slotVars, Numbers

\* For any number of values in the slot: a set changes its number and none beside it, in any
\* order of calls, transactions that fail and instances, and what was saved stays.
THEOREM PackedNumbersStay == ComponentsSpec => []PackedNumbersAreKept
  <1>1. ComponentsInit => PackedInv
    BY InitPacked DEF ComponentsInit
  <1>2. PackedInv /\ [ComponentsNext]_vs => PackedInv'
    BY PartsStep, StepPacked
  <1>3. PackedInv => PackedNumbersAreKept
    BY DEF PackedInv
  <1> QED
    BY <1>1, <1>2, <1>3, PTL DEF ComponentsSpec, vs

-----------------------------------------------------------------------------
(* Stored strings *)

Fits(t) == t \in Seq(Nat) /\ Len(t) <= MaxText

\* The cells hold the string that was set and nothing else, and the instance has it or
\* nothing in memory.
TextInv ==
    /\ Fits(keptText) /\ keptCells = Text!Packed(Text!EmptyCells, keptText)
    /\ ~failed => /\ Fits(text) /\ cells = Text!Packed(Text!EmptyCells, text)
                  /\ value \in {<<>>, text}

\* The byte of a string is in one of its cells, which exists, at a place that exists.
LEMMA BytesHavePlaces ==
    ASSUME NEW n \in Nat, n <= MaxText, NEW i \in 1 .. n
    PROVE  /\ Text!CellOf(i) \in 0 .. TextCells - 1
           /\ Text!CellOf(i) < Text!ChunkCount(n)
           /\ Text!CellOf(i) = 0 => Text!PlaceOf(i) \in 1 .. HeaderBytes
           /\ Text!CellOf(i) # 0 => Text!PlaceOf(i) \in 1 .. CellBytes
  <1>0. /\ HeaderBytes \in Nat /\ CellBytes \in Nat \ {0} /\ TextCells \in Nat \ {0}
        /\ MaxText \in Nat /\ MaxText <= HeaderBytes + CellBytes * (TextCells - 1)
    BY TextAssumption DEF TextAssumption
  <1>1. CASE i <= HeaderBytes
    <2>1. Text!CellOf(i) = 0 /\ Text!PlaceOf(i) = i
      BY <1>1 DEF Text!CellOf, Text!PlaceOf
    <2>2. 0 < Text!ChunkCount(n)
      <3>1. CASE n <= HeaderBytes
        BY <3>1 DEF Text!ChunkCount
      <3>2. CASE ~(n <= HeaderBytes)
        <4>1. n - HeaderBytes + CellBytes - 1 \in Nat
          BY <1>0, <3>2
        <4>2. (n - HeaderBytes + CellBytes - 1) \div CellBytes \in Nat
          BY <1>0, <4>1, Division, Zenon
        <4> QED
          BY <3>2, <4>2 DEF Text!ChunkCount
      <3> QED
        BY <3>1, <3>2
    <2> QED
      BY <1>0, <1>1, <2>1, <2>2
  <1>2. CASE ~(i <= HeaderBytes)
    <2> DEFINE a == i - HeaderBytes - 1
               b == n - HeaderBytes + CellBytes - 1
    <2>1. /\ Text!CellOf(i) = 1 + (a \div CellBytes)
          /\ Text!PlaceOf(i) = 1 + (a % CellBytes)
          /\ Text!ChunkCount(n) = 1 + (b \div CellBytes)
      BY <1>0, <1>2 DEF Text!CellOf, Text!PlaceOf, Text!ChunkCount
    <2>2. /\ a \in Nat /\ b \in Nat /\ a + CellBytes <= b /\ TextCells - 1 \in Nat
          /\ a < CellBytes * (TextCells - 1)
      BY <1>0, <1>2
    <2> HIDE DEF a, b
    <2>3. /\ a \div CellBytes \in Nat /\ b \div CellBytes \in Nat
          /\ a % CellBytes \in 0 .. CellBytes - 1
      BY <1>0, <2>2, Division
    <2>4. a \div CellBytes < b \div CellBytes
      BY <1>0, <2>2, QuotientGrows
    <2>5. a \div CellBytes < TextCells - 1
      BY <1>0, <2>2, QuotientBelow
    <2> QED
      BY <1>0, <2>1, <2>3, <2>4, <2>5
  <1> QED
    BY <1>1, <1>2

\* No two bytes have the same cell and place.
LEMMA BytesHaveOwnPlaces ==
    ASSUME NEW i \in Nat \ {0}, NEW j \in Nat \ {0},
           Text!CellOf(i) = Text!CellOf(j), Text!PlaceOf(i) = Text!PlaceOf(j)
    PROVE  i = j
  <1>0. HeaderBytes \in Nat /\ CellBytes \in Nat \ {0}
    BY TextAssumption DEF TextAssumption
  <1>1. ASSUME NEW k \in Nat \ {0}, ~(k <= HeaderBytes)
        PROVE  /\ k - HeaderBytes - 1 \in Nat
               /\ (k - HeaderBytes - 1) \div CellBytes \in Nat
               /\ (k - HeaderBytes - 1) % CellBytes \in Nat
               /\ Text!CellOf(k) = 1 + ((k - HeaderBytes - 1) \div CellBytes)
               /\ Text!PlaceOf(k) = 1 + ((k - HeaderBytes - 1) % CellBytes)
    <2>1. k - HeaderBytes - 1 \in Nat
      BY <1>0, <1>1
    <2>2. /\ (k - HeaderBytes - 1) \div CellBytes \in Nat
          /\ (k - HeaderBytes - 1) % CellBytes \in Nat
      BY <1>0, <2>1, Division, Zenon
    <2> QED
      BY <1>1, <2>1, <2>2 DEF Text!CellOf, Text!PlaceOf
  <1>2. ASSUME NEW k \in Nat \ {0}, k <= HeaderBytes
        PROVE  Text!CellOf(k) = 0 /\ Text!PlaceOf(k) = k
    BY <1>2 DEF Text!CellOf, Text!PlaceOf
  <1>3. CASE i <= HeaderBytes /\ j <= HeaderBytes
    BY <1>2, <1>3
  <1>4. CASE i <= HeaderBytes /\ ~(j <= HeaderBytes)
    <2>1. Text!CellOf(i) = 0
      BY <1>2, <1>4
    <2> DEFINE q == (j - HeaderBytes - 1) \div CellBytes
    <2>2. q \in Nat /\ Text!CellOf(j) = 1 + q
      BY <1>1, <1>4
    <2> HIDE DEF q
    <2>3. 0 = 1 + q
      BY <2>1, <2>2, Zenon
    <2> QED
      BY <2>2, <2>3
  <1>5. CASE ~(i <= HeaderBytes) /\ j <= HeaderBytes
    <2>1. Text!CellOf(j) = 0
      BY <1>2, <1>5
    <2> DEFINE q == (i - HeaderBytes - 1) \div CellBytes
    <2>2. q \in Nat /\ Text!CellOf(i) = 1 + q
      BY <1>1, <1>5
    <2> HIDE DEF q
    <2>3. 0 = 1 + q
      BY <2>1, <2>2, Zenon
    <2> QED
      BY <2>2, <2>3
  <1>6. CASE ~(i <= HeaderBytes) /\ ~(j <= HeaderBytes)
    <2> DEFINE a == i - HeaderBytes - 1
               b == j - HeaderBytes - 1
    <2>1. /\ a \in Nat /\ a \div CellBytes \in Nat /\ a % CellBytes \in Nat
          /\ Text!CellOf(i) = 1 + (a \div CellBytes) /\ Text!PlaceOf(i) = 1 + (a % CellBytes)
      BY <1>1, <1>6
    <2>2. /\ b \in Nat /\ b \div CellBytes \in Nat /\ b % CellBytes \in Nat
          /\ Text!CellOf(j) = 1 + (b \div CellBytes) /\ Text!PlaceOf(j) = 1 + (b % CellBytes)
      BY <1>1, <1>6
    <2> HIDE DEF a, b
    <2>3. a \div CellBytes = b \div CellBytes /\ a % CellBytes = b % CellBytes
      <3>1. /\ 1 + (a \div CellBytes) = 1 + (b \div CellBytes)
            /\ 1 + (a % CellBytes) = 1 + (b % CellBytes)
        BY <2>1, <2>2, Zenon
      <3> QED
        BY <2>1, <2>2, <3>1
    <2>4. a = b
      BY <1>0, <2>1, <2>2, <2>3, DivisionIsExact
    <2> QED
      BY <1>0, <1>6, <2>4 DEF a, b
  <1> QED
    BY <1>3, <1>4, <1>5, <1>6

\* The shape of the cells, and how the cells of a string are made from empty ones.
LEMMA CellsOfText ==
    ASSUME NEW t, Fits(t)
    PROVE  /\ DOMAIN Text!EmptyCells = 0 .. TextCells - 1 /\ 0 \in 0 .. TextCells - 1
           /\ Text!EmptyCells[0] = [length |-> 0, bytes |-> Text!Zeros(HeaderBytes)]
           /\ \A c \in 0 .. TextCells - 1 : c # 0 =>
                 Text!EmptyCells[c] = [length |-> 0, bytes |-> Text!Zeros(CellBytes)]
           /\ Len(t) \in Nat /\ DOMAIN t = 1 .. Len(t) /\ Text!ChunkCount(Len(t)) \in Nat \ {0}
  <1>1. /\ HeaderBytes \in Nat /\ CellBytes \in Nat \ {0} /\ TextCells \in Nat \ {0}
    BY TextAssumption DEF TextAssumption
  <1>2. Len(t) \in Nat /\ DOMAIN t = 1 .. Len(t)
    BY DEF Fits
  <1>3. Text!ChunkCount(Len(t)) \in Nat \ {0}
    <2>1. CASE Len(t) <= HeaderBytes
      BY <2>1 DEF Text!ChunkCount
    <2>2. CASE ~(Len(t) <= HeaderBytes)
      <3> DEFINE q == (Len(t) - HeaderBytes + CellBytes - 1) \div CellBytes
      <3>1. Len(t) - HeaderBytes + CellBytes - 1 \in Nat
        BY <1>1, <1>2, <2>2
      <3>2. q \in Nat
        BY <1>1, <3>1, Division, Zenon
      <3>3. Text!ChunkCount(Len(t)) = 1 + q
        BY <2>2 DEF Text!ChunkCount
      <3> HIDE DEF q
      <3> QED
        BY <3>2, <3>3
    <2> QED
      BY <2>1, <2>2
  <1> QED
    BY <1>1, <1>2, <1>3 DEF Text!EmptyCells

\* Clearing the cells of a string leaves empty cells.
LEMMA ClearedIsEmpty ==
    ASSUME NEW t, Fits(t), NEW cs, cs = Text!Packed(Text!EmptyCells, t)
    PROVE  cs[0].length = Len(t) /\ Text!Cleared(cs, Len(t)) = Text!EmptyCells
  <1> DEFINE e == Text!EmptyCells
             m == Text!ChunkCount(Len(t))
  <1>1. /\ DOMAIN e = 0 .. TextCells - 1 /\ 0 \in 0 .. TextCells - 1
        /\ e = [c \in 0 .. TextCells - 1 |-> e[c]]
        /\ e[0] = [length |-> 0, bytes |-> Text!Zeros(HeaderBytes)]
        /\ Len(t) \in Nat /\ DOMAIN t = 1 .. Len(t) /\ m \in Nat \ {0}
    BY CellsOfText DEF Text!EmptyCells
  <1> HIDE DEF e
  <1>2. cs = [c \in 0 .. TextCells - 1 |->
          IF c >= m THEN e[c]
          ELSE [length |-> IF c = 0 THEN Len(t) ELSE 0,
                bytes |-> [p \in DOMAIN e[c].bytes |->
                    IF \E i \in DOMAIN t : Text!CellOf(i) = c /\ Text!PlaceOf(i) = p
                    THEN t[CHOOSE i \in DOMAIN t : Text!CellOf(i) = c /\ Text!PlaceOf(i) = p]
                    ELSE 0]]]
    BY <1>1 DEF Text!Packed, e
  <1> HIDE DEF m
  <1>3. cs[0].length = Len(t)
    <2>1. ~(0 >= m)
      BY <1>1
    <2> QED
      BY <1>1, <1>2, <2>1
  <1>4. CASE Len(t) = 0
    <2>1. Text!Cleared(cs, Len(t)) = cs
      BY <1>4 DEF Text!Cleared
    <2>2. m = 1
      <3>1. HeaderBytes \in Nat
        BY TextAssumption DEF TextAssumption
      <3> QED
        BY <1>4, <3>1 DEF m, Text!ChunkCount
    <2>3. cs[0] = e[0]
      <3>1. [p \in DOMAIN e[0].bytes |->
                IF \E i \in DOMAIN t : Text!CellOf(i) = 0 /\ Text!PlaceOf(i) = p
                THEN t[CHOOSE i \in DOMAIN t : Text!CellOf(i) = 0 /\ Text!PlaceOf(i) = p]
                ELSE 0] = [p \in DOMAIN e[0].bytes |-> 0]
        BY <1>1, <1>4
      <3>2. [p \in DOMAIN e[0].bytes |-> 0] = Text!Zeros(HeaderBytes)
        BY <1>1 DEF Text!Zeros
      <3>3. cs[0] = [length |-> Len(t), bytes |-> [p \in DOMAIN e[0].bytes |->
                IF \E i \in DOMAIN t : Text!CellOf(i) = 0 /\ Text!PlaceOf(i) = p
                THEN t[CHOOSE i \in DOMAIN t : Text!CellOf(i) = 0 /\ Text!PlaceOf(i) = p]
                ELSE 0]]
        BY <1>1, <1>2, <2>2
      <3> QED
        BY <1>1, <1>4, <3>1, <3>2, <3>3
    <2>4. \A c \in 0 .. TextCells - 1 : cs[c] = e[c]
      <3> SUFFICES ASSUME NEW c \in 0 .. TextCells - 1, c # 0 PROVE cs[c] = e[c]
        BY <2>3
      <3>1. TextCells \in Nat
        BY TextAssumption DEF TextAssumption
      <3>2. c >= m
        BY <2>2, <3>1
      <3> QED
        BY <1>2, <3>2, Zenon
    <2>5. cs = [c \in 0 .. TextCells - 1 |-> cs[c]]
      BY <1>2
    <2>6. cs = e
      BY <1>1, <2>4, <2>5
    <2> QED
      BY <1>3, <2>1, <2>6 DEF e
  <1>5. CASE Len(t) # 0
    <2>1. DOMAIN cs = 0 .. TextCells - 1
      BY <1>2
    <2>2. Text!Cleared(cs, Len(t)) = [c \in 0 .. TextCells - 1 |-> IF c < m THEN e[c] ELSE cs[c]]
      BY <1>5, <2>1 DEF Text!Cleared, m, e
    <2>3. \A c \in 0 .. TextCells - 1 : ~(c < m) => cs[c] = e[c]
      BY <1>1, <1>2
    <2>4. Text!Cleared(cs, Len(t)) = [c \in 0 .. TextCells - 1 |-> e[c]]
      BY <2>2, <2>3
    <2> QED
      BY <1>1, <1>3, <2>4 DEF e
  <1> QED
    BY <1>4, <1>5

\* What is loaded from the cells of a string is the string.
LEMMA LoadedIsText ==
    ASSUME NEW t, Fits(t)
    PROVE  Text!Loaded(Text!Packed(Text!EmptyCells, t)) = t
  <1> DEFINE e == Text!EmptyCells
             cs == Text!Packed(e, t)
             m == Text!ChunkCount(Len(t))
  <1>1. /\ DOMAIN e = 0 .. TextCells - 1
        /\ Len(t) \in Nat /\ DOMAIN t = 1 .. Len(t) /\ Len(t) <= MaxText
        /\ t = [i \in 1 .. Len(t) |-> t[i]]
    BY CellsOfText DEF Fits
  <1>2. cs[0].length = Len(t)
    BY ClearedIsEmpty
  <1>3. ASSUME NEW i \in 1 .. Len(t)
        PROVE  cs[Text!CellOf(i)].bytes[Text!PlaceOf(i)] = t[i]
    <2> DEFINE c == Text!CellOf(i)
               p == Text!PlaceOf(i)
               here == {j \in DOMAIN t : Text!CellOf(j) = c /\ Text!PlaceOf(j) = p}
    <2>1. c \in 0 .. TextCells - 1 /\ c < m
      BY <1>1, BytesHavePlaces
    <2>2. p \in DOMAIN e[c].bytes
      <3>1. CASE c = 0
        <4>1. e[c] = [length |-> 0, bytes |-> Text!Zeros(HeaderBytes)]
          BY <3>1, CellsOfText
        <4>2. p \in 1 .. HeaderBytes
          BY <1>1, <3>1, BytesHavePlaces
        <4> QED
          BY <4>1, <4>2 DEF Text!Zeros
      <3>2. CASE c # 0
        <4>1. e[c] = [length |-> 0, bytes |-> Text!Zeros(CellBytes)]
          BY <2>1, <3>2, CellsOfText
        <4>2. p \in 1 .. CellBytes
          BY <1>1, <3>2, BytesHavePlaces
        <4> QED
          BY <4>1, <4>2 DEF Text!Zeros
      <3> QED
        BY <3>1, <3>2
    <2>3. \A j \in DOMAIN t : Text!CellOf(j) = c /\ Text!PlaceOf(j) = p => j = i
      BY <1>1, BytesHaveOwnPlaces
    <2>4. ~(c >= m)
      BY <2>1, CellsOfText
    <2> HIDE DEF e, m
    <2>5. cs[c].bytes[p] = IF \E j \in DOMAIN t : Text!CellOf(j) = c /\ Text!PlaceOf(j) = p
            THEN t[CHOOSE j \in DOMAIN t : Text!CellOf(j) = c /\ Text!PlaceOf(j) = p]
            ELSE 0
      BY <1>1, <2>1, <2>2, <2>4 DEF Text!Packed, m
    <2>6. i \in DOMAIN t /\ (CHOOSE j \in DOMAIN t : Text!CellOf(j) = c /\ Text!PlaceOf(j) = p) = i
      BY <1>1, <2>3
    <2> QED
      BY <2>5, <2>6
  <1> HIDE DEF cs
  <1>4. Text!Loaded(cs) = [i \in 1 .. Len(t) |-> t[i]]
    BY <1>2, <1>3 DEF Text!Loaded
  <1> QED
    BY <1>1, <1>4 DEF cs

\* Nothing has been set yet.
LEMMA InitText == Text!Init => TextInv
  <1> SUFFICES ASSUME Text!Init PROVE TextInv
    OBVIOUS
  <1>1. Fits(<<>>)
    BY TextAssumption DEF TextAssumption, Fits
  <1>2. Text!Packed(Text!EmptyCells, <<>>) = Text!EmptyCells
    <2>1. Text!Cleared(Text!Packed(Text!EmptyCells, <<>>), Len(<<>>)) = Text!EmptyCells
      BY <1>1, ClearedIsEmpty
    <2> QED
      BY <2>1 DEF Text!Cleared
  <1> QED
    BY <1>1, <1>2 DEF Text!Init, TextInv

\* The getter returns the string that was set.
LEMMA ReadIsText == TextInv /\ ~failed => Text!Loaded(cells) = text /\ Text!Read = text
  BY LoadedIsText DEF TextInv, Text!Read

\* Every call keeps the string.
LEMMA StepText == TextInv /\ [Text!Next]_textVars => TextInv'
  <1> SUFFICES ASSUME TextInv, [Text!Next]_textVars PROVE TextInv'
    OBVIOUS
  <1>1. CASE Text!Get
    <2>1. value' = text
      BY <1>1, ReadIsText DEF Text!Get
    <2> QED
      BY <1>1, <2>1 DEF Text!Get, TextInv
  <1>2. CASE Text!Commit
    BY <1>2 DEF Text!Commit, TextInv
  <1>3. CASE Text!Abort
    BY <1>3 DEF Text!Abort, TextInv
  <1>4. ASSUME NEW v \in Texts, Text!Set(v) PROVE TextInv'
    <2>1. Fits(text) /\ cells = Text!Packed(Text!EmptyCells, text) /\ ~failed
      BY <1>4 DEF Text!Set, TextInv
    <2>2. Text!Cleared(cells, cells[0].length) = Text!EmptyCells
      BY <2>1, ClearedIsEmpty
    <2>3. CASE Len(v) > MaxText
      BY <1>4, <2>3 DEF Text!Set, TextInv
    <2>4. CASE ~(Len(v) > MaxText)
      <3>1. /\ cells' = Text!Packed(Text!EmptyCells, v) /\ failed' = FALSE
            /\ text' = v /\ value' = v
        BY <1>4, <2>2, <2>4 DEF Text!Set
      <3>2. Fits(v)
        BY <2>4, TextAssumption DEF TextAssumption, Fits
      <3> QED
        BY <1>4, <3>1, <3>2 DEF Text!Set, TextInv
    <2> QED
      BY <2>3, <2>4
  <1>5. CASE UNCHANGED textVars
    BY <1>5 DEF textVars, TextInv
  <1> QED
    BY <1>1, <1>2, <1>3, <1>4, <1>5 DEF Text!Next

\* A string that was set is what the getter returns and what the cells hold, and they hold
\* nothing of an earlier string, whatever its length, and whichever calls and transactions
\* failed in between (setter, getter, load, save, clearOldStorage of BaseStoredString.ts).
THEOREM TextStays == ComponentsSpec => []TextIsKept
  <1>1. ComponentsInit => TextInv
    BY InitText DEF ComponentsInit
  <1>2. TextInv /\ [ComponentsNext]_vs => TextInv'
    BY PartsStep, StepText
  <1>3. TextInv => TextIsKept
    BY ReadIsText, LoadedIsText
    DEF TextInv, TextIsKept, Text!StringIsKept, Text!NothingLeftBehind
  <1> QED
    BY <1>1, <1>2, <1>3, PTL DEF ComponentsSpec, vs

-----------------------------------------------------------------------------
(* Maps *)

\* Every key is there once.
Distinct(ks) == \A i, j \in 1 .. Len(ks) : ks[i] = ks[j] => i = j

\* A map has a value for every key, each key once, and remembers a place it has.
MapInv ==
    /\ class \in Map!Cached \cup {"MapU256"}
    /\ keys \in Seq(Key) /\ mapValues \in Seq(Value) /\ Len(mapValues) = Len(keys)
    /\ lastIndex \in 0 .. Len(keys)
    /\ Distinct(keys)

\* What keys ks with values xs hold.
Holding(ks, xs) == [k \in {ks[i] : i \in 1 .. Len(ks)} |->
                       xs[CHOOSE i \in 1 .. Len(ks) : ks[i] = k]]

\* A key holds the value at its place, and nothing else does.
LEMMA HoldingAt ==
    ASSUME NEW ks \in Seq(Key), NEW xs \in Seq(Value), Len(xs) = Len(ks), Distinct(ks)
    PROVE  /\ DOMAIN Holding(ks, xs) = {ks[i] : i \in 1 .. Len(ks)}
           /\ \A i \in 1 .. Len(ks) : Holding(ks, xs)[ks[i]] = xs[i]
  <1>1. ASSUME NEW i \in 1 .. Len(ks) PROVE Holding(ks, xs)[ks[i]] = xs[i]
    <2>1. (CHOOSE j \in 1 .. Len(ks) : ks[j] = ks[i]) = i
      BY DEF Distinct
    <2>2. ks[i] \in {ks[j] : j \in 1 .. Len(ks)}
      OBVIOUS
    <2> QED
      BY <2>1, <2>2 DEF Holding
  <1> QED
    BY <1>1 DEF Holding

\* A function that holds the same is the same.
LEMMA HoldingIs ==
    ASSUME NEW ks \in Seq(Key), NEW xs \in Seq(Value), Len(xs) = Len(ks), Distinct(ks),
           NEW f, f = [k \in DOMAIN f |-> f[k]],
           DOMAIN f = {ks[i] : i \in 1 .. Len(ks)},
           \A i \in 1 .. Len(ks) : f[ks[i]] = xs[i]
    PROVE  f = Holding(ks, xs)
  <1> DEFINE g == Holding(ks, xs)
  <1>1. /\ DOMAIN g = {ks[i] : i \in 1 .. Len(ks)}
        /\ \A i \in 1 .. Len(ks) : g[ks[i]] = xs[i]
    BY HoldingAt
  <1>2. g = [k \in DOMAIN g |-> g[k]]
    BY DEF Holding
  <1> HIDE DEF g
  <1>3. \A k \in DOMAIN f : f[k] = g[k]
    BY <1>1
  <1>4. f = g
    BY <1>1, <1>2, <1>3
  <1> QED
    BY <1>4 DEF g

\* The contents of the map are what its keys and values hold.
LEMMA ContentsAre ==
    MapInv => Map!contents = Holding(keys, mapValues)
  <1> SUFFICES ASSUME MapInv PROVE Map!contents = Holding(keys, mapValues)
    OBVIOUS
  <1>1. DOMAIN keys = 1 .. Len(keys)
    BY DEF MapInv
  <1>2. Map!Range(keys) = {keys[i] : i \in 1 .. Len(keys)}
    BY <1>1 DEF Map!Range
  <1> QED
    BY <1>1, <1>2 DEF Map!contents, Holding

\* The map holds the value at the place of each of its keys, and nothing else.
LEMMA ContentsAt ==
    MapInv => /\ DOMAIN Map!contents = {keys[i] : i \in 1 .. Len(keys)}
              /\ \A i \in 1 .. Len(keys) : Map!contents[keys[i]] = mapValues[i]
  <1> SUFFICES ASSUME MapInv
               PROVE  /\ DOMAIN Map!contents = {keys[i] : i \in 1 .. Len(keys)}
                      /\ \A i \in 1 .. Len(keys) : Map!contents[keys[i]] = mapValues[i]
    OBVIOUS
  <1>1. /\ keys \in Seq(Key) /\ mapValues \in Seq(Value) /\ Len(mapValues) = Len(keys)
        /\ Distinct(keys)
    BY DEF MapInv
  <1>2. Map!contents = Holding(keys, mapValues)
    BY ContentsAre
  <1>3. /\ DOMAIN Holding(keys, mapValues) = {keys[i] : i \in 1 .. Len(keys)}
        /\ \A i \in 1 .. Len(keys) : Holding(keys, mapValues)[keys[i]] = mapValues[i]
    BY <1>1, HoldingAt, Zenon
  <1> QED
    BY <1>2, <1>3, Zenon

\* So they are in the next state.
LEMMA ContentsAreNext ==
    MapInv' => Map!contents' = Holding(keys', mapValues')
  <1> SUFFICES ASSUME MapInv' PROVE Map!contents' = Holding(keys', mapValues')
    OBVIOUS
  <1>1. DOMAIN keys' = 1 .. Len(keys')
    BY DEF MapInv
  <1>2. Map!Range(keys') = {keys'[i] : i \in 1 .. Len(keys')}
    BY <1>1 DEF Map!Range
  <1> QED
    BY <1>1, <1>2 DEF Map!contents, Holding

\* A search finds the place of a key, if it has one.
LEMMA SearchFinds ==
    ASSUME MapInv, NEW k
    PROVE  /\ Map!IndexOf(k) \in 0 .. Len(keys)
           /\ Map!IndexOf(k) # 0 => keys[Map!IndexOf(k)] = k
           /\ Map!IndexOf(k) = 0 => \A i \in 1 .. Len(keys) : keys[i] # k
           /\ Map!Remembered(k) \in 0 .. Len(keys)
  <1> DEFINE places == {i \in DOMAIN keys : keys[i] = k}
  <1>0. DOMAIN keys = 1 .. Len(keys) /\ Len(keys) \in Nat
    BY DEF MapInv
  <1>1. \A i, j \in places : i = j
    BY <1>0 DEF MapInv, Distinct
  <1>2. places # {} => (CHOOSE i \in places : \A j \in places : j <= i) \in places
    BY <1>0, <1>1
  <1>3. /\ Map!IndexOf(k) \in places \cup {0}
        /\ Map!IndexOf(k) = 0 => places = {}
    <2> DEFINE last == CHOOSE i \in places : \A j \in places : j <= i
    <2>1. Map!IndexOf(k) = IF lastIndex \in places THEN lastIndex
                           ELSE IF places = {} THEN 0 ELSE last
      BY DEF Map!IndexOf
    <2>2. 0 \notin places
      BY <1>0
    <2> HIDE DEF places, last
    <2>3. places # {} => last \in places
      BY <1>2 DEF last
    <2> QED
      BY <2>1, <2>2, <2>3
  <1>4. Map!IndexOf(k) \in 0 .. Len(keys)
    BY <1>0, <1>3
  <1>5. Map!Remembered(k) \in 0 .. Len(keys)
    BY <1>4 DEF Map!Remembered, MapInv
  <1> QED
    BY <1>0, <1>3, <1>4, <1>5

\* From which place entry j comes once entry i of n is gone.
Source(n, i, j) ==
    IF class \in Map!Swapping THEN (IF j = i THEN n ELSE j) ELSE (IF j < i THEN j ELSE j + 1)

\* Both ways of deleting keep every other entry.
LEMMA RemovedKeeps ==
    ASSUME NEW S, NEW s \in Seq(S), NEW i \in 1 .. Len(s)
    PROVE  /\ Map!Removed(s, i) \in Seq(S) /\ Len(Map!Removed(s, i)) = Len(s) - 1
           /\ \A j \in 1 .. Len(s) - 1 : Map!Removed(s, i)[j] = s[Source(Len(s), i, j)]
  <1> DEFINE n == Len(s)
             r == Map!Removed(s, i)
  <1>1. n \in Nat /\ n - 1 \in Nat /\ i \in Nat /\ i - 1 \in 0 .. n /\ i + 1 \in 1 .. n + 1
    OBVIOUS
  <1>2. CASE class \in Map!Swapping
    <2> DEFINE m == [s EXCEPT ![i] = s[n]]
    <2>1. /\ m \in Seq(S) /\ Len(m) = n
          /\ \A j \in 1 .. n : m[j] = IF j = i THEN s[n] ELSE s[j]
      BY <1>1
    <2>2. r = SubSeq(m, 1, n - 1)
      BY <1>2, <2>1 DEF Map!Removed, Map!Front, Map!Last
    <2> HIDE DEF m
    <2> HIDE DEF r
    <2>3. /\ SubSeq(m, 1, n - 1) \in Seq(S) /\ Len(SubSeq(m, 1, n - 1)) = n - 1
          /\ \A j \in 1 .. n - 1 : SubSeq(m, 1, n - 1)[j] = m[j]
      BY <1>1, <2>1, PrefixOf
    <2>5. /\ r \in Seq(S) /\ Len(r) = n - 1
          /\ \A j \in 1 .. n - 1 : r[j] = m[j]
      BY <2>2, <2>3, Zenon
    <2>6. \A j \in 1 .. n - 1 : r[j] = s[Source(n, i, j)]
      <3> SUFFICES ASSUME NEW j \in 1 .. n - 1 PROVE r[j] = s[Source(n, i, j)]
        OBVIOUS
      <3>1. j \in 1 .. n
        BY <1>1
      <3>2. Source(n, i, j) = IF j = i THEN n ELSE j
        BY <1>2 DEF Source
      <3>3. r[j] = IF j = i THEN s[n] ELSE s[j]
        BY <2>1, <2>5, <3>1
      <3> QED
        BY <3>2, <3>3
    <2> QED
      BY <2>5, <2>6 DEF r
  <1>3. CASE class \notin Map!Swapping
    <2> DEFINE a == SubSeq(s, 1, i - 1)
               b == SubSeq(s, i + 1, n)
    <2>1. a \in Seq(S) /\ Len(a) = i - 1 /\ \A j \in 1 .. i - 1 : a[j] = s[j]
      <3>1. \A j \in 1 .. i - 1 : s[j] \in S
        BY <1>1
      <3>2. /\ SubSeq(s, 1, i - 1) \in Seq(S)
            /\ Len(SubSeq(s, 1, i - 1)) = IF 1 <= i - 1 THEN i - 1 - 1 + 1 ELSE 0
            /\ \A j \in 1 .. i - 1 - 1 + 1 : SubSeq(s, 1, i - 1)[j] = s[1 + j - 1]
        BY <1>1, <3>1, SubSeqProperties
      <3> HIDE DEF a
      <3>3. a = SubSeq(s, 1, i - 1)
        BY DEF a
      <3> QED
        BY <1>1, <3>2, <3>3
    <2>2. b \in Seq(S) /\ Len(b) = n - i /\ \A j \in 1 .. n - i : b[j] = s[j + i]
      <3>1. \A j \in i + 1 .. n : s[j] \in S
        BY <1>1
      <3>2. /\ SubSeq(s, i + 1, n) \in Seq(S)
            /\ Len(SubSeq(s, i + 1, n)) = IF i + 1 <= n THEN n - (i + 1) + 1 ELSE 0
            /\ \A j \in 1 .. n - (i + 1) + 1 : SubSeq(s, i + 1, n)[j] = s[i + 1 + j - 1]
        BY <1>1, <3>1, SubSeqProperties
      <3> HIDE DEF b
      <3>3. b = SubSeq(s, i + 1, n)
        BY DEF b
      <3> QED
        BY <1>1, <3>2, <3>3
    <2>3. r = a \o b
      BY <1>3 DEF Map!Removed, Map!RemoveAt
    <2> HIDE DEF a, b, r
    <2>4. /\ a \o b \in Seq(S) /\ Len(a \o b) = Len(a) + Len(b)
          /\ \A j \in 1 .. Len(a) + Len(b) :
                (a \o b)[j] = IF j <= Len(a) THEN a[j] ELSE b[j - Len(a)]
      BY <2>1, <2>2, ConcatProperties
    <2>5. \A j \in 1 .. n - 1 : r[j] = s[Source(n, i, j)]
      BY <1>1, <1>3, <2>1, <2>2, <2>3, <2>4 DEF Source
    <2> QED
      BY <1>1, <2>1, <2>2, <2>3, <2>4, <2>5 DEF r
  <1> QED
    BY <1>2, <1>3

\* The entries that are kept come from all other places, each from one.
LEMMA SourceIsOnto ==
    ASSUME NEW n \in Nat, NEW i \in 1 .. n
    PROVE  /\ \A j \in 1 .. n - 1 : Source(n, i, j) \in 1 .. n /\ Source(n, i, j) # i
           /\ \A j, l \in 1 .. n - 1 : Source(n, i, j) = Source(n, i, l) => j = l
           /\ \A p \in 1 .. n : p # i => \E j \in 1 .. n - 1 : Source(n, i, j) = p
  <1>1. CASE class \in Map!Swapping
    <2>1. \A j : Source(n, i, j) = IF j = i THEN n ELSE j
      BY <1>1 DEF Source
    <2>2. ASSUME NEW p \in 1 .. n, p # i PROVE \E j \in 1 .. n - 1 : Source(n, i, j) = p
      <3>1. CASE p = n
        <4>1. i \in 1 .. n - 1 /\ Source(n, i, i) = p
          BY <2>1, <2>2, <3>1
        <4> QED
          BY <4>1
      <3>2. CASE p # n
        <4>1. p \in 1 .. n - 1 /\ Source(n, i, p) = p
          BY <2>1, <2>2, <3>2
        <4> QED
          BY <4>1
      <3> QED
        BY <3>1, <3>2
    <2> QED
      BY <2>1, <2>2
  <1>2. CASE class \notin Map!Swapping
    <2>1. \A j : Source(n, i, j) = IF j < i THEN j ELSE j + 1
      BY <1>2 DEF Source
    <2>2. ASSUME NEW p \in 1 .. n, p # i PROVE \E j \in 1 .. n - 1 : Source(n, i, j) = p
      <3>1. CASE p < i
        <4>1. p \in 1 .. n - 1 /\ Source(n, i, p) = p
          BY <2>1, <2>2, <3>1
        <4> QED
          BY <4>1
      <3>2. CASE ~(p < i)
        <4>1. p - 1 \in 1 .. n - 1 /\ Source(n, i, p - 1) = p
          BY <2>1, <2>2, <3>2
        <4> QED
          BY <4>1
      <3> QED
        BY <3>1, <3>2
    <2> QED
      BY <2>1, <2>2
  <1> QED
    BY <1>1, <1>2

\* A new map is empty.
LEMMA InitMap == Map!Init => MapInv /\ Map!Dictionary!Init
  <1> SUFFICES ASSUME Map!Init PROVE MapInv /\ Map!Dictionary!Init
    OBVIOUS
  <1>1. MapInv
    BY DEF Map!Init, MapInv, Map!Cached, Distinct
  <1>2. Map!contents = <<>>
    BY DEF Map!Init, Map!contents, Map!Range
  <1> QED
    BY <1>1, <1>2 DEF Map!Init, Map!Dictionary!Init, Map!Answer

\* The invariant, and what a dictionary holds, after a set of a key that is there.
LEMMA OverwriteKeeps ==
    ASSUME MapInv, NEW k \in Key, NEW v \in Value, Map!IndexOf(k) # 0, Map!Set(k, v)
    PROVE  /\ MapInv'
           /\ Map!contents' = [j \in DOMAIN Map!contents \cup {k} |->
                                  IF j = k THEN v ELSE Map!contents[j]]
  <1> DEFINE p == Map!IndexOf(k)
             f == [j \in DOMAIN Map!contents \cup {k} |-> IF j = k THEN v ELSE Map!contents[j]]
  <1>1. /\ keys \in Seq(Key) /\ mapValues \in Seq(Value) /\ Len(mapValues) = Len(keys)
        /\ Distinct(keys)
    BY DEF MapInv
  <1>2. p \in 1 .. Len(keys) /\ keys[p] = k /\ Map!Remembered(k) \in 0 .. Len(keys)
    BY SearchFinds
  <1>3. /\ keys' = keys /\ mapValues' = [mapValues EXCEPT ![p] = v]
        /\ lastIndex' = Map!Remembered(k) /\ class' = class
    BY DEF Map!Set
  <1> HIDE DEF p
  <1>4. /\ mapValues' \in Seq(Value) /\ Len(mapValues') = Len(keys)
        /\ \A i \in 1 .. Len(keys) : mapValues'[i] = IF i = p THEN v ELSE mapValues[i]
    BY <1>1, <1>2, <1>3
  <1>5. MapInv'
    BY <1>1, <1>2, <1>3, <1>4 DEF MapInv
  <1>6. /\ DOMAIN Map!contents = {keys[i] : i \in 1 .. Len(keys)}
        /\ \A i \in 1 .. Len(keys) : Map!contents[keys[i]] = mapValues[i]
    BY ContentsAt
  <1>7. DOMAIN f = {keys'[i] : i \in 1 .. Len(keys')}
    BY <1>2, <1>3, <1>6
  <1>8. \A i \in 1 .. Len(keys') : f[keys'[i]] = mapValues'[i]
    BY <1>1, <1>2, <1>3, <1>4, <1>6 DEF Distinct
  <1>9. f = [j \in DOMAIN f |-> f[j]]
    OBVIOUS
  <1> HIDE DEF f
  <1>10. f = Holding(keys', mapValues')
    <2>1. keys' \in Seq(Key) /\ Len(mapValues') = Len(keys') /\ Distinct(keys')
      BY <1>1, <1>3, <1>4
    <2> QED
      BY <1>4, <1>7, <1>8, <1>9, <2>1, HoldingIs
  <1>11. Map!contents' = Holding(keys', mapValues')
    BY <1>5, ContentsAreNext
  <1> QED
    BY <1>5, <1>10, <1>11 DEF f

\* After a set of a new key.
LEMMA AppendKeeps ==
    ASSUME MapInv, NEW k \in Key, NEW v \in Value, Map!IndexOf(k) = 0, Map!Set(k, v)
    PROVE  /\ MapInv'
           /\ Map!contents' = [j \in DOMAIN Map!contents \cup {k} |->
                                  IF j = k THEN v ELSE Map!contents[j]]
  <1> DEFINE n == Len(keys)
             f == [j \in DOMAIN Map!contents \cup {k} |-> IF j = k THEN v ELSE Map!contents[j]]
  <1>1. /\ keys \in Seq(Key) /\ mapValues \in Seq(Value) /\ Len(mapValues) = n
        /\ Distinct(keys) /\ lastIndex \in 0 .. n /\ n \in Nat
    BY DEF MapInv
  <1>2. \A i \in 1 .. n : keys[i] # k
    BY SearchFinds
  <1>3. /\ keys' = Append(keys, k) /\ mapValues' = Append(mapValues, v)
        /\ lastIndex' \in {n + 1, lastIndex} /\ class' = class
    BY DEF Map!Set
  <1>4. /\ keys' \in Seq(Key) /\ Len(keys') = n + 1 /\ keys'[n + 1] = k
        /\ \A i \in 1 .. n : keys'[i] = keys[i]
        /\ mapValues' \in Seq(Value) /\ Len(mapValues') = n + 1 /\ mapValues'[n + 1] = v
        /\ \A i \in 1 .. n : mapValues'[i] = mapValues[i]
    BY <1>1, <1>3, AppendProperties
  <1>5. \A i \in 1 .. n + 1 : i \in 1 .. n \/ i = n + 1
    BY <1>1
  <1> HIDE DEF n
  <1>6. Distinct(keys')
    BY <1>1, <1>2, <1>4, <1>5 DEF Distinct, n
  <1>7. MapInv'
    <2>1. class \in Map!Cached \cup {"MapU256"}
      BY DEF MapInv
    <2>2. n + 1 \in 0 .. n + 1 /\ lastIndex \in 0 .. n + 1
      BY <1>1
    <2>3. Len(mapValues') = Len(keys') /\ lastIndex' \in 0 .. Len(keys')
      BY <1>3, <1>4, <2>2
    <2> QED
      BY <1>3, <1>4, <1>6, <2>1, <2>3 DEF MapInv
  <1>8. /\ DOMAIN Map!contents = {keys[i] : i \in 1 .. n}
        /\ \A i \in 1 .. n : Map!contents[keys[i]] = mapValues[i]
    BY ContentsAt DEF n
  <1>9. DOMAIN f = {keys'[i] : i \in 1 .. Len(keys')}
    <2>1. n + 1 \in 1 .. n + 1 /\ \A i \in 1 .. n : i \in 1 .. n + 1
      BY <1>1
    <2>2. DOMAIN f = {keys[i] : i \in 1 .. n} \cup {k}
      BY <1>8
    <2> HIDE DEF f
    <2> QED
      BY <1>4, <1>5, <2>1, <2>2
  <1>10. \A i \in 1 .. Len(keys') : f[keys'[i]] = mapValues'[i]
    <2> SUFFICES ASSUME NEW i \in 1 .. n + 1 PROVE f[keys'[i]] = mapValues'[i]
      BY <1>4
    <2>1. CASE i = n + 1
      BY <1>4, <2>1
    <2>2. CASE i # n + 1
      BY <1>2, <1>4, <1>5, <1>8, <2>2
    <2> QED
      BY <2>1, <2>2
  <1>11. f = [j \in DOMAIN f |-> f[j]]
    OBVIOUS
  <1> HIDE DEF f
  <1>12. f = Holding(keys', mapValues')
    <2>1. Len(mapValues') = Len(keys')
      BY <1>4
    <2> QED
      BY <1>4, <1>6, <1>9, <1>10, <1>11, <2>1, HoldingIs
  <1>13. Map!contents' = Holding(keys', mapValues')
    BY <1>7, ContentsAreNext
  <1> QED
    BY <1>7, <1>12, <1>13 DEF f

\* After a deletion of a key that is there.
LEMMA DeletionKeeps ==
    ASSUME MapInv, NEW k \in Key, Map!IndexOf(k) # 0, Map!Delete(k)
    PROVE  /\ MapInv'
           /\ Map!contents' = [j \in DOMAIN Map!contents \ {k} |-> Map!contents[j]]
  <1> DEFINE n == Len(keys)
             p == Map!IndexOf(k)
             f == [j \in DOMAIN Map!contents \ {k} |-> Map!contents[j]]
  <1>1. /\ keys \in Seq(Key) /\ mapValues \in Seq(Value) /\ Len(mapValues) = n
        /\ Distinct(keys) /\ lastIndex \in 0 .. n /\ n \in Nat
    BY DEF MapInv
  <1>2. p \in 1 .. n /\ keys[p] = k /\ Map!Remembered(k) \in 0 .. n
    BY SearchFinds
  <1>3. /\ keys' = Map!Removed(keys, p) /\ mapValues' = Map!Removed(mapValues, p)
        /\ lastIndex' = Map!AfterDelete(p) /\ class' = class
    BY DEF Map!Delete
  <1>4. lastIndex' \in 0 .. n - 1
    <2>1. lastIndex' = IF class \notin Map!Swapping \/ Map!Remembered(k) = p THEN 0
                       ELSE IF Map!Remembered(k) = n THEN p ELSE Map!Remembered(k)
      BY <1>2, <1>3 DEF Map!AfterDelete
    <2> HIDE DEF p, n
    <2> QED
      BY <1>1, <1>2, <2>1
  <1> HIDE DEF n, p
  <1>5. /\ keys' \in Seq(Key) /\ Len(keys') = n - 1
        /\ \A j \in 1 .. n - 1 : keys'[j] = keys[Source(n, p, j)]
    BY <1>1, <1>2, <1>3, RemovedKeeps DEF n
  <1>6. /\ mapValues' \in Seq(Value) /\ Len(mapValues') = n - 1
        /\ \A j \in 1 .. n - 1 : mapValues'[j] = mapValues[Source(n, p, j)]
    BY <1>1, <1>2, <1>3, RemovedKeeps DEF n
  <1>7. /\ \A j \in 1 .. n - 1 : Source(n, p, j) \in 1 .. n /\ Source(n, p, j) # p
        /\ \A j, l \in 1 .. n - 1 : Source(n, p, j) = Source(n, p, l) => j = l
        /\ \A q \in 1 .. n : q # p => \E j \in 1 .. n - 1 : Source(n, p, j) = q
    BY <1>1, <1>2, SourceIsOnto
  <1>8. Distinct(keys')
    BY <1>1, <1>5, <1>7, SMTT(20) DEF Distinct, n
  <1>9. MapInv'
    <2>1. n - 1 = Len(keys') /\ Len(mapValues') = Len(keys')
      BY <1>5, <1>6
    <2>2. lastIndex' \in 0 .. Len(keys')
      BY <1>4, <2>1 DEF n
    <2> QED
      BY <1>3, <1>5, <1>6, <1>8, <2>1, <2>2 DEF MapInv
  <1>10. /\ DOMAIN Map!contents = {keys[i] : i \in 1 .. n}
         /\ \A i \in 1 .. n : Map!contents[keys[i]] = mapValues[i]
    BY ContentsAt DEF n
  <1>11. ASSUME NEW j \in 1 .. n - 1
         PROVE  /\ keys'[j] \in DOMAIN Map!contents \ {k}
                /\ f[keys'[j]] = mapValues'[j]
    <2>1. Source(n, p, j) \in 1 .. n /\ Source(n, p, j) # p /\ keys'[j] = keys[Source(n, p, j)]
      BY <1>5, <1>7
    <2>2. keys'[j] # k
      BY <1>1, <1>2, <2>1 DEF Distinct, n
    <2>3. keys'[j] \in DOMAIN Map!contents \ {k}
      BY <1>10, <2>1, <2>2
    <2>4. f[keys'[j]] = mapValues[Source(n, p, j)]
      BY <1>10, <2>1, <2>3
    <2> QED
      BY <1>6, <2>3, <2>4
  <1>12. DOMAIN f = {keys'[i] : i \in 1 .. Len(keys')}
    <2>1. DOMAIN f = DOMAIN Map!contents \ {k}
      OBVIOUS
    <2>2. ASSUME NEW x \in DOMAIN Map!contents \ {k} PROVE \E j \in 1 .. n - 1 : keys'[j] = x
      <3>1. PICK i \in 1 .. n : x = keys[i]
        BY <1>10
      <3>2. i # p
        BY <1>2, <3>1
      <3>3. PICK j \in 1 .. n - 1 : Source(n, p, j) = i
        BY <1>7, <3>2
      <3> QED
        BY <1>5, <3>1, <3>3
    <2> HIDE DEF f
    <2> QED
      BY <1>5, <1>11, <2>1, <2>2
  <1>13. f = [j \in DOMAIN f |-> f[j]]
    OBVIOUS
  <1> HIDE DEF f
  <1>14. f = Holding(keys', mapValues')
    <2>1. /\ Len(mapValues') = Len(keys')
          /\ \A j \in 1 .. Len(keys') : f[keys'[j]] = mapValues'[j]
      BY <1>5, <1>6, <1>11 DEF f
    <2> QED
      BY <1>5, <1>6, <1>8, <1>12, <1>13, <2>1, HoldingIs
  <1>15. Map!contents' = Holding(keys', mapValues')
    BY <1>9, ContentsAreNext
  <1> QED
    BY <1>9, <1>14, <1>15 DEF f

\* A call that leaves the arrays alone leaves the dictionary alone.
LEMMA ContentsSame ==
    keys' = keys /\ mapValues' = mapValues => Map!contents' = Map!contents
  BY DEF Map!contents, Map!Range

\* A search moves nothing but the remembered place.
LEMMA SearchKeeps ==
    ASSUME MapInv, NEW k, lastIndex' = Map!Remembered(k), UNCHANGED <<class, keys, mapValues>>
    PROVE  MapInv'
  <1>1. lastIndex' \in 0 .. Len(keys)
    BY SearchFinds
  <1> QED
    BY <1>1 DEF MapInv

\* The search finds a key exactly if the dictionary holds it, and then its value.
LEMMA SearchAnswers ==
    ASSUME MapInv, NEW k
    PROVE  /\ Map!Dictionary!Holds(k) <=> Map!IndexOf(k) # 0
           /\ Map!IndexOf(k) # 0 => Map!contents[k] = mapValues[Map!IndexOf(k)]
  <1> DEFINE p == Map!IndexOf(k)
             n == Len(keys)
  <1>1. /\ p \in 0 .. n /\ (p # 0 => keys[p] = k)
        /\ p = 0 => \A i \in 1 .. n : keys[i] # k
    BY SearchFinds
  <1>2. /\ DOMAIN Map!contents = {keys[i] : i \in 1 .. n}
        /\ \A i \in 1 .. n : Map!contents[keys[i]] = mapValues[i]
    BY ContentsAt
  <1>3. n \in Nat
    BY DEF MapInv
  <1> HIDE DEF p, n
  <1>4. p # 0 => p \in 1 .. n
    BY <1>1, <1>3
  <1>5. Map!Dictionary!Holds(k) <=> k \in DOMAIN Map!contents
    BY DEF Map!Dictionary!Holds
  <1>6. Map!Dictionary!Holds(k) <=> p # 0
    BY <1>1, <1>2, <1>4, <1>5
  <1>7. p # 0 => Map!contents[k] = mapValues[p]
    BY <1>1, <1>2, <1>4
  <1> QED
    BY <1>6, <1>7 DEF p

\* Every step keeps the invariant, and is the call of a dictionary or none.
LEMMA StepMap ==
    ASSUME MapInv, [Map!Next]_mapVars
    PROVE  MapInv' /\ [Map!Dictionary!Next]_<<Map!contents, answer>>
  <1>1. ASSUME NEW c \in Map!Cached \cup {"MapU256"}, Map!New(c)
        PROVE  MapInv' /\ UNCHANGED <<Map!contents, answer>>
    <2>1. MapInv'
      BY <1>1 DEF Map!New, MapInv
    <2>2. Map!contents' = Map!contents
      BY <1>1, ContentsSame DEF Map!New
    <2> QED
      BY <1>1, <2>1, <2>2 DEF Map!New
  <1>2. ASSUME NEW k \in Key, Map!Get(k) PROVE MapInv' /\ Map!Dictionary!Get(k)
    <2>1. MapInv'
      BY <1>2, SearchKeeps DEF Map!Get
    <2>2. Map!contents' = Map!contents
      BY <1>2, ContentsSame DEF Map!Get
    <2>3. (IF Map!IndexOf(k) = 0 THEN Throw ELSE mapValues[Map!IndexOf(k)])
             = (IF Map!Dictionary!Holds(k) THEN Map!contents[k] ELSE Throw)
      BY SearchAnswers
    <2> QED
      BY <1>2, <2>1, <2>2, <2>3 DEF Map!Get, Map!Answer, Map!Dictionary!Get, Map!Dictionary!Answer
  <1>3. ASSUME NEW k \in Key, Map!Has(k) PROVE MapInv' /\ Map!Dictionary!Has(k)
    <2>1. MapInv'
      BY <1>3, SearchKeeps DEF Map!Has
    <2>2. Map!contents' = Map!contents
      BY <1>3, ContentsSame DEF Map!Has
    <2>3. (Map!IndexOf(k) # 0) = Map!Dictionary!Holds(k)
      BY SearchAnswers DEF Map!Dictionary!Holds
    <2> QED
      BY <1>3, <2>1, <2>2, <2>3 DEF Map!Has, Map!Answer, Map!Dictionary!Has, Map!Dictionary!Answer
  <1>4. ASSUME NEW k \in Key, Map!Delete(k) PROVE MapInv' /\ Map!Dictionary!Delete(k)
    <2> DEFINE f == [j \in DOMAIN Map!contents \ {k} |-> Map!contents[j]]
    <2>1. (Map!IndexOf(k) # 0) = Map!Dictionary!Holds(k)
      BY SearchAnswers DEF Map!Dictionary!Holds
    <2>2. MapInv' /\ Map!contents' = f
      <3>1. CASE Map!IndexOf(k) # 0
        BY <1>4, <3>1, DeletionKeeps
      <3>2. CASE Map!IndexOf(k) = 0
        <4>1. UNCHANGED <<class, keys, mapValues, lastIndex>>
          BY <1>4, <3>2 DEF Map!Delete
        <4>2. MapInv'
          BY <4>1 DEF MapInv
        <4>3. Map!contents' = Map!contents
          BY <4>1, ContentsSame
        <4>4. k \notin DOMAIN Map!contents
          BY <2>1, <3>2 DEF Map!Dictionary!Holds
        <4>5. DOMAIN Map!contents \ {k} = DOMAIN Map!contents
          BY <4>4
        <4>6. Map!contents = [j \in DOMAIN Map!contents |-> Map!contents[j]]
          BY DEF Map!contents
        <4> QED
          BY <4>2, <4>3, <4>5, <4>6
      <3> QED
        BY <3>1, <3>2
    <2> QED
      BY <1>4, <2>1, <2>2
      DEF Map!Delete, Map!Answer, Map!Dictionary!Delete, Map!Dictionary!Answer
  <1>5. ASSUME NEW k \in Key, NEW v \in Value, Map!Set(k, v)
        PROVE  MapInv' /\ Map!Dictionary!Set(k, v)
    <2>1. /\ MapInv'
          /\ Map!contents' = [j \in DOMAIN Map!contents \cup {k} |->
                                 IF j = k THEN v ELSE Map!contents[j]]
      BY <1>5, OverwriteKeeps, AppendKeeps
    <2> QED
      BY <1>5, <2>1 DEF Map!Set, Map!Answer, Map!Dictionary!Set, Map!Dictionary!Answer
  <1>6. ASSUME Map!Clear PROVE MapInv' /\ Map!Dictionary!Clear
    <2>1. keys' = <<>> /\ mapValues' = <<>> /\ lastIndex' = 0 /\ class' = class
      BY <1>6 DEF Map!Clear
    <2>2. MapInv'
      BY <2>1 DEF MapInv, Distinct
    <2>3. Map!contents' = <<>>
      BY <2>1 DEF Map!contents, Map!Range
    <2> QED
      BY <1>6, <2>2, <2>3 DEF Map!Clear, Map!Answer, Map!Dictionary!Clear, Map!Dictionary!Answer
  <1>7. ASSUME UNCHANGED mapVars PROVE MapInv' /\ UNCHANGED <<Map!contents, answer>>
    <2>1. UNCHANGED <<class, keys, mapValues, lastIndex, answer>>
      BY <1>7 DEF mapVars
    <2> QED
      BY <2>1, ContentsSame DEF MapInv
  <1>8. MapInv' /\ (Map!Dictionary!Next \/ UNCHANGED <<Map!contents, answer>>)
    BY <1>1, <1>2, <1>3, <1>4, <1>5, <1>6, <1>7 DEF Map!Next, Map!Dictionary!Next
  <1> QED
    BY <1>8

\* The place a map of any class remembers lies within its arrays after every sequence of
\* calls, so the unchecked reads of set and isLastIndex stay inside (indexOf, set, delete of
\* generic/Map.ts and memory/AddressMap.ts).
THEOREM MapPlacesExist == ComponentsSpec => []MapPlaceWithinArrays
  <1>1. ComponentsInit => MapInv
    BY InitMap DEF ComponentsInit
  <1>2. MapInv /\ [ComponentsNext]_vs => MapInv'
    BY PartsStep, StepMap
  <1>3. MapInv => MapPlaceWithinArrays
    BY DEF MapInv, MapPlaceWithinArrays, Map!PlaceWithinArrays
  <1> QED
    BY <1>1, <1>2, <1>3, PTL DEF ComponentsSpec, vs

\* Every class of map answers each call as a dictionary would, through any sequence of sets,
\* searches, deletions and clears: for every set of keys and values.
THEOREM MapsAreDictionaries == ComponentsSpec => MapImplementsDictionary
  <1>1. ComponentsInit => MapInv /\ Map!Dictionary!Init
    BY InitMap DEF ComponentsInit
  <1>2. MapInv /\ [ComponentsNext]_vs => MapInv' /\ [Map!Dictionary!Next]_<<Map!contents, answer>>
    BY PartsStep, StepMap
  <1>3. ComponentsSpec => Map!Dictionary!Spec
    BY <1>1, <1>2, PTL DEF ComponentsSpec, vs, Map!Dictionary!Spec
  <1> QED
    BY <1>3 DEF MapImplementsDictionary, Map!ImplementsDictionary

-----------------------------------------------------------------------------
(* Packed arrays: slots and places *)

Cell == 0 .. MaxElements - 1

\* Every cell has a slot and a place in it, and no two cells have the same.
LEMMA CellsHavePlaces ==
    ASSUME NEW c \in Cell
    PROVE  /\ Array!SlotOf(c) \in Array!Slot
           /\ c % PerSlot \in 0 .. PerSlot - 1
           /\ \A d \in Cell : Array!SlotOf(c) = Array!SlotOf(d) /\ c % PerSlot = d % PerSlot
                                 => c = d
  <1>1. MaxElements \in Nat \ {0} /\ PerSlot \in Nat \ {0} /\ Cell = 0 .. MaxElements - 1
    BY ArrayAssumption DEF ArrayAssumption, Cell
  <1> QED
    BY <1>1, PackedCells DEF Array!SlotOf, Array!Slot

-----------------------------------------------------------------------------
(* The invariant of the packed array *)

\* Slots in memory are slots of the array, those not marked as changed are as in the
\* storage, and the slot at hand is one of them.
MemoryInv ==
    /\ DOMAIN slots \subseteq Array!Slot /\ \A s \in DOMAIN slots : slots[s] \in Array!SlotData
    /\ changedSlots \subseteq DOMAIN slots
    /\ \A s \in DOMAIN slots \ changedSlots : slots[s] = array.slots[s]
    /\ \/ hot = Array!NoSlot
       \/ hot.slot \in DOMAIN slots /\ hot.data = slots[hot.slot]

\* The storage holds slots and a header.
StorageInv ==
    /\ array \in Array!Storage /\ array.start \in Cell
    /\ keptArray \in Array!Storage /\ keptArray.start \in Cell

\* The header in memory is as in the storage unless it is marked as changed.
HeaderInv ==
    /\ arrayLength \in Array!Length /\ arrayStart \in Cell /\ changedArrayHeader \in BOOLEAN
    /\ ~changedArrayHeader => arrayLength = array.length /\ arrayStart = array.start

\* Only a contract that calls the raw methods has lowered the maximum.
CursorInv ==
    /\ nextOffset \in Array!Length /\ ringLength \in 1 .. MaxElements
    /\ rawArray \in BOOLEAN /\ arrayCalls \in Nat
    /\ ~rawArray => ringLength = MaxElements

ArrayInv == MemoryInv /\ StorageInv /\ HeaderInv /\ CursorInv

\* Sums of the start and an index stay below 2^32: every ring of at most 2^31 elements.
RingFits == 2 * MaxElements - 2 <= MaxU32

\* Every index of the ring has a cell.
LEMMA IndexHasCell ==
    ASSUME arrayStart \in Cell, ringLength \in 1 .. MaxElements, NEW i \in Nat
    PROVE  Array!RealIndex(i) \in Cell
  <1>1. /\ arrayStart + i \in Nat /\ MaxU32 + 1 \in Nat \ {0} /\ ringLength \in Nat \ {0}
        /\ ringLength <= MaxElements /\ MaxElements \in Nat
    BY ArrayAssumption DEF ArrayAssumption, Cell
  <1> DEFINE sum == (arrayStart + i) % (MaxU32 + 1)
  <1>2. sum \in Nat
    BY <1>1, Division, Zenon DEF sum
  <1> HIDE DEF sum
  <1>3. sum % ringLength \in 0 .. ringLength - 1
    BY <1>1, <1>2, Division
  <1>4. sum % ringLength \in Cell
    BY <1>1, <1>3 DEF Cell
  <1>5. Array!RealIndex(i) = sum % ringLength
    BY DEF Array!RealIndex, Array!Plus, sum
  <1> QED
    BY <1>4, <1>5, Zenon

\* In a ring that fits, the sum of a start and an index does not wrap.
LEMMA SumsDoNotWrap ==
    ASSUME RingFits, NEW st \in Cell, NEW i \in Cell
    PROVE  Array!Plus(st, i) = st + i
  <1>1. st + i \in Nat /\ st + i < MaxU32 + 1 /\ MaxU32 + 1 \in Nat \ {0}
    BY ArrayAssumption DEF ArrayAssumption, Cell, RingFits
  <1>2. (st + i) % (MaxU32 + 1) = st + i
    <2> DEFINE a == st + i
               m == MaxU32 + 1
    <2> HIDE DEF a, m
    <2>1. a \in Nat /\ m \in Nat \ {0} /\ a < m => a % m = a
      OBVIOUS
    <2> QED
      BY <1>1, <2>1 DEF a, m
  <1> QED
    BY <1>2, Zenon DEF Array!Plus

\* So the cell is the one the sum gives.
LEMMA IndexWithoutWrap ==
    ASSUME RingFits, arrayStart \in Cell, NEW i \in Cell
    PROVE  Array!RealIndex(i) = (arrayStart + i) % ringLength
  <1>1. Array!Plus(arrayStart, i) = arrayStart + i
    BY SumsDoNotWrap
  <1> QED
    BY <1>1, Zenon DEF Array!RealIndex

\* And two indexes of the ring have two cells.
LEMMA IndexesHaveOwnCells ==
    ASSUME RingFits, arrayStart \in Cell, ringLength \in 1 .. MaxElements,
           NEW i \in 0 .. ringLength - 1, NEW j \in 0 .. ringLength - 1, i # j
    PROVE  Array!RealIndex(i) # Array!RealIndex(j)
  <1>1. /\ arrayStart \in Nat /\ ringLength \in Nat \ {0} /\ i \in Cell /\ j \in Cell
        /\ i \in Nat /\ j \in Nat
    BY ArrayAssumption DEF ArrayAssumption, Cell
  <1>2. /\ Array!RealIndex(i) = (arrayStart + i) % ringLength
        /\ Array!RealIndex(j) = (arrayStart + j) % ringLength
    BY <1>1, IndexWithoutWrap
  <1>3. CASE i < j
    <2>1. (arrayStart + i) % ringLength # (arrayStart + j) % ringLength
      <3>1. /\ arrayStart + i \in Nat /\ arrayStart + j \in Nat
            /\ arrayStart + i < arrayStart + j /\ (arrayStart + j) - (arrayStart + i) < ringLength
        BY <1>1, <1>3
      <3> QED
        BY <1>1, <3>1, NearRemaindersDiffer
    <2> QED
      BY <1>2, <2>1
  <1>4. CASE j < i
    <2>1. (arrayStart + j) % ringLength # (arrayStart + i) % ringLength
      <3>1. /\ arrayStart + i \in Nat /\ arrayStart + j \in Nat
            /\ arrayStart + j < arrayStart + i /\ (arrayStart + i) - (arrayStart + j) < ringLength
        BY <1>1, <1>4
      <3> QED
        BY <1>1, <3>1, NearRemaindersDiffer
    <2> QED
      BY <1>2, <2>1
  <1> QED
    BY <1>1, <1>3, <1>4

-----------------------------------------------------------------------------
(* Reading and writing a cell of the packed array *)

\* What a call finds in a slot: what is in memory, else what is stored.
LEMMA SlotIsCurrent ==
    ASSUME MemoryInv, StorageInv, NEW s \in Array!Slot
    PROVE  /\ Array!EnsureSlot(s) \in Array!SlotData
           /\ Array!EnsureSlot(s) = IF s \in DOMAIN slots THEN slots[s] ELSE array.slots[s]
  <1>1. array.slots[s] \in Array!SlotData
    BY DEF StorageInv, Array!Storage
  <1>2. s \in Nat
    <2>1. Array!Slot \subseteq Nat
      BY DEF Array!Slot
    <2> QED
      BY <2>1
  <1>3. s = hot.slot => s \in DOMAIN slots /\ hot.data = slots[s]
    <2>1. hot = Array!NoSlot => hot.slot = -1
      BY DEF Array!NoSlot
    <2> QED
      BY <1>2, <2>1 DEF MemoryInv
  <1>4. Array!EnsureSlot(s) = IF s \in DOMAIN slots THEN slots[s] ELSE array.slots[s]
    BY <1>3 DEF Array!EnsureSlot
  <1> QED
    BY <1>1, <1>4 DEF MemoryInv

\* A slot that is kept is found again, and no other is touched; unless it is marked as
\* changed it must be the one that was found before.
LEMMA KeepIsFound ==
    ASSUME MemoryInv, StorageInv, array' = array, NEW s \in Array!Slot,
           NEW data \in Array!SlotData, Array!Keep(s, data),
           \/ changedSlots' = changedSlots \cup {s}
           \/ changedSlots' = changedSlots /\ data = Array!EnsureSlot(s)
    PROVE  /\ MemoryInv'
           /\ \A t \in Array!Slot :
                 Array!EnsureSlot(t)' = IF t = s THEN data ELSE Array!EnsureSlot(t)
  <1>1. /\ DOMAIN slots' = DOMAIN slots \cup {s} /\ slots'[s] = data
        /\ \A t \in DOMAIN slots : t # s => slots'[t] = slots[t]
        /\ hot' = [slot |-> s, data |-> data]
    BY DEF Array!Keep, Array!Loaded
  <1>2. changedSlots' \subseteq DOMAIN slots' /\ DOMAIN slots' \subseteq Array!Slot
    BY <1>1 DEF MemoryInv
  <1>3. \A t \in DOMAIN slots' : slots'[t] \in Array!SlotData
    BY <1>1 DEF MemoryInv
  <1>4. hot'.slot \in DOMAIN slots' /\ hot'.data = slots'[hot'.slot]
    BY <1>1
  <1>5. ASSUME NEW t \in DOMAIN slots' \ changedSlots' PROVE slots'[t] = array'.slots[t]
    <2>1. CASE t = s
      <3>1. data = Array!EnsureSlot(s) /\ s \notin changedSlots
        BY <1>5, <2>1
      <3>2. Array!EnsureSlot(s) = array.slots[s]
        BY <3>1, SlotIsCurrent DEF MemoryInv
      <3> QED
        BY <1>1, <2>1, <3>1, <3>2
    <2>2. CASE t # s
      BY <1>1, <1>5, <2>2 DEF MemoryInv
    <2> QED
      BY <2>1, <2>2
  <1>6. MemoryInv'
    BY <1>2, <1>3, <1>4, <1>5 DEF MemoryInv
  <1>7. ASSUME NEW t \in Array!Slot
        PROVE  Array!EnsureSlot(t)' = IF t = s THEN data ELSE Array!EnsureSlot(t)
    <2>1. Array!EnsureSlot(t)' = IF t = s THEN data
                                 ELSE IF t \in DOMAIN slots THEN slots[t] ELSE array.slots[t]
      BY <1>1 DEF Array!EnsureSlot
    <2> QED
      BY <2>1, SlotIsCurrent
  <1> QED
    BY <1>6, <1>7

\* A step that touches neither the storage nor the slots in memory changes no cell.
LEMMA CellsStay ==
    ASSUME array' = array, slots' = slots, hot' = hot
    PROVE  \A c \in Cell : Array!CellValue(c)' = Array!CellValue(c)
  BY DEF Array!CellValue, Array!EnsureSlot

\* Reading a cell loads its slot and changes no cell.
LEMMA ReadKeepsCells ==
    ASSUME MemoryInv, StorageInv, array' = array, NEW cell \in Cell, Array!Read(cell)
    PROVE  MemoryInv' /\ \A c \in Cell : Array!CellValue(c)' = Array!CellValue(c)
  <1> DEFINE s == Array!SlotOf(cell)
  <1>1. s \in Array!Slot /\ \A c \in Cell : Array!SlotOf(c) \in Array!Slot
    BY CellsHavePlaces
  <1>2. Array!Keep(s, Array!EnsureSlot(s)) /\ changedSlots' = changedSlots
    BY DEF Array!Read
  <1> HIDE DEF s
  <1>3. /\ MemoryInv'
        /\ \A t \in Array!Slot :
              Array!EnsureSlot(t)' = IF t = s THEN Array!EnsureSlot(s) ELSE Array!EnsureSlot(t)
    BY <1>1, <1>2, SlotIsCurrent, KeepIsFound
  <1>4. \A t \in Array!Slot : Array!EnsureSlot(t)' = Array!EnsureSlot(t)
    BY <1>3
  <1> QED
    BY <1>1, <1>3, <1>4 DEF Array!CellValue, Array!SlotOf

\* Writing a cell changes it and no other.
LEMMA WriteChangesOneCell ==
    ASSUME MemoryInv, StorageInv, array' = array, NEW cell \in Cell, NEW v \in Element,
           Array!Write(cell, v)
    PROVE  /\ MemoryInv'
           /\ \A c \in Cell :
                 Array!CellValue(c)' = IF c = cell THEN v ELSE Array!CellValue(c)
  <1> DEFINE s == Array!SlotOf(cell)
             k == cell % PerSlot
             old == Array!EnsureSlot(s)
             new == [old EXCEPT ![k] = v]
  <1>1. s \in Array!Slot /\ k \in 0 .. PerSlot - 1
    BY CellsHavePlaces
  <1>2. old \in Array!SlotData
    BY <1>1, SlotIsCurrent
  <1>3. /\ Array!Keep(s, new)
        /\ changedSlots' = IF Array!CellValue(cell) = v THEN changedSlots
                           ELSE changedSlots \cup {s}
    BY DEF Array!Write
  <1>4. Array!CellValue(cell) = old[k]
    BY DEF Array!CellValue
  <1> HIDE DEF s, k, old
  <1>5. /\ new \in Array!SlotData /\ new[k] = v
        /\ \A j \in 0 .. PerSlot - 1 : j # k => new[j] = old[j]
        /\ old[k] = v => new = old
    BY <1>1, <1>2 DEF Array!SlotData
  <1> HIDE DEF new
  <1>6. /\ MemoryInv'
        /\ \A t \in Array!Slot :
              Array!EnsureSlot(t)' = IF t = s THEN new ELSE Array!EnsureSlot(t)
    <2>1. \/ changedSlots' = changedSlots \cup {s}
          \/ changedSlots' = changedSlots /\ new = Array!EnsureSlot(s)
      BY <1>3, <1>4, <1>5 DEF old
    <2> QED
      BY <1>1, <1>3, <1>5, <2>1, KeepIsFound
  <1>7. ASSUME NEW c \in Cell
        PROVE  Array!CellValue(c)' = IF c = cell THEN v ELSE Array!CellValue(c)
    <2>1. /\ Array!CellValue(c) = Array!EnsureSlot(Array!SlotOf(c))[c % PerSlot]
          /\ Array!CellValue(c)' = Array!EnsureSlot(Array!SlotOf(c))'[c % PerSlot]
      BY DEF Array!CellValue, Array!SlotOf
    <2>2. Array!SlotOf(c) \in Array!Slot /\ c % PerSlot \in 0 .. PerSlot - 1
      BY CellsHavePlaces
    <2>3. CASE c = cell
      BY <1>5, <1>6, <2>1, <2>2, <2>3 DEF s, k
    <2>4. CASE c # cell /\ Array!SlotOf(c) = s
      <3>1. c % PerSlot # k
        BY <2>4, CellsHavePlaces DEF s, k
      <3> QED
        BY <1>5, <1>6, <2>1, <2>2, <2>4, <3>1 DEF old
    <2>5. CASE c # cell /\ Array!SlotOf(c) # s
      BY <1>6, <2>1, <2>2, <2>5
    <2> QED
      BY <2>3, <2>4, <2>5
  <1> QED
    BY <1>6, <1>7

-----------------------------------------------------------------------------
(* The invariant of the packed array is kept *)

\* A new array is empty.
LEMMA InitArray == Array!Init => ArrayInv
  <1> SUFFICES ASSUME Array!Init PROVE ArrayInv
    OBVIOUS
  <1>0. 0 \in Cell /\ 0 \in 0 .. MaxU32 /\ 0 \in Array!Length
    BY ArrayAssumption DEF ArrayAssumption, Cell, Array!Length
  <1>1. Array!ZeroSlot \in Array!SlotData
    BY ArrayAssumption DEF ArrayAssumption, Array!ZeroSlot, Array!SlotData
  <1>2. array \in Array!Storage /\ array.start \in Cell /\ array.length = 0 /\ array.start = 0
    BY <1>0, <1>1 DEF Array!Init, Array!Storage
  <1>3. StorageInv
    BY <1>2 DEF Array!Init, StorageInv
  <1>4. MemoryInv
    BY DEF Array!Init, MemoryInv
  <1>5. HeaderInv
    BY <1>0, <1>2 DEF Array!Init, HeaderInv
  <1>6. CursorInv
    BY <1>0, ArrayAssumption DEF Array!Init, CursorInv, ArrayAssumption
  <1> QED
    BY <1>3, <1>4, <1>5, <1>6 DEF ArrayInv

\* The storage invariant needs nothing but the storage, and so on for the other parts.
LEMMA PartsStay ==
    ASSUME ArrayInv
    PROVE  /\ UNCHANGED <<array, keptArray>> => StorageInv'
           /\ UNCHANGED <<array, slots, changedSlots, hot>> => MemoryInv'
           /\ UNCHANGED <<array, arrayLength, arrayStart, changedArrayHeader>> => HeaderInv'
           /\ Array!Call /\ UNCHANGED <<nextOffset, ringLength>> => CursorInv'
  BY DEF ArrayInv, StorageInv, MemoryInv, HeaderInv, CursorInv, Array!Call

\* The next start is a cell.
LEMMA NextStartIsCell ==
    ASSUME arrayStart \in Cell, ringLength \in 1 .. MaxElements
    PROVE  Array!NextStart \in Cell
  BY ArrayAssumption DEF ArrayAssumption, Cell, Array!NextStart

\* One less than a length is a length.
LEMMA ShorterIsLength ==
    ASSUME arrayLength \in Array!Length, arrayLength > 0
    PROVE  arrayLength - 1 \in Array!Length /\ arrayLength - 1 \in Nat
  BY ArrayAssumption DEF ArrayAssumption, Array!Length

\* A changed header must have its types only.
LEMMA ChangedHeader ==
    ASSUME arrayLength' \in Array!Length, arrayStart' \in Cell, changedArrayHeader' = TRUE
    PROVE  HeaderInv'
  BY DEF HeaderInv

\* What is loaded from a stored header.
LEMMA LoadKeeps ==
    ASSUME NEW from \in Array!Storage, from.start \in Cell, array' = from,
           Array!Load(from), rawArray \in BOOLEAN, arrayCalls \in Nat,
           rawArray' = rawArray, arrayCalls' = arrayCalls
    PROVE  MemoryInv' /\ HeaderInv' /\ CursorInv'
  <1>1. MemoryInv'
    BY DEF Array!Load, MemoryInv
  <1>2. HeaderInv'
    BY DEF Array!Load, HeaderInv, Array!Storage
  <1>3. CursorInv'
    BY ArrayAssumption DEF ArrayAssumption, Array!Load, CursorInv, Array!Length
  <1> QED
    BY <1>1, <1>2, <1>3

\* An emptied array.
LEMMA ForgetKeeps ==
    ASSUME Array!Forget, array'.length = 0, array'.start = 0
    PROVE  MemoryInv' /\ HeaderInv'
  <1>1. MemoryInv'
    BY DEF Array!Forget, MemoryInv
  <1>2. 0 \in Array!Length /\ 0 \in Cell
    BY ArrayAssumption DEF ArrayAssumption, Array!Length, Cell
  <1>3. arrayLength' = 0 /\ arrayStart' = 0 /\ changedArrayHeader' = FALSE
    BY DEF Array!Forget
  <1>4. HeaderInv'
    BY <1>2, <1>3 DEF HeaderInv
  <1> QED
    BY <1>1, <1>4

\* Saving writes the slots and the header that are marked.
LEMMA SaveKeeps ==
    ASSUME ArrayInv, Array!Save
    PROVE  ArrayInv'
  <1>1. /\ MemoryInv /\ StorageInv /\ HeaderInv
        /\ keptArray' = keptArray /\ slots' = slots /\ hot' = hot
        /\ arrayLength' = arrayLength /\ arrayStart' = arrayStart
        /\ changedSlots' = {} /\ changedArrayHeader' = FALSE
    BY DEF ArrayInv, Array!Save, Array!cursor
  <1>2. /\ array'.slots = [s \in Array!Slot |-> IF s \in changedSlots THEN slots[s]
                                                ELSE array.slots[s]]
        /\ array'.length = (IF changedArrayHeader THEN arrayLength ELSE array.length)
        /\ array'.start = (IF changedArrayHeader THEN arrayStart ELSE array.start)
        /\ array' = [slots |-> array'.slots, length |-> array'.length, start |-> array'.start]
    BY DEF Array!Save
  <1>3. array'.slots \in [Array!Slot -> Array!SlotData]
    BY <1>1, <1>2 DEF MemoryInv, StorageInv, Array!Storage
  <1>4. array'.length = arrayLength /\ array'.start = arrayStart
    BY <1>1, <1>2 DEF HeaderInv
  <1>5. StorageInv'
    <2>1. Cell \subseteq 0 .. MaxU32
      BY ArrayAssumption DEF ArrayAssumption, Cell
    <2>2. array' \in Array!Storage
      BY <1>1, <1>2, <1>3, <1>4, <2>1 DEF HeaderInv, Array!Storage
    <2> QED
      BY <1>1, <1>4, <2>2 DEF StorageInv, HeaderInv
  <1>6. MemoryInv'
    BY <1>1, <1>2 DEF MemoryInv
  <1>7. HeaderInv'
    BY <1>1, <1>4 DEF HeaderInv
  <1>8. CursorInv'
    BY PartsStay DEF Array!Save, Array!cursor
  <1> QED
    BY <1>5, <1>6, <1>7, <1>8 DEF ArrayInv

\* Every step keeps the invariant.
LEMMA StepArray == ArrayInv /\ [Array!Next]_arrayVars => ArrayInv'
  <1> SUFFICES ASSUME ArrayInv, [Array!Next]_arrayVars PROVE ArrayInv'
    OBVIOUS
  <1>0. MemoryInv /\ StorageInv /\ HeaderInv /\ CursorInv
    BY DEF ArrayInv
  <1> USE DEF Array!cursor, Array!header, Array!memory
  <1>1. ASSUME NEW i \in Array!Index, Array!Get(i) PROVE ArrayInv'
    <2>1. Array!RealIndex(i) \in Cell
      BY <1>0, IndexHasCell DEF HeaderInv, CursorInv, Array!Index
    <2>2. MemoryInv'
      BY <1>0, <1>1, <2>1, ReadKeepsCells DEF Array!Get
    <2> QED
      BY <1>1, <2>2, PartsStay DEF Array!Get, ArrayInv
  <1>2. ASSUME Array!GetNext PROVE ArrayInv'
    <2>1. Array!RealIndex(nextOffset) \in Cell
      BY <1>0, IndexHasCell DEF HeaderInv, CursorInv, Array!Length
    <2>2. MemoryInv'
      BY <1>0, <1>2, <2>1, ReadKeepsCells DEF Array!GetNext
    <2>3. CursorInv'
      BY <1>0, <1>2, ArrayAssumption
      DEF ArrayAssumption, Array!GetNext, Array!Call, CursorInv, Array!Length
    <2> QED
      BY <1>2, <2>2, <2>3, PartsStay DEF Array!GetNext, ArrayInv
  <1>3. ASSUME NEW i \in Array!Index, NEW v \in Element, Array!Set(i, v) PROVE ArrayInv'
    <2>1. Array!RealIndex(i) \in Cell
      BY <1>0, IndexHasCell DEF HeaderInv, CursorInv, Array!Index
    <2>2. MemoryInv'
      BY <1>0, <1>3, <2>1, WriteChangesOneCell DEF Array!Set
    <2> QED
      BY <1>3, <2>2, PartsStay DEF Array!Set, ArrayInv
  <1>4. ASSUME NEW i \in Array!Index, NEW v \in Element, Array!SetPhysical(i, v) PROVE ArrayInv'
    <2>1. i \in Cell
      BY DEF Array!Index, Cell
    <2>2. MemoryInv'
      BY <1>0, <1>4, <2>1, WriteChangesOneCell DEF Array!SetPhysical
    <2> QED
      BY <1>4, <2>2, PartsStay DEF Array!SetPhysical, Array!RawCall, ArrayInv
  <1>5. ASSUME NEW v \in Element, NEW isPhysical \in BOOLEAN, Array!Push(v, isPhysical)
        PROVE  ArrayInv'
    <2>1. /\ arrayLength \in Nat /\ arrayLength < ringLength /\ ringLength \in Nat \ {0}
          /\ ringLength <= MaxElements /\ MaxElements \in Nat
      BY <1>0, <1>5, ArrayAssumption
      DEF ArrayAssumption, Array!Push, HeaderInv, CursorInv, Array!Length
    <2>2. Array!RealIndex(arrayLength) \in Cell
      BY <1>0, <2>1, IndexHasCell DEF HeaderInv, CursorInv
    <2>3. arrayLength % ringLength \in Cell
      <3>1. arrayLength % ringLength \in 0 .. ringLength - 1
        BY <2>1, Division
      <3> QED
        BY <2>1, <3>1 DEF Cell
    <2>4. (IF isPhysical THEN arrayLength % ringLength ELSE Array!RealIndex(arrayLength)) \in Cell
      BY <2>2, <2>3
    <2>5. MemoryInv'
      BY <1>0, <1>5, <2>4, WriteChangesOneCell DEF Array!Push
    <2>6. arrayLength' \in Array!Length
      BY <1>5, <2>1 DEF Array!Push, Array!Length
    <2>7. HeaderInv'
      BY <1>0, <1>5, <2>6, ChangedHeader DEF Array!Push, HeaderInv
    <2> QED
      BY <1>5, <2>5, <2>7, PartsStay DEF Array!Push, ArrayInv
  <1>6. ASSUME Array!Shift PROVE ArrayInv'
    <2>1. MemoryInv'
      BY <1>0, <1>6, ArrayAssumption, WriteChangesOneCell
      DEF Array!Shift, HeaderInv, ArrayAssumption
    <2>2. arrayLength' \in Array!Length /\ arrayStart' \in Cell
      BY <1>0, <1>6, NextStartIsCell, ShorterIsLength DEF Array!Shift, HeaderInv, CursorInv
    <2>3. HeaderInv'
      BY <1>6, <2>2, ChangedHeader DEF Array!Shift
    <2> QED
      BY <1>6, <2>1, <2>3, PartsStay DEF Array!Shift, ArrayInv
  <1>7. ASSUME NEW i \in Array!Index, Array!Delete(i) PROVE ArrayInv'
    <2>1. Array!RealIndex(i) \in Cell
      BY <1>0, IndexHasCell DEF HeaderInv, CursorInv, Array!Index
    <2>2. MemoryInv'
      BY <1>0, <1>7, <2>1, ArrayAssumption, WriteChangesOneCell DEF Array!Delete, ArrayAssumption
    <2> QED
      BY <1>7, <2>2, PartsStay DEF Array!Delete, ArrayInv
  <1>8. ASSUME Array!RemoveItemFromLength PROVE ArrayInv'
    <2>1. arrayLength' \in Array!Length /\ arrayStart' \in Cell
      BY <1>0, <1>8, ShorterIsLength DEF Array!RemoveItemFromLength, HeaderInv
    <2>2. HeaderInv'
      BY <1>8, <2>1, ChangedHeader DEF Array!RemoveItemFromLength
    <2> QED
      BY <1>8, <2>2, PartsStay DEF Array!RemoveItemFromLength, ArrayInv
  <1>9. ASSUME Array!DeleteLast PROVE ArrayInv'
    <2>1. arrayLength - 1 \in Nat /\ arrayLength' \in Array!Length /\ arrayStart' \in Cell
      BY <1>0, <1>9, ShorterIsLength DEF Array!DeleteLast, HeaderInv
    <2>2. Array!RealIndex(arrayLength - 1) \in Cell
      BY <1>0, <2>1, IndexHasCell DEF HeaderInv, CursorInv
    <2>3. MemoryInv'
      BY <1>0, <1>9, <2>2, ArrayAssumption, WriteChangesOneCell
      DEF Array!DeleteLast, ArrayAssumption
    <2>4. HeaderInv'
      BY <1>9, <2>1, ChangedHeader DEF Array!DeleteLast
    <2> QED
      BY <1>9, <2>3, <2>4, PartsStay DEF Array!DeleteLast, ArrayInv
  <1>10. ASSUME NEW i \in Cell, Array!MoveStart(i) PROVE HeaderInv'
    BY <1>0, <1>10, ChangedHeader DEF Array!MoveStart, HeaderInv
  <1>11. ASSUME Array!IncrementStartingIndex PROVE ArrayInv'
    <2>1. HeaderInv'
      BY <1>0, <1>10, <1>11, NextStartIsCell DEF Array!IncrementStartingIndex, HeaderInv, CursorInv
    <2> QED
      BY <1>11, <2>1, PartsStay
      DEF Array!IncrementStartingIndex, Array!MoveStart, Array!RawCall, ArrayInv
  <1>12. ASSUME NEW i \in Array!Index, Array!SetStartingIndex(i) PROVE ArrayInv'
    <2>1. HeaderInv'
      BY <1>10, <1>12 DEF Array!SetStartingIndex, Array!Index, Cell
    <2> QED
      BY <1>12, <2>1, PartsStay
      DEF Array!SetStartingIndex, Array!MoveStart, Array!RawCall, ArrayInv
  <1>13. ASSUME Array!ApplyNextOffsetToStartingIndex PROVE ArrayInv'
    <2>1. Array!RealIndex(nextOffset) \in Cell
      BY <1>0, IndexHasCell DEF HeaderInv, CursorInv, Array!Length
    <2>2. Array!RealIndex(nextOffset) = Array!Plus(arrayStart, nextOffset) % ringLength
      BY DEF Array!RealIndex
    <2>3. HeaderInv'
      BY <1>10, <1>13, <2>1, <2>2 DEF Array!ApplyNextOffsetToStartingIndex
    <2>4. CursorInv'
      BY <1>0, <1>13, ArrayAssumption
      DEF ArrayAssumption, Array!ApplyNextOffsetToStartingIndex, Array!RawCall, Array!Call,
          Array!MoveStart, CursorInv, Array!Length
    <2> QED
      BY <1>13, <2>3, <2>4, PartsStay
      DEF Array!ApplyNextOffsetToStartingIndex, Array!MoveStart, ArrayInv
  <1>14. ASSUME NEW m \in 1 .. MaxElements, Array!SetMaxLength(m) PROVE ArrayInv'
    <2>1. CursorInv'
      BY <1>0, <1>14 DEF Array!SetMaxLength, Array!RawCall, Array!Call, CursorInv
    <2> QED
      BY <1>14, <2>1, PartsStay DEF Array!SetMaxLength, ArrayInv
  <1>15. ASSUME Array!Save PROVE ArrayInv'
    BY <1>15, SaveKeeps
  <1>16. ASSUME Array!DeleteAll PROVE ArrayInv'
    <2> DEFINE ss == [s \in Array!Slot |-> IF s \in DOMAIN slots THEN Array!ZeroSlot
                                           ELSE array.slots[s]]
    <2>1. array' = [slots |-> ss, length |-> 0, start |-> 0] /\ keptArray' = keptArray
      BY <1>16 DEF Array!DeleteAll
    <2>2. Array!ZeroSlot \in Array!SlotData
      BY ArrayAssumption DEF ArrayAssumption, Array!ZeroSlot, Array!SlotData
    <2>3. ss \in [Array!Slot -> Array!SlotData]
      BY <1>0, <2>2 DEF StorageInv, Array!Storage
    <2>4. 0 \in Cell /\ 0 \in Array!Length /\ 0 \in 0 .. MaxU32
      BY ArrayAssumption DEF ArrayAssumption, Cell, Array!Length
    <2> HIDE DEF ss
    <2>5. StorageInv'
      BY <1>0, <2>1, <2>3, <2>4 DEF StorageInv, Array!Storage
    <2>6. MemoryInv' /\ HeaderInv'
      BY <1>16, <2>1, ForgetKeeps DEF Array!DeleteAll
    <2> QED
      BY <1>16, <2>5, <2>6, PartsStay DEF Array!DeleteAll, ArrayInv
  <1>17. ASSUME Array!Reset PROVE ArrayInv'
    <2>1. /\ array'.slots = array.slots /\ array'.length = 0 /\ array'.start = 0
          /\ array' = [slots |-> array.slots, length |-> 0, start |-> 0]
          /\ keptArray' = keptArray
      BY <1>0, <1>17 DEF Array!Reset, StorageInv, Array!Storage
    <2>2. 0 \in Cell /\ 0 \in Array!Length /\ 0 \in 0 .. MaxU32
      BY ArrayAssumption DEF ArrayAssumption, Cell, Array!Length
    <2>3. StorageInv'
      BY <1>0, <2>1, <2>2 DEF StorageInv, Array!Storage
    <2>4. MemoryInv' /\ HeaderInv'
      BY <1>17, <2>1, ForgetKeeps DEF Array!Reset
    <2> QED
      BY <1>17, <2>3, <2>4, PartsStay DEF Array!Reset, ArrayInv
  <1>18. ASSUME Array!Commit PROVE ArrayInv'
    <2>1. /\ Array!Load(array) /\ array' = array /\ keptArray' = array
          /\ rawArray' = rawArray /\ arrayCalls' = arrayCalls
      BY <1>18 DEF Array!Commit
    <2>2. MemoryInv' /\ HeaderInv' /\ CursorInv'
      BY <1>0, <2>1, LoadKeeps DEF StorageInv, CursorInv
    <2>3. StorageInv'
      BY <1>0, <2>1 DEF StorageInv
    <2> QED
      BY <2>2, <2>3 DEF ArrayInv
  <1>19. ASSUME Array!Abort PROVE ArrayInv'
    <2>1. /\ Array!Load(keptArray) /\ array' = keptArray /\ keptArray' = keptArray
          /\ rawArray' = rawArray /\ arrayCalls' = arrayCalls
      BY <1>19 DEF Array!Abort
    <2>2. MemoryInv' /\ HeaderInv' /\ CursorInv'
      BY <1>0, <2>1, LoadKeeps DEF StorageInv, CursorInv
    <2>3. StorageInv'
      BY <1>0, <2>1 DEF StorageInv
    <2> QED
      BY <2>2, <2>3 DEF ArrayInv
  <1>20. ASSUME UNCHANGED arrayVars PROVE ArrayInv'
    BY <1>20 DEF arrayVars, ArrayInv, MemoryInv, StorageInv, HeaderInv, CursorInv
  <1> QED
    BY <1>1, <1>2, <1>3, <1>4, <1>5, <1>6, <1>7, <1>8, <1>9, <1>11, <1>12, <1>13, <1>14, <1>15,
       <1>16, <1>17, <1>18, <1>19, <1>20 DEF Array!Next

-----------------------------------------------------------------------------
(* The invariants of the runs about the packed array *)

\* The slot at hand is the slot in memory, and all types hold.
LEMMA InvIsEnough == ArrayInv => ArrayHotSlotIsCurrent
  <1> SUFFICES ASSUME ArrayInv PROVE Array!TypeOK /\ Array!HotSlotIsCurrent
    BY DEF ArrayHotSlotIsCurrent
  <1>1. MemoryInv /\ StorageInv /\ HeaderInv /\ CursorInv
    BY DEF ArrayInv
  <1>2. hot = Array!NoSlot \/ (hot.slot \in Array!Slot /\ hot.data \in Array!SlotData)
    BY <1>1 DEF MemoryInv
  <1>3. arrayStart \in 0 .. (MaxElements - 1)
    BY <1>1 DEF HeaderInv, Cell
  <1>4. Array!TypeOK
    <2>1. nextOffset \in 0 .. MaxElements
      BY <1>1 DEF CursorInv, Array!Length
    <2> QED
      BY <1>1, <1>2, <1>3, <2>1 DEF Array!TypeOK, MemoryInv, StorageInv, HeaderInv, CursorInv
  <1>5. Array!HotSlotIsCurrent
    BY <1>1 DEF Array!HotSlotIsCurrent, MemoryInv
  <1> QED
    BY <1>4, <1>5

\* The invariant holds in every state.
LEMMA ArrayInvHolds == ComponentsSpec => []ArrayInv
  <1>1. ComponentsInit => ArrayInv
    BY InitArray DEF ComponentsInit
  <1>2. ArrayInv /\ [ComponentsNext]_vs => ArrayInv'
    BY PartsStep, StepArray
  <1> QED
    BY <1>1, <1>2, PTL DEF ComponentsSpec, vs

\* No sequence of writes, clears, reloads and moves of the start leaves a stale slot at hand
\* or takes the header of a packed array out of its bounds (ensureSlot, updateSlot, save,
\* deleteAll, reset of StoredPackedArray.ts).
THEOREM HotSlotStaysCurrent == ComponentsSpec => []ArrayHotSlotIsCurrent
  BY ArrayInvHolds, InvIsEnough, PTL

\* Two elements of a packed array never share a cell, wherever the ring wraps around, in every
\* ring of at most 2^31 elements (getRealIndex of StoredPackedArray.ts).
THEOREM ElementsStayApart == RingFits => (ComponentsSpec => []ArrayElementsHaveOwnCells)
  <1> SUFFICES ASSUME RingFits PROVE ComponentsSpec => []ArrayElementsHaveOwnCells
    OBVIOUS
  <1>1. ArrayInv => ArrayElementsHaveOwnCells
    <2> SUFFICES ASSUME ArrayInv, arrayLength <= ringLength,
                        NEW i \in 0 .. (arrayLength - 1), NEW j \in 0 .. (arrayLength - 1), i # j
                 PROVE  Array!RealIndex(i) # Array!RealIndex(j)
      BY DEF ArrayElementsHaveOwnCells, Array!ElementsHaveOwnCells
    <2>1. /\ arrayStart \in Cell /\ ringLength \in 1 .. MaxElements
          /\ i \in 0 .. ringLength - 1 /\ j \in 0 .. ringLength - 1
      BY ArrayAssumption DEF ArrayAssumption, ArrayInv, HeaderInv, CursorInv, Array!Length
    <2> QED
      BY <2>1, IndexesHaveOwnCells
  <1> QED
    BY <1>1, ArrayInvHolds, PTL

-----------------------------------------------------------------------------
(* The packed array is a sequence that is saved *)

\* What a cell holds in the next state depends on the cell its index has then.
LEMMA CellNext ==
    ASSUME NEW j, NEW c, Array!RealIndex(j)' = c
    PROVE  Array!CellValue(Array!RealIndex(j))' = Array!CellValue(c)'
  BY DEF Array!CellValue, Array!SlotOf, Array!EnsureSlot

\* The elements of the array in the next state.
LEMMA ViewNext ==
    ASSUME NEW s \in Seq(Element), arrayLength' = Len(s),
           \A i \in 1 .. Len(s) : Array!CellValue(Array!RealIndex(i - 1))' = s[i]
    PROVE  Array!View' = s
  <1>1. Array!View' = [i \in 1 .. arrayLength' |-> Array!CellValue(Array!RealIndex(i - 1))']
    BY DEF Array!View
  <1>2. Array!View' = [i \in 1 .. Len(s) |-> s[i]]
    BY <1>1
  <1> QED
    BY <1>2

\* The elements of the array are a sequence.
LEMMA Views ==
    ASSUME ArrayInv
    PROVE  /\ Array!View \in Seq(Element) /\ Len(Array!View) = arrayLength
           /\ \A i \in 1 .. arrayLength :
                 Array!View[i] = Array!CellValue(Array!RealIndex(i - 1))
           /\ arrayLength \in Nat
  <1>1. /\ arrayLength \in Nat /\ arrayStart \in Cell /\ ringLength \in 1 .. MaxElements
        /\ MemoryInv /\ StorageInv
    BY ArrayAssumption
    DEF ArrayAssumption, ArrayInv, HeaderInv, CursorInv, Array!Length
  <1>2. ASSUME NEW c \in Cell PROVE Array!CellValue(c) \in Element
    <2>1. Array!SlotOf(c) \in Array!Slot /\ c % PerSlot \in 0 .. PerSlot - 1
      BY CellsHavePlaces
    <2>2. Array!EnsureSlot(Array!SlotOf(c)) \in Array!SlotData
      BY <1>1, <2>1, SlotIsCurrent
    <2> QED
      BY <2>1, <2>2 DEF Array!CellValue, Array!SlotData
  <1>3. ASSUME NEW i \in 1 .. arrayLength
        PROVE  Array!CellValue(Array!RealIndex(i - 1)) \in Element
    <2>1. i - 1 \in Nat
      BY <1>1
    <2>2. Array!RealIndex(i - 1) \in Cell
      BY <1>1, <2>1, IndexHasCell
    <2> QED
      BY <1>2, <2>2
  <1> QED
    BY <1>1, <1>3 DEF Array!View

\* When the start moves on, an index leads to the cell the next one led to.
LEMMA ShiftedIndex ==
    ASSUME RingFits, arrayStart \in Cell, ringLength = MaxElements, ringLength' = ringLength,
           arrayStart' = Array!NextStart, NEW i \in Nat, i + 1 \in Cell
    PROVE  Array!RealIndex(i)' = Array!RealIndex(i + 1)
  <1>1. /\ MaxElements \in Nat \ {0} /\ i \in Cell /\ arrayStart \in Nat
        /\ i \in 0 .. MaxElements - 1
    BY ArrayAssumption DEF ArrayAssumption, Cell
  <1>2. Array!RealIndex(i + 1) = (arrayStart + (i + 1)) % MaxElements
    BY IndexWithoutWrap
  <1>3. Array!NextStart \in Cell
    BY <1>1, NextStartIsCell
  <1>4. Array!Plus(Array!NextStart, i) = Array!NextStart + i
    BY <1>1, <1>3, SumsDoNotWrap
  <1>5. Array!RealIndex(i)' = (Array!NextStart + i) % MaxElements
    <2>1. Array!RealIndex(i)' = Array!Plus(arrayStart', i) % ringLength'
      BY DEF Array!RealIndex, Array!Plus
    <2> HIDE DEF Array!Plus, Array!NextStart
    <2>2. Array!RealIndex(i)' = Array!Plus(Array!NextStart, i) % MaxElements
      BY <2>1, Zenon
    <2> QED
      BY <1>4, <2>2, Zenon
  <1>6. CASE arrayStart + 1 < MaxElements
    <2>1. Array!NextStart + i = arrayStart + (i + 1)
      BY <1>1, <1>6 DEF Array!NextStart
    <2> QED
      BY <1>2, <1>5, <2>1, Zenon
  <1>7. CASE ~(arrayStart + 1 < MaxElements)
    <2>1. Array!NextStart + i = i /\ arrayStart + (i + 1) = MaxElements + i
      BY <1>1, <1>7 DEF Array!NextStart, Cell
    <2>2. (MaxElements + i) % MaxElements = i /\ i % MaxElements = i
      BY <1>1, OneTurn
    <2> QED
      BY <1>2, <1>5, <2>1, <2>2, Zenon
  <1> QED
    BY <1>6, <1>7

\* A contract that does not call the raw methods, with a ring that fits.
Plain == ArrayInv /\ RingFits /\ ~rawArray

\* Then every index has a cell, and no other index has the same.
LEMMA PlainIndexes ==
    ASSUME Plain
    PROVE  /\ \A i \in Cell : Array!RealIndex(i) \in Cell
           /\ \A i, j \in Cell : i # j => Array!RealIndex(i) # Array!RealIndex(j)
           /\ Array!RealIndex(0) = arrayStart
           /\ \A i \in 0 .. arrayLength - 1 : i \in Cell
           /\ ringLength = MaxElements /\ MemoryInv /\ StorageInv /\ RingFits
           /\ arrayLength \in Nat /\ arrayStart \in Cell
  <1>1. /\ arrayStart \in Cell /\ ringLength \in 1 .. MaxElements /\ ringLength = MaxElements
        /\ MemoryInv /\ StorageInv /\ RingFits
    BY ArrayAssumption DEF ArrayAssumption, Plain, ArrayInv, HeaderInv, CursorInv
  <1>2. arrayLength \in Nat /\ arrayLength <= MaxElements
    BY ArrayAssumption DEF ArrayAssumption, Plain, ArrayInv, HeaderInv, Array!Length
  <1>3. /\ MaxElements \in Nat \ {0} /\ Cell \subseteq Nat /\ 0 \in Cell
        /\ Cell = 0 .. ringLength - 1 /\ \A i \in 0 .. arrayLength - 1 : i \in Cell
    BY <1>1, <1>2, ArrayAssumption DEF ArrayAssumption, Cell
  <1>4. \A i \in Cell : Array!RealIndex(i) \in Cell
    BY <1>1, <1>3, IndexHasCell
  <1>5. \A i, j \in Cell : i # j => Array!RealIndex(i) # Array!RealIndex(j)
    BY <1>1, <1>3, IndexesHaveOwnCells
  <1>6. Array!RealIndex(0) = arrayStart
    <2>1. Array!RealIndex(0) = (arrayStart + 0) % MaxElements
      BY <1>1, <1>3, IndexWithoutWrap
    <2>2. arrayStart + 0 = arrayStart /\ arrayStart \in 0 .. MaxElements - 1
      BY <1>1, <1>3 DEF Cell
    <2>3. arrayStart % MaxElements = arrayStart
      BY <1>3, <2>2, OneTurn
    <2> QED
      BY <2>1, <2>2, <2>3, Zenon
  <1> QED
    BY <1>1, <1>2, <1>3, <1>4, <1>5, <1>6

\* As long as the start and the maximum stay, an index keeps its cell.
LEMMA IndexStays ==
    ASSUME arrayStart' = arrayStart, ringLength' = ringLength, NEW j
    PROVE  Array!RealIndex(j)' = Array!RealIndex(j)
  BY DEF Array!RealIndex, Array!Plus

\* Setting an element changes it and no other; beyond the length, none.
LEMMA AssignView ==
    ASSUME Plain, NEW i \in Cell, NEW v \in Element, Array!Write(Array!RealIndex(i), v),
           array' = array, arrayLength' = arrayLength, arrayStart' = arrayStart,
           ringLength' = ringLength
    PROVE  /\ i + 1 \in 1 .. arrayLength => Array!View' = [Array!View EXCEPT ![i + 1] = v]
           /\ i + 1 \notin 1 .. arrayLength => Array!View' = Array!View
  <1> DEFINE n == arrayLength
             w == Array!View
  <1>1. /\ w \in Seq(Element) /\ Len(w) = n /\ n \in Nat
        /\ \A k \in 1 .. n : w[k] = Array!CellValue(Array!RealIndex(k - 1))
    BY Views DEF Plain
  <1>2. /\ Array!RealIndex(i) \in Cell /\ i \in Nat
        /\ \A c \in Cell : Array!CellValue(c)' = IF c = Array!RealIndex(i) THEN v
                                                 ELSE Array!CellValue(c)
    <2>1. Array!RealIndex(i) \in Cell /\ MemoryInv /\ StorageInv
      BY PlainIndexes
    <2> QED
      BY <2>1, WriteChangesOneCell DEF Cell
  <1> HIDE DEF w
  <1>3. ASSUME NEW k \in 1 .. n
        PROVE  Array!CellValue(Array!RealIndex(k - 1))' = IF k = i + 1 THEN v ELSE w[k]
    <2>1. k - 1 \in Cell /\ (k - 1 = i <=> k = i + 1)
      <3>1. k - 1 \in 0 .. n - 1
        BY <1>1
      <3> QED
        BY <1>1, <1>2, <3>1, PlainIndexes
    <2>2. Array!RealIndex(k - 1)' = Array!RealIndex(k - 1)
      BY IndexStays
    <2>3. PICK c \in Cell : c = Array!RealIndex(k - 1)
      BY <2>1, PlainIndexes
    <2>4. Array!CellValue(Array!RealIndex(k - 1))' = Array!CellValue(c)'
      BY <2>2, <2>3, CellNext
    <2>5. c = Array!RealIndex(i) <=> k - 1 = i
      BY <2>1, <2>3, PlainIndexes
    <2>6. w[k] = Array!CellValue(c)
      BY <1>1, <2>3
    <2> QED
      BY <1>2, <2>1, <2>4, <2>5, <2>6
  <1>4. CASE i + 1 \in 1 .. n
    <2> DEFINE u == [w EXCEPT ![i + 1] = v]
    <2>1. u \in Seq(Element) /\ Len(u) = n /\ \A k \in 1 .. n : u[k] = IF k = i + 1 THEN v ELSE w[k]
      BY <1>1, <1>4
    <2> HIDE DEF u
    <2>2. Array!View' = u
      BY <1>3, <2>1, ViewNext
    <2> QED
      BY <1>4, <2>2 DEF u, w
  <1>5. CASE i + 1 \notin 1 .. n
    <2>1. Array!View' = w
      BY <1>1, <1>3, <1>5, ViewNext
    <2> QED
      BY <1>5, <2>1 DEF w
  <1> QED
    BY <1>4, <1>5

\* Pushing an element appends it.
LEMMA AppendView ==
    ASSUME Plain, NEW v \in Element, Array!Write(Array!RealIndex(arrayLength), v),
           arrayLength < ringLength, array' = array, arrayLength' = arrayLength + 1,
           arrayStart' = arrayStart, ringLength' = ringLength
    PROVE  Array!View' = Append(Array!View, v)
  <1> DEFINE n == arrayLength
             w == Array!View
             u == Append(w, v)
  <1>1. /\ w \in Seq(Element) /\ Len(w) = n /\ n \in Nat
        /\ \A k \in 1 .. n : w[k] = Array!CellValue(Array!RealIndex(k - 1))
    BY Views DEF Plain
  <1>2. n \in Cell /\ \A k \in 1 .. n + 1 : k - 1 \in Cell
    BY <1>1, PlainIndexes, ArrayAssumption DEF ArrayAssumption, Cell
  <1>3. /\ Array!RealIndex(n) \in Cell
        /\ \A c \in Cell : Array!CellValue(c)' = IF c = Array!RealIndex(n) THEN v
                                                 ELSE Array!CellValue(c)
    <2>1. Array!RealIndex(n) \in Cell /\ MemoryInv /\ StorageInv
      BY <1>2, PlainIndexes
    <2> QED
      BY <2>1, WriteChangesOneCell
  <1> HIDE DEF w
  <1>4. /\ u \in Seq(Element) /\ Len(u) = n + 1
        /\ \A k \in 1 .. n + 1 : u[k] = IF k = n + 1 THEN v ELSE w[k]
    BY <1>1
  <1>5. ASSUME NEW k \in 1 .. n + 1
        PROVE  Array!CellValue(Array!RealIndex(k - 1))' = u[k]
    <2>1. k - 1 \in Cell /\ (k - 1 = n <=> k = n + 1)
      BY <1>1, <1>2
    <2>2. Array!RealIndex(k - 1)' = Array!RealIndex(k - 1)
      BY IndexStays
    <2>3. PICK c \in Cell : c = Array!RealIndex(k - 1)
      BY <2>1, PlainIndexes
    <2>4. Array!CellValue(Array!RealIndex(k - 1))' = Array!CellValue(c)'
      BY <2>2, <2>3, CellNext
    <2>5. c = Array!RealIndex(n) <=> k - 1 = n
      BY <1>2, <2>1, <2>3, PlainIndexes
    <2>6. k # n + 1 => w[k] = Array!CellValue(c)
      BY <1>1, <2>3
    <2> QED
      BY <1>3, <1>4, <2>1, <2>4, <2>5, <2>6
  <1> HIDE DEF u
  <1>6. Array!View' = u
    BY <1>4, <1>5, ViewNext
  <1> QED
    BY <1>6 DEF u, w

\* Shifting drops the first element.
LEMMA TailView ==
    ASSUME Plain, Array!Write(arrayStart, ZeroElement), arrayLength > 0, array' = array,
           arrayLength' = arrayLength - 1, arrayStart' = Array!NextStart,
           ringLength' = ringLength
    PROVE  Array!View' = Tail(Array!View) /\ Array!View # <<>>
  <1> DEFINE n == arrayLength
             w == Array!View
             u == Tail(w)
  <1>1. /\ w \in Seq(Element) /\ Len(w) = n /\ n \in Nat /\ n > 0
        /\ \A k \in 1 .. n : w[k] = Array!CellValue(Array!RealIndex(k - 1))
    BY Views DEF Plain
  <1>2. /\ arrayStart \in Cell
        /\ \A c \in Cell : Array!CellValue(c)' = IF c = arrayStart THEN ZeroElement
                                                 ELSE Array!CellValue(c)
    BY PlainIndexes, WriteChangesOneCell, ArrayAssumption DEF ArrayAssumption
  <1> HIDE DEF w
  <1>3. w # <<>>
    BY <1>1
  <1>4. u \in Seq(Element) /\ Len(u) = n - 1 /\ \A k \in 1 .. n - 1 : u[k] = w[k + 1]
    BY <1>1, <1>3
  <1>5. ASSUME NEW k \in 1 .. n - 1
        PROVE  Array!CellValue(Array!RealIndex(k - 1))' = u[k]
    <2>1. /\ k \in Cell /\ k # 0 /\ 0 \in Cell /\ k - 1 \in Nat /\ (k - 1) + 1 = k
          /\ k + 1 \in 1 .. n /\ (k + 1) - 1 = k
      <3>1. k \in 0 .. n - 1 /\ 0 \in 0 .. n - 1
        BY <1>1
      <3> QED
        BY <1>1, <3>1, PlainIndexes
    <2>2. Array!RealIndex(k - 1)' = Array!RealIndex(k)
      <3>1. Array!RealIndex(k - 1)' = Array!RealIndex((k - 1) + 1)
        BY <2>1, PlainIndexes, ShiftedIndex
      <3> QED
        BY <2>1, <3>1, Zenon
    <2>3. PICK c \in Cell : c = Array!RealIndex(k)
      BY <2>1, PlainIndexes
    <2>4. Array!CellValue(Array!RealIndex(k - 1))' = Array!CellValue(c)'
      BY <2>2, <2>3, CellNext
    <2>5. c # arrayStart
      BY <2>1, <2>3, PlainIndexes
    <2>6. u[k] = Array!CellValue(c)
      <3>1. w[k + 1] = Array!CellValue(Array!RealIndex((k + 1) - 1))
        BY <1>1, <2>1
      <3>2. w[k + 1] = Array!CellValue(Array!RealIndex(k))
        BY <2>1, <3>1, Zenon
      <3> QED
        BY <1>4, <2>3, <3>2
    <2> QED
      BY <1>2, <2>4, <2>5, <2>6
  <1> HIDE DEF u
  <1>6. Array!View' = u
    BY <1>4, <1>5, ViewNext
  <1> QED
    BY <1>3, <1>6 DEF u, w

\* An array that is one shorter has lost its last element, if the others are as they were.
LEMMA FrontView ==
    ASSUME Plain, arrayLength > 0, arrayLength' = arrayLength - 1,
           arrayStart' = arrayStart, ringLength' = ringLength,
           \A c \in Cell : c # Array!RealIndex(arrayLength - 1) =>
              Array!CellValue(c)' = Array!CellValue(c)
    PROVE  Array!View' = Array!Sequence!Front(Array!View) /\ Array!View # <<>>
  <1> DEFINE n == arrayLength
             w == Array!View
             u == SubSeq(w, 1, n - 1)
  <1>1. /\ w \in Seq(Element) /\ Len(w) = n /\ n \in Nat /\ n > 0
        /\ \A k \in 1 .. n : w[k] = Array!CellValue(Array!RealIndex(k - 1))
    BY Views DEF Plain
  <1> HIDE DEF w
  <1>2. w # <<>> /\ Array!Sequence!Front(w) = u
    BY <1>1 DEF Array!Sequence!Front
  <1>3. u \in Seq(Element) /\ Len(u) = n - 1 /\ \A k \in 1 .. n - 1 : u[k] = w[k]
    BY <1>1
  <1>4. ASSUME NEW k \in 1 .. n - 1
        PROVE  Array!CellValue(Array!RealIndex(k - 1))' = u[k]
    <2>1. k - 1 \in Cell /\ n - 1 \in Cell /\ k - 1 # n - 1 /\ k \in 1 .. n
      <3>1. k - 1 \in 0 .. n - 1 /\ n - 1 \in 0 .. n - 1
        BY <1>1
      <3> QED
        BY <1>1, <3>1, PlainIndexes
    <2>2. Array!RealIndex(k - 1)' = Array!RealIndex(k - 1)
      BY IndexStays
    <2>3. PICK c \in Cell : c = Array!RealIndex(k - 1)
      BY <2>1, PlainIndexes
    <2>4. Array!CellValue(Array!RealIndex(k - 1))' = Array!CellValue(c)'
      BY <2>2, <2>3, CellNext
    <2>5. c # Array!RealIndex(n - 1)
      BY <2>1, <2>3, PlainIndexes
    <2>6. u[k] = Array!CellValue(c)
      BY <1>1, <1>3, <2>1, <2>3
    <2> QED
      BY <2>4, <2>5, <2>6
  <1> HIDE DEF u
  <1>5. Array!View' = u
    BY <1>1, <1>3, <1>4, ViewNext
  <1> QED
    BY <1>2, <1>5 DEF w

\* While no cell and no part of the header changes, the elements stay.
LEMMA ViewStays ==
    ASSUME Plain, arrayLength' = arrayLength, arrayStart' = arrayStart,
           ringLength' = ringLength,
           \A c \in Cell : Array!CellValue(c)' = Array!CellValue(c)
    PROVE  Array!View' = Array!View
  <1> DEFINE n == arrayLength
             w == Array!View
  <1>1. /\ w \in Seq(Element) /\ Len(w) = n /\ n \in Nat
        /\ \A k \in 1 .. n : w[k] = Array!CellValue(Array!RealIndex(k - 1))
    BY Views DEF Plain
  <1> HIDE DEF w
  <1>2. ASSUME NEW k \in 1 .. n
        PROVE  Array!CellValue(Array!RealIndex(k - 1))' = w[k]
    <2>1. k - 1 \in Cell
      <3>1. k - 1 \in 0 .. n - 1
        BY <1>1
      <3> QED
        BY <3>1, PlainIndexes
    <2>2. PICK c \in Cell : c = Array!RealIndex(k - 1)
      BY <2>1, PlainIndexes
    <2>3. Array!CellValue(Array!RealIndex(k - 1))' = Array!CellValue(c)'
      BY <2>2, IndexStays, CellNext
    <2> QED
      BY <1>1, <2>2, <2>3
  <1>3. Array!View' = w
    BY <1>1, <1>2, ViewNext
  <1> QED
    BY <1>3 DEF w

\* Saving stores the elements the transaction sees.
LEMMA SaveView ==
    ASSUME Plain, Array!Save
    PROVE  Array!Stored(array)' = Array!View /\ Array!View' = Array!View
  <1>1. /\ MemoryInv /\ StorageInv /\ HeaderInv /\ ringLength = MaxElements
    BY PlainIndexes DEF Plain, ArrayInv
  <1>2. /\ slots' = slots /\ hot' = hot /\ arrayLength' = arrayLength
        /\ arrayStart' = arrayStart /\ ringLength' = ringLength
    BY DEF Array!Save, Array!cursor
  <1>3. /\ array'.length = arrayLength /\ array'.start = arrayStart
        /\ \A s \in Array!Slot : array'.slots[s] = IF s \in changedSlots THEN slots[s]
                                                   ELSE array.slots[s]
    BY <1>1 DEF Array!Save, HeaderInv
  <1>4. ASSUME NEW s \in Array!Slot
        PROVE  array'.slots[s] = Array!EnsureSlot(s) /\ Array!EnsureSlot(s)' = Array!EnsureSlot(s)
    <2>1. Array!EnsureSlot(s) = IF s \in DOMAIN slots THEN slots[s] ELSE array.slots[s]
      BY <1>1, SlotIsCurrent
    <2>2. array'.slots[s] = Array!EnsureSlot(s)
      BY <1>1, <1>3, <2>1 DEF MemoryInv
    <2>3. Array!EnsureSlot(s)' = IF s = hot.slot THEN hot.data
                                 ELSE IF s \in DOMAIN slots THEN slots[s] ELSE array'.slots[s]
      BY <1>2 DEF Array!EnsureSlot
    <2>4. Array!EnsureSlot(s) = IF s = hot.slot THEN hot.data
                                ELSE IF s \in DOMAIN slots THEN slots[s] ELSE array.slots[s]
      BY DEF Array!EnsureSlot
    <2> QED
      BY <2>1, <2>2, <2>3, <2>4
  <1>5. ASSUME NEW c \in Cell
        PROVE  /\ Array!CellValue(c)' = Array!CellValue(c)
               /\ array'.slots[Array!SlotOf(c)][c % PerSlot] = Array!CellValue(c)
    BY <1>4, CellsHavePlaces DEF Array!CellValue, Array!SlotOf
  <1>6. Array!View' = Array!View
    BY <1>2, <1>5, ViewStays
  <1>7. Array!Stored(array)' =
           [i \in 1 .. arrayLength |->
               array'.slots[Array!SlotOf(Array!RealIndex(i - 1))][Array!RealIndex(i - 1) % PerSlot]]
    <2>1. \A i : Array!RealIndex(i - 1) = Array!Plus(arrayStart, i - 1) % MaxElements
      BY <1>1 DEF Array!RealIndex
    <2> QED
      BY <1>3, <2>1 DEF Array!Stored, Array!SlotOf, Array!Plus
  <1>8. ASSUME NEW i \in 1 .. arrayLength
        PROVE  array'.slots[Array!SlotOf(Array!RealIndex(i - 1))][Array!RealIndex(i - 1) % PerSlot]
                  = Array!CellValue(Array!RealIndex(i - 1))
    <2>1. i - 1 \in 0 .. arrayLength - 1
      BY PlainIndexes
    <2>2. Array!RealIndex(i - 1) \in Cell
      BY <2>1, PlainIndexes
    <2> QED
      BY <1>5, <2>2
  <1> QED
    BY <1>6, <1>7, <1>8 DEF Array!View

\* A new instance sees what is stored.
LEMMA LoadView ==
    ASSUME NEW from \in Array!Storage, from.start \in Cell, array' = from, Array!Load(from)
    PROVE  Array!View' = Array!Stored(from)
  <1>1. /\ slots' = <<>> /\ hot' = Array!NoSlot /\ arrayLength' = from.length
        /\ arrayStart' = from.start /\ ringLength' = MaxElements
    BY DEF Array!Load
  <1>2. ASSUME NEW s \in Array!Slot PROVE Array!EnsureSlot(s)' = from.slots[s]
    <2>1. s # -1
      <3>1. Array!Slot \subseteq Nat
        BY DEF Array!Slot
      <3> QED
        BY <3>1
    <2>2. hot'.slot = -1 /\ s \notin DOMAIN slots'
      BY <1>1 DEF Array!NoSlot
    <2> QED
      BY <2>1, <2>2 DEF Array!EnsureSlot
  <1>3. ASSUME NEW c \in Cell
        PROVE  Array!CellValue(c)' = from.slots[Array!SlotOf(c)][c % PerSlot]
    <2>1. Array!CellValue(c)' = Array!EnsureSlot(Array!SlotOf(c))'[c % PerSlot]
      BY DEF Array!CellValue, Array!SlotOf
    <2> QED
      BY <1>2, <2>1, CellsHavePlaces
  <1>4. ASSUME NEW i \in 1 .. from.length
        PROVE  Array!CellValue(Array!RealIndex(i - 1))' =
                  LET cell == Array!Plus(from.start, i - 1) % MaxElements
                  IN  from.slots[Array!SlotOf(cell)][cell % PerSlot]
    <2> DEFINE cell == Array!Plus(from.start, i - 1) % MaxElements
    <2>1. Array!RealIndex(i - 1)' = cell
      BY <1>1 DEF Array!RealIndex, Array!Plus
    <2>2. cell \in Cell
      <3>1. from.start + (i - 1) \in Nat /\ MaxU32 + 1 \in Nat \ {0} /\ MaxElements \in Nat \ {0}
        BY ArrayAssumption DEF ArrayAssumption, Cell, Array!Storage, Array!Length
      <3>2. Array!Plus(from.start, i - 1) \in Nat
        BY <3>1, Division, Zenon DEF Array!Plus
      <3> QED
        BY <3>1, <3>2, Division, Zenon DEF Cell
    <2> HIDE DEF cell
    <2>3. Array!CellValue(Array!RealIndex(i - 1))' = Array!CellValue(cell)'
      BY <2>1, CellNext
    <2>4. Array!CellValue(cell)' = from.slots[Array!SlotOf(cell)][cell % PerSlot]
      BY <1>3, <2>2
    <2> QED
      BY <2>3, <2>4 DEF cell
  <1>5. Array!View' = [i \in 1 .. from.length |-> Array!CellValue(Array!RealIndex(i - 1))']
    BY <1>1 DEF Array!View
  <1> QED
    BY <1>4, <1>5 DEF Array!Stored

\* What is stored depends on the storage alone.
LEMMA StoredStays ==
    /\ array' = array => Array!Stored(array)' = Array!Stored(array)
    /\ keptArray' = keptArray => Array!Stored(keptArray)' = Array!Stored(keptArray)
    /\ array' = keptArray => Array!Stored(array)' = Array!Stored(keptArray)
    /\ keptArray' = array => Array!Stored(keptArray)' = Array!Stored(array)
  BY DEF Array!Stored, Array!Plus, Array!SlotOf

\* A call that only changes the sequence.
LEMMA ChangeOnly ==
    ASSUME array' = array, keptArray' = keptArray, NEW s, Array!View' = s
    PROVE  Array!Sequence!Change(s)
  BY StoredStays DEF Array!Sequence!Change

\* What set does.
LEMMA SetIsAssign ==
    ASSUME Plain, NEW i \in Array!Index, NEW v \in Element, Array!Set(i, v)
    PROVE  /\ i \in 0 .. (arrayLength - 1) => Array!View' = [Array!View EXCEPT ![i + 1] = v]
           /\ Array!Sequence!Assign \/ UNCHANGED Array!Sequence!svars
  <1>1. i \in Cell /\ i \in Nat /\ arrayLength \in Nat
    BY PlainIndexes DEF Array!Index, Cell
  <1>2. /\ i + 1 \in 1 .. arrayLength => Array!View' = [Array!View EXCEPT ![i + 1] = v]
        /\ i + 1 \notin 1 .. arrayLength => Array!View' = Array!View
    BY <1>1, AssignView DEF Array!Set, Array!header, Array!cursor
  <1>3. UNCHANGED <<array, keptArray>>
    BY DEF Array!Set
  <1>4. DOMAIN Array!View = 1 .. arrayLength
    BY DEF Array!View
  <1>5. CASE i + 1 \in 1 .. arrayLength
    <2>1. Array!Sequence!Change([Array!View EXCEPT ![i + 1] = v])
      BY <1>2, <1>3, <1>5, ChangeOnly
    <2>2. Array!Sequence!Assign
      BY <1>4, <1>5, <2>1 DEF Array!Sequence!Assign
    <2> QED
      BY <1>2, <1>5, <2>2
  <1>6. CASE i + 1 \notin 1 .. arrayLength
    <2>1. UNCHANGED Array!Sequence!svars
      BY <1>2, <1>3, <1>6, StoredStays DEF Array!Sequence!svars
    <2>2. i \notin 0 .. (arrayLength - 1)
      BY <1>1, <1>6
    <2> QED
      BY <2>1, <2>2
  <1> QED
    BY <1>5, <1>6

\* What delete does.
LEMMA DeleteIsAssign ==
    ASSUME Plain, NEW i \in Array!Index, Array!Delete(i)
    PROVE  /\ i \in 0 .. (arrayLength - 1) =>
                 Array!View' = [Array!View EXCEPT ![i + 1] = ZeroElement]
           /\ Array!Sequence!Assign \/ UNCHANGED Array!Sequence!svars
  <1>1. i \in Cell /\ i \in Nat /\ arrayLength \in Nat /\ ZeroElement \in Element
    BY PlainIndexes, ArrayAssumption DEF ArrayAssumption, Array!Index, Cell
  <1>2. /\ i + 1 \in 1 .. arrayLength =>
              Array!View' = [Array!View EXCEPT ![i + 1] = ZeroElement]
        /\ i + 1 \notin 1 .. arrayLength => Array!View' = Array!View
    BY <1>1, AssignView DEF Array!Delete, Array!header, Array!cursor
  <1>3. UNCHANGED <<array, keptArray>>
    BY DEF Array!Delete
  <1>4. DOMAIN Array!View = 1 .. arrayLength
    BY DEF Array!View
  <1>5. CASE i + 1 \in 1 .. arrayLength
    <2>1. Array!Sequence!Change([Array!View EXCEPT ![i + 1] = ZeroElement])
      BY <1>2, <1>3, <1>5, ChangeOnly
    <2>2. Array!Sequence!Assign
      BY <1>1, <1>4, <1>5, <2>1 DEF Array!Sequence!Assign
    <2> QED
      BY <1>2, <1>5, <2>2
  <1>6. CASE i + 1 \notin 1 .. arrayLength
    <2>1. UNCHANGED Array!Sequence!svars
      BY <1>2, <1>3, <1>6, StoredStays DEF Array!Sequence!svars
    <2>2. i \notin 0 .. (arrayLength - 1)
      BY <1>1, <1>6
    <2> QED
      BY <2>1, <2>2
  <1> QED
    BY <1>5, <1>6

\* What push does.
LEMMA PushIsInsert ==
    ASSUME Plain, NEW v \in Element, Array!Push(v, FALSE)
    PROVE  Array!View' = Append(Array!View, v) /\ Array!Sequence!Insert
  <1>1. Array!View' = Append(Array!View, v)
    BY AppendView DEF Array!Push, Array!cursor
  <1>2. Len(Array!View) < MaxElements
    BY Views, PlainIndexes DEF Array!Push, Plain
  <1>3. Array!Sequence!Change(Append(Array!View, v))
    BY <1>1, ChangeOnly DEF Array!Push
  <1> QED
    BY <1>1, <1>2, <1>3 DEF Array!Sequence!Insert

\* What shift does.
LEMMA ShiftIsDropFirst ==
    ASSUME Plain, Array!Shift
    PROVE  Array!View' = Tail(Array!View) /\ Array!Sequence!DropFirst
  <1>1. Array!View' = Tail(Array!View) /\ Array!View # <<>>
    BY TailView DEF Array!Shift, Array!cursor
  <1>2. Array!Sequence!Change(Tail(Array!View))
    BY <1>1, ChangeOnly DEF Array!Shift
  <1> QED
    BY <1>1, <1>2 DEF Array!Sequence!DropFirst

\* Every call is one of the sequence.
LEMMA ArrayRefines ==
    ASSUME Plain, Array!Next
    PROVE  Array!Sequence!Next \/ UNCHANGED Array!Sequence!svars
  <1>0. /\ MemoryInv /\ StorageInv /\ ringLength = MaxElements /\ arrayLength \in Nat
        /\ ArrayInv /\ ~rawArray
    BY PlainIndexes DEF Plain
  <1> USE DEF Array!cursor, Array!header, Array!memory
  <1>1. ASSUME NEW i \in Array!Index, Array!Get(i) PROVE UNCHANGED Array!Sequence!svars
    <2>1. Array!RealIndex(i) \in Cell
      BY PlainIndexes DEF Array!Index, Cell
    <2>2. \A c \in Cell : Array!CellValue(c)' = Array!CellValue(c)
      BY <1>0, <1>1, <2>1, ReadKeepsCells DEF Array!Get
    <2>3. Array!View' = Array!View
      BY <1>1, <2>2, ViewStays DEF Array!Get
    <2> QED
      BY <1>1, <2>3, StoredStays DEF Array!Get, Array!Sequence!svars
  <1>2. ASSUME Array!GetNext PROVE UNCHANGED Array!Sequence!svars
    <2>1. nextOffset \in Cell
      BY <1>0, <1>2, ArrayAssumption
      DEF ArrayAssumption, ArrayInv, CursorInv, Array!GetNext, Array!Length, Cell
    <2>2. \A c \in Cell : Array!CellValue(c)' = Array!CellValue(c)
      BY <1>0, <1>2, <2>1, PlainIndexes, ReadKeepsCells DEF Array!GetNext
    <2>3. Array!View' = Array!View
      BY <1>2, <2>2, ViewStays DEF Array!GetNext
    <2> QED
      BY <1>2, <2>3, StoredStays DEF Array!GetNext, Array!Sequence!svars
  <1>3. ASSUME NEW i \in Array!Index, NEW v \in Element, Array!Set(i, v)
        PROVE  Array!Sequence!Assign \/ UNCHANGED Array!Sequence!svars
    BY <1>3, SetIsAssign
  <1>4. ASSUME NEW v \in Element, NEW isPhysical \in BOOLEAN, Array!Push(v, isPhysical)
        PROVE  Array!Sequence!Insert
    <2>1. isPhysical = FALSE
      BY <1>0, <1>4 DEF Array!Push
    <2> QED
      BY <1>4, <2>1, PushIsInsert
  <1>5. ASSUME Array!Shift PROVE Array!Sequence!DropFirst
    BY <1>5, ShiftIsDropFirst
  <1>6. ASSUME NEW i \in Array!Index, Array!Delete(i)
        PROVE  Array!Sequence!Assign \/ UNCHANGED Array!Sequence!svars
    BY <1>6, DeleteIsAssign
  <1>7. ASSUME Array!RemoveItemFromLength PROVE Array!Sequence!DropLast
    <2>1. \A c \in Cell : Array!CellValue(c)' = Array!CellValue(c)
      BY <1>7, CellsStay DEF Array!RemoveItemFromLength
    <2>2. Array!View' = Array!Sequence!Front(Array!View) /\ Array!View # <<>>
      BY <1>7, <2>1, FrontView DEF Array!RemoveItemFromLength
    <2>3. Array!Sequence!Change(Array!Sequence!Front(Array!View))
      BY <1>7, <2>2, ChangeOnly DEF Array!RemoveItemFromLength
    <2> QED
      BY <2>2, <2>3 DEF Array!Sequence!DropLast
  <1>8. ASSUME Array!DeleteLast PROVE Array!Sequence!DropLast
    <2>1. Array!RealIndex(arrayLength - 1) \in Cell
      <3>1. arrayLength - 1 \in 0 .. arrayLength - 1
        BY <1>0, <1>8 DEF Array!DeleteLast
      <3> QED
        BY <3>1, PlainIndexes
    <2>2. \A c \in Cell : Array!CellValue(c)' =
             IF c = Array!RealIndex(arrayLength - 1) THEN ZeroElement ELSE Array!CellValue(c)
      BY <1>0, <1>8, <2>1, ArrayAssumption, WriteChangesOneCell
      DEF Array!DeleteLast, ArrayAssumption
    <2>3. Array!View' = Array!Sequence!Front(Array!View) /\ Array!View # <<>>
      BY <1>8, <2>2, FrontView DEF Array!DeleteLast
    <2>4. Array!Sequence!Change(Array!Sequence!Front(Array!View))
      BY <1>8, <2>3, ChangeOnly DEF Array!DeleteLast
    <2> QED
      BY <2>3, <2>4 DEF Array!Sequence!DropLast
  <1>9. ASSUME Array!Save PROVE Array!Sequence!Save
    <2>1. Array!Stored(array)' = Array!View /\ Array!View' = Array!View
      BY <1>9, SaveView
    <2>2. Array!Stored(keptArray)' = Array!Stored(keptArray)
      BY <1>9, StoredStays DEF Array!Save
    <2> QED
      BY <2>1, <2>2 DEF Array!Sequence!Save
  <1>10. ASSUME Array!Forget, array'.length = 0, keptArray' = keptArray
         PROVE  Array!Sequence!Clear
    <2>1. Array!View' = <<>>
      BY <1>10 DEF Array!View, Array!Forget
    <2>2. Array!Stored(array)' = <<>>
      BY <1>10 DEF Array!Stored
    <2> QED
      BY <1>10, <2>1, <2>2, StoredStays DEF Array!Sequence!Clear
  <1>11. ASSUME Array!DeleteAll PROVE Array!Sequence!Clear
    BY <1>10, <1>11 DEF Array!DeleteAll
  <1>12. ASSUME Array!Reset PROVE Array!Sequence!Clear
    BY <1>0, <1>10, <1>12 DEF Array!Reset, StorageInv, Array!Storage
  <1>13. ASSUME Array!Commit PROVE Array!Sequence!Commit
    <2>1. /\ Array!Load(array) /\ array' = array /\ keptArray' = array
      BY <1>13 DEF Array!Commit
    <2>2. Array!View' = Array!Stored(array)
      BY <1>0, <2>1, LoadView DEF StorageInv
    <2> QED
      BY <2>1, <2>2, StoredStays DEF Array!Sequence!Commit
  <1>14. ASSUME Array!Abort PROVE Array!Sequence!Abort
    <2>1. /\ Array!Load(keptArray) /\ array' = keptArray /\ keptArray' = keptArray
      BY <1>14 DEF Array!Abort
    <2>2. Array!View' = Array!Stored(keptArray)
      BY <1>0, <2>1, LoadView DEF StorageInv
    <2> QED
      BY <2>1, <2>2, StoredStays DEF Array!Sequence!Abort
  <1>15. /\ \A i \in Array!Index : ~Array!SetStartingIndex(i)
         /\ \A i \in Array!Index, v \in Element : ~Array!SetPhysical(i, v)
         /\ ~Array!IncrementStartingIndex /\ ~Array!ApplyNextOffsetToStartingIndex
         /\ \A m \in 1 .. MaxElements : ~Array!SetMaxLength(m)
    BY <1>0 DEF Array!SetStartingIndex, Array!SetPhysical, Array!IncrementStartingIndex,
                Array!ApplyNextOffsetToStartingIndex, Array!SetMaxLength, Array!RawCall
  <1> QED
    BY <1>1, <1>2, <1>3, <1>4, <1>5, <1>6, <1>7, <1>8, <1>9, <1>11, <1>12, <1>13, <1>14, <1>15
    DEF Array!Next, Array!Sequence!Next

\* Calls change the element they name and no other.
LEMMA CallsExact ==
    ASSUME Plain
    PROVE  Array!CallsAreExact
  <1>1. ASSUME NEW i \in 0 .. (arrayLength - 1) PROVE i \in Array!Index
    BY <1>1, PlainIndexes DEF Array!Index, Cell
  <1> QED
    BY <1>1, SetIsAssign, DeleteIsAssign, PushIsInsert, ShiftIsDropFirst
    DEF Array!CallsAreExact

\* Used without the raw methods, a packed array in a ring of at most 2^31 elements is a
\* sequence that a transaction changes element by element, and that lasts once it is saved
\* and the transaction succeeds (every method of StoredPackedArray.ts).
THEOREM ArraysAreSequences == RingFits => (ComponentsSpec => ArrayImplementsSavedSequence)
  <1> SUFFICES ASSUME RingFits PROVE ComponentsSpec => ArrayImplementsSavedSequence
    OBVIOUS
  <1>1. ComponentsInit => Array!Sequence!Init
    BY DEF ComponentsInit, Array!Init, Array!Sequence!Init, Array!View, Array!Stored
  <1>2. ArrayInv /\ [ComponentsNext]_vs
           => [~rawArray => [Array!Sequence!Next]_(Array!Sequence!svars)
                            /\ Array!CallsAreExact]_(Array!vars)
    <2> SUFFICES ASSUME ArrayInv, [Array!Next]_arrayVars, ~rawArray, ~UNCHANGED Array!vars
                 PROVE  /\ [Array!Sequence!Next]_(Array!Sequence!svars)
                        /\ Array!CallsAreExact
      BY PartsStep
    <2>1. Plain
      BY DEF Plain
    <2>2. Array!Next
      BY DEF arrayVars, Array!vars, Array!memory, Array!header, Array!cursor
    <2> QED
      BY <2>1, <2>2, ArrayRefines, CallsExact
  <1>3. ComponentsSpec => Array!Sequence!Init /\ [][~rawArray =>
              [Array!Sequence!Next]_(Array!Sequence!svars) /\ Array!CallsAreExact]_(Array!vars)
    BY <1>1, <1>2, ArrayInvHolds, PTL DEF ComponentsSpec, vs
  <1> QED
    BY <1>3 DEF ArrayImplementsSavedSequence, Array!ImplementsSavedSequence
-----------------------------------------------------------------------------
(* Boolean arrays: slots and buffers *)

BitCell == 0 .. MaxBits - 1

\* What a slot holds for this transaction: its cached buffer, else what is stored.
BitContent(s) == IF cached[s] # 0 THEN heap[cached[s]] ELSE host.slots[s]

BitOf(c) == BitContent(Bits!SlotOf(c))[c % BitsPerSlot]

\* Two slots never share a buffer, and the array's buffers are those of the cache.
BuffersInv ==
    /\ heap \in Seq(Bits!Bits)
    /\ cached \in [Bits!Slot -> 0 .. Len(heap)] /\ bitValues \in [Bits!Slot -> 0 .. Len(heap)]
    /\ changed \subseteq {s \in Bits!Slot : bitValues[s] # 0}
    /\ \A s \in Bits!Slot : bitValues[s] # 0 => cached[s] = bitValues[s]
    /\ \A s, t \in Bits!Slot : s # t /\ cached[s] # 0 => cached[s] # cached[t]

\* The storage holds slots and a header.
BitStorageInv == host \in Bits!Storage /\ keptHost \in Bits!Storage

\* Every cell has a slot and a place in it, and no two cells have the same.
LEMMA BitCells ==
    \A c \in BitCell :
        /\ Bits!SlotOf(c) \in Bits!Slot /\ c % BitsPerSlot \in Bits!Bit
        /\ \A d \in BitCell :
              Bits!SlotOf(c) = Bits!SlotOf(d) /\ c % BitsPerSlot = d % BitsPerSlot => c = d
  BY BitArrayAssumption, PackedCells
  DEF BitCell, BitArrayAssumption, Bits!SlotOf, Bits!Slot, Bits!Bit

\* Loading a slot finds what it holds in a buffer that no other slot has.
LEMMA LoadedSlot ==
    ASSUME BuffersInv, BitStorageInv, NEW s \in Bits!Slot
    PROVE  /\ Bits!LoadedHeap(s) \in Seq(Bits!Bits)
           /\ Bits!BufferOf(s) \in 1 .. Len(Bits!LoadedHeap(s))
           /\ Bits!LoadedHeap(s)[Bits!BufferOf(s)] = BitContent(s)
           /\ BitContent(s) \in Bits!Bits
           /\ Len(heap) <= Len(Bits!LoadedHeap(s))
           /\ \A k \in 1 .. Len(heap) : Bits!LoadedHeap(s)[k] = heap[k]
           /\ \A t \in Bits!Slot : t # s => cached[t] # Bits!BufferOf(s)
           /\ cached[s] # 0 => Bits!BufferOf(s) = cached[s]
           /\ Bits!Fresh(s) <=> cached[s] = 0
  <1>1. /\ heap \in Seq(Bits!Bits) /\ host.slots[s] \in Bits!Bits /\ Len(heap) \in Nat
        /\ cached[s] \in 0 .. Len(heap) /\ bitValues[s] \in 0 .. Len(heap)
        /\ bitValues[s] # 0 => cached[s] = bitValues[s]
        /\ \A t \in Bits!Slot : cached[t] \in 0 .. Len(heap)
        /\ \A t \in Bits!Slot : t # s /\ cached[s] # 0 => cached[s] # cached[t]
    BY DEF BuffersInv, BitStorageInv, Bits!Storage
  <1> HIDE DEF Bits!Bits
  <1>2. CASE cached[s] = 0
    <2>1. Bits!Fresh(s) /\ Bits!LoadedHeap(s) = Append(heap, host.slots[s])
          /\ Bits!BufferOf(s) = Len(heap) + 1 /\ BitContent(s) = host.slots[s]
      BY <1>1, <1>2 DEF Bits!Fresh, Bits!LoadedHeap, Bits!BufferOf, BitContent, Bits!Nowhere
    <2> QED
      BY <1>1, <1>2, <2>1
  <1>3. CASE cached[s] # 0
    <2>1. ~Bits!Fresh(s) /\ Bits!LoadedHeap(s) = heap
          /\ Bits!BufferOf(s) = cached[s] /\ BitContent(s) = heap[cached[s]]
      BY <1>1, <1>3 DEF Bits!Fresh, Bits!LoadedHeap, Bits!BufferOf, BitContent, Bits!Nowhere
    <2> QED
      BY <1>1, <1>3, <2>1
  <1> QED
    BY <1>2, <1>3

\* A bit that is read is the one its slot holds.
LEMMA Reads ==
    BuffersInv /\ BitStorageInv => \A c \in BitCell : Bits!BitAt(c) = BitOf(c)
  BY BitCells, LoadedSlot DEF Bits!BitAt, BitOf

\* Storing a buffer for a slot changes what that slot holds and no other.
LEMMA StoreSlot ==
    ASSUME BuffersInv, BitStorageInv, host' = host, NEW s \in Bits!Slot, Bits!Load(s),
           NEW data \in Bits!Bits, changed' \subseteq changed \cup {s},
           heap' = [Bits!LoadedHeap(s) EXCEPT ![Bits!BufferOf(s)] = data]
    PROVE  /\ BuffersInv'
           /\ \A t \in Bits!Slot : BitContent(t)' = IF t = s THEN data ELSE BitContent(t)
  <1> DEFINE h == Bits!LoadedHeap(s)
             b == Bits!BufferOf(s)
  <1>1. /\ h \in Seq(Bits!Bits)
        /\ b \in 1 .. Len(h)
        /\ Len(heap) <= Len(h)
        /\ \A k \in 1 .. Len(heap) : h[k] = heap[k]
        /\ \A t \in Bits!Slot : t # s => cached[t] # b
        /\ cached[s] # 0 => b = cached[s]
        /\ Bits!Fresh(s) <=> cached[s] = 0
    BY LoadedSlot
  <1>2. /\ heap \in Seq(Bits!Bits) /\ Len(heap) \in Nat
        /\ cached \in [Bits!Slot -> 0 .. Len(heap)] /\ bitValues \in [Bits!Slot -> 0 .. Len(heap)]
        /\ changed \subseteq {t \in Bits!Slot : bitValues[t] # 0}
        /\ \A t \in Bits!Slot : bitValues[t] # 0 => cached[t] = bitValues[t]
        /\ \A r, t \in Bits!Slot : r # t /\ cached[r] # 0 => cached[r] # cached[t]
    BY DEF BuffersInv
  <1> HIDE DEF h, b
  <1>3. heap' = [h EXCEPT ![b] = data] /\ bitValues' = [bitValues EXCEPT ![s] = b]
        /\ cached' = [cached EXCEPT ![s] = b]
    <2>1. cached[s] # 0 => [cached EXCEPT ![s] = b] = cached
      BY <1>1, <1>2
    <2> QED
      BY <1>1, <1>2 DEF Bits!Load, h, b
  <1>4. heap' \in Seq(Bits!Bits) /\ Len(heap') = Len(h) /\ heap'[b] = data
        /\ \A k \in 1 .. Len(h) : k # b => heap'[k] = h[k]
    <2> DEFINE new == [h EXCEPT ![b] = data]
    <2>1. /\ new \in Seq(Bits!Bits) /\ Len(new) = Len(h)
          /\ \A j \in 1 .. Len(h) : new[j] = IF j = b THEN data ELSE h[j]
      BY <1>1, ExceptSeq
    <2> HIDE DEF new
    <2>2. heap' = new
      BY <1>3 DEF new
    <2> QED
      BY <1>1, <2>1, <2>2
  <1>5. BuffersInv'
    <2>1. /\ cached' \in [Bits!Slot -> 0 .. Len(heap')]
          /\ bitValues' \in [Bits!Slot -> 0 .. Len(heap')]
      BY <1>1, <1>2, <1>3, <1>4
    <2>2. changed' \subseteq {t \in Bits!Slot : bitValues'[t] # 0}
      BY <1>1, <1>2, <1>3
    <2>3. \A t \in Bits!Slot : bitValues'[t] # 0 => cached'[t] = bitValues'[t]
      BY <1>1, <1>2, <1>3
    <2>4. \A r, t \in Bits!Slot : r # t /\ cached'[r] # 0 => cached'[r] # cached'[t]
      BY <1>1, <1>2, <1>3
    <2> QED
      BY <1>4, <2>1, <2>2, <2>3, <2>4 DEF BuffersInv
  <1>6. ASSUME NEW t \in Bits!Slot PROVE BitContent(t)' = IF t = s THEN data ELSE BitContent(t)
    BY <1>1, <1>2, <1>3, <1>4 DEF BitContent
  <1> QED
    BY <1>5, <1>6

\* Reading a bit loads its slot and changes none.
LEMMA ReadKeepsBits ==
    ASSUME BuffersInv, BitStorageInv, host' = host, NEW cell \in BitCell, Bits!Read(cell)
    PROVE  BuffersInv' /\ changed' = changed /\ \A c \in BitCell : BitOf(c)' = BitOf(c)
  <1> DEFINE s == Bits!SlotOf(cell)
             h == Bits!LoadedHeap(s)
             b == Bits!BufferOf(s)
  <1>1. s \in Bits!Slot /\ \A c \in BitCell : Bits!SlotOf(c) \in Bits!Slot
    BY BitCells
  <1>2. Bits!Load(s) /\ heap' = h /\ changed' = changed
    BY DEF Bits!Read
  <1> HIDE DEF s
  <1>3. h \in Seq(Bits!Bits) /\ b \in 1 .. Len(h) /\ h[b] = BitContent(s) /\ h[b] \in Bits!Bits
    BY <1>1, LoadedSlot
  <1>4. heap' = [h EXCEPT ![b] = h[b]]
    <2> HIDE DEF h, b
    <2> QED
      BY <1>2, <1>3
  <1>5. /\ BuffersInv'
        /\ \A t \in Bits!Slot : BitContent(t)' = IF t = s THEN h[b] ELSE BitContent(t)
    BY <1>1, <1>2, <1>3, <1>4, StoreSlot
  <1> HIDE DEF h, b
  <1>6. \A t \in Bits!Slot : BitContent(t)' = BitContent(t)
    BY <1>3, <1>5
  <1> QED
    BY <1>1, <1>2, <1>5, <1>6 DEF BitOf, Bits!SlotOf

\* Writing a bit changes it and no other.
LEMMA WriteChangesOneBit ==
    ASSUME BuffersInv, BitStorageInv, host' = host, NEW cell \in BitCell, NEW bit \in BOOLEAN,
           NEW mark, Bits!Write(cell, bit, mark)
    PROVE  /\ BuffersInv'
           /\ \A c \in BitCell : BitOf(c)' = IF c = cell THEN bit ELSE BitOf(c)
  <1> DEFINE s == Bits!SlotOf(cell)
             k == cell % BitsPerSlot
             h == Bits!LoadedHeap(s)
             b == Bits!BufferOf(s)
             new == [h[b] EXCEPT ![k] = bit]
  <1>1. s \in Bits!Slot /\ k \in Bits!Bit
    BY BitCells
  <1>2. /\ Bits!Load(s) /\ heap' = [h EXCEPT ![b][k] = bit]
        /\ changed' = IF mark THEN changed \cup {s} ELSE changed
    BY DEF Bits!Write
  <1> HIDE DEF s, k
  <1>3. h \in Seq(Bits!Bits) /\ b \in 1 .. Len(h) /\ h[b] = BitContent(s) /\ h[b] \in Bits!Bits
    BY <1>1, LoadedSlot
  <1>4. heap' = [h EXCEPT ![b] = new]
    BY <1>2
  <1> HIDE DEF h, b
  <1>5. /\ new \in Bits!Bits /\ new[k] = bit
        /\ \A j \in Bits!Bit : j # k => new[j] = BitContent(s)[j]
    BY <1>1, <1>3 DEF Bits!Bits
  <1> HIDE DEF new
  <1>6. changed' \subseteq changed \cup {s}
    BY <1>2
  <1>7. /\ BuffersInv'
        /\ \A t \in Bits!Slot : BitContent(t)' = IF t = s THEN new ELSE BitContent(t)
    BY <1>1, <1>2, <1>4, <1>5, <1>6, StoreSlot DEF h, b
  <1>8. ASSUME NEW c \in BitCell
        PROVE  BitOf(c)' = IF c = cell THEN bit ELSE BitOf(c)
    <2>1. /\ BitOf(c) = BitContent(Bits!SlotOf(c))[c % BitsPerSlot]
          /\ BitOf(c)' = BitContent(Bits!SlotOf(c))'[c % BitsPerSlot]
      BY DEF BitOf, Bits!SlotOf
    <2>2. Bits!SlotOf(c) \in Bits!Slot /\ c % BitsPerSlot \in Bits!Bit
      BY BitCells
    <2>3. CASE c = cell
      BY <1>5, <1>7, <2>1, <2>2, <2>3 DEF s, k
    <2>4. CASE c # cell /\ Bits!SlotOf(c) = s
      <3>1. c % BitsPerSlot # k
        BY <2>4, BitCells DEF s, k
      <3> QED
        BY <1>5, <1>7, <2>1, <2>2, <2>4, <3>1
    <2>5. CASE c # cell /\ Bits!SlotOf(c) # s
      BY <1>7, <2>1, <2>2, <2>5
    <2> QED
      BY <2>3, <2>4, <2>5
  <1> QED
    BY <1>7, <1>8

-----------------------------------------------------------------------------
(* The invariant of the boolean array *)

\* A bit of a stored slot.
StoredBit(st, c) == st.slots[Bits!SlotOf(c)][c % BitsPerSlot]

\* The rest of the type invariant.
BitHeaderInv ==
    /\ length \in 0 .. MaxBits /\ startIndex \in Nat /\ changedHeader \in BOOLEAN
    /\ nextItemOffset \in 0 .. MaxBits /\ maxLength \in 1 .. MaxBits
    /\ raw \in BOOLEAN /\ calls \in Nat

\* Without the raw methods the array starts at the first cell, and what is not marked as
\* changed is stored: the length, and every bit of the array whose slot is not marked.
SteadyInv ==
    /\ startIndex = 0 /\ host.start = 0 /\ keptHost.start = 0 /\ maxLength = MaxBits
    /\ ~changedHeader => length = host.length
    /\ \A c \in BitCell : c < length /\ Bits!SlotOf(c) \notin changed
                             => BitOf(c) = StoredBit(host, c)

BitsInv == BitStorageInv /\ BuffersInv /\ BitHeaderInv /\ (~raw => SteadyInv)

\* The type invariant of the model follows.
LEMMA BitsInvIsEnough == BitsInv => Bits!TypeOK
  BY DEF BitsInv, BitStorageInv, BuffersInv, BitHeaderInv, Bits!TypeOK, Bits!Nowhere

\* Every index below the length has a cell, and without the raw methods that of its number.
LEMMA BitIndexes ==
    ASSUME BitsInv
    PROVE  /\ \A i \in Nat : Bits!RealIndex(i) \in BitCell
           /\ ~raw => \A i \in BitCell : Bits!RealIndex(i) = i
           /\ length \in Nat /\ length <= MaxBits /\ \A i \in Nat : i < length => i \in BitCell
           /\ MaxBits \in Nat \ {0} /\ BitCell \subseteq Nat
  <1>1. /\ length \in Nat /\ length <= MaxBits /\ maxLength \in Nat \ {0} /\ maxLength <= MaxBits
        /\ startIndex \in Nat /\ MaxBits \in Nat \ {0} /\ BitCell = 0 .. MaxBits - 1
        /\ ~raw => startIndex = 0 /\ maxLength = MaxBits
    BY BitArrayAssumption DEF BitArrayAssumption, BitsInv, BitHeaderInv, SteadyInv, BitCell
  <1>2. ASSUME NEW i \in Nat PROVE Bits!RealIndex(i) \in BitCell
    <2>1. startIndex + i \in Nat
      BY <1>1
    <2>2. (startIndex + i) % maxLength \in 0 .. maxLength - 1
      BY <1>1, <2>1, Division, Zenon
    <2> QED
      BY <1>1, <2>2 DEF Bits!RealIndex
  <1>3. ASSUME ~raw, NEW i \in BitCell PROVE Bits!RealIndex(i) = i
    <2>1. i % MaxBits = i /\ startIndex + i = i
      BY <1>1, <1>3, OneTurn
    <2> QED
      BY <1>1, <1>3, <2>1, Zenon DEF Bits!RealIndex
  <1> QED
    BY <1>1, <1>2, <1>3

\* A new array is empty.
LEMMA InitBits == Bits!Init => BitsInv
  <1> SUFFICES ASSUME Bits!Init PROVE BitsInv
    OBVIOUS
  <1>1. MaxBits \in Nat \ {0} /\ BitCell \subseteq Nat
    BY BitArrayAssumption DEF BitArrayAssumption, BitCell
  <1>2. BitStorageInv
    BY <1>1 DEF Bits!Init, BitStorageInv, Bits!Storage, Bits!NoBits, Bits!Bits
  <1>3. BuffersInv
    BY DEF Bits!Init, BuffersInv, Bits!Nowhere
  <1>4. BitHeaderInv
    <2>1. raw \in BOOLEAN /\ changedHeader \in BOOLEAN
      BY Zenon DEF Bits!Init
    <2>2. /\ length \in 0 .. MaxBits /\ startIndex \in Nat /\ nextItemOffset \in 0 .. MaxBits
          /\ maxLength \in 1 .. MaxBits /\ calls \in Nat
      BY <1>1 DEF Bits!Init
    <2> QED
      BY <2>1, <2>2 DEF BitHeaderInv
  <1>5. SteadyInv
    BY <1>1 DEF Bits!Init, SteadyInv
  <1> QED
    BY <1>2, <1>3, <1>4, <1>5 DEF BitsInv

-----------------------------------------------------------------------------
(* The invariant of the boolean array is kept *)

\* Every bit that is read is one of the array's: true or false.
LEMMA BitsAreBoolean == BuffersInv /\ BitStorageInv => \A c \in BitCell : BitOf(c) \in BOOLEAN
  <1> SUFFICES ASSUME BuffersInv, BitStorageInv, NEW c \in BitCell PROVE BitOf(c) \in BOOLEAN
    OBVIOUS
  <1>1. BitContent(Bits!SlotOf(c)) \in Bits!Bits /\ c % BitsPerSlot \in Bits!Bit
    BY BitCells, LoadedSlot
  <1> QED
    BY <1>1 DEF BitOf, Bits!Bits

\* A bit that is written is marked, or is as it was: what is not marked is still stored.
LEMMA SteadyAfterWrite ==
    ASSUME BitsInv, NEW cell \in BitCell, NEW bit \in BOOLEAN, NEW mark,
           Bits!Write(cell, bit, mark), mark \/ bit = BitOf(cell),
           UNCHANGED <<host, keptHost, startIndex, maxLength, raw>>,
           \A c \in BitCell : c < length' => c < length \/ (c = cell /\ mark),
           \/ changedHeader'
           \/ length' = length /\ changedHeader' = changedHeader
    PROVE  BuffersInv' /\ BitStorageInv' /\ (~raw' => SteadyInv')
  <1>1. BuffersInv /\ BitStorageInv /\ (~raw => SteadyInv)
    BY DEF BitsInv
  <1>2. BuffersInv' /\ \A c \in BitCell : BitOf(c)' = IF c = cell THEN bit ELSE BitOf(c)
    BY <1>1, WriteChangesOneBit
  <1>3. changed \subseteq changed' /\ (mark => Bits!SlotOf(cell) \in changed')
    BY DEF Bits!Write
  <1>4. ASSUME ~raw, NEW c \in BitCell, c < length', Bits!SlotOf(c) \notin changed'
        PROVE  BitOf(c)' = StoredBit(host', c)
    <2>1. c < length /\ (c = cell => ~mark)
      BY <1>3, <1>4
    <2>2. BitOf(c) = StoredBit(host, c)
      BY <1>1, <1>3, <1>4, <2>1 DEF SteadyInv
    <2>3. BitOf(c)' = BitOf(c)
      BY <1>2, <2>1
    <2> QED
      BY <2>2, <2>3
  <1>5. ASSUME ~raw PROVE SteadyInv'
    <2>1. ~changedHeader' => length' = host'.length
      BY <1>1, <1>5 DEF SteadyInv
    <2>2. startIndex' = 0 /\ host'.start = 0 /\ keptHost'.start = 0 /\ maxLength' = MaxBits
      BY <1>1, <1>5 DEF SteadyInv
    <2>3. \A c \in BitCell : c < length' /\ Bits!SlotOf(c) \notin changed'
                                => BitOf(c)' = StoredBit(host, c)'
      BY <1>4, <1>5 DEF StoredBit, Bits!SlotOf
    <2> QED
      BY <2>1, <2>2, <2>3 DEF SteadyInv, Bits!SlotOf
  <1>6. BitStorageInv'
    BY <1>1 DEF BitStorageInv
  <1> QED
    BY <1>2, <1>5, <1>6

\* Nor does a read change anything.
LEMMA SteadyAfterRead ==
    ASSUME BitsInv, NEW cell \in BitCell, Bits!Read(cell),
           UNCHANGED <<host, keptHost, length, startIndex, changedHeader, maxLength, raw>>
    PROVE  BuffersInv' /\ BitStorageInv' /\ (~raw' => SteadyInv')
  <1>1. BuffersInv /\ BitStorageInv /\ (~raw => SteadyInv)
    BY DEF BitsInv
  <1>2. BuffersInv' /\ changed' = changed /\ \A c \in BitCell : BitOf(c)' = BitOf(c)
    BY <1>1, ReadKeepsBits
  <1>3. BitStorageInv'
    BY <1>1 DEF BitStorageInv
  <1>4. ~raw' => SteadyInv'
    BY <1>1, <1>2 DEF SteadyInv, StoredBit, Bits!SlotOf
  <1> QED
    BY <1>2, <1>3, <1>4

\* While the buffers stay, so do the bits; the array may get shorter, and the raw methods
\* may move the header.
LEMMA SteadyAfterHeader ==
    ASSUME BitsInv, UNCHANGED <<host, keptHost, heap, cached, bitValues, changed, raw>>,
           \/ raw
           \/ /\ UNCHANGED <<startIndex, maxLength>> /\ changedHeader'
              /\ length' \in Nat /\ length' <= length
    PROVE  BuffersInv' /\ BitStorageInv' /\ (~raw' => SteadyInv')
  <1>1. BuffersInv /\ BitStorageInv /\ (~raw => SteadyInv)
    BY DEF BitsInv
  <1>2. \A c \in BitCell : BitOf(c)' = BitOf(c)
    BY DEF BitOf, BitContent, Bits!SlotOf
  <1>3. BitStorageInv' /\ BuffersInv'
    BY <1>1 DEF BitStorageInv, BuffersInv
  <1>4. ASSUME ~raw' PROVE SteadyInv'
    <2>1. \A c \in BitCell : c < length' => c < length
      BY <1>4, BitIndexes
    <2> QED
      BY <1>1, <1>2, <1>4, <2>1 DEF SteadyInv, StoredBit, Bits!SlotOf
  <1> QED
    BY <1>3, <1>4

\* save writes the marked slots, which are the buffers that the cache has anyway.
LEMMA SaveBits ==
    ASSUME BitsInv, Bits!Save
    PROVE  /\ BuffersInv' /\ BitStorageInv'
           /\ \A c \in BitCell :
                 /\ BitOf(c)' = BitOf(c)
                 /\ StoredBit(host', c) = IF Bits!SlotOf(c) \in changed THEN BitOf(c)
                                          ELSE StoredBit(host, c)
  <1>1. BuffersInv /\ BitStorageInv
    BY DEF BitsInv
  <1>2. /\ cached' = [s \in Bits!Slot |-> IF s \in changed THEN bitValues[s] ELSE cached[s]]
        /\ UNCHANGED <<keptHost, heap, bitValues>> /\ changed' = {}
    BY DEF Bits!Save
  <1>3. ASSUME NEW s \in changed PROVE bitValues[s] = cached[s] /\ cached[s] # 0 /\ s \in Bits!Slot
    BY <1>1 DEF BuffersInv
  <1>4. cached' = cached
    BY <1>1, <1>2, <1>3 DEF BuffersInv
  <1>5. BuffersInv'
    BY <1>1, <1>2, <1>4 DEF BuffersInv
  <1>6. \A s \in Bits!Slot : host'.slots[s] = IF s \in changed THEN BitContent(s) ELSE host.slots[s]
    BY <1>3 DEF Bits!Save, BitContent
  <1>7. ASSUME NEW s \in Bits!Slot PROVE BitContent(s)' = BitContent(s)
    BY <1>2, <1>3, <1>4, <1>6 DEF BitContent
  <1>8. BitStorageInv'
    <2>1. host'.slots \in [Bits!Slot -> Bits!Bits]
      <3>1. \A s \in Bits!Slot : host'.slots[s] \in Bits!Bits
        BY <1>1, <1>6, LoadedSlot DEF BitStorageInv, Bits!Storage
      <3> QED
        BY <3>1 DEF Bits!Save
    <2>2. host'.length \in 0 .. MaxBits /\ host'.start \in Nat
      BY <1>1 DEF Bits!Save, BitsInv, BitStorageInv, BitHeaderInv, Bits!Storage
    <2> QED
      BY <1>1, <1>2, <2>1, <2>2 DEF BitStorageInv, Bits!Storage, Bits!Save
  <1>9. ASSUME NEW c \in BitCell
        PROVE  /\ BitOf(c)' = BitOf(c)
               /\ StoredBit(host', c) = IF Bits!SlotOf(c) \in changed THEN BitOf(c)
                                        ELSE StoredBit(host, c)
    <2>1. Bits!SlotOf(c) \in Bits!Slot
      BY BitCells
    <2> QED
      BY <1>6, <1>7, <2>1 DEF BitOf, StoredBit, Bits!SlotOf
  <1> QED
    BY <1>5, <1>8, <1>9

\* What deleteAll does to the storage and to the one buffer it makes.
LEMMA DeleteAllBits ==
    ASSUME BitsInv, Bits!DeleteAll
    PROVE  BuffersInv' /\ BitStorageInv' /\ (~raw' => SteadyInv')
  <1>1. BuffersInv /\ BitStorageInv /\ (~raw => SteadyInv) /\ MaxBits \in Nat
    BY BitIndexes DEF BitsInv
  <1>2. /\ heap' = Append(heap, Bits!NoBits) /\ bitValues' = [s \in Bits!Slot |-> 0]
        /\ changed' = {} /\ length' = 0 /\ startIndex' = 0 /\ changedHeader' = FALSE
        /\ cached' = [s \in Bits!Slot |-> IF bitValues[s] # 0 THEN Len(heap) + 1 ELSE cached[s]]
        /\ UNCHANGED <<keptHost, maxLength, raw>> /\ host'.length = 0 /\ host'.start = 0
        /\ \A s, t \in Bits!Slot : bitValues[s] # 0 /\ bitValues[t] # 0 => s = t
    BY DEF Bits!DeleteAll, Bits!Empty, Bits!Nowhere, Bits!cursor, Bits!Call, Bits!Loaded
  <1>3. Bits!NoBits \in Bits!Bits
    BY DEF Bits!NoBits, Bits!Bits
  <1>4. BitStorageInv'
    BY <1>1, <1>3 DEF Bits!DeleteAll, BitStorageInv, Bits!Storage
  <1>5. BuffersInv'
    <2>1. /\ heap \in Seq(Bits!Bits) /\ Len(heap) \in Nat
          /\ heap' \in Seq(Bits!Bits) /\ Len(heap') = Len(heap) + 1
      <3> HIDE DEF Bits!Bits, Bits!NoBits
      <3> QED
        BY <1>1, <1>2, <1>3 DEF BuffersInv
    <2>2. \A s \in Bits!Slot : cached[s] \in 0 .. Len(heap) /\ bitValues[s] \in 0 .. Len(heap)
      BY <1>1 DEF BuffersInv
    <2>3. /\ cached' \in [Bits!Slot -> 0 .. Len(heap')]
          /\ bitValues' \in [Bits!Slot -> 0 .. Len(heap')]
      BY <1>2, <2>1, <2>2
    <2>4. \A s, t \in Bits!Slot : s # t /\ cached'[s] # 0 => cached'[s] # cached'[t]
      BY <1>1, <1>2, <2>1, <2>2 DEF BuffersInv
    <2> QED
      BY <1>2, <2>1, <2>3, <2>4 DEF BuffersInv
  <1>6. ~raw' => SteadyInv'
    BY <1>1, <1>2, BitArrayAssumption DEF BitArrayAssumption, SteadyInv, BitCell
  <1> QED
    BY <1>4, <1>5, <1>6

\* reset leaves the buffers where they are.
LEMMA ResetBits ==
    ASSUME BitsInv, Bits!Reset
    PROVE  BuffersInv' /\ BitStorageInv' /\ (~raw' => SteadyInv')
  <1>1. BuffersInv /\ BitStorageInv /\ (~raw => SteadyInv) /\ MaxBits \in Nat
    BY BitIndexes DEF BitsInv
  <1>2. /\ bitValues' = [s \in Bits!Slot |-> 0] /\ UNCHANGED <<keptHost, heap, cached>>
        /\ changed' = {} /\ length' = 0 /\ startIndex' = 0 /\ changedHeader' = FALSE
        /\ UNCHANGED <<maxLength, raw>> /\ host' = [host EXCEPT !.length = 0, !.start = 0]
    BY DEF Bits!Reset, Bits!Empty, Bits!Nowhere, Bits!cursor, Bits!Call
  <1>3. host' \in Bits!Storage /\ host'.length = 0 /\ host'.start = 0
    <2>1. host \in Bits!Storage /\ 0 \in 0 .. MaxBits /\ 0 \in Nat
      BY <1>1 DEF BitStorageInv
    <2> QED
      BY <1>2, <2>1 DEF Bits!Storage
  <1>4. BuffersInv'
    BY <1>1, <1>2 DEF BuffersInv
  <1>5. ~raw' => SteadyInv'
    BY <1>1, <1>2, <1>3, BitArrayAssumption DEF BitArrayAssumption, SteadyInv, BitCell
  <1> QED
    BY <1>1, <1>2, <1>3, <1>4, <1>5 DEF BitStorageInv

\* A new instance finds what is stored.
LEMMA RestartBits ==
    ASSUME BitsInv, Bits!Restart(host'), UNCHANGED raw,
           host' \in {host, keptHost}, keptHost' \in {host, keptHost}
    PROVE  /\ BuffersInv' /\ BitStorageInv' /\ (~raw' => SteadyInv')
           /\ \A c \in BitCell : BitOf(c)' = StoredBit(host', c)
  <1>1. BitStorageInv /\ (~raw => SteadyInv)
    BY DEF BitsInv
  <1>2. /\ heap' = <<>> /\ cached' = [s \in Bits!Slot |-> 0]
        /\ bitValues' = [s \in Bits!Slot |-> 0] /\ changed' = {}
        /\ length' = host'.length /\ startIndex' = host'.start /\ maxLength' = MaxBits
    BY DEF Bits!Restart, Bits!Nowhere
  <1>3. BitStorageInv' /\ BuffersInv'
    BY <1>1, <1>2 DEF BitStorageInv, BuffersInv
  <1>4. ASSUME NEW c \in BitCell PROVE BitOf(c)' = StoredBit(host', c)
    <2>1. Bits!SlotOf(c) \in Bits!Slot
      BY BitCells
    <2> QED
      BY <1>2, <2>1 DEF BitOf, BitContent, StoredBit, Bits!SlotOf
  <1>5. ASSUME ~raw' PROVE SteadyInv'
    <2>1. /\ startIndex' = 0 /\ host'.start = 0 /\ keptHost'.start = 0 /\ maxLength' = MaxBits
          /\ length' = host'.length
      BY <1>1, <1>2, <1>5 DEF SteadyInv
    <2>2. \A c \in BitCell : BitOf(c)' = StoredBit(host, c)'
      BY <1>4 DEF StoredBit, Bits!SlotOf
    <2> QED
      BY <2>1, <2>2 DEF SteadyInv
  <1> QED
    BY <1>3, <1>4, <1>5

\* Every call keeps the invariant.
LEMMA StepBits == BitsInv /\ [Bits!Next]_bitVars => BitsInv'
  <1> SUFFICES ASSUME BitsInv, [Bits!Next]_bitVars PROVE BitsInv'
    OBVIOUS
  <1> DEFINE Parts == BuffersInv' /\ BitStorageInv' /\ (~raw' => SteadyInv')
  <1>0. /\ BuffersInv /\ BitStorageInv /\ BitHeaderInv /\ (~raw => SteadyInv)
        /\ length \in Nat /\ length <= MaxBits /\ nextItemOffset \in Nat /\ startIndex \in Nat
        /\ MaxBits \in Nat /\ maxLength \in Nat /\ maxLength <= MaxBits /\ maxLength > 0
        /\ calls \in Nat /\ raw \in BOOLEAN /\ changedHeader \in BOOLEAN
    <2>1. /\ BuffersInv /\ BitStorageInv /\ BitHeaderInv /\ (~raw => SteadyInv)
      BY DEF BitsInv
    <2>2. raw \in BOOLEAN /\ changedHeader \in BOOLEAN
      BY <2>1, Zenon DEF BitHeaderInv
    <2> QED
      BY <2>1, <2>2, BitIndexes DEF BitHeaderInv
  <1>a. Bits!Call => calls' \in Nat /\ raw' = raw
    BY <1>0 DEF Bits!Call
  <1>b. ASSUME Parts, raw' \in BOOLEAN, changedHeader' \in BOOLEAN, calls' \in Nat,
               length' \in Nat, length' <= MaxBits, startIndex' \in Nat,
               nextItemOffset' \in Nat, nextItemOffset' <= MaxBits,
               maxLength' \in Nat, maxLength' <= MaxBits, maxLength' > 0
        PROVE  BitsInv'
    <2>1. BitHeaderInv'
      BY <1>0, <1>b DEF BitHeaderInv
    <2> QED
      BY <1>b, <2>1 DEF BitsInv
  <1>c. nextItemOffset <= MaxBits /\ host.length \in Nat /\ host.length <= MaxBits
        /\ keptHost.length \in Nat /\ keptHost.length <= MaxBits
        /\ host.start \in Nat /\ keptHost.start \in Nat
    BY <1>0 DEF BitHeaderInv, BitStorageInv, Bits!Storage
  <1> USE DEF Bits!header, Bits!cursor, Bits!memory
  <1>d. \A i \in Nat : i < length => Bits!RealIndex(i) \in BitCell
    BY BitIndexes
  <1>e. \A c \in BitCell : Bits!BitAt(c) = BitOf(c) /\ BitOf(c) \in BOOLEAN
    BY <1>0, Reads, BitsAreBoolean
  <1>1. ASSUME NEW i \in Bits!Index, Bits!Get(i) PROVE BitsInv'
    <2>1. Bits!RealIndex(i) \in BitCell
      BY <1>1, BitIndexes DEF Bits!Index
    <2>2. Parts
      BY <1>1, <1>a, <2>1, SteadyAfterRead DEF Bits!Get
    <2> QED
      BY <1>0, <1>1, <1>a, <1>b, <1>c, <2>2 DEF Bits!Get
  <1>2. ASSUME Bits!GetNext PROVE BitsInv'
    <2>1. Bits!RealIndex(nextItemOffset) \in BitCell
      BY <1>0, <1>2, BitIndexes DEF Bits!GetNext
    <2>2. Parts
      BY <1>2, <1>a, <2>1, SteadyAfterRead DEF Bits!GetNext
    <2>3. nextItemOffset' \in Nat /\ nextItemOffset' <= MaxBits
      BY <1>0, <1>2 DEF Bits!GetNext
    <2> QED
      BY <1>0, <1>2, <1>a, <1>b, <1>c, <2>2, <2>3 DEF Bits!GetNext
  <1>3. ASSUME NEW i \in Bits!Index, NEW bit \in BOOLEAN, Bits!Set(i, bit) PROVE BitsInv'
    <2>1. Bits!RealIndex(i) \in BitCell
      BY <1>3, BitIndexes DEF Bits!Index
    <2>2. (Bits!BitAt(Bits!RealIndex(i)) # bit) \/ bit = BitOf(Bits!RealIndex(i))
      BY <1>e, <2>1
    <2>3. Parts
      BY <1>3, <1>a, <2>1, <2>2, SteadyAfterWrite DEF Bits!Set
    <2> QED
      BY <1>0, <1>3, <1>a, <1>b, <1>c, <2>3 DEF Bits!Set
  <1>4. ASSUME NEW bit \in BOOLEAN, Bits!Push(bit) PROVE BitsInv'
    <2>1. Bits!RealIndex(length) \in BitCell
      BY <1>0, BitIndexes
    <2>2. length' = length + 1 /\ length < maxLength /\ raw' = raw
      BY <1>4, <1>a DEF Bits!Push
    <2>3. ~raw => Bits!RealIndex(length) = length
      BY <1>0, <2>2, BitIndexes DEF BitCell
    <2>4. CASE ~raw
      <3>1. \A c \in BitCell : c < length' => c < length \/ c = Bits!RealIndex(length)
        BY <1>0, <2>2, <2>3, <2>4, BitIndexes
      <3>2. Parts
        BY <1>4, <2>1, <2>2, <3>1, SteadyAfterWrite DEF Bits!Push
      <3> QED
        BY <1>0, <1>4, <1>a, <1>b, <1>c, <2>2, <3>2 DEF Bits!Push
    <2>5. CASE raw
      <3>1. BuffersInv'
        BY <1>0, <1>4, <2>1, WriteChangesOneBit DEF Bits!Push
      <3>2. BitStorageInv'
        BY <1>0, <1>4 DEF BitStorageInv, Bits!Push
      <3>3. Parts
        BY <2>2, <2>5, <3>1, <3>2
      <3> QED
        BY <1>0, <1>4, <1>a, <1>b, <1>c, <2>2, <3>3 DEF Bits!Push
    <2> QED
      BY <2>4, <2>5
  <1>5. ASSUME NEW i \in Bits!Index, Bits!Delete(i) PROVE BitsInv'
    <2>1. Bits!RealIndex(i) \in BitCell
      BY <1>5, BitIndexes DEF Bits!Index
    <2>2. Bits!BitAt(Bits!RealIndex(i)) \/ FALSE = BitOf(Bits!RealIndex(i))
      BY <1>e, <2>1, Zenon
    <2>3. Parts
      BY <1>5, <1>a, <2>1, <2>2, SteadyAfterWrite DEF Bits!Delete
    <2> QED
      BY <1>0, <1>5, <1>a, <1>b, <1>c, <2>3 DEF Bits!Delete
  <1>6. ASSUME Bits!RemoveItemFromLength PROVE BitsInv'
    <2>1. length' \in Nat /\ length' <= length
      BY <1>0, <1>6 DEF Bits!RemoveItemFromLength
    <2>2. Parts
      BY <1>6, <1>a, <2>1, SteadyAfterHeader DEF Bits!RemoveItemFromLength
    <2> QED
      BY <1>0, <1>6, <1>a, <1>b, <1>c, <2>1, <2>2 DEF Bits!RemoveItemFromLength
  <1>7. ASSUME Bits!DeleteLast PROVE BitsInv'
    <2>1. /\ length' \in Nat /\ length' <= length /\ length - 1 \in Nat
          /\ \A c \in BitCell : c < length' => c < length
      BY <1>0, <1>7, BitIndexes DEF Bits!DeleteLast
    <2>2. Bits!RealIndex(length - 1) \in BitCell
      BY <2>1, BitIndexes
    <2>3. Bits!BitAt(Bits!RealIndex(length - 1)) \/ FALSE = BitOf(Bits!RealIndex(length - 1))
      BY <1>e, <2>2, Zenon
    <2>4. Parts
      BY <1>7, <1>a, <2>1, <2>2, <2>3, SteadyAfterWrite DEF Bits!DeleteLast
    <2> QED
      BY <1>0, <1>7, <1>a, <1>b, <1>c, <2>1, <2>4 DEF Bits!DeleteLast
  <1>8. ASSUME NEW i, Bits!MoveStart(i), i \in Nat, nextItemOffset' \in {0, nextItemOffset}
        PROVE  BitsInv'
    <2>1. Parts
      BY <1>8, <1>a, SteadyAfterHeader DEF Bits!MoveStart
    <2> QED
      BY <1>0, <1>8, <1>a, <1>b, <1>c, <2>1 DEF Bits!MoveStart
  <1>9. ASSUME Bits!IncrementStartingIndex PROVE BitsInv'
    <2>1. (IF startIndex >= maxLength THEN 0 ELSE startIndex + 1) \in Nat
      BY <1>0
    <2> QED
      BY <1>8, <1>9, <2>1 DEF Bits!IncrementStartingIndex
  <1>10. ASSUME NEW i \in Bits!Index, Bits!SetStartingIndex(i) PROVE BitsInv'
    BY <1>8, <1>10 DEF Bits!SetStartingIndex, Bits!Index
  <1>11. ASSUME Bits!ApplyNextOffsetToStartingIndex PROVE BitsInv'
    <2>1. startIndex + nextItemOffset - 1 \in Nat
      BY <1>0, <1>11 DEF Bits!ApplyNextOffsetToStartingIndex
    <2> QED
      BY <1>8, <1>11, <2>1 DEF Bits!ApplyNextOffsetToStartingIndex
  <1>12. ASSUME NEW m \in 1 .. MaxBits, Bits!SetMaxLength(m) PROVE BitsInv'
    <2>1. Parts
      BY <1>12, <1>a, SteadyAfterHeader DEF Bits!SetMaxLength
    <2> QED
      BY <1>0, <1>12, <1>a, <1>b, <1>c, <2>1 DEF Bits!SetMaxLength
  <1>13. ASSUME Bits!Save PROVE BitsInv'
    <2>1. /\ BuffersInv' /\ BitStorageInv'
          /\ \A c \in BitCell :
                 /\ BitOf(c)' = BitOf(c)
                 /\ StoredBit(host', c) = IF Bits!SlotOf(c) \in changed THEN BitOf(c)
                                          ELSE StoredBit(host, c)
      BY <1>13, SaveBits
    <2>2. /\ UNCHANGED <<keptHost, length, startIndex, maxLength, nextItemOffset>>
          /\ changed' = {} /\ changedHeader' = FALSE
          /\ host'.length = IF changedHeader THEN length ELSE host.length
          /\ host'.start = IF changedHeader THEN startIndex ELSE host.start
      BY <1>13 DEF Bits!Save
    <2>3. ASSUME ~raw PROVE SteadyInv'
      <3>1. SteadyInv
        BY <1>0, <2>3
      <3>2. /\ startIndex' = 0 /\ host'.start = 0 /\ keptHost'.start = 0
            /\ maxLength' = MaxBits /\ length' = host'.length
        BY <2>2, <3>1 DEF SteadyInv
      <3>3. \A c \in BitCell : c < length' => BitOf(c)' = StoredBit(host', c)
        BY <2>1, <2>2, <3>1 DEF SteadyInv
      <3>4. \A c \in BitCell : c < length' => BitOf(c)' = StoredBit(host, c)'
        BY <3>3 DEF StoredBit, Bits!SlotOf
      <3> QED
        BY <3>2, <3>4 DEF SteadyInv
    <2>4. Parts
      BY <1>13, <1>a, <2>1, <2>3 DEF Bits!Save
    <2> QED
      BY <1>0, <1>13, <1>a, <1>b, <1>c, <2>2, <2>4 DEF Bits!Save
  <1>14. ASSUME Bits!DeleteAll PROVE BitsInv'
    <2>1. Parts
      BY <1>14, DeleteAllBits
    <2>2. /\ length' = 0 /\ startIndex' = 0 /\ Bits!Call /\ changedHeader' \in BOOLEAN
          /\ UNCHANGED <<nextItemOffset, maxLength>>
      BY <1>14 DEF Bits!DeleteAll, Bits!Empty
    <2> QED
      BY <1>0, <1>a, <1>b, <1>c, <2>1, <2>2
  <1>15. ASSUME Bits!Reset PROVE BitsInv'
    <2>1. Parts
      BY <1>15, ResetBits
    <2>2. /\ length' = 0 /\ startIndex' = 0 /\ Bits!Call /\ changedHeader' \in BOOLEAN
          /\ UNCHANGED <<nextItemOffset, maxLength>>
      BY <1>15 DEF Bits!Reset, Bits!Empty
    <2> QED
      BY <1>0, <1>a, <1>b, <1>c, <2>1, <2>2
  <1>16. ASSUME Bits!Commit \/ Bits!Abort PROVE BitsInv'
    <2>1. /\ Bits!Restart(host') /\ UNCHANGED <<raw, calls>>
          /\ host' \in {host, keptHost} /\ keptHost' \in {host, keptHost}
      <3>1. CASE Bits!Commit
        BY <3>1 DEF Bits!Commit, Bits!Restart
      <3>2. CASE Bits!Abort
        BY <3>2 DEF Bits!Abort, Bits!Restart
      <3> QED
        BY <1>16, <3>1, <3>2
    <2>2. Parts
      BY <2>1, RestartBits
    <2>3. /\ length' = host'.length /\ startIndex' = host'.start /\ nextItemOffset' = 0
          /\ maxLength' = MaxBits /\ changedHeader' \in BOOLEAN
      BY <2>1 DEF Bits!Restart
    <2>4. host'.length \in Nat /\ host'.length <= MaxBits /\ host'.start \in Nat
      BY <1>c, <2>1
    <2> QED
      BY <1>0, <1>b, <2>1, <2>2, <2>3, <2>4
  <1>17. ASSUME UNCHANGED bitVars PROVE BitsInv'
    BY <1>0, <1>17
    DEF bitVars, BitsInv, BuffersInv, BitStorageInv, BitHeaderInv, SteadyInv, BitOf, BitContent,
        StoredBit, Bits!SlotOf
  <1> QED
    BY <1>1, <1>2, <1>3, <1>4, <1>5, <1>6, <1>7, <1>9, <1>10, <1>11, <1>12, <1>13, <1>14,
       <1>15, <1>16, <1>17
    DEF Bits!Next

\* The invariant holds throughout.
LEMMA BitsInvHolds == ComponentsSpec => []BitsInv
  <1>1. ComponentsInit => BitsInv
    BY InitBits DEF ComponentsInit
  <1>2. BitsInv /\ [ComponentsNext]_vs => BitsInv'
    BY PartsStep, StepBits
  <1> QED
    BY <1>1, <1>2, PTL DEF ComponentsSpec, vs

-----------------------------------------------------------------------------
(* The boolean array is a sequence that is saved *)

\* Without the raw methods, the bits of the array are its first cells, and so are those
\* that are stored.
LEMMA BitViews ==
    BitsInv /\ ~raw =>
        /\ Bits!View \in Seq(BOOLEAN) /\ Len(Bits!View) = length
        /\ \A k \in 1 .. length : Bits!View[k] = BitOf(k - 1)
        /\ Bits!Stored(host) \in Seq(BOOLEAN) /\ Len(Bits!Stored(host)) = host.length
        /\ \A k \in 1 .. host.length : Bits!Stored(host)[k] = StoredBit(host, k - 1)
        /\ Bits!Stored(keptHost) \in Seq(BOOLEAN) /\ Len(Bits!Stored(keptHost)) = keptHost.length
        /\ \A k \in 1 .. keptHost.length :
              Bits!Stored(keptHost)[k] = StoredBit(keptHost, k - 1)
  <1> SUFFICES ASSUME BitsInv, ~raw
               PROVE  /\ Bits!View \in Seq(BOOLEAN) /\ Len(Bits!View) = length
                      /\ \A k \in 1 .. length : Bits!View[k] = BitOf(k - 1)
                      /\ \A st \in {host, keptHost} :
                            /\ Bits!Stored(st) \in Seq(BOOLEAN)
                            /\ Len(Bits!Stored(st)) = st.length
                            /\ \A k \in 1 .. st.length :
                                  Bits!Stored(st)[k] = StoredBit(st, k - 1)
    OBVIOUS
  <1>1. /\ BuffersInv /\ BitStorageInv /\ length \in Nat /\ length <= MaxBits
        /\ MaxBits \in Nat \ {0} /\ host.start = 0 /\ keptHost.start = 0
        /\ BitCell = 0 .. MaxBits - 1
    BY BitIndexes DEF BitsInv, SteadyInv, BitCell
  <1>2. ASSUME NEW k \in 1 .. length
        PROVE  Bits!BitAt(Bits!RealIndex(k - 1)) = BitOf(k - 1) /\ BitOf(k - 1) \in BOOLEAN
    <2>1. k - 1 \in BitCell
      BY <1>1
    <2>2. Bits!RealIndex(k - 1) = k - 1
      BY <2>1, BitIndexes
    <2> QED
      BY <1>1, <2>1, <2>2, Reads, BitsAreBoolean
  <1>3. /\ Bits!View \in Seq(BOOLEAN) /\ Len(Bits!View) = length
        /\ \A k \in 1 .. length : Bits!View[k] = BitOf(k - 1)
    BY <1>1, <1>2 DEF Bits!View
  <1>4. ASSUME NEW st \in {host, keptHost}
        PROVE  /\ Bits!Stored(st) \in Seq(BOOLEAN) /\ Len(Bits!Stored(st)) = st.length
               /\ \A k \in 1 .. st.length : Bits!Stored(st)[k] = StoredBit(st, k - 1)
    <2>1. /\ st.slots \in [Bits!Slot -> Bits!Bits] /\ st.length \in Nat /\ st.length <= MaxBits
          /\ st.start = 0
      BY <1>1 DEF BitStorageInv, Bits!Storage
    <2>2. ASSUME NEW k \in 1 .. st.length
          PROVE  /\ (st.start + k - 1) % MaxBits = k - 1 /\ StoredBit(st, k - 1) \in BOOLEAN
      <3>1. k - 1 \in BitCell /\ k - 1 \in 0 .. MaxBits - 1 /\ st.start + k - 1 = k - 1
        BY <1>1, <2>1
      <3>2. (k - 1) % MaxBits = k - 1
        BY <1>1, <3>1, OneTurn
      <3>3. Bits!SlotOf(k - 1) \in Bits!Slot /\ (k - 1) % BitsPerSlot \in Bits!Bit
        BY <3>1, BitCells
      <3>4. StoredBit(st, k - 1) \in BOOLEAN
        BY <2>1, <3>3 DEF StoredBit, Bits!Bits
      <3> QED
        BY <3>1, <3>2, <3>4, Zenon
    <2>3. Bits!Stored(st) = [k \in 1 .. st.length |-> StoredBit(st, k - 1)]
      BY <2>2, Zenon DEF Bits!Stored, StoredBit
    <2> HIDE DEF StoredBit
    <2> QED
      BY <2>1, <2>2, <2>3
  <1> QED
    BY <1>3, <1>4

\* So it is in the next state.
LEMMA BitViewsNext ==
    (BitsInv /\ ~raw =>
        /\ Bits!View \in Seq(BOOLEAN) /\ Len(Bits!View) = length
        /\ \A k \in 1 .. length : Bits!View[k] = BitOf(k - 1)
        /\ Bits!Stored(host) \in Seq(BOOLEAN) /\ Len(Bits!Stored(host)) = host.length
        /\ \A k \in 1 .. host.length : Bits!Stored(host)[k] = StoredBit(host, k - 1)
        /\ Bits!Stored(keptHost) \in Seq(BOOLEAN) /\ Len(Bits!Stored(keptHost)) = keptHost.length
        /\ \A k \in 1 .. keptHost.length :
              Bits!Stored(keptHost)[k] = StoredBit(keptHost, k - 1))'
  BY BitViews, PTL

\* A step of a contract that does not use the raw methods.
PlainStep == BitsInv /\ BitsInv' /\ ~raw /\ ~raw'

\* The bits of the next state are a sequence that has them.
LEMMA ViewBecomes ==
    ASSUME PlainStep, NEW u \in Seq(BOOLEAN), Len(u) = length',
           \A k \in 1 .. length' : BitOf(k - 1)' = u[k]
    PROVE  Bits!View' = u
  <1>1. /\ Bits!View' \in Seq(BOOLEAN) /\ Len(Bits!View') = length'
        /\ \A k \in 1 .. length' : Bits!View'[k] = BitOf(k - 1)'
    BY BitViewsNext DEF PlainStep
  <1>2. Len(Bits!View') = Len(u) /\ \A k \in 1 .. Len(Bits!View') : Bits!View'[k] = u[k]
    BY <1>1
  <1> DEFINE w == Bits!View'
  <1> HIDE DEF w
  <1>3. w \in Seq(BOOLEAN) /\ Len(w) = Len(u) /\ \A k \in 1 .. Len(w) : w[k] = u[k]
    BY <1>1, <1>2 DEF w
  <1>4. w = u
    BY <1>3, SeqEqual
  <1> QED
    BY <1>4 DEF w

\* What is stored stays while the storage stays.
LEMMA StoredBitsStay ==
    /\ host' = host => Bits!Stored(host)' = Bits!Stored(host)
    /\ keptHost' = keptHost => Bits!Stored(keptHost)' = Bits!Stored(keptHost)
    /\ keptHost' = host => Bits!Stored(keptHost)' = Bits!Stored(host)
    /\ host' = keptHost => Bits!Stored(host)' = Bits!Stored(keptHost)
  BY DEF Bits!Stored, Bits!SlotOf

\* A call that writes one bit of the array changes that bit of the sequence.
LEMMA WriteView ==
    ASSUME PlainStep, NEW i \in BitCell, i < length, NEW bit \in BOOLEAN, NEW mark,
           Bits!Write(Bits!RealIndex(i), bit, mark), host' = host, length' = length
    PROVE  Bits!View' = [Bits!View EXCEPT ![i + 1] = bit]
  <1> DEFINE w == Bits!View
             u == [w EXCEPT ![i + 1] = bit]
  <1>1. /\ w \in Seq(BOOLEAN) /\ Len(w) = length /\ length \in Nat /\ i \in Nat
        /\ \A k \in 1 .. length : w[k] = BitOf(k - 1) /\ k - 1 \in BitCell
    BY BitViews, BitIndexes DEF PlainStep
  <1>2. \A c \in BitCell : BitOf(c)' = IF c = i THEN bit ELSE BitOf(c)
    <2>1. Bits!RealIndex(i) = i
      BY BitIndexes DEF PlainStep
    <2> QED
      BY <2>1, WriteChangesOneBit DEF PlainStep, BitsInv
  <1> HIDE DEF w
  <1>3. /\ u \in Seq(BOOLEAN) /\ Len(u) = length
        /\ \A k \in 1 .. length : u[k] = IF k = i + 1 THEN bit ELSE w[k]
    <2>1. i + 1 \in 1 .. Len(w)
      BY <1>1
    <2> QED
      BY <1>1, <2>1, ExceptSeq
  <1> HIDE DEF u
  <1>4. ASSUME NEW k \in 1 .. length' PROVE BitOf(k - 1)' = u[k]
    <2>1. k \in 1 .. length /\ (k - 1 = i <=> k = i + 1)
      BY <1>1
    <2> DEFINE c == k - 1
    <2>2. c \in BitCell /\ w[k] = BitOf(c)
      BY <1>1, <2>1
    <2> HIDE DEF c
    <2>3. BitOf(c)' = IF k = i + 1 THEN bit ELSE w[k]
      BY <1>2, <2>1, <2>2 DEF c
    <2> QED
      BY <1>3, <2>1, <2>3 DEF c
  <1>5. Bits!View' = u
    BY <1>3, <1>4, ViewBecomes
  <1> QED
    BY <1>5 DEF u, w

\* A call that only changes the sequence.
LEMMA ChangeBits ==
    ASSUME host' = host, keptHost' = keptHost, NEW s, Bits!View' = s
    PROVE  Bits!Sequence!Change(s)
  BY StoredBitsStay DEF Bits!Sequence!Change

\* While no bit and no length changes, neither does the sequence.
LEMMA BitsStay ==
    ASSUME PlainStep, length' = length, UNCHANGED <<host, keptHost>>,
           \A c \in BitCell : BitOf(c)' = BitOf(c)
    PROVE  UNCHANGED Bits!Sequence!svars
  <1> DEFINE w == Bits!View
  <1>1. /\ w \in Seq(BOOLEAN) /\ Len(w) = length
        /\ \A k \in 1 .. length : w[k] = BitOf(k - 1) /\ k - 1 \in BitCell
    BY BitViews, BitIndexes DEF PlainStep
  <1> HIDE DEF w
  <1>2. ASSUME NEW k \in 1 .. length' PROVE BitOf(k - 1)' = w[k]
    <2> DEFINE c == k - 1
    <2>1. c \in BitCell /\ w[k] = BitOf(c)
      BY <1>1
    <2> HIDE DEF c
    <2>2. BitOf(c)' = w[k]
      BY <2>1
    <2> QED
      BY <2>2 DEF c
  <1>3. Bits!View' = w
    BY <1>1, <1>2, ViewBecomes
  <1> QED
    BY <1>3, StoredBitsStay DEF w, Bits!Sequence!svars

\* push appends a bit.
LEMMA PushIsAppend ==
    ASSUME PlainStep, NEW bit \in BOOLEAN, Bits!Push(bit)
    PROVE  Bits!View' = Append(Bits!View, bit) /\ Bits!Sequence!Insert
  <1> DEFINE w == Bits!View
             u == Append(w, bit)
  <1>1. /\ w \in Seq(BOOLEAN) /\ Len(w) = length /\ length \in Nat
        /\ \A k \in 1 .. length : w[k] = BitOf(k - 1) /\ k - 1 \in BitCell
    BY BitViews, BitIndexes DEF PlainStep
  <1>2. /\ length < MaxBits /\ length' = length + 1 /\ length \in BitCell
        /\ UNCHANGED <<host, keptHost>>
    BY <1>1, BitIndexes DEF PlainStep, BitsInv, SteadyInv, Bits!Push, BitCell
  <1>3. \A c \in BitCell : BitOf(c)' = IF c = length THEN bit ELSE BitOf(c)
    <2>1. Bits!RealIndex(length) = length
      BY <1>2, BitIndexes DEF PlainStep
    <2> QED
      BY <1>2, <2>1, WriteChangesOneBit DEF PlainStep, BitsInv, Bits!Push
  <1> HIDE DEF w
  <1>4. /\ u \in Seq(BOOLEAN) /\ Len(u) = length + 1
        /\ \A k \in 1 .. length + 1 : u[k] = IF k = length + 1 THEN bit ELSE w[k]
    BY <1>1
  <1> HIDE DEF u
  <1>5. ASSUME NEW k \in 1 .. length' PROVE BitOf(k - 1)' = u[k]
    <2> DEFINE c == k - 1
    <2>1. /\ k \in 1 .. length + 1 /\ (c = length <=> k = length + 1) /\ c \in BitCell
          /\ k # length + 1 => w[k] = BitOf(c)
      BY <1>1, <1>2
    <2> HIDE DEF c
    <2>2. BitOf(c)' = u[k]
      BY <1>3, <1>4, <2>1
    <2> QED
      BY <2>2 DEF c
  <1>6. Bits!View' = u
    BY <1>2, <1>4, <1>5, ViewBecomes
  <1>7. Bits!Sequence!Change(u)
    BY <1>2, <1>6, ChangeBits
  <1> QED
    BY <1>1, <1>2, <1>6, <1>7 DEF u, w, Bits!Sequence!Insert

\* An array that is one shorter has lost its last bit, if the others are as they were.
LEMMA ShorterBits ==
    ASSUME PlainStep, length > 0, length' = length - 1, UNCHANGED <<host, keptHost>>,
           \A c \in BitCell : c # length - 1 => BitOf(c)' = BitOf(c)
    PROVE  Bits!Sequence!DropLast
  <1> DEFINE w == Bits!View
             u == SubSeq(w, 1, length - 1)
  <1>1. /\ w \in Seq(BOOLEAN) /\ Len(w) = length /\ length \in Nat
        /\ \A k \in 1 .. length : w[k] = BitOf(k - 1) /\ k - 1 \in BitCell
    BY BitViews, BitIndexes DEF PlainStep
  <1> HIDE DEF w
  <1>2. w # <<>> /\ Bits!Sequence!Front(w) = u
    BY <1>1 DEF Bits!Sequence!Front
  <1>3. u \in Seq(BOOLEAN) /\ Len(u) = length - 1 /\ \A k \in 1 .. length - 1 : u[k] = w[k]
    BY <1>1
  <1> HIDE DEF u
  <1>4. ASSUME NEW k \in 1 .. length' PROVE BitOf(k - 1)' = u[k]
    <2> DEFINE c == k - 1
    <2>1. k \in 1 .. length - 1 /\ c # length - 1 /\ c \in BitCell /\ w[k] = BitOf(c)
      BY <1>1
    <2> HIDE DEF c
    <2>2. BitOf(c)' = u[k]
      BY <1>3, <2>1
    <2> QED
      BY <2>2 DEF c
  <1>5. Bits!View' = u
    BY <1>3, <1>4, ViewBecomes
  <1>6. Bits!Sequence!Change(Bits!Sequence!Front(w))
    BY <1>2, <1>5, ChangeBits
  <1> QED
    BY <1>2, <1>6 DEF w, Bits!Sequence!DropLast

\* After a save the stored sequence is the one the transaction sees.
LEMMA SaveIsSave ==
    ASSUME PlainStep, Bits!Save
    PROVE  Bits!Sequence!Save
  <1> DEFINE w == Bits!View
  <1>1. /\ w \in Seq(BOOLEAN) /\ Len(w) = length
        /\ \A k \in 1 .. length : w[k] = BitOf(k - 1) /\ k - 1 \in BitCell /\ k - 1 < length
    BY BitViews, BitIndexes, SMTT(20) DEF PlainStep
  <1> HIDE DEF w
  <1>2. \A c \in BitCell :
           /\ BitOf(c)' = BitOf(c)
           /\ StoredBit(host', c) = IF Bits!SlotOf(c) \in changed THEN BitOf(c)
                                    ELSE StoredBit(host, c)
    BY SaveBits DEF PlainStep
  <1>3. \A c \in BitCell : c < length => StoredBit(host', c) = BitOf(c)
    BY <1>2 DEF PlainStep, BitsInv, SteadyInv
  <1>4. length' = length /\ host'.length = length /\ keptHost' = keptHost
    BY DEF PlainStep, BitsInv, SteadyInv, Bits!Save
  <1>5. ASSUME NEW k \in 1 .. length
        PROVE  BitOf(k - 1)' = w[k] /\ StoredBit(host', k - 1) = w[k]
    <2> DEFINE c == k - 1
    <2>1. c \in BitCell /\ c < length /\ w[k] = BitOf(c)
      BY <1>1
    <2> HIDE DEF c
    <2>2. BitOf(c)' = w[k] /\ StoredBit(host', c) = w[k]
      BY <1>2, <1>3, <2>1
    <2> QED
      BY <2>2 DEF c
  <1>6. Bits!View' = w
    BY <1>1, <1>4, <1>5, ViewBecomes
  <1>7. Bits!Stored(host)' = w
    <2> DEFINE z == Bits!Stored(host)'
    <2>1. z \in Seq(BOOLEAN) /\ Len(z) = length /\ \A k \in 1 .. length : z[k] = w[k]
      <3>1. /\ z \in Seq(BOOLEAN) /\ Len(z) = host'.length
            /\ \A k \in 1 .. host'.length : z[k] = StoredBit(host, k - 1)'
        BY BitViewsNext DEF PlainStep
      <3>2. \A k \in 1 .. length : StoredBit(host, k - 1)' = w[k]
        BY <1>5 DEF StoredBit, Bits!SlotOf
      <3> QED
        BY <1>4, <3>1, <3>2
    <2> HIDE DEF z
    <2>2. z = w
      BY <1>1, <2>1, SeqEqual
    <2> QED
      BY <2>2 DEF z
  <1> QED
    BY <1>4, <1>6, <1>7, StoredBitsStay DEF w, Bits!Sequence!Save

\* A new instance sees what is stored.
LEMMA RestartView ==
    ASSUME PlainStep, Bits!Restart(host'), UNCHANGED raw, host' \in {host, keptHost},
           keptHost' \in {host, keptHost}
    PROVE  Bits!View' = Bits!Stored(host)'
  <1>1. /\ Bits!Stored(host)' \in Seq(BOOLEAN) /\ Len(Bits!Stored(host)') = host'.length
        /\ \A k \in 1 .. host'.length : Bits!Stored(host)'[k] = StoredBit(host, k - 1)'
        /\ \A k \in 1 .. length' : Bits!View'[k] = BitOf(k - 1)' /\ k - 1 \in BitCell
        /\ Bits!View' \in Seq(BOOLEAN) /\ Len(Bits!View') = length'
    <2>1. length' \in Nat /\ length' <= MaxBits /\ MaxBits \in Nat
      BY BitIndexes DEF PlainStep, BitsInv, BitHeaderInv
    <2>2. \A k \in 1 .. length' : k - 1 \in BitCell
      BY <2>1 DEF BitCell
    <2> QED
      BY <2>2, BitViewsNext DEF PlainStep
  <1>2. length' = host'.length
    BY DEF Bits!Restart
  <1>3. \A c \in BitCell : BitOf(c)' = StoredBit(host', c)
    BY RestartBits DEF PlainStep
  <1>4. ASSUME NEW k \in 1 .. length' PROVE Bits!View'[k] = Bits!Stored(host)'[k]
    <2> DEFINE c == k - 1
    <2>1. c \in BitCell /\ Bits!View'[k] = BitOf(c)'
      BY <1>1
    <2>2. Bits!Stored(host)'[k] = StoredBit(host, c)'
      BY <1>1, <1>2
    <2> HIDE DEF c
    <2>3. BitOf(c)' = StoredBit(host, c)'
      BY <1>3, <2>1 DEF StoredBit, Bits!SlotOf
    <2> QED
      BY <2>1, <2>2, <2>3
  <1> DEFINE v == Bits!View'
             z == Bits!Stored(host)'
  <1>5. v \in Seq(BOOLEAN) /\ z \in Seq(BOOLEAN) /\ Len(v) = Len(z)
        /\ \A k \in 1 .. Len(v) : v[k] = z[k]
    BY <1>1, <1>2, <1>4
  <1> HIDE DEF v, z
  <1>6. v = z
    BY <1>5, SeqEqual
  <1> QED
    BY <1>6 DEF v, z

\* An array whose stored length is zero is empty, and so is what is stored.
LEMMA EmptyIsClear ==
    ASSUME length' = 0, host'.length = 0, keptHost' = keptHost
    PROVE  Bits!Sequence!Clear
  <1>1. Bits!View' = <<>> /\ Bits!Stored(host)' = <<>>
    BY DEF Bits!View, Bits!Stored
  <1> QED
    BY <1>1, StoredBitsStay DEF Bits!Sequence!Clear

\* Every call is one of the sequence.
LEMMA BitsRefine ==
    ASSUME PlainStep, Bits!Next
    PROVE  Bits!Sequence!Next \/ UNCHANGED Bits!Sequence!svars
  <1>0. /\ BuffersInv /\ BitStorageInv /\ \A i \in BitCell : Bits!RealIndex(i) = i
        /\ length \in Nat /\ \A i \in Nat : i < length => i \in BitCell
        /\ Bits!Index = BitCell /\ BitCell \subseteq Nat
    BY BitIndexes DEF PlainStep, BitsInv, Bits!Index, BitCell
  <1> USE DEF Bits!header, Bits!cursor, Bits!memory
  <1>1. ASSUME NEW i \in Bits!Index, Bits!Get(i) PROVE UNCHANGED Bits!Sequence!svars
    BY <1>0, <1>1, ReadKeepsBits, BitsStay DEF Bits!Get
  <1>2. ASSUME Bits!GetNext PROVE UNCHANGED Bits!Sequence!svars
    <2>1. nextItemOffset \in BitCell
      BY <1>0, <1>2 DEF Bits!GetNext, PlainStep, BitsInv, BitHeaderInv
    <2> QED
      BY <1>0, <1>2, <2>1, ReadKeepsBits, BitsStay DEF Bits!GetNext
  <1>3. ASSUME NEW i \in Bits!Index, NEW bit \in BOOLEAN, NEW mark, i < length,
               Bits!Write(Bits!RealIndex(i), bit, mark),
               UNCHANGED <<host, keptHost, length>>
        PROVE  Bits!Sequence!Assign
    <2>1. Bits!Sequence!Change([Bits!View EXCEPT ![i + 1] = bit])
      BY <1>0, <1>3, WriteView, ChangeBits
    <2>2. i + 1 \in DOMAIN Bits!View
      BY <1>0, <1>3 DEF Bits!View
    <2> QED
      BY <2>1, <2>2 DEF Bits!Sequence!Assign
  <1>4. ASSUME NEW i \in Bits!Index, NEW bit \in BOOLEAN, Bits!Set(i, bit)
        PROVE  Bits!Sequence!Assign
    BY <1>3, <1>4 DEF Bits!Set
  <1>5. ASSUME NEW bit \in BOOLEAN, Bits!Push(bit) PROVE Bits!Sequence!Insert
    BY <1>5, PushIsAppend
  <1>6. ASSUME NEW i \in Bits!Index, Bits!Delete(i) PROVE Bits!Sequence!Assign
    BY <1>3, <1>6 DEF Bits!Delete
  <1>7. ASSUME Bits!RemoveItemFromLength PROVE Bits!Sequence!DropLast
    <2>1. \A c \in BitCell : BitOf(c)' = BitOf(c)
      BY <1>7 DEF Bits!RemoveItemFromLength, BitOf, BitContent, Bits!SlotOf
    <2> QED
      BY <1>7, <2>1, ShorterBits DEF Bits!RemoveItemFromLength
  <1>8. ASSUME Bits!DeleteLast PROVE Bits!Sequence!DropLast
    <2>1. length - 1 \in BitCell /\ length > 0 /\ length' = length - 1
          /\ UNCHANGED <<host, keptHost>>
      BY <1>0, <1>8 DEF Bits!DeleteLast
    <2>2. \A c \in BitCell : c # length - 1 => BitOf(c)' = BitOf(c)
      BY <1>0, <1>8, <2>1, WriteChangesOneBit DEF Bits!DeleteLast
    <2> QED
      BY <2>1, <2>2, ShorterBits
  <1>9. ASSUME Bits!Save PROVE Bits!Sequence!Save
    BY <1>9, SaveIsSave
  <1>10. ASSUME Bits!DeleteAll PROVE Bits!Sequence!Clear
    BY <1>10, EmptyIsClear DEF Bits!DeleteAll, Bits!Empty
  <1>11. ASSUME Bits!Reset PROVE Bits!Sequence!Clear
    <2>1. host'.length = 0
      BY <1>0, <1>11 DEF Bits!Reset, BitStorageInv, Bits!Storage
    <2> QED
      BY <1>11, <2>1, EmptyIsClear DEF Bits!Reset, Bits!Empty
  <1>12. ASSUME Bits!Commit PROVE Bits!Sequence!Commit
    <2>1. Bits!Restart(host') /\ UNCHANGED raw /\ host' = host /\ keptHost' = host
      BY <1>12 DEF Bits!Commit, Bits!Restart
    <2> QED
      BY <2>1, RestartView, StoredBitsStay DEF Bits!Sequence!Commit
  <1>13. ASSUME Bits!Abort PROVE Bits!Sequence!Abort
    <2>1. Bits!Restart(host') /\ UNCHANGED raw /\ host' = keptHost /\ keptHost' = keptHost
      BY <1>13 DEF Bits!Abort, Bits!Restart
    <2> QED
      BY <2>1, RestartView, StoredBitsStay DEF Bits!Sequence!Abort
  <1>14. /\ \A i \in Bits!Index : ~Bits!SetStartingIndex(i)
         /\ ~Bits!IncrementStartingIndex /\ ~Bits!ApplyNextOffsetToStartingIndex
         /\ \A m \in 1 .. MaxBits : ~Bits!SetMaxLength(m)
    BY DEF PlainStep, Bits!SetStartingIndex, Bits!IncrementStartingIndex,
           Bits!ApplyNextOffsetToStartingIndex, Bits!SetMaxLength, Bits!MoveStart
  <1> QED
    BY <1>1, <1>2, <1>4, <1>5, <1>6, <1>7, <1>8, <1>9, <1>10, <1>11, <1>12, <1>13, <1>14
    DEF Bits!Next, Bits!Sequence!Next

\* Calls change the bit they name and no other.
LEMMA BitCallsExact ==
    ASSUME PlainStep
    PROVE  Bits!CallsAreExact
  <1>1. \A i \in 0 .. (length - 1) : i \in BitCell /\ i < length
    BY BitIndexes DEF PlainStep
  <1> QED
    BY <1>1, WriteView, PushIsAppend
    DEF Bits!CallsAreExact, Bits!Set, Bits!Delete, Bits!header

\* Used without the raw methods, and with deleteAll on one loaded slot at most, a boolean
\* array of any length and slot size is a sequence that a transaction changes bit by bit and
\* that lasts once it is saved and the transaction succeeds; with them its header and its
\* buffers stay within their bounds (every method of StoredBooleanArray.ts).
THEOREM BitsAreSequences == ComponentsSpec => BitsImplementSavedSequence
  <1>1. ComponentsInit => Bits!Sequence!Init
    BY DEF ComponentsInit, Bits!Init, Bits!Sequence!Init, Bits!View, Bits!Stored
  <1>2. BitsInv /\ BitsInv' /\ [ComponentsNext]_vs
           => [~raw => [Bits!Sequence!Next]_(Bits!Sequence!svars)
                       /\ Bits!CallsAreExact]_(Bits!vars)
    <2> SUFFICES ASSUME BitsInv, BitsInv', [Bits!Next]_bitVars, ~raw, ~UNCHANGED Bits!vars
                 PROVE  [Bits!Sequence!Next]_(Bits!Sequence!svars) /\ Bits!CallsAreExact
      BY PartsStep
    <2>1. Bits!Next
      BY DEF bitVars, Bits!vars, Bits!memory, Bits!header, Bits!cursor
    <2>2. raw' = raw
      BY <2>1
      DEF Bits!Next, Bits!Get, Bits!Delete, Bits!SetStartingIndex, Bits!Set, Bits!Push,
          Bits!GetNext, Bits!RemoveItemFromLength, Bits!DeleteLast,
          Bits!IncrementStartingIndex, Bits!ApplyNextOffsetToStartingIndex, Bits!MoveStart,
          Bits!SetMaxLength, Bits!Save, Bits!DeleteAll, Bits!Reset, Bits!Commit, Bits!Abort,
          Bits!Call
    <2>3. PlainStep
      BY <2>2 DEF PlainStep
    <2> QED
      BY <2>1, <2>3, BitsRefine, BitCallsExact
  <1>3. ComponentsSpec => Bits!Sequence!Init /\ [][~raw =>
              [Bits!Sequence!Next]_(Bits!Sequence!svars) /\ Bits!CallsAreExact]_(Bits!vars)
    BY <1>1, <1>2, BitsInvHolds, PTL DEF ComponentsSpec, vs
  <1>4. ComponentsSpec => []Bits!TypeOK
    BY BitsInvHolds, BitsInvIsEnough, PTL
  <1> QED
    BY <1>3, <1>4 DEF BitsImplementSavedSequence, Bits!ImplementsSavedSequence
===============================================================================

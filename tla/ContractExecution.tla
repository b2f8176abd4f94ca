-------------------------- MODULE ContractExecution --------------------------
(***************************************************************************)
(* How the runtime executes contracts: every call runs in a fresh contract *)
(* instance (a frame) with its own write-through storage cache             *)
(* (env/BlockchainEnvironment.ts), enters through exports/index.ts, and is *)
(* bracketed by the hooks of contracts/ReentrancyGuard.ts, whose lock and  *)
(* depth live in contract storage.  A frame that reverts has its writes    *)
(* undone by the host; the caller either exits too or goes on with         *)
(* success = false.                                                        *)
(*                                                                         *)
(* The contract's own methods are the derived contract's: the model lets a *)
(* body read, write and add to one data slot, read the guard's state, call *)
(* any contract and throw, in any order, as long as there is gas.          *)
(***************************************************************************)
EXTENDS Integers, Sequences, FiniteSets

CONSTANTS
    Contract,       \* deployed contracts
    Level,          \* reentrancyLevel of each; "NONE" extends OP_NET directly
    MaxDepth,       \* call depth the host allows
    MaxGas,         \* bound on the storage operations and calls of one transaction
    MaxValue        \* largest value of the data slot (u256.Max)

Levels == {"STANDARD", "CALLBACK", "NONE"}

ASSUME ContractAssumption == IsFiniteSet(Contract)
ASSUME LevelAssumption == Level \in [Contract -> Levels]
ASSUME BoundAssumption == /\ MaxDepth \in Nat \ {0}
                          /\ MaxGas \in Nat
                          /\ MaxValue \in Nat \ {0, 1}

Slot == {"locked", "depth", "data"}

\* The bytes of a StoredBoolean slot: never written, or initialised (byte 1) with byte 0.
Unset == 0
False == 1
True  == 2
NotCached == -1                 \* a slot the instance has not read or written

Callable == {"method", "callback"}      \* "callback": ON_OP20/OP721_RECEIVED_SELECTOR
Selector == Callable \cup {"none"}       \* what the hooks get around onUpdate
Phase == {"started", "body", "calling", "completed", "reverted"}

VARIABLES
    host,       \* the host's storage: what loadPointer returns
    stack,      \* the instances of the running transaction, innermost last
    gas,        \* what the running transaction may still spend
    applied,    \* history: data increments that were not rolled back
    bypassed    \* history: contracts whose data an excluded frame has written

vars == <<host, stack, gas, applied, bypassed>>

SlotValue == 0..MaxValue
World == [host : [Contract -> [Slot -> SlotValue]],
          applied : [Contract -> Nat],
          bypassed : SUBSET Contract]
Frame == [contract : Contract, selector : Selector, phase : Phase,
          cache : [Slot -> SlotValue \cup {NotCached}],
          reg : SlotValue \cup {NotCached},     \* the body's local variable
          entered : BOOLEAN,                    \* history: holds the guard
          stop : BOOLEAN,                       \* stopExecutionOnFailure of the caller
          before : World]                       \* what the host restores on failure

TypeOK ==
    /\ host \in [Contract -> [Slot -> SlotValue]]
    /\ stack \in Seq(Frame)
    /\ gas \in 0..MaxGas
    /\ applied \in [Contract -> Nat]
    /\ bypassed \in SUBSET Contract

-----------------------------------------------------------------------------
Running == stack # <<>>
Top == stack[Len(stack)]
In(phase) == Running /\ Top.phase = phase
ReplaceTop(f) == [stack EXCEPT ![Len(stack)] = f]
Caller == SubSeq(stack, 1, Len(stack) - 1)
Now == [host |-> host, applied |-> applied, bypassed |-> bypassed]
Guarded(c) == Level[c] # "NONE"

\* A new instance: empty cache, nothing read.
NewFrame(c, sel, stop) ==
    [contract |-> c, selector |-> sel, phase |-> "started",
     cache |-> [s \in Slot |-> NotCached], reg |-> NotCached,
     entered |-> FALSE, stop |-> stop, before |-> Now]

\* getStorageAt: the cached value, else what the host holds.
ValueAt(f, s) == IF f.cache[s] # NotCached THEN f.cache[s] ELSE host[f.contract][s]

\* The frame after reading slot s: the value is cached for future reads.
Reading(f, s) == [f EXCEPT !.cache[s] = ValueAt(f, s)]

NoWrite == [s \in {} |-> 0]
Updated(old, w) == [s \in Slot |-> IF s \in DOMAIN w THEN w[s] ELSE old[s]]

\* The running instance becomes f and writes the slots of w: setStorageAt updates the
\* instance's cache and the host together.
CacheOnly(f, w) ==
    /\ stack' = ReplaceTop([f EXCEPT !.cache = Updated(f.cache, w)])
    /\ host' = host
Continue(f, w) ==
    /\ stack' = ReplaceTop([f EXCEPT !.cache = Updated(f.cache, w)])
    /\ host' = [host EXCEPT ![f.contract] = Updated(host[f.contract], w)]

-----------------------------------------------------------------------------
(* ReentrancyGuard *)

IsSelectorExcluded(sel) == sel = "callback"

\* The hooks apply the guard to this frame.
GuardApplies(f) == Guarded(f.contract) /\ ~IsSelectorExcluded(f.selector)

\* nonReentrantBefore throws.
BlockedAtTwo(f) ==
    \/ Level[f.contract] = "STANDARD" /\ ValueAt(f, "locked") = True
    \/ Level[f.contract] = "CALLBACK" /\ ValueAt(f, "depth") >= 2
NeverBlocked(f) == FALSE
Blocked(f) ==
    \/ Level[f.contract] = "STANDARD" /\ ValueAt(f, "locked") = True
    \/ Level[f.contract] = "CALLBACK" /\ ValueAt(f, "depth") >= 1

\* What nonReentrantBefore writes.
Acquire(f) ==
    IF Level[f.contract] = "STANDARD" THEN [s \in {"locked"} |-> True]
    ELSE LET d == ValueAt(f, "depth")
         IN  [s \in {"depth"} \cup (IF d = 0 THEN {"locked"} ELSE {}) |->
                IF s = "depth" THEN d + 1 ELSE True]

\* What nonReentrantAfter writes.
ReleaseDepthOnly(f) ==
    IF Level[f.contract] = "STANDARD" THEN NoWrite
    ELSE [s \in {"depth"} |-> ValueAt(f, "depth") - 1]
Release(f) ==
    IF Level[f.contract] = "STANDARD" THEN [s \in {"locked"} |-> False]
    ELSE LET d == ValueAt(f, "depth") - 1
         IN  [s \in {"depth"} \cup (IF d = 0 THEN {"locked"} ELSE {}) |->
                IF s = "depth" THEN d ELSE False]

\* nonReentrantAfter throws: the depth is already zero.
Underflow(f) == Level[f.contract] = "CALLBACK" /\ ValueAt(f, "depth") = 0

-----------------------------------------------------------------------------
(* Entry points (exports/index.ts) *)

\* A user's transaction calls contract c; the host starts the first instance.
BeginTransaction(c, sel) ==
    /\ stack = <<>>
    /\ stack' = <<NewFrame(c, sel, TRUE)>>
    /\ gas' = MaxGas
    /\ UNCHANGED <<host, applied, bypassed>>

\* onExecutionStarted when the guard does not apply.
StartUnguarded ==
    /\ In("started") /\ ~GuardApplies(Top)
    /\ Continue([Top EXCEPT !.phase = "body"], NoWrite)
    /\ UNCHANGED <<gas, applied, bypassed>>

\* onExecutionStarted: nonReentrantBefore lets the frame in.
StartGuarded ==
    /\ In("started") /\ GuardApplies(Top) /\ ~Blocked(Top)
    /\ Continue([Top EXCEPT !.phase = "body", !.entered = TRUE], Acquire(Top))
    /\ UNCHANGED <<gas, applied, bypassed>>

\* onExecutionStarted: nonReentrantBefore reverts.
StartRefused ==
    /\ In("started") /\ GuardApplies(Top) /\ Blocked(Top)
    /\ Continue([Top EXCEPT !.phase = "reverted"], NoWrite)
    /\ UNCHANGED <<gas, applied, bypassed>>

\* onExecutionCompleted: nonReentrantAfter, unless the selector is excluded.
Complete ==
    /\ In("body")
    /\ IF GuardApplies(Top)
         THEN IF Underflow(Top)
                THEN Continue([Top EXCEPT !.phase = "reverted"], NoWrite)
                ELSE Continue([Top EXCEPT !.phase = "completed", !.entered = FALSE],
                              Release(Top))
         ELSE Continue([Top EXCEPT !.phase = "completed"], NoWrite)
    /\ UNCHANGED <<gas, applied, bypassed>>

\* env_exit(0, result): the host keeps the writes and resumes the caller.
Return ==
    /\ In("completed")
    /\ stack' = IF Len(stack) = 1 THEN <<>>
                ELSE [Caller EXCEPT ![Len(stack) - 1].phase = "body"]
    /\ UNCHANGED <<host, gas, applied, bypassed>>

\* A reverted frame: the host undoes its writes.  Its caller exits with the same status
\* when it asked to stop on failure, and otherwise goes on with success = false.
Unwind ==
    /\ In("reverted")
    /\ host' = Top.before.host
    /\ applied' = Top.before.applied
    /\ bypassed' = Top.before.bypassed
    /\ stack' = IF Len(stack) = 1 THEN <<>>
                ELSE [Caller EXCEPT ![Len(stack) - 1].phase =
                         IF Top.stop THEN "reverted" ELSE "body"]
    /\ gas' = gas

\* A contract or plugin hook throws, or the gas runs out.
Throw ==
    /\ In("started") \/ In("body")
    /\ Continue([Top EXCEPT !.phase = "reverted"], NoWrite)
    /\ UNCHANGED <<gas, applied, bypassed>>

-----------------------------------------------------------------------------
(* What a body may do *)

Spend == In("body") /\ gas > 0 /\ gas' = gas - 1

\* Blockchain.call: the host starts a new instance of the target.
Call(c, sel, stop) ==
    /\ Spend /\ Len(stack) < MaxDepth
    /\ stack' = Append(ReplaceTop([Top EXCEPT !.phase = "calling"]), NewFrame(c, sel, stop))
    /\ UNCHANGED <<host, applied, bypassed>>

\* Blockchain.updateContractFromExisting: the host runs onUpdate of the new bytecode on
\* the contract's own storage; the caller throws if that fails.  The new bytecode takes
\* over the guard: its level is that of the contract.
UpdateSelf == Call(Top.contract, "none", TRUE)

\* Blockchain.call to an address the host cannot call, or updateContractFromExisting from
\* one that is not a contract: a status other than zero.
CallRefused(stop) ==
    /\ Spend
    /\ Continue([Top EXCEPT !.phase = IF stop THEN "reverted" ELSE "body"], NoWrite)
    /\ UNCHANGED <<applied, bypassed>>

\* reentrancyGuardEntered and getCurrentDepth: the first read of the StoredBoolean writes
\* its default.
ObserveGuard ==
    /\ Spend
    /\ LET f == Reading(Reading(Top, "locked"), "depth")
       IN  Continue(f, IF f.cache["locked"] = Unset THEN [s \in {"locked"} |-> False]
                       ELSE NoWrite)
    /\ UNCHANGED <<applied, bypassed>>

\* StoredU256.value, kept in a local variable.
Load ==
    /\ Spend
    /\ Continue([Reading(Top, "data") EXCEPT !.reg = ValueAt(Top, "data")], NoWrite)
    /\ UNCHANGED <<applied, bypassed>>

\* History of an increment by the running frame; nothing is counted for a contract whose
\* data a frame outside the guard has written.
Record ==
    IF GuardApplies(Top) /\ Top.contract \notin bypassed
    THEN applied' = [applied EXCEPT ![Top.contract] = @ + 1] /\ bypassed' = bypassed
    ELSE applied' = [applied EXCEPT ![Top.contract] = 0]
         /\ bypassed' = bypassed \cup {Top.contract}

\* StoredU256.value = SafeMath.add(local, 1): the local may have been read long before.
Store ==
    /\ Spend /\ Top.reg # NotCached /\ Top.reg < MaxValue
    /\ Continue([Top EXCEPT !.reg = Top.reg + 1], [s \in {"data"} |-> Top.reg + 1])
    /\ Record

AddUnchecked ==
    /\ Spend
    /\ LET v == ValueAt(Top, "data") + 1
       IN  Continue([Top EXCEPT !.reg = v], [s \in {"data"} |-> v])
    /\ Record

\* StoredU256.add(1): read through the cache and write at once.  A method that holds the
\* value in a local variable takes the new one.
Add ==
    /\ Spend /\ ValueAt(Top, "data") < MaxValue
    /\ LET v == ValueAt(Top, "data") + 1
       IN  Continue([Top EXCEPT !.reg = v], [s \in {"data"} |-> v])
    /\ Record

\* SafeMath.add overflows.
AddOverflow ==
    /\ Spend /\ ValueAt(Top, "data") = MaxValue
    /\ Continue([Reading(Top, "data") EXCEPT !.phase = "reverted"], NoWrite)
    /\ UNCHANGED <<applied, bypassed>>

-----------------------------------------------------------------------------
Init ==
    /\ host = [c \in Contract |-> [s \in Slot |-> 0]]
    /\ stack = <<>>
    /\ gas = 0
    /\ applied = [c \in Contract |-> 0]
    /\ bypassed = {}

Begin == \E c \in Contract, sel \in Callable : BeginTransaction(c, sel)

Execute ==
    \/ StartUnguarded \/ StartGuarded \/ StartRefused
    \/ Complete \/ Return \/ Unwind \/ Throw
    \/ \E c \in Contract, sel \in Callable, stop \in BOOLEAN : Call(c, sel, stop)
    \/ UpdateSelf
    \/ \E stop \in BOOLEAN : CallRefused(stop)
    \/ ObserveGuard \/ Load \/ Store \/ Add \/ AddOverflow

Next == Begin \/ Execute

Spec == Init /\ [][Next]_vars

\* The host runs a transaction to its end: gas bounds it.
FairSpec == Spec /\ WF_vars(Execute)

-----------------------------------------------------------------------------
(* Properties *)

Entered(i) == stack[i].entered

\* No two instances of a guarded contract are inside a guarded method at once, however
\* the calls nest and whichever of them reverted (STANDARD and CALLBACK alike).
MutualExclusion ==
    \A i, j \in 1..Len(stack) :
        Entered(i) /\ Entered(j) /\ stack[i].contract = stack[j].contract => i = j

Holds(c) == \E i \in 1..Len(stack) : Entered(i) /\ stack[i].contract = c

\* The lock and the depth in storage say exactly whether some instance is inside: a lock
\* is never left behind by a revert, an exit or a caught failure, and never lost.
LockMirrorsEntry ==
    \A c \in Contract :
        /\ Guarded(c) => (host[c]["locked"] = True <=> Holds(c))
        /\ Level[c] = "CALLBACK" => host[c]["depth"] = IF Holds(c) THEN 1 ELSE 0

\* When an instance runs again after a call, the guard state it has cached is what the
\* host holds, even if the callee took and released the same guard in between.
GuardCacheFresh ==
    Running => \A s \in {"locked", "depth"} : Top.cache[s] \in {NotCached, host[Top.contract][s]}

\* An instance inside the guard never works on a stale copy of the contract's data,
\* unless a frame the guard is not applied to wrote them meanwhile.
DataCacheFresh ==
    \A i \in 1..Len(stack) :
        LET c == stack[i].contract
        IN  Entered(i) /\ c \notin bypassed =>
                /\ stack[i].cache["data"] \in {NotCached, host[c]["data"]}
                /\ stack[i].reg \in {NotCached, host[c]["data"]}

\* Every increment made under the guard is in storage: none is overwritten by an instance
\* that read the data before a nested call.
NoLostUpdate ==
    \A c \in Contract : c \notin bypassed => host[c]["data"] = applied[c]

\* A guard that is held is released: no schedule of calls and failures leaves it taken.
GuardReleased ==
    \A c \in Contract : Guarded(c) => (host[c]["locked"] = True ~> host[c]["locked"] # True)

\* docs/contracts/updatable.md: a contract that extends OP20 or OP721, and so the guard,
\* registers the UpdatablePlugin and needs "no other code changes" to be updated: the
\* guard lets the onUpdate hook of the new bytecode run.
UpdateHookRuns == [][StartRefused => Top.selector # "none"]_vars

\* Each guarded contract, seen from outside, is an exclusive section.
Inside == [c \in {d \in Contract : Guarded(d)} |->
             Cardinality({i \in 1..Len(stack) : Entered(i) /\ stack[i].contract = c})]
Exclusive == INSTANCE ExclusiveEntry WITH
                 Resource <- {c \in Contract : Guarded(c)}, inside <- Inside
ImplementsExclusiveEntry == Exclusive!Spec
=============================================================================

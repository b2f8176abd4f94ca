------------------------------ MODULE Updatable -------------------------------
(***************************************************************************)
(* The update timelock of contracts/Updatable.ts, which                    *)
(* plugins/UpdatablePlugin.ts repeats for contracts that register it: the  *)
(* deployer submits a source contract, waits for the delay and applies it, *)
(* or cancels.  The delay is part of the bytecode; the pending update is   *)
(* in the storage, which an update leaves as it is.  The host copies the   *)
(* source's bytecode when the update is applied and runs it from the next  *)
(* block on.  A call that throws changes nothing.                          *)
(***************************************************************************)
EXTENDS Integers, Sequences, SequencesExt

CONSTANTS
    Contract,       \* deployed contracts
    Missing,        \* an address without a contract
    Code,           \* bytecodes
    Timelocked,     \* the bytecodes that contain the timelock
    Delay,          \* updateDelay of each of them
    InitialCode,    \* what each contract is deployed with
    Account,        \* who calls
    Deployer,       \* contractDeployer of each contract, who may have lost the key
    NoAddress,      \* Address.zero()
    MaxU64,         \* u64.MAX_VALUE
    MaxBlock,       \* bound on the block number
    MaxEvents       \* bound on the events of a contract

ASSUME CodeAssumption ==
    /\ Timelocked \subseteq Code /\ Delay \in [Timelocked -> 0..MaxU64]
    /\ InitialCode \in [Contract -> Code]
ASSUME AddressAssumption ==
    Missing \notin Contract /\ NoAddress \notin Contract /\ DOMAIN Deployer = Contract
ASSUME BlockAssumption ==
    MaxU64 \in Nat /\ MaxBlock \in Nat \ {0} /\ MaxBlock < MaxU64 /\ MaxEvents \in Nat

VARIABLES
    pendingUpdateAddress,   \* per contract
    pendingUpdateBlock,     \* per contract; 0 when no update is pending
    code,                   \* the bytecode each contract runs
    scheduled,              \* the bytecode it runs from the next block on
    block,                  \* Blockchain.block.number
    events                  \* what each contract has emitted

vars == <<pendingUpdateAddress, pendingUpdateBlock, code, scheduled, block, events>>

Address == Contract \cup {Missing, NoAddress}
\* reviewed and installed are history: the bytecode of the source at that moment.
Event ==
    [name : {"UpdateSubmitted"}, source : Address, at : Nat, effective : 0..MaxU64, reviewed : Code]
    \cup [name : {"UpdateApplied"}, source : Address, at : Nat, installed : Code]
    \cup [name : {"UpdateCancelled"}, source : Address, at : Nat]

TypeOK ==
    /\ pendingUpdateAddress \in [Contract -> Contract \cup {NoAddress}]
    /\ pendingUpdateBlock \in [Contract -> 0..MaxBlock]
    /\ code \in [Contract -> Code] /\ scheduled \in [Contract -> Code]
    /\ block \in 1..MaxBlock
    /\ events \in [Contract -> Seq(Event)]

-----------------------------------------------------------------------------
HasPendingUpdate(c) == pendingUpdateBlock[c] # 0

\* A sum of two u64 wraps.
Plus(m, n) == (m + n) % (MaxU64 + 1)

UpdateEffectiveBlock(c) ==
    IF HasPendingUpdate(c) THEN Plus(pendingUpdateBlock[c], Delay[code[c]]) ELSE 0

CanApplyUpdateAny(c) == HasPendingUpdate(c)
CanApplyUpdate(c) == HasPendingUpdate(c) /\ block >= UpdateEffectiveBlock(c)

OnlyDeployer(c, sender) == sender = Deployer[c]

\* A method of the timelock of contract c, called by sender.
Method(c, sender) ==
    code[c] \in Timelocked /\ OnlyDeployer(c, sender) /\ Len(events[c]) < MaxEvents

Emit(c, e) == events' = [events EXCEPT ![c] = Append(@, e)]

Clear(c) ==
    /\ pendingUpdateAddress' = [pendingUpdateAddress EXCEPT ![c] = NoAddress]
    /\ pendingUpdateBlock' = [pendingUpdateBlock EXCEPT ![c] = 0]

\* Only a deployed contract is accepted as a source.
IsContract(source) == source \in Contract

SubmitUpdateAgain(c, sender, source) ==
    /\ Method(c, sender) /\ IsContract(source)
    /\ pendingUpdateAddress' = [pendingUpdateAddress EXCEPT ![c] = source]
    /\ pendingUpdateBlock' = [pendingUpdateBlock EXCEPT ![c] = block]
    /\ Emit(c, [name |-> "UpdateSubmitted", source |-> source, at |-> block,
                effective |-> Plus(block, Delay[code[c]]), reviewed |-> code[source]])
    /\ UNCHANGED <<code, scheduled, block>>
SubmitUpdate(c, sender, source) ==
    /\ Method(c, sender)
    /\ ~HasPendingUpdate(c)
    /\ IsContract(source)
    /\ pendingUpdateAddress' = [pendingUpdateAddress EXCEPT ![c] = source]
    /\ pendingUpdateBlock' = [pendingUpdateBlock EXCEPT ![c] = block]
    /\ Emit(c, [name |-> "UpdateSubmitted", source |-> source, at |-> block,
                effective |-> Plus(block, Delay[code[c]]), reviewed |-> code[source]])
    /\ UNCHANGED <<code, scheduled, block>>

\* The pending update is cleared before the host is asked to replace the bytecode; the
\* onUpdate hook of the new bytecode may throw, and then nothing has happened.
ApplyUpdateUnmatched(c, sender, source) ==
    /\ Method(c, sender)
    /\ CanApplyUpdate(c) /\ IsContract(source)
    /\ Clear(c)
    /\ Emit(c, [name |-> "UpdateApplied", source |-> source, at |-> block,
                installed |-> code[source]])
    /\ scheduled' = [scheduled EXCEPT ![c] = code[source]]
    /\ UNCHANGED <<code, block>>
ApplyUpdate(c, sender, source) ==
    /\ Method(c, sender)
    /\ HasPendingUpdate(c) /\ CanApplyUpdate(c)
    /\ source = pendingUpdateAddress[c] /\ IsContract(source)
    /\ Clear(c)
    /\ Emit(c, [name |-> "UpdateApplied", source |-> source, at |-> block,
                installed |-> code[source]])
    /\ scheduled' = [scheduled EXCEPT ![c] = code[source]]
    /\ UNCHANGED <<code, block>>

CancelUpdate(c, sender) ==
    /\ Method(c, sender)
    /\ HasPendingUpdate(c)
    /\ Clear(c)
    /\ Emit(c, [name |-> "UpdateCancelled", source |-> pendingUpdateAddress[c], at |-> block])
    /\ UNCHANGED <<code, scheduled, block>>

\* The next block: replaced bytecode takes effect.
NewBlock ==
    /\ block < MaxBlock
    /\ block' = block + 1
    /\ code' = scheduled
    /\ UNCHANGED <<pendingUpdateAddress, pendingUpdateBlock, scheduled, events>>

Init ==
    /\ pendingUpdateAddress = [c \in Contract |-> NoAddress]
    /\ pendingUpdateBlock = [c \in Contract |-> 0]
    /\ code = InitialCode /\ scheduled = InitialCode
    /\ block = 1
    /\ events = [c \in Contract |-> <<>>]

Next ==
    \/ \E c \in Contract, sender \in Account :
          \/ \E source \in Address : SubmitUpdate(c, sender, source) \/ ApplyUpdate(c, sender, source)
          \/ CancelUpdate(c, sender)
    \/ NewBlock

Spec == Init /\ [][Next]_vars

-----------------------------------------------------------------------------
(* Properties *)

\* The submission that event i of contract c ends, when it ends one.
Announced(c, i) == events[c][i - 1]
Applications(c) == {i \in DOMAIN events[c] : events[c][i].name = "UpdateApplied"}

\* Whoever follows the events of a contract knows its pending update: submissions and
\* their ends alternate, each end names what was submitted, and the last submission that
\* was not ended is the one in the storage.
EventsTellPendingUpdate ==
    TypeOK /\ \A c \in Contract :
        LET log == events[c]
        IN  /\ \A i \in DOMAIN log : (log[i].name = "UpdateSubmitted") = (i % 2 = 1)
            /\ \A i \in DOMAIN log : i % 2 = 0 => log[i].source = log[i - 1].source
            /\ Len(log) % 2 = 1 =>
                  /\ pendingUpdateAddress[c] = Last(log).source
                  /\ pendingUpdateBlock[c] = Last(log).at
            /\ Len(log) % 2 = 0 =>
                  pendingUpdateAddress[c] = NoAddress /\ pendingUpdateBlock[c] = 0

\* An update is applied no earlier than the block its submission announced, even when
\* the bytecode was replaced in between, as long as every bytecode has the same delay.
EffectiveBlockHonoured ==
    \A c \in Contract : \A i \in Applications(c) : events[c][i].at >= Announced(c, i).effective

\* What an update installs is the bytecode the source had when it was submitted, which
\* users could review during the delay, if the source could not be updated: it has no
\* timelock of its own, or it is another contract whose deployer is gone.
ReviewedCodeIsInstalled ==
    \A c \in Contract : \A i \in Applications(c) :
        LET submission == Announced(c, i)
            fixed == \/ submission.reviewed \notin Timelocked
                     \/ submission.source # c /\ Deployer[submission.source] \notin Account
        IN  fixed => events[c][i].installed = submission.reviewed

=============================================================================

---------------------------- MODULE PegAuthority ----------------------------
(***************************************************************************)
(* contracts/OP20S.ts: the rate a pegged token is quoted at, how old it    *)
(* may be, and who may set both.  Authority moves in two steps.  A call    *)
(* that fails a check reverts and changes nothing, so only the calls that  *)
(* pass are actions.  sender is Blockchain.tx.sender, never the zero       *)
(* address.  MaxU64 + 1 blocks wrap to zero.                               *)
(***************************************************************************)
EXTENDS Integers

CONSTANTS
    Address, Zero,  \* the addresses, and the zero address
    Rate,           \* the peg rates, without zero
    MaxU64,
    MaxBlock        \* bound on the block number

ASSUME PegAssumption ==
    /\ Zero \in Address /\ 0 \notin Rate
    /\ MaxU64 \in Nat \ {0} /\ MaxBlock \in 0 .. MaxU64

Sender == Address \ {Zero}

VARIABLES
    block,          \* Blockchain.block.number
    authority,      \* _pegAuthorityMap
    pending,        \* _pendingAuthorityMap
    pegRate,        \* _pegRate, 0 before initializePeg
    updatedAt,      \* _pegUpdatedAt
    maxStaleness,   \* _maxStaleness
    quotedAt        \* history: the block in which the rate was given

peg == <<pegRate, updatedAt, maxStaleness, quotedAt>>
vars == <<block, authority, pending, peg>>

TypeOK ==
    /\ block \in 0 .. MaxBlock
    /\ authority \in Address /\ pending \in Address
    /\ pegRate \in Rate \cup {0}
    /\ updatedAt \in 0 .. MaxU64 /\ maxStaleness \in 0 .. MaxU64
    /\ quotedAt \in 0 .. MaxU64

Init ==
    /\ block = 0 /\ authority = Zero /\ pending = Zero
    /\ pegRate = 0 /\ updatedAt = 0 /\ maxStaleness = 0 /\ quotedAt = 0

\* The rate, and the block it is quoted in.
Quote(rate) == pegRate' = rate /\ updatedAt' = block /\ quotedAt' = block

\* onDeployment calls it, once.
InitializePeg(pegAuthority, initialPegRate, staleness) ==
    /\ pegRate = 0
    /\ pegAuthority # Zero /\ initialPegRate # 0 /\ staleness # 0
    /\ authority' = pegAuthority
    /\ Quote(initialPegRate)
    /\ maxStaleness' = staleness
    /\ UNCHANGED <<block, pending>>

OnlyPegAuthority(sender) == sender = authority

\* A plausible slip: the old block is kept.
UpdatePegRateUndated(sender, newRate) ==
    /\ OnlyPegAuthority(sender) /\ newRate # 0
    /\ pegRate' = newRate /\ quotedAt' = block
    /\ UNCHANGED <<block, authority, pending, updatedAt, maxStaleness>>

UpdatePegRate(sender, newRate) ==
    /\ OnlyPegAuthority(sender) /\ newRate # 0
    /\ Quote(newRate)
    /\ UNCHANGED <<block, authority, pending, maxStaleness>>

UpdateMaxStaleness(sender, newStaleness) ==
    /\ OnlyPegAuthority(sender) /\ newStaleness # 0
    /\ maxStaleness' = newStaleness
    /\ UNCHANGED <<block, authority, pending, pegRate, updatedAt, quotedAt>>

TransferPegAuthority(sender, newAuthority) ==
    /\ OnlyPegAuthority(sender) /\ newAuthority # Zero
    /\ pending' = newAuthority
    /\ UNCHANGED <<block, authority, peg>>

AcceptPegAuthority(sender) ==
    /\ pending # Zero /\ sender = pending
    /\ authority' = pending /\ pending' = Zero
    /\ UNCHANGED <<block, peg>>

\* A plausible slip: an offer that is open survives.
RenouncePegAuthorityOnly(sender) ==
    /\ OnlyPegAuthority(sender)
    /\ authority' = Zero
    /\ UNCHANGED <<block, pending, peg>>

RenouncePegAuthority(sender) ==
    /\ OnlyPegAuthority(sender)
    /\ authority' = Zero /\ pending' = Zero
    /\ UNCHANGED <<block, peg>>

NewBlock == block < MaxBlock /\ block' = block + 1 /\ UNCHANGED <<authority, pending, peg>>

\* _isStale: the sum is a u64.
IsStale == block > (updatedAt + maxStaleness) % (MaxU64 + 1)

Next ==
    \/ \E a \in Address, r \in Rate, s \in 0 .. MaxU64 : InitializePeg(a, r, s)
    \/ \E sender \in Sender :
          \/ \E r \in Rate : UpdatePegRate(sender, r)
          \/ \E s \in 0 .. MaxU64 : UpdateMaxStaleness(sender, s)
          \/ \E a \in Address : TransferPegAuthority(sender, a)
          \/ AcceptPegAuthority(sender)
          \/ RenouncePegAuthority(sender)
    \/ NewBlock

Spec == Init /\ [][Next]_vars

-----------------------------------------------------------------------------
\* Once the authority has renounced, it is gone for good and the rate is final: no offer
\* that was open can be accepted any more.
Renounced == pegRate # 0 /\ authority = Zero
RenouncedIsFinal == [][Renounced => UNCHANGED <<authority, pending, peg>>]_vars

\* A rate is reported stale when it was quoted more than maxStaleness blocks ago, and a
\* younger one only when the last block it is good for is no u64 any more.
StaleRateIsReported ==
    pegRate # 0 =>
        /\ block - quotedAt > maxStaleness => IsStale
        /\ IsStale => block - quotedAt > maxStaleness \/ quotedAt + maxStaleness > MaxU64
=============================================================================

-------------------------------- MODULE OP20 ----------------------------------
(***************************************************************************)
(* The fungible token of contracts/OP20.ts.  An action is one transaction  *)
(* that succeeds: a call that throws is undone by the host and changes     *)
(* nothing, so the conditions under which the code throws are the guards.  *)
(* A safe transfer to a contract is two steps, before and after the        *)
(* receiver's onOP20Received; the reentrancy guard of ContractExecution    *)
(* refuses every other method of the token in between.                     *)
(***************************************************************************)
EXTENDS Integers, FiniteSets, Functions

CONSTANTS
    Address,        \* accounts and contracts, Zero among them
    Zero,           \* Address.zero()
    Receivers,      \* the addresses that are contracts
    Deployer,       \* who deployed the token
    MaxU256,        \* u256.Max
    Spenders,       \* bound on who is given an allowance
    MaxBlock,       \* bound on the block number
    MaxSigned       \* bound on the messages owners sign

ASSUME AddressAssumption ==
    /\ IsFiniteSet(Address)
    /\ Zero \in Address /\ Deployer \in Address \ {Zero} /\ Receivers \subseteq Address
    /\ Spenders \subseteq Address
ASSUME AmountAssumption == MaxU256 \in Nat \ {0} /\ MaxBlock \in Nat /\ MaxSigned \in Nat

Amount == 0..MaxU256
Account == Address \ {Zero}

\* A signed allowance change; alg is the scheme it was signed with.
Message == [kind : {"increase", "decrease"}, owner : Account, spender : Address,
            amount : Amount, nonce : Nat, deadline : 0..MaxBlock, alg : {"schnorr", "mldsa"}]

VARIABLES
    balanceOf,      \* balanceOfMap
    allowance,      \* allowanceMap, by owner and spender
    nonceOf,        \* _nonceMap
    totalSupply,
    maxSupply,
    pending,        \* the safe transfer whose receiver is running
    block,          \* Blockchain.block.number
    unsafe,         \* consensus: unsafeSignaturesAllowed()
    signed,         \* messages signed by their owners so far
    used,           \* history: messages the token has accepted
    granted,        \* history: allowance given, up to MaxU256 (unlimited)
    spent           \* history: allowance consumed by transfers, up to MaxU256

token == <<balanceOf, allowance, totalSupply, maxSupply, nonceOf>>
history == <<used, granted, spent>>
world == <<block, unsafe, signed>>
vars == <<token, pending, world, history>>

None == [active |-> FALSE]
Pending == [active : {TRUE}, to : Account, balances : [Address -> Amount],
            allowances : [Address -> [Address -> Amount]], spent : [Address -> [Address -> Amount]]]

TypeOK ==
    /\ balanceOf \in [Address -> Amount]
    /\ allowance \in [Address -> [Address -> Amount]]
    /\ nonceOf \in [Address -> Nat]
    /\ totalSupply \in Amount /\ maxSupply \in Amount
    /\ pending \in Pending \cup {None}
    /\ block \in 0..MaxBlock /\ unsafe \in BOOLEAN
    /\ signed \in SUBSET Message /\ used \in SUBSET Message
    /\ granted \in [Address -> [Address -> Amount]]
    /\ spent \in [Address -> [Address -> Amount]]

-----------------------------------------------------------------------------
Idle == pending = None

\* instantiate: only while the stored maximum is zero.
Instantiate(sender, max) ==
    /\ Idle /\ maxSupply = 0 /\ sender = Deployer
    /\ maxSupply' = max
    /\ UNCHANGED <<balanceOf, allowance, totalSupply, nonceOf, pending, world, history>>

\* _transfer: the balances after moving n; the receiver's is read after the sender's write.
MovedStaleRead(from, to, n) ==
    [[balanceOf EXCEPT ![from] = @ - n] EXCEPT ![to] = balanceOf[to] + n]
Moved(from, to, n) ==
    [[balanceOf EXCEPT ![from] = @ - n] EXCEPT ![to] = @ + n]
CanMoveOverdrawn(from, to, n) ==
    from # Zero /\ to # Zero /\ Moved(from, to, n)[to] <= MaxU256
CanMove(from, to, n) ==
    /\ from # Zero /\ to # Zero
    /\ n <= balanceOf[from]
    /\ Moved(from, to, n)[to] <= MaxU256

\* _spendAllowance: nothing for the owner itself, nothing for an unlimited allowance.
Charged(owner, spender) == owner # spender /\ allowance[owner][spender] # MaxU256
MaySpend(owner, spender, n) == Charged(owner, spender) => n <= allowance[owner][spender]
AllowanceNotReduced(owner, spender, n) == allowance
AllowanceAfter(owner, spender, n) ==
    IF Charged(owner, spender) THEN [allowance EXCEPT ![owner][spender] = @ - n] ELSE allowance
SpentAfter(owner, spender, n) ==
    IF Charged(owner, spender)
    THEN [spent EXCEPT ![owner][spender] = IF @ + n > MaxU256 THEN MaxU256 ELSE @ + n]
    ELSE spent

\* transfer and transferFrom (a transfer is one whose owner sends it).
Transfer(sender, from, to, n) ==
    /\ Idle /\ MaySpend(from, sender, n) /\ CanMove(from, to, n)
    /\ balanceOf' = Moved(from, to, n)
    /\ allowance' = AllowanceAfter(from, sender, n)
    /\ spent' = SpentAfter(from, sender, n)
    /\ UNCHANGED <<nonceOf, totalSupply, maxSupply, pending, world, used, granted>>

\* safeTransfer and safeTransferFrom up to the call of onOP20Received.
SafeTransfer(sender, from, to, n) ==
    /\ Idle /\ MaySpend(from, sender, n) /\ CanMove(from, to, n)
    /\ balanceOf' = Moved(from, to, n)
    /\ allowance' = AllowanceAfter(from, sender, n)
    /\ spent' = SpentAfter(from, sender, n)
    /\ pending' = IF to \in Receivers
                  THEN [active |-> TRUE, to |-> to, balances |-> balanceOf,
                        allowances |-> allowance, spent |-> spent]
                  ELSE None
    /\ UNCHANGED <<nonceOf, totalSupply, maxSupply, world, used, granted>>

\* onOP20Received answered with its selector.
ReceiverAccepts ==
    /\ ~Idle
    /\ pending' = None
    /\ UNCHANGED <<token, world, history>>

\* The receiver threw, or answered something else: the whole transfer is undone.
ReceiverRejects ==
    /\ ~Idle
    /\ balanceOf' = pending.balances
    /\ allowance' = pending.allowances
    /\ spent' = pending.spent
    /\ pending' = None
    /\ UNCHANGED <<nonceOf, totalSupply, maxSupply, world, used, granted>>

\* u256.add wraps; _increaseAllowance then saturates at the maximum.
Wrapped(n) == n % (MaxU256 + 1)
IncreasedWrapping(previous, n) == Wrapped(previous + n)
Increased(previous, n) ==
    IF Wrapped(previous + n) < previous THEN MaxU256 ELSE Wrapped(previous + n)
Decreased(previous, n) == IF n > previous THEN 0 ELSE previous - n

AllowanceChange(kind, owner, spender, n) ==
    /\ owner # Zero /\ spender # Zero
    /\ allowance' = [allowance EXCEPT ![owner][spender] =
                        IF kind = "increase" THEN Increased(@, n) ELSE Decreased(@, n)]
    /\ granted' = IF kind = "increase"
                  THEN [granted EXCEPT ![owner][spender] =
                           IF @ + n > MaxU256 THEN MaxU256 ELSE @ + n]
                  ELSE granted

\* increaseAllowance and decreaseAllowance.
ChangeAllowance(kind, sender, spender, n) ==
    /\ Idle
    /\ AllowanceChange(kind, sender, spender, n)
    /\ UNCHANGED <<balanceOf, totalSupply, maxSupply, nonceOf, pending, world, used, spent>>

\* Lengths in bytes of a signature.
SignatureLengthSame(alg) == 64
SignatureLength(alg) == IF alg = "schnorr" THEN 64 ELSE 2420

\* Blockchain.verifySignature: the scheme follows the consensus flag, and the message hash
\* binds every field and the nonce of the owner.
VerifySignatureAnyNonce(m) == m \in signed /\ (m.alg = "schnorr" <=> unsafe)
VerifySignature(m) ==
    m \in signed /\ m.nonce = nonceOf[m.owner] /\ (m.alg = "schnorr" <=> unsafe)

\* increaseAllowanceBySignature and decreaseAllowanceBySignature, submitted by anybody.
ChangeBySignature(m) ==
    /\ Idle
    /\ SignatureLength(m.alg) = 64
    /\ block <= m.deadline
    /\ VerifySignature(m)
    /\ AllowanceChange(m.kind, m.owner, m.spender, m.amount)
    /\ nonceOf' = [nonceOf EXCEPT ![m.owner] = @ + 1]
    /\ used' = used \cup {m}
    /\ UNCHANGED <<balanceOf, totalSupply, maxSupply, pending, world, spent>>

\* _mint: the amount is added before the cap is checked; beyond the cap it throws.
Minted(to, n) ==
    /\ to # Zero
    /\ balanceOf[to] + n <= MaxU256 /\ totalSupply + n <= MaxU256
    /\ balanceOf' = [balanceOf EXCEPT ![to] = @ + n]
    /\ totalSupply' = totalSupply + n
    /\ totalSupply' <= maxSupply
Mint(to, n) ==
    /\ Idle /\ Minted(to, n)
    /\ UNCHANGED <<allowance, maxSupply, nonceOf, pending, world, history>>

\* _burn: SafeMath.sub throws when the balance is too small.
Burn(from, n) ==
    /\ Idle /\ from # Zero
    /\ n <= balanceOf[from] /\ n <= totalSupply
    /\ balanceOf' = [balanceOf EXCEPT ![from] = @ - n]
    /\ totalSupply' = totalSupply - n
    /\ UNCHANGED <<allowance, maxSupply, nonceOf, pending, world, history>>

\* An owner signs a message off the chain, for its current or its next nonce.
Sign(m) ==
    /\ Cardinality(signed) < MaxSigned
    /\ m.nonce \in nonceOf[m.owner]..(nonceOf[m.owner] + 1)
    /\ signed' = signed \cup {m}
    /\ UNCHANGED <<token, pending, block, unsafe, history>>

NewBlock ==
    /\ Idle /\ block < MaxBlock
    /\ block' = block + 1
    /\ UNCHANGED <<token, pending, unsafe, signed, history>>

\* The network stops accepting Schnorr signatures, for good.
QuantumTransition ==
    /\ Idle /\ unsafe
    /\ unsafe' = FALSE
    /\ UNCHANGED <<token, pending, block, signed, history>>

-----------------------------------------------------------------------------
ZeroMap == [a \in Address |-> 0]

Init ==
    /\ balanceOf = ZeroMap /\ nonceOf = ZeroMap
    /\ allowance = [a \in Address |-> ZeroMap]
    /\ totalSupply = 0 /\ maxSupply = 0
    /\ pending = None
    /\ block = 0 /\ unsafe = TRUE /\ signed = {}
    /\ used = {}
    /\ granted = [a \in Address |-> ZeroMap] /\ spent = [a \in Address |-> ZeroMap]

SignableMessages == [kind : {"increase", "decrease"}, owner : Account,
                     spender : Spenders, amount : Amount \ {0}, nonce : 0..MaxSigned,
                     deadline : 0..MaxBlock, alg : {"schnorr", "mldsa"}]

Next ==
    \/ \E max \in Amount : Instantiate(Deployer, max)
    \/ \E sender \in Account, from, to \in Address, n \in Amount :
          Transfer(sender, from, to, n) \/ SafeTransfer(sender, from, to, n)
    \/ ReceiverAccepts \/ ReceiverRejects
    \/ \E kind \in {"increase", "decrease"}, sender \in Account, spender \in Spenders, n \in Amount :
          ChangeAllowance(kind, sender, spender, n)
    \/ \E m \in signed : ChangeBySignature(m)
    \/ \E to \in Address, n \in Amount : Mint(to, n) \/ Burn(to, n)
    \/ \E m \in SignableMessages : Sign(m)
    \/ NewBlock \/ QuantumTransition

Spec == Init /\ [][Next]_vars

-----------------------------------------------------------------------------
(* Properties *)

\* No sequence of transfers, callbacks, mints and burns makes or loses tokens: balances
\* add up to the total supply, which never exceeds the maximum, and none of them is held
\* or spendable by the zero address.
SupplyConserved ==
    /\ FoldFunction(+, 0, balanceOf) = totalSupply
    /\ totalSupply <= maxSupply
    /\ balanceOf[Zero] = 0 /\ \A s \in Address : allowance[Zero][s] = 0

\* A spender never moves more than the owner granted it, through any mix of direct and
\* signed changes, unless the grant reached the maximum, which means unlimited.
AllowanceWithinGrant ==
    \A o, s \in Address :
        granted[o][s] < MaxU256 => allowance[o][s] + spent[o][s] <= granted[o][s]

\* A signed message takes effect at most once, in the order of its owner's nonces, however
\* often and in whatever order it is submitted.
EachSignatureUsedOnce ==
    /\ used \subseteq signed
    /\ \A o \in Account : nonceOf[o] = Cardinality({m \in used : m.owner = o})
    /\ \A m, l \in used : m.owner = l.owner /\ m.nonce = l.nonce => m = l

\* An increase never lowers an allowance, even when the sum exceeds 256 bits.
IncreaseNeverLowers ==
    [][granted' # granted => \A o, s \in Address : allowance'[o][s] >= allowance[o][s]]_vars

\* Seen by everyone outside the transaction, the token is an abstract ledger: a safe
\* transfer happens when its receiver accepts, or not at all.
Ledger == INSTANCE TokenLedger WITH
              Holder <- Address, MaxAmount <- MaxU256,
              balance <- IF pending.active THEN pending.balances ELSE balanceOf,
              supply <- totalSupply, cap <- maxSupply
ImplementsTokenLedger == Ledger!Spec

\* Once the network refuses Schnorr signatures, no signed message is accepted any more,
\* because the length of an ML-DSA signature is refused before it is verified.
NoneAcceptedAfterTransition == [][~unsafe => used' = used]_vars
===============================================================================

-------------------------------- MODULE OP721 ---------------------------------
(***************************************************************************)
(* The non-fungible token of contracts/OP721.ts.  As in OP20, an action is *)
(* a transaction that succeeds, and a safe transfer to a contract is two   *)
(* steps around the receiver's onOP721Received, during which the guard of  *)
(* ContractExecution refuses every other method.  The token list of an     *)
(* owner is a StoredU256Array, which is loaded and saved in every action:  *)
(* here it is the sequence that StoredPackedArray is shown to implement.   *)
(* _mint and _setTokenURI are called by the derived contract, which sets   *)
(* no URI before it has instantiated the token, when it is deployed.       *)
(***************************************************************************)
EXTENDS Integers, FiniteSets, Sequences, SequencesExt

CONSTANTS
    Token,          \* token ids
    Address,        \* accounts and contracts, Zero among them
    Zero,           \* Address.zero(): no owner, no approval
    Receivers,      \* the addresses that are contracts
    Uri,            \* custom URIs
    MaxUris,        \* bound on the URIs that are set
    Signers,        \* bound on the accounts that sign messages
    MaxSigned       \* bound on the messages owners sign

ASSUME AddressAssumption ==
    Zero \in Address /\ Receivers \subseteq Address /\ Signers \subseteq Address \ {Zero}
ASSUME BoundAssumption == MaxUris \in Nat /\ MaxSigned \in Nat /\ IsFiniteSet(Token)

Account == Address \ {Zero}

\* What an owner signs: an approval of a token, or of an operator for all tokens.
Message == [kind : {"approve"}, owner : Account, operator : Address, token : Token, nonce : Nat]
           \cup [kind : {"all"}, owner : Account, operator : Address, grant : BOOLEAN, nonce : Nat]

VARIABLES
    ownerOf,        \* ownerOfMap
    tokensOf,       \* ownerTokensMap: the tokens of each owner, in order
    tokenIndex,     \* tokenIndexMap: where each token is in its owner's list
    balanceOf,      \* balanceOfMap
    approved,       \* tokenApprovalMap
    totalSupply, maxSupply,
    operators,      \* operatorApprovalMap: the operators of each owner
    uriIndex,       \* tokenURIIndices
    uriOf,          \* tokenURIStorage: the URI at each index so far; its length counts them
    nonceOf,        \* _approveNonceMap
    pending,        \* what a safe transfer whose receiver is running started from
    signed,         \* messages whose signature verifies now
    used            \* history: messages the token has accepted

ownership == <<ownerOf, tokensOf, tokenIndex, balanceOf, approved>>
supply == <<totalSupply, maxSupply>>
uris == <<uriIndex, uriOf>>
signatures == <<nonceOf, signed, used>>
vars == <<ownership, supply, operators, uris, signatures, pending>>

Ownership == [owner : [Token -> Address], tokens : [Address -> Seq(Token)], index : [Token -> Nat],
              balance : [Address -> Nat], approved : [Token -> Address]]
Now == [owner |-> ownerOf, tokens |-> tokensOf, index |-> tokenIndex,
        balance |-> balanceOf, approved |-> approved]
Nothing == [owner |-> <<>>]

TypeOK ==
    /\ Now \in Ownership
    /\ totalSupply \in 0..Cardinality(Token) /\ maxSupply \in Nat
    /\ operators \in [Address -> SUBSET Address]
    /\ uriIndex \in [Token -> Nat] /\ uriOf \in Seq(Uri)
    /\ nonceOf \in [Address -> Nat]
    /\ pending \in Ownership \cup {Nothing}
    /\ signed \subseteq Message /\ used \subseteq Message

-----------------------------------------------------------------------------
Idle == pending = Nothing
Exists(t) == ownerOf[t] # Zero

\* instantiate: once, with a maximum that is not zero; the URI counter starts again.
Instantiate(max) ==
    /\ Idle /\ maxSupply = 0 /\ max # 0
    /\ maxSupply' = max
    /\ uriOf' = <<>>
    /\ UNCHANGED <<ownership, totalSupply, operators, uriIndex, signatures, pending>>

\* _addTokenToOwnerEnumeration, on the lists and the indexes so far.
Added(lists, index, to, t) ==
    [tokens |-> [lists EXCEPT ![to] = Append(@, t)],
     index |-> [index EXCEPT ![t] = Len(lists[to])]]

\* _removeTokenFromOwnerEnumeration: the last token takes the place of t.
RemovedIndexKept(lists, index, from, t) ==
    LET last == Last(lists[from])
    IN  [tokens |-> [lists EXCEPT ![from] = Front([@ EXCEPT ![index[t] + 1] = last])],
         index |-> [index EXCEPT ![t] = 0]]
Removed(lists, index, from, t) ==
    LET last == Last(lists[from])
    IN  [tokens |-> [lists EXCEPT ![from] = Front([@ EXCEPT ![index[t] + 1] = last])],
         index |-> [index EXCEPT ![last] = index[t], ![t] = 0]]

Enumerate(e) == tokensOf' = e.tokens /\ tokenIndex' = e.index

\* _mint, by the derived contract.
Mint(to, t) ==
    /\ Idle /\ to # Zero /\ ~Exists(t)
    /\ maxSupply # 0 => totalSupply < maxSupply
    /\ ownerOf' = [ownerOf EXCEPT ![t] = to]
    /\ Enumerate(Added(tokensOf, tokenIndex, to, t))
    /\ balanceOf' = [balanceOf EXCEPT ![to] = @ + 1]
    /\ totalSupply' = totalSupply + 1
    /\ UNCHANGED <<approved, maxSupply, operators, uris, signatures, pending>>

\* The sender owns the token, or is an operator of its owner.
Controls(sender, t) == sender = ownerOf[t] \/ sender \in operators[ownerOf[t]]
MaySpend(sender, t) == Controls(sender, t) \/ sender = approved[t]

ClearedNothing(t) == approved
Cleared(t) == [approved EXCEPT ![t] = Zero]

BurnKeepsUri(sender, t) ==
    /\ Idle /\ Exists(t) /\ MaySpend(sender, t)
    /\ approved' = Cleared(t)
    /\ Enumerate(Removed(tokensOf, tokenIndex, ownerOf[t], t))
    /\ balanceOf' = [balanceOf EXCEPT ![ownerOf[t]] = @ - 1]
    /\ ownerOf' = [ownerOf EXCEPT ![t] = Zero]
    /\ totalSupply' = totalSupply - 1
    /\ UNCHANGED <<maxSupply, operators, uris, signatures, pending>>
Burn(sender, t) ==
    /\ Idle /\ Exists(t) /\ MaySpend(sender, t)
    /\ approved' = Cleared(t)
    /\ Enumerate(Removed(tokensOf, tokenIndex, ownerOf[t], t))
    /\ balanceOf' = [balanceOf EXCEPT ![ownerOf[t]] = @ - 1]
    /\ ownerOf' = [ownerOf EXCEPT ![t] = Zero]
    /\ uriIndex' = [uriIndex EXCEPT ![t] = 0]
    /\ totalSupply' = totalSupply - 1
    /\ UNCHANGED <<maxSupply, operators, uriOf, signatures, pending>>

\* _transfer: the token leaves one list and then enters the other, which may be the same.
Transferred(sender, from, to, t) ==
    /\ Idle /\ from # Zero /\ to # Zero /\ from = ownerOf[t] /\ MaySpend(sender, t)
    /\ approved' = Cleared(t)
    /\ LET left == Removed(tokensOf, tokenIndex, from, t)
       IN  Enumerate(Added(left.tokens, left.index, to, t))
    /\ balanceOf' = [[balanceOf EXCEPT ![from] = @ - 1] EXCEPT ![to] = @ + 1]
    /\ ownerOf' = [ownerOf EXCEPT ![t] = to]
    /\ UNCHANGED <<supply, operators, uris, signatures>>

\* transfer and transferFrom.
Transfer(sender, from, to, t) == Transferred(sender, from, to, t) /\ UNCHANGED pending

\* safeTransfer and safeTransferFrom up to the call of onOP721Received.
SafeTransfer(sender, from, to, t) ==
    /\ Transferred(sender, from, to, t)
    /\ pending' = IF to \in Receivers THEN Now ELSE Nothing

\* onOP721Received answered with its selector.
ReceiverAccepts ==
    /\ ~Idle
    /\ pending' = Nothing
    /\ UNCHANGED <<ownership, supply, operators, uris, signatures>>

\* The receiver threw, or answered something else: the whole transfer is undone.
ReceiverRejects ==
    /\ ~Idle
    /\ ownerOf' = pending.owner /\ tokensOf' = pending.tokens /\ tokenIndex' = pending.index
    /\ balanceOf' = pending.balance /\ approved' = pending.approved
    /\ pending' = Nothing
    /\ UNCHANGED <<supply, operators, uris, signatures>>

\* _approve: the sender must control the token, whoever signed.
CanApprove(sender, operator, t) ==
    Exists(t) /\ operator \notin {Zero, ownerOf[t]} /\ Controls(sender, t)
Approved(operator, t) ==
    /\ approved' = [approved EXCEPT ![t] = operator]
    /\ UNCHANGED <<ownerOf, tokensOf, tokenIndex, balanceOf, supply, operators, uris, pending>>

Approve(sender, operator, t) ==
    /\ Idle /\ CanApprove(sender, operator, t)
    /\ Approved(operator, t)
    /\ UNCHANGED signatures

OperatorSet(owner, operator, grant) ==
    /\ owner # operator
    /\ operators' = [operators EXCEPT ![owner] =
                        IF grant THEN @ \cup {operator} ELSE @ \ {operator}]
    /\ UNCHANGED <<ownership, supply, uris, pending>>

SetApprovalForAll(sender, operator, grant) ==
    /\ Idle /\ OperatorSet(sender, operator, grant)
    /\ UNCHANGED signatures

\* Both kinds of messages share a nonce per owner.
VerifySignatureAnyNonce(m) ==
    /\ m \in signed
    /\ nonceOf' = [nonceOf EXCEPT ![m.owner] = @ + 1]
    /\ used' = used \cup {m}
    /\ signed' = signed
VerifySignature(m) ==
    /\ m \in signed /\ m.nonce = nonceOf[m.owner]
    /\ nonceOf' = [nonceOf EXCEPT ![m.owner] = @ + 1]
    /\ used' = used \cup {m}
    /\ signed' = signed

ApproveBySignature(sender, m) ==
    /\ Idle /\ m.kind = "approve" /\ m.owner = ownerOf[m.token]
    /\ VerifySignature(m)
    /\ CanApprove(sender, m.operator, m.token)
    /\ Approved(m.operator, m.token)

SetApprovalForAllBySignature(m) ==
    /\ Idle /\ m.kind = "all"
    /\ VerifySignature(m)
    /\ OperatorSet(m.owner, m.operator, m.grant)

\* An owner signs off the chain, for its current or its next nonce.
Sign(m) ==
    /\ Idle /\ Cardinality(signed \cup used) < MaxSigned
    /\ m.nonce \in {nonceOf[m.owner], nonceOf[m.owner] + 1}
    /\ signed' = signed \cup {m}
    /\ UNCHANGED <<ownership, supply, operators, uris, nonceOf, used, pending>>

\* A message's deadline passes, or the network stops accepting 64-byte signatures.
Lapse(m) ==
    /\ Idle /\ signed' = signed \ {m}
    /\ UNCHANGED <<ownership, supply, operators, uris, nonceOf, used, pending>>

\* _setTokenURI, by the derived contract: the counter, from zero, is the index.
SetTokenURI(t, uri) ==
    /\ Idle /\ Exists(t) /\ Len(uriOf) < MaxUris
    /\ uriIndex' = [uriIndex EXCEPT ![t] = Len(uriOf)]
    /\ uriOf' = Append(uriOf, uri)
    /\ UNCHANGED <<ownership, supply, operators, signatures, pending>>

\* tokenURI: an index of zero means that the token has no URI of its own.
BaseUri == [base |-> TRUE]
TokenURI(t) == IF uriIndex[t] = 0 THEN BaseUri ELSE uriOf[uriIndex[t] + 1]

-----------------------------------------------------------------------------
Init ==
    /\ ownerOf = [t \in Token |-> Zero]
    /\ tokensOf = [a \in Address |-> <<>>] /\ tokenIndex = [t \in Token |-> 0]
    /\ balanceOf = [a \in Address |-> 0] /\ approved = [t \in Token |-> Zero]
    /\ totalSupply = 0 /\ maxSupply = 0
    /\ operators = [a \in Address |-> {}]
    /\ uriIndex = [t \in Token |-> 0] /\ uriOf = <<>>
    /\ nonceOf = [a \in Address |-> 0] /\ signed = {} /\ used = {}
    /\ pending = Nothing

Signable == {m \in [kind : {"approve"}, owner : Signers, operator : Account, token : Token,
                    nonce : 0..MaxSigned]
                   \cup [kind : {"all"}, owner : Signers, operator : Account, grant : BOOLEAN,
                         nonce : 0..MaxSigned] : m.owner # m.operator}

Next ==
    \/ \E max \in 1..Cardinality(Token) : Instantiate(max)
    \/ \E to \in Address, t \in Token : Mint(to, t)
    \/ \E sender \in Account, t \in Token : Burn(sender, t)
    \/ \E sender \in Account, from, to \in Address, t \in Token :
          Transfer(sender, from, to, t) \/ SafeTransfer(sender, from, to, t)
    \/ ReceiverAccepts \/ ReceiverRejects
    \/ \E sender \in Account, operator \in Address, t \in Token : Approve(sender, operator, t)
    \/ \E sender \in Account, operator \in Account, grant \in BOOLEAN :
          SetApprovalForAll(sender, operator, grant)
    \/ \E sender \in Account, m \in signed : ApproveBySignature(sender, m)
    \/ \E m \in signed : SetApprovalForAllBySignature(m) \/ Lapse(m)
    \/ \E m \in Signable : Sign(m)
    \/ \E t \in Token, uri \in Uri : maxSupply # 0 /\ SetTokenURI(t, uri)

Spec == Init /\ [][Next]_vars

-----------------------------------------------------------------------------
(* Properties *)

\* The list of an owner holds exactly its tokens, each once and where its index says, the
\* balance is the length of the list, after any removals from the middle, and the total
\* supply counts the tokens that exist.
EnumerationExact ==
    /\ \A a \in Address : Len(tokensOf[a]) = balanceOf[a]
    /\ \A a \in Address : \A i \in 1..balanceOf[a] :
          LET t == tokensOf[a][i] IN ownerOf[t] = a /\ tokenIndex[t] = i - 1
    /\ \A t \in Token : Exists(t) => \E i \in 1..balanceOf[ownerOf[t]] : tokensOf[ownerOf[t]][i] = t
    /\ totalSupply = Cardinality({t \in Token : Exists(t)})

UnmintedIsBlank ==
    \A t \in Token : ~Exists(t) => approved[t] = Zero /\ uriIndex[t] = 0 /\ tokenIndex[t] = 0

UriSlotsDistinct ==
    \A s, t \in Token :
        uriIndex[t] # 0 => uriIndex[t] < Len(uriOf) /\ (uriIndex[s] = uriIndex[t] => s = t)

\* A token that does not exist, burned or never minted, has no approval, no URI and no
\* place in a list that a new token with its id could inherit; and two tokens never have
\* the same custom URI slot, nor any token one that was not written.
RecordsAreSeparate == TypeOK /\ UnmintedIsBlank /\ UriSlotsDistinct

\* A signed message takes effect at most once, although approvals of tokens and of
\* operators share one nonce.
EachSignatureUsedOnce ==
    /\ \A o \in Account : nonceOf[o] = Cardinality({m \in used : m.owner = o})
    /\ \A m, l \in used : m.owner = l.owner /\ m.nonce = l.nonce => m = l

\* Seen from outside its transactions, the token is an abstract registry of owners and
\* approvals; a safe transfer happens when its receiver accepts, or not at all.
Registry == INSTANCE TokenRegistry WITH
                Holder <- Account, Nobody <- Zero,
                owner <- IF Idle THEN ownerOf ELSE pending.owner,
                spender <- IF Idle THEN approved ELSE pending.approved
ImplementsTokenRegistry == Registry!Spec

\* docs/contracts/op721-nft.md: _setTokenURI will "set custom token URI": tokenURI then
\* returns it.
CustomUriIsReturned ==
    [][\A t \in Token, uri \in Uri : SetTokenURI(t, uri) => TokenURI(t)' = uri]_vars
=============================================================================

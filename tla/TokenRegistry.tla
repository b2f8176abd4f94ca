---------------------------- MODULE TokenRegistry -----------------------------
(***************************************************************************)
(* What a non-fungible token promises: every token that exists has one     *)
(* owner, who may name one spender for it; whenever the token moves, is    *)
(* burned or is minted again, the spender is forgotten.                    *)
(***************************************************************************)
CONSTANTS Token, Holder, Nobody

VARIABLES
    owner,      \* of each token; Nobody when it does not exist
    spender     \* of each token; Nobody when none is approved

rvars == <<owner, spender>>

Init == owner = [t \in Token |-> Nobody] /\ spender = [t \in Token |-> Nobody]

Give(t, h) ==
    /\ owner' = [owner EXCEPT ![t] = h]
    /\ spender' = [spender EXCEPT ![t] = Nobody]

Mint(t) == owner[t] = Nobody /\ \E h \in Holder : Give(t, h)
Move(t) == owner[t] # Nobody /\ \E h \in Holder : Give(t, h)
Burn(t) == owner[t] # Nobody /\ Give(t, Nobody)

Approve(t, h) ==
    /\ owner[t] \notin {Nobody, h}
    /\ spender' = [spender EXCEPT ![t] = h]
    /\ owner' = owner

Next == \E t \in Token : Mint(t) \/ Move(t) \/ Burn(t) \/ \E h \in Holder : Approve(t, h)

Spec == Init /\ [][Next]_rvars
=============================================================================

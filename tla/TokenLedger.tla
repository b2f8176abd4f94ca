----------------------------- MODULE TokenLedger ------------------------------
(***************************************************************************)
(* What a fungible token promises: amounts are created and destroyed only  *)
(* by Mint and Burn, never beyond the cap, and a transfer moves an amount  *)
(* the sender has, all of it or nothing.                                   *)
(***************************************************************************)
EXTENDS Integers

CONSTANTS Holder, MaxAmount

VARIABLES
    balance,    \* what each holder owns
    supply,     \* what exists
    cap         \* the most that may exist

lvars == <<balance, supply, cap>>

Init ==
    /\ balance = [h \in Holder |-> 0]
    /\ supply = 0
    /\ cap = 0

SetCap == /\ cap = 0 /\ cap' \in 0..MaxAmount
          /\ UNCHANGED <<balance, supply>>

Mint(h, n) == /\ supply + n <= cap
              /\ balance' = [balance EXCEPT ![h] = @ + n]
              /\ supply' = supply + n /\ cap' = cap

Burn(h, n) == /\ n <= balance[h]
              /\ balance' = [balance EXCEPT ![h] = @ - n]
              /\ supply' = supply - n /\ cap' = cap

Move(from, to, n) == /\ n <= balance[from]
                     /\ balance' = [[balance EXCEPT ![from] = @ - n] EXCEPT ![to] = @ + n]
                     /\ UNCHANGED <<supply, cap>>

Next ==
    \/ SetCap
    \/ \E h \in Holder, n \in 1..MaxAmount : Mint(h, n) \/ Burn(h, n)
    \/ \E from, to \in Holder, n \in 1..MaxAmount : Move(from, to, n)

Spec == Init /\ [][Next]_lvars
=============================================================================

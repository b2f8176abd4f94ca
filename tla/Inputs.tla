------------------------------- MODULE Inputs -------------------------------
(***************************************************************************)
(* The runtime's functions without state: a state is the input of one.     *)
(***************************************************************************)
VARIABLE input

Nothing == [kind |-> "none"]
Init == input = Nothing
=============================================================================

------------------------------ MODULE Outcomes ------------------------------
(***************************************************************************)
(* A call returns a value or reverts.                                      *)
(***************************************************************************)
EXTENDS Integers

CONSTANT Throw      \* the outcome of a call that reverts
=============================================================================

------------------------------- MODULE MCOP20 ---------------------------------
(* Instances of OP20 for TLC: two accounts (alice deployed the token), the zero    *)
(* address and a contract that receives tokens.                                    *)
EXTENDS OP20

CONSTANTS zero, alice, bob, pool
=============================================================================

------------------------------- MODULE MCOP721 --------------------------------
(* Instances of OP721 for TLC: accounts alice and bob, and a contract (pool) that  *)
(* receives tokens.  No definition tells one token id from another.                *)
EXTENDS OP721, TLC

CONSTANTS zero, alice, bob, pool, t1, t2, t3, u1, u2

TokenSymmetry == Permutations(Token)

\* Bound: many tokens or many signed messages, not both at once.
MaxTokensAndMessages == totalSupply + Cardinality(signed \cup used) <= 3
=============================================================================

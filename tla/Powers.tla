------------------------------- MODULE Powers -------------------------------
(***************************************************************************)
(* Powers by multiplication: the provers know no law of ^.                 *)
(***************************************************************************)
EXTENDS Integers

PowersOf(base) ==
    LET power[n \in Nat] == IF n = 0 THEN 1 ELSE base * power[n - 1] IN power
=============================================================================

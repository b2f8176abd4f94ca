---------------------------- MODULE MCComponents ----------------------------
(* Small instances of the components for TLC.                                *)
EXTENDS Components

CONSTANTS zero, alice, bob, k1, k2, k3, v1, v2

\* Every length from none to one too many, of equal and of alternating bytes.
WrittenTexts == {[i \in 1 .. n |-> 1] : n \in 0 .. MaxText + 1}
                \cup {[i \in 1 .. n |-> 1 + (i % 2)] : n \in 0 .. MaxText + 1}
=============================================================================

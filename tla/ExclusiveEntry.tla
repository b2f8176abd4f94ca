--------------------------- MODULE ExclusiveEntry ----------------------------
(***************************************************************************)
(* What a reentrancy guard promises: at any time at most one execution is  *)
(* inside each resource, and a resource that was left can be entered       *)
(* again.                                                                  *)
(***************************************************************************)
EXTENDS Naturals

CONSTANT Resource
VARIABLE inside     \* executions inside each resource

Init == inside = [r \in Resource |-> 0]

Enter(r) == /\ inside[r] = 0
            /\ inside' = [inside EXCEPT ![r] = 1]

Leave(r) == /\ inside[r] = 1
            /\ inside' = [inside EXCEPT ![r] = 0]

Next == \E r \in Resource : Enter(r) \/ Leave(r)

Spec == Init /\ [][Next]_inside
=============================================================================

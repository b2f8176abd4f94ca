------------------------------ MODULE MCUpdatable ------------------------------
(* Instances of Updatable for TLC: a contract (app) that is updated from other   *)
(* contracts, whose bytecodes k1, k2 and plain differ in their delays.           *)
EXTENDS Updatable, TLC

CONSTANTS app, lib, fresh, k1, k2, plain, alice, bob, lost

SameDelay == k1 :> 1 @@ k2 :> 1

Three == app :> k1 @@ lib :> k2 @@ fresh :> plain
Deployers == app :> alice @@ lib :> bob @@ fresh :> lost
=============================================================================

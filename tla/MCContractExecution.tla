------------------------- MODULE MCContractExecution --------------------------
(* Instances of ContractExecution small enough for TLC: guarded contracts and a  *)
(* peer without a guard that calls them back.                                    *)
EXTENDS ContractExecution, TLC

CONSTANTS token, vault, peer

CallbackLevel == (token :> "CALLBACK") @@ (peer :> "NONE")
MixedLevel == (token :> "CALLBACK") @@ (vault :> "STANDARD")
=============================================================================

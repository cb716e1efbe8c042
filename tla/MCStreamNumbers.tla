--------------------------- MODULE MCStreamNumbers ---------------------------
(* Instances of StreamNumbers for TLC.                                      *)
EXTENDS StreamNumbers, TLC

CONSTANTS usdc, gusd

(* One token with more decimals than are printed, one with fewer.           *)
MCUp == usdc :> 2 @@ gusd :> 1
MCDown == usdc :> 1 @@ gusd :> 3
MCSupply == [t \in Tokens |-> 12]

(* Around zero, a fraction of a digit, half way, whole digits, too much.    *)
MCAmounts == {-5, -1, 0, 1, 2, 3, 10, 300}

MCPeriods == {-1, 0, 1, 2}
=============================================================================

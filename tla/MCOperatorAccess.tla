--------------------------- MODULE MCOperatorAccess ---------------------------
(* Two operators, a token, two requests of the admin router and one that      *)
(* logs out or registers a device, over a session's lifetime.                 *)
EXTENDS OperatorAccess, TLC

CONSTANTS other, act1, act2

MCRequests == {other, act1, act2}
MCPurposes == other :> {"logout", "device"} @@ act1 :> {"audited"} @@ act2 :> {"audited"}
Symmetry == Permutations(Operators) \cup Permutations({act1, act2})
=============================================================================

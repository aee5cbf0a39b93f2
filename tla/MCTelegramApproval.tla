------------------------- MODULE MCTelegramApproval -------------------------
(***************************************************************************)
(* A small instance of TelegramApproval for TLC: two operations to execute *)
(* the same call, and a second call.                                       *)
(***************************************************************************)
EXTENDS TelegramApproval, TLC

CONSTANTS c1, c2, o1, o2

SameCall == (o1 :> c1) @@ (o2 :> c1)

Symmetry == Permutations(Handlers) \cup Permutations(UserOps)
=============================================================================

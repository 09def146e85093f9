--------------------------- MODULE MCDurableTurn ---------------------------
(***************************************************************************)
(* Instances of DurableTurn for TLC.                                       *)
(***************************************************************************)
EXTENDS DurableTurn, TLC

CONSTANTS a, b

AnyCall == Permutations({a, b})
=============================================================================

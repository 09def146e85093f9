--------------------------- MODULE MCThreadInput ---------------------------
(***************************************************************************)
(* Instances of ThreadInput for TLC: two handles of one thread.            *)
(***************************************************************************)
EXTENDS ThreadInput

CONSTANTS h1, h2
=============================================================================

-------------------------- MODULE MCNotifications --------------------------
(***************************************************************************)
(* An instance of Notifications for TLC.                                   *)
(***************************************************************************)
EXTENDS Notifications, TLC

CONSTANTS n1, n2, k1

\* Two dispatches of one key.
SameKey == (n1 :> k1) @@ (n2 :> k1)
=============================================================================

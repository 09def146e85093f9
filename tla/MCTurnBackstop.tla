-------------------------- MODULE MCTurnBackstop --------------------------
(***************************************************************************)
(* Instances of TurnBackstop for TLC: one Durable Object, a user and a     *)
(* drain in it.                                                            *)
(***************************************************************************)
EXTENDS TurnBackstop, TLC

CONSTANTS p1, t1, t2

InOneObject == [t \in Task |-> p1]
OneClock    == [p \in Process |-> 0]
=============================================================================

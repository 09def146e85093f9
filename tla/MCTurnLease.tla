---------------------------- MODULE MCTurnLease ----------------------------
(***************************************************************************)
(* Instances of TurnLease for TLC.                                         *)
(***************************************************************************)
EXTENDS TurnLease, TLC

CONSTANTS p1, p2, t1, t2

\* Each task in a process of its own.
Apart == (t1 :> p1) @@ (t2 :> p2)

\* The second process's clock runs one unit ahead, or none does.
Ahead  == (p1 :> 0) @@ (p2 :> 1)
InStep == [p \in Process |-> 0]

\* Swapping the processes with their tasks.
SwapApart == {[x \in {p1, p2, t1, t2} |-> x], p1 :> p2 @@ p2 :> p1 @@ t1 :> t2 @@ t2 :> t1}
=============================================================================

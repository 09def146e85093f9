--------------------------- MODULE TurnAuthority ---------------------------
(***************************************************************************)
(* What the lease of a turn promises, without processes, tasks or clocks:  *)
(* a register of fencing tokens.  Each owner of the turn gets a token no    *)
(* earlier owner had; only the current owner writes; a settled turn is     *)
(* neither owned anew nor written again; a parked one may be reopened.     *)
(***************************************************************************)
EXTENDS Naturals, Sequences

VARIABLES
  owner,      \* the current owner's token, 0 when nobody owns the turn
  issued,     \* the latest token given out
  state,      \* "open", "parked" (needs a decision) or "settled"
  writes      \* the token of every write, oldest first

vars == <<owner, issued, state, writes>>

Init == owner = 0 /\ issued = 0 /\ state = "open" /\ writes = <<>>

\* A claim, or a start without one, makes a new owner.
Grant ==
  /\ state = "open"
  /\ issued' = issued + 1
  /\ owner' = issued'
  /\ UNCHANGED <<state, writes>>

\* The owner, or whoever frees its turn, hands the turn back.
Release ==
  /\ state = "open"
  /\ owner' = 0
  /\ UNCHANGED <<issued, state, writes>>

OwnerWrites == owner # 0 /\ writes' = Append(writes, owner)

Write ==
  /\ state = "open"
  /\ OwnerWrites
  /\ UNCHANGED <<owner, issued, state>>

\* The turn ends, with a last write of its owner or with none.
Close ==
  /\ state = "open"
  /\ state' \in {"parked", "settled"}
  /\ owner' \in {0, owner}
  /\ OwnerWrites \/ UNCHANGED writes
  /\ UNCHANGED issued

Reopen ==
  /\ state = "parked"
  /\ state' = "open"
  /\ owner' = 0
  /\ UNCHANGED <<issued, writes>>

Next == Grant \/ Release \/ Write \/ Close \/ Reopen

Spec == Init /\ [][Next]_vars

-----------------------------------------------------------------------------
(* What the register guarantees *)

\* Tokens are never written out of order: once a later owner has written, no
\* earlier one does.
WritesInOrder ==
  \A i, j \in 1 .. Len(writes) : i <= j => writes[i] <= writes[j]

\* Why: no token above the owner's was used, and every token used was issued.
TokenInv ==
  /\ owner \in Nat /\ issued \in Nat /\ writes \in Seq(Nat)
  /\ owner <= issued
  /\ \A i \in 1 .. Len(writes) : writes[i] <= issued
  /\ owner # 0 => \A i \in 1 .. Len(writes) : writes[i] <= owner
  /\ WritesInOrder
=============================================================================

---------------------------- MODULE TurnRecords ----------------------------
(***************************************************************************)
(* The stored turn record and the pure decisions every store makes on it:  *)
(* the claim, the compare-and-swap transition, and the two checkpoint      *)
(* writes.  The stores (memory, file, SQL, Durable Object) call these      *)
(* decisions inside one atomic operation, so a state machine that uses     *)
(* them takes one step per call.                                           *)
(*                                                                         *)
(* A record holds only what the decisions read: status, lease and          *)
(* checkpointVersion.  The code's `null` lease id is 0 and its missing     *)
(* lease is NoLease, so `lease?.attempt ?? 0` is lease.attempt.  The lease *)
(* deadline is kept by the state machine as the time left; a decision      *)
(* takes the comparison with the clock as its argument `expired`.          *)
(***************************************************************************)
EXTENDS Integers

CONSTANT NoOwner     \* a lease recorded without an owner, and the missing lease

ClaimableStatus == {"leased", "queued", "running", "suspended"}
TerminalStatus  == {"cancelled", "completed", "error", "needs-recovery"}

\* A run that no store has a record of; never a stored status.
Absent == "absent"
Status == ClaimableStatus \cup TerminalStatus \cup {Absent}

NoLease == [id |-> 0, attempt |-> 0, owner |-> NoOwner]

IsTerminal(run)  == run.status \in TerminalStatus
IsClaimable(run) == run.status \in ClaimableStatus

WithLease(run, status, lease) ==
  [run EXCEPT !.status = status, !.lease = lease]

WithStatus(run, status) == [run EXCEPT !.status = status]

-----------------------------------------------------------------------------
(* Claims *)

\* A lease keeps its holder until it expires or its owner is proven gone.
LeaseHolds(run, expired, abandonedId) ==
  /\ run.lease # NoLease
  /\ ~expired
  /\ run.lease.id # abandonedId

ClaimAllowed(run, expired, abandonedId) ==
  /\ IsClaimable(run)
  /\ ~LeaseHolds(run, expired, abandonedId)

EffectiveAttempt(run, attempt) ==
  IF attempt > run.lease.attempt THEN attempt ELSE run.lease.attempt + 1

\* Mutant of Exhausted: it trusts the attempt the claimer computed.
ExhaustedByClaimer(run, attempt, maxAttempts) == attempt > maxAttempts

Exhausted(run, attempt, maxAttempts) ==
  EffectiveAttempt(run, attempt) > maxAttempts

\* Both writes of a claim that gets past ClaimAllowed.
ClaimedRun(run, attempt, id, owner) ==
  WithLease(run, "leased",
            [id |-> id, attempt |-> EffectiveAttempt(run, attempt), owner |-> owner])

\* Mutant of ExhaustedRun: a status of its own, which no decision knows.
ExhaustedUnparked(run) == WithLease(run, "exhausted", NoLease)

ExhaustedRun(run) == WithLease(run, "needs-recovery", NoLease)

-----------------------------------------------------------------------------
(* Transitions and checkpoint writes *)

\* The compare-and-swap of TurnStore.transition on a stored run; the code's
\* not-found answer is the absent run.
TransitionAllowed(run, status, leaseId) ==
  /\ run.status # Absent
  /\ run.status = status
  /\ run.lease.id = leaseId

CheckpointVersionAllowed(run, expectedVersion) ==
  run.checkpointVersion = expectedVersion

\* Mutant of FencedWriteConflict: any open run may be written.
FencedWriteIgnoringLease(run, leaseId) == run.status = Absent \/ IsTerminal(run)

\* The write conflicts that revoke the writer's authority, as opposed to a
\* stale version, which it retries.
FencedWriteConflict(run, leaseId) ==
  \/ run.status = Absent
  \/ IsTerminal(run)
  \/ run.lease.id # leaseId

FencedWriteAllowed(run, leaseId, expectedVersion, version) ==
  /\ ~FencedWriteConflict(run, leaseId)
  /\ run.checkpointVersion = expectedVersion
  /\ version = run.checkpointVersion + 1
=============================================================================

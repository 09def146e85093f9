----------------------------- MODULE TurnLease -----------------------------
(***************************************************************************)
(* Who may run one durable turn, and who may write for it.                 *)
(*                                                                         *)
(* Processes share a store that holds the record `run` of one turn.  Tasks *)
(* are the things in a process that act on the run: the admission of its   *)
(* input, a thread.continue(), an agent.resume(), and the turn each of     *)
(* them starts.  A task reads the run, claims it, queues a turn, starts    *)
(* it, renews its lease, writes under the lease and settles the run; it    *)
(* may crash with its process, lose the run to a later claim, or fail to   *)
(* reach the store at any of these points.                                 *)
(*                                                                         *)
(* Every action is one atomic store operation with the in-process code     *)
(* that runs to completion around it, so the steps interleave exactly at   *)
(* the awaits.  Timers hold the time left, so the clock needs no bound.    *)
(***************************************************************************)
EXTENDS TurnRecords, Sequences

CONSTANTS
  Process,          \* processes that share the store
  Task,             \* concurrent uses of the run
  Home,             \* the process each task lives in
  LeaseMs,          \* TURN_LEASE_MS
  RenewMs,          \* TURN_LEASE_RENEW_MS
  Skew,             \* how far each process's clock runs ahead
  MaxAttempts,      \* DEFAULT_MAX_TURN_CLAIM_ATTEMPTS
  ProvesDeath,      \* the host has LeaseOwnerLiveness (file hosts do)
  LateBackstop,     \* the host schedules backstops only after the start commits
  Prompt,           \* renewals are never late: no stalled event loop or store
  MaxFaults,        \* bound: crashes, store errors, handed back claims, decisions
  MaxWrites         \* bound: writes logged under leases

ASSUME ConstantsOK ==
  /\ Home \in [Task -> Process]
  /\ Skew \in [Process -> Nat]
  /\ LeaseMs \in Nat /\ RenewMs \in Nat
  /\ MaxAttempts \in Nat \ {0}
  /\ ProvesDeath \in BOOLEAN /\ LateBackstop \in BOOLEAN /\ Prompt \in BOOLEAN
  /\ MaxFaults \in Nat /\ MaxWrites \in Nat
  /\ NoOwner \notin Process \X Nat

VARIABLES
  (* the store *)
  run,        \* the turn's record
  left,       \* time until the stored lease's deadline, on the true clock
  log,        \* history: the lease id of every fenced write, oldest first
  (* each process *)
  life,       \* how often it restarted; <<process, life>> is its ownerId
  active,     \* ids of the leases of turns running in the process
  (* each task *)
  pc,         \* where the task is
  held,       \* the lease id its execution run carries, 0 for null
  seen,       \* status and lease of the run as it read it before claiming
  gone,       \* the lease id it took for abandoned when it checked the drain
  beat,       \* its lease heartbeat
  lost,       \* the heartbeat aborted the turn with TurnOwnershipLostError
  version,    \* the checkpoint version it read for the write it prepares
  outcome,    \* the terminal status it is settling to
  (* bookkeeping *)
  nextId,     \* crypto.randomUUID(): the next fresh lease id
  faults      \* faults so far

storeVars   == <<run, left, log>>
processVars == <<life, active>>
claimVars   == <<seen, gone>>
turnVars    == <<held, beat, lost, version, outcome>>
bookVars    == <<nextId, faults>>
vars == <<storeVars, processVars, pc, claimVars, turnVars, bookVars>>

-----------------------------------------------------------------------------
(* States of a task and of its heartbeat, and state formulae about them *)

PC == {"idle",        \* nothing to do with the run
       "read",        \* it read the run and means to claim it
       "clear",       \* it saw that no drain owns the thread
       "claimed",     \* its claim holds the run, leased
       "queued",      \* its turn waits in the thread's queue
       "starting",    \* the turn is drained; its start is not written yet
       "started",     \* the run is running; its lease is not held yet
       "scheduling",  \* the lease is held; a late backstop is not written yet
       "running",     \* the turn works
       "failed",      \* the turn threw
       "settling"}    \* renewal stopped; the terminal status is not written yet

\* A heartbeat armed for its next renewal, or one whose renewal, carrying a
\* new deadline, is on its way to the store.
Beat   == [mode : {"off", "armed", "sent"}, left : Nat]
NoBeat == [mode |-> "off", left |-> 0]
\* Mutant of Armed: the next renewal is due only when the lease is.
ArmedLate == [mode |-> "armed", left |-> LeaseMs]
Armed  == [mode |-> "armed", left |-> RenewMs]

NewRun == [status |-> Absent, lease |-> NoLease, checkpointVersion |-> 0]

\* What a claim takes from the run it read.
Snapshot(record) == [status |-> record.status, lease |-> record.lease]
Unseen == Snapshot(NewRun)

NoVersion == -1
NoOutcome == Absent

OwnerId(p) == <<p, life[p]>>

\* What LeaseOwnerLiveness proves: the owner's process restarted or died.
IsGone(owner) == ProvesDeath /\ life[owner[1]] # owner[2]

\* Mutant of AbandonedLeaseId: a lease of this process no turn runs under is
\* taken for abandoned while it is only claimed.
AbandonedIfClaimed(p, record) ==
  LET lease == record.lease
  IN  IF \/ lease.owner = NoOwner
         \/ lease.owner = OwnerId(p) /\ lease.id \in active[p]
         \/ lease.owner # OwnerId(p) /\ ~IsGone(lease.owner)
      THEN 0
      ELSE lease.id

\* The lease id of `record` that process p may replace early; 0 for none.
AbandonedLeaseId(p, record) ==
  LET lease == record.lease
  IN  IF \/ lease.owner = NoOwner
         \/ lease.owner = OwnerId(p) /\ ( \/ record.status # "running"
                                          \/ lease.id \in active[p] )
         \/ lease.owner # OwnerId(p) /\ ~IsGone(lease.owner)
      THEN 0
      ELSE lease.id

\* A deadline process p sets, and its reading of the stored one.
Deadline(p) == LeaseMs + Skew[p]
Expired(p)  == left <= Skew[p]

\* The turn is in the thread's drain, and it has been started in it.
Working(t)  == pc[t] \in {"started", "scheduling", "running", "failed", "settling"}
Draining(t) == pc[t] = "starting" \/ Working(t)
DrainOwned(p) == \E t \in Task : Home[t] = p /\ Draining(t)

HoldsRun(t) == run.lease.id = held[t]

Fault == faults < MaxFaults /\ faults' = faults + 1

Goto(t, place) == pc' = [pc EXCEPT ![t] = place]

\* The end of a task, however it ends: its lease is no longer held here.
Leave(t) ==
  /\ Goto(t, "idle")
  /\ active'  = [active EXCEPT ![Home[t]] = @ \ {held[t]}]
  /\ held'    = [held EXCEPT ![t] = 0]
  /\ beat'    = [beat EXCEPT ![t] = NoBeat]
  /\ lost'    = [lost EXCEPT ![t] = FALSE]
  /\ version' = [version EXCEPT ![t] = NoVersion]
  /\ outcome' = [outcome EXCEPT ![t] = NoOutcome]

-----------------------------------------------------------------------------
(* Admission, and the claim of a run another task left behind *)

\* The run is recorded as its input is accepted, before any turn exists.
Precreate ==
  /\ run.status = Absent
  /\ run' = WithStatus(run, "queued")
  /\ UNCHANGED <<left, log, processVars, pc, claimVars, turnVars, bookVars>>

\* A turn for pending input is queued; its execution run carries no lease.
EnqueueInput(t) ==
  /\ pc[t] = "idle"
  /\ Goto(t, "queued")
  /\ UNCHANGED <<storeVars, processVars, claimVars, turnVars, bookVars>>

\* resume and continue read the run first and give up on a settled one.
ReadRun(t) ==
  /\ pc[t] = "idle"
  /\ IsClaimable(run)
  /\ Goto(t, "read")
  /\ seen' = [seen EXCEPT ![t] = Snapshot(run)]
  /\ UNCHANGED <<storeVars, processVars, gone, turnVars, bookVars>>

Unread(t) == seen' = [seen EXCEPT ![t] = Unseen]

CheckDrain(t) ==
  /\ pc[t] = "read"
  /\ IF DrainOwned(Home[t])
     THEN Goto(t, "idle") /\ Unread(t) /\ UNCHANGED gone
     ELSE /\ Goto(t, "clear")
          /\ gone' = [gone EXCEPT ![t] = AbandonedLeaseId(Home[t], seen[t])]
          /\ UNCHANGED seen
  /\ UNCHANGED <<storeVars, processVars, turnVars, bookVars>>

\* continue proves the owner gone when it checks the drain, resume inside the
\* claim's transaction; both from the run as they read it.
Claim(t) ==
  LET p       == Home[t]
      attempt == seen[t].lease.attempt + 1
  IN  /\ pc[t] = "clear"
      /\ Unread(t)
      /\ gone' = [gone EXCEPT ![t] = 0]
      /\ \E abandoned \in {gone[t], AbandonedLeaseId(p, seen[t])} :
           \/ /\ ~ClaimAllowed(run, Expired(p), abandoned)
              /\ Goto(t, "idle")
              /\ UNCHANGED <<run, left, held, nextId>>
           \/ /\ ClaimAllowed(run, Expired(p), abandoned)
              /\ Exhausted(run, attempt, MaxAttempts)
              /\ run' = ExhaustedRun(run)
              /\ left' = 0
              /\ Goto(t, "idle")
              /\ UNCHANGED <<held, nextId>>
           \/ /\ ClaimAllowed(run, Expired(p), abandoned)
              /\ ~Exhausted(run, attempt, MaxAttempts)
              /\ run' = ClaimedRun(run, attempt, nextId, OwnerId(p))
              /\ left' = Deadline(p)
              /\ held' = [held EXCEPT ![t] = nextId]
              /\ nextId' = nextId + 1
              /\ Goto(t, "claimed")
      /\ UNCHANGED <<log, processVars, beat, lost, version, outcome, faults>>

\* A write on the run this task's claim holds, while it is still leased; a
\* conflict with a later owner writes nothing.
SwapClaimed(t, status) ==
  IF TransitionAllowed(run, "leased", held[t])
  THEN run' = WithLease(run, status, NoLease) /\ left' = 0
  ELSE UNCHANGED <<run, left>>

\* The claimed run's checkpoint needs a decision or cannot be restored.
ParkClaimed(t) ==
  /\ pc[t] = "claimed"
  /\ SwapClaimed(t, "needs-recovery")
  /\ Leave(t)
  /\ UNCHANGED <<log, life, claimVars, bookVars>>

\* Newer thread work supersedes the claimed run, or nothing is left to do.
CancelClaimed(t) ==
  /\ pc[t] = "claimed"
  /\ SwapClaimed(t, "cancelled")
  /\ Leave(t)
  /\ UNCHANGED <<log, life, claimVars, bookVars>>

\* The resume failed (busy, aborted, a store error) and hands the run back.
RequeueClaimed(t) ==
  /\ pc[t] = "claimed"
  /\ Fault
  /\ SwapClaimed(t, "queued")
  /\ Leave(t)
  /\ UNCHANGED <<log, life, claimVars, nextId>>

\* The run's own input is still pending: the claim is handed back and the
\* input's turn, which carries no lease, is queued instead.
HandOffToInput(t) ==
  /\ pc[t] = "claimed"
  /\ Fault
  /\ TransitionAllowed(run, "leased", held[t])
  /\ SwapClaimed(t, "queued")
  /\ Goto(t, "queued")
  /\ held' = [held EXCEPT ![t] = 0]
  /\ UNCHANGED <<log, processVars, claimVars, beat, lost, version, outcome, nextId>>

EnqueueContinuation(t) ==
  /\ pc[t] = "claimed"
  /\ Goto(t, "queued")
  /\ UNCHANGED <<storeVars, processVars, claimVars, turnVars, bookVars>>

\* A queued turn is cancelled (its thread was killed, its continuation was
\* superseded): the run is settled unless another lease holds it.
CancelQueued(t) ==
  /\ pc[t] = "queued"
  /\ IF run.status # Absent /\ ~IsTerminal(run) /\ HoldsRun(t)
     THEN run' = WithStatus(run, "cancelled")
     ELSE UNCHANGED run
  /\ Leave(t)
  /\ UNCHANGED <<left, log, life, claimVars, bookVars>>

-----------------------------------------------------------------------------
(* The start of a turn *)

BeginDrain(t) ==
  /\ pc[t] = "queued"
  /\ ~DrainOwned(Home[t])
  /\ Goto(t, "starting")
  /\ UNCHANGED <<storeVars, processVars, claimVars, turnVars, bookVars>>

\* Mutant of StartAllowed: a settled run may be started again.
StartUnsettled(t) == HoldsRun(t)

StartAllowed(t) == ~IsTerminal(run) /\ HoldsRun(t)

\* Mutant of WriteStart: a start without a claim takes no lease.
WriteStartUnleased(t) ==
  /\ run' = WithLease(run, "running",
                     IF held[t] = 0 THEN NoLease
                     ELSE [id |-> held[t], attempt |-> run.lease.attempt,
                           owner |-> OwnerId(Home[t])])
  /\ left' = Deadline(Home[t])
  /\ UNCHANGED nextId

\* The running record: under the lease the claim took, or a fresh first one.
WriteStart(t) ==
  LET p     == Home[t]
      lease == IF held[t] = 0
               THEN [id |-> nextId, attempt |-> 1, owner |-> OwnerId(p)]
               ELSE [id |-> held[t], attempt |-> run.lease.attempt, owner |-> OwnerId(p)]
  IN  /\ run' = WithLease(run, "running", lease)
      /\ left' = Deadline(p)
      /\ nextId' = IF held[t] = 0 THEN nextId + 1 ELSE nextId

Start(t) ==
  /\ pc[t] = "starting"
  /\ StartAllowed(t)
  /\ WriteStart(t)
  /\ held' = [held EXCEPT ![t] = run'.lease.id]
  /\ Goto(t, "started")
  /\ UNCHANGED <<log, processVars, claimVars, beat, lost, version, outcome, faults>>

\* start-failed: the turn never had authority, so it writes nothing.
StartConflict(t) ==
  /\ pc[t] = "starting"
  /\ ~StartAllowed(t)
  /\ Leave(t)
  /\ UNCHANGED <<storeVars, life, claimVars, bookVars>>

\* The store failed the start, before or after it took effect.
StartError(t) ==
  /\ pc[t] = "starting"
  /\ Fault
  /\ \/ UNCHANGED <<run, left, nextId>>
     \/ StartAllowed(t) /\ WriteStart(t)
  /\ Leave(t)
  /\ UNCHANGED <<log, life, claimVars>>

\* The heartbeat starts: the process holds the lease and will renew it.
HoldLease(t) ==
  /\ pc[t] = "started"
  /\ active' = [active EXCEPT ![Home[t]] = @ \cup {held[t]}]
  /\ beat' = [beat EXCEPT ![t] = Armed]
  /\ Goto(t, IF LateBackstop THEN "scheduling" ELSE "running")
  /\ UNCHANGED <<storeVars, life, claimVars, held, lost, version, outcome, bookVars>>

ScheduleAfterStart(t) ==
  /\ pc[t] = "scheduling"
  /\ Goto(t, "running")
  /\ UNCHANGED <<storeVars, processVars, claimVars, turnVars, bookVars>>

\* A turn whose backstop cannot be scheduled frees its run and never starts.
ScheduleAfterStartError(t) ==
  /\ pc[t] = "scheduling"
  /\ Fault
  /\ IF TransitionAllowed(run, "running", held[t])
     THEN run' = WithLease(run, "queued", NoLease) /\ left' = 0
     ELSE UNCHANGED <<run, left>>
  /\ Leave(t)
  /\ UNCHANGED <<log, life, claimVars, nextId>>

-----------------------------------------------------------------------------
(* The heartbeat *)

Renewing(t) == beat[t].mode # "off" /\ pc[t] # "settling"

SetBeat(t, b) == beat' = [beat EXCEPT ![t] = b]

SendRenewal(t) ==
  /\ beat[t] = [mode |-> "armed", left |-> 0]
  /\ SetBeat(t, [mode |-> "sent", left |-> Deadline(Home[t])])
  /\ UNCHANGED <<storeVars, processVars, pc, claimVars, held, lost, version, outcome,
                 bookVars>>

\* Mutant of ApplyRenewal: a refused renewal only ends the heartbeat.
ApplyRenewalQuietly(t) ==
  /\ beat[t].mode = "sent"
  /\ IF TransitionAllowed(run, "running", held[t])
     THEN left' = beat[t].left /\ SetBeat(t, IF Renewing(t) THEN Armed ELSE NoBeat)
     ELSE SetBeat(t, NoBeat) /\ UNCHANGED left
  /\ UNCHANGED <<run, log, processVars, pc, claimVars, held, lost, version, outcome,
                 bookVars>>

\* The store answers a renewal.  The answer to a stopped heartbeat is ignored;
\* so is the loss, by a turn that does not yet listen for it.
ApplyRenewal(t) ==
  /\ beat[t].mode = "sent"
  /\ IF TransitionAllowed(run, "running", held[t])
     THEN /\ left' = beat[t].left
          /\ SetBeat(t, IF Renewing(t) THEN Armed ELSE NoBeat)
          /\ UNCHANGED lost
     ELSE /\ SetBeat(t, NoBeat)
          /\ lost' = IF pc[t] \in {"running", "failed"}
                     THEN [lost EXCEPT ![t] = TRUE] ELSE lost
          /\ UNCHANGED left
  /\ UNCHANGED <<run, log, processVars, pc, claimVars, held, version, outcome, bookVars>>

RenewalError(t) ==
  /\ beat[t].mode = "sent"
  /\ Fault
  /\ SetBeat(t, IF Renewing(t) THEN Armed ELSE NoBeat)
  /\ UNCHANGED <<storeVars, processVars, pc, claimVars, held, lost, version, outcome,
                 nextId>>

\* abandonLostTurn: the run's new owner continues it; nothing is written.
AbandonLost(t) ==
  /\ pc[t] \in {"running", "failed"}
  /\ lost[t]
  /\ Leave(t)
  /\ UNCHANGED <<storeVars, life, claimVars, bookVars>>

-----------------------------------------------------------------------------
(* The writes of a running turn *)

Write(t) == log' = Append(log, held[t])

ReadVersion(t) ==
  /\ pc[t] = "running"
  /\ version[t] = NoVersion
  /\ version' = [version EXCEPT ![t] = run.checkpointVersion]
  /\ UNCHANGED <<storeVars, processVars, pc, claimVars, held, beat, lost, outcome, bookVars>>

\* The fenced append of a tool checkpoint: it lands, is retried on a newer
\* version, or ends the turn.
WriteCheckpoint(t) ==
  /\ pc[t] = "running"
  /\ version[t] # NoVersion
  /\ Len(log) < MaxWrites
  /\ \/ /\ FencedWriteAllowed(run, held[t], version[t], version[t] + 1)
        /\ run' = [run EXCEPT !.checkpointVersion = version[t] + 1]
        /\ Write(t)
        /\ version' = [version EXCEPT ![t] = NoVersion]
        /\ UNCHANGED <<active, pc, held, beat, lost, outcome>>
     \/ /\ ~FencedWriteConflict(run, held[t])
        /\ ~CheckpointVersionAllowed(run, version[t])
        /\ version' = [version EXCEPT ![t] = NoVersion]
        /\ UNCHANGED <<run, log, active, pc, held, beat, lost, outcome>>
     \/ /\ FencedWriteConflict(run, held[t])
        /\ Leave(t)
        /\ UNCHANGED <<run, log>>
  /\ UNCHANGED <<left, life, claimVars, bookVars>>

\* A thread commit of the turn, or of a compaction routed through it.
CommitOwned(t) ==
  /\ pc[t] = "running"
  /\ Len(log) < MaxWrites
  /\ IF TransitionAllowed(run, "running", held[t])
     THEN Write(t) /\ UNCHANGED <<active, pc, turnVars>>
     ELSE Leave(t) /\ UNCHANGED log
  /\ UNCHANGED <<run, left, life, claimVars, bookVars>>

-----------------------------------------------------------------------------
(* The end of a turn *)

\* Renewal stops before the settlement is written; a renewal already on its
\* way may still reach the store.
StopRenewal(t) ==
  SetBeat(t, IF beat[t].mode = "sent" THEN beat[t] ELSE NoBeat)

FinishTurn(t) ==
  /\ pc[t] = "running"
  /\ ~lost[t]
  /\ \E status \in {"completed", "cancelled"} :
       outcome' = [outcome EXCEPT ![t] = status]
  /\ StopRenewal(t)
  /\ Goto(t, "settling")
  /\ UNCHANGED <<storeVars, processVars, claimVars, held, lost, version, bookVars>>

TurnThrows(t) ==
  /\ pc[t] = "running"
  /\ Goto(t, "failed")
  /\ UNCHANGED <<storeVars, processVars, claimVars, turnVars, bookVars>>

\* A failed turn re-reads its run and settles it only if it still owns it.
SettleFailedTurn(t) ==
  /\ pc[t] = "failed"
  /\ ~lost[t]
  /\ IF TransitionAllowed(run, "running", held[t])
     THEN /\ \E status \in {"error", "needs-recovery"} :
               outcome' = [outcome EXCEPT ![t] = status]
          /\ StopRenewal(t)
          /\ Goto(t, "settling")
          /\ UNCHANGED <<active, held, lost, version>>
     ELSE Leave(t)
  /\ UNCHANGED <<storeVars, life, claimVars, bookVars>>

\* Mutant of SettleAllowed: a turn settles its run whoever holds it.
SettleAnyLease(t) == run.status # Absent /\ ~IsTerminal(run)

SettleAllowed(t) == run.status # Absent /\ ~IsTerminal(run) /\ HoldsRun(t)

\* The terminal status and the thread's last commit, in one transaction.
WriteSettlement(t) ==
  run' = WithStatus(run, outcome[t]) /\ Write(t)

Settle(t) ==
  /\ pc[t] = "settling"
  /\ IF SettleAllowed(t) THEN WriteSettlement(t) ELSE UNCHANGED <<run, log>>
  /\ Leave(t)
  /\ UNCHANGED <<left, life, claimVars, bookVars>>

\* The store failed the settlement, before or after it took effect.  The
\* lease is released either way; the turn then settles as failed, once.
SettleError(t) ==
  /\ pc[t] = "settling"
  /\ Fault
  /\ \/ UNCHANGED <<run, log>>
     \/ SettleAllowed(t) /\ WriteSettlement(t)
  /\ IF outcome[t] \in {"completed", "cancelled"}
     THEN /\ Goto(t, "failed")
          /\ active' = [active EXCEPT ![Home[t]] = @ \ {held[t]}]
          /\ SetBeat(t, NoBeat)
          /\ outcome' = [outcome EXCEPT ![t] = NoOutcome]
          /\ UNCHANGED <<held, lost, version>>
     ELSE Leave(t)
  /\ UNCHANGED <<left, life, claimVars, nextId>>

-----------------------------------------------------------------------------
(* Operators, crashes and time *)

\* agent.resolveRecovery(): the parked run is requeued, with its decisions
\* recorded as a new checkpoint when there are calls to decide.
ResolveRecovery ==
  /\ run.status = "needs-recovery"
  /\ Fault
  /\ \E decided \in {0, 1} :
       run' = [WithLease(run, "queued", NoLease)
                 EXCEPT !.checkpointVersion = @ + decided]
  /\ left' = 0
  /\ UNCHANGED <<log, processVars, pc, claimVars, turnVars, nextId>>

\* A process dies with everything in its memory and comes back as another
\* lease owner.
Crash(p) ==
  LET Reset(f, v) == [t \in Task |-> IF Home[t] = p THEN v ELSE f[t]]
  IN  /\ Fault
      /\ life'    = [life EXCEPT ![p] = @ + 1]
      /\ active'  = [active EXCEPT ![p] = {}]
      /\ pc'      = Reset(pc, "idle")
      /\ seen'    = Reset(seen, Unseen)
      /\ gone'    = Reset(gone, 0)
      /\ held'    = Reset(held, 0)
      /\ beat'    = Reset(beat, NoBeat)
      /\ lost'    = Reset(lost, FALSE)
      /\ version' = Reset(version, NoVersion)
      /\ outcome' = Reset(outcome, NoOutcome)
      /\ UNCHANGED <<storeVars, nextId>>

Passed(n) == IF n = 0 THEN 0 ELSE n - 1

\* One unit of time passes.  With Prompt, it waits for heartbeats to start and
\* for the renewals that are due.
Elapse ==
  /\ Prompt => \A t \in Task :
       /\ pc[t] # "started" /\ beat[t].mode # "sent"
       /\ beat[t] # [mode |-> "armed", left |-> 0]
  /\ left' = Passed(left)
  /\ beat' = [t \in Task |-> [mode |-> beat[t].mode, left |-> Passed(beat[t].left)]]
  /\ UNCHANGED <<run, log, processVars, pc, claimVars, held, lost, version, outcome,
                 bookVars>>

Tick == (left > 0 \/ \E t \in Task : beat[t].left > 0) /\ Elapse

-----------------------------------------------------------------------------
Init ==
  /\ run = NewRun
  /\ left = 0
  /\ log = <<>>
  /\ life = [p \in Process |-> 0]
  /\ active = [p \in Process |-> {}]
  /\ pc = [t \in Task |-> "idle"]
  /\ held = [t \in Task |-> 0]
  /\ seen = [t \in Task |-> Unseen]
  /\ gone = [t \in Task |-> 0]
  /\ beat = [t \in Task |-> NoBeat]
  /\ lost = [t \in Task |-> FALSE]
  /\ version = [t \in Task |-> NoVersion]
  /\ outcome = [t \in Task |-> NoOutcome]
  /\ nextId = 1
  /\ faults = 0

Recover(t) ==
  \/ ReadRun(t) \/ CheckDrain(t) \/ Claim(t)
  \/ ParkClaimed(t) \/ CancelClaimed(t) \/ RequeueClaimed(t)
  \/ HandOffToInput(t) \/ EnqueueContinuation(t)

Begin(t) ==
  \/ EnqueueInput(t) \/ CancelQueued(t) \/ BeginDrain(t)
  \/ Start(t) \/ StartConflict(t) \/ StartError(t)
  \/ HoldLease(t) \/ ScheduleAfterStart(t) \/ ScheduleAfterStartError(t)

Renew(t) == SendRenewal(t) \/ ApplyRenewal(t) \/ RenewalError(t) \/ AbandonLost(t)

Work(t) == ReadVersion(t) \/ WriteCheckpoint(t) \/ CommitOwned(t)

End(t) ==
  \/ FinishTurn(t) \/ TurnThrows(t) \/ SettleFailedTurn(t)
  \/ Settle(t) \/ SettleError(t)

Next ==
  \/ \E t \in Task : Recover(t) \/ Begin(t) \/ Renew(t) \/ Work(t) \/ End(t)
  \/ \E p \in Process : Crash(p)
  \/ Precreate \/ ResolveRecovery \/ Tick

Spec == Init /\ [][Next]_vars

\* The event loop runs the heartbeat of a live turn: its timer fires, the
\* store answers, and the turn acts on a loss it is told of.  Nothing is fair
\* about users, other claims, crashes or the turn's own work.
HeartbeatFairness ==
  /\ WF_vars(Tick)
  /\ \A t \in Task : /\ WF_vars(SendRenewal(t))
                     /\ WF_vars(ApplyRenewal(t))
                     /\ WF_vars(AbandonLost(t))

FairSpec == Spec /\ HeartbeatFairness

-----------------------------------------------------------------------------
(* Properties *)

Lease  == [id : Nat, attempt : Nat, owner : (Process \X Nat) \cup {NoOwner}]
Record == [status : Status, lease : Lease, checkpointVersion : Nat]

\* The shapes of the variables, group by group.
StoreTypes == run \in Record /\ left \in Nat /\ log \in Seq(Nat)
ClaimTypes == /\ seen \in [Task -> [status : Status, lease : Lease]]
              /\ gone \in [Task -> Nat]
TurnTypes  == /\ active \in [Process -> SUBSET Nat]
              /\ pc \in [Task -> PC]
              /\ held \in [Task -> Nat]
              /\ beat \in [Task -> Beat]
              /\ lost \in [Task -> BOOLEAN]
              /\ version \in [Task -> Nat \cup {NoVersion}]
              /\ outcome \in [Task -> TerminalStatus \cup {NoOutcome}]
OtherTypes == life \in [Process -> Nat] /\ nextId \in Nat \ {0} /\ faults \in Nat

\* Every variable has its shape: among others, no write leaves the run in a
\* status the decisions do not know.
TypeOK == StoreTypes /\ ClaimTypes /\ TurnTypes /\ OtherTypes

\* Once a later owner has written for the run, no earlier owner ever writes
\* for it again: not a checkpoint, not a thread commit, not its settlement.
WritesFollowLeases ==
  \A i, j \in 1 .. Len(log) : i <= j => log[i] <= log[j]

\* At no time can two turns of the run both pass the store's fence.
OneAuthority ==
  \A s, t \in Task :
    /\ Working(s) /\ TransitionAllowed(run, "running", held[s])
    /\ Working(t) /\ TransitionAllowed(run, "running", held[t])
    => s = t

\* A settled run stays as it was settled, whoever still works on it; only an
\* operator reopens a run parked as needs-recovery, and then it is unleased.
SettledForever ==
  [][IsTerminal(run) =>
       \/ run' = run
       \/ /\ run.status = "needs-recovery"
          /\ run'.status = "queued" /\ run'.lease = NoLease]_vars

\* Whoever replaces a lease spends an attempt on it, however stale the record
\* its claim was made from, and no claim goes beyond the allowed attempts: a
\* run that keeps killing its processes is parked.
TakeoverSpendsAttempt ==
  [][run'.lease.id \notin {0, run.lease.id} =>
       /\ run'.lease.attempt > run.lease.attempt
       /\ run'.lease.attempt <= MaxAttempts]_vars

\* A turn that holds its lease in a live process, the settling one included,
\* is never taken for gone: it loses the run to a claim that found the lease
\* expired, and to nothing else.
TakenOnlyWhenLapsed ==
  [][\A t \in Task :
       /\ held[t] \in active[Home[t]]
       /\ HoldsRun(t)
       /\ run'.lease.id # run.lease.id
       /\ pc'[t] = pc[t]
       => \E p \in Process : Expired(p)]_vars

\* While renewals reach the store on time, a renewing turn keeps its run,
\* whatever the clocks of the processes that try to claim it.
RenewedNeverTaken ==
  [][\A t \in Task :
       /\ beat[t].mode # "off" /\ beat'[t].mode # "off"
       /\ HoldsRun(t)
       => run'.lease.id = run.lease.id]_vars

\* A turn whose run was taken over stops: it does not run on, calling models
\* and tools, while another owner runs the same turn.
SupersededTurnStops ==
  \A t \in Task : pc[t] = "running" /\ ~HoldsRun(t) ~> pc[t] # "running"

\* The stored lease is a fencing token: TurnAuthority seen through the record.
AuthorityState ==
  IF run.status = "needs-recovery" THEN "parked"
  ELSE IF IsTerminal(run) THEN "settled" ELSE "open"

Authority == INSTANCE TurnAuthority WITH
  owner  <- run.lease.id,
  issued <- nextId - 1,
  state  <- AuthorityState,
  writes <- log

\* Every step of the store, whoever takes it and however stale what it read,
\* is a step of that register or changes nothing in it.
ImplementsAuthority == Authority!Spec

-----------------------------------------------------------------------------
(* The inductive invariant behind the properties above: what the leases    *)
(* tasks carry are.  That the log follows them is TurnAuthority's.         *)

\* A turn that was started carries a lease, issued to it and to nobody else.
HeldIssued  == \A t \in Task : held[t] < nextId
WorkersHold == \A t \in Task : Working(t) => held[t] # 0
HeldApart   == \A s, t \in Task : held[s] = held[t] /\ held[s] # 0 => s = t

SettlingHasOutcome == \A t \in Task : pc[t] = "settling" => outcome[t] \in TerminalStatus

HeldInv  == HeldIssued /\ WorkersHold /\ HeldApart /\ SettlingHasOutcome
FenceInv == TypeOK /\ HeldInv

=============================================================================

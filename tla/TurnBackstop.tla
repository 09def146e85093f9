---------------------------- MODULE TurnBackstop ----------------------------
(***************************************************************************)
(* The check a host schedules for each started turn, so that a crashed     *)
(* turn resumes without anyone calling thread.continue(): TurnLease with   *)
(* the scheduled-work row of the run's check and the drains that serve it. *)
(* A Celld host's transactions schedule, so the start writes the row and   *)
(* the settlement removes it in their own transactions (LateBackstop is    *)
(* FALSE), and its drains claim the row under a lease of their own.        *)
(***************************************************************************)
EXTENDS TurnLease

CONSTANTS
  Drainer,      \* the tasks that are passes of drainCelldBackstops
  NoClaim,      \* the row's null claim_token
  BackstopMs,   \* TURN_BACKSTOP_DELAY_MS
  MarginMs,     \* TURN_BACKSTOP_MARGIN_MS
  ClaimMs,      \* SCHEDULED_WORK_LEASE_MS
  ErrorRetryMs, \* BACKSTOP_ERROR_RETRY_MS
  StartFails    \* the store may fail the transaction that starts a turn

ASSUME BackstopConstantsOK ==
  /\ Drainer \subseteq Task /\ NoClaim \notin Task
  /\ {BackstopMs, MarginMs, ClaimMs, ErrorRetryMs} \subseteq Nat
  /\ StartFails \in BOOLEAN /\ ~LateBackstop

VARIABLES
  row,          \* the run's check: when it is due, and the pass that claimed it
  check         \* where each pass is with the row it claimed

bvars == <<vars, row, check>>

-----------------------------------------------------------------------------
(* The row and the stages of a pass *)

\* A claimed row is due again when its claim expires (claimed_until = due_at).
NoRow == [set |-> FALSE, due |-> 0, claim |-> NoClaim]
Row(due, claim) == [set |-> TRUE, due |-> due, claim |-> claim]

Stage == {"none",      \* no row claimed
          "inspect",   \* the row is claimed; runTurnBackstop reads the run
          "resume",    \* agent.resume() is under way
          "after",     \* it gave no turn; runTurnBackstop reads the run again
          "turn",      \* the resumed turn's events are drained
          "ack",       \* the row is to be acknowledged
          "retry"}     \* the row is to be moved

NoCheck == [stage |-> "none", delay |-> 0]

SetStage(t, stage) == check' = [check EXCEPT ![t] = [stage |-> stage, delay |-> 0]]
SetRetry(t, delay) == check' = [check EXCEPT ![t] = [stage |-> "retry", delay |-> delay]]

InStage(t, stage) == check[t].stage = stage

Quiet == UNCHANGED vars

\* liveOwnerRetry: a lease that neither expired nor was left by a dead owner.
LiveOwner(t) ==
  /\ run.lease # NoLease
  /\ ~Expired(Home[t])
  /\ AbandonedLeaseId(Home[t], Snapshot(run)) = 0

\* Mutant of LiveRetryMs: the check comes due before the lease lapses.
LiveRetryBefore(t) == left - Skew[Home[t]] - MarginMs

LiveRetryMs(t) == left - Skew[Home[t]] + MarginMs

-----------------------------------------------------------------------------
(* A pass over the due row *)

ClaimCheck(t) ==
  /\ InStage(t, "none")
  /\ pc[t] = "idle"
  /\ row.set /\ row.due = 0
  /\ row' = Row(ClaimMs, t)
  /\ SetStage(t, "inspect")
  /\ Quiet

InspectRun(t) ==
  /\ InStage(t, "inspect")
  /\ \/ ~IsClaimable(run) /\ SetStage(t, "ack")
     \/ IsClaimable(run) /\ LiveOwner(t) /\ SetRetry(t, LiveRetryMs(t))
     \/ IsClaimable(run) /\ ~LiveOwner(t) /\ SetStage(t, "resume")
  /\ UNCHANGED row /\ Quiet

\* agent.resume(): no turn (nothing to claim, a busy drain, a lost claim, a
\* superseded run), a thrown error, or the turn whose events are drained.
NoTurn(t) ==
  /\ \/ pc[t] = "idle" /\ ~IsClaimable(run) /\ Quiet
     \/ (CheckDrain(t) \/ Claim(t)) /\ pc'[t] = "idle"
     \/ CancelClaimed(t)
  /\ SetStage(t, "after")

ResumeThrows(t) ==
  \/ ParkClaimed(t) /\ SetStage(t, "ack")
  \/ CancelClaimed(t) /\ SetStage(t, "ack")
  \/ RequeueClaimed(t) /\ \E delay \in {MarginMs, ErrorRetryMs} : SetRetry(t, delay)

GotTurn(t) ==
  /\ EnqueueContinuation(t) \/ HandOffToInput(t)
  /\ SetStage(t, "turn")

Resume(t) ==
  /\ InStage(t, "resume")
  /\ \/ ReadRun(t) /\ UNCHANGED check
     \/ (CheckDrain(t) \/ Claim(t)) /\ pc'[t] # "idle" /\ UNCHANGED check
     \/ NoTurn(t) \/ ResumeThrows(t) \/ GotTurn(t)
  /\ UNCHANGED row

\* Mutant of InspectAgain: a run that gave no turn is done with.
InspectAgainDone(t) ==
  /\ InStage(t, "after")
  /\ SetStage(t, "ack")
  /\ UNCHANGED row /\ Quiet

InspectAgain(t) ==
  /\ InStage(t, "after")
  /\ \/ ~IsClaimable(run) /\ SetStage(t, "ack")
     \/ /\ IsClaimable(run)
        /\ SetRetry(t, IF LiveOwner(t) THEN LiveRetryMs(t) ELSE BackstopMs)
  /\ UNCHANGED row /\ Quiet

\* Mutant of AckCheck: it drops whatever row the run has by now.
AckAnyCheck(t) ==
  /\ InStage(t, "ack")
  /\ row' = NoRow
  /\ SetStage(t, "none")
  /\ Quiet

\* Both match the row by the pass's claim: a row replaced since is left alone.
AckCheck(t) ==
  /\ InStage(t, "ack")
  /\ row' = IF row.claim = t THEN NoRow ELSE row
  /\ SetStage(t, "none")
  /\ Quiet

RetryCheck(t) ==
  /\ InStage(t, "retry")
  /\ row' = IF row.claim = t THEN Row(check[t].delay, NoClaim) ELSE row
  /\ SetStage(t, "none")
  /\ Quiet

\* The store fails a read, which moves the row, or the write that ends the
\* pass, which leaves it claimed until the claim expires.
CheckError(t) ==
  /\ Fault
  /\ \/ (InStage(t, "inspect") \/ InStage(t, "after")) /\ SetRetry(t, ErrorRetryMs)
     \/ (InStage(t, "ack") \/ InStage(t, "retry")) /\ SetStage(t, "none")
  /\ UNCHANGED <<storeVars, processVars, pc, claimVars, turnVars, nextId, row>>

Pass(t) ==
  \/ ClaimCheck(t) \/ InspectRun(t) \/ Resume(t) \/ InspectAgain(t)
  \/ AckCheck(t) \/ RetryCheck(t) \/ CheckError(t)

-----------------------------------------------------------------------------
(* The turn itself *)

\* The start replaces the run's check, claimed or not, in its transaction.
Starting(t) ==
  /\ Start(t) \/ (StartFails /\ StartError(t))
  /\ row' = IF run' # run THEN Row(BackstopMs, NoClaim) ELSE row

\* The settlement of a turn cancels the run's check in its transaction.
Settling(t) ==
  /\ Settle(t) \/ SettleError(t)
  /\ row' = IF run' # run THEN NoRow ELSE row

OtherTurnStep(t) ==
  /\ \/ BeginDrain(t) \/ StartConflict(t) \/ HoldLease(t) \/ CancelQueued(t)
     \/ Renew(t) \/ Work(t)
     \/ FinishTurn(t) \/ TurnThrows(t) \/ SettleFailedTurn(t)
  /\ UNCHANGED row

\* The events of a turn end when the turn does.
TurnStep(t) ==
  /\ Starting(t) \/ Settling(t) \/ OtherTurnStep(t)
  /\ IF InStage(t, "turn") /\ pc'[t] = "idle" THEN SetStage(t, "ack") ELSE UNCHANGED check

\* A user's send, thread.continue() or agent.resume().  The run's own input is
\* admitted before the run was ever claimed, or after it was handed back.
UserStep(t) ==
  /\ \/ EnqueueInput(t) /\ run.status \in {Absent, "queued"}
     \/ Recover(t)
  /\ UNCHANGED <<row, check>>

BackstopTick ==
  /\ left > 0 \/ row.due > 0 \/ \E t \in Task : beat[t].left > 0
  /\ Prompt => \A t \in Task : /\ pc[t] \notin {"claimed", "queued", "starting"}
                               /\ check[t].stage \in {"none", "turn"}
  /\ Elapse
  /\ row' = [row EXCEPT !.due = Passed(@)]
  /\ UNCHANGED check

\* A dead process's row stays claimed until the claim expires.
CrashWithPass(p) ==
  /\ Crash(p)
  /\ check' = [t \in Task |-> IF Home[t] = p THEN NoCheck ELSE check[t]]
  /\ UNCHANGED row

BInit == Init /\ row = NoRow /\ check = [t \in Task |-> NoCheck]

BNext ==
  \/ \E t \in Drainer : Pass(t)
  \/ \E t \in Task \ Drainer : UserStep(t)
  \/ \E t \in Task : TurnStep(t)
  \/ \E p \in Process : CrashWithPass(p)
  \/ (Precreate \/ ResolveRecovery) /\ UNCHANGED <<row, check>>
  \/ BackstopTick

BSpec == BInit /\ [][BNext]_bvars

\* What the process does on its own: its clock runs, its alarm drains the due
\* row, a claim becomes a turn or is settled, a queued turn starts, a started
\* one renews its lease or stops, and one that threw settles.  Nothing is fair
\* about users, failures, or how long a running turn works.
Proceed(t) ==
  \/ UserStep(t) /\ pc[t] = "claimed"
  \/ TurnStep(t) /\ pc[t] \in {"queued", "starting", "started", "settling"}
  \/ TurnStep(t) /\ pc[t] = "failed" /\ (SettleFailedTurn(t) \/ AbandonLost(t))
  \/ TurnStep(t) /\ AbandonLost(t)

BackstopFairness ==
  /\ WF_bvars(BackstopTick)
  /\ \A t \in Task :
       /\ WF_bvars(Proceed(t))
       /\ WF_bvars(SendRenewal(t) /\ UNCHANGED <<row, check>>)
       /\ WF_bvars(ApplyRenewal(t) /\ UNCHANGED <<row, check>>)
  /\ \A t \in Drainer : WF_bvars(Pass(t))

FairBSpec == BSpec /\ BackstopFairness

-----------------------------------------------------------------------------
(* Properties *)

\* Every variable has its shape, and a check is never due before now: the
\* retry time of a live owner's run lies past its lease.
BackstopTypeOK ==
  /\ TypeOK
  /\ row \in [set : BOOLEAN, due : Nat, claim : Drainer \cup {NoClaim}]
  /\ check \in [Task -> [stage : Stage, delay : Int]]
  /\ \A t \in Task \ Drainer : InStage(t, "none")

\* A run that was started and is not settled always has its check: no pass,
\* however late it ends, drops the check that a later start scheduled.
RunningHasCheck == run.status = "running" => row.set

\* Some live task of the run's owner is at work on it.
Attended == \E t \in Task : held[t] # 0 /\ HoldsRun(t) /\ pc[t] # "idle"

RunsAgain == \E t \in Task : Working(t) /\ HoldsRun(t)

\* A turn that was started and lost its process, or ended without settling its
\* run, is run again or settled without anyone asking for it.
CrashedTurnResumes ==
  run.status = "running" /\ ~Attended ~> ~IsClaimable(run) \/ RunsAgain

\* The only way for such a turn not to be run again or settled is a start that
\* fails: the run is left leased, and its check is gone.
OnlyLostChecksStrand ==
  run.status = "running" /\ ~Attended ~>
    ~IsClaimable(run) \/ RunsAgain \/ (run.status = "leased" /\ ~row.set)
=============================================================================

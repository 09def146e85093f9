------------------------ MODULE TurnBackstopProofs ------------------------
(***************************************************************************)
(* Theorems about TurnBackstop, for every set of processes, tasks and      *)
(* drains, every lease, delay and margin, every clock skew and every bound.*)
(***************************************************************************)
EXTENDS TurnBackstop, TurnLeaseProofs

USE DEF vars, storeVars, processVars, claimVars, turnVars, bookVars, bvars,
        Goto, SetBeat, Fault, Quiet, InStage

-----------------------------------------------------------------------------
(* The inductive invariant *)

\* A pass holds a claim of the run only while it resumes it.
ClaimsResume == \A t \in Drainer : pc[t] = "claimed" => InStage(t, "resume")

\* A pass that may drop the row it claimed has seen its run settled, or taken
\* it over: as long as no start replaced the row, the run is not running.
DropsSettled ==
  \A t \in Drainer :
    row.claim = t /\ (InStage(t, "turn") \/ InStage(t, "ack") \/ pc[t] = "claimed") =>
      run.status # "running"

\* A row is moved to a time that is not past.
RetriesLater == \A t \in Task : InStage(t, "retry") => check[t].delay \in Nat

BackstopInv ==
  /\ FenceInv /\ BackstopTypeOK /\ RetriesLater
  /\ ClaimsResume /\ DropsSettled /\ RunningHasCheck

Checks == [stage : Stage, delay : Int]
Rows   == [set : BOOLEAN, due : Nat, claim : Drainer \cup {NoClaim}]

-----------------------------------------------------------------------------
(* The turn beside its check *)

\* Every step is one of the turn's, or leaves the turn alone but for counting
\* a fault.
OnlyFaults ==
  /\ UNCHANGED <<storeVars, processVars, pc, claimVars, turnVars, nextId>>
  /\ faults' = faults + 1

LEMMA LeaseSteps ==
  ASSUME TypeOK, [BNext]_bvars
  PROVE  [Next]_vars \/ OnlyFaults
<1>1. ASSUME NEW t \in Drainer, Pass(t)
      PROVE  [Next]_vars \/ OnlyFaults
  <2>1. t \in Task
    BY BackstopConstantsOK
  <2>2. CASE ClaimCheck(t) \/ InspectRun(t) \/ InspectAgain(t) \/ AckCheck(t) \/ RetryCheck(t)
    BY <2>2 DEF ClaimCheck, InspectRun, InspectAgain, AckCheck, RetryCheck
  <2>3. CASE Resume(t)
    <3>1. Recover(t) \/ UNCHANGED vars
      BY <2>3 DEF Resume, NoTurn, ResumeThrows, GotTurn, Recover
    <3>2. QED
      BY <2>1, <3>1 DEF Next
  <2>4. CASE CheckError(t)
    BY <2>4 DEF CheckError, OnlyFaults
  <2>5. QED
    BY <1>1, <2>2, <2>3, <2>4 DEF Pass
<1>2. ASSUME NEW t \in Task, UserStep(t)
      PROVE  [Next]_vars
  BY <1>2 DEF UserStep, Begin, Next
<1>3. ASSUME NEW t \in Task, TurnStep(t)
      PROVE  [Next]_vars
  <2>1. Begin(t) \/ Renew(t) \/ Work(t) \/ End(t)
    BY <1>3 DEF TurnStep, Starting, Settling, OtherTurnStep, Begin, End
  <2>2. QED
    BY <2>1 DEF Next
<1>4. ASSUME NEW p \in Process, CrashWithPass(p)
      PROVE  [Next]_vars
  BY <1>4 DEF CrashWithPass, Next
<1>5. CASE BackstopTick
  <2>1. CASE left > 0 \/ \E t \in Task : beat[t].left > 0
    BY <1>5, <2>1 DEF BackstopTick, Tick, Next
  <2>2. CASE ~(left > 0 \/ \E t \in Task : beat[t].left > 0)
    <3>1. left = 0 /\ \A t \in Task : beat[t].left = 0
      BY <2>2 DEF TypeOK, StoreTypes, TurnTypes, Beat
    <3>2. left' = left
      BY <1>5, <3>1 DEF BackstopTick, Elapse, Passed
    <3>3. beat' = beat
      <4>1. \A t \in Task : beat[t] = [mode |-> beat[t].mode, left |-> 0]
        BY <3>1 DEF TypeOK, TurnTypes, Beat
      <4>2. beat' = [t \in Task |-> [mode |-> beat[t].mode, left |-> 0]]
        BY <1>5, <3>1 DEF BackstopTick, Elapse, Passed
      <4>3. QED
        BY <4>1, <4>2 DEF TypeOK, TurnTypes
    <3>4. QED
      BY <1>5, <3>2, <3>3 DEF BackstopTick, Elapse
  <2>3. QED
    BY <2>1, <2>2
<1>6. CASE (Precreate \/ ResolveRecovery) \/ UNCHANGED bvars
  BY <1>6 DEF Next
<1>7. QED
  BY <1>1, <1>2, <1>3, <1>4, <1>5, <1>6 DEF BNext

LEMMA StepFence == FenceInv /\ [BNext]_bvars => FenceInv'
<1> SUFFICES ASSUME FenceInv, [BNext]_bvars
             PROVE  FenceInv'
  OBVIOUS
<1>1. CASE [Next]_vars
  BY <1>1, StepType, StepHeld DEF FenceInv
<1>2. CASE OnlyFaults
  <2>1. TypeOK'
    BY <1>2, SameTypes DEF FenceInv, TypeOK, OnlyFaults
  <2>2. HeldInv'
    BY <1>2, SameHeld DEF OnlyFaults
  <2>3. QED
    BY <2>1, <2>2 DEF FenceInv
<1>3. QED
  BY <1>1, <1>2, LeaseSteps DEF FenceInv

-----------------------------------------------------------------------------
(* The run starts only with its check *)

\* A step after which the run runs only if it did before.
Unstarted == run'.status = "running" => run.status = "running"

LEMMA NotStarted ==
  ASSUME TypeOK, NEW status, status # "running"
  PROVE  /\ run' = WithStatus(run, status) => run'.status # "running"
         /\ \A lease : run' = WithLease(run, status, lease) => run'.status # "running"
  BY RecordTypes DEF WithStatus, WithLease, TypeOK, StoreTypes, Record

LEMMA RecoverUnstarted ==
  ASSUME TypeOK, NEW t \in Task, Recover(t)
  PROVE  /\ Unstarted
         /\ \A u \in Task : pc'[u] = "claimed" => pc[u] = "claimed" \/ (u = t /\ run'.status # "running")
<1>1. CASE ReadRun(t) \/ CheckDrain(t) \/ EnqueueContinuation(t)
  <2>1. run' = run /\ \E place \in {"read", "idle", "clear", "queued"} : Goto(t, place)
    BY <1>1 DEF ReadRun, CheckDrain, EnqueueContinuation
  <2>2. QED
    BY <2>1 DEF Unstarted, TypeOK, TurnTypes
<1>2. CASE Claim(t)
  <2>1. \/ run' = run /\ Goto(t, "idle")
        \/ run' = WithLease(run, "needs-recovery", NoLease) /\ Goto(t, "idle")
        \/ Goto(t, "claimed") /\ \E lease : run' = WithLease(run, "leased", lease)
    BY <1>2 DEF Claim, ExhaustedRun, ClaimedRun
  <2>2. CASE run' = run /\ Goto(t, "idle")
    BY <2>2 DEF Unstarted, TypeOK, TurnTypes
  <2>3. CASE run' = WithLease(run, "needs-recovery", NoLease) /\ Goto(t, "idle")
    BY <2>3, NotStarted DEF Unstarted, TypeOK, TurnTypes
  <2>4. CASE Goto(t, "claimed") /\ \E lease : run' = WithLease(run, "leased", lease)
    BY <2>4, NotStarted DEF Unstarted, TypeOK, TurnTypes
  <2>5. QED
    BY <2>1, <2>2, <2>3, <2>4
<1>3. CASE ParkClaimed(t) \/ CancelClaimed(t) \/ RequeueClaimed(t) \/ HandOffToInput(t)
  <2>1. \/ run' = run
        \/ \E status \in {"needs-recovery", "cancelled", "queued"} : run' = WithLease(run, status, NoLease)
    BY <1>3 DEF ParkClaimed, CancelClaimed, RequeueClaimed, HandOffToInput, SwapClaimed
  <2>2. Goto(t, "idle") \/ Goto(t, "queued")
    BY <1>3 DEF ParkClaimed, CancelClaimed, RequeueClaimed, HandOffToInput, Leave
  <2>3. Unstarted
    BY <2>1, NotStarted DEF Unstarted
  <2>4. QED
    BY <2>2, <2>3 DEF TypeOK, TurnTypes
<1>4. QED
  BY <1>1, <1>2, <1>3 DEF Recover

\* A turn's step leaves its run not running, unless it starts it, and puts no
\* task among those that hold a claim.
LEMMA TurnUnstarted ==
  ASSUME FenceInv, NEW t \in Task, TurnStep(t)
  PROVE  /\ Unstarted \/ (Starting(t) /\ run' # run)
         /\ Settling(t) /\ run' # run => run'.status # "running"
         /\ \A u \in Task : pc'[u] = "claimed" => pc[u] = "claimed"
         /\ \A u \in Task \ {t} : pc'[u] = pc[u]
<1> USE DEF FenceInv
<1>1. CASE Starting(t)
  <2>1. \E place \in {"started", "idle"} : Goto(t, place)
    BY <1>1 DEF Starting, Start, StartError, Leave
  <2>2. ~(pc[t] = "settling")
    BY <1>1 DEF Starting, Start, StartError
  <2>3. ~Settling(t)
    BY <2>2 DEF Settling, Settle, SettleError
  <2>4. QED
    BY <1>1, <2>1, <2>3 DEF Unstarted, TypeOK, TurnTypes
<1>2. CASE Settling(t)
  <2>1. pc[t] = "settling" /\ (Goto(t, "failed") \/ Goto(t, "idle"))
    BY <1>2 DEF Settling, Settle, SettleError, Leave
  <2>2. outcome[t] \in TerminalStatus
    BY <2>1 DEF HeldInv, SettlingHasOutcome
  <2>3. run' = run \/ run' = WithStatus(run, outcome[t])
    BY <1>2 DEF Settling, Settle, SettleError, WriteSettlement
  <2>4. run' # run => run'.status # "running"
    BY <2>2, <2>3, NotStarted DEF TerminalStatus
  <2>5. QED
    BY <2>1, <2>3, <2>4 DEF Unstarted, TypeOK, TurnTypes
<1>3. CASE OtherTurnStep(t)
  <2>1. \/ run' = run \/ run' = WithStatus(run, "cancelled")
        \/ \E v : run' = [run EXCEPT !.checkpointVersion = v]
    BY <1>3 DEF OtherTurnStep, BeginDrain, StartConflict, HoldLease, CancelQueued, Renew, SendRenewal,
       ApplyRenewal, RenewalError, AbandonLost, Work, ReadVersion, WriteCheckpoint, CommitOwned,
       FinishTurn, TurnThrows, SettleFailedTurn
  <2>2. \/ pc' = pc
        \/ \E place \in {"starting", "idle", "running", "scheduling", "settling", "failed"} : Goto(t, place)
    BY <1>3 DEF OtherTurnStep, BeginDrain, StartConflict, HoldLease, CancelQueued, Renew, SendRenewal,
       ApplyRenewal, RenewalError, AbandonLost, Work, ReadVersion, WriteCheckpoint, CommitOwned,
       FinishTurn, TurnThrows, SettleFailedTurn, Leave
  <2>3. Unstarted
    BY <2>1, NotStarted, RecordTypes DEF Unstarted, TypeOK, StoreTypes, Record
  <2>4. Settling(t) /\ run' # run => run'.status # "running"
    <3>1. Settling(t) => pc[t] = "settling"
      BY DEF Settling, Settle, SettleError
    <3>2. pc[t] # "settling" \/ Renew(t)
      BY <1>3 DEF OtherTurnStep, BeginDrain, StartConflict, HoldLease, CancelQueued, Work, ReadVersion,
         WriteCheckpoint, CommitOwned, FinishTurn, TurnThrows, SettleFailedTurn
    <3>3. Renew(t) => run' = run
      BY DEF Renew, SendRenewal, ApplyRenewal, RenewalError, AbandonLost
    <3>4. QED
      BY <3>1, <3>2, <3>3
  <2>5. QED
    BY <2>2, <2>3, <2>4 DEF TypeOK, TurnTypes
<1>4. QED
  BY <1>1, <1>2, <1>3 DEF TurnStep
\* A crash starts nothing and claims nothing.
LEMMA CrashUnstarted ==
  ASSUME TypeOK, NEW p \in Process, Crash(p)
  PROVE  Unstarted /\ \A u \in Task : pc'[u] = "claimed" => pc[u] = "claimed"
  BY DEF Crash, Unstarted, TypeOK, TurnTypes

-----------------------------------------------------------------------------
(* The shape of the row and of the passes *)

\* A lease that holds for a drain is not past it by that drain's clock.
LEMMA LiveRetryLater ==
  ASSUME TypeOK, NEW t \in Task, LiveOwner(t)
  PROVE  LiveRetryMs(t) \in Nat
<1>1. Home[t] \in Process /\ Skew[Home[t]] \in Int /\ MarginMs \in Nat /\ left \in Nat
  BY ConstantsOK, BackstopConstantsOK DEF TypeOK, StoreTypes
<1>2. left > Skew[Home[t]]
  BY <1>1 DEF LiveOwner, Expired
<1>3. QED
  BY <1>1, <1>2 DEF LiveRetryMs

\* What a step of a pass does with its place: one entry changes, and a
\* retry is for later.
LEMMA PassStage ==
  ASSUME BackstopInv, NEW t \in Drainer, Pass(t)
  PROVE  \E stage \in Stage, delay \in Nat :
           /\ check' = [check EXCEPT ![t] = [stage |-> stage, delay |-> delay]]
              \/ UNCHANGED check
<1>1. t \in Task /\ BackstopMs \in Nat /\ MarginMs \in Nat /\ ErrorRetryMs \in Nat
  BY BackstopConstantsOK
<1>2. /\ {"none", "inspect", "resume", "after", "turn", "ack", "retry"} \subseteq Stage /\ 0 \in Nat
      /\ LiveOwner(t) => LiveRetryMs(t) \in Nat
  BY <1>1, LiveRetryLater DEF Stage, BackstopInv, FenceInv
<1>3. \/ UNCHANGED check
      \/ \E stage \in Stage : SetStage(t, stage)
      \/ \E delay \in Nat : SetRetry(t, delay)
  <2>1. CASE ClaimCheck(t) \/ AckCheck(t) \/ RetryCheck(t)
    BY <1>2, <2>1 DEF ClaimCheck, AckCheck, RetryCheck
  <2>2. CASE InspectRun(t)
    BY <1>2, <2>2 DEF InspectRun
  <2>3. CASE Resume(t)
    BY <1>1, <1>2, <2>3 DEF Resume, NoTurn, ResumeThrows, GotTurn
  <2>4. CASE InspectAgain(t)
    <3>1. CASE ~IsClaimable(run)
      BY <1>2, <2>4, <3>1 DEF InspectAgain
    <3>2. CASE IsClaimable(run)
      BY <1>1, <1>2, <2>4, <3>2 DEF InspectAgain
    <3>3. QED
      BY <3>1, <3>2
  <2>5. CASE CheckError(t)
    BY <1>1, <1>2, <2>5 DEF CheckError
  <2>6. QED
    BY <2>1, <2>2, <2>3, <2>4, <2>5 DEF Pass
<1>4. QED
  BY <1>2, <1>3 DEF SetStage, SetRetry

\* Passes' places keep their shape in every step.
LEMMA StepChecks ==
  ASSUME BackstopInv, [BNext]_bvars
  PROVE  /\ check' \in [Task -> Checks]
         /\ \A t \in Task \ Drainer : check'[t].stage = "none"
         /\ \A t \in Task : check'[t].stage = "retry" => check'[t].delay \in Nat
<1>1. /\ check \in [Task -> Checks]
      /\ \A t \in Task \ Drainer : check[t].stage = "none"
      /\ \A t \in Task : check[t].stage = "retry" => check[t].delay \in Nat
  BY DEF BackstopInv, BackstopTypeOK, RetriesLater, Checks
<1>2. CASE UNCHANGED check
  BY <1>1, <1>2
<1>3. ASSUME NEW t \in Drainer, NEW stage \in Stage, NEW delay \in Nat,
             check' = [check EXCEPT ![t] = [stage |-> stage, delay |-> delay]]
      PROVE  /\ check' \in [Task -> Checks]
             /\ \A u \in Task \ Drainer : check'[u].stage = "none"
             /\ \A u \in Task : check'[u].stage = "retry" => check'[u].delay \in Nat
  <2>1. t \in Task /\ [stage |-> stage, delay |-> delay] \in Checks
    BY BackstopConstantsOK DEF Checks
  <2>2. QED
    BY <1>1, <1>3, <2>1
<1>4. ASSUME NEW t \in Drainer, Pass(t)
      PROVE  /\ check' \in [Task -> Checks]
             /\ \A u \in Task \ Drainer : check'[u].stage = "none"
             /\ \A u \in Task : check'[u].stage = "retry" => check'[u].delay \in Nat
  BY <1>2, <1>3, <1>4, PassStage
<1>5. ASSUME NEW t \in Task, TurnStep(t), ~UNCHANGED check
      PROVE  t \in Drainer /\ SetStage(t, "ack")
  <2>1. InStage(t, "turn") /\ SetStage(t, "ack")
    BY <1>5 DEF TurnStep
  <2>2. QED
    BY <1>1, <2>1
<1>6. ASSUME NEW p \in Process, CrashWithPass(p)
      PROVE  /\ check' \in [Task -> Checks]
             /\ \A u \in Task \ Drainer : check'[u].stage = "none"
             /\ \A u \in Task : check'[u].stage = "retry" => check'[u].delay \in Nat
  <2>1. check' = [t \in Task |-> IF Home[t] = p THEN NoCheck ELSE check[t]]
    BY <1>6 DEF CrashWithPass
  <2>2. NoCheck \in Checks /\ NoCheck.stage = "none"
    BY DEF NoCheck, Checks, Stage
  <2>3. QED
    BY <1>1, <2>1, <2>2
<1>7. CASE \E t \in Task : TurnStep(t) /\ ~UNCHANGED check
  <2>1. PICK t \in Drainer : SetStage(t, "ack")
    BY <1>5, <1>7
  <2>2. check' = [check EXCEPT ![t] = [stage |-> "ack", delay |-> 0]] /\ "ack" \in Stage /\ 0 \in Nat
    BY <2>1 DEF SetStage, Stage
  <2>3. QED
    BY <1>3, <2>2
<1>8. QED
  BY <1>2, <1>4, <1>6, <1>7 DEF BNext, UserStep, BackstopTick

LEMMA StepRow ==
  ASSUME BackstopInv, [BNext]_bvars
  PROVE  row' \in Rows
<1>1. row \in Rows
  BY DEF BackstopInv, BackstopTypeOK, Rows
<1>2. /\ NoRow \in Rows
      /\ \A due \in Nat, claim \in Drainer \cup {NoClaim} : Row(due, claim) \in Rows
  BY DEF NoRow, Row, Rows
<1>3. BackstopMs \in Nat /\ ClaimMs \in Nat
  BY BackstopConstantsOK
<1>4. ASSUME NEW t \in Drainer, Pass(t)
      PROVE  row' \in Rows
  <2>1. CASE ClaimCheck(t)
    BY <1>2, <1>3, <2>1 DEF ClaimCheck
  <2>2. CASE AckCheck(t)
    BY <1>1, <1>2, <2>2 DEF AckCheck
  <2>3. CASE RetryCheck(t)
    <3>1. check[t].delay \in Nat
      BY <2>3, BackstopConstantsOK DEF RetryCheck, BackstopInv, RetriesLater
    <3>2. QED
      BY <1>1, <1>2, <2>3, <3>1 DEF RetryCheck
  <2>4. QED
    BY <1>1, <1>4, <2>1, <2>2, <2>3 DEF Pass, InspectRun, Resume, InspectAgain, CheckError
<1>5. ASSUME NEW t \in Task, TurnStep(t)
      PROVE  row' \in Rows
  BY <1>1, <1>2, <1>3, <1>5 DEF TurnStep, Starting, Settling, OtherTurnStep
<1>6. CASE BackstopTick
  <2>1. row' = [row EXCEPT !.due = Passed(row.due)] /\ row.due \in Nat
    BY <1>1, <1>6 DEF BackstopTick, Rows
  <2>2. Passed(row.due) \in Nat
    BY <2>1 DEF Passed
  <2>3. QED
    BY <1>1, <2>1, <2>2 DEF Rows
<1>7. QED
  BY <1>1, <1>4, <1>5, <1>6 DEF BNext, UserStep, CrashWithPass

-----------------------------------------------------------------------------
(* What may drop the check *)

\* What resuming does to a pass, and that it starts nothing.
LEMMA ResumeStep ==
  ASSUME BackstopInv, NEW t \in Drainer, Resume(t)
  PROVE  /\ Unstarted /\ UNCHANGED row /\ InStage(t, "resume")
         /\ \A u \in Task \ {t} : /\ check'[u] = check[u]
                                  /\ pc'[u] = "claimed" => pc[u] = "claimed"
         /\ \/ UNCHANGED check
            \/ pc'[t] # "claimed" /\ (pc[t] = "claimed" \/ check'[t].stage \notin {"turn", "ack"})
         /\ pc'[t] = "claimed" => pc[t] = "claimed" \/ run'.status # "running"
<1>1. t \in Task /\ TypeOK /\ check \in [Task -> Checks]
  BY BackstopConstantsOK DEF BackstopInv, FenceInv, BackstopTypeOK, Checks
<1>2. InStage(t, "resume") /\ UNCHANGED row
  BY DEF Resume
<1>3. Recover(t) \/ UNCHANGED vars
  BY DEF Resume, NoTurn, ResumeThrows, GotTurn, Recover
<1>4. /\ Unstarted
      /\ \A u \in Task : pc'[u] = "claimed" => pc[u] = "claimed" \/ (u = t /\ run'.status # "running")
  BY <1>1, <1>3, RecoverUnstarted DEF Unstarted
<1>5. CASE NoTurn(t)
  <2>1. SetStage(t, "after")
    BY <1>5 DEF NoTurn
  <2>2. pc'[t] # "claimed"
    BY <1>1, <1>5 DEF NoTurn, CancelClaimed, Leave, TypeOK, TurnTypes
  <2>3. check'[t].stage = "after" /\ \A u \in Task \ {t} : check'[u] = check[u]
    BY <1>1, <2>1 DEF SetStage
  <2>4. QED
    BY <1>2, <1>1, <1>4, <2>2, <2>3
<1>6. CASE ResumeThrows(t)
  <2>1. SetStage(t, "ack") \/ \E delay : SetRetry(t, delay)
    BY <1>6 DEF ResumeThrows
  <2>2. pc[t] = "claimed" /\ pc'[t] # "claimed"
    BY <1>1, <1>6 DEF ResumeThrows, ParkClaimed, CancelClaimed, RequeueClaimed, Leave, TypeOK, TurnTypes
  <2>3. \A u \in Task \ {t} : check'[u] = check[u]
    BY <1>1, <2>1 DEF SetStage, SetRetry
  <2>4. QED
    BY <1>2, <1>1, <1>4, <2>2, <2>3
<1>7. CASE GotTurn(t)
  <2>1. SetStage(t, "turn")
    BY <1>7 DEF GotTurn
  <2>2. pc[t] = "claimed" /\ pc'[t] # "claimed"
    BY <1>1, <1>7 DEF GotTurn, EnqueueContinuation, HandOffToInput, TypeOK, TurnTypes
  <2>3. \A u \in Task \ {t} : check'[u] = check[u]
    BY <1>1, <2>1 DEF SetStage, SetRetry
  <2>4. QED
    BY <1>2, <1>1, <1>4, <2>2, <2>3
<1>8. CASE UNCHANGED check
  BY <1>2, <1>1, <1>4, <1>8
<1>9. QED
  BY <1>5, <1>6, <1>7, <1>8 DEF Resume

\* The steps of a pass that leave the turn alone.
Looks(t) == InspectRun(t) \/ InspectAgain(t) \/ CheckError(t) \/ RetryCheck(t)

LEMMA LookStep ==
  ASSUME BackstopInv, NEW t \in Drainer, Looks(t)
  PROVE  /\ UNCHANGED <<run, pc>> /\ pc[t] # "claimed"
         /\ \A u \in Task \ {t} : check'[u] = check[u]
         /\ check'[t].stage \in {"ack", "retry", "resume", "none"}
         /\ check'[t].stage = "ack" => run.status # "running"
         /\ row'.claim \in {row.claim, NoClaim}
         /\ row.set => row'.set
<1>1. t \in Task /\ check \in [Task -> Checks]
  BY BackstopConstantsOK DEF BackstopInv, BackstopTypeOK, Checks
<1>2. ~InStage(t, "resume") /\ UNCHANGED <<run, pc>>
  BY DEF Looks, InspectRun, InspectAgain, CheckError, RetryCheck
<1>3. pc[t] # "claimed"
  BY <1>2 DEF BackstopInv, ClaimsResume
<1>4. \/ \E delay : SetRetry(t, delay)
      \/ SetStage(t, "resume") \/ SetStage(t, "none")
      \/ SetStage(t, "ack") /\ ~IsClaimable(run)
  BY DEF Looks, InspectRun, InspectAgain, CheckError, RetryCheck
<1>5. ~IsClaimable(run) => run.status # "running"
  BY DEF IsClaimable, ClaimableStatus
<1>6. /\ \A u \in Task \ {t} : check'[u] = check[u]
      /\ check'[t].stage \in {"ack", "retry", "resume", "none"}
      /\ check'[t].stage = "ack" => run.status # "running"
  BY <1>1, <1>4, <1>5 DEF SetRetry, SetStage
<1>7. UNCHANGED row \/ row' = Row(check[t].delay, NoClaim)
  BY DEF Looks, InspectRun, InspectAgain, CheckError, RetryCheck
<1>8. row'.claim \in {row.claim, NoClaim} /\ (row.set => row'.set)
  BY <1>7 DEF Row
<1>9. QED
  BY <1>2, <1>3, <1>6, <1>8

\* What a turn's step does to a pass and to its row: the pass is done with its
\* turn when the turn is, a start replaces the row, a settlement removes it.
LEMMA TurnBeside ==
  ASSUME BackstopInv, NEW t \in Task, TurnStep(t)
  PROVE  /\ \A u \in Task : pc'[u] = "claimed" => pc[u] = "claimed"
         /\ \A u \in Task : (check'[u] = check[u] \/ (check[u].stage = "turn" /\ check'[u].stage = "ack"))
         /\ \/ Unstarted /\ UNCHANGED row
            \/ row' = Row(BackstopMs, NoClaim)
            \/ Unstarted /\ row' = NoRow /\ run'.status # "running"
<1>1. FenceInv /\ check \in [Task -> Checks]
  BY DEF BackstopInv, BackstopTypeOK, Checks
<1>2. /\ Unstarted \/ (Starting(t) /\ run' # run)
      /\ Settling(t) /\ run' # run => run'.status # "running"
      /\ \A u \in Task : pc'[u] = "claimed" => pc[u] = "claimed"
  BY <1>1, TurnUnstarted
<1>3. \A u \in Task : (check'[u] = check[u] \/ (check[u].stage = "turn" /\ check'[u].stage = "ack"))
  <2>1. UNCHANGED check \/ (InStage(t, "turn") /\ SetStage(t, "ack"))
    BY DEF TurnStep
  <2>2. QED
    BY <1>1, <2>1 DEF SetStage
<1>4. CASE Starting(t)
  BY <1>2, <1>3, <1>4 DEF Starting, Unstarted
<1>5. CASE Settling(t)
  BY <1>2, <1>3, <1>5 DEF Settling, Unstarted
<1>6. CASE OtherTurnStep(t) /\ ~Starting(t)
  BY <1>2, <1>3, <1>6 DEF OtherTurnStep
<1>7. QED
  BY <1>4, <1>5, <1>6 DEF TurnStep

\* The steps that touch neither a pass nor the row, and start nothing.
LEMMA OtherStep ==
  ASSUME BackstopInv,
         \/ \E t \in Task \ Drainer : UserStep(t)
         \/ \E p \in Process : CrashWithPass(p)
         \/ (Precreate \/ ResolveRecovery) /\ UNCHANGED <<row, check>>
         \/ BackstopTick
         \/ UNCHANGED bvars
  PROVE  /\ Unstarted /\ row'.set = row.set /\ row'.claim = row.claim
         /\ \A u \in Drainer : /\ pc'[u] = "claimed" => pc[u] = "claimed"
                               /\ check'[u] = check[u] \/ (check'[u].stage = "none" /\ pc'[u] # "claimed")
<1>1. /\ TypeOK /\ Drainer \subseteq Task /\ pc \in [Task -> PC] /\ check \in [Task -> Checks]
      /\ row \in Rows
  BY BackstopConstantsOK DEF BackstopInv, FenceInv, BackstopTypeOK, Checks, Rows, TypeOK, TurnTypes
<1>2. ASSUME NEW t \in Task \ Drainer, UserStep(t)
      PROVE  Unstarted /\ \A u \in Drainer : pc'[u] = "claimed" => pc[u] = "claimed"
  <2>1. CASE EnqueueInput(t)
    BY <1>1, <2>1 DEF EnqueueInput, Unstarted
  <2>2. CASE Recover(t)
    BY <1>1, <2>2, RecoverUnstarted
  <2>3. QED
    BY <1>2, <2>1, <2>2 DEF UserStep
<1>3. ASSUME NEW t \in Task \ Drainer, UserStep(t)
      PROVE  UNCHANGED <<row, check>>
  BY <1>3 DEF UserStep
<1>4. ASSUME NEW p \in Process, CrashWithPass(p)
      PROVE  /\ Unstarted /\ UNCHANGED row
             /\ \A u \in Drainer : /\ pc'[u] = "claimed" => pc[u] = "claimed"
                                   /\ check'[u] = check[u] \/ (check'[u].stage = "none" /\ pc'[u] # "claimed")
  <2>1. Unstarted /\ \A u \in Task : pc'[u] = "claimed" => pc[u] = "claimed"
    BY <1>1, <1>4, CrashUnstarted DEF CrashWithPass
  <2>2. \A u \in Task : Home[u] = p => check'[u].stage = "none"
    BY <1>4 DEF CrashWithPass, NoCheck
  <2>3. \A u \in Task : Home[u] = p => pc'[u] # "claimed"
    BY <1>4 DEF CrashWithPass, Crash
  <2>4. \A u \in Task : Home[u] # p => check'[u] = check[u]
    BY <1>4 DEF CrashWithPass
  <2>5. UNCHANGED row
    BY <1>4 DEF CrashWithPass
  <2>6. QED
    BY <1>1, <2>1, <2>2, <2>3, <2>4, <2>5
<1>5. CASE (Precreate \/ ResolveRecovery) /\ UNCHANGED <<row, check>>
  <2>1. UNCHANGED pc /\ run'.status = "queued"
    BY <1>1, <1>5 DEF Precreate, ResolveRecovery, WithStatus, WithLease, TypeOK, StoreTypes, Record
  <2>2. QED
    BY <1>5, <2>1 DEF Unstarted
<1>6. CASE BackstopTick
  <2>1. row' = [row EXCEPT !.due = Passed(row.due)] /\ UNCHANGED <<run, pc, check>>
    BY <1>6 DEF BackstopTick, Elapse
  <2>2. row'.set = row.set /\ row'.claim = row.claim
    BY <1>1, <2>1 DEF Rows
  <2>3. QED
    BY <2>1, <2>2 DEF Unstarted
<1>7. CASE UNCHANGED bvars
  BY <1>7 DEF Unstarted
<1>8. QED
  BY <1>2, <1>3, <1>4, <1>5, <1>6, <1>7

\* The kinds of steps, by what they may do to the row and to the run.
LEMMA StepKinds ==
  ASSUME [BNext]_bvars
  PROVE  \/ \E t \in Drainer : ClaimCheck(t)
         \/ \E t \in Drainer : AckCheck(t)
         \/ \E t \in Drainer : Resume(t)
         \/ \E t \in Drainer : Looks(t)
         \/ \E t \in Task : TurnStep(t)
         \/ \/ \E t \in Task \ Drainer : UserStep(t)
            \/ \E p \in Process : CrashWithPass(p)
            \/ (Precreate \/ ResolveRecovery) /\ UNCHANGED <<row, check>>
            \/ BackstopTick
            \/ UNCHANGED bvars
  BY DEF BNext, Pass, Looks

LEMMA StepDrops ==
  ASSUME BackstopInv, [BNext]_bvars
  PROVE  ClaimsResume' /\ DropsSettled'
<1> SUFFICES ASSUME NEW u \in Drainer
             PROVE  /\ pc'[u] = "claimed" => check'[u].stage = "resume"
                    /\ row'.claim = u /\ (check'[u].stage \in {"turn", "ack"} \/ pc'[u] = "claimed")
                         => run'.status # "running"
  BY DEF ClaimsResume, DropsSettled
<1>1. /\ u \in Task /\ u # NoClaim
      /\ pc[u] = "claimed" => check[u].stage = "resume"
      /\ row.claim = u /\ (check[u].stage \in {"turn", "ack"} \/ pc[u] = "claimed")
           => run.status # "running"
  BY BackstopConstantsOK DEF BackstopInv, ClaimsResume, DropsSettled
<1>2. check \in [Task -> Checks] /\ Drainer \subseteq Task
  BY BackstopConstantsOK DEF BackstopInv, BackstopTypeOK, Checks
<1>3. ASSUME NEW t \in Drainer, ClaimCheck(t)
      PROVE  /\ UNCHANGED <<run, pc>> /\ row'.claim = t /\ pc[t] = "idle"
             /\ check'[u] = check[u] \/ (u = t /\ check'[u].stage = "inspect")
  BY <1>1, <1>2, <1>3 DEF ClaimCheck, SetStage, Row
<1>4. ASSUME NEW t \in Drainer, AckCheck(t)
      PROVE  /\ UNCHANGED <<run, pc>> /\ row'.claim \in {row.claim, NoClaim} /\ pc[t] # "claimed"
             /\ check'[u] = check[u] \/ (u = t /\ check'[u].stage = "none")
  BY <1>1, <1>2, <1>4 DEF AckCheck, SetStage, NoRow, BackstopInv, ClaimsResume
<1>5. CASE \E t \in Drainer : ClaimCheck(t)
  <2>1. PICK t \in Drainer : ClaimCheck(t)
    BY <1>5
  <2>2. /\ UNCHANGED <<run, pc>> /\ row'.claim = t /\ pc[t] = "idle"
        /\ check'[u] = check[u] \/ (u = t /\ check'[u].stage = "inspect")
    BY <1>3, <2>1
  <2>3. CASE u # t
    BY <1>1, <2>2, <2>3
  <2>4. CASE u = t
    <3>1. InStage(t, "none") /\ check'[u].stage = "inspect"
      BY <1>2, <2>1, <2>4 DEF ClaimCheck, SetStage
    <3>2. QED
      BY <2>2, <2>4, <3>1
  <2>5. QED
    BY <2>3, <2>4
<1>6. CASE \E t \in Drainer : AckCheck(t)
  BY <1>1, <1>4, <1>6
<1>7. CASE \E t \in Drainer : Resume(t)
  <2>1. PICK t \in Drainer : Resume(t)
    BY <1>7
  <2>2. CASE u # t
    BY <1>1, <2>1, <2>2, ResumeStep DEF Unstarted
  <2>3. CASE u = t
    BY <1>1, <2>1, <2>3, ResumeStep DEF Unstarted
  <2>4. QED
    BY <2>2, <2>3
<1>8. CASE \E t \in Drainer : Looks(t)
  <2>1. PICK t \in Drainer : Looks(t)
    BY <1>8
  <2>2. CASE u # t
    BY <1>1, <2>1, <2>2, LookStep
  <2>3. CASE u = t
    BY <1>1, <2>1, <2>3, LookStep
  <2>4. QED
    BY <2>2, <2>3
<1>9. CASE \E t \in Task : TurnStep(t)
  <2>1. PICK t \in Task : TurnStep(t)
    BY <1>9
  <2>2. /\ pc'[u] = "claimed" => pc[u] = "claimed"
        /\ (check'[u] = check[u] \/ (check[u].stage = "turn" /\ check'[u].stage = "ack"))
        /\ \/ Unstarted /\ UNCHANGED row
           \/ row'.claim = NoClaim
    BY <1>1, <2>1, TurnBeside DEF Row, NoRow
  <2>3. QED
    BY <1>1, <2>2 DEF Unstarted
<1>10. CASE \/ \E t \in Task \ Drainer : UserStep(t)
            \/ \E p \in Process : CrashWithPass(p)
            \/ (Precreate \/ ResolveRecovery) /\ UNCHANGED <<row, check>>
            \/ BackstopTick
            \/ UNCHANGED bvars
  BY <1>1, <1>10, OtherStep DEF Unstarted
<1>11. QED
  BY <1>5, <1>6, <1>7, <1>8, <1>9, <1>10, StepKinds

LEMMA StepHasCheck ==
  ASSUME BackstopInv, [BNext]_bvars
  PROVE  RunningHasCheck'
<1> SUFFICES ASSUME run'.status = "running"
             PROVE  row'.set
  BY DEF RunningHasCheck
<1>1. run.status = "running" => row.set
  BY DEF BackstopInv, RunningHasCheck
<1>2. CASE \E t \in Drainer : ClaimCheck(t)
  BY <1>2 DEF ClaimCheck, Row
<1>3. CASE \E t \in Drainer : AckCheck(t)
  <2>1. PICK t \in Drainer : AckCheck(t)
    BY <1>3
  <2>2. run.status = "running" /\ InStage(t, "ack")
    BY <2>1 DEF AckCheck
  <2>3. row.claim # t
    BY <2>2 DEF BackstopInv, DropsSettled
  <2>4. QED
    BY <1>1, <2>1, <2>2, <2>3 DEF AckCheck
<1>4. CASE \E t \in Drainer : Resume(t)
  BY <1>1, <1>4, ResumeStep DEF Unstarted
<1>5. CASE \E t \in Drainer : Looks(t)
  BY <1>1, <1>5, LookStep
<1>6. CASE \E t \in Task : TurnStep(t)
  <2>1. \/ Unstarted /\ UNCHANGED row
        \/ row' = Row(BackstopMs, NoClaim)
    BY <1>6, TurnBeside
  <2>2. QED
    BY <1>1, <2>1 DEF Unstarted, Row
<1>7. CASE \/ \E t \in Task \ Drainer : UserStep(t)
           \/ \E p \in Process : CrashWithPass(p)
           \/ (Precreate \/ ResolveRecovery) /\ UNCHANGED <<row, check>>
           \/ BackstopTick
           \/ UNCHANGED bvars
  BY <1>1, <1>7, OtherStep DEF Unstarted
<1>8. QED
  BY <1>2, <1>3, <1>4, <1>5, <1>6, <1>7, StepKinds

-----------------------------------------------------------------------------
(* The theorems *)

LEMMA InitBackstop == BInit => BackstopInv
<1> SUFFICES ASSUME BInit
             PROVE  BackstopInv
  OBVIOUS
<1>1. FenceInv
  BY InitType, InitHeld DEF BInit, FenceInv
<1>2. /\ NoRow \in [set : BOOLEAN, due : Nat, claim : Drainer \cup {NoClaim}]
      /\ NoCheck \in [stage : Stage, delay : Int] /\ NoCheck.stage = "none" /\ NoRow.claim = NoClaim
  BY DEF NoRow, NoCheck, Stage
<1>3. BackstopTypeOK
  BY <1>1, <1>2 DEF BInit, FenceInv, BackstopTypeOK
<1>4. RetriesLater
  BY <1>2 DEF BInit, RetriesLater
<1>5. Drainer \subseteq Task /\ NoClaim \notin Task
  BY BackstopConstantsOK
<1>6. ClaimsResume
  BY <1>5 DEF BInit, Init, ClaimsResume
<1>7. DropsSettled
  BY <1>2, <1>5 DEF BInit, DropsSettled
<1>8. RunningHasCheck
  BY DEF BInit, Init, NewRun, Absent, RunningHasCheck
<1>9. QED
  BY <1>1, <1>3, <1>4, <1>6, <1>7, <1>8 DEF BackstopInv

LEMMA StepBackstop == BackstopInv /\ [BNext]_bvars => BackstopInv'
<1> SUFFICES ASSUME BackstopInv, [BNext]_bvars
             PROVE  BackstopInv'
  OBVIOUS
<1>1. FenceInv'
  BY StepFence DEF BackstopInv
<1>2. BackstopTypeOK'
  <2>1. row' \in Rows
    BY StepRow
  <2>2. check' \in [Task -> Checks] /\ \A t \in Task \ Drainer : check'[t].stage = "none"
    BY StepChecks
  <2>3. QED
    BY <1>1, <2>1, <2>2 DEF FenceInv, BackstopTypeOK, Rows, Checks
<1>3. RetriesLater'
  BY StepChecks DEF RetriesLater
<1>4. QED
  BY <1>1, <1>2, <1>3, StepDrops, StepHasCheck DEF BackstopInv

\* The invariant of the turn and its check: the fence of the turn, the shapes,
\* and what a pass that may drop the check knows of the run.
THEOREM BackstopInvariant == BSpec => []BackstopInv
  BY InitBackstop, StepBackstop, PTL DEF BSpec

\* Every variable has its shape, and a check is never moved to the past: a live
\* lease is not over by the clock of the pass that reads it, whatever the skew.
THEOREM BackstopTypes == BSpec => []BackstopTypeOK
<1>1. BackstopInv => BackstopTypeOK
  BY DEF BackstopInv
<1>2. QED
  BY <1>1, BackstopInvariant, PTL

\* A started run that is not settled always has its check, whatever passes
\* outlive their claims, and whichever call of the store fails.
THEOREM RunningChecked == BSpec => []RunningHasCheck
<1>1. BackstopInv => RunningHasCheck
  BY DEF BackstopInv
<1>2. QED
  BY <1>1, BackstopInvariant, PTL

\* Passes that resume runs beside users and other passes keep the fence: two
\* turns never both pass it.
THEOREM BackstopsKeepAuthority == BSpec => []OneAuthority
<1>1. BackstopInv => OneAuthority
  BY DEF BackstopInv, FenceInv, HeldInv, WorkersHold, HeldApart, OneAuthority, TransitionAllowed
<1>2. QED
  BY <1>1, BackstopInvariant, PTL

LEMMA ClaimsBeside ==
  ASSUME FenceInv, ClaimsInv, [BNext]_bvars
  PROVE  /\ ClaimsInv'
         /\ \A t \in Task :
              held[t] \in active[Home[t]] /\ HoldsRun(t) /\ run'.lease.id # run.lease.id /\ pc'[t] = pc[t]
                => \E p \in Process : Expired(p)
<1>1. CASE [Next]_vars
  <2>1. ClaimsInv'
    BY <1>1, StepClaims
  <2>2. QED
    BY <1>1, <2>1, StepTaken
<1>2. CASE OnlyFaults
  <2>1. ClaimsInv'
    <3>1. UNCHANGED <<run, life, active, pc, held, seen, gone, nextId>>
      BY <1>2 DEF OnlyFaults
    <3>2. \A t \in Task : (HoldsRun(t)' <=> HoldsRun(t)) /\ (Working(t)' <=> Working(t))
      BY <3>1 DEF HoldsRun, Working
    <3>3. RunHeld'
      BY <3>1, <3>2 DEF ClaimsInv, RunHeld, OwnerId
    <3>4. SeenHeld'
      BY <3>1, <3>2 DEF ClaimsInv, SeenHeld, OwnerId
    <3>5. GoneUnheld' /\ IdsIssued'
      BY <3>1 DEF ClaimsInv, GoneUnheld, IdsIssued
    <3>6. QED
      BY <3>3, <3>4, <3>5 DEF ClaimsInv
  <2>2. run' = run
    BY <1>2 DEF OnlyFaults
  <2>3. QED
    BY <2>1, <2>2
<1>3. QED
  BY <1>1, <1>2, LeaseSteps DEF FenceInv

\* With passes that resume runs for others, a turn at work in a live process
\* still loses its run only to a claim that found the lease expired.
THEOREM BackstopsTakeLapsed == BSpec => TakenOnlyWhenLapsed
<1>1. FenceInv /\ ClaimsInv /\ [BNext]_bvars =>
        [\A t \in Task :
           /\ held[t] \in active[Home[t]]
           /\ HoldsRun(t)
           /\ run'.lease.id # run.lease.id
           /\ pc'[t] = pc[t]
           => \E p \in Process : Expired(p)]_vars
  BY ClaimsBeside
<1>2. BInit => ClaimsInv
  BY InitClaims DEF BInit
<1>3. FenceInv /\ ClaimsInv /\ [BNext]_bvars => ClaimsInv'
  BY ClaimsBeside
<1>4. BackstopInv => FenceInv
  BY DEF BackstopInv
<1>5. QED
  BY <1>1, <1>2, <1>3, <1>4, BackstopInvariant, PTL DEF BSpec, TakenOnlyWhenLapsed
=============================================================================

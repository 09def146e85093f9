-------------------------- MODULE TurnLeaseProofs --------------------------
(***************************************************************************)
(* Theorems about TurnLease, for every set of processes and tasks, every   *)
(* lease and renewal time, every clock skew and every bound.               *)
(***************************************************************************)
EXTENDS TurnLease, TLAPS

-----------------------------------------------------------------------------
(* Type correctness *)

LEMMA RecordTypes ==
  ASSUME NEW record \in Record
  PROVE  /\ record.lease \in Lease /\ record.status \in Status
         /\ record.checkpointVersion \in Nat
         /\ record.lease.id \in Nat /\ record.lease.attempt \in Nat
         /\ \A s \in Status : WithStatus(record, s) \in Record
         /\ \A s \in Status, l \in Lease : WithLease(record, s, l) \in Record
         /\ Snapshot(record) \in [status : Status, lease : Lease]
  BY DEF Record, Lease, WithStatus, WithLease, Snapshot

LEMMA ConstantTypes ==
  /\ NoLease \in Lease /\ NewRun \in Record
  /\ Unseen \in [status : Status, lease : Lease]
  /\ TerminalStatus \subseteq Status
  /\ {"queued", "leased", "running"} \subseteq Status
  /\ \A t \in Task : Home[t] \in Process
  /\ \A p \in Process : Deadline(p) \in Nat
  BY ConstantsOK DEF NoLease, Lease, NewRun, Record, Unseen, Snapshot, Status, Deadline,
     ClaimableStatus, TerminalStatus

LEMMA OwnerTypes ==
  ASSUME OtherTypes, NEW p \in Process
  PROVE  OwnerId(p) \in (Process \X Nat) \cup {NoOwner}
  BY DEF OtherTypes, OwnerId

LEMMA AbandonedTypes ==
  ASSUME NEW p \in Process, NEW record \in [status : Status, lease : Lease]
  PROVE  AbandonedLeaseId(p, record) \in Nat
  BY DEF AbandonedLeaseId, Lease

LEMMA InitType == Init => TypeOK
  BY ConstantsOK, ConstantTypes DEF Init, TypeOK, StoreTypes, ClaimTypes, TurnTypes,
     OtherTypes, PC, Beat, NoBeat, NoVersion, NoOutcome

\* The variables are grouped as actions leave them alone.
USE DEF vars, storeVars, processVars, claimVars, turnVars, bookVars, Goto, SetBeat, Fault

\* A step that leaves a group of variables alone leaves its types alone.
LEMMA SameTypes ==
  /\ StoreTypes /\ UNCHANGED storeVars => StoreTypes'
  /\ ClaimTypes /\ UNCHANGED claimVars => ClaimTypes'
  /\ TurnTypes /\ UNCHANGED <<active, pc, turnVars>> => TurnTypes'
  /\ OtherTypes /\ UNCHANGED <<life, nextId, faults>> => OtherTypes'
  /\ OtherTypes /\ UNCHANGED <<life, nextId>> /\ faults' = faults + 1 => OtherTypes'
  /\ OtherTypes /\ UNCHANGED <<life, faults>> /\ nextId' = nextId + 1 => OtherTypes'
  BY DEF StoreTypes, ClaimTypes, TurnTypes, OtherTypes

LEMMA LeaveTypes ==
  ASSUME TurnTypes, NEW t \in Task, Leave(t)
  PROVE  TurnTypes'
  BY ConstantsOK DEF TurnTypes, Leave, PC, Beat, NoBeat

\* A step that only moves a task to another place.
LEMMA GotoTypes ==
  ASSUME TurnTypes, NEW t \in Task, NEW place \in PC, Goto(t, place),
         UNCHANGED <<active, turnVars>>
  PROVE  TurnTypes'
  BY DEF TurnTypes

LEMMA ClaimedTypes ==
  ASSUME NEW record \in Record, NEW attempt \in Nat, NEW id \in Nat,
         NEW owner \in (Process \X Nat) \cup {NoOwner}
  PROVE  ClaimedRun(record, attempt, id, owner) \in Record /\ ExhaustedRun(record) \in Record
  <1>a. record.lease.attempt \in Nat
    BY RecordTypes
  <1>1. EffectiveAttempt(record, attempt) \in Nat
    BY <1>a DEF EffectiveAttempt
  <1>2. [id |-> id, attempt |-> EffectiveAttempt(record, attempt), owner |-> owner] \in Lease
    BY <1>1 DEF Lease
  <1>3. QED
    BY <1>2, RecordTypes, ConstantTypes DEF ClaimedRun, ExhaustedRun, TerminalStatus

LEMMA SwapTypes ==
  ASSUME StoreTypes, NEW t \in Task, NEW status \in Status, SwapClaimed(t, status),
         UNCHANGED log
  PROVE  StoreTypes'
  <1>1. WithLease(run, status, NoLease) \in Record
    BY RecordTypes, ConstantTypes DEF StoreTypes
  <1>2. QED
    BY <1>1 DEF SwapClaimed, StoreTypes

LEMMA StartTypes ==
  ASSUME TypeOK, NEW t \in Task, WriteStart(t)
  PROVE  run' \in Record /\ left' \in Nat /\ nextId' \in Nat \ {0}
  <1>1. PICK lease \in Lease : run' = WithLease(run, "running", lease)
    BY RecordTypes, ConstantTypes, OwnerTypes
    DEF WriteStart, TypeOK, StoreTypes, TurnTypes, OtherTypes, Lease
  <1>2. run' \in Record
    BY <1>1, RecordTypes, ConstantTypes DEF TypeOK, StoreTypes
  <1>3. QED
    BY <1>2, ConstantTypes DEF WriteStart, TypeOK, OtherTypes

LEMMA WriteTypes ==
  ASSUME StoreTypes, TurnTypes, NEW t \in Task, Write(t)
  PROVE  log' \in Seq(Nat)
  BY DEF Write, StoreTypes, TurnTypes

LEMMA StepType == TypeOK /\ [Next]_vars => TypeOK'
<1> SUFFICES ASSUME TypeOK, [Next]_vars PROVE TypeOK'
  OBVIOUS
<1> USE DEF TypeOK
<1>1. ASSUME NEW t \in Task, ReadRun(t) PROVE TypeOK'
  <2>1. ClaimTypes'
    BY <1>1, RecordTypes, ConstantTypes DEF ReadRun, StoreTypes, ClaimTypes
  <2>2. TurnTypes'
    BY <1>1, GotoTypes DEF ReadRun, PC
  <2> QED
    BY <1>1, <2>1, <2>2, SameTypes DEF ReadRun
<1>2. ASSUME NEW t \in Task, CheckDrain(t) PROVE TypeOK'
  <2>1. ClaimTypes'
    BY <1>2, AbandonedTypes, ConstantTypes DEF CheckDrain, ClaimTypes, Unread
  <2>2. TurnTypes'
    BY <1>2, GotoTypes DEF CheckDrain, PC
  <2> QED
    BY <1>2, <2>1, <2>2, SameTypes DEF CheckDrain
<1>3. ASSUME NEW t \in Task, Claim(t) PROVE TypeOK'
  <2>1. StoreTypes'
    <3>1. UNCHANGED log
      BY <1>3 DEF Claim
    <3>2. \/ UNCHANGED <<run, left>>
          \/ run' = ExhaustedRun(run) /\ left' = 0
          \/ /\ run' = ClaimedRun(run, seen[t].lease.attempt + 1, nextId, OwnerId(Home[t]))
             /\ left' = Deadline(Home[t])
      BY <1>3 DEF Claim
    <3>3. /\ seen[t].lease.attempt + 1 \in Nat /\ nextId \in Nat
          /\ OwnerId(Home[t]) \in (Process \X Nat) \cup {NoOwner}
      BY OwnerTypes, ConstantTypes DEF ClaimTypes, OtherTypes, Lease
    <3>4. /\ ExhaustedRun(run) \in Record
          /\ ClaimedRun(run, seen[t].lease.attempt + 1, nextId, OwnerId(Home[t])) \in Record
      BY <3>3, ClaimedTypes DEF StoreTypes
    <3>5. Deadline(Home[t]) \in Nat
      BY ConstantTypes
    <3>6. QED
      BY <3>1, <3>2, <3>4, <3>5 DEF StoreTypes
  <2>2. ClaimTypes'
    BY <1>3, ConstantTypes DEF Claim, ClaimTypes, Unread
  <2>3. TurnTypes'
    BY <1>3 DEF Claim, TurnTypes, OtherTypes, PC
  <2>4. OtherTypes'
    BY <1>3 DEF Claim, OtherTypes
  <2> QED
    BY <1>3, <2>1, <2>2, <2>3, <2>4, SameTypes DEF Claim
<1>4. ASSUME NEW t \in Task, ParkClaimed(t) PROVE TypeOK'
  <2>1. StoreTypes'
    BY <1>4, SwapTypes, ConstantTypes DEF ParkClaimed, TerminalStatus
  <2>2. TurnTypes'
    BY <1>4, LeaveTypes DEF ParkClaimed
  <2> QED
    BY <1>4, <2>1, <2>2, SameTypes DEF ParkClaimed
<1>5. ASSUME NEW t \in Task, CancelClaimed(t) PROVE TypeOK'
  <2>1. StoreTypes'
    BY <1>5, SwapTypes, ConstantTypes DEF CancelClaimed, TerminalStatus
  <2>2. TurnTypes'
    BY <1>5, LeaveTypes DEF CancelClaimed
  <2> QED
    BY <1>5, <2>1, <2>2, SameTypes DEF CancelClaimed
<1>6. ASSUME NEW t \in Task, RequeueClaimed(t) PROVE TypeOK'
  <2>1. StoreTypes'
    BY <1>6, SwapTypes, ConstantTypes DEF RequeueClaimed, TerminalStatus
  <2>2. TurnTypes'
    BY <1>6, LeaveTypes DEF RequeueClaimed
  <2> QED
    BY <1>6, <2>1, <2>2, SameTypes DEF RequeueClaimed
<1>7. ASSUME NEW t \in Task, HandOffToInput(t) PROVE TypeOK'
  <2>1. StoreTypes'
    BY <1>7, SwapTypes, ConstantTypes DEF HandOffToInput, TerminalStatus
  <2>2. TurnTypes'
    BY <1>7 DEF HandOffToInput, TurnTypes, PC
  <2> QED
    BY <1>7, <2>1, <2>2, SameTypes DEF HandOffToInput
<1>8. ASSUME NEW t \in Task, EnqueueContinuation(t) PROVE TypeOK'
  <2>1. TurnTypes'
    BY <1>8, GotoTypes DEF EnqueueContinuation, PC
  <2> QED
    BY <1>8, <2>1, SameTypes DEF EnqueueContinuation
<1>9. ASSUME NEW t \in Task, EnqueueInput(t) PROVE TypeOK'
  <2>1. TurnTypes'
    BY <1>9, GotoTypes DEF EnqueueInput, PC
  <2> QED
    BY <1>9, <2>1, SameTypes DEF EnqueueInput
<1>10. ASSUME NEW t \in Task, CancelQueued(t) PROVE TypeOK'
  <2>1. StoreTypes'
    BY <1>10, RecordTypes, ConstantTypes DEF CancelQueued, StoreTypes, TerminalStatus
  <2>2. TurnTypes'
    BY <1>10, LeaveTypes DEF CancelQueued
  <2> QED
    BY <1>10, <2>1, <2>2, SameTypes DEF CancelQueued
<1>11. ASSUME NEW t \in Task, BeginDrain(t) PROVE TypeOK'
  <2>1. TurnTypes'
    BY <1>11, GotoTypes DEF BeginDrain, PC
  <2> QED
    BY <1>11, <2>1, SameTypes DEF BeginDrain
<1>12. ASSUME NEW t \in Task, Start(t) PROVE TypeOK'
  <2>1. StoreTypes'
    BY <1>12, StartTypes DEF Start, StoreTypes
  <2>2. TurnTypes'
    <3>1. run'.lease.id \in Nat
      BY <1>12, StartTypes, RecordTypes DEF Start
    <3>2. QED
      BY <1>12, <3>1 DEF Start, TurnTypes, PC
  <2>3. OtherTypes'
    BY <1>12, StartTypes DEF Start, OtherTypes
  <2> QED
    BY <1>12, <2>1, <2>2, <2>3, SameTypes DEF Start
<1>13. ASSUME NEW t \in Task, StartConflict(t) PROVE TypeOK'
  <2>1. TurnTypes'
    BY <1>13, LeaveTypes DEF StartConflict
  <2> QED
    BY <1>13, <2>1, SameTypes DEF StartConflict
<1>14. ASSUME NEW t \in Task, StartError(t) PROVE TypeOK'
  <2>1. StoreTypes'
    BY <1>14, StartTypes DEF StartError, StoreTypes
  <2>2. TurnTypes'
    BY <1>14, LeaveTypes DEF StartError
  <2>3. OtherTypes'
    BY <1>14, StartTypes DEF StartError, OtherTypes
  <2> QED
    BY <1>14, <2>1, <2>2, <2>3, SameTypes DEF StartError
<1>15. ASSUME NEW t \in Task, HoldLease(t) PROVE TypeOK'
  <2>1. TurnTypes'
    BY <1>15, ConstantsOK, ConstantTypes DEF HoldLease, TurnTypes, PC, Beat, Armed
  <2> QED
    BY <1>15, <2>1, SameTypes DEF HoldLease
<1>16. ASSUME NEW t \in Task, ScheduleAfterStart(t) PROVE TypeOK'
  <2>1. TurnTypes'
    BY <1>16, GotoTypes DEF ScheduleAfterStart, PC
  <2> QED
    BY <1>16, <2>1, SameTypes DEF ScheduleAfterStart
<1>17. ASSUME NEW t \in Task, ScheduleAfterStartError(t) PROVE TypeOK'
  <2>1. StoreTypes'
    <3>1. \/ UNCHANGED <<run, left>>
          \/ run' = WithLease(run, "queued", NoLease) /\ left' = 0
      BY <1>17 DEF ScheduleAfterStartError
    <3>2. WithLease(run, "queued", NoLease) \in Record
      BY RecordTypes, ConstantTypes DEF StoreTypes
    <3>3. QED
      BY <1>17, <3>1, <3>2 DEF ScheduleAfterStartError, StoreTypes
  <2>2. TurnTypes'
    BY <1>17, LeaveTypes DEF ScheduleAfterStartError
  <2> QED
    BY <1>17, <2>1, <2>2, SameTypes DEF ScheduleAfterStartError
<1>18. ASSUME NEW t \in Task, SendRenewal(t) PROVE TypeOK'
  <2>1. TurnTypes'
    BY <1>18, ConstantTypes DEF SendRenewal, TurnTypes, Beat
  <2> QED
    BY <1>18, <2>1, SameTypes DEF SendRenewal
<1>19. ASSUME NEW t \in Task, ApplyRenewal(t) PROVE TypeOK'
  <2>1. StoreTypes'
    BY <1>19 DEF ApplyRenewal, StoreTypes, TurnTypes, Beat
  <2>2. TurnTypes'
    <3>1. Armed \in Beat /\ NoBeat \in Beat
      BY ConstantsOK DEF Armed, NoBeat, Beat
    <3>2. beat' \in [Task -> Beat]
      BY <1>19, <3>1 DEF ApplyRenewal, TurnTypes
    <3>3. lost' \in [Task -> BOOLEAN]
      BY <1>19 DEF ApplyRenewal, TurnTypes
    <3>4. QED
      BY <1>19, <3>2, <3>3 DEF ApplyRenewal, TurnTypes
  <2> QED
    BY <1>19, <2>1, <2>2, SameTypes DEF ApplyRenewal
<1>20. ASSUME NEW t \in Task, RenewalError(t) PROVE TypeOK'
  <2>1. TurnTypes'
    BY <1>20, ConstantsOK DEF RenewalError, TurnTypes, Beat, Armed, NoBeat
  <2> QED
    BY <1>20, <2>1, SameTypes DEF RenewalError
<1>21. ASSUME NEW t \in Task, AbandonLost(t) PROVE TypeOK'
  <2>1. TurnTypes'
    BY <1>21, LeaveTypes DEF AbandonLost
  <2> QED
    BY <1>21, <2>1, SameTypes DEF AbandonLost
<1>22. ASSUME NEW t \in Task, ReadVersion(t) PROVE TypeOK'
  <2>1. TurnTypes'
    BY <1>22 DEF ReadVersion, StoreTypes, TurnTypes, Record
  <2> QED
    BY <1>22, <2>1, SameTypes DEF ReadVersion
<1>23. ASSUME NEW t \in Task, WriteCheckpoint(t) PROVE TypeOK'
  <2>1. StoreTypes'
    <3>1. CASE UNCHANGED <<run, log>>
      BY <1>23, <3>1 DEF WriteCheckpoint, StoreTypes
    <3>2. CASE /\ FencedWriteAllowed(run, held[t], version[t], version[t] + 1)
               /\ run' = [run EXCEPT !.checkpointVersion = version[t] + 1]
               /\ Write(t)
      <4>1. version[t] + 1 \in Nat
        BY <3>2 DEF FencedWriteAllowed, StoreTypes, Record
      <4>2. run' \in Record
        BY <3>2, <4>1 DEF StoreTypes, Record
      <4>3. QED
        BY <1>23, <3>2, <4>2, WriteTypes DEF WriteCheckpoint, StoreTypes
    <3>3. QED
      BY <1>23, <3>1, <3>2 DEF WriteCheckpoint
  <2>2. TurnTypes'
    BY <1>23, LeaveTypes DEF WriteCheckpoint, TurnTypes, PC
  <2> QED
    BY <1>23, <2>1, <2>2, SameTypes DEF WriteCheckpoint
<1>24. ASSUME NEW t \in Task, CommitOwned(t) PROVE TypeOK'
  <2>1. StoreTypes'
    BY <1>24, WriteTypes DEF CommitOwned, StoreTypes
  <2>2. TurnTypes'
    BY <1>24, LeaveTypes, SameTypes DEF CommitOwned
  <2> QED
    BY <1>24, <2>1, <2>2, SameTypes DEF CommitOwned
<1>25. ASSUME NEW t \in Task, FinishTurn(t) PROVE TypeOK'
  <2>1. TurnTypes'
    <3>1. beat' \in [Task -> Beat]
      BY <1>25 DEF FinishTurn, TurnTypes, StopRenewal, Beat, NoBeat
    <3>2. outcome' \in [Task -> TerminalStatus \cup {NoOutcome}]
      BY <1>25 DEF FinishTurn, TurnTypes, TerminalStatus
    <3>3. pc' \in [Task -> PC]
      BY <1>25 DEF FinishTurn, TurnTypes, PC
    <3> QED
      BY <1>25, <3>1, <3>2, <3>3 DEF FinishTurn, TurnTypes
  <2> QED
    BY <1>25, <2>1, SameTypes DEF FinishTurn
<1>26. ASSUME NEW t \in Task, TurnThrows(t) PROVE TypeOK'
  <2>1. TurnTypes'
    BY <1>26, GotoTypes DEF TurnThrows, PC
  <2> QED
    BY <1>26, <2>1, SameTypes DEF TurnThrows
<1>27. ASSUME NEW t \in Task, SettleFailedTurn(t) PROVE TypeOK'
  <2>1. TurnTypes'
    <3>1. CASE ~TransitionAllowed(run, "running", held[t])
      BY <1>27, <3>1, LeaveTypes DEF SettleFailedTurn
    <3>2. CASE TransitionAllowed(run, "running", held[t])
      <4>1. beat' \in [Task -> Beat]
        BY <1>27, <3>2 DEF SettleFailedTurn, TurnTypes, StopRenewal, Beat, NoBeat
      <4>2. outcome' \in [Task -> TerminalStatus \cup {NoOutcome}]
        BY <1>27, <3>2 DEF SettleFailedTurn, TurnTypes, TerminalStatus
      <4>3. pc' \in [Task -> PC]
        BY <1>27, <3>2 DEF SettleFailedTurn, TurnTypes, PC
      <4> QED
        BY <1>27, <3>2, <4>1, <4>2, <4>3 DEF SettleFailedTurn, TurnTypes
    <3>3. QED
      BY <3>1, <3>2
  <2> QED
    BY <1>27, <2>1, SameTypes DEF SettleFailedTurn
<1>28. ASSUME NEW t \in Task, Settle(t) PROVE TypeOK'
  <2>1. StoreTypes'
    <3>1. \/ UNCHANGED <<run, log>>
          \/ run' = WithStatus(run, outcome[t]) /\ Write(t)
      BY <1>28 DEF Settle, WriteSettlement
    <3>2. outcome[t] \in Status
      BY ConstantTypes DEF TurnTypes, NoOutcome, Status
    <3>3. UNCHANGED left
      BY <1>28 DEF Settle
    <3>4. CASE UNCHANGED <<run, log>>
      BY <3>3, <3>4 DEF StoreTypes
    <3>5. CASE run' = WithStatus(run, outcome[t]) /\ Write(t)
      BY <3>2, <3>3, <3>5, RecordTypes, ConstantTypes, WriteTypes DEF StoreTypes
    <3>6. QED
      BY <3>1, <3>4, <3>5
  <2>2. TurnTypes'
    BY <1>28, LeaveTypes DEF Settle
  <2> QED
    BY <1>28, <2>1, <2>2, SameTypes DEF Settle
<1>29. ASSUME NEW t \in Task, SettleError(t) PROVE TypeOK'
  <2>1. StoreTypes'
    <3>1. \/ UNCHANGED <<run, log>>
          \/ run' = WithStatus(run, outcome[t]) /\ Write(t)
      BY <1>29 DEF SettleError, WriteSettlement
    <3>2. outcome[t] \in Status
      BY ConstantTypes DEF TurnTypes, NoOutcome, Status
    <3>3. UNCHANGED left
      BY <1>29 DEF SettleError
    <3>4. CASE UNCHANGED <<run, log>>
      BY <3>3, <3>4 DEF StoreTypes
    <3>5. CASE run' = WithStatus(run, outcome[t]) /\ Write(t)
      BY <3>2, <3>3, <3>5, RecordTypes, ConstantTypes, WriteTypes DEF StoreTypes
    <3>6. QED
      BY <3>1, <3>4, <3>5
  <2>2. TurnTypes'
    <3>1. CASE outcome[t] \in {"completed", "cancelled"}
      <4>1. pc' = [pc EXCEPT ![t] = "failed"] /\ beat' = [beat EXCEPT ![t] = NoBeat]
        BY <1>29, <3>1 DEF SettleError
      <4>2. pc' \in [Task -> PC] /\ beat' \in [Task -> Beat]
        BY <4>1 DEF TurnTypes, PC, NoBeat, Beat
      <4>3. /\ active' = [active EXCEPT ![Home[t]] = active[Home[t]] \ {held[t]}]
            /\ outcome' = [outcome EXCEPT ![t] = NoOutcome]
        BY <1>29, <3>1 DEF SettleError
      <4>4. active' \in [Process -> SUBSET Nat]
        BY <4>3 DEF TurnTypes
      <4>5. UNCHANGED <<held, lost, version>>
        BY <1>29, <3>1 DEF SettleError
      <4>6. QED
        BY <4>2, <4>3, <4>4, <4>5 DEF TurnTypes
    <3>2. CASE outcome[t] \notin {"completed", "cancelled"}
      BY <1>29, <3>2, LeaveTypes DEF SettleError
    <3>3. QED
      BY <3>1, <3>2
  <2> QED
    BY <1>29, <2>1, <2>2, SameTypes DEF SettleError
<1>30. ASSUME NEW p \in Process, Crash(p) PROVE TypeOK'
  <2>1. OtherTypes'
    BY <1>30 DEF Crash, OtherTypes
  <2>2. ClaimTypes'
    BY <1>30, ConstantTypes DEF Crash, ClaimTypes
  <2>3. TurnTypes'
    BY <1>30 DEF Crash, TurnTypes, PC, Beat, NoBeat
  <2>4. QED
    BY <1>30, <2>1, <2>2, <2>3, SameTypes DEF Crash
<1>31. ASSUME Precreate PROVE TypeOK'
  BY <1>31, SameTypes, RecordTypes, ConstantTypes DEF Precreate, StoreTypes
<1>32. ASSUME ResolveRecovery PROVE TypeOK'
  <2>1. WithLease(run, "queued", NoLease) \in Record
    BY RecordTypes, ConstantTypes DEF StoreTypes
  <2>2. run' \in Record
    BY <1>32, <2>1 DEF ResolveRecovery, Record
  <2> QED
    BY <1>32, <2>2, SameTypes DEF ResolveRecovery, StoreTypes
<1>33. ASSUME Tick PROVE TypeOK'
  <2>1. StoreTypes'
    BY <1>33 DEF Tick, Elapse, Passed, StoreTypes
  <2>2. beat' \in [Task -> Beat]
    <3>1. \A t \in Task : [mode |-> beat[t].mode, left |-> Passed(beat[t].left)] \in Beat
      BY DEF Passed, TurnTypes, Beat
    <3>2. QED
      BY <1>33, <3>1 DEF Tick, Elapse
  <2>3. TurnTypes'
    BY <1>33, <2>2 DEF Tick, Elapse, TurnTypes
  <2>4. QED
    BY <1>33, <2>1, <2>3, SameTypes DEF Tick, Elapse
<1>34. ASSUME UNCHANGED vars PROVE TypeOK'
  BY <1>34, SameTypes
<1> QED
  BY <1>1, <1>2, <1>3, <1>4, <1>5, <1>6, <1>7, <1>8, <1>9, <1>10, <1>11, <1>12, <1>13,
     <1>14, <1>15, <1>16, <1>17, <1>18, <1>19, <1>20, <1>21, <1>22, <1>23, <1>24, <1>25,
     <1>26, <1>27, <1>28, <1>29, <1>30, <1>31, <1>32, <1>33, <1>34 DEF Next, Recover,
     Begin, Renew, Work, End

\* Every variable keeps its shape.
THEOREM TypeCorrect == Spec => []TypeOK
  BY InitType, StepType, PTL DEF Spec

-----------------------------------------------------------------------------
(* Leases are carried by the turns they were issued to *)

LEMMA InitHeld == Init => HeldInv
  BY ConstantTypes
  DEF Init, HeldInv, HeldIssued, WorkersHold, HeldApart, SettlingHasOutcome, Working

LEMMA LeaveHeld ==
  ASSUME FenceInv, NEW t \in Task, Leave(t), nextId' \in Nat, nextId' >= nextId
  PROVE  HeldInv'
  BY DEF FenceInv, TypeOK, TurnTypes, OtherTypes, HeldInv, HeldIssued, WorkersHold,
     HeldApart, SettlingHasOutcome, Working, Leave

\* A step that moves a task, and leaves every lease where it is.
LEMMA GotoHeld ==
  ASSUME FenceInv, NEW t \in Task, NEW place, Goto(t, place), UNCHANGED <<held, nextId>>,
         Working(t)' => held[t] # 0,
         place # "settling", UNCHANGED outcome
  PROVE  HeldInv'
  BY DEF FenceInv, TypeOK, TurnTypes, HeldInv, HeldIssued, WorkersHold, HeldApart,
     SettlingHasOutcome, Working

LEMMA SameHeld ==
  ASSUME FenceInv, UNCHANGED <<pc, held, outcome, nextId>>
  PROVE  HeldInv'
  BY DEF FenceInv, HeldInv, HeldIssued, WorkersHold, HeldApart, SettlingHasOutcome, Working

\* A step that gives task t a fresh lease.
LEMMA GrantHeld ==
  ASSUME FenceInv, NEW t \in Task, NEW place, Goto(t, place), place # "settling",
         held' = [held EXCEPT ![t] = nextId], nextId' = nextId + 1, UNCHANGED outcome
  PROVE  HeldInv'
  BY DEF FenceInv, TypeOK, TurnTypes, OtherTypes, HeldInv, HeldIssued, WorkersHold,
     HeldApart, SettlingHasOutcome, Working

LEMMA StepHeld == FenceInv /\ [Next]_vars => HeldInv'
<1> SUFFICES ASSUME FenceInv, [Next]_vars PROVE HeldInv'
  OBVIOUS
<1>a. nextId \in Nat /\ nextId >= nextId
  BY DEF FenceInv, TypeOK, OtherTypes
<1>1. ASSUME NEW t \in Task, ReadRun(t) PROVE HeldInv'
  BY <1>1, GotoHeld DEF ReadRun, Working, FenceInv, TypeOK, TurnTypes
<1>2. ASSUME NEW t \in Task, CheckDrain(t) PROVE HeldInv'
  BY <1>2, GotoHeld DEF CheckDrain, Working, FenceInv, TypeOK, TurnTypes
<1>3. ASSUME NEW t \in Task, Claim(t) PROVE HeldInv'
  <2>1. \/ UNCHANGED <<held, nextId>> /\ Goto(t, "idle")
        \/ /\ held' = [held EXCEPT ![t] = nextId] /\ nextId' = nextId + 1
           /\ Goto(t, "claimed")
    BY <1>3 DEF Claim
  <2>2. UNCHANGED outcome
    BY <1>3 DEF Claim
  <2>3. CASE UNCHANGED <<held, nextId>> /\ Goto(t, "idle")
    BY <2>2, <2>3, GotoHeld DEF Working, FenceInv, TypeOK, TurnTypes
  <2>4. QED
    BY <2>1, <2>2, <2>3, GrantHeld
<1>4. ASSUME NEW t \in Task, ParkClaimed(t) PROVE HeldInv'
  BY <1>4, <1>a, LeaveHeld DEF ParkClaimed
<1>5. ASSUME NEW t \in Task, CancelClaimed(t) PROVE HeldInv'
  BY <1>5, <1>a, LeaveHeld DEF CancelClaimed
<1>6. ASSUME NEW t \in Task, RequeueClaimed(t) PROVE HeldInv'
  BY <1>6, <1>a, LeaveHeld DEF RequeueClaimed
<1>7. ASSUME NEW t \in Task, HandOffToInput(t) PROVE HeldInv'
  BY <1>7 DEF HandOffToInput, FenceInv, TypeOK, TurnTypes, HeldInv, HeldIssued, WorkersHold,
     OtherTypes, HeldApart, SettlingHasOutcome, Working
<1>8. ASSUME NEW t \in Task, EnqueueContinuation(t) PROVE HeldInv'
  BY <1>8, GotoHeld DEF EnqueueContinuation, Working, FenceInv, TypeOK, TurnTypes
<1>9. ASSUME NEW t \in Task, EnqueueInput(t) PROVE HeldInv'
  BY <1>9, GotoHeld DEF EnqueueInput, Working, FenceInv, TypeOK, TurnTypes
<1>10. ASSUME NEW t \in Task, CancelQueued(t) PROVE HeldInv'
  BY <1>10, <1>a, LeaveHeld DEF CancelQueued
<1>11. ASSUME NEW t \in Task, BeginDrain(t) PROVE HeldInv'
  BY <1>11, GotoHeld DEF BeginDrain, Working, FenceInv, TypeOK, TurnTypes
<1>12. ASSUME NEW t \in Task, Start(t) PROVE HeldInv'
  <2>1. Goto(t, "started") /\ UNCHANGED outcome
    BY <1>12 DEF Start
  <2>2. CASE held[t] = 0
    <3>1. held' = [held EXCEPT ![t] = nextId] /\ nextId' = nextId + 1
      BY <1>12, <2>2, RecordTypes DEF Start, WriteStart, WithLease, FenceInv, TypeOK, StoreTypes, Record
    <3>2. QED
      BY <2>1, <3>1, GrantHeld
  <2>3. CASE held[t] # 0
    <3>1. UNCHANGED <<held, nextId>>
      BY <1>12, <2>3, RecordTypes DEF Start, WriteStart, WithLease, FenceInv, TypeOK, StoreTypes, TurnTypes, Record
    <3>2. QED
      BY <2>1, <2>3, <3>1, GotoHeld
  <2>4. QED
    BY <2>2, <2>3
<1>13. ASSUME NEW t \in Task, StartConflict(t) PROVE HeldInv'
  BY <1>13, <1>a, LeaveHeld DEF StartConflict
<1>14. ASSUME NEW t \in Task, StartError(t) PROVE HeldInv'
  <2>1. nextId' \in {nextId, nextId + 1} /\ Leave(t)
    BY <1>14 DEF StartError, WriteStart
  <2>2. QED
    BY <2>1, <1>a, LeaveHeld
<1>15. ASSUME NEW t \in Task, HoldLease(t) PROVE HeldInv'
  BY <1>15, GotoHeld DEF HoldLease, FenceInv, HeldInv, WorkersHold, Working, TypeOK,
     TurnTypes
<1>16. ASSUME NEW t \in Task, ScheduleAfterStart(t) PROVE HeldInv'
  BY <1>16, GotoHeld DEF ScheduleAfterStart, FenceInv, HeldInv, WorkersHold, Working,
     TypeOK, TurnTypes
<1>17. ASSUME NEW t \in Task, ScheduleAfterStartError(t) PROVE HeldInv'
  BY <1>17, <1>a, LeaveHeld DEF ScheduleAfterStartError
<1>18. ASSUME NEW t \in Task, SendRenewal(t) PROVE HeldInv'
  BY <1>18, SameHeld DEF SendRenewal
<1>19. ASSUME NEW t \in Task, ApplyRenewal(t) PROVE HeldInv'
  BY <1>19, SameHeld DEF ApplyRenewal
<1>20. ASSUME NEW t \in Task, RenewalError(t) PROVE HeldInv'
  BY <1>20, SameHeld DEF RenewalError
<1>21. ASSUME NEW t \in Task, AbandonLost(t) PROVE HeldInv'
  BY <1>21, <1>a, LeaveHeld DEF AbandonLost
<1>22. ASSUME NEW t \in Task, ReadVersion(t) PROVE HeldInv'
  BY <1>22, SameHeld DEF ReadVersion
<1>23. ASSUME NEW t \in Task, WriteCheckpoint(t) PROVE HeldInv'
  BY <1>23, <1>a, LeaveHeld, SameHeld DEF WriteCheckpoint
<1>24. ASSUME NEW t \in Task, CommitOwned(t) PROVE HeldInv'
  BY <1>24, <1>a, LeaveHeld, SameHeld DEF CommitOwned
<1>25. ASSUME NEW t \in Task, FinishTurn(t) PROVE HeldInv'
  BY <1>25
  DEF FinishTurn, FenceInv, TypeOK, TurnTypes, HeldInv, HeldIssued, WorkersHold, HeldApart,
      SettlingHasOutcome, Working, TerminalStatus
<1>26. ASSUME NEW t \in Task, TurnThrows(t) PROVE HeldInv'
  BY <1>26, GotoHeld DEF TurnThrows, FenceInv, HeldInv, WorkersHold, Working, TypeOK,
     TurnTypes
<1>27. ASSUME NEW t \in Task, SettleFailedTurn(t) PROVE HeldInv'
  <2>1. CASE TransitionAllowed(run, "running", held[t])
    BY <1>27, <2>1
    DEF SettleFailedTurn, FenceInv, TypeOK, TurnTypes, HeldInv, HeldIssued, WorkersHold,
        HeldApart, SettlingHasOutcome, Working, TerminalStatus
  <2>2. CASE ~TransitionAllowed(run, "running", held[t])
    BY <1>27, <2>2, <1>a, LeaveHeld DEF SettleFailedTurn
  <2>3. QED
    BY <2>1, <2>2
<1>28. ASSUME NEW t \in Task, Settle(t) PROVE HeldInv'
  BY <1>28, <1>a, LeaveHeld DEF Settle
<1>29. ASSUME NEW t \in Task, SettleError(t) PROVE HeldInv'
  <2>1. CASE outcome[t] \in {"completed", "cancelled"}
    <3>1. /\ Goto(t, "failed") /\ UNCHANGED <<held, nextId>>
          /\ outcome' = [outcome EXCEPT ![t] = NoOutcome]
          /\ pc[t] = "settling"
      BY <1>29, <2>1 DEF SettleError
    <3>2. QED
      BY <3>1 DEF FenceInv, TypeOK, TurnTypes, HeldInv, HeldIssued, WorkersHold, HeldApart,
         SettlingHasOutcome, Working
  <2>2. CASE outcome[t] \notin {"completed", "cancelled"}
    BY <1>29, <2>2, <1>a, LeaveHeld DEF SettleError
  <2>3. QED
    BY <2>1, <2>2
<1>30. ASSUME NEW p \in Process, Crash(p) PROVE HeldInv'
  BY <1>30
  DEF Crash, FenceInv, TypeOK, TurnTypes, OtherTypes, HeldInv, HeldIssued, WorkersHold,
      HeldApart, SettlingHasOutcome, Working
<1>31. ASSUME Precreate \/ ResolveRecovery \/ Tick \/ UNCHANGED vars PROVE HeldInv'
  BY <1>31, SameHeld DEF Precreate, ResolveRecovery, Tick, Elapse
<1> QED
  BY <1>1, <1>2, <1>3, <1>4, <1>5, <1>6, <1>7, <1>8, <1>9, <1>10, <1>11, <1>12, <1>13,
     <1>14, <1>15, <1>16, <1>17, <1>18, <1>19, <1>20, <1>21, <1>22, <1>23, <1>24, <1>25,
     <1>26, <1>27, <1>28, <1>29, <1>30, <1>31 DEF Next, Recover, Begin, Renew, Work, End

\* A turn that was started carries a lease that was issued to it and to no
\* other task: the inductive invariant the results below rest on.
THEOREM FenceInvariant == Spec => []FenceInv
<1>1. Init => FenceInv
  BY InitType, InitHeld DEF FenceInv
<1>2. FenceInv /\ [Next]_vars => FenceInv'
  BY StepType, StepHeld DEF FenceInv
<1>3. QED
  BY <1>1, <1>2, PTL DEF Spec

\* Two turns of the run never both pass the store's fence, however many
\* processes, claims, crashes and late writes there are.
THEOREM OneAuthorityAlways == Spec => []OneAuthority
<1>1. FenceInv => OneAuthority
  BY DEF FenceInv, HeldInv, WorkersHold, HeldApart, OneAuthority, TransitionAllowed
<1>2. QED
  BY <1>1, FenceInvariant, PTL

-----------------------------------------------------------------------------
(* The record implements the register *)

AuthorityVars == <<run.lease.id, nextId - 1, AuthorityState, log>>

\* How a step of the store looks through the refinement mapping.
LEMMA OpenState == AuthorityState = "open" <=> ~IsTerminal(run)
  BY DEF AuthorityState, IsTerminal, TerminalStatus

LEMMA SameAuthority ==
  ASSUME run'.lease.id = run.lease.id, UNCHANGED <<nextId, log>>,
         \/ run'.status = run.status
         \/ ~IsTerminal(run) /\ ~IsTerminal(run)'
  PROVE  UNCHANGED AuthorityVars
  BY DEF AuthorityVars, AuthorityState, IsTerminal, TerminalStatus

LEMMA GrantAuthority ==
  ASSUME FenceInv, ~IsTerminal(run), ~IsTerminal(run)', UNCHANGED log,
         run'.lease.id = nextId, nextId' = nextId + 1
  PROVE  Authority!Grant
  BY DEF Authority!Grant, AuthorityState, IsTerminal, TerminalStatus,
     FenceInv, TypeOK, OtherTypes

LEMMA ReleaseAuthority ==
  ASSUME ~IsTerminal(run), ~IsTerminal(run)', UNCHANGED <<nextId, log>>,
         run'.lease.id = 0
  PROVE  Authority!Release
  BY DEF Authority!Release, AuthorityState, IsTerminal, TerminalStatus

LEMMA WriteAuthority ==
  ASSUME ~IsTerminal(run), ~IsTerminal(run)', UNCHANGED nextId,
         run'.lease.id = run.lease.id, run.lease.id # 0, log' = Append(log, run.lease.id)
  PROVE  Authority!Write
  BY DEF Authority!Write, Authority!OwnerWrites, AuthorityState, IsTerminal, TerminalStatus

LEMMA CloseAuthority ==
  ASSUME ~IsTerminal(run), IsTerminal(run)', UNCHANGED nextId,
         run'.lease.id \in {0, run.lease.id},
         \/ UNCHANGED log
         \/ run.lease.id # 0 /\ log' = Append(log, run.lease.id)
  PROVE  Authority!Close
  BY DEF Authority!Close, Authority!OwnerWrites, AuthorityState, IsTerminal, TerminalStatus

\* What the writes of the record do to its lease and status.
LEMMA WithFields ==
  ASSUME NEW record \in Record, NEW status, NEW lease
  PROVE  /\ WithLease(record, status, lease).lease = lease
         /\ WithLease(record, status, lease).status = status
         /\ WithStatus(record, status).lease = record.lease
         /\ WithStatus(record, status).status = status
  BY DEF WithLease, WithStatus, Record

Steps == [Authority!Next]_AuthorityVars

LEMMA SwapAuthority ==
  ASSUME FenceInv, NEW t \in Task, NEW status \in {"queued", "cancelled", "needs-recovery"},
         SwapClaimed(t, status), UNCHANGED <<nextId, log>>
  PROVE  Steps
<1>1. CASE ~TransitionAllowed(run, "leased", held[t])
  BY <1>1, SameAuthority DEF SwapClaimed, Steps
<1>2. CASE TransitionAllowed(run, "leased", held[t])
  <2>1. run' = WithLease(run, status, NoLease) /\ ~IsTerminal(run)
    BY <1>2 DEF SwapClaimed, TransitionAllowed, IsTerminal, TerminalStatus
  <2>2. run'.lease.id = 0 /\ run'.status = status
    BY <2>1, WithFields DEF FenceInv, TypeOK, StoreTypes, NoLease
  <2>3. CASE status = "queued"
    BY <2>1, <2>2, <2>3, ReleaseAuthority DEF IsTerminal, TerminalStatus, Steps, Authority!Next
  <2>4. CASE status # "queued"
    BY <2>1, <2>2, <2>4, CloseAuthority DEF IsTerminal, TerminalStatus, Steps, Authority!Next
  <2>5. QED
    BY <2>3, <2>4
<1>3. QED
  BY <1>1, <1>2

LEMMA StartAuthority ==
  ASSUME FenceInv, NEW t \in Task, StartAllowed(t), WriteStart(t), UNCHANGED log
  PROVE  Steps
<1>1. ~IsTerminal(run) /\ run.lease.id = held[t]
  BY DEF StartAllowed, HoldsRun
<1>2. /\ run'.status = "running"
      /\ run'.lease.id = IF held[t] = 0 THEN nextId ELSE held[t]
      /\ nextId' = IF held[t] = 0 THEN nextId + 1 ELSE nextId
  BY WithFields DEF WriteStart, FenceInv, TypeOK, StoreTypes
<1>3. ~IsTerminal(run)'
  BY <1>2 DEF IsTerminal, TerminalStatus
<1>4. CASE held[t] = 0
  BY <1>1, <1>2, <1>3, <1>4, GrantAuthority DEF Steps, Authority!Next
<1>5. CASE held[t] # 0
  BY <1>1, <1>2, <1>3, <1>5, SameAuthority DEF Steps
<1>6. QED
  BY <1>4, <1>5

LEMMA SettleAuthority ==
  ASSUME FenceInv, NEW t \in Task, pc[t] = "settling", SettleAllowed(t), WriteSettlement(t),
         UNCHANGED nextId
  PROVE  Steps
<1>1. ~IsTerminal(run) /\ run.lease.id = held[t] /\ held[t] # 0
  BY DEF SettleAllowed, HoldsRun, FenceInv, HeldInv, WorkersHold, Working
<1>2. /\ run'.lease.id = run.lease.id /\ run'.status = outcome[t]
      /\ log' = Append(log, held[t])
  BY WithFields DEF WriteSettlement, Write, FenceInv, TypeOK, StoreTypes
<1>3. IsTerminal(run)'
  BY <1>2 DEF FenceInv, HeldInv, SettlingHasOutcome, IsTerminal
<1>4. QED
  BY <1>1, <1>2, <1>3, CloseAuthority DEF Steps, Authority!Next

LEMMA InitAuthority == Init => Authority!Init
  BY DEF Init, Authority!Init, NewRun, NoLease, AuthorityState, IsTerminal, TerminalStatus, Absent

LEMMA StepAuthority == FenceInv /\ [Next]_vars => Steps
<1> SUFFICES ASSUME FenceInv, [Next]_vars PROVE Steps
  OBVIOUS
<1>1. ASSUME NEW t \in Task, ReadRun(t) PROVE Steps
  BY <1>1, SameAuthority DEF ReadRun, Steps
<1>2. ASSUME NEW t \in Task, CheckDrain(t) PROVE Steps
  BY <1>2, SameAuthority DEF CheckDrain, Steps
<1>3. ASSUME NEW t \in Task, Claim(t) PROVE Steps
  <2>1. UNCHANGED log /\ nextId' \in {nextId, nextId + 1}
    BY <1>3 DEF Claim
  <2>2. CASE UNCHANGED <<run, nextId>>
    BY <2>1, <2>2, SameAuthority DEF Steps
  <2>3. CASE run' = ExhaustedRun(run) /\ UNCHANGED nextId /\ IsClaimable(run)
    <3>1. run'.lease.id = 0 /\ run'.status = "needs-recovery"
      BY <2>3, WithFields DEF ExhaustedRun, NoLease, FenceInv, TypeOK, StoreTypes
    <3>2. QED
      BY <2>1, <2>3, <3>1, CloseAuthority
      DEF Steps, Authority!Next, IsTerminal, TerminalStatus, IsClaimable, ClaimableStatus
  <2>4. CASE /\ run' = ClaimedRun(run, seen[t].lease.attempt + 1, nextId, OwnerId(Home[t]))
             /\ nextId' = nextId + 1 /\ IsClaimable(run)
    <3>1. run'.lease.id = nextId /\ run'.status = "leased"
      BY <2>4, WithFields DEF ClaimedRun, FenceInv, TypeOK, StoreTypes
    <3>2. QED
      BY <2>1, <2>4, <3>1, GrantAuthority
      DEF Steps, Authority!Next, IsTerminal, TerminalStatus, IsClaimable, ClaimableStatus
  <2>5. QED
    BY <1>3, <2>2, <2>3, <2>4 DEF Claim, ClaimAllowed
<1>4. ASSUME NEW t \in Task, ParkClaimed(t) PROVE Steps
  BY <1>4, SwapAuthority DEF ParkClaimed
<1>5. ASSUME NEW t \in Task, CancelClaimed(t) PROVE Steps
  BY <1>5, SwapAuthority DEF CancelClaimed
<1>6. ASSUME NEW t \in Task, RequeueClaimed(t) PROVE Steps
  BY <1>6, SwapAuthority DEF RequeueClaimed
<1>7. ASSUME NEW t \in Task, HandOffToInput(t) PROVE Steps
  BY <1>7, SwapAuthority DEF HandOffToInput
<1>8. ASSUME NEW t \in Task, EnqueueContinuation(t) PROVE Steps
  BY <1>8, SameAuthority DEF EnqueueContinuation, Steps
<1>9. ASSUME NEW t \in Task, EnqueueInput(t) PROVE Steps
  BY <1>9, SameAuthority DEF EnqueueInput, Steps
<1>10. ASSUME NEW t \in Task, CancelQueued(t) PROVE Steps
  <2>1. CASE UNCHANGED run
    BY <1>10, <2>1, SameAuthority DEF CancelQueued, Steps
  <2>2. CASE run' = WithStatus(run, "cancelled") /\ ~IsTerminal(run)
    <3>1. run'.lease.id = run.lease.id /\ run'.status = "cancelled"
      BY <2>2, WithFields DEF FenceInv, TypeOK, StoreTypes
    <3>2. QED
      BY <1>10, <2>2, <3>1, CloseAuthority
      DEF CancelQueued, Steps, Authority!Next, IsTerminal, TerminalStatus
  <2>3. QED
    BY <1>10, <2>1, <2>2 DEF CancelQueued
<1>11. ASSUME NEW t \in Task, BeginDrain(t) PROVE Steps
  BY <1>11, SameAuthority DEF BeginDrain, Steps
<1>12. ASSUME NEW t \in Task, Start(t) PROVE Steps
  BY <1>12, StartAuthority DEF Start
<1>13. ASSUME NEW t \in Task, StartConflict(t) PROVE Steps
  BY <1>13, SameAuthority DEF StartConflict, Steps
<1>14. ASSUME NEW t \in Task, StartError(t) PROVE Steps
  <2>1. CASE UNCHANGED <<run, left, nextId>>
    BY <1>14, <2>1, SameAuthority DEF StartError, Steps
  <2>2. CASE StartAllowed(t) /\ WriteStart(t)
    BY <1>14, <2>2, StartAuthority DEF StartError
  <2>3. QED
    BY <1>14, <2>1, <2>2 DEF StartError
<1>15. ASSUME NEW t \in Task, HoldLease(t) PROVE Steps
  BY <1>15, SameAuthority DEF HoldLease, Steps
<1>16. ASSUME NEW t \in Task, ScheduleAfterStart(t) PROVE Steps
  BY <1>16, SameAuthority DEF ScheduleAfterStart, Steps
<1>17. ASSUME NEW t \in Task, ScheduleAfterStartError(t) PROVE Steps
  <2>1. CASE UNCHANGED run
    BY <1>17, <2>1, SameAuthority DEF ScheduleAfterStartError, Steps
  <2>2. CASE run' = WithLease(run, "queued", NoLease) /\ run.status = "running"
    <3>1. run'.lease.id = 0 /\ run'.status = "queued"
      BY <2>2, WithFields DEF NoLease, FenceInv, TypeOK, StoreTypes
    <3>2. QED
      BY <1>17, <2>2, <3>1, ReleaseAuthority
      DEF ScheduleAfterStartError, Steps, Authority!Next, IsTerminal, TerminalStatus
  <2>3. QED
    BY <1>17, <2>1, <2>2 DEF ScheduleAfterStartError, TransitionAllowed
<1>18. ASSUME NEW t \in Task, SendRenewal(t) PROVE Steps
  BY <1>18, SameAuthority DEF SendRenewal, Steps
<1>19. ASSUME NEW t \in Task, ApplyRenewal(t) PROVE Steps
  BY <1>19, SameAuthority DEF ApplyRenewal, Steps
<1>20. ASSUME NEW t \in Task, RenewalError(t) PROVE Steps
  BY <1>20, SameAuthority DEF RenewalError, Steps
<1>21. ASSUME NEW t \in Task, AbandonLost(t) PROVE Steps
  BY <1>21, SameAuthority DEF AbandonLost, Steps
<1>22. ASSUME NEW t \in Task, ReadVersion(t) PROVE Steps
  BY <1>22, SameAuthority DEF ReadVersion, Steps
<1>23. ASSUME NEW t \in Task, WriteCheckpoint(t) PROVE Steps
  <2>1. CASE UNCHANGED <<run, log>>
    BY <1>23, <2>1, SameAuthority DEF WriteCheckpoint, Steps
  <2>2. CASE /\ ~FencedWriteConflict(run, held[t])
             /\ run' = [run EXCEPT !.checkpointVersion = version[t] + 1]
             /\ Write(t)
    <3>1. /\ ~IsTerminal(run) /\ run.lease.id = held[t] /\ held[t] # 0
      BY <1>23, <2>2
      DEF FencedWriteConflict, WriteCheckpoint, FenceInv, HeldInv, WorkersHold, Working
    <3>2. /\ run'.lease = run.lease /\ run'.status = run.status
      BY <2>2 DEF FenceInv, TypeOK, StoreTypes, Record
    <3>3. log' = Append(log, run.lease.id) /\ UNCHANGED nextId /\ ~IsTerminal(run)'
      BY <1>23, <2>2, <3>1, <3>2 DEF Write, WriteCheckpoint, IsTerminal
    <3>4. QED
      BY <3>1, <3>2, <3>3, WriteAuthority DEF Steps, Authority!Next
  <2>3. QED
    BY <1>23, <2>1, <2>2 DEF WriteCheckpoint, FencedWriteAllowed
<1>24. ASSUME NEW t \in Task, CommitOwned(t) PROVE Steps
  <2>1. CASE UNCHANGED log
    BY <1>24, <2>1, SameAuthority DEF CommitOwned, Steps
  <2>2. CASE TransitionAllowed(run, "running", held[t]) /\ Write(t)
    <3>1. /\ ~IsTerminal(run) /\ run.lease.id = held[t] /\ held[t] # 0
          /\ UNCHANGED <<run, nextId>>
      BY <1>24, <2>2
      DEF TransitionAllowed, IsTerminal, TerminalStatus, CommitOwned, FenceInv, HeldInv,
          WorkersHold, Working
    <3>2. log' = Append(log, run.lease.id) /\ ~IsTerminal(run)'
      BY <2>2, <3>1 DEF Write, IsTerminal
    <3>3. QED
      BY <3>1, <3>2, WriteAuthority DEF Steps, Authority!Next
  <2>3. QED
    BY <1>24, <2>1, <2>2 DEF CommitOwned
<1>25. ASSUME NEW t \in Task, FinishTurn(t) PROVE Steps
  BY <1>25, SameAuthority DEF FinishTurn, Steps
<1>26. ASSUME NEW t \in Task, TurnThrows(t) PROVE Steps
  BY <1>26, SameAuthority DEF TurnThrows, Steps
<1>27. ASSUME NEW t \in Task, SettleFailedTurn(t) PROVE Steps
  BY <1>27, SameAuthority DEF SettleFailedTurn, Steps
<1>28. ASSUME NEW t \in Task, Settle(t) PROVE Steps
  <2>1. CASE SettleAllowed(t)
    BY <1>28, <2>1, SettleAuthority DEF Settle
  <2>2. CASE ~SettleAllowed(t)
    BY <1>28, <2>2, SameAuthority DEF Settle, Steps
  <2>3. QED
    BY <2>1, <2>2
<1>29. ASSUME NEW t \in Task, SettleError(t) PROVE Steps
  <2>1. CASE SettleAllowed(t) /\ WriteSettlement(t)
    BY <1>29, <2>1, SettleAuthority DEF SettleError
  <2>2. CASE UNCHANGED <<run, log>>
    BY <1>29, <2>2, SameAuthority DEF SettleError, Steps
  <2>3. QED
    BY <1>29, <2>1, <2>2 DEF SettleError
<1>30. ASSUME NEW p \in Process, Crash(p) PROVE Steps
  BY <1>30, SameAuthority DEF Crash, Steps
<1>31. ASSUME Precreate PROVE Steps
  <2>1. run'.lease = run.lease /\ ~IsTerminal(run) /\ ~IsTerminal(run)'
    BY <1>31, WithFields
    DEF Precreate, IsTerminal, TerminalStatus, Absent, FenceInv, TypeOK, StoreTypes
  <2>2. QED
    BY <1>31, <2>1, SameAuthority DEF Precreate, Steps
<1>32. ASSUME ResolveRecovery PROVE Steps
  <2>1. run'.lease.id = 0 /\ run'.status = "queued"
    BY <1>32
    DEF ResolveRecovery, WithLease, NoLease, Record, FenceInv, TypeOK, StoreTypes
  <2>2. Authority!Reopen
    BY <1>32, <2>1
    DEF ResolveRecovery, Authority!Reopen, AuthorityState, IsTerminal, TerminalStatus
  <2>3. QED
    BY <2>2 DEF Steps, Authority!Next
<1>33. ASSUME Tick \/ UNCHANGED vars PROVE Steps
  BY <1>33, SameAuthority DEF Tick, Elapse, Steps
<1> QED
  BY <1>1, <1>2, <1>3, <1>4, <1>5, <1>6, <1>7, <1>8, <1>9, <1>10, <1>11, <1>12, <1>13,
     <1>14, <1>15, <1>16, <1>17, <1>18, <1>19, <1>20, <1>21, <1>22, <1>23, <1>24, <1>25,
     <1>26, <1>27, <1>28, <1>29, <1>30, <1>31, <1>32, <1>33 DEF Next, Recover, Begin,
     Renew, Work, End

\* The record implements the register of fencing tokens.
THEOREM Refinement == Spec => ImplementsAuthority
<1>1. FenceInv /\ [Next]_vars => [Authority!Next]_(Authority!vars)
  BY StepAuthority DEF Steps, AuthorityVars, Authority!vars
<1>2. QED
  BY <1>1, InitAuthority, FenceInvariant, PTL DEF Spec, ImplementsAuthority, Authority!Spec

Register == INSTANCE TurnAuthorityProofs WITH
  owner <- run.lease.id, issued <- nextId - 1, state <- AuthorityState, writes <- log

\* Once a later owner has written for the run, no earlier owner's checkpoint,
\* commit or settlement is ever stored again.
THEOREM OwnersWriteInOrder == Spec => []WritesFollowLeases
<1>1. Init => Register!Init
  BY InitAuthority DEF Authority!Init, Register!Init
<1>2. [Authority!Next]_AuthorityVars => [Register!Next]_(Register!vars)
  BY DEF AuthorityVars, Register!vars, Authority!Next, Authority!Grant, Authority!Release,
     Authority!Write, Authority!Close, Authority!Reopen, Authority!OwnerWrites,
     Register!Next, Register!Grant, Register!Release, Register!Write, Register!Close,
     Register!Reopen, Register!OwnerWrites
<1>3. FenceInv /\ [Next]_vars => [Register!Next]_(Register!vars)
  BY <1>2, StepAuthority DEF Steps
<1>4. Register!TokenInv /\ [Register!Next]_(Register!vars) => Register!TokenInv'
  BY Register!TokenStep
<1>5. Init => Register!TokenInv
  BY <1>1, Register!TokenInit
<1>6. Register!TokenInv => WritesFollowLeases
  BY DEF Register!TokenInv, Register!WritesInOrder, WritesFollowLeases
<1>7. QED
  BY <1>3, <1>4, <1>5, <1>6, FenceInvariant, PTL DEF Spec

-----------------------------------------------------------------------------
(* What a step may do to a settled run and to a lease *)

Reopened == run.status = "needs-recovery" /\ run'.status = "queued" /\ run'.lease = NoLease

KeepsLease == run'.lease.id = run.lease.id /\ run'.lease.attempt = run.lease.attempt

NewLease ==
  /\ run'.lease.id # 0
  /\ run'.lease.attempt <= MaxAttempts
  /\ \/ run'.lease.attempt > run.lease.attempt
     \/ run.lease.id = 0 /\ run'.lease.attempt = 1

LeaseStep ==
  \/ run' = run
  \/ ~IsTerminal(run) /\ (KeepsLease \/ run'.lease = NoLease \/ NewLease)
  \/ Reopened

LEMMA SwapLease ==
  ASSUME FenceInv, NEW t \in Task, NEW status, SwapClaimed(t, status)
  PROVE  LeaseStep
  BY WithFields
  DEF SwapClaimed, TransitionAllowed, IsTerminal, TerminalStatus, LeaseStep, FenceInv, TypeOK,
      StoreTypes

LEMMA StartLease ==
  ASSUME FenceInv, NEW t \in Task, StartAllowed(t), WriteStart(t)
  PROVE  LeaseStep
<1>1. run'.lease = IF held[t] = 0
                   THEN [id |-> nextId, attempt |-> 1, owner |-> OwnerId(Home[t])]
                   ELSE [id |-> held[t], attempt |-> run.lease.attempt,
                         owner |-> OwnerId(Home[t])]
  BY WithFields DEF WriteStart, FenceInv, TypeOK, StoreTypes
<1>2. nextId # 0 /\ 1 <= MaxAttempts
  BY ConstantsOK DEF FenceInv, TypeOK, OtherTypes
<1>3. ~IsTerminal(run) /\ run.lease.id = held[t]
  BY DEF StartAllowed, HoldsRun
<1>4. QED
  BY <1>1, <1>2, <1>3 DEF LeaseStep, KeepsLease, NewLease

LEMMA StatusLease ==
  ASSUME FenceInv, NEW status, run' = WithStatus(run, status), ~IsTerminal(run)
  PROVE  LeaseStep
  BY WithFields DEF LeaseStep, KeepsLease, FenceInv, TypeOK, StoreTypes

LEMMA StepLease == FenceInv /\ [Next]_vars => LeaseStep
<1> SUFFICES ASSUME FenceInv, [Next]_vars PROVE LeaseStep
  OBVIOUS
<1>1. ASSUME NEW t \in Task, ReadRun(t) PROVE LeaseStep
  BY <1>1 DEF ReadRun, LeaseStep
<1>2. ASSUME NEW t \in Task, CheckDrain(t) PROVE LeaseStep
  BY <1>2 DEF CheckDrain, LeaseStep
<1>3. ASSUME NEW t \in Task, Claim(t) PROVE LeaseStep
  <2>1. CASE UNCHANGED run
    BY <2>1 DEF LeaseStep
  <2>2. CASE run' = ExhaustedRun(run) /\ IsClaimable(run)
    BY <2>2, WithFields
    DEF ExhaustedRun, LeaseStep, IsTerminal, TerminalStatus, IsClaimable, ClaimableStatus,
        FenceInv, TypeOK, StoreTypes
  <2>3. CASE /\ run' = ClaimedRun(run, seen[t].lease.attempt + 1, nextId, OwnerId(Home[t]))
             /\ ~Exhausted(run, seen[t].lease.attempt + 1, MaxAttempts)
             /\ IsClaimable(run)
    <3>1. /\ run.lease.attempt \in Nat /\ seen[t].lease.attempt \in Nat /\ nextId # 0
      BY RecordTypes DEF FenceInv, TypeOK, StoreTypes, ClaimTypes, OtherTypes, Lease
    <3>2. /\ EffectiveAttempt(run, seen[t].lease.attempt + 1) > run.lease.attempt
          /\ EffectiveAttempt(run, seen[t].lease.attempt + 1) <= MaxAttempts
      BY <2>3, <3>1, ConstantsOK DEF EffectiveAttempt, Exhausted
    <3>3. /\ run'.lease.id = nextId
          /\ run'.lease.attempt = EffectiveAttempt(run, seen[t].lease.attempt + 1)
      BY <2>3, WithFields DEF ClaimedRun, FenceInv, TypeOK, StoreTypes
    <3>4. QED
      BY <2>3, <3>1, <3>2, <3>3
      DEF LeaseStep, NewLease, IsTerminal, TerminalStatus, IsClaimable, ClaimableStatus
  <2>4. QED
    BY <1>3, <2>1, <2>2, <2>3 DEF Claim, ClaimAllowed
<1>4. ASSUME NEW t \in Task, ParkClaimed(t) PROVE LeaseStep
  BY <1>4, SwapLease DEF ParkClaimed
<1>5. ASSUME NEW t \in Task, CancelClaimed(t) PROVE LeaseStep
  BY <1>5, SwapLease DEF CancelClaimed
<1>6. ASSUME NEW t \in Task, RequeueClaimed(t) PROVE LeaseStep
  BY <1>6, SwapLease DEF RequeueClaimed
<1>7. ASSUME NEW t \in Task, HandOffToInput(t) PROVE LeaseStep
  BY <1>7, SwapLease DEF HandOffToInput
<1>8. ASSUME NEW t \in Task, EnqueueContinuation(t) PROVE LeaseStep
  BY <1>8 DEF EnqueueContinuation, LeaseStep
<1>9. ASSUME NEW t \in Task, EnqueueInput(t) PROVE LeaseStep
  BY <1>9 DEF EnqueueInput, LeaseStep
<1>10. ASSUME NEW t \in Task, CancelQueued(t) PROVE LeaseStep
  BY <1>10, StatusLease DEF CancelQueued, LeaseStep
<1>11. ASSUME NEW t \in Task, BeginDrain(t) PROVE LeaseStep
  BY <1>11 DEF BeginDrain, LeaseStep
<1>12. ASSUME NEW t \in Task, Start(t) PROVE LeaseStep
  BY <1>12, StartLease DEF Start
<1>13. ASSUME NEW t \in Task, StartConflict(t) PROVE LeaseStep
  BY <1>13 DEF StartConflict, LeaseStep
<1>14. ASSUME NEW t \in Task, StartError(t) PROVE LeaseStep
  BY <1>14, StartLease DEF StartError, LeaseStep
<1>15. ASSUME NEW t \in Task, HoldLease(t) PROVE LeaseStep
  BY <1>15 DEF HoldLease, LeaseStep
<1>16. ASSUME NEW t \in Task, ScheduleAfterStart(t) PROVE LeaseStep
  BY <1>16 DEF ScheduleAfterStart, LeaseStep
<1>17. ASSUME NEW t \in Task, ScheduleAfterStartError(t) PROVE LeaseStep
  BY <1>17, WithFields
  DEF ScheduleAfterStartError, TransitionAllowed, IsTerminal, TerminalStatus, LeaseStep,
      FenceInv, TypeOK, StoreTypes
<1>18. ASSUME NEW t \in Task, SendRenewal(t) PROVE LeaseStep
  BY <1>18 DEF SendRenewal, LeaseStep
<1>19. ASSUME NEW t \in Task, ApplyRenewal(t) PROVE LeaseStep
  BY <1>19 DEF ApplyRenewal, LeaseStep
<1>20. ASSUME NEW t \in Task, RenewalError(t) PROVE LeaseStep
  BY <1>20 DEF RenewalError, LeaseStep
<1>21. ASSUME NEW t \in Task, AbandonLost(t) PROVE LeaseStep
  BY <1>21 DEF AbandonLost, LeaseStep
<1>22. ASSUME NEW t \in Task, ReadVersion(t) PROVE LeaseStep
  BY <1>22 DEF ReadVersion, LeaseStep
<1>23. ASSUME NEW t \in Task, WriteCheckpoint(t) PROVE LeaseStep
  BY <1>23
  DEF WriteCheckpoint, FencedWriteAllowed, FencedWriteConflict, LeaseStep, KeepsLease,
      FenceInv, TypeOK, StoreTypes, Record
<1>24. ASSUME NEW t \in Task, CommitOwned(t) PROVE LeaseStep
  BY <1>24 DEF CommitOwned, LeaseStep
<1>25. ASSUME NEW t \in Task, FinishTurn(t) PROVE LeaseStep
  BY <1>25 DEF FinishTurn, LeaseStep
<1>26. ASSUME NEW t \in Task, TurnThrows(t) PROVE LeaseStep
  BY <1>26 DEF TurnThrows, LeaseStep
<1>27. ASSUME NEW t \in Task, SettleFailedTurn(t) PROVE LeaseStep
  BY <1>27 DEF SettleFailedTurn, LeaseStep
<1>28. ASSUME NEW t \in Task, Settle(t) PROVE LeaseStep
  BY <1>28, StatusLease DEF Settle, SettleAllowed, WriteSettlement, LeaseStep
<1>29. ASSUME NEW t \in Task, SettleError(t) PROVE LeaseStep
  BY <1>29, StatusLease DEF SettleError, SettleAllowed, WriteSettlement, LeaseStep
<1>30. ASSUME NEW p \in Process, Crash(p) PROVE LeaseStep
  BY <1>30 DEF Crash, LeaseStep
<1>31. ASSUME Precreate PROVE LeaseStep
  BY <1>31, StatusLease DEF Precreate, IsTerminal, TerminalStatus, Absent
<1>32. ASSUME ResolveRecovery PROVE LeaseStep
  BY <1>32
  DEF ResolveRecovery, LeaseStep, Reopened, WithLease, Record, FenceInv, TypeOK, StoreTypes
<1>33. ASSUME Tick \/ UNCHANGED vars PROVE LeaseStep
  BY <1>33 DEF Tick, Elapse, LeaseStep
<1> QED
  BY <1>1, <1>2, <1>3, <1>4, <1>5, <1>6, <1>7, <1>8, <1>9, <1>10, <1>11, <1>12, <1>13,
     <1>14, <1>15, <1>16, <1>17, <1>18, <1>19, <1>20, <1>21, <1>22, <1>23, <1>24, <1>25,
     <1>26, <1>27, <1>28, <1>29, <1>30, <1>31, <1>32, <1>33 DEF Next, Recover, Begin,
     Renew, Work, End

\* A settled run stays as it was settled; only an operator reopens a parked one.
THEOREM SettledRunsStay == Spec => SettledForever
<1>1. LeaseStep => (IsTerminal(run) =>
        \/ run' = run
        \/ run.status = "needs-recovery" /\ run'.status = "queued" /\ run'.lease = NoLease)
  BY DEF LeaseStep, Reopened
<1>2. FenceInv /\ [Next]_vars =>
        [IsTerminal(run) =>
           \/ run' = run
           \/ run.status = "needs-recovery" /\ run'.status = "queued" /\ run'.lease = NoLease]_vars
  BY <1>1, StepLease
<1>3. QED
  BY <1>2, FenceInvariant, PTL DEF Spec, SettledForever

\* A run without a lease has no attempt on record, so a first lease is a first
\* attempt; with it, every replacement of a lease spends an attempt.
NullLease == run.lease.id = 0 => run.lease.attempt = 0

LEMMA StepNullLease == FenceInv /\ NullLease /\ [Next]_vars => NullLease'
  BY StepLease
  DEF LeaseStep, KeepsLease, NewLease, Reopened, NullLease, NoLease, FenceInv, TypeOK, StoreTypes

THEOREM TakeoversSpendAttempts == Spec => TakeoverSpendsAttempt
<1>1. Init => NullLease
  BY DEF Init, NullLease, NewRun, NoLease
<1>2. FenceInv /\ NullLease /\ [Next]_vars =>
        [run'.lease.id \notin {0, run.lease.id} =>
           run'.lease.attempt > run.lease.attempt /\ run'.lease.attempt <= MaxAttempts]_vars
  BY StepLease
  DEF LeaseStep, KeepsLease, NewLease, Reopened, NullLease, NoLease, FenceInv, TypeOK, StoreTypes
<1>3. QED
  BY <1>1, <1>2, StepNullLease, FenceInvariant, PTL DEF Spec, TakeoverSpendsAttempt


-----------------------------------------------------------------------------
(* Whose lease a claim may replace early *)

\* A lease the run's record names is carried by a turn of the owner it names,
\* and by a turn at work when the run is running.  A parked run has none.
RunHeld ==
  \A t \in Task : held[t] # 0 /\ HoldsRun(t) =>
    /\ run.lease.owner = OwnerId(Home[t])
    /\ run.status = "running" => Working(t)
    /\ run.status # "needs-recovery"

\* The same for the record a claim was made from, however old, as long as the
\* lease is carried at all; past the look at the drain, by no turn of the
\* claim's own process that runs under it.
SeenHeld ==
  \A t, u \in Task : held[t] # 0 /\ seen[u].lease.id = held[t] =>
    /\ seen[u].lease.owner = OwnerId(Home[t])
    /\ seen[u].status = "running" => Working(t) /\ (pc[u] = "clear" => Home[t] # Home[u])

\* A lease taken for abandoned is carried by nobody.
GoneUnheld == \A t, u \in Task : held[t] # 0 => gone[u] # held[t]

IdsIssued ==
  /\ run.lease.id < nextId
  /\ \A u \in Task : seen[u].lease.id < nextId /\ gone[u] < nextId
  /\ \A p \in Process : 0 \notin active[p]

ClaimsInv == RunHeld /\ SeenHeld /\ GoneUnheld /\ IdsIssued

\* A step that hands no lease to anybody, and reads the run for no claim.
KeepsRun ==
  \A t \in Task : held'[t] # 0 /\ run'.lease.id = held'[t] =>
    /\ run.lease.id = run'.lease.id /\ run'.lease.owner = run.lease.owner
    /\ run'.status = "running" => run.status = "running"
    /\ run'.status = "needs-recovery" => run.status = "needs-recovery"

KeepsHeld ==
  \A t \in Task : held'[t] # 0 =>
    /\ held'[t] = held[t] /\ life'[Home[t]] = life[Home[t]]
    /\ Working(t) => Working(t)'

KeepsClaims ==
  \A u \in Task : /\ seen'[u] \in {seen[u], Unseen}
                  /\ gone'[u] \in {gone[u], 0}
                  /\ pc'[u] = "clear" => pc[u] = "clear"

KeepsIds ==
  /\ nextId' \in Nat /\ nextId' >= nextId /\ run'.lease.id < nextId'
  /\ \A p \in Process : 0 \notin active'[p]

Keeps == KeepsRun /\ KeepsHeld /\ KeepsClaims /\ KeepsIds

LEMMA KeepsInv ==
  ASSUME FenceInv, ClaimsInv, Keeps
  PROVE  ClaimsInv'
<1>1. /\ Unseen.lease.id = 0 /\ nextId \in Nat \ {0}
      /\ \A u \in Task : seen[u].lease.id \in Nat /\ gone[u] \in Nat
      /\ \A t \in Task : held[t] \in Nat
  BY DEF Unseen, Snapshot, NewRun, NoLease, FenceInv, TypeOK, OtherTypes, ClaimTypes, TurnTypes, Lease
<1>2. RunHeld'
  BY DEF ClaimsInv, RunHeld, Keeps, KeepsRun, KeepsHeld, HoldsRun, OwnerId
<1>3. SeenHeld'
  <2>1. SUFFICES ASSUME NEW t \in Task, NEW u \in Task, held'[t] # 0, seen'[u].lease.id = held'[t]
                 PROVE  /\ seen'[u].lease.owner = OwnerId(Home[t])'
                        /\ seen'[u].status = "running" =>
                             Working(t)' /\ (pc'[u] = "clear" => Home[t] # Home[u])
    BY DEF SeenHeld
  <2>2. held'[t] = held[t] /\ life'[Home[t]] = life[Home[t]] /\ (Working(t) => Working(t)')
    BY <2>1 DEF Keeps, KeepsHeld
  <2>3. seen'[u] = seen[u] /\ (pc'[u] = "clear" => pc[u] = "clear")
    BY <1>1, <2>1 DEF Keeps, KeepsClaims
  <2>4. /\ seen[u].lease.owner = OwnerId(Home[t])
        /\ seen[u].status = "running" => Working(t) /\ (pc[u] = "clear" => Home[t] # Home[u])
    BY <2>1, <2>2, <2>3 DEF ClaimsInv, SeenHeld
  <2>5. OwnerId(Home[t])' = OwnerId(Home[t])
    BY <2>2 DEF OwnerId
  <2>6. QED
    BY <2>2, <2>3, <2>4, <2>5
<1>4. GoneUnheld'
  BY DEF ClaimsInv, GoneUnheld, Keeps, KeepsClaims, KeepsHeld
<1>5. IdsIssued'
  <2>1. \A u \in Task : seen'[u].lease.id < nextId' /\ gone'[u] < nextId'
    <3>1. SUFFICES ASSUME NEW u \in Task
                   PROVE  seen'[u].lease.id < nextId' /\ gone'[u] < nextId'
      OBVIOUS
    <3>2. seen[u].lease.id < nextId /\ gone[u] < nextId
      BY DEF ClaimsInv, IdsIssued
    <3>3. nextId' \in Nat /\ nextId' >= nextId
      BY DEF Keeps, KeepsIds
    <3>4. seen'[u] \in {seen[u], Unseen} /\ gone'[u] \in {gone[u], 0}
      BY DEF Keeps, KeepsClaims
    <3>5. QED
      BY <1>1, <3>2, <3>3, <3>4
  <2>2. QED
    BY <2>1 DEF Keeps, KeepsIds, IdsIssued
<1>6. QED
  BY <1>2, <1>3, <1>4, <1>5 DEF ClaimsInv

\* What the types and the fence say of every step below.
LEMMA HeldFacts ==
  ASSUME FenceInv, ClaimsInv
  PROVE  /\ pc \in [Task -> PC] /\ held \in [Task -> Nat] /\ active \in [Process -> SUBSET Nat]
         /\ seen \in [Task -> [status : Status, lease : Lease]] /\ gone \in [Task -> Nat]
         /\ life \in [Process -> Nat] /\ nextId \in Nat \ {0} /\ run \in Record
         /\ run.lease.id \in Nat /\ run.lease.id < nextId
         /\ \A p \in Process : 0 \notin active[p]
         /\ \A t \in Task : Home[t] \in Process /\ held[t] < nextId
         /\ \A s, t \in Task : held[s] = held[t] /\ held[s] # 0 => s = t
         /\ \A t \in Task : Working(t) => held[t] # 0
  BY ConstantTypes, RecordTypes
  DEF FenceInv, TypeOK, StoreTypes, ClaimTypes, TurnTypes, OtherTypes, HeldInv, HeldIssued,
      HeldApart, WorkersHold, ClaimsInv, IdsIssued

\* A task that leaves gives its lease up, whatever it wrote with it.
LEMMA LeaveKeeps ==
  ASSUME FenceInv, ClaimsInv, NEW t \in Task, Leave(t), UNCHANGED <<life, claimVars>>,
         nextId' \in {nextId, nextId + 1},
         \/ run' = run
         \/ run'.lease.id = 0
         \/ run'.lease.id = nextId /\ nextId' = nextId + 1
         \/ HoldsRun(t) /\ run'.lease.id = run.lease.id
  PROVE  Keeps
<1>1. /\ \A s \in Task \ {t} : held'[s] = held[s] /\ pc'[s] = pc[s]
      /\ held'[t] = 0 /\ pc'[t] = "idle"
      /\ \A p \in Process : active'[p] \subseteq active[p]
  BY HeldFacts DEF Leave
<1>2. KeepsHeld
  BY <1>1 DEF KeepsHeld, Working
<1>3. KeepsRun
  <2>1. SUFFICES ASSUME NEW s \in Task, held'[s] # 0, run'.lease.id = held'[s]
                 PROVE  run' = run
    BY DEF KeepsRun
  <2>2. s # t /\ run'.lease.id = held[s] /\ held[s] # 0 /\ held[s] < nextId
    BY <1>1, <2>1, HeldFacts
  <2>3. ~(HoldsRun(t) /\ run'.lease.id = run.lease.id)
    BY <2>2, HeldFacts DEF HoldsRun
  <2>4. run'.lease.id # nextId
    BY <2>2, HeldFacts
  <2>5. QED
    BY <2>2, <2>3, <2>4
<1>4. KeepsClaims
  BY <1>1 DEF KeepsClaims
<1>5. KeepsIds
  <2>1. nextId' \in Nat /\ nextId' >= nextId
    BY HeldFacts
  <2>2. run'.lease.id < nextId'
    BY <2>1, HeldFacts
  <2>3. QED
    BY <1>1, <2>1, <2>2, HeldFacts DEF KeepsIds
<1>6. QED
  BY <1>2, <1>3, <1>4, <1>5 DEF Keeps

\* A task that only moves on, with what it holds.
LEMMA MoveKeeps ==
  ASSUME FenceInv, ClaimsInv, NEW t \in Task, UNCHANGED <<held, life, nextId, claimVars>>,
         run'.lease = run.lease,
         run'.status = run.status \/ run'.status \in {"completed", "cancelled"},
         \/ UNCHANGED pc
         \/ \E place : /\ Goto(t, place) /\ place # "clear"
                       /\ ~Working(t) \/ place \in {"running", "failed", "settling"},
         \A p \in Process : active'[p] \subseteq active[p] \cup {held[t]},
         held[t] # 0 \/ UNCHANGED active
  PROVE  Keeps
<1>1. KeepsHeld /\ KeepsClaims
  BY HeldFacts DEF KeepsHeld, KeepsClaims, Working
<1>2. KeepsRun
  BY DEF KeepsRun
<1>3. KeepsIds
  <2>1. \A p \in Process : 0 \notin active'[p]
    BY HeldFacts
  <2>2. QED
    BY <2>1, HeldFacts DEF KeepsIds
<1>4. QED
  BY <1>1, <1>2, <1>3 DEF Keeps

\* A lease carried by a turn of the owner it names is taken for abandoned only
\* by that owner, and then only when the turn is not known to run.
LEMMA NotAbandoned ==
  ASSUME FenceInv, NEW t \in Task, NEW u \in Task, held[t] # 0,
         seen[u].lease.id = held[t] =>
           /\ seen[u].lease.owner = OwnerId(Home[t])
           /\ seen[u].status = "running" => Home[t] # Home[u]
  PROVE  AbandonedLeaseId(Home[u], seen[u]) # held[t]
<1>1. SUFFICES ASSUME AbandonedLeaseId(Home[u], seen[u]) = held[t]
               PROVE  FALSE
  OBVIOUS
<1>2. /\ seen[u].lease.id = held[t]
      /\ ~(seen[u].lease.owner = OwnerId(Home[u]) /\ seen[u].status # "running")
      /\ ~(seen[u].lease.owner # OwnerId(Home[u]) /\ ~IsGone(seen[u].lease.owner))
  BY <1>1 DEF AbandonedLeaseId
<1>3. seen[u].lease.owner = OwnerId(Home[t])
  BY <1>2
<1>4. ~IsGone(OwnerId(Home[t]))
  BY DEF IsGone, OwnerId
<1>5. OwnerId(Home[t]) = OwnerId(Home[u]) => Home[t] = Home[u]
  BY DEF OwnerId
<1>6. QED
  BY <1>2, <1>3, <1>4, <1>5


\* The steps that take a lease or read the run to take it.
Takes(t) == ReadRun(t) \/ CheckDrain(t) \/ Claim(t) \/ Start(t)

LEMMA SwapGives ==
  ASSUME FenceInv, NEW t \in Task, NEW status, SwapClaimed(t, status)
  PROVE  run' = run \/ run'.lease.id = 0
  BY WithFields DEF SwapClaimed, NoLease, FenceInv, TypeOK, StoreTypes

LEMMA StepKeeps ==
  ASSUME FenceInv, ClaimsInv, [Next]_vars
  PROVE  Keeps \/ \E t \in Task : Takes(t)
<1>a. nextId \in Nat /\ run \in Record
  BY HeldFacts
<1>1. ASSUME NEW t \in Task, ParkClaimed(t) \/ CancelClaimed(t) \/ RequeueClaimed(t)
      PROVE  Keeps
  <2>1. \E status : SwapClaimed(t, status)
    BY <1>1 DEF ParkClaimed, CancelClaimed, RequeueClaimed
  <2>2. Leave(t) /\ UNCHANGED <<life, claimVars, nextId>>
    BY <1>1 DEF ParkClaimed, CancelClaimed, RequeueClaimed
  <2>3. QED
    BY <2>1, <2>2, SwapGives, LeaveKeeps
<1>2. ASSUME NEW t \in Task, HandOffToInput(t)
      PROVE  Keeps
  <2>1. run'.lease.id = 0
    BY <1>2, WithFields DEF HandOffToInput, SwapClaimed, NoLease, FenceInv, TypeOK, StoreTypes
  <2>2. /\ held' = [held EXCEPT ![t] = 0] /\ pc' = [pc EXCEPT ![t] = "queued"] /\ pc[t] = "claimed"
        /\ UNCHANGED <<life, claimVars, active, nextId>>
    BY <1>2 DEF HandOffToInput
  <2>3. KeepsRun
    BY <2>1 DEF KeepsRun
  <2>4. KeepsHeld /\ KeepsClaims
    BY <2>2, HeldFacts DEF KeepsHeld, KeepsClaims, Working
  <2>5. KeepsIds
    BY <2>1, <2>2, HeldFacts DEF KeepsIds
  <2>6. QED
    BY <2>3, <2>4, <2>5 DEF Keeps
<1>3. ASSUME NEW t \in Task, EnqueueContinuation(t) \/ EnqueueInput(t) \/ BeginDrain(t)
      PROVE  Keeps
  <2>1. /\ UNCHANGED <<run, held, life, nextId, claimVars, active>> /\ ~Working(t)
        /\ \E place \in {"queued", "starting"} : Goto(t, place)
    BY <1>3 DEF EnqueueContinuation, EnqueueInput, BeginDrain, Working
  <2>2. QED
    BY <2>1, MoveKeeps
<1>4. ASSUME NEW t \in Task, CancelQueued(t)
      PROVE  Keeps
  <2>1. Leave(t) /\ UNCHANGED <<life, claimVars, nextId>>
    BY <1>4 DEF CancelQueued
  <2>2. run' = run \/ (HoldsRun(t) /\ run' = WithStatus(run, "cancelled"))
    BY <1>4 DEF CancelQueued
  <2>3. run' = run \/ (HoldsRun(t) /\ run'.lease.id = run.lease.id)
    BY <1>a, <2>2 DEF WithStatus, Record
  <2>4. QED
    BY <2>1, <2>3, LeaveKeeps
<1>5. ASSUME NEW t \in Task, StartConflict(t) \/ AbandonLost(t)
      PROVE  Keeps
  BY <1>5, LeaveKeeps DEF StartConflict, AbandonLost
<1>6. ASSUME NEW t \in Task, StartError(t)
      PROVE  Keeps
  <2>1. Leave(t) /\ UNCHANGED <<life, claimVars>>
    BY <1>6 DEF StartError
  <2>2. CASE UNCHANGED <<run, left, nextId>>
    BY <2>1, <2>2, LeaveKeeps
  <2>3. CASE StartAllowed(t) /\ WriteStart(t)
    <3>1. /\ run'.lease.id = IF held[t] = 0 THEN nextId ELSE held[t]
          /\ nextId' = IF held[t] = 0 THEN nextId + 1 ELSE nextId
      BY <1>a, <2>3, WithFields DEF WriteStart
    <3>2. run.lease.id = held[t] /\ HoldsRun(t)
      BY <2>3 DEF StartAllowed, HoldsRun
    <3>3. QED
      BY <2>1, <3>1, <3>2, LeaveKeeps
  <2>4. QED
    BY <1>6, <2>2, <2>3 DEF StartError
<1>7. ASSUME NEW t \in Task, HoldLease(t)
      PROVE  Keeps
  <2>1. /\ UNCHANGED <<run, held, life, nextId, claimVars>> /\ held[t] # 0
        /\ \E place \in {"scheduling", "running"} : Goto(t, place)
        /\ active' = [active EXCEPT ![Home[t]] = active[Home[t]] \cup {held[t]}]
    BY <1>7, HeldFacts DEF HoldLease, Working
  <2>2. \A p \in Process : active'[p] \subseteq active[p] \cup {held[t]}
    BY <2>1, HeldFacts
  <2>3. KeepsHeld /\ KeepsClaims
    BY <2>1, HeldFacts DEF KeepsHeld, KeepsClaims, Working
  <2>4. KeepsRun /\ KeepsIds
    BY <2>1, <2>2, HeldFacts DEF KeepsRun, KeepsIds
  <2>5. QED
    BY <2>3, <2>4 DEF Keeps
<1>8. ASSUME NEW t \in Task, ScheduleAfterStart(t) \/ TurnThrows(t)
      PROVE  Keeps
  <2>1. /\ UNCHANGED <<run, held, life, nextId, claimVars, active>>
        /\ \E place \in {"running", "failed"} : Goto(t, place)
    BY <1>8 DEF ScheduleAfterStart, TurnThrows
  <2>2. QED
    BY <2>1, MoveKeeps
<1>9. ASSUME NEW t \in Task, ScheduleAfterStartError(t)
      PROVE  Keeps
  <2>1. run' = run \/ run'.lease.id = 0
    BY <1>a, <1>9, WithFields DEF ScheduleAfterStartError, NoLease
  <2>2. Leave(t) /\ UNCHANGED <<life, claimVars, nextId>>
    BY <1>9 DEF ScheduleAfterStartError
  <2>3. QED
    BY <2>1, <2>2, LeaveKeeps
<1>10. ASSUME NEW t \in Task, SendRenewal(t) \/ ApplyRenewal(t) \/ RenewalError(t) \/ ReadVersion(t)
       PROVE  Keeps
  <2>1. UNCHANGED <<run, held, life, nextId, claimVars, active, pc>>
    BY <1>10 DEF SendRenewal, ApplyRenewal, RenewalError, ReadVersion
  <2>2. QED
    BY <2>1, MoveKeeps
<1>11. ASSUME NEW t \in Task, WriteCheckpoint(t)
       PROVE  Keeps
  <2>1. UNCHANGED <<life, claimVars, nextId>>
    BY <1>11 DEF WriteCheckpoint
  <2>2. \/ UNCHANGED run /\ Leave(t)
        \/ UNCHANGED <<active, pc, held>> /\ (run' = run \/ \E v : run' = [run EXCEPT !.checkpointVersion = v])
    BY <1>11 DEF WriteCheckpoint
  <2>3. CASE UNCHANGED run /\ Leave(t)
    BY <2>1, <2>3, LeaveKeeps
  <2>4. CASE UNCHANGED <<active, pc, held>> /\ (run' = run \/ \E v : run' = [run EXCEPT !.checkpointVersion = v])
    <3>1. run'.lease = run.lease /\ run'.status = run.status
      BY <1>a, <2>4 DEF Record
    <3>2. QED
      BY <2>1, <2>4, <3>1, MoveKeeps
  <2>5. QED
    BY <2>2, <2>3, <2>4
<1>12. ASSUME NEW t \in Task, CommitOwned(t)
       PROVE  Keeps
  <2>1. UNCHANGED <<run, life, claimVars, nextId>> /\ (Leave(t) \/ UNCHANGED <<active, pc, held>>)
    BY <1>12 DEF CommitOwned
  <2>2. CASE Leave(t)
    BY <2>1, <2>2, LeaveKeeps
  <2>3. CASE UNCHANGED <<active, pc, held>>
    BY <2>1, <2>3, MoveKeeps
  <2>4. QED
    BY <2>1, <2>2, <2>3
<1>13. ASSUME NEW t \in Task, FinishTurn(t)
       PROVE  Keeps
  <2>1. UNCHANGED <<run, held, life, nextId, claimVars, active>> /\ Goto(t, "settling")
    BY <1>13 DEF FinishTurn
  <2>2. QED
    BY <2>1, MoveKeeps
<1>14. ASSUME NEW t \in Task, SettleFailedTurn(t)
       PROVE  Keeps
  <2>1. /\ UNCHANGED <<run, life, nextId, claimVars>>
        /\ Leave(t) \/ (UNCHANGED <<held, active>> /\ Goto(t, "settling"))
    BY <1>14 DEF SettleFailedTurn
  <2>2. CASE Leave(t)
    BY <2>1, <2>2, LeaveKeeps
  <2>3. CASE UNCHANGED <<held, active>> /\ Goto(t, "settling")
    BY <2>1, <2>3, MoveKeeps
  <2>4. QED
    BY <2>1, <2>2, <2>3
<1>15. ASSUME NEW t \in Task, Settle(t) \/ SettleError(t)
       PROVE  Keeps
  <2>1. run' = run \/ (HoldsRun(t) /\ run' = WithStatus(run, outcome[t]))
    BY <1>15 DEF Settle, SettleError, WriteSettlement, SettleAllowed
  <2>2. UNCHANGED <<life, claimVars, nextId>>
    BY <1>15 DEF Settle, SettleError
  <2>3. \/ Leave(t)
        \/ /\ outcome[t] \in {"completed", "cancelled"} /\ UNCHANGED held /\ Goto(t, "failed")
           /\ active' = [active EXCEPT ![Home[t]] = active[Home[t]] \ {held[t]}]
           /\ pc[t] = "settling"
    BY <1>15 DEF Settle, SettleError
  <2>4. CASE Leave(t)
    <3>1. run' = run \/ (HoldsRun(t) /\ run'.lease.id = run.lease.id)
      BY <1>a, <2>1 DEF WithStatus, Record
    <3>2. QED
      BY <2>2, <2>4, <3>1, LeaveKeeps
  <2>5. CASE /\ outcome[t] \in {"completed", "cancelled"} /\ UNCHANGED held /\ Goto(t, "failed")
             /\ active' = [active EXCEPT ![Home[t]] = active[Home[t]] \ {held[t]}]
             /\ pc[t] = "settling"
    <3>1. run'.lease = run.lease /\ (run'.status = run.status \/ run'.status \in {"completed", "cancelled"})
      BY <1>a, <2>1, <2>5 DEF WithStatus, Record
    <3>2. held[t] # 0 /\ \A p \in Process : active'[p] \subseteq active[p] \cup {held[t]}
      BY <2>5, HeldFacts DEF Working
    <3>3. QED
      BY <2>2, <2>5, <3>1, <3>2, MoveKeeps
  <2>6. QED
    BY <2>3, <2>4, <2>5
<1>16. ASSUME NEW p \in Process, Crash(p)
       PROVE  Keeps
  <2>1. /\ UNCHANGED <<run, nextId>>
        /\ \A q \in Process \ {p} : life'[q] = life[q] /\ active'[q] = active[q]
        /\ active'[p] = {}
        /\ \A t \in Task : Home[t] = p => pc'[t] = "idle" /\ seen'[t] = Unseen /\ gone'[t] = 0 /\ held'[t] = 0
        /\ \A t \in Task : Home[t] # p =>
             pc'[t] = pc[t] /\ seen'[t] = seen[t] /\ gone'[t] = gone[t] /\ held'[t] = held[t]
    BY <1>16, HeldFacts DEF Crash
  <2>2. KeepsHeld /\ KeepsClaims
    BY <2>1, HeldFacts DEF KeepsHeld, KeepsClaims, Working
  <2>3. KeepsRun /\ KeepsIds
    BY <2>1, HeldFacts DEF KeepsRun, KeepsIds
  <2>4. QED
    BY <2>2, <2>3 DEF Keeps
<1>17. ASSUME Precreate \/ ResolveRecovery \/ Tick \/ UNCHANGED vars
       PROVE  Keeps
  <2>1. UNCHANGED <<held, life, active, pc, claimVars, nextId>>
    BY <1>17 DEF Precreate, ResolveRecovery, Tick, Elapse
  <2>2. \/ run' = run
        \/ run'.lease = run.lease /\ run'.status = "queued"
        \/ run'.lease.id = 0
    <3>1. CASE Precreate
      BY <1>a, <3>1, WithFields DEF Precreate
    <3>2. CASE ResolveRecovery
      <4>1. PICK decided \in {0, 1} :
              run' = [WithLease(run, "queued", NoLease) EXCEPT !.checkpointVersion = @ + decided]
        BY <3>2 DEF ResolveRecovery
      <4>2. run'.lease = NoLease
        BY <1>a, <4>1 DEF WithLease, Record
      <4>3. QED
        BY <4>2 DEF NoLease
    <3>3. CASE Tick \/ UNCHANGED vars
      BY <3>3 DEF Tick, Elapse
    <3>4. QED
      BY <1>17, <3>1, <3>2, <3>3
  <2>3. KeepsHeld /\ KeepsClaims
    BY <2>1, HeldFacts DEF KeepsHeld, KeepsClaims, Working
  <2>4. KeepsRun
    BY <2>1, <2>2 DEF KeepsRun
  <2>5. KeepsIds
    BY <2>1, <2>2, HeldFacts DEF KeepsIds
  <2>6. QED
    BY <2>3, <2>4, <2>5 DEF Keeps
<1>18. QED
  BY <1>1, <1>2, <1>3, <1>4, <1>5, <1>6, <1>7, <1>8, <1>9, <1>10, <1>11, <1>12, <1>13, <1>14,
     <1>15, <1>16, <1>17 DEF Next, Recover, Begin, Renew, Work, End, Takes


LEMMA TakesInv ==
  ASSUME FenceInv, ClaimsInv, NEW u \in Task, Takes(u)
  PROVE  ClaimsInv'
<1>1. CASE ReadRun(u)
  <2>1. /\ UNCHANGED <<run, life, active, held, gone, nextId>> /\ pc[u] = "idle"
        /\ pc' = [pc EXCEPT ![u] = "read"] /\ seen' = [seen EXCEPT ![u] = Snapshot(run)]
    BY <1>1 DEF ReadRun
  <2>2. \A t \in Task : Working(t)' <=> Working(t)
    BY <2>1, HeldFacts DEF Working
  <2>3. Snapshot(run).lease = run.lease /\ Snapshot(run).status = run.status
    BY DEF Snapshot
  <2>4. RunHeld'
    BY <2>1, <2>2 DEF ClaimsInv, RunHeld, HoldsRun, OwnerId
  <2>5. SeenHeld'
    <3>1. SUFFICES ASSUME NEW t \in Task, NEW v \in Task, held'[t] # 0, seen'[v].lease.id = held'[t]
                   PROVE  /\ seen'[v].lease.owner = OwnerId(Home[t])'
                          /\ seen'[v].status = "running" =>
                               Working(t)' /\ (pc'[v] = "clear" => Home[t] # Home[v])
      BY DEF SeenHeld
    <3>2. OwnerId(Home[t])' = OwnerId(Home[t])
      BY <2>1 DEF OwnerId
    <3>3. CASE v = u
      <4>1. seen'[v].lease = run.lease /\ seen'[v].status = run.status /\ pc'[v] = "read"
        BY <2>1, <2>3, <3>3, HeldFacts
      <4>2. /\ run.lease.owner = OwnerId(Home[t]) /\ (run.status = "running" => Working(t))
        BY <2>1, <3>1, <4>1 DEF ClaimsInv, RunHeld, HoldsRun
      <4>3. QED
        BY <2>2, <3>2, <4>1, <4>2
    <3>4. CASE v # u
      <4>1. seen'[v] = seen[v] /\ pc'[v] = pc[v] /\ held'[t] = held[t]
        BY <2>1, <3>4, HeldFacts
      <4>2. /\ seen[v].lease.owner = OwnerId(Home[t])
            /\ seen[v].status = "running" => Working(t) /\ (pc[v] = "clear" => Home[t] # Home[v])
        BY <3>1, <4>1 DEF ClaimsInv, SeenHeld
      <4>3. QED
        BY <2>2, <3>2, <4>1, <4>2
    <3>5. QED
      BY <3>3, <3>4
  <2>6. GoneUnheld'
    BY <2>1 DEF ClaimsInv, GoneUnheld
  <2>7. IdsIssued'
    BY <2>1, <2>3, HeldFacts DEF ClaimsInv, IdsIssued
  <2>8. QED
    BY <2>4, <2>5, <2>6, <2>7 DEF ClaimsInv
<1>2. CASE CheckDrain(u)
  <2>1. /\ UNCHANGED <<run, life, active, held, nextId>> /\ pc[u] = "read"
        /\ \/ pc' = [pc EXCEPT ![u] = "idle"] /\ seen' = [seen EXCEPT ![u] = Unseen] /\ gone' = gone
           \/ /\ ~DrainOwned(Home[u]) /\ pc' = [pc EXCEPT ![u] = "clear"] /\ seen' = seen
              /\ gone' = [gone EXCEPT ![u] = AbandonedLeaseId(Home[u], seen[u])]
    BY <1>2 DEF CheckDrain, Unread
  <2>2. CASE pc' = [pc EXCEPT ![u] = "idle"] /\ seen' = [seen EXCEPT ![u] = Unseen] /\ gone' = gone
    <3>1. KeepsHeld /\ KeepsClaims
      BY <2>1, <2>2, HeldFacts DEF KeepsHeld, KeepsClaims, Working
    <3>2. KeepsRun /\ KeepsIds
      BY <2>1, HeldFacts DEF KeepsRun, KeepsIds
    <3>3. QED
      BY <3>1, <3>2, KeepsInv DEF Keeps
  <2>3. CASE /\ ~DrainOwned(Home[u]) /\ pc' = [pc EXCEPT ![u] = "clear"] /\ seen' = seen
             /\ gone' = [gone EXCEPT ![u] = AbandonedLeaseId(Home[u], seen[u])]
    <3>1. \A t \in Task : Working(t)' <=> Working(t)
      BY <2>1, <2>3, HeldFacts DEF Working
    <3>2. \A t \in Task : Working(t) => Home[t] # Home[u]
      BY <2>3 DEF DrainOwned, Draining
    <3>3. RunHeld'
      BY <2>1, <3>1 DEF ClaimsInv, RunHeld, HoldsRun, OwnerId
    <3>4. SeenHeld'
      <4>1. SUFFICES ASSUME NEW t \in Task, NEW v \in Task, held'[t] # 0, seen'[v].lease.id = held'[t]
                     PROVE  /\ seen'[v].lease.owner = OwnerId(Home[t])'
                            /\ seen'[v].status = "running" =>
                                 Working(t)' /\ (pc'[v] = "clear" => Home[t] # Home[v])
        BY DEF SeenHeld
      <4>2. OwnerId(Home[t])' = OwnerId(Home[t])
        BY <2>1 DEF OwnerId
      <4>3. /\ seen[v].lease.owner = OwnerId(Home[t])
            /\ seen[v].status = "running" => Working(t) /\ (pc[v] = "clear" => Home[t] # Home[v])
        BY <2>1, <2>3, <4>1 DEF ClaimsInv, SeenHeld
      <4>4. pc'[v] = "clear" => pc[v] = "clear" \/ v = u
        BY <2>3, HeldFacts
      <4>5. QED
        BY <2>3, <3>1, <3>2, <4>2, <4>3, <4>4
    <3>5. \A t \in Task : held[t] # 0 => AbandonedLeaseId(Home[u], seen[u]) # held[t]
      <4>1. SUFFICES ASSUME NEW t \in Task, held[t] # 0
                     PROVE  AbandonedLeaseId(Home[u], seen[u]) # held[t]
        OBVIOUS
      <4>2. seen[u].lease.id = held[t] =>
              /\ seen[u].lease.owner = OwnerId(Home[t])
              /\ seen[u].status = "running" => Home[t] # Home[u]
        BY <3>2, <4>1 DEF ClaimsInv, SeenHeld
      <4>3. QED
        BY <4>1, <4>2, NotAbandoned
    <3>6. GoneUnheld'
      BY <2>1, <2>3, <3>5, HeldFacts DEF ClaimsInv, GoneUnheld
    <3>7. AbandonedLeaseId(Home[u], seen[u]) < nextId
      <4>1. AbandonedLeaseId(Home[u], seen[u]) \in {0, seen[u].lease.id}
        BY DEF AbandonedLeaseId
      <4>2. QED
        BY <4>1, HeldFacts DEF ClaimsInv, IdsIssued
    <3>8. IdsIssued'
      BY <2>1, <2>3, <3>7, HeldFacts DEF ClaimsInv, IdsIssued
    <3>9. QED
      BY <3>3, <3>4, <3>6, <3>8 DEF ClaimsInv
  <2>4. QED
    BY <2>1, <2>2, <2>3
<1>3. CASE Claim(u)
  <2>1. /\ UNCHANGED <<life, active>> /\ pc[u] = "clear"
        /\ seen' = [seen EXCEPT ![u] = Unseen] /\ gone' = [gone EXCEPT ![u] = 0]
        /\ \/ /\ UNCHANGED <<held, nextId>> /\ pc' = [pc EXCEPT ![u] = "idle"]
              /\ run' = run \/ run' = ExhaustedRun(run)
           \/ /\ run' = ClaimedRun(run, seen[u].lease.attempt + 1, nextId, OwnerId(Home[u]))
              /\ held' = [held EXCEPT ![u] = nextId] /\ nextId' = nextId + 1
              /\ pc' = [pc EXCEPT ![u] = "claimed"]
    BY <1>3 DEF Claim, Unread
  <2>2. CASE /\ UNCHANGED <<held, nextId>> /\ pc' = [pc EXCEPT ![u] = "idle"]
             /\ run' = run \/ run' = ExhaustedRun(run)
    <3>1. run' = run \/ run'.lease.id = 0
      BY <2>2, WithFields, HeldFacts DEF ExhaustedRun, NoLease
    <3>2. KeepsHeld /\ KeepsClaims
      BY <2>1, <2>2, HeldFacts DEF KeepsHeld, KeepsClaims, Working
    <3>3. KeepsRun
      BY <2>2, <3>1 DEF KeepsRun
    <3>4. KeepsIds
      BY <2>1, <2>2, <3>1, HeldFacts DEF KeepsIds
    <3>5. QED
      BY <3>2, <3>3, <3>4, KeepsInv DEF Keeps
  <2>3. CASE /\ run' = ClaimedRun(run, seen[u].lease.attempt + 1, nextId, OwnerId(Home[u]))
             /\ held' = [held EXCEPT ![u] = nextId] /\ nextId' = nextId + 1
             /\ pc' = [pc EXCEPT ![u] = "claimed"]
    <3>1. run'.lease.id = nextId /\ run'.lease.owner = OwnerId(Home[u]) /\ run'.status = "leased"
      BY <2>3, WithFields, HeldFacts DEF ClaimedRun
    <3>2. /\ held'[u] = nextId /\ \A t \in Task \ {u} : held'[t] = held[t] /\ pc'[t] = pc[t]
          /\ seen'[u] = Unseen /\ gone'[u] = 0
          /\ \A v \in Task \ {u} : seen'[v] = seen[v] /\ gone'[v] = gone[v]
      BY <2>1, <2>3, HeldFacts
    <3>3. Unseen.lease.id = 0
      BY DEF Unseen, Snapshot, NewRun, NoLease
    <3>4. RunHeld'
      <4>1. SUFFICES ASSUME NEW t \in Task, held'[t] # 0, run'.lease.id = held'[t]
                     PROVE  t = u
        BY <2>1, <3>1 DEF RunHeld, HoldsRun, OwnerId
      <4>2. QED
        BY <3>1, <3>2, <4>1, HeldFacts
    <3>5. SeenHeld'
      <4>1. SUFFICES ASSUME NEW t \in Task, NEW v \in Task, held'[t] # 0, seen'[v].lease.id = held'[t]
                     PROVE  /\ seen'[v].lease.owner = OwnerId(Home[t])'
                            /\ seen'[v].status = "running" =>
                                 Working(t)' /\ (pc'[v] = "clear" => Home[t] # Home[v])
        BY DEF SeenHeld
      <4>2. v # u
        BY <3>2, <3>3, <4>1
      <4>3. seen'[v] = seen[v] /\ seen[v].lease.id < nextId
        BY <3>2, <4>2 DEF ClaimsInv, IdsIssued
      <4>4. t # u
        BY <3>2, <4>1, <4>3, HeldFacts
      <4>5. held'[t] = held[t] /\ pc'[t] = pc[t] /\ pc'[v] = pc[v]
        BY <3>2, <4>2, <4>4
      <4>6. OwnerId(Home[t])' = OwnerId(Home[t]) /\ (Working(t)' <=> Working(t))
        BY <2>1, <4>5 DEF OwnerId, Working
      <4>7. QED
        BY <4>1, <4>3, <4>5, <4>6 DEF ClaimsInv, SeenHeld
    <3>6. GoneUnheld'
      <4>1. SUFFICES ASSUME NEW t \in Task, NEW v \in Task, held'[t] # 0, gone'[v] = held'[t]
                     PROVE  FALSE
        BY DEF GoneUnheld
      <4>2. v # u /\ gone'[v] = gone[v] /\ gone[v] < nextId
        BY <3>2, <4>1 DEF ClaimsInv, IdsIssued
      <4>3. gone[v] # nextId /\ held'[t] = gone[v]
        BY <4>1, <4>2, HeldFacts
      <4>4. t # u
        BY <3>2, <4>3
      <4>5. QED
        BY <3>2, <4>1, <4>3, <4>4 DEF ClaimsInv, GoneUnheld
    <3>7. IdsIssued'
      <4>1. \A v \in Task : seen'[v].lease.id < nextId' /\ gone'[v] < nextId'
        <5>1. SUFFICES ASSUME NEW v \in Task
                       PROVE  seen'[v].lease.id < nextId' /\ gone'[v] < nextId'
          OBVIOUS
        <5>2. seen[v].lease.id < nextId /\ gone[v] < nextId
          BY DEF ClaimsInv, IdsIssued
        <5>3. seen[v].lease.id \in Nat /\ gone[v] \in Nat /\ nextId \in Nat \ {0}
          BY HeldFacts DEF Lease
        <5>4. CASE v = u
          BY <2>3, <3>2, <3>3, <5>3, <5>4
        <5>5. CASE v # u
          BY <2>3, <3>2, <5>2, <5>3, <5>5
        <5>6. QED
          BY <5>4, <5>5
      <4>2. QED
        BY <2>1, <2>3, <3>1, <4>1, HeldFacts DEF IdsIssued
    <3>8. QED
      BY <3>4, <3>5, <3>6, <3>7 DEF ClaimsInv
  <2>4. QED
    BY <2>1, <2>2, <2>3
<1>4. CASE Start(u)
  <2>1. /\ UNCHANGED <<life, active, seen, gone>> /\ pc[u] = "starting" /\ run.lease.id = held[u]
        /\ held' = [held EXCEPT ![u] = run'.lease.id] /\ pc' = [pc EXCEPT ![u] = "started"]
    BY <1>4 DEF Start, StartAllowed, HoldsRun
  <2>2. /\ run'.lease.id = IF held[u] = 0 THEN nextId ELSE held[u]
        /\ nextId' = IF held[u] = 0 THEN nextId + 1 ELSE nextId
        /\ run'.lease.owner = OwnerId(Home[u]) /\ run'.status = "running"
    BY <1>4, WithFields, HeldFacts DEF Start, WriteStart
  <2>3. /\ held'[u] = run'.lease.id /\ Working(u)'
        /\ \A t \in Task \ {u} : held'[t] = held[t] /\ (Working(t)' <=> Working(t))
        /\ \A t \in Task : pc'[t] = "clear" => pc[t] = "clear"
    BY <2>1, HeldFacts DEF Working
  <2>4. \A t \in Task \ {u} : held[t] # 0 => held[t] # run'.lease.id
    BY <2>2, HeldFacts
  <2>5. RunHeld'
    <3>1. SUFFICES ASSUME NEW t \in Task, held'[t] # 0, run'.lease.id = held'[t]
                   PROVE  t = u
      BY <2>1, <2>2, <2>3 DEF RunHeld, HoldsRun, OwnerId
    <3>2. QED
      BY <2>3, <2>4, <3>1
  <2>6. ASSUME NEW t \in Task, NEW id, id < nextId, id = held'[t]
        PROVE  held'[t] = held[t]
    BY <2>2, <2>3, <2>6, HeldFacts
  <2>7. SeenHeld'
    <3>1. SUFFICES ASSUME NEW t \in Task, NEW v \in Task, held'[t] # 0, seen'[v].lease.id = held'[t]
                   PROVE  /\ seen'[v].lease.owner = OwnerId(Home[t])'
                          /\ seen'[v].status = "running" =>
                               Working(t)' /\ (pc'[v] = "clear" => Home[t] # Home[v])
      BY DEF SeenHeld
    <3>2. seen[v].lease.id < nextId /\ seen' = seen
      BY <2>1 DEF ClaimsInv, IdsIssued
    <3>3. held'[t] = held[t]
      BY <2>6, <3>1, <3>2
    <3>4. /\ seen[v].lease.owner = OwnerId(Home[t])
          /\ seen[v].status = "running" => Working(t) /\ (pc[v] = "clear" => Home[t] # Home[v])
      BY <3>1, <3>2, <3>3 DEF ClaimsInv, SeenHeld
    <3>5. OwnerId(Home[t])' = OwnerId(Home[t]) /\ (Working(t) => Working(t)')
      BY <2>1, <2>3 DEF OwnerId
    <3>6. QED
      BY <2>3, <3>2, <3>4, <3>5
  <2>8. GoneUnheld'
    <3>1. SUFFICES ASSUME NEW t \in Task, NEW v \in Task, held'[t] # 0, gone'[v] = held'[t]
                   PROVE  FALSE
      BY DEF GoneUnheld
    <3>2. gone'[v] = gone[v] /\ gone[v] < nextId
      BY <2>1 DEF ClaimsInv, IdsIssued
    <3>3. QED
      BY <2>6, <3>1, <3>2 DEF ClaimsInv, GoneUnheld
  <2>9. IdsIssued'
    <3>1. nextId' >= nextId /\ nextId' \in Nat /\ run'.lease.id < nextId'
      BY <2>2, HeldFacts
    <3>2. \A v \in Task : seen[v].lease.id \in Nat /\ gone[v] \in Nat
      BY HeldFacts DEF Lease
    <3>3. QED
      BY <2>1, <3>1, <3>2, HeldFacts DEF ClaimsInv, IdsIssued
  <2>10. QED
    BY <2>5, <2>7, <2>8, <2>9 DEF ClaimsInv
<1>5. QED
  BY <1>1, <1>2, <1>3, <1>4 DEF Takes

LEMMA StepClaims == FenceInv /\ ClaimsInv /\ [Next]_vars => ClaimsInv'
  BY StepKeeps, KeepsInv, TakesInv

LEMMA InitClaims == Init => ClaimsInv
<1> SUFFICES ASSUME Init
             PROVE  ClaimsInv
  OBVIOUS
<1>1. /\ \A t \in Task : held[t] = 0 /\ gone[t] = 0 /\ seen[t].lease.id = 0
      /\ run.lease.id = 0 /\ nextId = 1 /\ \A p \in Process : active[p] = {}
  BY DEF Init, Unseen, Snapshot, NewRun, NoLease
<1>2. QED
  BY <1>1 DEF ClaimsInv, RunHeld, SeenHeld, GoneUnheld, IdsIssued

\* A step that replaces the lease of a turn which stays where it is, and holds
\* its lease in a live process, is a claim that finds the lease expired.
LEMMA StepTaken ==
  ASSUME FenceInv, ClaimsInv, [Next]_vars, NEW t \in Task, held[t] \in active[Home[t]],
         HoldsRun(t), run'.lease.id # run.lease.id, pc'[t] = pc[t]
  PROVE  \E p \in Process : Expired(p)
<1>1. held[t] # 0 /\ run.lease.id = held[t]
  BY HeldFacts DEF HoldsRun
<1>2. ASSUME NEW u \in Task, Claim(u)
      PROVE  \E p \in Process : Expired(p)
  <2>1. PICK abandoned \in {gone[u], AbandonedLeaseId(Home[u], seen[u])} :
          run' = run \/ ClaimAllowed(run, Expired(Home[u]), abandoned)
    BY <1>2 DEF Claim
  <2>2. pc[u] = "clear"
    BY <1>2 DEF Claim
  <2>3. abandoned # held[t]
    <3>1. gone[u] # held[t]
      BY <1>1 DEF ClaimsInv, GoneUnheld
    <3>2. seen[u].lease.id = held[t] =>
            /\ seen[u].lease.owner = OwnerId(Home[t])
            /\ seen[u].status = "running" => Home[t] # Home[u]
      BY <1>1, <2>2 DEF ClaimsInv, SeenHeld
    <3>3. AbandonedLeaseId(Home[u], seen[u]) # held[t]
      BY <1>1, <3>2, NotAbandoned
    <3>4. QED
      BY <3>1, <3>3
  <2>4. run.lease # NoLease
    BY <1>1 DEF NoLease
  <2>5. Expired(Home[u]) /\ Home[u] \in Process
    BY <1>1, <2>1, <2>3, <2>4, HeldFacts DEF ClaimAllowed, LeaseHolds
  <2>6. QED
    BY <2>5
<1>3. ASSUME NEW u \in Task, held[u] = held[t], pc[u] # pc'[u]
      PROVE  FALSE
  BY <1>1, <1>3, HeldFacts
<1>4. ASSUME NEW u \in Task, ParkClaimed(u) \/ CancelClaimed(u) \/ RequeueClaimed(u) \/ HandOffToInput(u)
      PROVE  FALSE
  <2>1. pc[u] = "claimed" /\ pc'[u] \in {"idle", "queued"}
    BY <1>4, HeldFacts DEF ParkClaimed, CancelClaimed, RequeueClaimed, HandOffToInput, Leave
  <2>2. run' = run \/ run.lease.id = held[u]
    BY <1>4 DEF ParkClaimed, CancelClaimed, RequeueClaimed, HandOffToInput, SwapClaimed, TransitionAllowed
  <2>3. QED
    BY <1>1, <1>3, <2>1, <2>2
<1>5. ASSUME NEW u \in Task, ScheduleAfterStartError(u)
      PROVE  FALSE
  <2>1. pc[u] = "scheduling" /\ pc'[u] = "idle"
    BY <1>5, HeldFacts DEF ScheduleAfterStartError, Leave
  <2>2. run' = run \/ run.lease.id = held[u]
    BY <1>5 DEF ScheduleAfterStartError, TransitionAllowed
  <2>3. QED
    BY <1>1, <1>3, <2>1, <2>2
<1>6. ASSUME NEW u \in Task, Start(u) \/ StartError(u)
      PROVE  FALSE
  <2>1. run' = run \/ (StartAllowed(u) /\ WriteStart(u))
    BY <1>6 DEF Start, StartError
  <2>2. StartAllowed(u) => held[u] = held[t]
    BY <1>1 DEF StartAllowed, HoldsRun
  <2>3. pc[u] = "starting" /\ pc'[u] \in {"started", "idle"}
    BY <1>6, HeldFacts DEF Start, StartError, Leave
  <2>4. QED
    BY <1>3, <2>1, <2>2, <2>3
<1>7. ~ResolveRecovery
  BY <1>1 DEF ResolveRecovery, ClaimsInv, RunHeld, HoldsRun
<1>8. ASSUME NEW u \in Task, CancelQueued(u) \/ Settle(u) \/ SettleError(u)
      PROVE  FALSE
  <2>1. run' = run \/ \E status : run' = WithStatus(run, status)
    BY <1>8 DEF CancelQueued, Settle, SettleError, WriteSettlement
  <2>2. QED
    BY <2>1, HeldFacts DEF WithStatus, Record
<1>9. ASSUME NEW u \in Task, WriteCheckpoint(u)
      PROVE  FALSE
  <2>1. run' = run \/ \E v : run' = [run EXCEPT !.checkpointVersion = v]
    BY <1>9 DEF WriteCheckpoint
  <2>2. QED
    BY <2>1, HeldFacts DEF Record
<1>10. ~Precreate
  BY HeldFacts DEF Precreate, WithStatus, Record
<1>11. ASSUME NEW u \in Task,
              \/ ReadRun(u) \/ CheckDrain(u) \/ EnqueueContinuation(u) \/ EnqueueInput(u) \/ BeginDrain(u)
              \/ StartConflict(u) \/ HoldLease(u) \/ ScheduleAfterStart(u) \/ Renew(u) \/ ReadVersion(u)
              \/ CommitOwned(u) \/ FinishTurn(u) \/ TurnThrows(u) \/ SettleFailedTurn(u)
       PROVE  FALSE
  BY <1>11 DEF ReadRun, CheckDrain, EnqueueContinuation, EnqueueInput, BeginDrain, StartConflict,
     HoldLease, ScheduleAfterStart, Renew, SendRenewal, ApplyRenewal, RenewalError, AbandonLost,
     ReadVersion, CommitOwned, FinishTurn, TurnThrows, SettleFailedTurn
<1>12. ASSUME NEW p \in Process, Crash(p)
       PROVE  FALSE
  BY <1>12 DEF Crash
<1>13. ~(Tick \/ UNCHANGED vars)
  BY DEF Tick, Elapse
<1>14. QED
  BY <1>2, <1>4, <1>5, <1>6, <1>7, <1>8, <1>9, <1>10, <1>11, <1>12, <1>13
  DEF Next, Recover, Begin, Work, End

\* A turn that holds its lease in a live process loses its run only to a claim
\* that found the lease expired: never because it was taken for gone, from
\* however old a record, by its own process or by another.
THEOREM LostOnlyWhenLapsed == Spec => TakenOnlyWhenLapsed
<1>1. FenceInv /\ ClaimsInv /\ [Next]_vars =>
        [\A t \in Task :
           /\ held[t] \in active[Home[t]]
           /\ HoldsRun(t)
           /\ run'.lease.id # run.lease.id
           /\ pc'[t] = pc[t]
           => \E p \in Process : Expired(p)]_vars
  BY StepTaken
<1>2. QED
  BY <1>1, InitClaims, StepClaims, FenceInvariant, PTL DEF Spec, TakenOnlyWhenLapsed

-----------------------------------------------------------------------------
(* Renewals that reach the store on time keep the run *)

\* The lease outlasts one renewal, another for each renewal a fault may cost,
\* and the difference between any two clocks.
Timely ==
  /\ Prompt
  /\ \A p, q \in Process : LeaseMs + Skew[p] > (MaxFaults + 1) * RenewMs + Skew[q]

Beats(t) == beat[t].mode # "off"

\* What is left of a lease of process p, at worst, when its renewal is due.
Least(p) == Deadline(p) - (faults + 1) * RenewMs

BeatPlaces == {"scheduling", "running", "failed", "settling"}

\* A heartbeat is that of a turn at work which its process knows to hold its
\* lease; while the run is under that lease, the renewals keep ahead of its end.
KeepsAhead(t) ==
  /\ Beats(t) => pc[t] \in BeatPlaces /\ held[t] \in active[Home[t]]
  /\ beat[t].mode = "sent" => beat[t].left = Deadline(Home[t])
  /\ HoldsRun(t) =>
       /\ pc[t] = "started" => left = Deadline(Home[t])
       /\ beat[t].mode = "armed" => left >= Least(Home[t]) + beat[t].left
       /\ beat[t].mode = "sent" => left >= Least(Home[t])

RenewInv == faults <= MaxFaults /\ \A t \in Task : KeepsAhead(t)

\* A step of task t as another task sees it: it does not touch what belongs to
\* that task, its lease included.
SparesTask(s) ==
  /\ pc'[s] = pc[s] /\ held'[s] = held[s] /\ beat'[s] = beat[s]
  /\ Beats(s) => held[s] \in active'[Home[s]]
  /\ held[s] # 0 /\ run'.lease.id = held[s] => left' = left /\ run.lease.id = held[s]

\* A step of task t after which its heartbeat is off, or goes on as it was.
Rests(t) ==
  \/ ~Beats(t)' /\ pc'[t] # "started"
  \/ /\ pc'[t] \in BeatPlaces /\ held'[t] = held[t] /\ beat'[t] = beat[t]
     /\ active' = active /\ left' = left /\ run'.lease.id = run.lease.id

Counts == faults' = faults \/ (faults < MaxFaults /\ faults' = faults + 1)

LEMMA Times ==
  ASSUME NEW n \in Nat, NEW r \in Nat
  PROVE  n * r \in Nat /\ (n + 1) * r = n * r + r
  OBVIOUS

LEMMA TimesGrow ==
  ASSUME NEW n \in Nat, NEW m \in Nat, NEW r \in Nat, n <= m
  PROVE  n * r <= m * r
<1>1. PICK k \in Nat : m = n + k
  <2>1. m - n \in Nat /\ m = n + (m - n)
    OBVIOUS
  <2>2. QED
    BY <2>1
<1>2. m * r = n * r + k * r /\ k * r \in Nat /\ n * r \in Nat
  BY <1>1
<1>3. QED
  BY <1>2

LEMMA TimeFacts ==
  ASSUME FenceInv
  PROVE  /\ left \in Nat /\ faults \in Nat /\ MaxFaults \in Nat /\ RenewMs \in Nat /\ LeaseMs \in Nat
         /\ beat \in [Task -> Beat]
         /\ \A t \in Task : Home[t] \in Process
         /\ \A p \in Process : Deadline(p) \in Nat /\ Skew[p] \in Nat /\ Least(p) \in Int
         /\ \A p \in Process : Least(p) = Deadline(p) - (faults * RenewMs + RenewMs)
         /\ faults * RenewMs \in Nat
<1>1. /\ left \in Nat /\ faults \in Nat /\ beat \in [Task -> Beat]
      /\ MaxFaults \in Nat /\ RenewMs \in Nat /\ LeaseMs \in Nat
      /\ \A t \in Task : Home[t] \in Process
      /\ \A p \in Process : Deadline(p) \in Nat /\ Skew[p] \in Nat
  BY ConstantsOK, ConstantTypes DEF FenceInv, TypeOK, StoreTypes, TurnTypes, OtherTypes
<1>2. faults * RenewMs \in Nat /\ (faults + 1) * RenewMs = faults * RenewMs + RenewMs
  BY <1>1, Times
<1>3. QED
  BY <1>1, <1>2 DEF Least

\* A fault takes one renewal off what is left at worst.
LEMMA LeastFalls ==
  ASSUME FenceInv, Counts, NEW p \in Process
  PROVE  /\ Least(p)' \in Int /\ Least(p)' <= Least(p)
         /\ faults' = faults + 1 => Least(p)' = Least(p) - RenewMs
         /\ faults' = faults => Least(p)' = Least(p)
<1>1. CASE faults' = faults
  BY <1>1, TimeFacts DEF Least
<1>2. CASE faults' = faults + 1
  <2>1. (faults' + 1) * RenewMs = faults' * RenewMs + RenewMs
    BY <1>2, TimeFacts, Times
  <2>2. faults' * RenewMs = faults * RenewMs + RenewMs
    BY <1>2, TimeFacts, Times
  <2>3. Least(p)' = Deadline(p) - ((faults * RenewMs + RenewMs) + RenewMs)
    BY <2>1, <2>2 DEF Least, Deadline
  <2>4. QED
    BY <1>2, <2>3, TimeFacts
<1>3. QED
  BY <1>1, <1>2 DEF Counts

LEMMA SparedKeeps ==
  ASSUME FenceInv, ClaimsInv, Counts, NEW s \in Task, KeepsAhead(s), SparesTask(s)
  PROVE  KeepsAhead(s)'
<1>1. Beats(s)' = Beats(s) /\ (HoldsRun(s)' <=> run'.lease.id = held[s])
  BY DEF SparesTask, Beats, HoldsRun
<1>2. pc[s] = "started" \/ Beats(s) => held[s] # 0
  BY HeldFacts DEF KeepsAhead, Working
<1>3. Least(Home[s])' <= Least(Home[s]) /\ Least(Home[s])' \in Int /\ Least(Home[s]) \in Int
  BY LeastFalls, TimeFacts
<1>4. Beats(s)' => pc'[s] \in BeatPlaces /\ held'[s] \in active'[Home[s]]
  BY <1>1 DEF SparesTask, KeepsAhead
<1>5. beat'[s].mode = "sent" => beat'[s].left = Deadline(Home[s])
  BY DEF SparesTask, KeepsAhead
<1>6. ASSUME HoldsRun(s)', pc'[s] = "started" \/ Beats(s)'
      PROVE  /\ pc'[s] = "started" => left' = Deadline(Home[s])
             /\ beat'[s].mode = "armed" => left' >= Least(Home[s])' + beat'[s].left
             /\ beat'[s].mode = "sent" => left' >= Least(Home[s])'
  <2>1. left' = left /\ HoldsRun(s)
    BY <1>1, <1>2, <1>6 DEF SparesTask, HoldsRun
  <2>2. beat[s].left \in Nat /\ left \in Nat
    BY TimeFacts DEF Beat
  <2>3. QED
    BY <1>3, <2>1, <2>2 DEF SparesTask, KeepsAhead
<1>7. beat'[s].mode \in {"armed", "sent"} => Beats(s)'
  BY DEF Beats
<1>8. QED
  BY <1>4, <1>5, <1>6, <1>7 DEF KeepsAhead, Deadline

LEMMA RestKeeps ==
  ASSUME FenceInv, ClaimsInv, Counts, NEW t \in Task, KeepsAhead(t), Rests(t)
  PROVE  KeepsAhead(t)'
<1>1. CASE ~Beats(t)' /\ pc'[t] # "started"
  BY <1>1 DEF KeepsAhead, Beats
<1>2. CASE /\ pc'[t] \in BeatPlaces /\ held'[t] = held[t] /\ beat'[t] = beat[t]
           /\ active' = active /\ left' = left /\ run'.lease.id = run.lease.id
  <2>1. Least(Home[t])' <= Least(Home[t]) /\ Least(Home[t])' \in Int /\ Least(Home[t]) \in Int
    BY LeastFalls, TimeFacts
  <2>2. beat[t].left \in Nat /\ left \in Nat
    BY TimeFacts DEF Beat
  <2>3. pc'[t] # "started"
    BY <1>2 DEF BeatPlaces
  <2>4. (Beats(t)' <=> Beats(t)) /\ (HoldsRun(t)' <=> HoldsRun(t))
    BY <1>2 DEF Beats, HoldsRun
  <2>5. HoldsRun(t)' =>
          /\ beat'[t].mode = "armed" => left' >= Least(Home[t])' + beat'[t].left
          /\ beat'[t].mode = "sent" => left' >= Least(Home[t])'
    BY <1>2, <2>1, <2>2, <2>4 DEF KeepsAhead
  <2>6. /\ Beats(t)' => pc'[t] \in BeatPlaces /\ held'[t] \in active'[Home[t]]
        /\ beat'[t].mode = "sent" => beat'[t].left = Deadline(Home[t])
    BY <1>2, <2>4 DEF KeepsAhead
  <2>7. QED
    BY <2>3, <2>5, <2>6 DEF KeepsAhead, Deadline
<1>3. QED
  BY <1>1, <1>2 DEF Rests

\* A step of task t: what it does to the other tasks, their leases and the store.
Alone(t) ==
  /\ \A s \in Task \ {t} : pc'[s] = pc[s] /\ held'[s] = held[s] /\ beat'[s] = beat[s]
  /\ \A p \in Process : active[p] \ {held[t]} \subseteq active'[p]
  /\ \/ left' = left /\ run'.lease.id = run.lease.id
     \/ run'.lease.id \in {0, nextId, held[t]}

LEMMA AloneSpares ==
  ASSUME FenceInv, ClaimsInv, RenewInv, NEW t \in Task, Alone(t), NEW s \in Task \ {t}
  PROVE  SparesTask(s)
<1>1. pc'[s] = pc[s] /\ held'[s] = held[s] /\ beat'[s] = beat[s]
  BY DEF Alone
<1>2. Beats(s) => held[s] \in active[Home[s]] /\ held[s] # 0
  BY HeldFacts DEF RenewInv, KeepsAhead
<1>3. held[s] # 0 => held[s] # held[t] /\ held[s] < nextId
  BY HeldFacts
<1>4. Beats(s) => held[s] \in active'[Home[s]]
  BY <1>2, <1>3, HeldFacts DEF Alone
<1>5. held[s] # 0 /\ run'.lease.id = held[s] => left' = left /\ run.lease.id = held[s]
  BY <1>3, HeldFacts DEF Alone
<1>6. QED
  BY <1>1, <1>4, <1>5 DEF SparesTask

LEMMA AloneRenews ==
  ASSUME FenceInv, ClaimsInv, RenewInv, Counts, NEW t \in Task, Alone(t), Rests(t) \/ KeepsAhead(t)'
  PROVE  RenewInv'
<1>1. KeepsAhead(t)'
  BY RestKeeps DEF RenewInv
<1>2. \A s \in Task \ {t} : KeepsAhead(s)'
  BY AloneSpares, SparedKeeps DEF RenewInv
<1>3. faults' <= MaxFaults
  BY TimeFacts DEF Counts, RenewInv
<1>4. QED
  BY <1>1, <1>2, <1>3 DEF RenewInv

\* A heartbeat that goes on, while its task moves, finds the run's lease as it was.
Steady(t) == Beats(t) /\ Beats(t)' /\ pc'[t] # pc[t] => run'.lease.id = run.lease.id

Renews == RenewInv' /\ \A t \in Task : Steady(t)

LEMMA RestRenews ==
  ASSUME FenceInv, ClaimsInv, RenewInv, Counts, NEW t \in Task, Alone(t), Rests(t)
  PROVE  Renews
<1>1. Steady(t)
  BY DEF Rests, Steady
<1>2. \A s \in Task \ {t} : Steady(s)
  BY DEF Alone, Steady
<1>3. QED
  BY <1>1, <1>2, AloneRenews DEF Renews

\* A task that leaves, whatever it wrote.
LEMMA LeaveRenews ==
  ASSUME FenceInv, ClaimsInv, RenewInv, Counts, NEW t \in Task, Leave(t),
         \/ left' = left /\ run'.lease.id = run.lease.id
         \/ run'.lease.id \in {0, nextId, held[t]}
  PROVE  Renews
<1>1. Alone(t)
  <2>1. \A s \in Task \ {t} : pc'[s] = pc[s] /\ held'[s] = held[s] /\ beat'[s] = beat[s]
    BY HeldFacts, TimeFacts DEF Leave
  <2>2. \A p \in Process : active[p] \ {held[t]} \subseteq active'[p]
    BY HeldFacts DEF Leave
  <2>3. QED
    BY <2>1, <2>2 DEF Alone
<1>2. Rests(t)
  BY HeldFacts, TimeFacts DEF Leave, Rests, Beats, NoBeat
<1>3. QED
  BY <1>1, <1>2, RestRenews

\* A task without a heartbeat that moves to where it has none.
LEMMA IdleRenews ==
  ASSUME FenceInv, ClaimsInv, RenewInv, Counts, NEW t \in Task, pc[t] \notin BeatPlaces,
         \E place : Goto(t, place) /\ place # "started", UNCHANGED <<active, beat>>,
         \A s \in Task \ {t} : held'[s] = held[s],
         \/ left' = left /\ run'.lease.id = run.lease.id
         \/ run'.lease.id \in {0, nextId, held[t]}
  PROVE  Renews
<1>1. Alone(t)
  BY HeldFacts DEF Alone
<1>2. Rests(t)
  BY HeldFacts DEF Rests, Beats, RenewInv, KeepsAhead
<1>3. QED
  BY <1>1, <1>2, RestRenews

\* A turn at work that stays at work, its heartbeat going on or stopped.
LEMMA WorkRenews ==
  ASSUME FenceInv, ClaimsInv, RenewInv, Counts, NEW t \in Task,
         pc'[t] \in BeatPlaces, \A s \in Task \ {t} : pc'[s] = pc[s],
         UNCHANGED <<active, held, left>>, run'.lease.id = run.lease.id,
         beat' = beat \/ StopRenewal(t)
  PROVE  Renews
<1>1. pc'[t] # "started"
  BY DEF BeatPlaces
<1>2. beat'[t] = beat[t] \/ beat'[t] = NoBeat
  BY TimeFacts DEF StopRenewal
<1>3. Rests(t)
  BY <1>1, <1>2 DEF Rests, Beats, NoBeat
<1>4. Alone(t)
  BY TimeFacts DEF Alone, StopRenewal
<1>5. QED
  BY <1>3, <1>4, RestRenews

LEMMA StartStore ==
  ASSUME FenceInv, NEW t \in Task, StartAllowed(t), WriteStart(t)
  PROVE  /\ run'.lease.id = (IF held[t] = 0 THEN nextId ELSE held[t])
         /\ left' = Deadline(Home[t])
  BY WithFields DEF WriteStart, FenceInv, TypeOK, StoreTypes

LEMMA StepRenews ==
  ASSUME Prompt, FenceInv, ClaimsInv, RenewInv, [Next]_vars
  PROVE  Renews
<1> USE DEF Counts
<1>a. run \in Record /\ run.lease.id \in Nat /\ nextId \in Nat \ {0}
  BY HeldFacts
<1>1. ASSUME NEW t \in Task, ReadRun(t) \/ EnqueueInput(t) \/ EnqueueContinuation(t) \/ BeginDrain(t)
      PROVE  Renews
  <2>1. /\ pc[t] \in {"idle", "claimed", "queued"}
        /\ \E place \in {"read", "queued", "starting"} : Goto(t, place)
        /\ UNCHANGED <<run, left, active, held, beat, faults>>
    BY <1>1 DEF ReadRun, EnqueueInput, EnqueueContinuation, BeginDrain
  <2>2. QED
    BY <2>1, IdleRenews DEF BeatPlaces
<1>2. ASSUME NEW t \in Task, CheckDrain(t)
      PROVE  Renews
  <2>1. /\ pc[t] = "read" /\ \E place \in {"idle", "clear"} : Goto(t, place)
        /\ UNCHANGED <<run, left, active, held, beat, faults>>
    BY <1>2 DEF CheckDrain
  <2>2. QED
    BY <2>1, IdleRenews DEF BeatPlaces
<1>3. ASSUME NEW t \in Task, Claim(t)
      PROVE  Renews
  <2>1. /\ pc[t] = "clear" /\ \E place \in {"idle", "claimed"} : Goto(t, place)
        /\ UNCHANGED <<active, beat, faults>>
        /\ held' = held \/ held' = [held EXCEPT ![t] = nextId]
        /\ \/ UNCHANGED <<run, left>>
           \/ run' = ExhaustedRun(run)
           \/ run' = ClaimedRun(run, seen[t].lease.attempt + 1, nextId, OwnerId(Home[t]))
    BY <1>3 DEF Claim
  <2>2. UNCHANGED <<run, left>> \/ run'.lease.id \in {0, nextId}
    BY <1>a, <2>1, WithFields DEF ExhaustedRun, ClaimedRun, NoLease
  <2>3. \A s \in Task \ {t} : held'[s] = held[s]
    BY <2>1, HeldFacts
  <2>4. QED
    BY <2>1, <2>2, <2>3, IdleRenews DEF BeatPlaces
<1>4. ASSUME NEW t \in Task, HandOffToInput(t)
      PROVE  Renews
  <2>1. /\ pc[t] = "claimed" /\ Goto(t, "queued") /\ UNCHANGED <<active, beat>> /\ Counts
        /\ held' = [held EXCEPT ![t] = 0]
    BY <1>4 DEF HandOffToInput
  <2>2. run'.lease.id = 0
    BY <1>4, <1>a, WithFields DEF HandOffToInput, SwapClaimed, NoLease
  <2>3. \A s \in Task \ {t} : held'[s] = held[s]
    BY <2>1, HeldFacts
  <2>4. pc[t] \notin BeatPlaces /\ \E place : Goto(t, place) /\ place # "started"
    BY <2>1 DEF BeatPlaces
  <2>5. QED
    BY <2>1, <2>2, <2>3, <2>4, IdleRenews
<1>5. ASSUME NEW t \in Task, ParkClaimed(t) \/ CancelClaimed(t) \/ RequeueClaimed(t)
      PROVE  Renews
  <2>1. Leave(t) /\ Counts /\ \E status : SwapClaimed(t, status)
    BY <1>5 DEF ParkClaimed, CancelClaimed, RequeueClaimed
  <2>2. UNCHANGED <<run, left>> \/ run'.lease.id = 0
    BY <1>a, <2>1, WithFields DEF SwapClaimed, NoLease
  <2>3. QED
    BY <2>1, <2>2, LeaveRenews
<1>6. ASSUME NEW t \in Task, CancelQueued(t) \/ StartConflict(t) \/ AbandonLost(t) \/ Settle(t)
      PROVE  Renews
  <2>1. Leave(t) /\ UNCHANGED <<left, faults>> /\ (run' = run \/ \E s : run' = WithStatus(run, s))
    BY <1>6 DEF CancelQueued, StartConflict, AbandonLost, Settle, WriteSettlement
  <2>2. QED
    BY <1>a, <2>1, WithFields, LeaveRenews
<1>7. ASSUME NEW t \in Task, StartError(t)
      PROVE  Renews
  <2>1. Leave(t) /\ Counts /\ (UNCHANGED <<run, left>> \/ (StartAllowed(t) /\ WriteStart(t)))
    BY <1>7 DEF StartError
  <2>2. UNCHANGED <<run, left>> \/ run'.lease.id \in {nextId, held[t]}
    BY <2>1, StartStore
  <2>3. QED
    BY <2>1, <2>2, LeaveRenews
<1>8. ASSUME NEW t \in Task, ScheduleAfterStartError(t)
      PROVE  Renews
  <2>1. Leave(t) /\ Counts /\ (UNCHANGED <<run, left>> \/ run' = WithLease(run, "queued", NoLease))
    BY <1>8 DEF ScheduleAfterStartError
  <2>2. UNCHANGED <<run, left>> \/ run'.lease.id = 0
    BY <1>a, <2>1, WithFields DEF NoLease
  <2>3. QED
    BY <2>1, <2>2, LeaveRenews
<1>9. ASSUME NEW t \in Task, ScheduleAfterStart(t) \/ ReadVersion(t) \/ TurnThrows(t)
      PROVE  Renews
  <2>1. /\ \E place \in {"running", "failed"} : pc' = [pc EXCEPT ![t] = place]
        /\ UNCHANGED <<run, left, active, held, beat, faults>>
    <3>1. CASE ReadVersion(t)
      <4>1. pc' = [pc EXCEPT ![t] = "running"]
        BY <3>1, HeldFacts DEF ReadVersion
      <4>2. QED
        BY <3>1, <4>1 DEF ReadVersion
    <3>2. CASE ScheduleAfterStart(t) \/ TurnThrows(t)
      BY <3>2 DEF ScheduleAfterStart, TurnThrows
    <3>3. QED
      BY <1>9, <3>1, <3>2
  <2>2. pc'[t] \in BeatPlaces /\ \A s \in Task \ {t} : pc'[s] = pc[s]
    BY <2>1, HeldFacts DEF BeatPlaces
  <2>3. QED
    BY <2>1, <2>2, WorkRenews
<1>10. ASSUME NEW t \in Task, WriteCheckpoint(t) \/ CommitOwned(t)
       PROVE  Renews
  <2>1. /\ pc[t] = "running" /\ UNCHANGED <<left, faults>>
        /\ Leave(t) \/ UNCHANGED <<active, pc, held, beat>>
        /\ run' = run \/ \E v : run' = [run EXCEPT !.checkpointVersion = v]
    BY <1>10 DEF WriteCheckpoint, CommitOwned
  <2>2. run'.lease.id = run.lease.id
    BY <1>a, <2>1 DEF Record
  <2>3. CASE Leave(t)
    BY <2>1, <2>2, <2>3, LeaveRenews
  <2>4. CASE UNCHANGED <<active, pc, held, beat>>
    BY <2>1, <2>2, <2>4, WorkRenews DEF BeatPlaces
  <2>5. QED
    BY <2>1, <2>3, <2>4
<1>11. ASSUME NEW t \in Task, FinishTurn(t) \/ SettleFailedTurn(t)
       PROVE  Renews
  <2>1. /\ UNCHANGED <<run, left, faults>>
        /\ \/ Leave(t)
           \/ StopRenewal(t) /\ Goto(t, "settling") /\ UNCHANGED <<active, held>>
    BY <1>11 DEF FinishTurn, SettleFailedTurn
  <2>2. CASE Leave(t)
    BY <2>1, <2>2, LeaveRenews
  <2>3. CASE StopRenewal(t) /\ Goto(t, "settling") /\ UNCHANGED <<active, held>>
    <3>1. pc'[t] \in BeatPlaces /\ \A s \in Task \ {t} : pc'[s] = pc[s]
      BY <2>3, HeldFacts DEF BeatPlaces
    <3>2. QED
      BY <2>1, <2>3, <3>1, WorkRenews
  <2>4. QED
    BY <2>1, <2>2, <2>3
<1>12. ASSUME NEW t \in Task, SettleError(t)
       PROVE  Renews
  <2>1. /\ Counts /\ left' = left /\ (run' = run \/ \E s : run' = WithStatus(run, s))
        /\ \/ Leave(t)
           \/ /\ Goto(t, "failed") /\ SetBeat(t, NoBeat) /\ held' = held
              /\ active' = [active EXCEPT ![Home[t]] = @ \ {held[t]}]
    BY <1>12 DEF SettleError, WriteSettlement
  <2>2. run'.lease.id = run.lease.id
    BY <1>a, <2>1, WithFields
  <2>3. CASE Leave(t)
    BY <2>1, <2>2, <2>3, LeaveRenews
  <2>4. CASE /\ Goto(t, "failed") /\ SetBeat(t, NoBeat) /\ held' = held
             /\ active' = [active EXCEPT ![Home[t]] = @ \ {held[t]}]
    <3>1. Rests(t)
      BY <2>4, HeldFacts, TimeFacts DEF Rests, Beats, NoBeat
    <3>2. Alone(t)
      BY <2>1, <2>2, <2>4, HeldFacts, TimeFacts DEF Alone
    <3>3. QED
      BY <2>1, <3>1, <3>2, RestRenews
  <2>5. QED
    BY <2>1, <2>3, <2>4
<1>13. ASSUME NEW t \in Task, Start(t)
       PROVE  Renews
  <2>1. /\ pc[t] = "starting" /\ UNCHANGED <<active, beat, faults>>
        /\ held' = [held EXCEPT ![t] = run'.lease.id] /\ Goto(t, "started")
    BY <1>13 DEF Start
  <2>2. run'.lease.id = (IF held[t] = 0 THEN nextId ELSE held[t]) /\ left' = Deadline(Home[t])
    BY <1>13, StartStore DEF Start
  <2>3. ~Beats(t) /\ ~Beats(t)' /\ pc'[t] = "started"
    BY <2>1, HeldFacts DEF RenewInv, KeepsAhead, BeatPlaces, Beats
  <2>4. Alone(t)
    BY <2>1, <2>2, HeldFacts DEF Alone
  <2>5. KeepsAhead(t)'
    BY <2>2, <2>3 DEF KeepsAhead, Beats, Deadline
  <2>6. \A s \in Task : Steady(s)
    BY <2>3, <2>4 DEF Steady, Alone
  <2>7. QED
    BY <2>1, <2>4, <2>5, <2>6, AloneRenews DEF Renews
<1>14. ASSUME NEW t \in Task, HoldLease(t)
       PROVE  Renews
  <2>1. /\ pc[t] = "started" /\ UNCHANGED <<run, left, held, faults>>
        /\ active' = [active EXCEPT ![Home[t]] = @ \cup {held[t]}]
        /\ beat' = [beat EXCEPT ![t] = Armed]
        /\ \E place \in {"scheduling", "running"} : Goto(t, place)
    BY <1>14 DEF HoldLease
  <2>2. beat'[t] = Armed /\ pc'[t] \in BeatPlaces /\ pc'[t] # "started" /\ held[t] \in active'[Home[t]]
    BY <2>1, HeldFacts, TimeFacts DEF BeatPlaces
  <2>3. Alone(t)
    BY <2>1, HeldFacts, TimeFacts DEF Alone
  <2>4. HoldsRun(t)' => left' = Deadline(Home[t])
    BY <2>1 DEF HoldsRun, RenewInv, KeepsAhead
  <2>5. Deadline(Home[t]) >= Least(Home[t])' + RenewMs
    <3>1. Least(Home[t])' = Least(Home[t])
      BY <2>1, LeastFalls, TimeFacts
    <3>2. QED
      BY <3>1, TimeFacts
  <2>6. KeepsAhead(t)'
    BY <2>1, <2>2, <2>4, <2>5 DEF KeepsAhead, Beats, Armed, Deadline
  <2>7. \A s \in Task : Steady(s)
    BY <2>1 DEF Steady
  <2>8. QED
    BY <2>1, <2>3, <2>6, <2>7, AloneRenews DEF Renews
<1>15. ASSUME NEW t \in Task, SendRenewal(t)
       PROVE  Renews
  <2>1. /\ beat[t] = [mode |-> "armed", left |-> 0]
        /\ beat' = [beat EXCEPT ![t] = [mode |-> "sent", left |-> Deadline(Home[t])]]
        /\ UNCHANGED <<run, left, active, pc, held, faults>>
    BY <1>15 DEF SendRenewal
  <2>2. beat'[t].mode = "sent" /\ beat'[t].left = Deadline(Home[t]) /\ Beats(t)
    BY <2>1, TimeFacts DEF Beats
  <2>3. Alone(t)
    BY <2>1, TimeFacts DEF Alone
  <2>4. Least(Home[t])' = Least(Home[t])
    BY <2>1, LeastFalls, TimeFacts
  <2>5. HoldsRun(t) => left >= Least(Home[t])
    BY <2>1, TimeFacts DEF RenewInv, KeepsAhead
  <2>6. pc[t] \in BeatPlaces /\ held[t] \in active[Home[t]] /\ pc[t] # "started"
    BY <2>2 DEF RenewInv, KeepsAhead, BeatPlaces
  <2>7. KeepsAhead(t)'
    BY <2>1, <2>2, <2>4, <2>5, <2>6 DEF KeepsAhead, HoldsRun, Deadline
  <2>8. \A s \in Task : Steady(s)
    BY <2>1 DEF Steady
  <2>9. QED
    BY <2>1, <2>3, <2>7, <2>8, AloneRenews DEF Renews
<1>16. ASSUME NEW t \in Task, ApplyRenewal(t) \/ RenewalError(t)
       PROVE  Renews
  <2>1. beat[t].mode = "sent" /\ UNCHANGED <<run, active, pc, held>> /\ Counts
    BY <1>16 DEF ApplyRenewal, RenewalError
  <2>2. \/ /\ HoldsRun(t) /\ left' = beat[t].left /\ faults' = faults
           /\ beat' = [beat EXCEPT ![t] = Armed]
        \/ /\ left' = left /\ faults' = faults + 1
           /\ beat' = [beat EXCEPT ![t] = Armed]
        \/ /\ left' = left \/ HoldsRun(t)
           /\ beat' = [beat EXCEPT ![t] = NoBeat]
    BY <1>16 DEF ApplyRenewal, RenewalError, HoldsRun, TransitionAllowed
  <2>3. /\ Beats(t) /\ pc[t] \in BeatPlaces /\ pc[t] # "started" /\ held[t] \in active[Home[t]]
        /\ beat[t].left = Deadline(Home[t])
    BY <2>1 DEF RenewInv, KeepsAhead, Beats, BeatPlaces
  <2>4. Alone(t)
    BY <2>1, <2>2, TimeFacts DEF Alone, HoldsRun
  <2>5. (HoldsRun(t)' <=> HoldsRun(t)) /\ \A s \in Task : Steady(s)
    BY <2>1 DEF HoldsRun, Steady
  <2>6. CASE beat' = [beat EXCEPT ![t] = NoBeat]
    <3>1. beat'[t].mode = "off"
      BY <2>6, TimeFacts DEF NoBeat
    <3>2. KeepsAhead(t)'
      BY <2>1, <2>3, <3>1 DEF KeepsAhead, Beats
    <3>3. QED
      BY <2>1, <2>4, <2>5, <3>2, AloneRenews DEF Renews
  <2>7. CASE beat' = [beat EXCEPT ![t] = Armed]
    <3>1. beat'[t].mode = "armed" /\ beat'[t].left = RenewMs
      BY <2>7, TimeFacts DEF Armed
    <3>2. HoldsRun(t) => left' >= Least(Home[t])' + RenewMs
      <4>1. Home[t] \in Process /\ RenewMs \in Nat /\ left \in Nat
        BY TimeFacts
      <4>2. CASE left' = Deadline(Home[t]) /\ faults' = faults
        BY <4>1, <4>2, LeastFalls, TimeFacts DEF Counts
      <4>3. CASE left' = left /\ faults' = faults + 1
        <5>1. HoldsRun(t) => left >= Least(Home[t])
          BY <2>1 DEF RenewInv, KeepsAhead
        <5>2. Least(Home[t])' = Least(Home[t]) - RenewMs /\ Least(Home[t]) \in Int
          BY <2>1, <4>1, <4>3, LeastFalls, TimeFacts
        <5>3. QED
          BY <4>1, <4>3, <5>1, <5>2
      <4>4. Armed # NoBeat
        BY DEF Armed, NoBeat
      <4>5. (left' = Deadline(Home[t]) /\ faults' = faults) \/ (left' = left /\ faults' = faults + 1)
        BY <2>2, <2>3, <2>7, <4>4, TimeFacts
      <4>6. QED
        BY <4>2, <4>3, <4>5
    <3>3. KeepsAhead(t)'
      BY <2>1, <2>3, <2>5, <3>1, <3>2 DEF KeepsAhead, Beats
    <3>4. QED
      BY <2>1, <2>4, <2>5, <3>3, AloneRenews DEF Renews
  <2>8. QED
    BY <2>2, <2>6, <2>7
<1>17. ASSUME \A s \in Task : SparesTask(s), Counts, pc' = pc
       PROVE  Renews
  <2>1. \A s \in Task : KeepsAhead(s)'
    BY <1>17, SparedKeeps DEF RenewInv
  <2>2. faults' <= MaxFaults
    BY <1>17, TimeFacts DEF RenewInv
  <2>3. QED
    BY <1>17, <2>1, <2>2 DEF Renews, RenewInv, Steady
<1>18. CASE Precreate \/ ResolveRecovery
  <2>1. UNCHANGED <<pc, held, beat, active>> /\ Counts
    BY <1>18 DEF Precreate, ResolveRecovery
  <2>2. (run'.lease.id = run.lease.id /\ left' = left) \/ run'.lease.id = 0
    <3>1. CASE Precreate
      BY <1>a, <3>1, WithFields DEF Precreate
    <3>2. CASE ResolveRecovery
      <4>1. PICK decided \in {0, 1} :
              run' = [WithLease(run, "queued", NoLease) EXCEPT !.checkpointVersion = @ + decided]
        BY <3>2 DEF ResolveRecovery
      <4>2. run'.lease = NoLease
        BY <1>a, <4>1 DEF WithLease, Record
      <4>3. QED
        BY <4>2 DEF NoLease
    <3>3. QED
      BY <1>18, <3>1, <3>2
  <2>3. \A s \in Task : SparesTask(s)
    BY <2>1, <2>2 DEF SparesTask, RenewInv, KeepsAhead
  <2>4. QED
    BY <1>17, <2>1, <2>3
<1>19. ASSUME NEW p \in Process, Crash(p)
       PROVE  Renews
  <2>1. /\ UNCHANGED <<run, left>> /\ Counts /\ active' = [active EXCEPT ![p] = {}]
        /\ \A s \in Task : Home[s] = p => pc'[s] = "idle" /\ beat'[s] = NoBeat
        /\ \A s \in Task : Home[s] # p => pc'[s] = pc[s] /\ beat'[s] = beat[s] /\ held'[s] = held[s]
    BY <1>19 DEF Crash
  <2>2. ASSUME NEW s \in Task
        PROVE  KeepsAhead(s)' /\ Steady(s)
    <3>1. CASE Home[s] = p
      BY <2>1, <3>1 DEF KeepsAhead, Beats, NoBeat, Steady
    <3>2. CASE Home[s] # p
      <4>1. active'[Home[s]] = active[Home[s]]
        BY <2>1, <3>2, HeldFacts
      <4>2. SparesTask(s)
        BY <2>1, <3>2, <4>1 DEF SparesTask, RenewInv, KeepsAhead
      <4>3. QED
        BY <2>1, <4>2, SparedKeeps DEF RenewInv, SparesTask, Steady
    <3>3. QED
      BY <3>1, <3>2
  <2>3. faults' <= MaxFaults
    BY <2>1, TimeFacts DEF RenewInv
  <2>4. QED
    BY <2>2, <2>3 DEF Renews, RenewInv
<1>20. CASE Tick
  <2>1. /\ \A s \in Task : /\ pc[s] # "started" /\ beat[s].mode # "sent"
                           /\ beat[s] # [mode |-> "armed", left |-> 0]
        /\ left' = Passed(left) /\ UNCHANGED <<run, active, pc, held, faults>>
        /\ beat' = [s \in Task |-> [mode |-> beat[s].mode, left |-> Passed(beat[s].left)]]
    BY <1>20 DEF Tick, Elapse
  <2>2. ASSUME NEW s \in Task
        PROVE  KeepsAhead(s)'
    <3>1. /\ beat'[s].mode = beat[s].mode /\ beat'[s].left = Passed(beat[s].left)
          /\ beat[s].left \in Nat /\ left \in Nat
      BY <2>1, TimeFacts DEF Beat
    <3>2. beat[s].mode = "armed" => beat[s].left > 0
      <4>1. beat[s].mode = "armed" /\ beat[s].left = 0 => beat[s] = [mode |-> "armed", left |-> 0]
        BY TimeFacts DEF Beat
      <4>2. QED
        BY <2>1, <3>1, <4>1
    <3>3. Least(Home[s])' = Least(Home[s]) /\ Least(Home[s]) \in Int
      BY <2>1, LeastFalls, TimeFacts
    <3>4. HoldsRun(s) /\ beat[s].mode = "armed" => left >= Least(Home[s]) + beat[s].left
      BY DEF RenewInv, KeepsAhead
    <3>5. HoldsRun(s) /\ beat[s].mode = "armed" => left' >= Least(Home[s])' + beat'[s].left
      BY <2>1, <3>1, <3>2, <3>3, <3>4 DEF Passed
    <3>6. Beats(s) => pc[s] \in BeatPlaces /\ held[s] \in active[Home[s]]
      BY DEF RenewInv, KeepsAhead
    <3>7. QED
      BY <2>1, <3>1, <3>5, <3>6 DEF KeepsAhead, HoldsRun, Beats
  <2>3. QED
    BY <2>1, <2>2 DEF Renews, RenewInv, Steady
<1>21. CASE UNCHANGED vars
  <2>1. UNCHANGED <<run, left, active, pc, held, beat, faults>>
    BY <1>21
  <2>2. \A s \in Task : SparesTask(s)
    BY <2>1 DEF SparesTask, RenewInv, KeepsAhead
  <2>3. QED
    BY <1>17, <2>1, <2>2
<1>22. QED
  BY <1>1, <1>2, <1>3, <1>4, <1>5, <1>6, <1>7, <1>8, <1>9, <1>10, <1>11, <1>12, <1>13, <1>14,
     <1>15, <1>16, <1>18, <1>19, <1>20, <1>21
  DEF Next, Recover, Begin, Renew, Work, End

LEMMA InitRenews == Init => RenewInv
<1> SUFFICES ASSUME Init
             PROVE  RenewInv
  OBVIOUS
<1>1. \A t \in Task : beat[t].mode = "off" /\ pc[t] = "idle"
  BY DEF Init, NoBeat
<1>2. faults = 0 /\ MaxFaults \in Nat
  BY ConstantsOK DEF Init
<1>3. QED
  BY <1>1, <1>2 DEF RenewInv, KeepsAhead, Beats

\* Under a lease that is renewed on time, no process finds it expired.
LEMMA NeverExpired ==
  ASSUME Timely, FenceInv, RenewInv, NEW t \in Task, Beats(t), HoldsRun(t), NEW p \in Process
  PROVE  ~Expired(p)
<1>1. beat[t].mode \in {"armed", "sent"} /\ beat[t].left \in Nat
  BY TimeFacts DEF Beats, Beat
<1>2. left >= Least(Home[t])
  <2>1. Least(Home[t]) \in Int /\ left \in Nat
    BY TimeFacts
  <2>2. QED
    BY <1>1, <2>1 DEF RenewInv, KeepsAhead
<1>3. (faults + 1) * RenewMs <= (MaxFaults + 1) * RenewMs
  <2>1. faults + 1 \in Nat /\ MaxFaults + 1 \in Nat /\ RenewMs \in Nat /\ faults + 1 <= MaxFaults + 1
    BY TimeFacts DEF RenewInv
  <2>2. QED
    BY <2>1, TimesGrow
<1>4. LeaseMs + Skew[Home[t]] > (MaxFaults + 1) * RenewMs + Skew[p]
  BY TimeFacts DEF Timely
<1>5. /\ (faults + 1) * RenewMs \in Nat /\ (MaxFaults + 1) * RenewMs \in Nat
      /\ LeaseMs + Skew[Home[t]] \in Nat /\ Skew[p] \in Nat /\ left \in Nat
  BY TimeFacts, Times
<1>6. Least(Home[t]) > Skew[p]
  BY <1>3, <1>4, <1>5 DEF Least, Deadline
<1>7. QED
  BY <1>2, <1>5, <1>6, TimeFacts DEF Expired

\* A renewed lease is replaced by no claim: were the run's lease to change, the
\* turn would stay where it is, and the claim would have found it expired.
LEMMA StepNeverTaken ==
  ASSUME Timely, FenceInv, ClaimsInv, RenewInv, [Next]_vars, NEW t \in Task,
         beat[t].mode # "off", beat'[t].mode # "off", HoldsRun(t)
  PROVE  run'.lease.id = run.lease.id
<1>1. SUFFICES ASSUME run'.lease.id # run.lease.id
               PROVE  FALSE
  OBVIOUS
<1>2. Beats(t) /\ Beats(t)' /\ held[t] \in active[Home[t]]
  BY DEF Beats, RenewInv, KeepsAhead
<1>3. pc'[t] = pc[t]
  BY <1>1, <1>2, StepRenews DEF Timely, Renews, Steady
<1>4. \E p \in Process : Expired(p)
  BY <1>1, <1>2, <1>3, StepTaken
<1>5. QED
  BY <1>2, <1>4, NeverExpired

\* While renewals reach the store on time, a turn that renews its lease keeps its
\* run, whatever the processes' clocks say and however old a record is claimed.
THEOREM RenewedStays ==
  ASSUME Timely
  PROVE  Spec => RenewedNeverTaken
<1>1. FenceInv /\ ClaimsInv /\ RenewInv /\ [Next]_vars => RenewInv'
  BY StepRenews DEF Timely, Renews
<1>2. FenceInv /\ ClaimsInv /\ RenewInv /\ [Next]_vars =>
        [\A t \in Task :
           /\ beat[t].mode # "off" /\ beat'[t].mode # "off"
           /\ HoldsRun(t)
           => run'.lease.id = run.lease.id]_vars
  BY StepNeverTaken
<1>3. QED
  BY <1>1, <1>2, InitClaims, StepClaims, InitRenews, FenceInvariant, PTL
  DEF Spec, RenewedNeverTaken
=============================================================================

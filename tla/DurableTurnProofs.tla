------------------------- MODULE DurableTurnProofs -------------------------
(***************************************************************************)
(* Theorems about DurableTurn, for every set of tool calls, any number of  *)
(* owners, requests, faults and operator decisions, and stores that may    *)
(* fail before or after a write took effect.                               *)
(***************************************************************************)
EXTENDS DurableTurn, FiniteSetTheorems, SequenceTheorems, TLAPS

USE DEF vars, storeVars, attemptVars, worldVars

-----------------------------------------------------------------------------
(* Type correctness *)

CallRecord == [stage : CallStage, use : Nat, attempt : Nat, value : Int]
Intents == [call : Call, use : Nat, attempt : Nat, policy : Policy,
            resolution : Decision \cup {Undecided}]
Results == [call : Call, use : Nat, value : Int, prior : Nat, version : Nat]

Active(t) == pc[t] \in {"round", "settle", "commit", "request"}
Owns(t)   == run.status \notin TerminalStatus \cup {Absent} /\ run.lease.id = t

\* A turn that ends in error can roll the thread back to where it began.
BasesFit ==
  \A t \in Attempt :
    /\ pc[t] \in {"prepared", "restored"} \/ Active(t) => base[t] <= Len(hist[t])
    /\ Owns(t) /\ Active(t) => base[t] <= Len(committed)

ShapeInv == TypeOK /\ BasesFit

LEMMA FencedOut == \A t \in Attempt : Fenced(t) <=> ~Owns(t)
  BY DEF Owns, Fenced, FencedWriteConflict, IsTerminal

LEMMA AttemptIsNat == Attempt \subseteq Nat \ {0} /\ 1 \in Attempt
  BY DurableConstantsOK DEF Attempt

LEMMA EmptyTypes ==
  /\ NoCall \in CallRecord /\ EmptyJournal \in Journal /\ NoCheckpoint \in Checkpoint
  /\ NothingRead \in [read : BOOLEAN, calls : SUBSET Completions]
  /\ <<>> \in History
  BY DEF NoCall, CallRecord, CallStage, EmptyJournal, Journal, NoCheckpoint, Checkpoint,
     NothingRead, History

LEMMA ResultCountType ==
  ASSUME NEW history \in History, NEW c \in Call
  PROVE  /\ ResultCount(history, c) \in Nat
         /\ IsFiniteSet({k \in DOMAIN history : \E entry \in history[k] : entry.call = c})
  <1> DEFINE S == {k \in DOMAIN history : \E entry \in history[k] : entry.call = c}
  <1>1. DOMAIN history = 1 .. Len(history) /\ Len(history) \in Nat
    BY DEF History
  <1>2. IsFiniteSet(1 .. Len(history))
    BY <1>1, FS_Interval
  <1>3. IsFiniteSet(S)
    BY <1>1, <1>2, FS_Subset
  <1>4. QED
    BY <1>3, FS_CardinalityType DEF ResultCount

LEMMA WithRoundType ==
  ASSUME NEW history \in History, NEW round \in SUBSET Entries
  PROVE  /\ WithRound(history, round) \in History
         /\ Len(history) <= Len(WithRound(history, round))
  BY DEF History, WithRound

LEMMA RoundOfType ==
  ASSUME NEW results \in SUBSET Results
  PROVE  RoundOf(results) \in SUBSET Entries
  BY DEF RoundOf, Entries, Entry, Results

LEMMA JournalType == Journal = [inflight : SUBSET Intents, results : SUBSET Results]
  BY DEF Journal, Intents, Results

LEMMA InitType == Init => ShapeInv
<1> SUFFICES ASSUME Init PROVE ShapeInv
  OBVIOUS
<1>1. run \in Record
  BY DEF Init, Record, Status, ClaimableStatus
<1>2. pc \in [Attempt -> PC] /\ \A t \in Attempt : pc[t] \in {"request", "unborn"}
  BY DEF Init, PC
<1>3. base = [t \in Attempt |-> 0] /\ hist = [t \in Attempt |-> <<>>] /\ committed = <<>>
  BY DEF Init
<1>4. BasesFit
  BY <1>3 DEF BasesFit
<1>5. TypeOK
  BY <1>1, <1>2, EmptyTypes DEF Init, TypeOK, CallRecord
<1>6. QED
  BY <1>4, <1>5 DEF ShapeInv

-----------------------------------------------------------------------------
(* Typing of the pieces actions are made of *)

StoreTypes == run \in Record /\ ckpt \in Checkpoint /\ committed \in History

MemoryTypes ==
  /\ pc \in [Attempt -> PC]
  /\ loaded \in [Attempt -> Checkpoint]
  /\ base \in [Attempt -> Nat]
  /\ hist \in [Attempt -> History]
  /\ journal \in [Attempt -> Journal]
  /\ known \in [Attempt -> [read : BOOLEAN, calls : SUBSET Completions]]
  /\ calls \in [Attempt -> [Call -> CallRecord]]

WorldTypes ==
  /\ policy \in [Call -> Policy] /\ uses \in [Call -> Nat]
  /\ ran \subseteq [call : Call, use : Nat, attempt : Nat, by : Attempt]
  /\ reruns \subseteq [call : Call, use : Nat, attempt : Nat]
  /\ requests \in Nat /\ faults \in Nat

LEMMA TypeParts ==
  /\ TypeOK <=> StoreTypes /\ MemoryTypes /\ WorldTypes
  /\ TypeOK' <=> StoreTypes' /\ MemoryTypes' /\ WorldTypes'
  BY DEF TypeOK, StoreTypes, MemoryTypes, WorldTypes, CallRecord

LEMMA SameTypes ==
  /\ StoreTypes /\ UNCHANGED storeVars => StoreTypes'
  /\ MemoryTypes /\ UNCHANGED attemptVars => MemoryTypes'
  /\ WorldTypes /\ UNCHANGED worldVars => WorldTypes'
  /\ WorldTypes /\ UNCHANGED <<policy, uses, ran, reruns, requests>> /\ faults' \in Nat => WorldTypes'
  BY DEF StoreTypes, MemoryTypes, WorldTypes

LEMMA FaultType == ASSUME WorldTypes, Fault PROVE faults' \in Nat
  BY DEF WorldTypes, Fault

LEMMA LeaveTypes ==
  ASSUME MemoryTypes, NEW t \in Attempt, Leave(t)
  PROVE  MemoryTypes' /\ pc'[t] = "over"
  BY EmptyTypes DEF MemoryTypes, Leave, Goto, PC

LEMMA GotoTypes ==
  ASSUME MemoryTypes, NEW t \in Attempt, NEW place \in PC, Goto(t, place)
  PROVE  pc' \in [Attempt -> PC] /\ pc'[t] = place
  BY DEF MemoryTypes, Goto

LEMMA StageTypes ==
  ASSUME MemoryTypes, NEW t \in Attempt, NEW c \in Call, NEW s \in CallStage, SetStage(t, c, s)
  PROVE  calls' \in [Attempt -> [Call -> CallRecord]]
  <1>1. calls[t] \in [Call -> CallRecord] /\ calls[t][c] \in CallRecord
    BY DEF MemoryTypes
  <1>2. [calls[t][c] EXCEPT !.stage = s] \in CallRecord
    BY <1>1 DEF CallRecord
  <1>3. calls' = [calls EXCEPT ![t] = [calls[t] EXCEPT ![c] = [calls[t][c] EXCEPT !.stage = s]]]
    BY DEF SetStage
  <1>4. QED
    BY <1>1, <1>2, <1>3 DEF MemoryTypes

LEMMA IntentTypes ==
  ASSUME MemoryTypes, NEW t \in Attempt, NEW c \in Call, NEW p \in Policy
  PROVE  WithIntent(t, c, p) \in Journal
  <1>1. /\ calls[t][c] \in CallRecord /\ journal[t] \in Journal
        /\ journal[t].inflight \in SUBSET Intents /\ journal[t].results \in SUBSET Results
    BY JournalType DEF MemoryTypes
  <1>2. [call |-> c, use |-> calls[t][c].use, attempt |-> calls[t][c].attempt,
         policy |-> p, resolution |-> Undecided] \in Intents
    BY <1>1 DEF CallRecord, Intents
  <1>3. QED
    BY <1>1, <1>2, JournalType DEF WithIntent, IntentOf

LEMMA ResultTypes ==
  ASSUME TypeOK, NEW t \in Attempt, NEW c \in Call, NEW v \in Int
  PROVE  /\ Result(t, c, v) \in Results
         /\ WithResult(t, c, v) \in Journal
         /\ Completion(Result(t, c, v)) \in Completions
  <1>1. /\ calls[t][c] \in CallRecord /\ journal[t] \in Journal
        /\ journal[t].inflight \in SUBSET Intents /\ journal[t].results \in SUBSET Results
        /\ run.checkpointVersion \in Nat /\ hist[t] \in History
    BY JournalType, TypeParts DEF MemoryTypes, StoreTypes, Record
  <1>a. ResultCount(hist[t], c) \in Nat
    BY <1>1, ResultCountType
  <1>b. calls[t][c].use \in Nat /\ run.checkpointVersion + 1 \in Nat
    BY <1>1 DEF CallRecord
  <1>2. Result(t, c, v) \in Results
    BY <1>a, <1>b DEF Result, Results
  <1>3. WithResult(t, c, v) \in Journal
    BY <1>1, <1>2, JournalType DEF WithResult, IntentOf
  <1>4. QED
    BY <1>2, <1>3 DEF Completion, Completions, Results

LEMMA KnownTypes ==
  ASSUME TypeOK, NEW t \in Attempt
  PROVE  KnownCompleted(t) \in SUBSET Completions
  BY TypeParts DEF KnownCompleted, CompletedThrough, StoreTypes, MemoryTypes, Checkpoint

LEMMA StoreTyped ==
  ASSUME TypeOK, NEW t \in Attempt, NEW phase \in {"before-tool", "after-tool"},
         NEW own \in SUBSET Completions, NEW next \in Journal, Store(t, phase, own, next)
  PROVE  /\ run' \in Record /\ ckpt' \in Checkpoint
         /\ run'.lease = run.lease /\ run'.status = run.status
  BY KnownTypes, TypeParts DEF Store, StoreTypes, Record, Checkpoint

LEMMA SetKnownTyped ==
  ASSUME MemoryTypes, NEW t \in Attempt, NEW completed \in SUBSET Completions, SetKnown(t, completed)
  PROVE  known' \in [Attempt -> [read : BOOLEAN, calls : SUBSET Completions]]
  BY DEF SetKnown, MemoryTypes

LEMMA AppendTypes ==
  ASSUME TypeOK, NEW t \in Attempt, NEW c \in Call, NEW phase \in {"before-tool", "after-tool"},
         NEW own \in SUBSET Completions, NEW next \in Journal, NEW landed \in CallRecord,
         AppendTo(t, c, phase, own, next, landed)
  PROVE  /\ run' \in Record /\ ckpt' \in Checkpoint
         /\ run'.lease = run.lease /\ run'.status = run.status
         /\ journal' \in [Attempt -> Journal]
         /\ known' \in [Attempt -> [read : BOOLEAN, calls : SUBSET Completions]]
         /\ calls' \in [Attempt -> [Call -> CallRecord]]
         /\ faults' \in Nat
<1> USE TypeParts
<1>1. /\ KnownCompleted(t) \in SUBSET Completions
      /\ KnownCompleted(t) \cup own \in SUBSET Completions
  BY KnownTypes
<1>2. CASE /\ ~Fenced(t)
           /\ Store(t, phase, own, next)
           /\ journal' = [journal EXCEPT ![t] = next]
           /\ SetKnown(t, KnownCompleted(t) \cup own)
           /\ calls' = [calls EXCEPT ![t][c] = landed]
           /\ UNCHANGED faults
  <2>1. journal' \in [Attempt -> Journal] /\ calls' \in [Attempt -> [Call -> CallRecord]]
    BY <1>2 DEF MemoryTypes
  <2>2. faults' \in Nat
    BY <1>2 DEF WorldTypes
  <2>3. QED
    BY <1>1, <1>2, <2>1, <2>2, StoreTyped, SetKnownTyped
<1>3. CASE /\ SetStage(t, c, "failed")
           /\ SetKnown(t, KnownCompleted(t))
           /\ UNCHANGED journal
           /\ UNCHANGED <<run, ckpt>> \/ Store(t, phase, own, next)
           /\ UNCHANGED faults \/ Fault
  <2>1. "failed" \in CallStage
    BY DEF CallStage
  <2>2. calls' \in [Attempt -> [Call -> CallRecord]]
    BY <1>3, <2>1, StageTypes
  <2>3. faults' \in Nat
    BY <1>3, FaultType DEF WorldTypes
  <2>4. journal' \in [Attempt -> Journal]
    BY <1>3 DEF MemoryTypes
  <2>5. /\ run' \in Record /\ ckpt' \in Checkpoint
        /\ run'.lease = run.lease /\ run'.status = run.status
    BY <1>3, StoreTyped DEF StoreTypes
  <2>6. QED
    BY <1>1, <1>3, <2>2, <2>3, <2>4, <2>5, SetKnownTyped
<1>4. QED
  BY <1>2, <1>3 DEF AppendTo

-----------------------------------------------------------------------------
(* A step of one attempt leaves the others alone, and takes no run from one  *)
(* of them but by a claim.                                                   *)

Alone(t) ==
  \A s \in Attempt \ {t} :
    /\ pc'[s] = pc[s] /\ loaded'[s] = loaded[s] /\ base'[s] = base[s] /\ hist'[s] = hist[s]
    /\ journal'[s] = journal[s] /\ known'[s] = known[s] /\ calls'[s] = calls[s]

OthersKeep(t) ==
  \A s \in Attempt \ {t} : Owns(s)' => Owns(s) /\ UNCHANGED <<ckpt, committed>>

LEMMA BasesKept ==
  ASSUME BasesFit, NEW t \in Attempt, Alone(t), OthersKeep(t),
         pc'[t] \in {"prepared", "restored"} \/ Active(t)' => base'[t] <= Len(hist'[t]),
         Owns(t)' /\ Active(t)' => base'[t] <= Len(committed')
  PROVE  BasesFit'
  BY DEF BasesFit, Alone, OthersKeep, Active

\* A step that leaves the lease, its holder's place and the history alone.
LEMMA SameBases ==
  ASSUME BasesFit, NEW t \in Attempt, Alone(t), UNCHANGED <<pc, base, hist, committed>>,
         run'.lease = run.lease, run'.status = run.status
  PROVE  BasesFit'
  BY DEF BasesFit, Alone, Active, Owns

LEMMA AppendAlone ==
  ASSUME MemoryTypes, run \in Record, NEW t \in Attempt, NEW c \in Call, NEW phase, NEW own, NEW next, NEW landed,
         AppendTo(t, c, phase, own, next, landed), UNCHANGED <<pc, loaded, base, hist, committed>>
  PROVE  Alone(t) /\ OthersKeep(t)
<1>1. \A s \in Attempt \ {t} : journal'[s] = journal[s] /\ known'[s] = known[s] /\ calls'[s] = calls[s]
  BY DEF AppendTo, MemoryTypes, SetKnown, SetStage
<1>2. \/ UNCHANGED <<run, ckpt>>
      \/ Owns(t) /\ run'.lease = run.lease /\ run'.status = run.status
  <2>1. \/ UNCHANGED <<run, ckpt>>
        \/ ~Fenced(t) /\ Store(t, phase, own, next)
    BY DEF AppendTo
  <2>2. QED
    BY <2>1, FencedOut DEF Store, Record
<1>3. QED
  BY <1>1, <1>2 DEF Alone, OthersKeep, Owns

LEMMA LeaveAlone ==
  ASSUME MemoryTypes, NEW t \in Attempt, Leave(t)
  PROVE  Alone(t)
  BY DEF Alone, Leave, Goto, MemoryTypes

LEMMA LeaveBases ==
  ASSUME MemoryTypes, BasesFit, NEW t \in Attempt, Leave(t), OthersKeep(t)
  PROVE  BasesFit'
<1>1. Alone(t) /\ pc'[t] = "over"
  BY LeaveAlone, LeaveTypes
<1>2. QED
  BY <1>1, BasesKept DEF Active

\* What every step of an attempt has to show here.
Shaped(t) == TypeOK' /\ BasesFit' /\ Alone(t) /\ OthersKeep(t)

LEMMA AppendShaped ==
  ASSUME ShapeInv, NEW t \in Attempt, NEW c \in Call, NEW phase \in {"before-tool", "after-tool"},
         NEW own \in SUBSET Completions, NEW next \in Journal, NEW landed \in CallRecord,
         AppendTo(t, c, phase, own, next, landed),
         UNCHANGED <<committed, pc, loaded, base, hist, policy, uses, ran, reruns, requests>>
  PROVE  Shaped(t)
<1> USE DEF ShapeInv
<1>1. /\ run' \in Record /\ ckpt' \in Checkpoint
      /\ run'.lease = run.lease /\ run'.status = run.status
      /\ journal' \in [Attempt -> Journal]
      /\ known' \in [Attempt -> [read : BOOLEAN, calls : SUBSET Completions]]
      /\ calls' \in [Attempt -> [Call -> CallRecord]]
      /\ faults' \in Nat
  BY AppendTypes
<1>2. Alone(t) /\ OthersKeep(t)
  BY AppendAlone, TypeParts DEF StoreTypes
<1>3. BasesFit'
  BY <1>1, <1>2, SameBases
<1>4. TypeOK'
  BY <1>1 DEF TypeOK, CallRecord
<1>5. QED
  BY <1>2, <1>3, <1>4 DEF Shaped

LEMMA AppendIntentShaped ==
  ASSUME ShapeInv, NEW t \in Attempt, NEW c \in Call, NEW p \in Policy, NEW stage \in CallStage,
         AppendIntent(t, c, p, stage),
         UNCHANGED <<committed, pc, loaded, base, hist, policy, uses, ran, reruns, requests>>
  PROVE  Shaped(t)
<1>1. calls[t][c] \in CallRecord
  BY TypeParts DEF ShapeInv, MemoryTypes
<1>2. [calls[t][c] EXCEPT !.stage = stage] \in CallRecord
  BY <1>1 DEF CallRecord
<1>3. WithIntent(t, c, p) \in Journal /\ {} \in SUBSET Completions
  BY IntentTypes, TypeParts DEF ShapeInv
<1>4. QED
  BY <1>2, <1>3, AppendShaped DEF AppendIntent

LEMMA AppendResultShaped ==
  ASSUME ShapeInv, NEW t \in Attempt, NEW c \in Call, NEW v \in Int, AppendResult(t, c, v),
         UNCHANGED <<committed, pc, loaded, base, hist, policy, uses, ran, reruns, requests>>
  PROVE  Shaped(t)
<1>1. calls[t][c] \in CallRecord
  BY TypeParts DEF ShapeInv, MemoryTypes
<1>2. [calls[t][c] EXCEPT !.stage = "done", !.value = v] \in CallRecord
  BY <1>1 DEF CallRecord, CallStage
<1>3. WithResult(t, c, v) \in Journal /\ {Completion(Result(t, c, v))} \in SUBSET Completions
  BY ResultTypes DEF ShapeInv
<1>4. QED
  BY <1>2, <1>3, AppendShaped DEF AppendResult

\* A step in memory, within its round.
LEMMA InMemoryShaped ==
  ASSUME ShapeInv, NEW t \in Attempt, Alone(t), UNCHANGED <<storeVars, pc, loaded, base, hist, known>>,
         journal' \in [Attempt -> Journal], calls' \in [Attempt -> [Call -> CallRecord]], WorldTypes'
  PROVE  Shaped(t)
<1>1. TypeOK'
  BY DEF TypeOK, WorldTypes, ShapeInv, CallRecord
<1>2. BasesFit'
  BY SameBases DEF ShapeInv
<1>3. OthersKeep(t)
  BY DEF OthersKeep, Owns
<1>4. QED
  BY <1>1, <1>2, <1>3 DEF Shaped

-----------------------------------------------------------------------------
(* The steps of a call *)

LEMMA PolicyTypes ==
  ASSUME TypeOK, NEW c \in Call
  PROVE  policy[c] \in Policy /\ "manual-recovery" \in Policy
  BY DEF TypeOK, Policy

LEMMA BeforeToolShaped ==
  ASSUME ShapeInv, NEW t \in Attempt, NEW c \in Call, BeforeTool(t, c)
  PROVE  Shaped(t)
<1>1. "ready" \in CallStage /\ policy[c] \in Policy
  BY PolicyTypes DEF CallStage, ShapeInv
<1>2. CASE Staged(policy[c])
  <2>1. /\ journal' = [journal EXCEPT ![t] = WithIntent(t, c, policy[c])]
        /\ SetStage(t, c, "ready")
        /\ UNCHANGED <<storeVars, pc, loaded, base, hist, known, worldVars>>
    BY <1>2 DEF BeforeTool
  <2>2. calls' \in [Attempt -> [Call -> CallRecord]]
    BY <1>1, <2>1, StageTypes, TypeParts DEF ShapeInv
  <2>3. journal' \in [Attempt -> Journal]
    BY <1>1, <2>1, IntentTypes, TypeParts DEF ShapeInv, MemoryTypes
  <2>4. Alone(t)
    BY <2>1, TypeParts DEF Alone, SetStage, ShapeInv, MemoryTypes
  <2>5. WorldTypes'
    BY <2>1, SameTypes, TypeParts DEF ShapeInv
  <2>6. QED
    BY <2>1, <2>2, <2>3, <2>4, <2>5, InMemoryShaped
<1>3. CASE ~Staged(policy[c])
  BY <1>1, <1>3, AppendIntentShaped DEF BeforeTool
<1>4. QED
  BY <1>2, <1>3

LEMMA HookParksShaped ==
  ASSUME ShapeInv, NEW t \in Attempt, NEW c \in Call, HookParks(t, c)
  PROVE  Shaped(t)
<1>1. "parked" \in CallStage /\ "manual-recovery" \in Policy
  BY PolicyTypes DEF CallStage, ShapeInv
<1>2. CASE policy[c] = "manual-recovery"
  <2>1. /\ SetStage(t, c, "parked")
        /\ Fault
        /\ UNCHANGED <<storeVars, pc, loaded, base, hist, known, journal, policy, uses, ran, reruns, requests>>
    BY <1>2 DEF HookParks
  <2>2. calls' \in [Attempt -> [Call -> CallRecord]]
    BY <1>1, <2>1, StageTypes, TypeParts DEF ShapeInv
  <2>3. journal' \in [Attempt -> Journal]
    BY <2>1, TypeParts DEF ShapeInv, MemoryTypes
  <2>4. Alone(t)
    BY <2>1, TypeParts DEF Alone, SetStage, ShapeInv, MemoryTypes
  <2>5. WorldTypes'
    BY <2>1, SameTypes, FaultType, TypeParts DEF ShapeInv
  <2>6. QED
    BY <2>1, <2>2, <2>3, <2>4, <2>5, InMemoryShaped
<1>3. CASE policy[c] # "manual-recovery"
  BY <1>1, <1>3, AppendIntentShaped DEF HookParks
<1>4. QED
  BY <1>2, <1>3

LEMMA HookBlocksShaped ==
  ASSUME ShapeInv, NEW t \in Attempt, NEW c \in Call, HookBlocks(t, c)
  PROVE  Shaped(t)
<1>1. Blocked \in Int
  BY DEF Blocked
<1>2. QED
  BY <1>1, AppendResultShaped DEF HookBlocks

LEMMA RunEffectShaped ==
  ASSUME ShapeInv, NEW t \in Attempt, NEW c \in Call, RunEffect(t, c)
  PROVE  Shaped(t)
<1>0. TypeOK /\ StoreTypes /\ MemoryTypes /\ WorldTypes /\ BasesFit
  BY TypeParts DEF ShapeInv
<1> USE <1>0
<1>1. calls[t] \in [Call -> CallRecord] /\ calls[t][c] \in CallRecord
  BY DEF MemoryTypes
<1>a. calls[t][c].attempt \in Int
  BY <1>1 DEF CallRecord
<1>2. [calls[t][c] EXCEPT !.stage = "ran", !.value = calls[t][c].attempt] \in CallRecord
  BY <1>1, <1>a DEF CallRecord, CallStage
<1>3. calls' = [calls EXCEPT ![t] =
         [calls[t] EXCEPT ![c] = [calls[t][c] EXCEPT !.stage = "ran", !.value = calls[t][c].attempt]]]
  BY <1>1 DEF RunEffect, MemoryTypes, CallRecord
<1>4. calls' \in [Attempt -> [Call -> CallRecord]]
  BY <1>1, <1>2, <1>3 DEF MemoryTypes
<1>5. journal' \in [Attempt -> Journal] /\ Alone(t)
  BY <1>3 DEF RunEffect, MemoryTypes, Alone
<1>b. WorldTypes /\ calls[t][c].use \in Nat /\ calls[t][c].attempt \in Nat
  BY <1>1 DEF CallRecord
<1>c. /\ ran' = ran \cup {[call |-> c, use |-> calls[t][c].use,
                           attempt |-> calls[t][c].attempt, by |-> t]}
      /\ UNCHANGED <<policy, uses, reruns, requests, faults>>
  BY DEF RunEffect
<1>6. WorldTypes'
  BY <1>b, <1>c DEF WorldTypes
<1>7. QED
  BY <1>4, <1>5, <1>6, InMemoryShaped DEF RunEffect

LEMMA AfterToolShaped ==
  ASSUME ShapeInv, NEW t \in Attempt, NEW c \in Call, AfterTool(t, c)
  PROVE  Shaped(t)
<1>1. calls[t][c].value \in Int
  BY TypeParts DEF ShapeInv, MemoryTypes, CallRecord
<1>2. QED
  BY <1>1, AppendResultShaped DEF AfterTool

-----------------------------------------------------------------------------
(* The steps of a turn *)

LEMMA RequestShaped ==
  ASSUME ShapeInv, NEW t \in Attempt, Request(t)
  PROVE  Shaped(t)
<1>0. TypeOK /\ StoreTypes /\ MemoryTypes /\ WorldTypes /\ BasesFit
  BY TypeParts DEF ShapeInv
<1> USE <1>0
<1>1. PICK round \in SUBSET Call :
        /\ uses' = [c \in Call |-> IF c \in round THEN uses[c] + 1 ELSE uses[c]]
        /\ calls' = [calls EXCEPT ![t] = [c \in Call |->
             IF c \in round
             THEN [stage |-> "issued", use |-> uses[c] + 1, attempt |-> 1, value |-> 0]
             ELSE NoCall]]
  BY DEF Request
<1>2. "round" \in PC /\ "issued" \in CallStage
  BY DEF PC, CallStage
<1>3. uses \in [Call -> Nat]
  BY DEF WorldTypes
<1>4. uses' \in [Call -> Nat]
  BY <1>1, <1>3
<1>5. \A c \in Call : [stage |-> "issued", use |-> uses[c] + 1, attempt |-> 1, value |-> 0] \in CallRecord
  BY <1>2, <1>3 DEF CallRecord
<1>6. calls' \in [Attempt -> [Call -> CallRecord]]
  BY <1>1, <1>5, EmptyTypes DEF MemoryTypes
<1>7. MemoryTypes'
  BY <1>2, <1>6, GotoTypes DEF Request, MemoryTypes
<1>8. WorldTypes'
  BY <1>4 DEF Request, WorldTypes
<1>a. UNCHANGED storeVars
  BY DEF Request
<1>b. StoreTypes'
  BY <1>a, SameTypes
<1>9. TypeOK'
  BY <1>7, <1>8, <1>b, TypeParts
<1>10. Alone(t)
  BY <1>1 DEF Request, Alone, Goto, MemoryTypes
<1>11. OthersKeep(t)
  BY DEF Request, OthersKeep, Owns
<1>12. pc[t] = "request" /\ UNCHANGED <<base, hist, committed, run>>
  BY DEF Request
<1>13. base[t] <= Len(hist[t]) /\ (Owns(t) => base[t] <= Len(committed))
  BY <1>12 DEF BasesFit, Active
<1>14. Owns(t)' => Owns(t)
  BY <1>12 DEF Owns
<1>15. BasesFit'
  BY <1>10, <1>11, <1>12, <1>13, <1>14, BasesKept
<1>16. QED
  BY <1>9, <1>10, <1>11, <1>15 DEF Shaped

LEMMA FinishRoundShaped ==
  ASSUME ShapeInv, NEW t \in Attempt, FinishRound(t)
  PROVE  Shaped(t)
<1>0. TypeOK /\ StoreTypes /\ MemoryTypes /\ WorldTypes /\ BasesFit
  BY TypeParts DEF ShapeInv
<1> USE <1>0
<1> DEFINE round == {Entry(c, calls[t][c].use, calls[t][c].value) :
                       c \in {d \in Call : calls[t][d].stage = "done"}}
<1>1. calls[t] \in [Call -> CallRecord] /\ hist[t] \in History /\ "commit" \in PC
  BY DEF MemoryTypes, PC
<1>2. round \in SUBSET Entries
  BY <1>1 DEF Entries, Entry, CallRecord
<1>3. WithRound(hist[t], round) \in History /\ Len(hist[t]) <= Len(WithRound(hist[t], round))
  BY <1>1, <1>2, WithRoundType
<1>4. hist' = [hist EXCEPT ![t] = WithRound(hist[t], round)]
  BY DEF FinishRound
<1>5. MemoryTypes'
  BY <1>1, <1>3, <1>4, EmptyTypes, GotoTypes DEF FinishRound, MemoryTypes
<1>a. UNCHANGED <<storeVars, worldVars>>
  BY DEF FinishRound
<1>b. StoreTypes' /\ WorldTypes'
  BY <1>a, SameTypes
<1>6. TypeOK'
  BY <1>5, <1>b, TypeParts
<1>7. Alone(t) /\ OthersKeep(t)
  BY <1>4 DEF FinishRound, Alone, Goto, OthersKeep, Owns, MemoryTypes
<1>8. /\ pc[t] \in {"round", "settle"} /\ UNCHANGED <<base, committed, run>>
      /\ hist'[t] = WithRound(hist[t], round)
  BY <1>4 DEF FinishRound, InRound, MemoryTypes
<1>9. base[t] <= Len(hist[t]) /\ (Owns(t) => base[t] <= Len(committed))
  BY <1>8 DEF BasesFit, Active
<1>10. /\ base[t] \in Nat /\ Len(hist[t]) \in Nat /\ Len(WithRound(hist[t], round)) \in Nat
       /\ Owns(t)' => Owns(t)
  BY <1>1, <1>3, <1>8 DEF MemoryTypes, History, Owns
<1>11. BasesFit'
  BY <1>3, <1>7, <1>8, <1>9, <1>10, BasesKept
<1>12. QED
  BY <1>6, <1>7, <1>11 DEF Shaped

LEMMA ShapeParts ==
  ASSUME ShapeInv
  PROVE  TypeOK /\ StoreTypes /\ MemoryTypes /\ WorldTypes /\ BasesFit
  BY TypeParts DEF ShapeInv

LEMMA CommitRoundShaped ==
  ASSUME ShapeInv, NEW t \in Attempt, CommitRound(t)
  PROVE  Shaped(t)
<1> USE ShapeParts
<1>1. UNCHANGED <<run, ckpt, worldVars>> /\ pc[t] = "commit"
  BY DEF CommitRound
<1>2. CASE OwnsRunning(t)
  <2>1. /\ committed' = hist[t]
        /\ journal' = [journal EXCEPT ![t].results = {}]
        /\ Goto(t, "request")
        /\ UNCHANGED <<loaded, base, hist, known, calls>>
    BY <1>2 DEF CommitRound
  <2>2. StoreTypes'
    BY <1>1, <2>1 DEF StoreTypes, MemoryTypes
  <2>3. journal[t] \in Journal /\ [journal[t] EXCEPT !.results = {}] \in Journal
    BY JournalType DEF MemoryTypes
  <2>4. journal' \in [Attempt -> Journal] /\ "request" \in PC
    BY <2>1, <2>3 DEF MemoryTypes, PC
  <2>5. MemoryTypes'
    BY <2>1, <2>4, GotoTypes DEF MemoryTypes
  <2>6. TypeOK'
    BY <1>1, <2>2, <2>5, SameTypes, TypeParts
  <2>7. Alone(t)
    BY <2>1 DEF Alone, Goto, MemoryTypes
  <2>8. OthersKeep(t)
    BY <1>1, <1>2 DEF OthersKeep, OwnsRunning, TransitionAllowed, Owns
  <2>9. base[t] <= Len(hist[t])
    BY <1>1 DEF BasesFit, Active
  <2>10. BasesFit'
    BY <2>1, <2>7, <2>8, <2>9, BasesKept
  <2>11. QED
    BY <2>6, <2>7, <2>8, <2>10 DEF Shaped
<1>3. CASE ~OwnsRunning(t)
  <2>1. Leave(t) /\ UNCHANGED committed
    BY <1>3 DEF CommitRound
  <2>2. TypeOK'
    BY <1>1, <2>1, LeaveTypes, SameTypes, TypeParts
  <2>3. OthersKeep(t)
    BY <1>1, <2>1 DEF OthersKeep, Owns
  <2>4. QED
    BY <2>1, <2>2, <2>3, LeaveAlone, LeaveBases DEF Shaped
<1>4. QED
  BY <1>2, <1>3

LEMMA RecordTypes ==
  ASSUME NEW record \in Record, NEW status \in Status
  PROVE  WithStatus(record, status) \in Record /\ WithLease(record, status, NoLease) \in Record
  BY DEF Record, WithStatus, WithLease, NoLease

LEMMA StatusTypes == {"needs-recovery", "error", "completed", "running", "queued", "leased"} \subseteq Status
  BY DEF Status, ClaimableStatus, TerminalStatus

LEMMA EndTurnShaped ==
  ASSUME ShapeInv, NEW t \in Attempt, NEW status \in {"needs-recovery", "error", "completed"},
         Active(t), EndTurn(t, status), WorldTypes'
  PROVE  Shaped(t)
<1> USE ShapeParts
<1>1. Leave(t) /\ UNCHANGED ckpt
  BY DEF EndTurn
<1>2. \/ UNCHANGED <<run, committed>>
      \/ /\ Owns(t)
         /\ run' = WithStatus(run, status)
         /\ committed' \in {committed, SubSeq(committed, 1, base[t])}
  BY FencedOut DEF EndTurn
<1>3. run' \in Record
  BY <1>2, RecordTypes, StatusTypes DEF StoreTypes
<1>4. committed' \in History
  <2>1. CASE Owns(t)
    <3>1. base[t] \in Nat /\ base[t] <= Len(committed) /\ committed \in Seq(SUBSET Entries)
      BY <2>1 DEF BasesFit, MemoryTypes, StoreTypes, History
    <3>2. SubSeq(committed, 1, base[t]) \in Seq(SUBSET Entries)
      BY <3>1
    <3>3. QED
      BY <1>2, <3>1, <3>2 DEF History
  <2>2. QED
    BY <1>2, <2>1 DEF StoreTypes
<1>5. TypeOK'
  BY <1>1, <1>3, <1>4, LeaveTypes, TypeParts DEF StoreTypes
<1>6. OthersKeep(t)
  BY <1>1, <1>2 DEF OthersKeep, Owns, WithStatus, StoreTypes, Record
<1>7. QED
  BY <1>1, <1>5, <1>6, LeaveAlone, LeaveBases DEF Shaped

LEMMA StopRoundShaped ==
  ASSUME ShapeInv, NEW t \in Attempt, StopRound(t)
  PROVE  Shaped(t)
<1>1. /\ Active(t)
      /\ \/ EndTurn(t, "error")
         \/ EndTurn(t, "needs-recovery")
      /\ UNCHANGED worldVars
  BY DEF StopRound, InRound, Active
<1>2. QED
  BY <1>1, EndTurnShaped, ShapeParts, SameTypes

LEMMA RequestFailsShaped ==
  ASSUME ShapeInv, NEW t \in Attempt, RequestFails(t)
  PROVE  Shaped(t)
<1>1. Active(t) /\ EndTurn(t, "error") /\ Fault /\ UNCHANGED <<policy, uses, ran, reruns, requests>>
  BY DEF RequestFails, Active
<1>2. WorldTypes'
  BY <1>1, SameTypes, FaultType, ShapeParts
<1>3. QED
  BY <1>1, <1>2, EndTurnShaped

LEMMA CompleteShaped ==
  ASSUME ShapeInv, NEW t \in Attempt, Complete(t)
  PROVE  Shaped(t)
<1>1. Active(t) /\ EndTurn(t, "completed") /\ UNCHANGED worldVars
  BY DEF Complete, Active
<1>2. QED
  BY <1>1, EndTurnShaped, ShapeParts, SameTypes

LEMMA DieShaped ==
  ASSUME ShapeInv, NEW t \in Attempt, Die(t)
  PROVE  Shaped(t)
<1>1. Leave(t) /\ UNCHANGED <<storeVars, worldVars>>
  BY DEF Die
<1>2. OthersKeep(t)
  BY <1>1 DEF OthersKeep, Owns
<1>3. TypeOK'
  BY <1>1, LeaveTypes, SameTypes, TypeParts, ShapeParts
<1>4. QED
  BY <1>1, <1>2, <1>3, LeaveAlone, LeaveBases, ShapeParts DEF Shaped

-----------------------------------------------------------------------------
(* The steps of a recovery *)

\* Places where the memory of an attempt holds no base yet.
LEMMA StepsIn ==
  ASSUME MemoryTypes, BasesFit, NEW t \in Attempt, NEW place \in PC \ {"prepared", "restored", "round", "settle", "commit", "request"},
         Goto(t, place), Alone(t), OthersKeep(t)
  PROVE  BasesFit'
<1>1. pc'[t] = place
  BY GotoTypes
<1>2. QED
  BY <1>1, BasesKept DEF Active

LEMMA ClaimShaped ==
  ASSUME ShapeInv, NEW t \in Attempt, Claim(t)
  PROVE  Shaped(t)
<1> USE ShapeParts
<1>1. /\ run' = ClaimedRun(run, run.lease.attempt + 1, t, NoOwner)
      /\ Goto(t, "claimed")
      /\ UNCHANGED <<ckpt, committed, loaded, base, hist, journal, known, calls, worldVars>>
  BY DEF Claim
<1>2. "claimed" \in PC /\ "leased" \in Status /\ t \in Nat
  BY AttemptIsNat, StatusTypes DEF PC
<1>3. run.lease.attempt \in Nat
  BY DEF StoreTypes, Record
<1>4. EffectiveAttempt(run, run.lease.attempt + 1) \in Nat
  BY <1>3 DEF EffectiveAttempt
<1>5. run' \in Record /\ run'.lease.id = t
  BY <1>1, <1>2, <1>4 DEF ClaimedRun, WithLease, Record, StoreTypes
<1>6. TypeOK'
  <2>1. StoreTypes'
    BY <1>1, <1>5 DEF StoreTypes
  <2>2. MemoryTypes'
    BY <1>1, <1>2, GotoTypes DEF MemoryTypes
  <2>3. QED
    BY <1>1, <2>1, <2>2, SameTypes, TypeParts
<1>7. Alone(t)
  BY <1>1 DEF Alone, Goto, MemoryTypes
<1>8. OthersKeep(t)
  BY <1>5 DEF OthersKeep, Owns
<1>9. BasesFit'
  BY <1>1, <1>2, <1>7, <1>8, StepsIn
<1>10. QED
  BY <1>6, <1>7, <1>8, <1>9 DEF Shaped

LEMMA ParkClaimedShaped ==
  ASSUME ShapeInv, NEW t \in Attempt, ParkClaimed(t), UNCHANGED <<ckpt, committed, worldVars>>
  PROVE  Shaped(t)
<1> USE ShapeParts
<1>1. Leave(t) /\ run' \in {run, WithLease(run, "needs-recovery", NoLease)}
  BY DEF ParkClaimed
<1>2. run' \in Record
  BY <1>1, RecordTypes, StatusTypes DEF StoreTypes
<1>3. OthersKeep(t)
  BY <1>1 DEF OthersKeep, Owns, WithLease, TerminalStatus, StoreTypes, Record
<1>4. TypeOK'
  BY <1>1, <1>2, LeaveTypes, SameTypes, TypeParts DEF StoreTypes
<1>5. QED
  BY <1>1, <1>3, <1>4, LeaveAlone, LeaveBases DEF Shaped

LEMMA LoadCheckpointShaped ==
  ASSUME ShapeInv, NEW t \in Attempt, LoadCheckpoint(t)
  PROVE  Shaped(t)
<1> USE ShapeParts
<1>1. UNCHANGED <<ckpt, committed, worldVars>>
  BY DEF LoadCheckpoint
<1>2. CASE ParkClaimed(t)
  BY <1>1, <1>2, ParkClaimedShaped
<1>3. CASE /\ loaded' = [loaded EXCEPT ![t] = ckpt]
           /\ Goto(t, "loaded")
           /\ UNCHANGED <<run, base, hist, journal, known, calls>>
  <2>1. MemoryTypes' /\ "loaded" \in PC
    BY <1>3, GotoTypes DEF MemoryTypes, StoreTypes, PC
  <2>2. TypeOK'
    BY <1>1, <1>3, <2>1, SameTypes, TypeParts
  <2>3. Alone(t) /\ OthersKeep(t)
    BY <1>1, <1>3 DEF Alone, Goto, MemoryTypes, OthersKeep, Owns
  <2>4. BasesFit'
    BY <1>3, <2>1, <2>3, StepsIn
  <2>5. QED
    BY <2>2, <2>3, <2>4 DEF Shaped
<1>4. QED
  BY <1>2, <1>3 DEF LoadCheckpoint

LEMMA PrepareShaped ==
  ASSUME ShapeInv, NEW t \in Attempt, Prepare(t)
  PROVE  Shaped(t)
<1> USE ShapeParts
<1>1. UNCHANGED <<ckpt, committed, worldVars>>
  BY DEF Prepare
<1>2. CASE ParkClaimed(t)
  BY <1>1, <1>2, ParkClaimedShaped
<1>3. CASE /\ hist' = [hist EXCEPT ![t] = WithRound(committed, RoundOf(Restorable(loaded[t], committed)))]
           /\ base' = [base EXCEPT ![t] = Len(committed)]
           /\ Goto(t, "prepared")
           /\ UNCHANGED <<run, loaded, journal, known, calls>>
  <2>1. Restorable(loaded[t], committed) \in SUBSET Results
    BY JournalType DEF Restorable, MemoryTypes, Checkpoint
  <2>2. RoundOf(Restorable(loaded[t], committed)) \in SUBSET Entries
    BY <2>1, RoundOfType
  <2> DEFINE restored == WithRound(committed, RoundOf(Restorable(loaded[t], committed)))
  <2>3. restored \in History /\ Len(committed) <= Len(restored)
    BY <2>2, WithRoundType DEF StoreTypes
  <2>4. Len(committed) \in Nat /\ "prepared" \in PC
    BY DEF StoreTypes, History, PC
  <2> HIDE DEF restored
  <2>5. hist' = [hist EXCEPT ![t] = restored]
    BY <1>3 DEF restored
  <2>6. MemoryTypes'
    BY <1>3, <2>3, <2>4, <2>5, GotoTypes DEF MemoryTypes
  <2>7. TypeOK'
    BY <1>1, <1>3, <2>6, SameTypes, TypeParts
  <2>8. Alone(t) /\ OthersKeep(t)
    BY <1>1, <1>3, <2>5 DEF Alone, Goto, MemoryTypes, OthersKeep, Owns
  <2>9. pc'[t] = "prepared" /\ base'[t] = Len(committed) /\ hist'[t] = restored
    BY <1>3, <2>5 DEF Goto, MemoryTypes
  <2>10. BasesFit'
    BY <2>3, <2>8, <2>9, BasesKept DEF Active
  <2>11. QED
    BY <2>7, <2>8, <2>10 DEF Shaped
<1>4. QED
  BY <1>2, <1>3 DEF Prepare

LEMMA StartShaped ==
  ASSUME ShapeInv, NEW t \in Attempt, Start(t)
  PROVE  Shaped(t)
<1> USE ShapeParts
<1>1. UNCHANGED <<ckpt, committed, worldVars>> /\ pc[t] = "prepared"
  BY DEF Start
<1>2. CASE Leave(t) /\ UNCHANGED run
  <2>1. TypeOK'
    BY <1>1, <1>2, LeaveTypes, SameTypes, TypeParts
  <2>2. OthersKeep(t)
    BY <1>1, <1>2 DEF OthersKeep, Owns
  <2>3. QED
    BY <1>2, <2>1, <2>2, LeaveAlone, LeaveBases DEF Shaped
<1>3. CASE /\ run.lease.id = t
           /\ run' = WithStatus(run, "running")
           /\ Goto(t, "restored")
           /\ UNCHANGED <<loaded, base, hist, journal, known, calls>>
  <2>1. run' \in Record /\ run'.lease = run.lease
    BY <1>3, RecordTypes, StatusTypes DEF StoreTypes, WithStatus, Record
  <2>2. MemoryTypes' /\ pc'[t] = "restored"
    BY <1>3, GotoTypes DEF MemoryTypes, PC
  <2>3. TypeOK'
    BY <1>1, <2>1, <2>2, SameTypes, TypeParts DEF StoreTypes
  <2>4. Alone(t) /\ OthersKeep(t)
    BY <1>1, <1>3, <2>1 DEF Alone, Goto, MemoryTypes, OthersKeep, Owns
  <2>5. base[t] <= Len(hist[t])
    BY <1>1 DEF BasesFit
  <2>6. BasesFit'
    BY <1>3, <2>2, <2>4, <2>5, BasesKept DEF Active
  <2>7. QED
    BY <2>3, <2>4, <2>6 DEF Shaped
<1>4. QED
  BY <1>2, <1>3 DEF Start

LEMMA CommitRestoredShaped ==
  ASSUME ShapeInv, NEW t \in Attempt, CommitRestored(t)
  PROVE  Shaped(t)
<1> USE ShapeParts
<1>1. UNCHANGED <<run, ckpt, worldVars>> /\ pc[t] = "restored"
  BY DEF CommitRestored
<1>2. CASE Leave(t) /\ UNCHANGED committed
  <2>1. TypeOK'
    BY <1>1, <1>2, LeaveTypes, SameTypes, TypeParts
  <2>2. OthersKeep(t)
    BY <1>1, <1>2 DEF OthersKeep, Owns
  <2>3. QED
    BY <1>2, <2>1, <2>2, LeaveAlone, LeaveBases DEF Shaped
<1>3. CASE hist[t] = committed \/ OwnsRunning(t)
  <2> DEFINE inflight == loaded[t].journal.inflight
             carried(c) == LET intent == CHOOSE i \in inflight : i.call = c
                           IN  [stage |-> "carried", use |-> intent.use,
                                attempt |-> intent.attempt, value |-> 0]
  <2>1. /\ committed' = hist[t]
        /\ journal' = [journal EXCEPT ![t].inflight = inflight]
        /\ calls' = [calls EXCEPT ![t] = [c \in Call |->
             IF \E intent \in inflight : intent.call = c THEN carried(c) ELSE NoCall]]
        /\ Goto(t, IF inflight = {} THEN "request" ELSE "settle")
        /\ UNCHANGED <<loaded, base, hist, known>>
    BY <1>3 DEF CommitRestored
  <2>2. inflight \in SUBSET Intents /\ journal[t] \in Journal
    BY JournalType DEF MemoryTypes, Checkpoint
  <2>3. [journal[t] EXCEPT !.inflight = inflight] \in Journal
    BY <2>2, JournalType
  <2>4. ASSUME NEW c \in Call, \E intent \in inflight : intent.call = c
        PROVE  carried(c) \in CallRecord
    <3>1. (CHOOSE i \in inflight : i.call = c) \in Intents
      BY <2>2, <2>4
    <3>2. QED
      BY <3>1 DEF Intents, CallRecord, CallStage
  <2>5. PICK place \in {"request", "settle"} : Goto(t, place)
    BY <2>1
  <2> HIDE DEF inflight, carried
  <2>6. calls' \in [Attempt -> [Call -> CallRecord]]
    BY <2>1, <2>4, EmptyTypes DEF MemoryTypes
  <2>7. journal' \in [Attempt -> Journal] /\ place \in PC
    BY <2>1, <2>3 DEF MemoryTypes, PC
  <2>8. MemoryTypes' /\ StoreTypes' /\ pc'[t] = place
    BY <1>1, <2>1, <2>5, <2>6, <2>7, GotoTypes DEF MemoryTypes, StoreTypes
  <2>9. TypeOK'
    BY <1>1, <2>8, SameTypes, TypeParts
  <2>10. Alone(t)
    BY <2>1, <2>5 DEF Alone, Goto, MemoryTypes
  <2>11. OthersKeep(t)
    BY <1>1, <1>3, <2>1 DEF OthersKeep, Owns, OwnsRunning, TransitionAllowed
  <2>12. base[t] <= Len(hist[t])
    BY <1>1 DEF BasesFit
  <2>13. BasesFit'
    BY <2>1, <2>10, <2>11, <2>12, BasesKept
  <2>14. QED
    BY <2>9, <2>10, <2>11, <2>13 DEF Shaped
<1>4. QED
  BY <1>2, <1>3 DEF CommitRestored

LEMMA RerunCarriedShaped ==
  ASSUME ShapeInv, NEW t \in Attempt, NEW intent \in journal[t].inflight, RerunCarried(t, intent)
  PROVE  Shaped(t)
<1> USE ShapeParts
<1>1. intent \in Intents
  BY JournalType DEF MemoryTypes
<1>2. intent.call \in Call /\ intent.attempt \in Nat
  BY <1>1 DEF Intents
<1>3. PICK c \in Call, n \in Nat : c = intent.call /\ n = intent.attempt + 1
  BY <1>2
<1>4. calls[t] \in [Call -> CallRecord] /\ calls[t][c] \in CallRecord
  BY DEF MemoryTypes
<1>5. calls' = [calls EXCEPT ![t] = [calls[t] EXCEPT ![c] =
                  [calls[t][c] EXCEPT !.stage = "issued", !.attempt = n]]]
  BY <1>3, <1>4 DEF RerunCarried, MemoryTypes, CallRecord
<1>6. [calls[t][c] EXCEPT !.stage = "issued", !.attempt = n] \in CallRecord
  BY <1>4 DEF CallRecord, CallStage
<1>8. UNCHANGED <<storeVars, pc, loaded, base, hist, journal, known, worldVars>>
  BY DEF RerunCarried
<1>7. calls' \in [Attempt -> [Call -> CallRecord]] /\ journal' \in [Attempt -> Journal]
  BY <1>4, <1>5, <1>6, <1>8 DEF MemoryTypes
<1>9. Alone(t)
  BY <1>5, <1>8 DEF Alone, MemoryTypes
<1>10. QED
  BY <1>7, <1>8, <1>9, InMemoryShaped, SameTypes

LEMMA SettleCarriedShaped ==
  ASSUME ShapeInv, NEW t \in Attempt, NEW intent \in journal[t].inflight, SettleCarried(t, intent)
  PROVE  Shaped(t)
<1>1. intent.call \in Call
  BY JournalType, ShapeParts DEF MemoryTypes, Intents
<1>2. PICK v \in Int : AppendResult(t, intent.call, v)
  BY DEF SettleCarried, Decided, Interrupted
<1>3. QED
  BY <1>1, <1>2, AppendResultShaped DEF SettleCarried

(* An operator's decisions *)

ResolvedBy(decided, decision, version) ==
  /\ ckpt' = IF decided = {} THEN ckpt ELSE
       [ckpt EXCEPT
          !.own = {[call EXCEPT !.version = version] : call \in @},
          !.journal.inflight =
            (@ \ decided) \cup {[i EXCEPT !.resolution = decision[i]] : i \in decided}]
  /\ run' = [WithLease(run, "queued", NoLease) EXCEPT !.checkpointVersion = version]
  /\ reruns' = reruns \cup
        {[call |-> i.call, use |-> i.use, attempt |-> i.attempt] :
           i \in {j \in decided : decision[j] = "rerun"}}

LEMMA ResolveParts ==
  ASSUME ResolveRecovery
  PROVE  /\ run.status = "needs-recovery" /\ Fault
         /\ UNCHANGED <<committed, attemptVars, policy, uses, ran, requests>>
         /\ \E decided \in SUBSET ckpt.journal.inflight :
              /\ \A intent \in ckpt.journal.inflight : AwaitsDecision(intent) => intent \in decided
              /\ \E decision \in [decided -> Decision] :
                   ResolvedBy(decided, decision,
                     IF decided = {} THEN run.checkpointVersion ELSE run.checkpointVersion + 1)
<1>1. PICK decided \in {s \in SUBSET ckpt.journal.inflight :
                          {intent \in ckpt.journal.inflight : AwaitsDecision(intent)} \subseteq s} :
        \E decision \in [decided -> Decision] :
          ResolvedBy(decided, decision,
            IF decided = {} THEN run.checkpointVersion ELSE run.checkpointVersion + 1)
  BY Zenon DEF ResolveRecovery, ResolvedBy
<1>2. QED
  BY <1>1 DEF ResolveRecovery

\* They keep the shape of the checkpoint, and leave the run without an owner.
LEMMA ResolveRecoveryShaped ==
  ASSUME ShapeInv, ResolveRecovery
  PROVE  ShapeInv' /\ UNCHANGED attemptVars /\ run'.lease = NoLease
<1> USE ShapeParts
<1> DEFINE inflight == ckpt.journal.inflight
<1>0. PICK decided \in SUBSET inflight : \E decision \in [decided -> Decision] :
        ResolvedBy(decided, decision,
          IF decided = {} THEN run.checkpointVersion ELSE run.checkpointVersion + 1)
  BY ResolveParts
<1>1. PICK decision \in [decided -> Decision],
           version \in {run.checkpointVersion, run.checkpointVersion + 1} :
        ResolvedBy(decided, decision, version)
  BY <1>0
<1>2. UNCHANGED <<committed, attemptVars, policy, uses, ran, requests>> /\ Fault
  BY DEF ResolveRecovery
<1>3. /\ ckpt \in Checkpoint /\ ckpt.journal \in Journal /\ version \in Nat
      /\ inflight \in SUBSET Intents /\ ckpt.own \in SUBSET Completions
  BY JournalType DEF StoreTypes, Checkpoint, Record
<1>4. {[call EXCEPT !.version = version] : call \in ckpt.own} \in SUBSET Completions
  BY <1>3 DEF Completions
<1>5. {[i EXCEPT !.resolution = decision[i]] : i \in decided} \in SUBSET Intents
  <2>1. ASSUME NEW i \in decided
        PROVE  [i EXCEPT !.resolution = decision[i]] \in Intents
    BY <1>1, <1>3 DEF Intents
  <2>2. QED
    BY <2>1
<1>6. ckpt' \in Checkpoint
  <2> DEFINE own == {[call EXCEPT !.version = version] : call \in ckpt.own}
             rest == (inflight \ decided) \cup {[i EXCEPT !.resolution = decision[i]] : i \in decided}
  <2>1. ckpt' = IF decided = {} THEN ckpt ELSE
                  [ckpt EXCEPT !.own = own, !.journal = [ckpt.journal EXCEPT !.inflight = rest]]
    BY <1>1, <1>3 DEF ResolvedBy, Checkpoint
  <2>2. own \in SUBSET Completions /\ rest \in SUBSET Intents
    BY <1>3, <1>4, <1>5
  <2> HIDE DEF own, rest
  <2>3. [ckpt.journal EXCEPT !.inflight = rest] \in Journal
    BY <1>3, <2>2, JournalType
  <2>4. QED
    BY <1>3, <2>1, <2>2, <2>3 DEF Checkpoint
<1>7. run' \in Record /\ run'.lease = NoLease
  BY <1>1, <1>3, StatusTypes DEF ResolvedBy, WithLease, NoLease, Record, StoreTypes
<1>8. StoreTypes'
  BY <1>1, <1>2, <1>6, <1>7 DEF StoreTypes
<1>9. WorldTypes'
  <2>1. {[call |-> i.call, use |-> i.use, attempt |-> i.attempt] :
           i \in {j \in decided : decision[j] = "rerun"}}
          \subseteq [call : Call, use : Nat, attempt : Nat]
    BY <1>3 DEF Intents
  <2>2. reruns' \subseteq [call : Call, use : Nat, attempt : Nat]
    BY <1>1, <2>1 DEF WorldTypes, ResolvedBy
  <2>3. QED
    BY <1>2, <2>2, FaultType DEF WorldTypes
<1>10. MemoryTypes'
  BY <1>2, SameTypes
<1>11. BasesFit'
  <2>1. \A t \in Attempt : ~Owns(t)'
    BY <1>7, AttemptIsNat DEF Owns, NoLease
  <2>2. QED
    BY <1>2, <2>1 DEF BasesFit, Active
<1>12. QED
  BY <1>2, <1>7, <1>8, <1>9, <1>10, <1>11, TypeParts DEF ShapeInv

LEMMA StepShaped ==
  ASSUME ShapeInv, NEW t \in Attempt,
         CallStep(t) \/ RoundStep(t) \/ RecoveryStep(t) \/ Claim(t) \/ Die(t)
  PROVE  Shaped(t)
<1>1. CASE CallStep(t)
  BY <1>1, BeforeToolShaped, HookParksShaped, HookBlocksShaped, RunEffectShaped, AfterToolShaped
     DEF CallStep
<1>2. CASE RoundStep(t)
  BY <1>2, RequestShaped, FinishRoundShaped, CommitRoundShaped, StopRoundShaped,
     RequestFailsShaped, CompleteShaped DEF RoundStep
<1>3. CASE RecoveryStep(t)
  BY <1>3, LoadCheckpointShaped, PrepareShaped, StartShaped, CommitRestoredShaped,
     RerunCarriedShaped, SettleCarriedShaped DEF RecoveryStep
<1>4. QED
  BY <1>1, <1>2, <1>3, ClaimShaped, DieShaped

LEMMA StepShape == ShapeInv /\ [Next]_vars => ShapeInv'
<1> SUFFICES ASSUME ShapeInv, [Next]_vars PROVE ShapeInv'
  OBVIOUS
<1>1. CASE UNCHANGED vars
  <2>1. TypeOK'
    BY <1>1, ShapeParts, SameTypes, TypeParts
  <2>2. BasesFit'
    BY <1>1, ShapeParts DEF BasesFit, Active, Owns
  <2>3. QED
    BY <2>1, <2>2 DEF ShapeInv
<1>2. CASE ResolveRecovery
  BY <1>2, ResolveRecoveryShaped
<1>3. ASSUME NEW t \in Attempt,
             CallStep(t) \/ RoundStep(t) \/ RecoveryStep(t) \/ Claim(t) \/ Die(t)
      PROVE  ShapeInv'
  BY <1>3, StepShaped DEF Shaped, ShapeInv
<1>4. QED
  BY <1>1, <1>2, <1>3 DEF Next

\* Every variable of a durable turn keeps its shape, through any order of its
\* attempts' steps, crashes, claims and operator decisions.
THEOREM TypeCorrect == Spec => []TypeOK
<1>1. ShapeInv => TypeOK
  BY DEF ShapeInv
<1>2. QED
  BY <1>1, InitType, StepShape, PTL DEF Spec

-----------------------------------------------------------------------------
(* What is said of one call, one journal and one history *)

StrictPolicy == {"interrupt", "manual-recovery"}

\* A use of a call the model made; a repetition was decided on by an operator.
CallOK(c, u, n, used, again, pol) ==
  /\ u <= used[c]
  /\ n >= 1
  /\ pol[c] \in StrictPolicy /\ n > 1 => [call |-> c, use |-> u, attempt |-> n - 1] \in again

\* A journal names a call once, as unfinished or as finished.
WellFormed(j) ==
  /\ \A i, k \in j.inflight : i.call = k.call => i = k
  /\ \A r, s \in j.results : r.call = s.call => r = s
  /\ \A i \in j.inflight, r \in j.results : i.call # r.call

IntentOK(i, used, again, pol) ==
  /\ CallOK(i.call, i.use, i.attempt, used, again, pol)
  /\ i.policy \in {pol[i.call], "manual-recovery"}
  /\ i.resolution = "rerun" => [call |-> i.call, use |-> i.use, attempt |-> i.attempt] \in again

JournalOK(j, used, again, pol) ==
  /\ WellFormed(j)
  /\ \A i \in j.inflight : IntentOK(i, used, again, pol)
  /\ \A r \in j.results : r.use <= used[r.call]

PutIntent(j, i) ==
  [j EXCEPT !.inflight = (@ \ {k \in @ : k.call = i.call}) \cup {i}]

PutResult(j, r) ==
  [inflight |-> j.inflight \ {k \in j.inflight : k.call = r.call},
   results  |-> j.results \cup {r}]

Grows(used, used2, again, again2) ==
  /\ \A c \in Call : used[c] <= used2[c]
  /\ again \subseteq again2

LEMMA CallOKGrows ==
  ASSUME NEW c \in Call, NEW u \in Nat, NEW n, NEW pol,
         NEW used \in [Call -> Nat], NEW used2 \in [Call -> Nat], NEW again, NEW again2,
         Grows(used, used2, again, again2), CallOK(c, u, n, used, again, pol)
  PROVE  CallOK(c, u, n, used2, again2, pol)
<1>1. used[c] <= used2[c] /\ used[c] \in Nat /\ used2[c] \in Nat
  BY DEF Grows
<1>2. QED
  BY <1>1 DEF Grows, CallOK

LEMMA IntentOKGrows ==
  ASSUME NEW i \in Intents, NEW pol,
         NEW used \in [Call -> Nat], NEW used2 \in [Call -> Nat], NEW again, NEW again2,
         Grows(used, used2, again, again2), IntentOK(i, used, again, pol)
  PROVE  IntentOK(i, used2, again2, pol)
<1>1. i.call \in Call /\ i.use \in Nat
  BY DEF Intents
<1>2. CallOK(i.call, i.use, i.attempt, used2, again2, pol)
  BY <1>1, CallOKGrows DEF IntentOK
<1>3. QED
  BY <1>2 DEF IntentOK, Grows

LEMMA JournalOKGrows ==
  ASSUME NEW j \in Journal, NEW pol,
         NEW used \in [Call -> Nat], NEW used2 \in [Call -> Nat], NEW again, NEW again2,
         Grows(used, used2, again, again2), JournalOK(j, used, again, pol)
  PROVE  JournalOK(j, used2, again2, pol)
<1>1. j.inflight \in SUBSET Intents /\ j.results \in SUBSET Results
  BY JournalType
<1>2. \A i \in j.inflight : IntentOK(i, used2, again2, pol)
  BY <1>1, IntentOKGrows DEF JournalOK
<1>3. ASSUME NEW r \in j.results PROVE r.use <= used2[r.call]
  <2>1. r.call \in Call /\ r.use \in Nat
    BY <1>1 DEF Results
  <2>2. r.use <= used[r.call] /\ used[r.call] <= used2[r.call]
    BY <2>1 DEF JournalOK, Grows
  <2>3. used[r.call] \in Nat /\ used2[r.call] \in Nat
    BY <2>1
  <2>4. QED
    BY <2>1, <2>2, <2>3
<1>4. QED
  BY <1>2, <1>3 DEF JournalOK

LEMMA PutIntentOK ==
  ASSUME NEW j \in Journal, NEW i \in Intents, NEW pol, NEW used, NEW again,
         JournalOK(j, used, again, pol), IntentOK(i, used, again, pol),
         \A r \in j.results : r.call # i.call
  PROVE  PutIntent(j, i) \in Journal /\ JournalOK(PutIntent(j, i), used, again, pol)
<1>1. j = [inflight |-> j.inflight, results |-> j.results]
  BY JournalType
<1>2. /\ PutIntent(j, i).results = j.results
      /\ PutIntent(j, i).inflight = (j.inflight \ {k \in j.inflight : k.call = i.call}) \cup {i}
      /\ PutIntent(j, i) \in Journal
  BY <1>1, JournalType DEF PutIntent
<1>3. QED
  BY <1>2 DEF JournalOK, WellFormed

LEMMA PutResultOK ==
  ASSUME NEW j \in Journal, NEW r \in Results, NEW pol, NEW used, NEW again,
         JournalOK(j, used, again, pol), r.use <= used[r.call],
         \A s \in j.results : s.call # r.call
  PROVE  PutResult(j, r) \in Journal /\ JournalOK(PutResult(j, r), used, again, pol)
<1>1. /\ PutResult(j, r).results = j.results \cup {r}
      /\ PutResult(j, r).inflight = j.inflight \ {k \in j.inflight : k.call = r.call}
      /\ PutResult(j, r) \in Journal
  BY JournalType DEF PutResult
<1>2. QED
  BY <1>1 DEF JournalOK, WellFormed

LEMMA EmptyJournalOK ==
  ASSUME NEW used, NEW again, NEW pol
  PROVE  JournalOK(EmptyJournal, used, again, pol)
  BY DEF EmptyJournal, JournalOK, WellFormed

-----------------------------------------------------------------------------
(* What an attempt has in memory, whoever owns the run *)

NoCalls == [c \in Call |-> NoCall]

Memory(t) ==
  /\ ~InRound(t) => calls[t] = NoCalls /\ journal[t].inflight = {}
  /\ ~InRound(t) /\ pc[t] # "commit" => journal[t].results = {}
  /\ ~Active(t) => known[t] = NothingRead
  /\ \A i \in journal[t].inflight :
       /\ calls[t][i.call].stage \notin {"none", "done"}
       /\ calls[t][i.call].use = i.use
       /\ i.attempt <= calls[t][i.call].attempt
  /\ InRound(t) => \A r \in journal[t].results :
       /\ calls[t][r.call].stage = "done"
       /\ calls[t][r.call].use = r.use
       /\ calls[t][r.call].value = r.value
  /\ \A c \in Call :
       /\ calls[t][c].stage = "done" => \E r \in journal[t].results : r.call = c
       /\ calls[t][c].stage # "none" =>
            CallOK(c, calls[t][c].use, calls[t][c].attempt, uses, reruns, policy)

RanOK == \A e \in ran : CallOK(e.call, e.use, e.attempt, uses, reruns, policy)

CallsInv ==
  /\ JournalOK(ckpt.journal, uses, reruns, policy)
  /\ \A t \in Attempt :
       /\ JournalOK(loaded[t].journal, uses, reruns, policy)
       /\ JournalOK(journal[t], uses, reruns, policy)
       /\ Memory(t)
  /\ RanOK

LEMMA InitCalls == Init => CallsInv
<1> SUFFICES ASSUME Init PROVE CallsInv
  OBVIOUS
<1>1. /\ ckpt = NoCheckpoint /\ ran = {}
      /\ \A t \in Attempt : /\ loaded[t] = NoCheckpoint /\ journal[t] = EmptyJournal
                            /\ calls[t] = NoCalls /\ known[t] = NothingRead
                            /\ pc[t] \in {"request", "unborn"}
  BY DEF Init, NoCalls
<1>2. NoCheckpoint.journal = EmptyJournal /\ EmptyJournal.inflight = {} /\ EmptyJournal.results = {}
  BY DEF NoCheckpoint, EmptyJournal
<1>3. \A c \in Call : NoCalls[c].stage = "none"
  BY DEF NoCalls, NoCall
<1>4. \A t \in Attempt : Memory(t)
  BY <1>1, <1>2, <1>3 DEF Memory, InRound, Active
<1>5. QED
  BY <1>1, <1>2, <1>4, EmptyJournalOK DEF CallsInv, RanOK

LEMMA OthersMemory ==
  ASSUME ShapeInv, CallsInv, NEW t \in Attempt, NEW s \in Attempt \ {t}, Alone(t),
         policy' = policy, uses' \in [Call -> Nat], Grows(uses, uses', reruns, reruns')
  PROVE  /\ JournalOK(loaded[s].journal, uses, reruns, policy)'
         /\ JournalOK(journal[s], uses, reruns, policy)'
         /\ Memory(s)'
<1> USE ShapeParts
<1>1. /\ pc'[s] = pc[s] /\ loaded'[s] = loaded[s] /\ journal'[s] = journal[s]
      /\ known'[s] = known[s] /\ calls'[s] = calls[s]
  BY DEF Alone
<1>2. /\ JournalOK(loaded[s].journal, uses, reruns, policy)
      /\ JournalOK(journal[s], uses, reruns, policy)
      /\ Memory(s)
  BY DEF CallsInv
<1>3. uses \in [Call -> Nat] /\ loaded[s].journal \in Journal /\ journal[s] \in Journal
  BY DEF WorldTypes, MemoryTypes, Checkpoint
<1>4. /\ JournalOK(loaded[s].journal, uses', reruns', policy)
      /\ JournalOK(journal[s], uses', reruns', policy)
  BY <1>2, <1>3, JournalOKGrows
<1>5. ASSUME NEW c \in Call, calls[s][c].stage # "none"
      PROVE  CallOK(c, calls[s][c].use, calls[s][c].attempt, uses', reruns', policy)
  <2>1. calls[s][c].use \in Nat
    BY DEF MemoryTypes, CallRecord
  <2>2. CallOK(c, calls[s][c].use, calls[s][c].attempt, uses, reruns, policy)
    BY <1>2, <1>5 DEF Memory
  <2>3. QED
    BY <1>3, <2>1, <2>2, CallOKGrows
<1>6. Memory(s)'
  BY <1>1, <1>2, <1>5 DEF Memory, InRound, Active
<1>7. QED
  BY <1>1, <1>4, <1>6

LEMMA RanKept ==
  ASSUME ShapeInv, RanOK, UNCHANGED <<policy, ran>>,
         uses' \in [Call -> Nat], Grows(uses, uses', reruns, reruns')
  PROVE  RanOK'
<1> USE ShapeParts
<1>1. ASSUME NEW e \in ran
      PROVE  CallOK(e.call, e.use, e.attempt, uses', reruns', policy)
  <2>1. e.call \in Call /\ e.use \in Nat /\ uses \in [Call -> Nat]
    BY DEF WorldTypes
  <2>2. QED
    BY <2>1, CallOKGrows DEF RanOK
<1>2. QED
  BY <1>1 DEF RanOK

LEMMA CallsKept ==
  ASSUME ShapeInv, CallsInv, NEW t \in Attempt, Alone(t), policy' = policy,
         uses' \in [Call -> Nat], Grows(uses, uses', reruns, reruns'),
         JournalOK(ckpt.journal, uses, reruns, policy)',
         JournalOK(loaded[t].journal, uses, reruns, policy)',
         JournalOK(journal[t], uses, reruns, policy)',
         Memory(t)', RanOK'
  PROVE  CallsInv'
  BY OthersMemory DEF CallsInv

\* A step within an attempt, which only changes its memory.
LEMMA SameWorld ==
  ASSUME ShapeInv, CallsInv, UNCHANGED <<policy, uses, ran, reruns>>
  PROVE  /\ uses' \in [Call -> Nat] /\ Grows(uses, uses', reruns, reruns')
         /\ RanOK' /\ policy' = policy
<1>1. uses \in [Call -> Nat]
  BY ShapeParts DEF WorldTypes
<1>2. \A c \in Call : uses[c] \in Nat /\ uses[c] <= uses[c]
  BY <1>1
<1>3. QED
  BY <1>1, <1>2 DEF Grows, CallsInv, RanOK

-----------------------------------------------------------------------------
(* The steps of a call, in memory *)

\* The call has begun and has no outcome yet.
Unfinished(t, c) == InRound(t) /\ calls[t][c].stage \notin {"none", "done"}

IntentFor(t, c, p) ==
  [call |-> c, use |-> calls[t][c].use, attempt |-> calls[t][c].attempt,
   policy |-> p, resolution |-> Undecided]

\* Call c of attempt t is now at stage s, with value v.
Moved(t, c, s, v) ==
  /\ calls'[t][c].stage = s /\ calls'[t][c].value = v
  /\ calls'[t][c].use = calls[t][c].use /\ calls'[t][c].attempt = calls[t][c].attempt
  /\ \A d \in Call \ {c} : calls'[t][d] = calls[t][d]

LEMMA StageMoved ==
  ASSUME MemoryTypes, NEW t \in Attempt, NEW c \in Call, NEW s,
         SetStage(t, c, s) \/ calls' = [calls EXCEPT ![t][c] = [calls[t][c] EXCEPT !.stage = s]]
  PROVE  Moved(t, c, s, calls[t][c].value)
<1>1. calls[t] \in [Call -> CallRecord] /\ calls[t][c] \in CallRecord
  BY DEF MemoryTypes
<1>2. calls' = [calls EXCEPT ![t] = [calls[t] EXCEPT ![c] = [calls[t][c] EXCEPT !.stage = s]]]
  BY DEF SetStage
<1>3. calls'[t] = [calls[t] EXCEPT ![c] = [calls[t][c] EXCEPT !.stage = s]]
  BY <1>2 DEF MemoryTypes
<1>4. calls'[t][c] = [calls[t][c] EXCEPT !.stage = s] /\ \A d \in Call \ {c} : calls'[t][d] = calls[t][d]
  BY <1>1, <1>3
<1>5. QED
  BY <1>1, <1>4 DEF Moved, CallRecord

LEMMA DoneMoved ==
  ASSUME MemoryTypes, NEW t \in Attempt, NEW c \in Call, NEW v \in Int,
         calls' = [calls EXCEPT ![t][c] = [calls[t][c] EXCEPT !.stage = "done", !.value = v]]
  PROVE  Moved(t, c, "done", v)
<1>1. calls[t] \in [Call -> CallRecord] /\ calls[t][c] \in CallRecord
  BY DEF MemoryTypes
<1>2. PICK rec \in CallRecord : rec = calls[t][c]
  BY <1>1
<1> DEFINE next == [rec EXCEPT !.stage = "done", !.value = v]
<1>3. calls' = [calls EXCEPT ![t][c] = next]
  BY <1>2, Zenon
<1>6. next.stage = "done" /\ next.value = v /\ next.use = rec.use /\ next.attempt = rec.attempt
  BY DEF CallRecord, CallStage
<1> HIDE DEF next
<1>4. calls'[t] = [calls[t] EXCEPT ![c] = next]
  BY <1>3 DEF MemoryTypes
<1>5. calls'[t][c] = next /\ \A d \in Call \ {c} : calls'[t][d] = calls[t][d]
  BY <1>1, <1>4
<1>7. QED
  BY <1>2, <1>5, <1>6 DEF Moved

LEMMA RanMoved ==
  ASSUME MemoryTypes, NEW t \in Attempt, NEW c \in Call, RunEffect(t, c)
  PROVE  Moved(t, c, "ran", calls[t][c].attempt)
<1>1. calls[t] \in [Call -> CallRecord] /\ calls[t][c] \in CallRecord
  BY DEF MemoryTypes
<1>2. calls' = [calls EXCEPT ![t] = [calls[t] EXCEPT ![c] =
                  [calls[t][c] EXCEPT !.stage = "ran", !.value = calls[t][c].attempt]]]
  BY <1>1 DEF RunEffect, MemoryTypes, CallRecord
<1>3. calls'[t] = [calls[t] EXCEPT ![c] = [calls[t][c] EXCEPT !.stage = "ran", !.value = calls[t][c].attempt]]
  BY <1>2 DEF MemoryTypes
<1>4. /\ calls'[t][c] = [calls[t][c] EXCEPT !.stage = "ran", !.value = calls[t][c].attempt]
      /\ \A d \in Call \ {c} : calls'[t][d] = calls[t][d]
  BY <1>1, <1>3
<1>5. QED
  BY <1>1, <1>4 DEF Moved, CallRecord

\* No outcome of an unfinished call is in the journal.
LEMMA NoResultYet ==
  ASSUME CallsInv, NEW t \in Attempt, NEW c \in Call, Unfinished(t, c)
  PROVE  \A r \in journal[t].results : r.call # c
  BY DEF CallsInv, Memory, Unfinished

LEMMA WithIntentOK ==
  ASSUME ShapeInv, CallsInv, NEW t \in Attempt, NEW c \in Call, Unfinished(t, c),
         NEW p \in {policy[c], "manual-recovery"}
  PROVE  /\ IntentFor(t, c, p) \in Intents
         /\ WithIntent(t, c, p) = PutIntent(journal[t], IntentFor(t, c, p))
         /\ WithIntent(t, c, p) \in Journal
         /\ JournalOK(WithIntent(t, c, p), uses, reruns, policy)
<1> USE ShapeParts
<1> DEFINE i == IntentFor(t, c, p)
<1>1. calls[t][c] \in CallRecord /\ journal[t] \in Journal /\ p \in Policy
  BY PolicyTypes DEF MemoryTypes
<1>2. i \in Intents
  BY <1>1 DEF IntentFor, Intents, CallRecord
<1>3. IntentOK(i, uses, reruns, policy)
  BY DEF CallsInv, Memory, Unfinished, IntentFor, IntentOK, Undecided
<1>4. /\ WithIntent(t, c, p) = PutIntent(journal[t], i) /\ i.call = c
  BY DEF WithIntent, PutIntent, IntentFor, IntentOf
<1>5. \A r \in journal[t].results : r.call # i.call
  BY <1>4, NoResultYet
<1>6. JournalOK(journal[t], uses, reruns, policy)
  BY DEF CallsInv
<1> HIDE DEF i
<1>7. PutIntent(journal[t], i) \in Journal /\ JournalOK(PutIntent(journal[t], i), uses, reruns, policy)
  BY <1>1, <1>2, <1>3, <1>5, <1>6, PutIntentOK
<1>8. QED
  BY <1>2, <1>4, <1>7 DEF i

LEMMA WithResultOK ==
  ASSUME ShapeInv, CallsInv, NEW t \in Attempt, NEW c \in Call, Unfinished(t, c), NEW v \in Int
  PROVE  /\ WithResult(t, c, v) = PutResult(journal[t], Result(t, c, v))
         /\ WithResult(t, c, v) \in Journal
         /\ JournalOK(WithResult(t, c, v), uses, reruns, policy)
<1> USE ShapeParts
<1>1. Result(t, c, v) \in Results /\ journal[t] \in Journal
  BY ResultTypes DEF MemoryTypes
<1>2. Result(t, c, v).call = c /\ Result(t, c, v).use = calls[t][c].use
  BY DEF Result
<1>3. WithResult(t, c, v) = PutResult(journal[t], Result(t, c, v))
  BY <1>2 DEF WithResult, PutResult, IntentOf
<1>4. calls[t][c].use <= uses[c] /\ JournalOK(journal[t], uses, reruns, policy)
  BY DEF CallsInv, Memory, Unfinished, CallOK
<1>5. \A s \in journal[t].results : s.call # c
  BY NoResultYet
<1>6. /\ PutResult(journal[t], Result(t, c, v)) \in Journal
      /\ JournalOK(PutResult(journal[t], Result(t, c, v)), uses, reruns, policy)
  BY <1>1, <1>2, <1>4, <1>5, PutResultOK
<1>7. QED
  BY <1>3, <1>6

\* The call moves on, and its intent is recorded anew or not at all.
LEMMA MovesInMemory ==
  ASSUME ShapeInv, CallsInv, NEW t \in Attempt, NEW c \in Call, Unfinished(t, c),
         NEW s, NEW v, s \notin {"none", "done"}, Moved(t, c, s, v),
         UNCHANGED <<pc, policy, uses, reruns>>,
         \/ journal'[t] = journal[t]
         \/ \E p \in Policy : journal'[t] = PutIntent(journal[t], IntentFor(t, c, p))
  PROVE  Memory(t)'
<1> USE ShapeParts
<1>1. Memory(t) /\ InRound(t) /\ Active(t)
  BY DEF CallsInv, Unfinished, Active, InRound
<1>2. InRound(t)' /\ Active(t)'
  BY <1>1 DEF InRound, Active
<1>3. /\ journal[t] \in Journal /\ calls[t][c] \in CallRecord
      /\ \A r \in journal[t].results : r.call \in Call /\ r.call # c
      /\ \A i \in journal[t].inflight : i.call \in Call
  BY NoResultYet, JournalType DEF MemoryTypes, Results, Intents
<1>4. journal'[t].results = journal[t].results
  BY <1>3, JournalType DEF PutIntent
<1>5. ASSUME NEW i \in journal'[t].inflight
      PROVE  /\ calls'[t][i.call].stage \notin {"none", "done"}
             /\ calls'[t][i.call].use = i.use
             /\ i.attempt <= calls'[t][i.call].attempt
  <2>1. \/ i \in journal[t].inflight
        \/ i.call = c /\ i.use = calls[t][c].use /\ i.attempt = calls[t][c].attempt
    <3>1. CASE journal'[t] = journal[t]
      BY <3>1
    <3>2. CASE \E p \in Policy : journal'[t] = PutIntent(journal[t], IntentFor(t, c, p))
      <4>1. PICK p \in Policy : journal'[t] = PutIntent(journal[t], IntentFor(t, c, p))
        BY <3>2
      <4>2. journal'[t].inflight = (journal[t].inflight \ {k \in journal[t].inflight : k.call = c})
                                     \cup {IntentFor(t, c, p)}
        BY <1>3, <4>1, JournalType DEF PutIntent, IntentFor
      <4>3. QED
        BY <4>2 DEF IntentFor
    <3>3. QED
      BY <3>1, <3>2
  <2>2. calls[t][c].attempt \in Nat
    BY <1>3 DEF CallRecord
  <2>3. CASE i \in journal[t].inflight
    BY <1>1, <1>3, <2>3 DEF Memory, Moved
  <2>4. CASE i.call = c /\ i.use = calls[t][c].use /\ i.attempt = calls[t][c].attempt
    BY <2>2, <2>4 DEF Moved
  <2>5. QED
    BY <2>1, <2>3, <2>4
<1>6. \A r \in journal'[t].results :
        /\ calls'[t][r.call].stage = "done"
        /\ calls'[t][r.call].use = r.use
        /\ calls'[t][r.call].value = r.value
  BY <1>1, <1>3, <1>4 DEF Memory, Moved
<1>7. ASSUME NEW d \in Call
      PROVE  /\ calls'[t][d].stage = "done" => \E r \in journal'[t].results : r.call = d
             /\ calls'[t][d].stage # "none" =>
                  CallOK(d, calls'[t][d].use, calls'[t][d].attempt, uses, reruns, policy)
  BY <1>1, <1>4 DEF Memory, Moved, Unfinished
<1>8. QED
  BY <1>2, <1>5, <1>6, <1>7 DEF Memory

LEMMA DoneInMemory ==
  ASSUME ShapeInv, CallsInv, NEW t \in Attempt, NEW c \in Call, Unfinished(t, c),
         NEW v \in Int, Moved(t, c, "done", v),
         UNCHANGED <<pc, policy, uses, reruns>>,
         journal'[t] = PutResult(journal[t], Result(t, c, v))
  PROVE  Memory(t)'
<1> USE ShapeParts
<1>1. Memory(t) /\ InRound(t)' /\ Active(t)' /\ InRound(t)
  BY DEF CallsInv, Unfinished, Active, InRound
<1>2. /\ \A r \in journal[t].results : r.call \in Call /\ r.call # c
      /\ \A i \in journal[t].inflight : i.call \in Call
  BY NoResultYet, JournalType DEF MemoryTypes, Results, Intents
<1>3. /\ journal'[t].results = journal[t].results \cup {Result(t, c, v)}
      /\ journal'[t].inflight = journal[t].inflight \ {k \in journal[t].inflight : k.call = c}
      /\ Result(t, c, v).call = c /\ Result(t, c, v).use = calls[t][c].use /\ Result(t, c, v).value = v
  BY DEF PutResult, Result
<1>4. \A i \in journal'[t].inflight :
        /\ calls'[t][i.call].stage \notin {"none", "done"}
        /\ calls'[t][i.call].use = i.use
        /\ i.attempt <= calls'[t][i.call].attempt
  BY <1>1, <1>2, <1>3 DEF Memory, Moved
<1>5. \A r \in journal'[t].results :
        /\ calls'[t][r.call].stage = "done"
        /\ calls'[t][r.call].use = r.use
        /\ calls'[t][r.call].value = r.value
  BY <1>1, <1>2, <1>3 DEF Memory, Moved
<1>6. ASSUME NEW d \in Call
      PROVE  /\ calls'[t][d].stage = "done" => \E r \in journal'[t].results : r.call = d
             /\ calls'[t][d].stage # "none" =>
                  CallOK(d, calls'[t][d].use, calls'[t][d].attempt, uses, reruns, policy)
  BY <1>1, <1>3 DEF Memory, Moved, Unfinished
<1>7. QED
  BY <1>1, <1>4, <1>5, <1>6 DEF Memory

-----------------------------------------------------------------------------
(* An append lands, or the call fails *)

Landed(t, c, phase, own, next, landed) ==
  /\ ~Fenced(t)
  /\ Store(t, phase, own, next)
  /\ journal' = [journal EXCEPT ![t] = next]
  /\ SetKnown(t, KnownCompleted(t) \cup own)
  /\ calls' = [calls EXCEPT ![t][c] = landed]

\* A write that failed may still have taken effect.
Failed(t, c, phase, own, next) ==
  /\ SetStage(t, c, "failed")
  /\ SetKnown(t, KnownCompleted(t))
  /\ UNCHANGED journal
  /\ \/ UNCHANGED <<run, ckpt>>
     \/ LostAnswers /\ ~Fenced(t) /\ Store(t, phase, own, next)

LEMMA AppendCases ==
  ASSUME NEW t, NEW c, NEW phase, NEW own, NEW next, NEW landed,
         AppendTo(t, c, phase, own, next, landed)
  PROVE  Landed(t, c, phase, own, next, landed) \/ Failed(t, c, phase, own, next)
  BY DEF AppendTo, Landed, Failed

LEMMA AppendCalls ==
  ASSUME ShapeInv, CallsInv, NEW t \in Attempt, NEW c \in Call, Unfinished(t, c),
         NEW phase, NEW own, NEW next \in Journal, NEW landed,
         AppendTo(t, c, phase, own, next, landed), Alone(t),
         JournalOK(next, uses, reruns, policy),
         UNCHANGED <<pc, loaded, policy, uses, ran, reruns>>,
         Landed(t, c, phase, own, next, landed) => Memory(t)'
  PROVE  CallsInv'
<1> USE ShapeParts
<1>1. \/ Landed(t, c, phase, own, next, landed)
      \/ Failed(t, c, phase, own, next)
  BY AppendCases
<1>2. ASSUME Failed(t, c, phase, own, next)
      PROVE  Memory(t)'
  <2>1. Moved(t, c, "failed", calls[t][c].value)
    BY <1>2, StageMoved DEF Failed
  <2>2. QED
    BY <1>2, <2>1, MovesInMemory DEF Failed
<1>3. Memory(t)'
  BY <1>1, <1>2
<1>4. ckpt'.journal = ckpt.journal \/ ckpt'.journal = next
  BY <1>1 DEF Landed, Failed, Store
<1>5. journal'[t] = journal[t] \/ journal'[t] = next
  BY <1>1 DEF Landed, Failed, MemoryTypes
<1>6. /\ JournalOK(ckpt.journal, uses, reruns, policy)'
      /\ JournalOK(loaded[t].journal, uses, reruns, policy)'
      /\ JournalOK(journal[t], uses, reruns, policy)'
  <2>1. /\ JournalOK(ckpt'.journal, uses, reruns, policy)
        /\ JournalOK(loaded[t].journal, uses, reruns, policy)
        /\ JournalOK(journal'[t], uses, reruns, policy)
    BY <1>4, <1>5 DEF CallsInv
  <2>2. QED
    BY <2>1
<1>7. QED
  BY <1>3, <1>6, SameWorld, CallsKept

LEMMA AppendIntentCalls ==
  ASSUME ShapeInv, CallsInv, NEW t \in Attempt, NEW c \in Call, Unfinished(t, c),
         NEW p \in {policy[c], "manual-recovery"}, NEW s \in CallStage \ {"none", "done"},
         AppendIntent(t, c, p, s), Alone(t),
         UNCHANGED <<pc, loaded, policy, uses, ran, reruns>>
  PROVE  CallsInv'
<1> USE ShapeParts
<1> DEFINE next == WithIntent(t, c, p)
           landed == [calls[t][c] EXCEPT !.stage = s]
<1>1. next \in Journal /\ JournalOK(next, uses, reruns, policy) /\ next = PutIntent(journal[t], IntentFor(t, c, p))
  BY WithIntentOK
<1>2. ASSUME Landed(t, c, "before-tool", {}, next, landed)
      PROVE  Memory(t)'
  <2>1. Moved(t, c, s, calls[t][c].value)
    BY <1>2, StageMoved DEF Landed
  <2>2. journal'[t] = PutIntent(journal[t], IntentFor(t, c, p)) /\ p \in Policy
    BY <1>1, <1>2, PolicyTypes DEF Landed, MemoryTypes
  <2>3. QED
    BY <2>1, <2>2, MovesInMemory
<1>3. AppendTo(t, c, "before-tool", {}, next, landed)
  BY DEF AppendIntent
<1> HIDE DEF next, landed
<1>4. QED
  BY <1>1, <1>2, <1>3, AppendCalls

LEMMA AppendResultCalls ==
  ASSUME ShapeInv, CallsInv, NEW t \in Attempt, NEW c \in Call, Unfinished(t, c),
         NEW v \in Int, AppendResult(t, c, v), Alone(t),
         UNCHANGED <<pc, loaded, policy, uses, ran, reruns>>
  PROVE  CallsInv'
<1> USE ShapeParts
<1> DEFINE next == WithResult(t, c, v)
           landed == [calls[t][c] EXCEPT !.stage = "done", !.value = v]
           own == {Completion(Result(t, c, v))}
<1>1. next \in Journal /\ JournalOK(next, uses, reruns, policy) /\ next = PutResult(journal[t], Result(t, c, v))
  BY WithResultOK
<1>2. ASSUME Landed(t, c, "after-tool", own, next, landed)
      PROVE  Memory(t)'
  <2>1. Moved(t, c, "done", v)
    BY <1>2, DoneMoved DEF Landed
  <2>2. journal'[t] = PutResult(journal[t], Result(t, c, v))
    BY <1>1, <1>2 DEF Landed, MemoryTypes
  <2>3. QED
    BY <2>1, <2>2, DoneInMemory
<1>3. AppendTo(t, c, "after-tool", own, next, landed)
  BY DEF AppendResult
<1> HIDE DEF next, landed, own
<1>4. QED
  BY <1>1, <1>2, <1>3, AppendCalls

LEMMA UnfinishedStages ==
  ASSUME NEW t, NEW c, InRound(t), calls[t][c].stage \in {"issued", "ready", "ran", "carried"}
  PROVE  Unfinished(t, c)
  BY DEF Unfinished

LEMMA BeforeToolCalls ==
  ASSUME ShapeInv, CallsInv, NEW t \in Attempt, NEW c \in Call, BeforeTool(t, c)
  PROVE  CallsInv'
<1> USE ShapeParts
<1>1. Alone(t) /\ Unfinished(t, c) /\ UNCHANGED <<pc, loaded, policy, uses, ran, reruns>>
  BY BeforeToolShaped, UnfinishedStages DEF BeforeTool, Shaped
<1>2. CASE Staged(policy[c])
  <2>1. /\ journal' = [journal EXCEPT ![t] = WithIntent(t, c, policy[c])]
        /\ SetStage(t, c, "ready") /\ UNCHANGED ckpt
    BY <1>2 DEF BeforeTool
  <2>2. /\ JournalOK(WithIntent(t, c, policy[c]), uses, reruns, policy)
        /\ WithIntent(t, c, policy[c]) = PutIntent(journal[t], IntentFor(t, c, policy[c]))
    BY <1>1, WithIntentOK
  <2>3. Moved(t, c, "ready", calls[t][c].value)
    BY <2>1, StageMoved
  <2>4. journal'[t] = WithIntent(t, c, policy[c]) /\ policy[c] \in Policy
    BY <2>1, PolicyTypes DEF MemoryTypes
  <2>5. Memory(t)'
    BY <1>1, <2>2, <2>3, <2>4, MovesInMemory
  <2>6. /\ JournalOK(ckpt.journal, uses, reruns, policy)'
        /\ JournalOK(loaded[t].journal, uses, reruns, policy)'
        /\ JournalOK(journal[t], uses, reruns, policy)'
    BY <1>1, <2>1, <2>2, <2>4 DEF CallsInv
  <2>7. QED
    BY <1>1, <2>5, <2>6, SameWorld, CallsKept
<1>3. CASE ~Staged(policy[c])
  <2>1. AppendIntent(t, c, policy[c], "ready") /\ "ready" \in CallStage \ {"none", "done"}
    BY <1>3 DEF BeforeTool, CallStage
  <2>2. QED
    BY <1>1, <2>1, AppendIntentCalls
<1>4. QED
  BY <1>2, <1>3

LEMMA HookParksCalls ==
  ASSUME ShapeInv, CallsInv, NEW t \in Attempt, NEW c \in Call, HookParks(t, c)
  PROVE  CallsInv'
<1> USE ShapeParts
<1>1. Alone(t) /\ Unfinished(t, c) /\ UNCHANGED <<pc, loaded, policy, uses, ran, reruns>>
  BY HookParksShaped, UnfinishedStages DEF HookParks, Shaped
<1>2. CASE policy[c] = "manual-recovery"
  <2>1. SetStage(t, c, "parked") /\ UNCHANGED <<ckpt, journal>>
    BY <1>2 DEF HookParks
  <2>2. Moved(t, c, "parked", calls[t][c].value)
    BY <2>1, StageMoved
  <2>3. Memory(t)'
    BY <1>1, <2>1, <2>2, MovesInMemory
  <2>4. /\ JournalOK(ckpt.journal, uses, reruns, policy)'
        /\ JournalOK(loaded[t].journal, uses, reruns, policy)'
        /\ JournalOK(journal[t], uses, reruns, policy)'
    BY <1>1, <2>1 DEF CallsInv
  <2>5. QED
    BY <1>1, <2>3, <2>4, SameWorld, CallsKept
<1>3. CASE policy[c] # "manual-recovery"
  <2>1. AppendIntent(t, c, "manual-recovery", "parked") /\ "parked" \in CallStage \ {"none", "done"}
    BY <1>3 DEF HookParks, CallStage
  <2>2. QED
    BY <1>1, <2>1, AppendIntentCalls
<1>4. QED
  BY <1>2, <1>3

LEMMA HookBlocksCalls ==
  ASSUME ShapeInv, CallsInv, NEW t \in Attempt, NEW c \in Call, HookBlocks(t, c)
  PROVE  CallsInv'
<1>1. Alone(t) /\ Unfinished(t, c) /\ UNCHANGED <<pc, loaded, policy, uses, ran, reruns>>
  BY HookBlocksShaped, UnfinishedStages DEF HookBlocks, Shaped
<1>2. AppendResult(t, c, Blocked) /\ Blocked \in Int
  BY DEF HookBlocks, Blocked
<1>3. QED
  BY <1>1, <1>2, AppendResultCalls

LEMMA AfterToolCalls ==
  ASSUME ShapeInv, CallsInv, NEW t \in Attempt, NEW c \in Call, AfterTool(t, c)
  PROVE  CallsInv'
<1>1. Alone(t) /\ Unfinished(t, c) /\ UNCHANGED <<pc, loaded, policy, uses, ran, reruns>>
  BY AfterToolShaped, UnfinishedStages DEF AfterTool, Shaped
<1>2. calls[t][c].value \in Int /\ AppendResult(t, c, calls[t][c].value)
  BY ShapeParts DEF MemoryTypes, CallRecord, AfterTool
<1>3. QED
  BY <1>1, <1>2, AppendResultCalls

LEMMA RunEffectCalls ==
  ASSUME ShapeInv, CallsInv, NEW t \in Attempt, NEW c \in Call, RunEffect(t, c)
  PROVE  CallsInv'
<1> USE ShapeParts
<1>0. InRound(t) /\ calls[t][c].stage = "ready"
  BY DEF RunEffect
<1>1. /\ Alone(t) /\ Unfinished(t, c)
      /\ UNCHANGED <<ckpt, pc, loaded, journal, policy, uses, reruns>>
  <2>1. UNCHANGED <<ckpt, pc, loaded, journal, policy, uses, reruns>>
    BY DEF RunEffect
  <2>2. QED
    BY <1>0, <2>1, RunEffectShaped DEF Unfinished, Shaped
<1>2. Memory(t)'
  BY <1>1, RanMoved, MovesInMemory
<1>3. RanOK'
  <2>1. CallOK(c, calls[t][c].use, calls[t][c].attempt, uses, reruns, policy)
    BY <1>1 DEF CallsInv, Memory, Unfinished
  <2>2. ran' = ran \cup {[call |-> c, use |-> calls[t][c].use,
                          attempt |-> calls[t][c].attempt, by |-> t]}
    BY DEF RunEffect
  <2>3. QED
    BY <1>1, <2>1, <2>2 DEF RanOK, CallsInv
<1>4. /\ JournalOK(ckpt.journal, uses, reruns, policy)'
      /\ JournalOK(loaded[t].journal, uses, reruns, policy)'
      /\ JournalOK(journal[t], uses, reruns, policy)'
  BY <1>1 DEF CallsInv
<1>5. uses' \in [Call -> Nat] /\ Grows(uses, uses', reruns, reruns')
  <2>1. uses \in [Call -> Nat]
    BY DEF WorldTypes
  <2>2. \A d \in Call : uses[d] \in Nat
    BY <2>1
  <2>3. QED
    BY <1>1, <2>1, <2>2 DEF Grows
<1>6. QED
  BY <1>1, <1>2, <1>3, <1>4, <1>5, CallsKept

-----------------------------------------------------------------------------
(* The other steps, in memory *)

LEMMA LeaveCalls ==
  ASSUME ShapeInv, CallsInv, NEW t \in Attempt, Leave(t), UNCHANGED <<ckpt, policy, uses, ran, reruns>>
  PROVE  CallsInv'
<1> USE ShapeParts
<1>1. /\ pc'[t] = "over" /\ loaded'[t] = NoCheckpoint /\ journal'[t] = EmptyJournal
      /\ calls'[t] = NoCalls /\ known'[t] = NothingRead
  BY DEF Leave, Goto, MemoryTypes, NoCalls
<1>2. Memory(t)'
  <2>1. EmptyJournal.inflight = {} /\ EmptyJournal.results = {} /\ \A c \in Call : NoCalls[c].stage = "none"
    BY DEF EmptyJournal, NoCalls, NoCall
  <2>2. QED
    BY <1>1, <2>1 DEF Memory, InRound, Active
<1>3. NoCheckpoint.journal = EmptyJournal
  BY DEF NoCheckpoint
<1>4. /\ JournalOK(ckpt.journal, uses, reruns, policy)'
      /\ JournalOK(loaded[t].journal, uses, reruns, policy)'
      /\ JournalOK(journal[t], uses, reruns, policy)'
  BY <1>1, <1>3, EmptyJournalOK DEF CallsInv
<1>5. QED
  BY <1>2, <1>4, SameWorld, LeaveAlone, CallsKept

LEMMA RequestCalls ==
  ASSUME ShapeInv, CallsInv, NEW t \in Attempt, Request(t)
  PROVE  CallsInv'
<1> USE ShapeParts
<1>1. /\ pc[t] = "request" /\ Goto(t, "round") /\ UNCHANGED <<ckpt, loaded, journal, known, policy, ran, reruns>>
      /\ Alone(t)
  BY RequestShaped DEF Request, Shaped
<1>2. PICK round \in SUBSET Call :
        /\ uses' = [c \in Call |-> IF c \in round THEN uses[c] + 1 ELSE uses[c]]
        /\ calls' = [calls EXCEPT ![t] = [c \in Call |->
             IF c \in round
             THEN [stage |-> "issued", use |-> uses[c] + 1, attempt |-> 1, value |-> 0]
             ELSE NoCall]]
  BY DEF Request
<1>3. uses \in [Call -> Nat]
  BY DEF WorldTypes
<1>4. uses' \in [Call -> Nat] /\ Grows(uses, uses', reruns, reruns')
  BY <1>1, <1>2, <1>3 DEF Grows
<1>5. ASSUME NEW c \in Call, calls'[t][c].stage # "none"
      PROVE  /\ CallOK(c, calls'[t][c].use, calls'[t][c].attempt, uses', reruns', policy')
             /\ calls'[t][c].stage # "done"
  <2>1. calls'[t][c] = IF c \in round
             THEN [stage |-> "issued", use |-> uses[c] + 1, attempt |-> 1, value |-> 0]
             ELSE NoCall
    BY <1>2 DEF MemoryTypes
  <2>2. c \in round /\ calls'[t][c].stage = "issued" /\ calls'[t][c].use = uses[c] + 1 /\ calls'[t][c].attempt = 1
    BY <1>5, <2>1 DEF NoCall
  <2>3. uses'[c] = uses[c] + 1 /\ uses[c] \in Nat
    BY <1>2, <1>3, <2>2
  <2>4. QED
    BY <2>2, <2>3 DEF CallOK
<1>6. pc'[t] = "round" /\ journal'[t].inflight = {} /\ journal'[t].results = {}
  BY <1>1 DEF CallsInv, Memory, InRound, Goto, MemoryTypes
<1>7. Memory(t)'
  BY <1>5, <1>6 DEF Memory, InRound, Active
<1>8. RanOK'
  BY <1>1, <1>4, RanKept DEF CallsInv
<1>9. ckpt.journal \in Journal /\ loaded[t].journal \in Journal /\ journal[t] \in Journal
  BY DEF StoreTypes, MemoryTypes, Checkpoint
<1>10. /\ JournalOK(ckpt.journal, uses', reruns', policy)
       /\ JournalOK(loaded[t].journal, uses', reruns', policy)
       /\ JournalOK(journal[t], uses', reruns', policy)
  BY <1>3, <1>4, <1>9, JournalOKGrows DEF CallsInv
<1>11. /\ JournalOK(ckpt.journal, uses, reruns, policy)'
       /\ JournalOK(loaded[t].journal, uses, reruns, policy)'
       /\ JournalOK(journal[t], uses, reruns, policy)'
  BY <1>1, <1>10
<1>12. QED
  BY <1>1, <1>4, <1>7, <1>8, <1>11, CallsKept

\* A step that leaves the journals alone and no call under way.
LEMMA QuietCalls ==
  ASSUME ShapeInv, CallsInv, NEW t \in Attempt, Alone(t), NEW place,
         pc'[t] = place, place \notin {"round", "settle"},
         UNCHANGED <<ckpt, policy, uses, ran, reruns>>,
         calls'[t] = NoCalls, journal'[t].inflight = {},
         place # "commit" => journal'[t].results = {},
         place \in {"commit", "request"} \/ known'[t] = NothingRead,
         loaded'[t] \in {loaded[t], ckpt},
         journal'[t] \in {journal[t], [journal[t] EXCEPT !.results = {}]}
  PROVE  CallsInv'
<1> USE ShapeParts
<1>1. \A c \in Call : NoCalls[c].stage = "none"
  BY DEF NoCalls, NoCall
<1>2. Memory(t)'
  BY <1>1 DEF Memory, InRound, Active
<1>3. journal[t] \in Journal
  BY DEF MemoryTypes
<1>4. JournalOK(journal[t], uses, reruns, policy)
  BY DEF CallsInv
<1>5. JournalOK([journal[t] EXCEPT !.results = {}], uses, reruns, policy)
  BY <1>3, <1>4, JournalType DEF JournalOK, WellFormed
<1>6. /\ JournalOK(ckpt.journal, uses, reruns, policy)
      /\ JournalOK(loaded'[t].journal, uses, reruns, policy)
      /\ JournalOK(journal'[t], uses, reruns, policy)
  BY <1>4, <1>5 DEF CallsInv
<1>7. /\ JournalOK(ckpt.journal, uses, reruns, policy)'
      /\ JournalOK(loaded[t].journal, uses, reruns, policy)'
      /\ JournalOK(journal[t], uses, reruns, policy)'
  BY <1>6
<1>8. QED
  BY <1>2, <1>7, SameWorld, CallsKept

\* Once every call of a round is through, no intent is left.
LEMMA NoIntentLeft ==
  ASSUME ShapeInv, CallsInv, NEW t \in Attempt, \A c \in Call : calls[t][c].stage \in {"none", "done"}
  PROVE  journal[t].inflight = {}
<1>1. \A i \in journal[t].inflight : i.call \in Call
  BY ShapeParts, JournalType DEF MemoryTypes, Intents
<1>2. QED
  BY <1>1 DEF CallsInv, Memory

LEMMA FinishRoundCalls ==
  ASSUME ShapeInv, CallsInv, NEW t \in Attempt, FinishRound(t)
  PROVE  CallsInv'
<1>1. /\ Alone(t) /\ UNCHANGED <<ckpt, loaded, journal, known, policy, uses, ran, reruns>>
      /\ calls'[t] = NoCalls /\ pc'[t] = "commit"
  BY FinishRoundShaped, ShapeParts DEF FinishRound, Shaped, Goto, MemoryTypes, NoCalls
<1>2. journal'[t].inflight = {} /\ journal'[t] = journal[t] /\ loaded'[t] = loaded[t]
  BY <1>1, NoIntentLeft DEF FinishRound
<1>3. QED
  BY <1>1, <1>2, QuietCalls

LEMMA CommitRoundCalls ==
  ASSUME ShapeInv, CallsInv, NEW t \in Attempt, CommitRound(t)
  PROVE  CallsInv'
<1> USE ShapeParts
<1>1. Alone(t) /\ UNCHANGED <<ckpt, policy, uses, ran, reruns>> /\ pc[t] = "commit"
  BY CommitRoundShaped DEF CommitRound, Shaped
<1>2. CASE Leave(t)
  BY <1>1, <1>2, LeaveCalls
<1>3. CASE /\ journal' = [journal EXCEPT ![t].results = {}] /\ Goto(t, "request")
           /\ UNCHANGED <<loaded, known, calls>>
  <2>1. calls[t] = NoCalls /\ journal[t].inflight = {} /\ journal[t] \in Journal
    BY <1>1 DEF CallsInv, Memory, InRound, MemoryTypes
  <2>2. pc'[t] = "request" /\ journal'[t] = [journal[t] EXCEPT !.results = {}]
    BY <1>3 DEF Goto, MemoryTypes
  <2>3. journal'[t].inflight = {} /\ journal'[t].results = {}
    BY <2>1, <2>2, JournalType
  <2>4. calls'[t] = NoCalls /\ loaded'[t] = loaded[t]
    BY <1>3, <2>1
  <2>5. QED
    BY <1>1, <2>2, <2>3, <2>4, QuietCalls
<1>4. QED
  BY <1>2, <1>3 DEF CommitRound

LEMMA EndTurnCalls ==
  ASSUME ShapeInv, CallsInv, NEW t \in Attempt, StopRound(t) \/ RequestFails(t) \/ Complete(t) \/ Die(t)
  PROVE  CallsInv'
<1>1. Leave(t) /\ UNCHANGED <<ckpt, policy, uses, ran, reruns>>
  BY DEF StopRound, RequestFails, Complete, Die, EndTurn
<1>2. QED
  BY <1>1, LeaveCalls

\* The places of a recovery before it runs the turn.
Recovering == {"unborn", "claimed", "loaded", "prepared", "restored"}

LEMMA RecoveringCalls ==
  ASSUME ShapeInv, CallsInv, NEW t \in Attempt, Alone(t),
         pc[t] \in Recovering, pc'[t] \in Recovering,
         UNCHANGED <<ckpt, policy, uses, ran, reruns, journal, known, calls>>,
         loaded'[t] \in {loaded[t], ckpt}
  PROVE  CallsInv'
<1>1. /\ calls[t] = NoCalls /\ journal[t].inflight = {} /\ journal[t].results = {}
      /\ known[t] = NothingRead
  BY DEF CallsInv, Memory, InRound, Active, Recovering
<1>2. pc'[t] \notin {"round", "settle", "commit"}
  BY DEF Recovering
<1>3. QED
  BY <1>1, <1>2, QuietCalls

LEMMA RecoveryCalls ==
  ASSUME ShapeInv, CallsInv, NEW t \in Attempt,
         Claim(t) \/ LoadCheckpoint(t) \/ Prepare(t) \/ Start(t)
  PROVE  CallsInv'
<1> USE ShapeParts
<1>1. UNCHANGED <<ckpt, policy, uses, ran, reruns>> /\ pc[t] \in Recovering /\ Alone(t)
  <2>1. UNCHANGED <<ckpt, policy, uses, ran, reruns>> /\ pc[t] \in Recovering
    BY DEF Claim, LoadCheckpoint, Prepare, Start, Recovering
  <2>2. QED
    BY <2>1, ClaimShaped, LoadCheckpointShaped, PrepareShaped, StartShaped DEF Shaped
<1>2. CASE Leave(t)
  BY <1>1, <1>2, LeaveCalls
<1>3. ASSUME NEW place \in Recovering, Goto(t, place), UNCHANGED <<journal, known, calls>>,
             loaded' = loaded \/ loaded' = [loaded EXCEPT ![t] = ckpt]
      PROVE  CallsInv'
  <2>1. pc'[t] \in Recovering /\ loaded'[t] \in {loaded[t], ckpt}
    BY <1>3 DEF Goto, MemoryTypes
  <2>2. QED
    BY <1>1, <1>3, <2>1, RecoveringCalls
<1>4. \/ Leave(t)
      \/ \E place \in Recovering :
           /\ Goto(t, place) /\ UNCHANGED <<journal, known, calls>>
           /\ loaded' = loaded \/ loaded' = [loaded EXCEPT ![t] = ckpt]
  BY DEF Claim, LoadCheckpoint, Prepare, Start, ParkClaimed, Recovering
<1>5. QED
  BY <1>2, <1>3, <1>4

\* A recovery that goes on with its turn: what it carries over.
Carries(t) ==
  /\ committed' = hist[t] /\ hist'[t] = hist[t] /\ known'[t] = known[t] /\ loaded'[t] = loaded[t]
  /\ journal'[t].inflight = loaded[t].journal.inflight /\ journal'[t].results = {}
  /\ pc'[t] = IF loaded[t].journal.inflight = {} THEN "request" ELSE "settle"
  /\ \A i \in loaded[t].journal.inflight :
       /\ calls'[t][i.call].stage = "carried"
       /\ calls'[t][i.call].use = i.use /\ calls'[t][i.call].attempt = i.attempt
  /\ \A c \in Call : (\A i \in loaded[t].journal.inflight : i.call # c) => calls'[t][c] = NoCall
  /\ loaded[t].journal.inflight = {} => calls'[t] = NoCalls

LEMMA RestoredCarries ==
  ASSUME ShapeInv, CallsInv, NEW t \in Attempt, CommitRestored(t), hist[t] = committed \/ OwnsRunning(t)
  PROVE  Carries(t)
<1> USE ShapeParts
<1> DEFINE inflight == loaded[t].journal.inflight
           carried(c) == LET intent == CHOOSE i \in inflight : i.call = c
                         IN  [stage |-> "carried", use |-> intent.use,
                              attempt |-> intent.attempt, value |-> 0]
<1>1. /\ committed' = hist[t]
      /\ journal' = [journal EXCEPT ![t].inflight = inflight]
      /\ calls' = [calls EXCEPT ![t] = [c \in Call |->
           IF \E intent \in inflight : intent.call = c THEN carried(c) ELSE NoCall]]
      /\ Goto(t, IF inflight = {} THEN "request" ELSE "settle")
      /\ UNCHANGED <<loaded, base, hist, known>> /\ pc[t] = "restored"
  BY DEF CommitRestored
<1>2. journal[t].results = {} /\ journal[t] \in Journal
  BY <1>1 DEF CallsInv, Memory, InRound, MemoryTypes
<1>3. journal'[t] = [journal[t] EXCEPT !.inflight = inflight]
  BY <1>1 DEF MemoryTypes
<1>4. journal'[t].inflight = inflight /\ journal'[t].results = {}
  BY <1>2, <1>3, JournalType
<1>5. pc'[t] = IF inflight = {} THEN "request" ELSE "settle"
  BY <1>1 DEF Goto, MemoryTypes
<1>6. \A i, k \in inflight : i.call = k.call => i = k
  BY DEF CallsInv, JournalOK, WellFormed
<1>7. \A i \in inflight : i.call \in Call
  BY JournalType DEF MemoryTypes, Checkpoint, Intents
<1>8. ASSUME NEW c \in Call
      PROVE  calls'[t][c] = IF \E intent \in inflight : intent.call = c THEN carried(c) ELSE NoCall
  BY <1>1 DEF MemoryTypes
<1>9. ASSUME NEW i \in inflight
      PROVE  /\ calls'[t][i.call].stage = "carried"
             /\ calls'[t][i.call].use = i.use /\ calls'[t][i.call].attempt = i.attempt
  <2>1. (CHOOSE k \in inflight : k.call = i.call) = i
    BY <1>6
  <2>2. carried(i.call) = [stage |-> "carried", use |-> i.use, attempt |-> i.attempt, value |-> 0]
    BY <2>1
  <2>3. calls'[t][i.call] = carried(i.call)
    BY <1>7, <1>8
  <2>4. QED
    BY <2>2, <2>3
<1>10. inflight = {} => calls'[t] = NoCalls
  BY <1>1 DEF NoCalls, MemoryTypes
<1>11. hist'[t] = hist[t] /\ known'[t] = known[t] /\ loaded'[t] = loaded[t]
  BY <1>1
<1> HIDE DEF carried
<1>12. QED
  BY <1>1, <1>4, <1>5, <1>8, <1>9, <1>10, <1>11 DEF Carries

LEMMA CommitRestoredCalls ==
  ASSUME ShapeInv, CallsInv, NEW t \in Attempt, CommitRestored(t)
  PROVE  CallsInv'
<1> USE ShapeParts
<1>1. /\ UNCHANGED <<ckpt, policy, uses, ran, reruns>> /\ pc[t] = "restored"
      /\ Alone(t)
  BY CommitRestoredShaped DEF CommitRestored, Shaped
<1>2. CASE Leave(t)
  BY <1>1, <1>2, LeaveCalls
<1>3. CASE hist[t] = committed \/ OwnsRunning(t)
  <2>1. Carries(t)
    BY <1>3, RestoredCarries
  <2>2. loaded[t].journal.inflight \in SUBSET Intents
    BY JournalType DEF MemoryTypes, Checkpoint
  <2>3. JournalOK(loaded[t].journal, uses, reruns, policy)
    BY DEF CallsInv
  <2>4. known[t] = NothingRead
    BY <1>1 DEF CallsInv, Memory, Active
  <2>5. JournalOK(journal'[t], uses, reruns, policy)
    BY <2>1, <2>3 DEF Carries, JournalOK, WellFormed
  <2>6. /\ JournalOK(ckpt.journal, uses, reruns, policy)'
        /\ JournalOK(loaded[t].journal, uses, reruns, policy)'
        /\ JournalOK(journal[t], uses, reruns, policy)'
    BY <1>1, <2>1, <2>3, <2>5 DEF CallsInv, Carries
  <2>7. ASSUME NEW c \in Call, calls'[t][c].stage # "none"
        PROVE  /\ calls'[t][c].stage = "carried"
               /\ CallOK(c, calls'[t][c].use, calls'[t][c].attempt, uses, reruns, policy)
    <3>1. PICK i \in loaded[t].journal.inflight : i.call = c
      BY <2>1, <2>7 DEF Carries, NoCall
    <3>2. CallOK(i.call, i.use, i.attempt, uses, reruns, policy)
      BY <2>3 DEF JournalOK, IntentOK
    <3>3. QED
      BY <2>1, <3>1, <3>2 DEF Carries
  <2>8. ASSUME NEW i \in journal'[t].inflight
        PROVE  /\ calls'[t][i.call].stage \notin {"none", "done"}
               /\ calls'[t][i.call].use = i.use
               /\ i.attempt <= calls'[t][i.call].attempt
    <3>1. i \in loaded[t].journal.inflight /\ i.attempt \in Nat
      BY <2>1, <2>2 DEF Carries, Intents
    <3>2. QED
      BY <2>1, <3>1 DEF Carries
  <2>9. Memory(t)'
    BY <1>1, <2>1, <2>4, <2>7, <2>8 DEF Memory, InRound, Active, Carries
  <2>10. QED
    BY <1>1, <2>6, <2>9, SameWorld, CallsKept
<1>4. QED
  BY <1>2, <1>3 DEF CommitRestored

LEMMA RerunMoved ==
  ASSUME ShapeInv, NEW t \in Attempt, NEW intent \in journal[t].inflight, RerunCarried(t, intent)
  PROVE  /\ intent \in Intents
         /\ calls'[t][intent.call].stage = "issued"
         /\ calls'[t][intent.call].attempt = intent.attempt + 1
         /\ calls'[t][intent.call].use = calls[t][intent.call].use
         /\ \A d \in Call \ {intent.call} : calls'[t][d] = calls[t][d]
<1> USE ShapeParts
<1>1. intent \in Intents
  BY JournalType DEF MemoryTypes
<1>2. PICK c \in Call, n \in Nat : c = intent.call /\ n = intent.attempt + 1
  BY <1>1 DEF Intents
<1>3. calls[t] \in [Call -> CallRecord] /\ calls[t][c] \in CallRecord
  BY DEF MemoryTypes
<1>4. calls' = [calls EXCEPT ![t] = [calls[t] EXCEPT ![c] =
                  [calls[t][c] EXCEPT !.stage = "issued", !.attempt = n]]]
  BY <1>2, <1>3 DEF RerunCarried, MemoryTypes, CallRecord
<1>5. PICK rec \in CallRecord : rec = calls[t][c]
  BY <1>3
<1> DEFINE next == [rec EXCEPT !.stage = "issued", !.attempt = n]
<1>6. next.stage = "issued" /\ next.attempt = n /\ next.use = rec.use
  BY DEF CallRecord, CallStage
<1>7. calls' = [calls EXCEPT ![t] = [calls[t] EXCEPT ![c] = next]]
  BY <1>4, <1>5, Zenon
<1> HIDE DEF next
<1>8. calls'[t] = [calls[t] EXCEPT ![c] = next]
  BY <1>7 DEF MemoryTypes
<1>9. calls'[t][c] = next /\ \A d \in Call \ {c} : calls'[t][d] = calls[t][d]
  BY <1>3, <1>8
<1>10. QED
  BY <1>1, <1>2, <1>5, <1>6, <1>9

LEMMA RerunCarriedCalls ==
  ASSUME ShapeInv, CallsInv, NEW t \in Attempt, NEW intent \in journal[t].inflight, RerunCarried(t, intent)
  PROVE  CallsInv'
<1> USE ShapeParts
<1>0. UNCHANGED <<ckpt, loaded, pc, journal, known, policy, uses, ran, reruns>>
  BY DEF RerunCarried
<1>1. /\ Alone(t) /\ pc[t] = "settle" /\ RecoveryDecision(intent) = "rerun"
      /\ calls[t][intent.call].stage = "carried"
  BY RerunCarriedShaped DEF RerunCarried, Shaped, Settling
<1>2. intent \in Intents /\ intent.attempt \in Nat /\ intent.call \in Call
  BY RerunMoved DEF Intents
<1>3. IntentOK(intent, uses, reruns, policy) /\ Memory(t) /\ JournalOK(journal[t], uses, reruns, policy)
  BY DEF CallsInv, JournalOK
<1>4. CallOK(intent.call, intent.use, intent.attempt + 1, uses, reruns, policy)
  <2>1. ASSUME policy[intent.call] \in StrictPolicy
        PROVE  intent.resolution = "rerun"
    <3>1. intent.policy \in StrictPolicy
      BY <1>3, <2>1 DEF IntentOK, StrictPolicy
    <3>2. intent.policy \notin {"pure", "idempotent"}
      BY <3>1 DEF StrictPolicy
    <3>3. intent.resolution # Undecided => RecoveryDecision(intent) = intent.resolution
      BY DEF RecoveryDecision
    <3>4. intent.resolution = Undecided => RecoveryDecision(intent) = "interrupt"
      BY <3>2 DEF RecoveryDecision
    <3>5. QED
      BY <1>1, <3>3, <3>4
  <2>2. (intent.attempt + 1) - 1 = intent.attempt /\ intent.attempt + 1 >= 1
    BY <1>2
  <2>3. QED
    BY <1>3, <2>1, <2>2 DEF IntentOK, CallOK
<1>5. calls[t][intent.call].use = intent.use
  BY <1>3 DEF Memory
<1>6. ASSUME NEW c \in Call
      PROVE  /\ calls'[t][c].stage = "done" => \E r \in journal'[t].results : r.call = c
             /\ calls'[t][c].stage # "none" =>
                  CallOK(c, calls'[t][c].use, calls'[t][c].attempt, uses, reruns, policy)
  BY <1>0, <1>3, <1>4, <1>5, RerunMoved DEF Memory
<1>7. ASSUME NEW i \in journal'[t].inflight
      PROVE  /\ calls'[t][i.call].stage \notin {"none", "done"}
             /\ calls'[t][i.call].use = i.use
             /\ i.attempt <= calls'[t][i.call].attempt
  <2>1. i \in journal[t].inflight
    BY <1>0
  <2>2. i.call \in Call
    BY <2>1, JournalType DEF MemoryTypes, Intents
  <2>3. CASE i = intent
    BY <1>2, <1>5, <2>3, RerunMoved
  <2>4. CASE i # intent
    <3>1. i.call # intent.call
      BY <1>3, <2>1, <2>4 DEF JournalOK, WellFormed
    <3>2. calls'[t][i.call] = calls[t][i.call]
      BY <2>2, <3>1, RerunMoved
    <3>3. QED
      BY <1>3, <2>1, <3>2 DEF Memory
  <2>5. QED
    BY <2>3, <2>4
<1>8. ASSUME NEW r \in journal'[t].results
      PROVE  /\ calls'[t][r.call].stage = "done"
             /\ calls'[t][r.call].use = r.use
             /\ calls'[t][r.call].value = r.value
  <2>1. r \in journal[t].results /\ r.call # intent.call
    BY <1>0, <1>3 DEF JournalOK, WellFormed
  <2>2. r.call \in Call
    BY <2>1, JournalType DEF MemoryTypes, Results
  <2>3. calls'[t][r.call] = calls[t][r.call]
    BY <2>1, <2>2, RerunMoved
  <2>4. QED
    BY <1>1, <1>3, <2>1, <2>3 DEF Memory, InRound
<1>9. Memory(t)'
  BY <1>0, <1>1, <1>6, <1>7, <1>8 DEF Memory, InRound, Active
<1>10. /\ JournalOK(ckpt.journal, uses, reruns, policy)'
       /\ JournalOK(loaded[t].journal, uses, reruns, policy)'
       /\ JournalOK(journal[t], uses, reruns, policy)'
  BY <1>0 DEF CallsInv
<1>11. QED
  BY <1>0, <1>1, <1>9, <1>10, SameWorld, CallsKept

LEMMA SettleCarriedCalls ==
  ASSUME ShapeInv, CallsInv, NEW t \in Attempt, NEW intent \in journal[t].inflight, SettleCarried(t, intent)
  PROVE  CallsInv'
<1>1. intent.call \in Call
  BY ShapeParts, JournalType DEF MemoryTypes, Intents
<1>2. PICK v \in Int : AppendResult(t, intent.call, v)
  BY DEF SettleCarried, Decided, Interrupted
<1>3. Unfinished(t, intent.call) /\ UNCHANGED <<pc, loaded, policy, uses, ran, reruns>>
  BY DEF SettleCarried, Settling, Unfinished, InRound
<1>4. Alone(t)
  BY SettleCarriedShaped DEF Shaped
<1>5. QED
  BY <1>1, <1>2, <1>3, <1>4, AppendResultCalls

-----------------------------------------------------------------------------
(* An operator's decisions keep what the journal says *)

SameIntent(i, k) ==
  i.call = k.call /\ i.use = k.use /\ i.attempt = k.attempt /\ i.policy = k.policy

LEMMA ResolvedEvidence ==
  ASSUME ShapeInv, WellFormed(ckpt.journal), ResolveRecovery
  PROVE  /\ ckpt'.journal.results = ckpt.journal.results
         /\ ckpt'.completed = ckpt.completed /\ ckpt'.phase = ckpt.phase
         /\ \A i \in ckpt'.journal.inflight : \E k \in ckpt.journal.inflight :
              /\ SameIntent(i, k)
              /\ i = k \/ (i.resolution = "rerun" =>
                            [call |-> i.call, use |-> i.use, attempt |-> i.attempt] \in reruns')
         /\ \A k \in ckpt.journal.inflight : \E i \in ckpt'.journal.inflight : SameIntent(i, k)
         /\ \A i, k \in ckpt'.journal.inflight : i.call = k.call => i = k
         /\ \A d \in ckpt'.own : \E e \in ckpt.own : d.call = e.call /\ d.prior = e.prior
         /\ reruns \subseteq reruns'
         /\ IsFiniteSet(ckpt.journal.inflight) /\ IsFiniteSet(reruns) => IsFiniteSet(reruns')
<1> USE ShapeParts
<1> DEFINE inflight == ckpt.journal.inflight
<1>1. PICK decided \in SUBSET inflight : \E decision \in [decided -> Decision] :
        ResolvedBy(decided, decision,
          IF decided = {} THEN run.checkpointVersion ELSE run.checkpointVersion + 1)
  BY ResolveParts
<1>2. PICK decision \in [decided -> Decision],
           version \in {run.checkpointVersion, run.checkpointVersion + 1} :
        ResolvedBy(decided, decision, version)
  BY <1>1
<1> DEFINE Decide(i) == [i EXCEPT !.resolution = decision[i]]
           own == {[call EXCEPT !.version = version] : call \in ckpt.own}
           rest == (inflight \ decided) \cup {Decide(i) : i \in decided}
           ruled == {[call |-> i.call, use |-> i.use, attempt |-> i.attempt] :
                       i \in {j \in decided : decision[j] = "rerun"}}
<1>3. /\ ckpt \in Checkpoint /\ ckpt.journal \in Journal
      /\ inflight \in SUBSET Intents /\ ckpt.own \in SUBSET Completions
  BY JournalType DEF StoreTypes, Checkpoint
<1>4. /\ ckpt' = IF decided = {} THEN ckpt ELSE
                   [ckpt EXCEPT !.own = own, !.journal = [ckpt.journal EXCEPT !.inflight = rest]]
      /\ reruns' = reruns \cup ruled
  BY <1>2, <1>3 DEF ResolvedBy, Checkpoint
<1>5. ASSUME NEW i \in decided
      PROVE  /\ Decide(i).call = i.call /\ Decide(i).use = i.use /\ Decide(i).attempt = i.attempt
             /\ Decide(i).policy = i.policy /\ Decide(i).resolution = decision[i]
  BY <1>3 DEF Intents
<1>6. \A d \in own : \E e \in ckpt.own : d.call = e.call /\ d.prior = e.prior
  <2>1. ASSUME NEW e \in ckpt.own
        PROVE  [e EXCEPT !.version = version].call = e.call /\ [e EXCEPT !.version = version].prior = e.prior
    BY <1>3 DEF Completions
  <2>2. QED
    BY <2>1
<1>7. \A i \in decided : decision[i] = "rerun" =>
        [call |-> i.call, use |-> i.use, attempt |-> i.attempt] \in ruled
  OBVIOUS
<1>8. IsFiniteSet(inflight) => IsFiniteSet(ruled)
  <2>1. ASSUME IsFiniteSet(inflight) PROVE IsFiniteSet(ruled)
    <3> DEFINE again == {j \in decided : decision[j] = "rerun"}
               name(i) == [call |-> i.call, use |-> i.use, attempt |-> i.attempt]
    <3>1. IsFiniteSet(again)
      BY <2>1, FS_Subset
    <3>2. [i \in again |-> name(i)] \in Surjection(again, {name(i) : i \in again})
      BY DEF Surjection
    <3>3. IsFiniteSet({name(i) : i \in again})
      BY <3>1, <3>2, FS_Surjection
    <3>4. QED
      BY <3>3
  <2>2. QED
    BY <2>1
<1> HIDE DEF Decide, own, ruled
<1>9. decided # {} => /\ ckpt'.journal.results = ckpt.journal.results
                      /\ ckpt'.journal.inflight = rest /\ ckpt'.own = own
                      /\ ckpt'.completed = ckpt.completed /\ ckpt'.phase = ckpt.phase
  BY <1>3, <1>4, JournalType DEF Checkpoint
<1>10. decided = {} => ckpt' = ckpt
  BY <1>4
<1>11. /\ \A i \in rest : \/ i \in inflight /\ i \notin decided
                          \/ \E k \in decided : i = Decide(k)
       /\ \A k \in inflight : k \in rest \/ (k \in decided /\ Decide(k) \in rest)
  OBVIOUS
<1> HIDE DEF rest
<1>12. ASSUME NEW i \in ckpt'.journal.inflight
       PROVE  \E k \in inflight :
                /\ SameIntent(i, k)
                /\ i = k \/ (i.resolution = "rerun" =>
                              [call |-> i.call, use |-> i.use, attempt |-> i.attempt] \in reruns')
  BY <1>4, <1>5, <1>7, <1>9, <1>10, <1>11 DEF SameIntent
<1>13. \A k \in inflight : \E i \in ckpt'.journal.inflight : SameIntent(i, k)
  BY <1>5, <1>9, <1>10, <1>11 DEF SameIntent
<1>14. \A i, k \in inflight : i.call = k.call => i = k
  BY DEF WellFormed
<1>15. \A i, k \in ckpt'.journal.inflight : i.call = k.call => i = k
  BY <1>5, <1>9, <1>10, <1>11, <1>14
<1>16. IsFiniteSet(inflight) /\ IsFiniteSet(reruns) => IsFiniteSet(reruns')
  BY <1>4, <1>8, FS_Union
<1>17. QED
  BY <1>4, <1>6, <1>9, <1>10, <1>12, <1>13, <1>15, <1>16

LEMMA ResolveRecoveryCalls ==
  ASSUME ShapeInv, CallsInv, ResolveRecovery
  PROVE  CallsInv'
<1> USE ShapeParts
<1>1. UNCHANGED <<attemptVars, policy, uses, ran>>
  BY DEF ResolveRecovery
<1>2. WellFormed(ckpt.journal) /\ JournalOK(ckpt.journal, uses, reruns, policy)
  BY DEF CallsInv, JournalOK
<1>3. uses \in [Call -> Nat] /\ reruns \subseteq reruns'
  BY <1>2, ResolvedEvidence DEF WorldTypes
<1>4. uses' \in [Call -> Nat] /\ Grows(uses, uses', reruns, reruns')
  <2>1. \A c \in Call : uses[c] \in Nat
    BY <1>3
  <2>2. QED
    BY <1>1, <1>3, <2>1 DEF Grows
<1>5. ASSUME NEW i \in ckpt'.journal.inflight
      PROVE  IntentOK(i, uses, reruns', policy)
  <2>1. PICK k \in ckpt.journal.inflight :
          /\ SameIntent(i, k)
          /\ i = k \/ (i.resolution = "rerun" =>
                        [call |-> i.call, use |-> i.use, attempt |-> i.attempt] \in reruns')
    BY <1>2, ResolvedEvidence
  <2>2. IntentOK(k, uses, reruns, policy)
    BY <1>2 DEF JournalOK
  <2>3. QED
    BY <1>3, <2>1, <2>2 DEF IntentOK, CallOK, SameIntent
<1>6. JournalOK(ckpt'.journal, uses, reruns', policy)
  <2>1. \A i \in ckpt'.journal.inflight : \E k \in ckpt.journal.inflight : i.call = k.call
    BY <1>2, ResolvedEvidence DEF SameIntent
  <2>2. /\ ckpt'.journal.results = ckpt.journal.results
        /\ \A i, k \in ckpt'.journal.inflight : i.call = k.call => i = k
    BY <1>2, ResolvedEvidence
  <2>3. QED
    BY <1>2, <1>5, <2>1, <2>2 DEF JournalOK, WellFormed
<1>7. RanOK'
  BY <1>1, <1>4, RanKept DEF CallsInv
<1>9. ASSUME NEW s \in Attempt
      PROVE  /\ JournalOK(loaded[s].journal, uses, reruns, policy)'
             /\ JournalOK(journal[s], uses, reruns, policy)'
             /\ Memory(s)'
  <2>1. /\ JournalOK(loaded[s].journal, uses, reruns, policy)
        /\ JournalOK(journal[s], uses, reruns, policy) /\ Memory(s)
        /\ loaded[s].journal \in Journal /\ journal[s] \in Journal
    BY DEF CallsInv, MemoryTypes, Checkpoint
  <2>2. /\ JournalOK(loaded[s].journal, uses', reruns', policy)
        /\ JournalOK(journal[s], uses', reruns', policy)
    BY <1>3, <1>4, <2>1, JournalOKGrows
  <2>3. ASSUME NEW c \in Call, calls[s][c].stage # "none"
        PROVE  CallOK(c, calls[s][c].use, calls[s][c].attempt, uses', reruns', policy)
    <3>1. calls[s][c].use \in Nat
      BY DEF MemoryTypes, CallRecord
    <3>2. CallOK(c, calls[s][c].use, calls[s][c].attempt, uses, reruns, policy)
      BY <2>1, <2>3 DEF Memory
    <3>3. QED
      BY <1>3, <1>4, <3>1, <3>2, CallOKGrows
  <2>4. Memory(s)'
    BY <1>1, <2>1, <2>3 DEF Memory, InRound, Active
  <2>5. QED
    BY <1>1, <2>2, <2>4
<1>10. JournalOK(ckpt.journal, uses, reruns, policy)'
  BY <1>1, <1>6
<1>11. QED
  BY <1>7, <1>9, <1>10 DEF CallsInv

LEMMA StepCalls == ShapeInv /\ CallsInv /\ [Next]_vars => CallsInv'
<1> SUFFICES ASSUME ShapeInv, CallsInv, [Next]_vars PROVE CallsInv'
  OBVIOUS
<1>1. CASE UNCHANGED vars
  BY <1>1 DEF CallsInv, RanOK, Memory, InRound, Active
<1>2. CASE ResolveRecovery
  BY <1>2, ResolveRecoveryCalls
<1>3. ASSUME NEW t \in Attempt, CallStep(t)
      PROVE  CallsInv'
  BY <1>3, BeforeToolCalls, HookParksCalls, HookBlocksCalls, RunEffectCalls, AfterToolCalls
     DEF CallStep
<1>4. ASSUME NEW t \in Attempt, RoundStep(t) \/ Die(t)
      PROVE  CallsInv'
  BY <1>4, RequestCalls, FinishRoundCalls, CommitRoundCalls, EndTurnCalls DEF RoundStep
<1>5. ASSUME NEW t \in Attempt, RecoveryStep(t) \/ Claim(t)
      PROVE  CallsInv'
  BY <1>5, RecoveryCalls, CommitRestoredCalls, RerunCarriedCalls, SettleCarriedCalls DEF RecoveryStep
<1>6. QED
  BY <1>1, <1>2, <1>3, <1>4, <1>5 DEF Next

=============================================================================

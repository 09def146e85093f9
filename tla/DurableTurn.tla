---------------------------- MODULE DurableTurn ----------------------------
(***************************************************************************)
(* What a durable turn does with its tool calls, and what its recovery     *)
(* makes of them after a crash.                                            *)
(*                                                                         *)
(* Attempt t is the t-th owner of the run: the turn that started it, then  *)
(* one recovery after another.  Its number is its lease id.  An attempt    *)
(* asks the model, which answers with a round of parallel calls; each call *)
(* records its intent, runs its effect and saves its outcome in the run's  *)
(* checkpoint; the finished round is committed to the thread's history.    *)
(* A claim may replace an attempt that is dead or only slow, so an old     *)
(* attempt may go on beside the new one until a fenced write refuses it.   *)
(*                                                                         *)
(* A call is named by the id its provider gave it, which a later round may *)
(* use again.  Its `use` tells the uses apart; the code sees the id alone. *)
(***************************************************************************)
EXTENDS TurnRecords, Sequences, FiniteSets

CONSTANTS
  Call,          \* tool call ids
  MaxOwners,     \* bound: owners the run may have, one after the other
  MaxRequests,   \* bound: model requests that call tools
  MaxWork,       \* bound: owners, faults and, each counting twice, requests together
  MaxFaults,     \* bound: store failures and operator decisions; without any,
                 \* no hook steps in either
  LostAnswers    \* may the store fail after a write took effect?

ASSUME DurableConstantsOK ==
  /\ MaxOwners \in Nat \ {0}
  /\ IsFiniteSet(Call)
  /\ MaxRequests \in Nat /\ MaxWork \in Nat /\ MaxFaults \in Nat
  /\ LostAnswers \in BOOLEAN

Attempt == 1 .. MaxOwners

VARIABLES
  (* the store *)
  run,        \* the turn's record
  ckpt,       \* its latest checkpoint
  committed,  \* the thread's history: the rounds of finished calls
  (* each attempt *)
  pc,         \* where it is
  loaded,     \* the checkpoint a recovery works from
  base,       \* how many rounds were committed when it started
  hist,       \* its history in memory
  journal,    \* its step journal in memory
  known,      \* the completed calls its checkpoints record
  calls,      \* the calls of its current round
  (* what is not the program's *)
  policy,     \* the retry policy of each call's tool
  uses,       \* how often each id was used
  ran,        \* history: every effect that ran
  reruns,     \* history: every rerun an operator decided on
  requests, faults

storeVars   == <<run, ckpt, committed>>
attemptVars == <<pc, loaded, base, hist, journal, known, calls>>
worldVars   == <<policy, uses, ran, reruns, requests, faults>>
vars == <<storeVars, attemptVars, worldVars>>

-----------------------------------------------------------------------------
(* Calls, journals and checkpoints *)

Policy == {"pure", "idempotent", "interrupt", "manual-recovery"}

\* What the model receives for a call: the output of one of its runs, named by
\* the run's attempt, or one of these.
Interrupted == 0
Decided     == -1
Blocked     == -2

Undecided == "undecided"
Decision  == {"rerun", "interrupt", "result"}

PC == {"unborn",     \* not an owner yet
       "claimed",    \* it claimed the run, leased
       "loaded",     \* it read the checkpoint, which it can recover from
       "prepared",   \* its continuation is queued
       "restored",   \* it runs; the restored round is not committed yet
       "round",      \* the calls of its round are under way
       "settle",     \* the calls it took over are settled, one by one
       "commit",     \* the finished round is in memory, not committed yet
       "request",    \* it is about to ask the model
       "over"}       \* it ended, or its process died

CallStage == {"none",
              "carried",  \* left unfinished by an earlier attempt
              "issued",   \* to be run; its intent is not recorded yet
              "ready",    \* recorded; its effect has not run
              "ran",      \* its effect ran; its outcome is not saved
              "done",     \* its outcome is saved
              "failed",   \* a checkpoint write that failed stopped it
              "parked"}   \* a hook stopped it, to wait for a decision

\* Owners, faults and requests so far, against the bound.
Work == Cardinality({t \in Attempt : pc[t] # "unborn"}) + 2 * requests + faults

NoCall == [stage |-> "none", use |-> 0, attempt |-> 0, value |-> 0]

EmptyJournal == [inflight |-> {}, results |-> {}]

NothingRead == [read |-> FALSE, calls |-> {}]

NoCheckpoint == [phase |-> "none", own |-> {}, completed |-> {}, journal |-> EmptyJournal]

\* The calls of a checkpoint that finished, its own included.
CompletedThrough(checkpoint) ==
  checkpoint.completed
    \cup (IF checkpoint.phase = "after-tool" THEN checkpoint.own ELSE {})

AwaitsDecision(intent) ==
  intent.policy = "manual-recovery" /\ intent.resolution = Undecided

ResultCount(history, c) ==
  Cardinality({k \in DOMAIN history : \E entry \in history[k] : entry.call = c})

\* Mutant of IsCommitted: off by one.
IsCommittedTwice(history, result) == ResultCount(history, result.call) > result.prior + 1

\* A result counts as committed once history holds more of its id than when
\* it was saved.
IsCommitted(history, result) == ResultCount(history, result.call) > result.prior

Restorable(checkpoint, history) ==
  {r \in checkpoint.journal.results : ~IsCommitted(history, r)}

\* Completed calls that are neither committed nor in the journal.
Unrestorable(checkpoint, history) ==
  {done \in checkpoint.completed :
     /\ ~IsCommitted(history, done)
     /\ \A r \in checkpoint.journal.results :
          r.call # done.call \/ r.version # done.version}

\* One round of messages: each call with its result.
Entry(call, use, value) == [call |-> call, use |-> use, value |-> value]

RoundOf(results) == {Entry(r.call, r.use, r.value) : r \in results}

WithRound(history, round) ==
  IF round = {} THEN history ELSE Append(history, round)

-----------------------------------------------------------------------------
(* Checkpoint writes *)

Fenced(t)      == FencedWriteConflict(run, t)
OwnsRunning(t) == TransitionAllowed(run, "running", t)

Fault == faults < MaxFaults /\ Work < MaxWork /\ faults' = faults + 1

InRound(t)        == pc[t] \in {"round", "settle"}

Goto(t, place)    == pc' = [pc EXCEPT ![t] = place]
SetStage(t, c, s) == calls' = [calls EXCEPT ![t][c].stage = s]

\* The attempt is over, and what it had in memory is gone.
Leave(t) ==
  /\ Goto(t, "over")
  /\ loaded' = [loaded EXCEPT ![t] = NoCheckpoint]
  /\ base' = [base EXCEPT ![t] = 0]
  /\ hist' = [hist EXCEPT ![t] = <<>>]
  /\ journal' = [journal EXCEPT ![t] = EmptyJournal]
  /\ known' = [known EXCEPT ![t] = NothingRead]
  /\ calls' = [calls EXCEPT ![t] = [c \in Call |-> NoCall]]

IntentOf(t, c) == {intent \in journal[t].inflight : intent.call = c}

\* Mutant of WithIntent: an intent starts the journal afresh.
WithIntentFromScratch(t, c, pol) ==
  [inflight |-> IntentOf(t, c) \cup
     {[call |-> c, use |-> calls[t][c].use, attempt |-> calls[t][c].attempt,
       policy |-> pol, resolution |-> Undecided]},
   results |-> {}]

\* Mutant of WithIntent: a rerun is recorded as the first attempt.
WithIntentFirstAttempt(t, c, pol) ==
  [journal[t] EXCEPT !.inflight =
     (@ \ IntentOf(t, c))
       \cup {[call |-> c, use |-> calls[t][c].use, attempt |-> 1,
              policy |-> pol, resolution |-> Undecided]}]

\* nextStepJournal: an intent replaces the call's earlier one, and with it the
\* decision it carried; a result settles it.
WithIntent(t, c, pol) ==
  [journal[t] EXCEPT !.inflight =
     (@ \ IntentOf(t, c))
       \cup {[call |-> c, use |-> calls[t][c].use, attempt |-> calls[t][c].attempt,
              policy |-> pol, resolution |-> Undecided]}]

Result(t, c, value) ==
  [call |-> c, use |-> calls[t][c].use, value |-> value,
   prior |-> ResultCount(hist[t], c), version |-> run.checkpointVersion + 1]

\* Mutant of WithResult: a checkpoint keeps its own outcome only.
WithResultAlone(t, c, value) ==
  [inflight |-> journal[t].inflight \ IntentOf(t, c), results |-> {Result(t, c, value)}]

\* Mutant of WithResult: a saved outcome does not settle its intent.
WithResultUnsettled(t, c, value) ==
  [inflight |-> journal[t].inflight, results |-> journal[t].results \cup {Result(t, c, value)}]

WithResult(t, c, value) ==
  [inflight |-> journal[t].inflight \ IntentOf(t, c),
   results  |-> journal[t].results \cup {Result(t, c, value)}]

\* Mutant of Completion: the outcome is kept beside the call.
CompletionWithOutput(result) == result

\* What a checkpoint keeps of the call it was written for.
Completion(result) ==
  [call |-> result.call, prior |-> result.prior, version |-> result.version]

\* The first append of an attempt takes over the completed calls it finds.
KnownCompleted(t) ==
  IF known[t].read THEN known[t].calls ELSE CompletedThrough(ckpt)

SetKnown(t, completed) ==
  known' = [known EXCEPT ![t] = [read |-> TRUE, calls |-> completed]]

Store(t, phase, own, next) ==
  /\ run' = [run EXCEPT !.checkpointVersion = @ + 1]
  /\ ckpt' = [phase |-> phase, own |-> own, completed |-> KnownCompleted(t),
              journal |-> next]

\* One append: it lands, is refused by the fence, or fails in the store,
\* before or after it took effect.  Only a landed append changes the journal;
\* the call is then as `landed` says.
AppendTo(t, c, phase, own, next, landed) ==
  \/ /\ ~Fenced(t)
     /\ Store(t, phase, own, next)
     /\ journal' = [journal EXCEPT ![t] = next]
     /\ SetKnown(t, KnownCompleted(t) \cup own)
     /\ calls' = [calls EXCEPT ![t][c] = landed]
     /\ UNCHANGED faults
  \/ /\ Fenced(t)
     /\ SetStage(t, c, "failed")
     /\ SetKnown(t, KnownCompleted(t))
     /\ UNCHANGED <<run, ckpt, journal, faults>>
  \/ /\ Fault
     /\ \/ UNCHANGED <<run, ckpt>>
        \/ LostAnswers /\ ~Fenced(t) /\ Store(t, phase, own, next)
     /\ SetStage(t, c, "failed")
     /\ SetKnown(t, KnownCompleted(t))
     /\ UNCHANGED journal

AppendIntent(t, c, pol, stage) ==
  AppendTo(t, c, "before-tool", {}, WithIntent(t, c, pol),
           [calls[t][c] EXCEPT !.stage = stage])

AppendResult(t, c, value) ==
  AppendTo(t, c, "after-tool", {Completion(Result(t, c, value))},
           WithResult(t, c, value),
           [calls[t][c] EXCEPT !.stage = "done", !.value = value])

-----------------------------------------------------------------------------
(* A call *)

\* Mutant of Staged: only a call that parks its run writes before its effect.
StagedUnlessManual(pol) == pol # "manual-recovery"

\* A pure call's intent waits in memory for the step's next checkpoint.
Staged(pol) == pol = "pure"

\* The durable wrapper runs a call of the model, or one that recovery reruns.
BeforeTool(t, c) ==
  /\ InRound(t)
  /\ calls[t][c].stage = "issued"
  /\ IF Staged(policy[c])
     THEN /\ journal' = [journal EXCEPT ![t] = WithIntent(t, c, policy[c])]
          /\ SetStage(t, c, "ready")
          /\ UNCHANGED <<run, ckpt, known, faults>>
     ELSE AppendIntent(t, c, policy[c], "ready")
  /\ UNCHANGED <<committed, pc, loaded, base, hist, policy, uses, ran, reruns, requests>>

\* The host's hook parks the run; a call that would not wait for a decision
\* is recorded again as one that does.
HookParks(t, c) ==
  /\ InRound(t)
  /\ calls[t][c].stage = "ready"
  /\ faults < MaxFaults
  /\ IF policy[c] = "manual-recovery"
     THEN /\ SetStage(t, c, "parked")
          /\ Fault
          /\ UNCHANGED <<run, ckpt, journal, known>>
     ELSE AppendIntent(t, c, "manual-recovery", "parked")
  /\ UNCHANGED <<committed, pc, loaded, base, hist, policy, uses, ran, reruns, requests>>

\* The hook answers in the tool's place.
HookBlocks(t, c) ==
  /\ InRound(t)
  /\ calls[t][c].stage = "ready"
  /\ faults < MaxFaults
  /\ AppendResult(t, c, Blocked)
  /\ UNCHANGED <<committed, pc, loaded, base, hist, policy, uses, ran, reruns, requests>>

\* The tool's effect, which no fence stops.
RunEffect(t, c) ==
  /\ InRound(t)
  /\ calls[t][c].stage = "ready"
  /\ ran' = ran \cup {[call |-> c, use |-> calls[t][c].use,
                       attempt |-> calls[t][c].attempt, by |-> t]}
  /\ calls' = [calls EXCEPT ![t][c].stage = "ran", ![t][c].value = calls[t][c].attempt]
  /\ UNCHANGED <<storeVars, pc, loaded, base, hist, journal, known, policy, uses, reruns,
                 requests, faults>>

\* afterTool, and afterToolError alike: the outcome is journaled.
AfterTool(t, c) ==
  /\ InRound(t)
  /\ calls[t][c].stage = "ran"
  /\ AppendResult(t, c, calls[t][c].value)
  /\ UNCHANGED <<committed, pc, loaded, base, hist, policy, uses, ran, reruns, requests>>

-----------------------------------------------------------------------------
(* The rounds of a turn *)

\* The model answers with calls, which start together.
Request(t) ==
  /\ pc[t] = "request"
  /\ requests < MaxRequests /\ Work + 1 < MaxWork
  /\ requests' = requests + 1
  /\ \E round \in (SUBSET Call) \ {{}} :
       /\ uses' = [c \in Call |-> IF c \in round THEN uses[c] + 1 ELSE uses[c]]
       /\ calls' = [calls EXCEPT ![t] = [c \in Call |->
            IF c \in round
            THEN [stage |-> "issued", use |-> uses[c] + 1, attempt |-> 1, value |-> 0]
            ELSE NoCall]]
  /\ Goto(t, "round")
  /\ UNCHANGED <<storeVars, loaded, base, hist, journal, known, policy, ran, reruns, faults>>

\* Every call has its outcome: the round joins the history in memory.
FinishRound(t) ==
  /\ InRound(t)
  /\ \A c \in Call : calls[t][c].stage \in {"none", "done"}
  /\ hist' = [hist EXCEPT ![t] =
       WithRound(@, {Entry(c, calls[t][c].use, calls[t][c].value) :
                       c \in {d \in Call : calls[t][d].stage = "done"}})]
  /\ calls' = [calls EXCEPT ![t] = [c \in Call |-> NoCall]]
  /\ Goto(t, "commit")
  /\ UNCHANGED <<storeVars, loaded, base, journal, known, worldVars>>

\* The round is committed under the lease, and only then leaves the journal.
CommitRound(t) ==
  /\ pc[t] = "commit"
  /\ IF OwnsRunning(t)
     THEN /\ committed' = hist[t]
          /\ journal' = [journal EXCEPT ![t].results = {}]
          /\ Goto(t, "request")
          /\ UNCHANGED <<loaded, base, hist, known, calls>>
     ELSE Leave(t) /\ UNCHANGED committed
  /\ UNCHANGED <<run, ckpt, worldVars>>

\* The terminal status of a turn, unless another owner has the run.  A turn
\* that ends in error rolls the thread back to where the turn began.
EndTurn(t, status) ==
  /\ IF Fenced(t)
     THEN UNCHANGED <<run, committed>>
     ELSE /\ run' = WithStatus(run, status)
          /\ committed' = IF status = "error"
                          THEN SubSeq(committed, 1, base[t]) ELSE committed
  /\ Leave(t)
  /\ UNCHANGED ckpt

\* A call that failed or parked ends the turn once the calls beside it are
\* through.  Its run waits for an operator; but a checkpoint that fails while
\* a call is settled by recovery is an error like any other.
StopRound(t) ==
  /\ InRound(t)
  /\ \E c \in Call : calls[t][c].stage \in {"failed", "parked"}
  /\ \A c \in Call : calls[t][c].stage \notin {"issued", "ready", "ran"}
  /\ EndTurn(t, IF pc[t] = "settle" /\ \A c \in Call : calls[t][c].stage # "parked"
                THEN "error" ELSE "needs-recovery")
  /\ UNCHANGED worldVars

\* The model request fails for good.
RequestFails(t) ==
  /\ pc[t] = "request"
  /\ Fault
  /\ EndTurn(t, "error")
  /\ UNCHANGED <<policy, uses, ran, reruns, requests>>

\* The model answers without calls and the turn settles.
Complete(t) ==
  /\ pc[t] = "request"
  /\ EndTurn(t, "completed")
  /\ UNCHANGED worldVars

Die(t) ==
  /\ pc[t] \notin {"unborn", "over"}
  /\ Leave(t)
  /\ UNCHANGED <<storeVars, worldVars>>

-----------------------------------------------------------------------------
(* Recovery *)

\* A claim of a run whose lease lapsed or whose owner is gone.
Claim(t) ==
  /\ pc[t] = "unborn" /\ Work < MaxWork
  /\ \A s \in Attempt : s < t => pc[s] # "unborn"
  /\ ClaimAllowed(run, TRUE, 0)
  /\ run' = ClaimedRun(run, run.lease.attempt + 1, t, NoOwner)
  /\ Goto(t, "claimed")
  /\ UNCHANGED <<ckpt, committed, loaded, base, hist, journal, known, calls, worldVars>>

ParkClaimed(t) ==
  /\ run' = IF TransitionAllowed(run, "leased", t)
            THEN WithLease(run, "needs-recovery", NoLease) ELSE run
  /\ Leave(t)

\* The checkpoint is read after the claim; a call that awaits a decision
\* parks the run.
LoadCheckpoint(t) ==
  /\ pc[t] = "claimed"
  /\ IF \E intent \in ckpt.journal.inflight : AwaitsDecision(intent)
     THEN ParkClaimed(t)
     ELSE /\ loaded' = [loaded EXCEPT ![t] = ckpt]
          /\ Goto(t, "loaded")
          /\ UNCHANGED <<run, base, hist, journal, known, calls>>
  /\ UNCHANGED <<ckpt, committed, worldVars>>

\* Committed history plus the crashed step's finished calls, when the evidence
\* accounts for every completed call.
Prepare(t) ==
  /\ pc[t] = "loaded"
  /\ IF Unrestorable(loaded[t], committed) # {}
     THEN ParkClaimed(t)
     ELSE /\ hist' = [hist EXCEPT ![t] =
               WithRound(committed, RoundOf(Restorable(loaded[t], committed)))]
          /\ base' = [base EXCEPT ![t] = Len(committed)]
          /\ Goto(t, "prepared")
          /\ UNCHANGED <<run, loaded, journal, known, calls>>
  /\ UNCHANGED <<ckpt, committed, worldVars>>

Start(t) ==
  /\ pc[t] = "prepared"
  /\ IF ~IsTerminal(run) /\ run.lease.id = t
     THEN /\ run' = WithStatus(run, "running")
          /\ Goto(t, "restored")
          /\ UNCHANGED <<loaded, base, hist, journal, known, calls>>
     ELSE Leave(t) /\ UNCHANGED run
  /\ UNCHANGED <<ckpt, committed, worldVars>>

\* Mutant of RecoveryDecision: whatever nobody decided on is run again.
RerunUndecided(intent) ==
  IF intent.resolution # Undecided THEN intent.resolution ELSE "rerun"

\* What recovery does with a call whose outcome it does not know.
RecoveryDecision(intent) ==
  IF intent.resolution # Undecided THEN intent.resolution
  ELSE IF intent.policy \in {"pure", "idempotent"} THEN "rerun" ELSE "interrupt"

\* The restored round is committed before the unfinished calls are settled.
CommitRestored(t) ==
  /\ pc[t] = "restored"
  /\ IF hist[t] = committed \/ OwnsRunning(t)
     THEN /\ committed' = hist[t]
          /\ journal' = [journal EXCEPT ![t].inflight = loaded[t].journal.inflight]
          /\ calls' = [calls EXCEPT ![t] = [c \in Call |->
               IF \E intent \in loaded[t].journal.inflight : intent.call = c
               THEN LET intent == CHOOSE i \in loaded[t].journal.inflight : i.call = c
                    IN  [stage |-> "carried", use |-> intent.use,
                         attempt |-> intent.attempt, value |-> 0]
               ELSE NoCall]]
          /\ Goto(t, IF loaded[t].journal.inflight = {} THEN "request" ELSE "settle")
          /\ UNCHANGED <<loaded, base, hist, known>>
     ELSE Leave(t) /\ UNCHANGED committed
  /\ UNCHANGED <<run, ckpt, worldVars>>

\* The carried calls are settled one after the other, until one fails.
Settling(t, intent) ==
  /\ pc[t] = "settle"
  /\ calls[t][intent.call].stage = "carried"
  /\ \A c \in Call : calls[t][c].stage \in {"none", "carried", "done"}

RerunCarried(t, intent) ==
  /\ Settling(t, intent)
  /\ RecoveryDecision(intent) = "rerun"
  /\ calls' = [calls EXCEPT ![t][intent.call].stage = "issued",
                            ![t][intent.call].attempt = intent.attempt + 1]
  /\ UNCHANGED <<storeVars, pc, loaded, base, hist, journal, known, worldVars>>

SettleCarried(t, intent) ==
  LET c     == intent.call
      value == IF RecoveryDecision(intent) = "result" THEN Decided ELSE Interrupted
  IN  /\ Settling(t, intent)
      /\ RecoveryDecision(intent) # "rerun"
      /\ AppendResult(t, c, value)
      /\ UNCHANGED <<committed, pc, loaded, base, hist, policy, uses, ran, reruns, requests>>

-----------------------------------------------------------------------------
(* agent.resolveRecovery(): an operator decides on the calls of a parked run *)

\* Every call that awaits a decision gets one; others may.  The decisions are
\* a new checkpoint, whose version its own completed call takes on.
ResolveRecovery ==
  LET inflight == ckpt.journal.inflight
      awaiting == {intent \in inflight : AwaitsDecision(intent)}
      Decide(intent, d) == [intent EXCEPT !.resolution = d]
  IN  /\ run.status = "needs-recovery"
      /\ Fault
      /\ \E decided \in {s \in SUBSET inflight : awaiting \subseteq s} :
           \E decision \in [decided -> Decision] :
             LET version == IF decided = {} THEN run.checkpointVersion
                            ELSE run.checkpointVersion + 1 IN
             /\ ckpt' = IF decided = {} THEN ckpt ELSE
                  [ckpt EXCEPT
                     !.own = {[call EXCEPT !.version = version] : call \in @},
                     !.journal.inflight =
                       (@ \ decided) \cup {Decide(i, decision[i]) : i \in decided}]
             /\ run' = [WithLease(run, "queued", NoLease) EXCEPT !.checkpointVersion = version]
             /\ reruns' = reruns \cup
                   {[call |-> i.call, use |-> i.use, attempt |-> i.attempt] :
                      i \in {j \in decided : decision[j] = "rerun"}}
      /\ UNCHANGED <<committed, attemptVars, policy, uses, ran, requests>>

-----------------------------------------------------------------------------
Init ==
  /\ run = [status |-> "running", checkpointVersion |-> 0,
            lease |-> [id |-> 1, attempt |-> 1, owner |-> NoOwner]]
  /\ ckpt = NoCheckpoint
  /\ committed = <<>>
  /\ pc = [t \in Attempt |-> IF t = 1 THEN "request" ELSE "unborn"]
  /\ loaded = [t \in Attempt |-> NoCheckpoint]
  /\ base = [t \in Attempt |-> 0]
  /\ hist = [t \in Attempt |-> <<>>]
  /\ journal = [t \in Attempt |-> EmptyJournal]
  /\ known = [t \in Attempt |-> NothingRead]
  /\ calls = [t \in Attempt |-> [c \in Call |-> NoCall]]
  /\ policy \in [Call -> Policy]
  /\ uses = [c \in Call |-> 0]
  /\ ran = {} /\ reruns = {}
  /\ requests = 0 /\ faults = 0

CallStep(t) ==
  \E c \in Call : BeforeTool(t, c) \/ HookParks(t, c) \/ HookBlocks(t, c)
                    \/ RunEffect(t, c) \/ AfterTool(t, c)

RoundStep(t) ==
  Request(t) \/ FinishRound(t) \/ CommitRound(t) \/ StopRound(t)
    \/ RequestFails(t) \/ Complete(t)

RecoveryStep(t) ==
  \/ LoadCheckpoint(t) \/ Prepare(t) \/ Start(t) \/ CommitRestored(t)
  \/ \E intent \in journal[t].inflight : RerunCarried(t, intent) \/ SettleCarried(t, intent)

Next ==
  \/ \E t \in Attempt : CallStep(t) \/ RoundStep(t) \/ RecoveryStep(t) \/ Claim(t) \/ Die(t)
  \/ ResolveRecovery

Spec == Init /\ [][Next]_vars

-----------------------------------------------------------------------------
(* Properties *)

Entries == [call : Call, use : Nat, value : Int]
History == Seq(SUBSET Entries)
Completions == [call : Call, prior : Nat, version : Nat]
Journal == [inflight : SUBSET [call : Call, use : Nat, attempt : Nat, policy : Policy,
                               resolution : Decision \cup {Undecided}],
            results  : SUBSET [call : Call, use : Nat, value : Int, prior : Nat,
                               version : Nat]]
Checkpoint == [phase : {"none", "before-tool", "after-tool"},
               own : SUBSET Completions, completed : SUBSET Completions, journal : Journal]
Record == [status : Status, checkpointVersion : Nat,
           lease : [id : Nat, attempt : Nat, owner : {NoOwner}]]

\* Every variable has its shape: among others, checkpoints keep of a completed
\* call what identifies it, and of an intent what recovery needs.
TypeOK ==
  /\ run \in Record /\ ckpt \in Checkpoint /\ committed \in History
  /\ pc \in [Attempt -> PC]
  /\ loaded \in [Attempt -> Checkpoint]
  /\ base \in [Attempt -> Nat]
  /\ hist \in [Attempt -> History]
  /\ journal \in [Attempt -> Journal]
  /\ known \in [Attempt -> [read : BOOLEAN, calls : SUBSET Completions]]
  /\ calls \in [Attempt -> [Call -> [stage : CallStage, use : Nat, attempt : Nat,
                                     value : Int]]]
  /\ policy \in [Call -> Policy] /\ uses \in [Call -> Nat]
  /\ ran \subseteq [call : Call, use : Nat, attempt : Nat, by : Attempt]
  /\ reruns \subseteq [call : Call, use : Nat, attempt : Nat]
  /\ requests \in Nat /\ faults \in Nat

Use == [call : Call, use : 1 .. MaxRequests]

IsUse(x, u) == x.call = u.call /\ x.use = u.use

\* A call whose effect must not be repeated runs at most once, and once more
\* for every rerun an operator decided on, whichever attempts ran beside each
\* other and wherever they died.
EffectsAtMostOnce ==
  \A u \in Use :
    policy[u.call] \in {"interrupt", "manual-recovery"} =>
      Cardinality({e \in ran : IsUse(e, u)}) <= 1 + Cardinality({d \in reruns : IsUse(d, u)})

\* An idempotent tool never sees two runs of a call with the same attempt.
AttemptsDiffer ==
  \A d, e \in ran :
    /\ policy[d.call] = "idempotent"
    /\ d.call = e.call /\ d.use = e.use /\ d.attempt = e.attempt
    => d = e

\* The outcome a call has in the store: committed, or saved in the journal.
SavedIn(u) ==
  {r.value : r \in {x \in ckpt.journal.results : IsUse(x, u)}}
    \cup {e.value : e \in {x \in UNION {committed[k] : k \in DOMAIN committed} : IsUse(x, u)}}

\* A saved outcome is never lost or replaced, through any crash and recovery.
\* Only a turn that ends in error gives up what it did.
SavedOutcomeStays ==
  [][\/ UNCHANGED <<ckpt, committed>>
     \/ run'.status = "error"
     \/ \A u \in Use : SavedIn(u) # {} => SavedIn(u)' = SavedIn(u)]_vars

\* The owner of the run never runs a call whose outcome is saved.
OwnerNeverReruns ==
  [][\A e \in ran' \ ran :
       run.status = "running" /\ run.lease.id = e.by => SavedIn(e) = {}]_ran

\* Committed history has each call once.
CallsCommittedOnce ==
  \A j, k \in DOMAIN committed : \A d \in committed[j], e \in committed[k] :
    d.call = e.call /\ d.use = e.use => j = k /\ d = e

\* Whoever holds the run and asks its model again knows of every effect that
\* had to be recorded, including those of attempts that died in the middle.
EffectsKnownToModel ==
  \A t \in Attempt :
    pc[t] = "request" /\ OwnsRunning(t) =>
      \A e \in ran : policy[e.call] # "pure" =>
        \E k \in DOMAIN hist[t] : \E entry \in hist[t][k] : IsUse(entry, e)

\* The evidence kept in checkpoints accounts for every completed call: no
\* recovery gives up on results it cannot find.
EvidenceSuffices ==
  \A t \in Attempt :
    pc[t] = "loaded" /\ TransitionAllowed(run, "leased", t) =>
      Unrestorable(loaded[t], committed) = {}
=============================================================================

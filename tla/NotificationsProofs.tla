------------------------ MODULE NotificationsProofs ------------------------
(***************************************************************************)
(* Theorems about Notifications, for every set of dispatches, keys and     *)
(* passes, and any number of attempts, crashes and failures.               *)
(***************************************************************************)
EXTENDS Notifications, FiniteSetTheorems, TLAPS

Queued(c) == run[c].status = "queued"

\* As much of the shapes of the variables as the proofs need.
Shapes ==
  /\ DOMAIN run = Call /\ \A c \in Call : DOMAIN run[c] = {"status", "lease"}
  /\ DOMAIN note = Key
  /\ DOMAIN row = Work /\ \A w \in Work : DOMAIN row[w] = Call
  /\ call \in [Call -> [pc : {"idle", "lookup", "create", "wake", "done"}, answer : Call \cup {NoRun}]]
  /\ DOMAIN pass = Drainer /\ \A p \in Drainer : DOMAIN pass[p] = {"pc", "w", "c", "token", "seen"}
  /\ \A d \in duty : DOMAIN d = {"w", "c", "token", "lease", "then"}
  /\ DOMAIN drain = {"pc", "item", "restart", "callers", "parked"}

\* A run that exists is the one its key's notification names.
Named == \A c \in Call : Exists(c) => note[KeyOf[c]] = c

\* A dispatch that answers, or is about to, has found a run of its key.
Answered ==
  \A c \in Call : call[c].pc \in {"wake", "done"} =>
    call[c].answer \in Call /\ Exists(call[c].answer) /\ KeyOf[call[c].answer] = KeyOf[c]

\* A turn under way has a run.
TurnExists ==
  drain.pc \in {"commit", "body"} /\ drain.item.c \in Call => Exists(drain.item.c)

\* Whoever may drop the prompt of a run has seen it claimed: it is not queued,
\* and never will be again.
Spent(c) == c \in Call /\ Exists(c) /\ ~Queued(c)

PassSpent(p) ==
  /\ pass[p].pc = "inspect" => pass[p].w = "check"
  /\ pass[p].pc = "notify" => Spent(pass[p].c)
  /\ pass[p].pc = "ack" /\ pass[p].w = "prompt" => Spent(pass[p].c)
  /\ pass[p].pc # "idle" => pass[p].c \in Call

PromptsSpent ==
  /\ \A p \in Drainer : PassSpent(p)
  /\ \A d \in duty : Spent(d.c)

DispatchInv == Shapes /\ Named /\ Answered /\ TurnExists /\ PromptsSpent /\ QueuedRunsAreWoken

-----------------------------------------------------------------------------
(* What a step may do to the store *)

\* No run comes or goes, and none is queued again.
RunsKept == \A c \in Call : (Exists(c) <=> Exists(c)') /\ (Queued(c)' => Queued(c))

\* The prompts of queued runs stay.
PromptsKept == \A c \in Call : Queued(c) /\ row["prompt"][c].set => row'["prompt"][c].set

RunShape == DOMAIN run = Call /\ \A c \in Call : DOMAIN run[c] = {"status", "lease"}
RowShape == DOMAIN row = Work /\ \A w \in Work : DOMAIN row[w] = Call

LEMMA RowSet ==
  ASSUME RowShape, NEW w, NEW c, NEW r, SetRow(w, c, r)
  PROVE  /\ RowShape'
         /\ \A v \in Work, d \in Call :
              row'[v][d] = IF v = w /\ d = c THEN r ELSE row[v][d]
  BY DEF RowShape, SetRow, Work

LEMMA PromptInserted ==
  ASSUME RowShape, NEW c \in Call, InsertPrompt(c)
  PROVE  RowShape' /\ PromptsKept /\ row'["prompt"][c].set
  BY DEF RowShape, InsertPrompt, PromptsKept, Work, FreeRow, NoRow

LEMMA CheckSet ==
  ASSUME RowShape, NEW c, NEW r, SetRow("check", c, r)
  PROVE  RowShape' /\ PromptsKept
  BY RowSet DEF PromptsKept, Work

LEMMA RowAcked ==
  ASSUME RowShape, NEW w, NEW c \in Call, NEW t, AckRow(w, c, t),
         w = "prompt" => ~Queued(c)
  PROVE  RowShape' /\ PromptsKept
  BY RowSet DEF PromptsKept, Work, AckRow

LEMMA RowRetried ==
  ASSUME RowShape, NEW w, NEW c \in Call, NEW t, RetryRow(w, c, t)
  PROVE  RowShape' /\ PromptsKept
  BY RowSet DEF PromptsKept, Work, RetryRow, FreeRow, NoRow

LEMMA StatusSet ==
  ASSUME RunShape, NEW c, c \in Call => Exists(c), NEW s \in Status \ {"queued", Absent},
         run' = [run EXCEPT ![c].status = s]
  PROVE  RunShape' /\ RunsKept
  BY DEF RunShape, RunsKept, Exists, Queued, Status, Absent

\* The inductive step for one that makes no record of a dispatch.
LEMMA StoreKept ==
  ASSUME DispatchInv, RunsKept, PromptsKept, UNCHANGED <<note, call>>
  PROVE  Named' /\ Answered' /\ QueuedRunsAreWoken' /\ \A c : Spent(c) => Spent(c)'
  BY DEF DispatchInv, RunsKept, PromptsKept, Named, Answered, QueuedRunsAreWoken, Spent, Queued, Exists

LEMMA InitInv == Init => DispatchInv
  BY NotificationConstantsOK DEF Init, DispatchInv, Shapes, Named, Answered, TurnExists, PromptsSpent, PassSpent,
     QueuedRunsAreWoken, Queued, Spent, Exists, AbsentRun, Absent, NoRow, NoCall, NoPass, IdleDrain

-----------------------------------------------------------------------------
(* Dispatches *)

CallShape ==
  call \in [Call -> [pc : {"idle", "lookup", "create", "wake", "done"}, answer : Call \cup {NoRun}]]

LEMMA CalledTo ==
  ASSUME CallShape, NEW c \in Call, NEW pc \in {"idle", "lookup", "create", "wake", "done"},
         NEW answer \in Call \cup {NoRun}, CallTo(c, pc, answer)
  PROVE  /\ CallShape'
         /\ call'[c].pc = pc /\ call'[c].answer = answer
         /\ \A d \in Call \ {c} : call'[d] = call[d]
  BY DEF CallShape, CallTo

\* A call whose move leaves the store alone, but for a prompt it adds.
LEMMA CallMoves ==
  ASSUME DispatchInv, NEW c \in Call, NEW pc \in {"idle", "lookup", "create", "wake", "done"},
         NEW answer \in Call \cup {NoRun}, CallTo(c, pc, answer),
         pc \in {"wake", "done"} => answer \in Call /\ Exists(answer) /\ KeyOf[answer] = KeyOf[c],
         RowShape', PromptsKept, UNCHANGED <<run, note, pass, duty, drain>>
  PROVE  DispatchInv'
<1>1. CallShape
  BY DEF DispatchInv, Shapes, CallShape
<1>2. Shapes'
  BY <1>1, CalledTo DEF DispatchInv, Shapes, CallShape, RowShape
<1>3. Answered'
  BY <1>1, CalledTo DEF DispatchInv, Answered, Exists
<1>4. Named' /\ TurnExists' /\ PromptsSpent'
  BY DEF DispatchInv, Named, TurnExists, PromptsSpent, PassSpent, Spent, Queued, Exists
<1>5. QueuedRunsAreWoken'
  BY DEF DispatchInv, QueuedRunsAreWoken, PromptsKept, Queued
<1>6. QED
  BY <1>2, <1>3, <1>4, <1>5 DEF DispatchInv

LEMMA RowsStay == DispatchInv => RowShape /\ RunShape
  BY DEF DispatchInv, Shapes, RowShape, RunShape

LEMMA SameRows == ASSUME RowShape, UNCHANGED row PROVE RowShape' /\ PromptsKept
  BY DEF RowShape, PromptsKept

LEMMA LookUpKeeps ==
  ASSUME DispatchInv, NEW c \in Call, LookUp(c)
  PROVE  DispatchInv'
<1>1. RowShape' /\ PromptsKept
  BY RowsStay, SameRows DEF LookUp, storeVars
<1>2. CASE CallTo(c, "create", NoRun)
  BY <1>1, <1>2, CallMoves DEF LookUp, storeVars, threadVars
<1>3. CASE \E r \in RunsOf(KeyOf[c]) : CallTo(c, IF IsTerminal(run[r]) THEN "done" ELSE "wake", r)
  <2>1. PICK r \in RunsOf(KeyOf[c]) : CallTo(c, IF IsTerminal(run[r]) THEN "done" ELSE "wake", r)
    BY <1>3
  <2>2. r \in Call /\ Exists(r) /\ KeyOf[r] = KeyOf[c]
    BY DEF RunsOf
  <2>3. PICK pc \in {"done", "wake"} : CallTo(c, pc, r)
    BY <2>1
  <2>4. QED
    BY <1>1, <2>2, <2>3, CallMoves DEF LookUp, storeVars, threadVars
<1>4. QED
  BY <1>2, <1>3 DEF LookUp

\* The records of a dispatch, whether it is answered or not.
LEMMA RecordsKeep ==
  ASSUME DispatchInv, NEW c \in Call, Records(c), NEW pc \in {"idle", "done"},
         NEW answer \in Call \cup {NoRun}, CallTo(c, pc, answer), pc = "done" => answer = c,
         UNCHANGED <<pass, duty, drain>>
  PROVE  DispatchInv'
<1>1. CallShape /\ KeyOf \in [Call -> Key] /\ RunShape /\ RowShape
  BY NotificationConstantsOK, RowsStay DEF DispatchInv, Shapes, CallShape
<1>2. RunShape' /\ Exists(c)' /\ ~Exists(c) /\ \A d \in Call \ {c} : run'[d] = run[d]
  BY <1>1 DEF Records, RunShape, Exists, Absent, RunsOf
<1>3. DOMAIN note' = Key /\ note'[KeyOf[c]] = c /\ \A k \in Key \ {KeyOf[c]} : note'[k] = note[k]
  BY <1>1 DEF Records, DispatchInv, Shapes
<1>4. RowShape' /\ PromptsKept /\ row'["prompt"][c].set
  BY <1>1, PromptInserted DEF Records
<1>5. Shapes'
  BY <1>1, <1>2, <1>3, <1>4, CalledTo DEF DispatchInv, Shapes, CallShape, RowShape, RunShape
<1>6. Named'
  BY <1>1, <1>2, <1>3 DEF DispatchInv, Named, Records, RunsOf, Exists
<1>7. Answered'
  BY <1>1, <1>2, CalledTo DEF DispatchInv, Answered, Exists
<1>8. TurnExists'
  BY <1>2 DEF DispatchInv, TurnExists, Exists
<1>9. QueuedRunsAreWoken'
  BY <1>2, <1>4 DEF DispatchInv, QueuedRunsAreWoken, PromptsKept, Queued
<1>10. PromptsSpent'
  BY <1>2 DEF DispatchInv, PromptsSpent, PassSpent, Spent, Queued, Exists
<1>11. QED
  BY <1>5, <1>6, <1>7, <1>8, <1>9, <1>10 DEF DispatchInv

LEMMA CreateKeeps == ASSUME DispatchInv, NEW c \in Call, Create(c) PROVE DispatchInv'
  BY RecordsKeep DEF Create, threadVars

LEMMA DeduplicateKeeps == ASSUME DispatchInv, NEW c \in Call, Deduplicate(c) PROVE DispatchInv'
<1>1. RowShape' /\ PromptsKept
  BY RowsStay, SameRows DEF Deduplicate, storeVars
<1>2. QED
  BY <1>1, CallMoves DEF Deduplicate, storeVars, threadVars

LEMMA WakeKeeps == ASSUME DispatchInv, NEW c \in Call, Wake(c) PROVE DispatchInv'
<1>1. call[c].answer \in Call /\ Exists(call[c].answer) /\ KeyOf[call[c].answer] = KeyOf[c]
  BY DEF DispatchInv, Answered, Wake, CallAt
<1>2. RowShape' /\ PromptsKept
  BY <1>1, RowsStay, PromptInserted DEF Wake
<1>3. QED
  BY <1>1, <1>2, CallMoves DEF Wake, threadVars

LEMMA DispatchFailsKeeps == ASSUME DispatchInv, NEW c \in Call, DispatchFails(c) PROVE DispatchInv'
<1>0. UNCHANGED <<pass, duty, drain>> /\ CallTo(c, "idle", NoRun)
  BY DEF DispatchFails, threadVars
<1>1. CASE Records(c)
  BY <1>0, <1>1, RecordsKeep
<1>2. CASE CallAt(c, "wake") /\ InsertPrompt(call[c].answer) /\ UNCHANGED <<run, note>>
  <2>1. call[c].answer \in Call
    BY <1>2 DEF DispatchInv, Answered, CallAt
  <2>2. RowShape' /\ PromptsKept
    BY <1>2, <2>1, RowsStay, PromptInserted
  <2>3. QED
    BY <1>0, <1>2, <2>2, CallMoves
<1>3. CASE UNCHANGED <<run, note, row>>
  <2>1. RowShape' /\ PromptsKept
    BY <1>3, RowsStay, SameRows
  <2>2. QED
    BY <1>0, <1>3, <2>1, CallMoves
<1>4. QED
  BY <1>1, <1>2, <1>3 DEF DispatchFails

LEMMA DispatchingKeeps == ASSUME DispatchInv, NEW c \in Call, Dispatching(c) PROVE DispatchInv'
  BY LookUpKeeps, CreateKeeps, DeduplicateKeeps, WakeKeeps, DispatchFailsKeeps
     DEF Dispatching, Dispatch, LookUpAgain

-----------------------------------------------------------------------------
(* The thread *)

DrainShape == DOMAIN drain = {"pc", "item", "restart", "callers", "parked"}
PassShape == DOMAIN pass = Drainer /\ \A p \in Drainer : DOMAIN pass[p] = {"pc", "w", "c", "token", "seen"}

DutyFields == {"w", "c", "token", "lease", "then"}

\* Duties are passed on, or taken up for a run that was claimed.
DutiesKept ==
  \A d \in duty' : \/ \E e \in duty : d.c = e.c /\ DOMAIN d = DOMAIN e
                   \/ DOMAIN d = DutyFields /\ Spent(d.c)'

\* The step of a pass or of the thread keeps the invariant when it keeps
\* runs, prompts and duties, and the parts that are its own.
LEMMA StepKeeps ==
  ASSUME DispatchInv, RunShape', RowShape', RunsKept, PromptsKept, UNCHANGED <<note, call>>,
         DrainShape', TurnExists', PassShape', \A p \in Drainer : PassSpent(p)', DutiesKept
  PROVE  DispatchInv'
<1>1. Named' /\ Answered' /\ QueuedRunsAreWoken' /\ \A c : Spent(c) => Spent(c)'
  BY StoreKept
<1>2. (\A d \in duty' : DOMAIN d = DutyFields) /\ (\A d \in duty : Spent(d.c))
  BY DEF DispatchInv, Shapes, DutiesKept, DutyFields, PromptsSpent
<1>3. PromptsSpent'
  BY <1>1, <1>2 DEF PromptsSpent, DutiesKept
<1>4. Shapes'
  BY <1>2 DEF DispatchInv, Shapes, RunShape, RowShape, DrainShape, PassShape, DutyFields
<1>5. QED
  BY <1>1, <1>3, <1>4 DEF DispatchInv

LEMMA ThreadKeeps ==
  ASSUME DispatchInv, RunShape', RowShape', RunsKept, PromptsKept, UNCHANGED <<note, call, pass>>,
         DrainShape', TurnExists', DutiesKept
  PROVE  DispatchInv'
<1>1. \A c : Spent(c) => Spent(c)'
  BY StoreKept
<1>2. \A p \in Drainer : PassSpent(p)'
  BY <1>1 DEF DispatchInv, PromptsSpent, PassSpent
<1>3. PassShape'
  BY DEF DispatchInv, Shapes, PassShape
<1>4. QED
  BY <1>2, <1>3, StepKeeps

LEMMA SameRuns == ASSUME RunShape, UNCHANGED run PROVE RunShape' /\ RunsKept
  BY DEF RunShape, RunsKept, Exists, Queued

LEMMA SameDuties == UNCHANGED duty => DutiesKept
  BY DEF DutiesKept

LEMMA EndedDuties ==
  ASSUME DispatchInv, NEW items, NEW then, duty' = Ended(items, then)
  PROVE  DutiesKept
<1>1. \A d \in duty' : \E e \in duty : d = e \/ d = [e EXCEPT !.then = then]
  BY DEF Ended
<1>2. \A e \in duty : DOMAIN e = DutyFields
  BY DEF DispatchInv, Shapes, DutyFields
<1>3. QED
  BY <1>1, <1>2 DEF DutiesKept, DutyFields

\* The loop is left, or goes on, without a turn.
NoTurnRuns == DrainShape /\ drain.pc \notin {"commit", "body"}

LEMMA LoopLeft == ASSUME DrainShape, drain' = LeftLoop PROVE NoTurnRuns'
  BY DEF DrainShape, NoTurnRuns, LeftLoop, IdleDrain

LEMMA LoopGoesOn == ASSUME DrainShape, NextItem PROVE NoTurnRuns'
  BY DEF DrainShape, NoTurnRuns, NextItem

LEMMA NoneNeedsRun == NoTurnRuns => DrainShape /\ TurnExists
  BY DEF NoTurnRuns, TurnExists

\* A start finds a run, and leaves it running.
LEMMA StartedRuns ==
  ASSUME DispatchInv, Started(drain.item)
  PROVE  /\ RunShape' /\ RowShape' /\ RunsKept /\ PromptsKept
         /\ \A c \in Call : c = drain.item.c => Exists(c)'
<1>1. RunShape /\ RowShape
  BY RowsStay
<1>2. Exists(drain.item.c)
  BY DEF Started, StartAllowed, OwnedOpen, TransitionAllowed, Exists
<1>3. RunShape' /\ RunsKept
  BY <1>1, <1>2 DEF RunShape, RunsKept, Started, Exists, Queued, Absent
<1>4. RowShape' /\ PromptsKept
  BY <1>1, CheckSet DEF Started
<1>5. QED
  BY <1>2, <1>3, <1>4 DEF RunsKept

\* A settlement settles a run that exists.
LEMMA SettledRuns ==
  ASSUME DispatchInv, NEW c, c \in Call => Exists(c), Settled(c)
  PROVE  RunShape' /\ RowShape' /\ RunsKept /\ PromptsKept
<1>1. RunShape /\ RowShape
  BY RowsStay
<1>2. PICK s \in TerminalStatus : run' = [run EXCEPT ![c].status = s]
  BY DEF Settled
<1>3. s \in Status \ {"queued", Absent}
  BY DEF Status, TerminalStatus, Absent
<1>4. RunShape' /\ RunsKept
  BY <1>1, <1>2, <1>3, StatusSet
<1>5. RowShape' /\ PromptsKept
  BY <1>1, CheckSet DEF Settled
<1>6. QED
  BY <1>4, <1>5

LEMMA UserSendsKeeps == ASSUME DispatchInv, UserSends PROVE DispatchInv'
<1>1. RunShape' /\ RunsKept /\ RowShape' /\ PromptsKept
  BY RowsStay, SameRuns, SameRows DEF UserSends, storeVars
<1>2. DrainShape' /\ TurnExists'
  BY DEF DispatchInv, Shapes, UserSends, Enqueue, DrainShape, TurnExists, IdleDrain, Draining, Exists, storeVars
<1>3. QED
  BY <1>1, <1>2, SameDuties, ThreadKeeps DEF UserSends, storeVars

\* The drain alone moves, and leaves the turn it had or starts none.
LEMMA DrainMoves ==
  ASSUME DispatchInv, UNCHANGED storeVars, UNCHANGED <<call, pass>>, DrainShape', TurnExists', DutiesKept
  PROVE  DispatchInv'
<1>1. RunShape' /\ RunsKept /\ RowShape' /\ PromptsKept
  BY RowsStay, SameRuns, SameRows DEF storeVars
<1>2. QED
  BY <1>1, ThreadKeeps DEF storeVars

LEMMA DrainLoopKeeps == ASSUME DispatchInv, DrainLoop PROVE DispatchInv'
<1>1. DrainShape
  BY DEF DispatchInv, Shapes, DrainShape
<1>2. NoTurnRuns'
  <2>1. CASE drain' = LeftLoop
    BY <1>1, <2>1, LoopLeft
  <2>2. CASE drain' = [drain EXCEPT !.pc = "start", !.item = Head(queue)]
    BY <1>1, <2>2 DEF DrainShape, NoTurnRuns
  <2>3. QED
    BY <2>1, <2>2 DEF DrainLoop
<1>3. DrainShape' /\ TurnExists'
  BY <1>2, NoneNeedsRun DEF NoTurnRuns, TurnExists, DrainShape
<1>4. QED
  BY <1>3, SameDuties, DrainMoves DEF DrainLoop, storeVars

LEMMA StartTurnKeeps == ASSUME DispatchInv, StartTurn PROVE DispatchInv'
<1>1. RunShape' /\ RowShape' /\ RunsKept /\ PromptsKept /\ \A c \in Call : c = drain.item.c => Exists(c)'
  BY StartedRuns DEF StartTurn
<1>2. DrainShape' /\ drain'.item = drain.item
  BY DEF DispatchInv, Shapes, DrainShape, StartTurn
<1>3. TurnExists'
  BY <1>1, <1>2 DEF TurnExists
<1>4. QED
  BY <1>1, <1>2, <1>3, SameDuties, ThreadKeeps DEF StartTurn

\* A loop that is left needs no run.
LEMMA LeavesLoop ==
  ASSUME DispatchInv, drain' = LeftLoop \/ NextItem
  PROVE  DrainShape' /\ TurnExists'
  BY LoopLeft, LoopGoesOn DEF DispatchInv, Shapes, DrainShape, NoTurnRuns, TurnExists

LEMMA StartRefusedKeeps == ASSUME DispatchInv, StartRefused PROVE DispatchInv'
  BY LeavesLoop, EndedDuties, DrainMoves DEF StartRefused, storeVars

LEMMA StartFailsKeeps == ASSUME DispatchInv, StartFails PROVE DispatchInv'
<1>1. RunShape' /\ RowShape' /\ RunsKept /\ PromptsKept
  <2>1. CASE Started(drain.item)
    BY <2>1, StartedRuns
  <2>2. CASE UNCHANGED <<run, row>>
    BY <2>2, RowsStay, SameRuns, SameRows
  <2>3. QED
    BY <2>1, <2>2 DEF StartFails
<1>2. QED
  BY <1>1, LeavesLoop, EndedDuties, ThreadKeeps DEF StartFails

LEMMA CommitInputKeeps == ASSUME DispatchInv, CommitInput PROVE DispatchInv'
<1>1. RunShape' /\ RowShape' /\ RunsKept /\ PromptsKept
  BY RowsStay, SameRuns, SameRows DEF CommitInput
<1>2. DrainShape' /\ TurnExists'
  BY DEF DispatchInv, Shapes, DrainShape, CommitInput, TurnExists, Draining, Exists
<1>3. QED
  BY <1>1, <1>2, SameDuties, ThreadKeeps DEF CommitInput

LEMMA BodyHasRun == DispatchInv /\ Draining("body") => (drain.item.c \in Call => Exists(drain.item.c))
  BY DEF DispatchInv, TurnExists, Draining

LEMMA SettleTurnKeeps == ASSUME DispatchInv, SettleTurn PROVE DispatchInv'
<1>1. RunShape' /\ RowShape' /\ RunsKept /\ PromptsKept
  BY BodyHasRun, SettledRuns DEF SettleTurn
<1>2. QED
  BY <1>1, LeavesLoop, EndedDuties, ThreadKeeps DEF SettleTurn

LEMMA SettleFailsKeeps == ASSUME DispatchInv, SettleFails PROVE DispatchInv'
<1>1. RunShape' /\ RowShape' /\ RunsKept /\ PromptsKept
  <2>1. CASE Settled(drain.item.c)
    BY <2>1, BodyHasRun, SettledRuns DEF SettleFails
  <2>2. CASE UNCHANGED <<run, row>>
    BY <2>2, RowsStay, SameRuns, SameRows
  <2>3. QED
    BY <2>1, <2>2 DEF SettleFails
<1>2. DutiesKept
  <2>1. \A d \in duty' : \E e \in duty : d = e \/ d = [e EXCEPT !.then = "retry"] \/ d = [e EXCEPT !.then = "ack"]
    BY DEF SettleFails
  <2>2. \A e \in duty : DOMAIN e = DutyFields
    BY DEF DispatchInv, Shapes, DutyFields
  <2>3. QED
    BY <2>1, <2>2 DEF DutiesKept, DutyFields
<1>3. QED
  BY <1>1, <1>2, LeavesLoop, ThreadKeeps DEF SettleFails

LEMMA UserTurnKeeps == ASSUME DispatchInv, UserStarts \/ UserEnds \/ UserBlocked PROVE DispatchInv'
<1>0. User \notin Call
  BY NotificationConstantsOK
<1>1. CASE UserStarts
  <2>1. DrainShape' /\ TurnExists'
    BY <1>0, <1>1 DEF DispatchInv, Shapes, DrainShape, UserStarts, Ours, TurnExists
  <2>2. QED
    BY <1>1, <2>1, SameDuties, DrainMoves DEF UserStarts
<1>2. CASE UserEnds
  BY <1>2, LeavesLoop, SameDuties, DrainMoves DEF UserEnds
<1>3. CASE UserBlocked
  <2>1. DrainShape' /\ TurnExists'
    BY <1>3 DEF DispatchInv, Shapes, DrainShape, UserBlocked, TurnExists
  <2>2. QED
    BY <1>3, <2>1, SameDuties, DrainMoves DEF UserBlocked
<1>4. QED
  BY <1>1, <1>2, <1>3

LEMMA ParkKeeps == ASSUME DispatchInv, ParkNext \/ Parked PROVE DispatchInv'
<1>1. CASE ParkNext
  <2>1. PICK item : /\ run' = IF OwnedOpen(item) THEN [run EXCEPT ![item.c] = WithStatus(@, "cancelled")] ELSE run
                    /\ duty' = Ended({item}, "ack")
    BY <1>1 DEF ParkNext
  <2>2. RunShape' /\ RunsKept
    BY <2>1, RowsStay DEF RunShape, RunsKept, OwnedOpen, TransitionAllowed, WithStatus, Exists, Queued, Absent
  <2>3. RowShape' /\ PromptsKept
    BY <1>1, RowsStay, SameRows DEF ParkNext
  <2>4. DrainShape' /\ TurnExists'
    BY <1>1 DEF DispatchInv, Shapes, DrainShape, ParkNext, Draining, TurnExists
  <2>5. QED
    BY <1>1, <2>1, <2>2, <2>3, <2>4, EndedDuties, ThreadKeeps DEF ParkNext
<1>2. CASE Parked
  BY <1>2, LeavesLoop, SameDuties, DrainMoves DEF Parked
<1>3. QED
  BY <1>1, <1>2

LEMMA ThreadStepKeeps == ASSUME DispatchInv, Thread PROVE DispatchInv'
  BY DrainLoopKeeps, StartTurnKeeps, StartRefusedKeeps, StartFailsKeeps, CommitInputKeeps, SettleTurnKeeps,
     SettleFailsKeeps, UserTurnKeeps, ParkKeeps DEF Thread

-----------------------------------------------------------------------------
(* Passes *)

LEMMA PassParts ==
  DispatchInv => PassShape /\ DrainShape /\ TurnExists /\ RunShape /\ RowShape /\ \A p \in Drainer : PassSpent(p)
  BY DEF DispatchInv, Shapes, PassShape, DrainShape, RunShape, RowShape, PromptsSpent

\* The pass p alone moves; the thread may take an item.
LEMMA PassMoves ==
  ASSUME DispatchInv, NEW p \in Drainer, RunShape', RowShape', RunsKept, PromptsKept, UNCHANGED <<note, call>>,
         DrainShape', TurnExists', DutiesKept, NEW q, pass' = [pass EXCEPT ![p] = q],
         DOMAIN q = {"pc", "w", "c", "token", "seen"},
         q.pc = "inspect" => q.w = "check",
         q.pc = "notify" => Spent(q.c)',
         q.pc = "ack" /\ q.w = "prompt" => Spent(q.c)',
         q.pc # "idle" => q.c \in Call
  PROVE  DispatchInv'
<1>1. \A c : Spent(c) => Spent(c)'
  BY StoreKept
<1>2. PassShape' /\ pass'[p] = q /\ \A o \in Drainer \ {p} : pass'[o] = pass[o]
  BY PassParts DEF PassShape
<1>3. PassSpent(p)'
  BY <1>2 DEF PassSpent, Spent, Queued, Exists
<1>4. ASSUME NEW o \in Drainer \ {p} PROVE PassSpent(o)'
  BY <1>1, <1>2, PassParts DEF PassSpent
<1>5. QED
  BY <1>2, <1>3, <1>4, StepKeeps

\* The thread and the duties are left alone.
LEMMA PassAlone ==
  ASSUME DispatchInv, RunsKept, UNCHANGED <<duty, threadVars>>
  PROVE  DrainShape' /\ TurnExists' /\ DutiesKept
  BY PassParts, SameDuties DEF threadVars, DrainShape, TurnExists, RunsKept

LEMMA TakeRowKeeps ==
  ASSUME DispatchInv, NEW p \in Drainer, NEW w \in Work, NEW c \in Call, TakeRow(p, w, c)
  PROVE  DispatchInv'
<1> DEFINE q == [NoPass EXCEPT !.pc = IF w = "check" THEN "inspect" ELSE "read", !.w = w, !.c = c, !.token = FreshToken]
<1>1. RunShape' /\ RunsKept
  BY PassParts, SameRuns DEF TakeRow
<1>2. RowShape' /\ PromptsKept
  BY PassParts, RowSet DEF TakeRow, PromptsKept, Work
<1>3. DrainShape' /\ TurnExists' /\ DutiesKept
  BY <1>1, PassAlone DEF TakeRow
<1>4. /\ DOMAIN q = {"pc", "w", "c", "token", "seen"} /\ q.w = w /\ q.c = c
      /\ q.pc = IF w = "check" THEN "inspect" ELSE "read"
  BY DEF NoPass
<1>5. pass' = [pass EXCEPT ![p] = q] /\ UNCHANGED <<note, call>>
  BY DEF TakeRow
<1> HIDE DEF q
<1>6. QED
  BY <1>1, <1>2, <1>3, <1>4, <1>5, PassMoves

\* A pass that only looks, or fails, leaves the store alone.
LEMMA Goes ==
  ASSUME DispatchInv, NEW p \in Drainer, NEW pc, UNCHANGED <<run, note, call>>, UNCHANGED <<duty, threadVars>>,
         RowShape', PromptsKept, pass' = [pass EXCEPT ![p].pc = pc], pass[p].pc # "idle",
         pc \notin {"inspect", "notify"}, pc = "ack" => pass[p].w = "check" \/ Spent(pass[p].c)
  PROVE  DispatchInv'
<1> DEFINE q == [pass[p] EXCEPT !.pc = pc]
<1>1. RunShape' /\ RunsKept
  BY PassParts, SameRuns
<1>2. DrainShape' /\ TurnExists' /\ DutiesKept
  BY <1>1, PassAlone
<1>3. DOMAIN q = {"pc", "w", "c", "token", "seen"} /\ q.w = pass[p].w /\ q.c = pass[p].c /\ q.pc = pc
  BY PassParts DEF PassShape
<1>4. pass' = [pass EXCEPT ![p] = q]
  BY PassParts DEF PassShape
<1>5. q.c \in Call
  BY <1>3, PassParts DEF PassSpent
<1> HIDE DEF q
<1>6. PICK r : r = q
  OBVIOUS
<1>7. /\ DOMAIN r = {"pc", "w", "c", "token", "seen"} /\ pass' = [pass EXCEPT ![p] = r]
      /\ r.pc = pc /\ r.c \in Call /\ (pc = "ack" => r.w = "check" \/ Spent(r.c))
  BY <1>3, <1>4, <1>5, <1>6
<1>8. r.pc = "ack" /\ r.w = "prompt" => Spent(r.c)'
  BY <1>7 DEF Spent, Queued, Exists
<1>9. QED
  BY <1>1, <1>2, <1>7, <1>8, PassMoves

LEMMA Finishes ==
  ASSUME DispatchInv, NEW p \in Drainer, UNCHANGED <<note, call>>, RunShape', RunsKept, RowShape', PromptsKept,
         DrainShape', TurnExists', DutiesKept, Done(p)
  PROVE  DispatchInv'
<1>1. DOMAIN NoPass = {"pc", "w", "c", "token", "seen"} /\ NoPass.pc = "idle"
  BY DEF NoPass
<1>2. QED
  BY <1>1, PassMoves DEF Done

LEMMA InspectKeeps ==
  ASSUME DispatchInv, NEW p \in Drainer, NEW expired, Inspect(p, expired)
  PROVE  DispatchInv'
<1>1. RowShape' /\ PromptsKept
  BY PassParts, SameRows DEF Inspect, storeVars
<1>2. PICK pc \in {"ack", "retry", "read"} : pass' = [pass EXCEPT ![p].pc = pc]
  BY DEF Inspect, Goto
<1>3. pass[p].pc = "inspect" /\ pass[p].w = "check"
  BY PassParts DEF Inspect, At, PassSpent
<1>4. QED
  BY <1>1, <1>2, <1>3, Goes DEF Inspect, storeVars

LEMMA ReadRunKeeps == ASSUME DispatchInv, NEW p \in Drainer, ReadRun(p) PROVE DispatchInv'
<1> DEFINE q == [pass[p] EXCEPT !.pc = "claim", !.seen = run[pass[p].c]]
<1>1. RunShape' /\ RunsKept /\ RowShape' /\ PromptsKept
  BY PassParts, SameRuns, SameRows DEF ReadRun, storeVars
<1>2. DrainShape' /\ TurnExists' /\ DutiesKept
  BY <1>1, PassAlone DEF ReadRun
<1>3. DOMAIN q = {"pc", "w", "c", "token", "seen"} /\ q.w = pass[p].w /\ q.c = pass[p].c /\ q.pc = "claim"
  BY PassParts DEF PassShape
<1>4. pass' = [pass EXCEPT ![p] = q]
  BY PassParts DEF PassShape, ReadRun
<1>5. q.c \in Call
  BY <1>3, PassParts DEF PassSpent, ReadRun, At
<1> HIDE DEF q
<1>6. QED
  BY <1>1, <1>2, <1>3, <1>4, <1>5, PassMoves DEF ReadRun, storeVars

\* A claim takes a run that exists out of the queue, for good.
LEMMA ClaimRunKeeps ==
  ASSUME DispatchInv, NEW p \in Drainer, NEW expired, ClaimRun(p, expired)
  PROVE  DispatchInv'
<1>1. PICK c \in Call : c = pass[p].c
  BY PassParts DEF PassSpent, ClaimRun, At
<1> DEFINE attempt == pass[p].seen.lease.attempt + 1
           allowed == ClaimAllowed(run[c], expired, AbandonedLeaseId(c, pass[p].seen))
           claims == allowed /\ ~Exhausted(run[c], attempt, MaxAttempts)
           pc == IF claims THEN "notify" ELSE "after"
           left == IF claims THEN ClaimedRun(run[c], attempt, EffectiveAttempt(run[c], attempt), Owner) ELSE AbsentRun
           q == [pass[p] EXCEPT !.pc = pc, !.seen = left]
<1>2. RowShape' /\ PromptsKept /\ UNCHANGED <<note, call>>
  BY PassParts, SameRows DEF ClaimRun
<1>3. /\ allowed => Exists(c)
      /\ IF claims THEN run' = [run EXCEPT ![c] = ClaimedRun(@, attempt, EffectiveAttempt(@, attempt), Owner)]
         ELSE run' = IF allowed THEN [run EXCEPT ![c] = ExhaustedRun(@)] ELSE run
  BY <1>1 DEF ClaimRun, ClaimAllowed, IsClaimable, ClaimableStatus, Exists, Absent
<1>4. pass' = [pass EXCEPT ![p].pc = pc, ![p].seen = left]
  BY <1>1 DEF ClaimRun
<1>5. pass' = [pass EXCEPT ![p] = q]
  BY <1>4, PassParts DEF PassShape
<1>6. DOMAIN q = {"pc", "w", "c", "token", "seen"} /\ q.pc = pc /\ q.w = pass[p].w /\ q.c = c
  BY <1>1, PassParts DEF PassShape
<1>7. RunShape' /\ RunsKept /\ (claims => Exists(c)' /\ ~Queued(c)')
  <2>1. CASE claims
    <3>1. RunShape' /\ run'[c].status = "leased" /\ \A d \in Call \ {c} : run'[d] = run[d]
      BY <1>3, <2>1, PassParts DEF RunShape, ClaimedRun, WithLease
    <3>2. QED
      BY <1>3, <2>1, <3>1 DEF RunsKept, Exists, Queued, Absent
  <2>2. CASE ~claims /\ allowed
    <3>1. RunShape' /\ run'[c].status = "needs-recovery" /\ \A d \in Call \ {c} : run'[d] = run[d]
      BY <1>3, <2>2, PassParts DEF RunShape, ExhaustedRun, WithLease
    <3>2. QED
      BY <1>3, <2>2, <3>1 DEF RunsKept, Exists, Queued, Absent
  <2>3. CASE ~claims /\ ~allowed
    BY <1>3, <2>3, PassParts, SameRuns
  <2>4. QED
    BY <2>1, <2>2, <2>3
<1>8. DrainShape' /\ TurnExists' /\ DutiesKept
  BY <1>7, PassAlone DEF ClaimRun
<1>9. q.pc = "notify" => Spent(c)'
  BY <1>6, <1>7 DEF Spent
<1> HIDE DEF q, claims, left
<1>10. PICK r : r = q
  OBVIOUS
<1>11. /\ DOMAIN r = {"pc", "w", "c", "token", "seen"} /\ pass' = [pass EXCEPT ![p] = r]
       /\ r.c = c /\ r.pc \in {"notify", "after"} /\ (r.pc = "notify" => Spent(c)')
  BY <1>5, <1>6, <1>9, <1>10
<1>12. QED
  BY <1>2, <1>7, <1>8, <1>11, PassMoves

LEMMA NotifyKeeps == ASSUME DispatchInv, NEW p \in Drainer, Notify(p) PROVE DispatchInv'
<1>1. RunShape' /\ RunsKept /\ RowShape' /\ PromptsKept
  BY PassParts, SameRuns, SameRows DEF Notify, storeVars
<1>2. DrainShape' /\ TurnExists'
  BY <1>1, PassParts DEF Notify, Enqueue, DrainShape, TurnExists, IdleDrain, Draining, RunsKept
<1>3. Spent(pass[p].c)
  BY PassParts DEF Notify, At, PassSpent
<1>4. DutiesKept
  <2>1. PICK d : d = Duty(p, pass[p].seen.lease.id, "wait") /\ duty' = duty \cup {d}
    BY DEF Notify
  <2>2. DOMAIN d = DutyFields /\ d.c = pass[p].c
    BY <2>1 DEF Duty, DutyFields
  <2>3. Spent(d.c)'
    BY <1>3, <2>2 DEF Spent, Exists, Queued, Notify, storeVars
  <2>4. QED
    BY <2>1, <2>2, <2>3 DEF DutiesKept
<1>5. QED
  BY <1>1, <1>2, <1>4, Finishes DEF Notify, storeVars

LEMMA NotifyFailsKeeps == ASSUME DispatchInv, NEW p \in Drainer, NotifyFails(p) PROVE DispatchInv'
<1> DEFINE q == [pass[p] EXCEPT !.pc = "after", !.seen = AbsentRun]
<1>1. RunShape' /\ RunsKept /\ RowShape' /\ PromptsKept
  BY PassParts, SameRuns, SameRows DEF NotifyFails, storeVars
<1>2. DrainShape' /\ TurnExists' /\ DutiesKept
  BY <1>1, PassAlone DEF NotifyFails
<1>3. DOMAIN q = {"pc", "w", "c", "token", "seen"} /\ q.c = pass[p].c /\ q.pc = "after"
  BY PassParts DEF PassShape
<1>4. pass' = [pass EXCEPT ![p] = q]
  BY PassParts DEF PassShape, NotifyFails
<1>5. q.c \in Call
  BY <1>3, PassParts DEF PassSpent, NotifyFails, At
<1> HIDE DEF q
<1>6. QED
  BY <1>1, <1>2, <1>3, <1>4, <1>5, PassMoves DEF NotifyFails, storeVars

LEMMA NoTurnKeeps == ASSUME DispatchInv, NEW p \in Drainer, NoTurn(p) PROVE DispatchInv'
<1>1. RowShape' /\ PromptsKept
  BY PassParts, SameRows DEF NoTurn, storeVars
<1>2. PICK pc \in {"ack", "retry"} : /\ pass' = [pass EXCEPT ![p].pc = pc]
                                     /\ pc = "ack" => IsTerminal(run[pass[p].c])
  BY DEF NoTurn, AfterNull, Goto
<1>3. pc = "ack" => Spent(pass[p].c)
  BY <1>2, PassParts DEF Spent, Exists, Queued, Absent, IsTerminal, TerminalStatus, PassSpent, NoTurn, At
<1>4. QED
  BY <1>1, <1>2, <1>3, Goes DEF NoTurn, storeVars, At

LEMMA FinishPassKeeps == ASSUME DispatchInv, NEW p \in Drainer, FinishPass(p) PROVE DispatchInv'
<1>1. pass[p].c \in Call
  BY PassParts DEF FinishPass, At, PassSpent
<1>2. RunShape' /\ RunsKept
  BY PassParts, SameRuns DEF FinishPass
<1>3. RowShape' /\ PromptsKept
  BY <1>1, PassParts, RowAcked, RowRetried DEF FinishPass, At, PassSpent, Spent
<1>4. QED
  BY <1>2, <1>3, PassAlone, Finishes DEF FinishPass

LEMMA FinishDutyKeeps == ASSUME DispatchInv, NEW d \in duty, FinishDuty(d) PROVE DispatchInv'
<1>1. d.c \in Call /\ ~Queued(d.c)
  BY DEF DispatchInv, PromptsSpent, Spent
<1>2. RunShape' /\ RunsKept
  BY PassParts, SameRuns DEF FinishDuty
<1>3. RowShape' /\ PromptsKept
  BY <1>1, PassParts, RowAcked, RowRetried DEF FinishDuty
<1>4. DutiesKept
  BY DEF FinishDuty, DutiesKept
<1>5. DrainShape' /\ TurnExists'
  BY <1>2, PassParts DEF FinishDuty, threadVars, DrainShape, TurnExists, RunsKept
<1>6. QED
  BY <1>2, <1>3, <1>4, <1>5, ThreadKeeps DEF FinishDuty

LEMMA PassFailsKeeps == ASSUME DispatchInv, NEW p \in Drainer, PassFails(p) PROVE DispatchInv'
<1>1. pass[p].c \in Call
  BY PassParts DEF PassFails, PassSpent
<1>2. RunShape' /\ RunsKept
  BY PassParts, SameRuns DEF PassFails
<1>3. RowShape' /\ PromptsKept
  BY <1>1, PassParts, SameRows, RowRetried DEF PassFails
<1>4. QED
  BY <1>2, <1>3, PassAlone, Finishes DEF PassFails

LEMMA CrashKeeps == ASSUME DispatchInv, Crash PROVE DispatchInv'
  BY DEF DispatchInv, Shapes, Named, Answered, TurnExists, PromptsSpent, PassSpent, QueuedRunsAreWoken, Queued,
     Spent, Exists, Crash, storeVars, CallAt, NoCall, NoPass, IdleDrain

-----------------------------------------------------------------------------
(* The theorems *)

LEMMA PassingKeeps == ASSUME DispatchInv, NEW p \in Drainer, Passing(p) PROVE DispatchInv'
  BY TakeRowKeeps, InspectKeeps, ReadRunKeeps, ClaimRunKeeps, NotifyKeeps, NotifyFailsKeeps, NoTurnKeeps,
     FinishPassKeeps, PassFailsKeeps DEF Passing

LEMMA NextInv == DispatchInv /\ [Next]_vars => DispatchInv'
<1> SUFFICES ASSUME DispatchInv, [Next]_vars PROVE DispatchInv'
  OBVIOUS
<1>1. CASE \E c \in Call : Dispatching(c)
  BY <1>1, DispatchingKeeps
<1>2. CASE \E p \in Drainer : Passing(p)
  BY <1>2, PassingKeeps
<1>3. CASE \E d \in duty : FinishDuty(d)
  BY <1>3, FinishDutyKeeps
<1>4. CASE Thread
  BY <1>4, ThreadStepKeeps
<1>5. CASE UserSends
  BY <1>5, UserSendsKeeps
<1>6. CASE Crash
  BY <1>6, CrashKeeps
<1>7. CASE UNCHANGED vars
  BY <1>7 DEF vars, storeVars, threadVars, DispatchInv, Shapes, Named, Answered, TurnExists, PromptsSpent, PassSpent,
     QueuedRunsAreWoken, Queued, Spent, Exists
<1>8. QED
  BY <1>1, <1>2, <1>3, <1>4, <1>5, <1>6, <1>7 DEF Next

\* Whatever the dispatches, passes, turns, crashes and failures, the run that
\* exists for a key is its notification's, and whoever may drop the prompt of a
\* run has seen it claimed.
THEOREM DispatchInvariant == Spec => []DispatchInv
<1>1. QED
  BY InitInv, NextInv, PTL DEF Spec

\* Dispatches of one key answer one run (dispatchAgentNotification).
THEOREM AnswersAgree == Spec => []AnswersNameTheRun
<1>1. DispatchInv => AnswersNameTheRun
  BY DEF DispatchInv, Answered, Named, AnswersNameTheRun, CallAt
<1>2. QED
  BY <1>1, DispatchInvariant, PTL

\* A queued run always has the row that wakes it, for any number of passes at
\* a time (the transaction of dispatchAgentNotification, and the
\* acknowledgement of drainThreadPrompts).
THEOREM QueuedWoken == Spec => []QueuedRunsAreWoken
<1>1. DispatchInv => QueuedRunsAreWoken
  BY DEF DispatchInv
<1>2. QED
  BY <1>1, DispatchInvariant, PTL
-----------------------------------------------------------------------------
(* Turns: leases and the types of the variables *)

Lease == [id : 0..MaxAttempts, attempt : 0..MaxAttempts, owner : {NoOwner} \cup Nat]
Rec == [status : Status, lease : Lease]

PassPC == {"idle", "inspect", "read", "claim", "notify", "after", "ack", "retry"}
DrainPC == {"idle", "loop", "start", "commit", "body", "park"}

RunTypes == run \in [Call -> Rec] /\ \A c \in Call : run[c].lease.id = run[c].lease.attempt

RowTypes == row \in [Work -> [Call -> [set : BOOLEAN, claim : Nat]]]

PassTypes == pass \in [Drainer -> [pc : PassPC, w : Work, c : Call \cup {NoRun}, token : Nat, seen : Rec]]

DutyTypes ==
  /\ IsFiniteSet(duty)
  /\ duty \subseteq [w : Work, c : Call, token : Nat, lease : Nat, then : {"wait", "ack", "retry"}]

Types ==
  /\ RunTypes /\ RowTypes /\ PassTypes /\ DutyTypes
  /\ note \in [Key -> Call \cup {NoRun}] /\ commits \in [Call -> Nat]
  /\ drain.pc \in DrainPC
  /\ used \in [sends : Nat, crashes : Nat, failures : Nat]

\* A lease that this object's turns may run under.
OursIfTaken(c, lease) == lease # 0 /\ (run[c].lease.id = lease => run[c].lease.owner = Owner)

ItemOK(item) == item.c = User \/ (item.c \in Call /\ OursIfTaken(item.c, item.lease))

QueueItems == [c : Call \cup {User}, lease : Nat]

Waiting(item) == \E i \in 1..Len(queue) : queue[i] = item
Current(item) == drain.pc \in {"start", "commit", "body"} /\ drain.item = item

Items ==
  /\ queue \in Seq(QueueItems)
  /\ drain.pc \in {"start", "commit", "body"} => drain.item \in QueueItems
  /\ \A item \in QueueItems : Waiting(item) \/ Current(item) => ItemOK(item)

\* What a pass read of a run, or claimed, against what became of it.
SeenOK(p) ==
  LET c == pass[p].c
      seen == pass[p].seen.lease
  IN /\ pass[p].pc = "claim" /\ ~IsTerminal(run[c]) =>
          /\ seen.id <= run[c].lease.id
          /\ seen.id = run[c].lease.id /\ run[c].lease.owner = Owner => seen.owner = Owner
     /\ pass[p].pc = "notify" => OursIfTaken(c, seen.id)

SeenLeases == \A p \in Drainer : SeenOK(p)

HeldRuns == \A c \in Call : Held(c) => run[c].status = "running" /\ run[c].lease.id = drain.item.lease

\* A run is committed once more only after a fault, until its turn settles.
InBody(c) == drain.pc = "body" /\ drain.item.c = c

CommitsBound ==
  \A c \in Call : commits[c] <= used.crashes + used.failures + (IF IsTerminal(run[c]) \/ InBody(c) THEN 1 ELSE 0)

TurnInv == Types /\ Items /\ SeenLeases /\ HeldRuns /\ CommitsBound

-----------------------------------------------------------------------------
(* What a step may do to a lease *)

\* The running object stays, and its faults are counted.
SameObject ==
  /\ used' \in [sends : Nat, crashes : Nat, failures : Nat]
  /\ used'.crashes = used.crashes /\ used'.failures >= used.failures

\* A settled run stays settled; a lease is kept, given up with the run, or
\* replaced by a later one of this object.
LeasesKept ==
  \A c \in Call :
    /\ IsTerminal(run[c]) => IsTerminal(run'[c])
    /\ \/ run'[c].lease.id = run[c].lease.id /\ run'[c].lease.owner = run[c].lease.owner
       \/ run'[c].lease.id = 0 /\ IsTerminal(run'[c])
       \/ run'[c].lease.id > run[c].lease.id /\ run'[c].lease.owner = Owner

LEMMA RecTyped ==
  ASSUME NEW r \in Rec
  PROVE  r.status \in Status /\ r.lease \in Lease /\ r.lease.id \in Nat /\ r.lease.attempt \in Nat
  BY NotificationConstantsOK DEF Rec, Lease

LEMMA RunTyped ==
  /\ Types => \A c \in Call : run[c].lease.id \in Nat /\ run[c].lease.attempt \in Nat
  /\ Types' => \A c \in Call : run'[c].lease.id \in Nat
<1>1. Types => \A c \in Call : run[c] \in Rec
  BY DEF Types, RunTypes
<1>2. Types' => \A c \in Call : run'[c] \in Rec
  BY DEF Types, RunTypes
<1>3. QED
  BY <1>1, <1>2, RecTyped

LEMMA PassTyped ==
  ASSUME Types, NEW p \in Drainer
  PROVE  /\ pass[p].seen \in Rec /\ pass[p].seen.lease.id \in Nat /\ pass[p].seen.lease.attempt \in Nat
         /\ pass[p].token \in Nat /\ pass[p].w \in Work /\ pass[p].pc \in PassPC
         /\ pass[p].c \in Call \cup {NoRun}
<1>1. pass[p] \in [pc : PassPC, w : Work, c : Call \cup {NoRun}, token : Nat, seen : Rec]
  BY DEF Types, PassTypes
<1>2. QED
  BY <1>1, RecTyped

LEMMA UsedSame == ASSUME Types, UNCHANGED used PROVE SameObject
  BY DEF Types, SameObject

LEMMA UsedFails == ASSUME Types, used' = [used EXCEPT !.failures = @ + 1]
                   PROVE  SameObject /\ used'.failures = used.failures + 1
  BY DEF Types, SameObject

LEMMA UsedSends == ASSUME Types, used' = [used EXCEPT !.sends = @ + 1]
                   PROVE  SameObject
  BY DEF Types, SameObject

LEMMA LeasesSame == ASSUME UNCHANGED run PROVE LeasesKept
  BY DEF LeasesKept

LEMMA TakenStays ==
  ASSUME Types, LeasesKept, SameObject, NEW c \in Call, NEW lease, OursIfTaken(c, lease)
  PROVE  OursIfTaken(c, lease)'
  BY DEF OursIfTaken, LeasesKept, SameObject, Owner

LEMMA ItemStays ==
  ASSUME Types, LeasesKept, SameObject, NEW item, ItemOK(item)
  PROVE  ItemOK(item)'
  BY TakenStays DEF ItemOK

LEMMA ItemsKept ==
  ASSUME Types, Items, LeasesKept, SameObject, queue' \in Seq(QueueItems),
         drain'.pc \in {"start", "commit", "body"} => drain'.item \in QueueItems,
         \A item \in QueueItems : Waiting(item)' \/ Current(item)' => Waiting(item) \/ Current(item) \/ ItemOK(item)
  PROVE  Items'
<1>1. \A item \in QueueItems : Waiting(item)' \/ Current(item)' => ItemOK(item)
  BY DEF Items
<1>2. ASSUME NEW item \in QueueItems, Waiting(item)' \/ Current(item)'
      PROVE  ItemOK(item)'
  BY <1>1, <1>2, ItemStays
<1>3. QED
  BY <1>2 DEF Items

\* The thread is left alone, or a turn in it goes on or ends.
LEMMA ItemsStay ==
  ASSUME Types, Items, LeasesKept, SameObject, UNCHANGED queue,
         drain'.pc \in {"start", "commit", "body"} =>
           drain.pc \in {"start", "commit", "body"} /\ drain'.item = drain.item
  PROVE  Items'
<1>1. \A item : Waiting(item)' \/ Current(item)' => Waiting(item) \/ Current(item)
  BY DEF Waiting, Current
<1>2. queue' \in Seq(QueueItems) /\ (drain'.pc \in {"start", "commit", "body"} => drain'.item \in QueueItems)
  BY DEF Items
<1>3. QED
  BY <1>1, <1>2, ItemsKept

LEMMA ItemQueued ==
  ASSUME Types, Items, LeasesKept, SameObject, DrainShape, NEW item \in QueueItems, ItemOK(item), Enqueue(item)
  PROVE  Items'
<1>1. queue' = Append(queue, item) /\ queue \in Seq(QueueItems)
  BY DEF Enqueue, Items
<1>2. queue' \in Seq(QueueItems)
  BY <1>1
<1>3. drain'.pc \in {"start", "commit", "body"} =>
        drain.pc \in {"start", "commit", "body"} /\ drain'.item = drain.item
  BY DEF Enqueue, DrainShape, IdleDrain, Draining
<1>4. ASSUME NEW it \in QueueItems, Waiting(it)'
      PROVE  Waiting(it) \/ it = item
  BY <1>1, <1>4 DEF Waiting
<1>5. \A it \in QueueItems : Current(it)' => Current(it)
  BY <1>3 DEF Current
<1>6. drain'.pc \in {"start", "commit", "body"} => drain'.item \in QueueItems
  BY <1>3 DEF Items
<1>7. QED
  BY <1>2, <1>4, <1>5, <1>6, ItemsKept

LEMMA SeenStays ==
  ASSUME Types, Types', DispatchInv, SeenLeases, LeasesKept, SameObject, NEW p \in Drainer, pass'[p] = pass[p]
  PROVE  SeenOK(p)'
<1> DEFINE c == pass[p].c
<1>1. CASE pass[p].pc = "claim"
  <2>1. c \in Call
    BY <1>1, PassParts DEF PassSpent
  <2>2. /\ pass[p].seen.lease.id \in Nat /\ run[c].lease.id \in Nat
        /\ ~IsTerminal(run[c]) =>
          /\ pass[p].seen.lease.id <= run[c].lease.id
          /\ pass[p].seen.lease.id = run[c].lease.id /\ run[c].lease.owner = Owner => pass[p].seen.lease.owner = Owner
    BY <1>1, <2>1, RunTyped, PassTyped DEF SeenLeases, SeenOK
  <2>3. Owner' = Owner
    BY DEF SameObject, Owner
  <2>4. PICK old, new : old = run[c].lease /\ new = run'[c].lease
    OBVIOUS
  <2>5. ~IsTerminal(run'[c]) =>
          /\ ~IsTerminal(run[c])
          /\ (new.id = old.id /\ new.owner = old.owner) \/ new.id > old.id
    BY <2>1, <2>4 DEF LeasesKept
  <2>6. new.id \in Nat /\ old.id \in Nat
    BY <2>1, <2>4, RunTyped
  <2>7. ~IsTerminal(run'[c]) =>
          /\ pass[p].seen.lease.id <= new.id
          /\ pass[p].seen.lease.id = new.id /\ new.owner = Owner => pass[p].seen.lease.owner = Owner
    BY <2>2, <2>4, <2>5, <2>6
  <2>8. QED
    BY <1>1, <2>3, <2>4, <2>7 DEF SeenOK
<1>2. CASE pass[p].pc = "notify"
  <2>1. c \in Call /\ OursIfTaken(c, pass[p].seen.lease.id)
    BY <1>2, PassParts DEF PassSpent, Spent, SeenLeases, SeenOK
  <2>2. PICK lease : lease = pass[p].seen.lease.id
    OBVIOUS
  <2>3. OursIfTaken(c, lease)'
    BY <2>1, <2>2, TakenStays DEF OursIfTaken, LeasesKept, SameObject, Owner
  <2>4. QED
    BY <1>2, <2>2, <2>3 DEF SeenOK, OursIfTaken
<1>3. CASE pass[p].pc \notin {"claim", "notify"}
  BY <1>3 DEF SeenOK
<1>4. QED
  BY <1>1, <1>2, <1>3

LEMMA AllSeenStay ==
  ASSUME Types, Types', DispatchInv, SeenLeases, LeasesKept, SameObject, UNCHANGED pass
  PROVE  SeenLeases'
  BY SeenStays DEF SeenLeases

\* The turn under way goes on, or ends, and its run is left alone.
LEMMA HeldStays ==
  ASSUME HeldRuns, \A c \in Call : Held(c) => run'[c] = run[c],
         drain'.pc \in {"commit", "body"} => drain.pc \in {"commit", "body"} /\ drain'.item = drain.item
  PROVE  HeldRuns'
  BY DEF HeldRuns, Held

LEMMA CommitsStay ==
  ASSUME Types, Types', CommitsBound, LeasesKept, SameObject, UNCHANGED commits,
         \A c \in Call : InBody(c) /\ ~InBody(c)' =>
           IsTerminal(run'[c]) \/ used'.failures = used.failures + 1
  PROVE  CommitsBound'
<1> SUFFICES ASSUME NEW c \in Call
             PROVE  (commits[c] <= used.crashes + used.failures
                       + (IF IsTerminal(run[c]) \/ InBody(c) THEN 1 ELSE 0))'
  BY DEF CommitsBound
<1>1. /\ commits[c] \in Nat /\ used.crashes \in Nat /\ used.failures \in Nat
      /\ used'.crashes = used.crashes /\ used'.failures \in Nat /\ used'.failures >= used.failures
      /\ commits'[c] = commits[c]
  BY DEF Types, SameObject
<1>2. commits[c] <= used.crashes + used.failures + (IF IsTerminal(run[c]) \/ InBody(c) THEN 1 ELSE 0)
  BY DEF CommitsBound
<1>3. IsTerminal(run[c]) => IsTerminal(run'[c])
  BY DEF LeasesKept
<1>4. CASE IsTerminal(run'[c]) \/ InBody(c)'
  BY <1>1, <1>2, <1>4
<1>5. CASE ~IsTerminal(run'[c]) /\ ~InBody(c)'
  BY <1>1, <1>2, <1>3, <1>5
<1>6. QED
  BY <1>4, <1>5

-----------------------------------------------------------------------------
(* Types *)

RowRec == [set : BOOLEAN, claim : Nat]

LEMMA RowRecs == FreeRow \in RowRec /\ NoRow \in RowRec
  BY DEF FreeRow, NoRow, RowRec

LEMMA RowTyped ==
  ASSUME RowTypes, NEW w \in Work, NEW c \in Call, NEW r \in RowRec, SetRow(w, c, r)
  PROVE  RowTypes'
  BY DEF RowTypes, SetRow, RowRec

LEMMA RowDropped ==
  ASSUME RowTypes, NEW w \in Work, NEW c \in Call, NEW t, AckRow(w, c, t) \/ RetryRow(w, c, t)
  PROVE  RowTypes'
<1>1. row[w][c] \in RowRec
  BY DEF RowTypes, RowRec
<1>2. PICK r \in RowRec : SetRow(w, c, r)
  BY <1>1, RowRecs DEF AckRow, RetryRow
<1>3. QED
  BY <1>2, RowTyped

LEMMA PromptTyped ==
  ASSUME RowTypes, NEW c \in Call, InsertPrompt(c)
  PROVE  RowTypes'
<1>1. PICK r \in RowRec : row' = [row EXCEPT !["prompt"][c] = r]
  BY RowRecs DEF InsertPrompt, RowTypes, RowRec, Work
<1>2. QED
  BY <1>1, RowTyped DEF SetRow, Work

LEMMA RunReplaced ==
  ASSUME RunTypes, NEW c \in Call, NEW r \in Rec, r.lease.id = r.lease.attempt, run' = [run EXCEPT ![c] = r]
  PROVE  RunTypes' /\ run'[c] = r /\ \A d \in Call \ {c} : run'[d] = run[d]
  BY DEF RunTypes

LEMMA StatusReplaced ==
  ASSUME RunTypes, NEW c \in Call, NEW s \in Status, run' = [run EXCEPT ![c].status = s]
  PROVE  /\ RunTypes' /\ run'[c].status = s /\ run'[c].lease = run[c].lease
         /\ \A d \in Call \ {c} : run'[d] = run[d]
<1> DEFINE r == [run[c] EXCEPT !.status = s]
<1>1. run[c] \in Rec /\ run[c].lease.id = run[c].lease.attempt
  BY DEF RunTypes
<1>2. r \in Rec /\ r.lease = run[c].lease /\ r.status = s
  BY <1>1 DEF Rec
<1>3. run' = [run EXCEPT ![c] = r]
  OBVIOUS
<1> HIDE DEF r
<1>4. QED
  BY <1>1, <1>2, <1>3, RunReplaced

LEMMA StatusLeases ==
  ASSUME RunTypes, NEW c \in Call, NEW s \in Status, run' = [run EXCEPT ![c].status = s],
         IsTerminal(run[c]) => s \in TerminalStatus
  PROVE  LeasesKept
  BY StatusReplaced DEF LeasesKept, IsTerminal

LEMMA OwnerIsNat == Types => Owner \in Nat
  BY DEF Types, Owner

\* A start keeps the lease, whose owner is this object already.
LEMMA StartTyped ==
  ASSUME Types, NEW c \in Call, run' = [run EXCEPT ![c].status = "running", ![c].lease.owner = Owner]
  PROVE  /\ RunTypes' /\ run'[c].status = "running" /\ run'[c].lease.id = run[c].lease.id
         /\ run'[c].lease.owner = Owner
         /\ \A d \in Call \ {c} : run'[d] = run[d]
<1> DEFINE l == [run[c].lease EXCEPT !.owner = Owner]
           r == [run[c] EXCEPT !.status = "running", !.lease = l]
<1>1. run[c] \in Rec /\ run[c].lease \in Lease /\ run[c].lease.id = run[c].lease.attempt /\ RunTypes
  BY RecTyped DEF Types, RunTypes
<1>2. l \in Lease /\ l.id = run[c].lease.id /\ l.attempt = run[c].lease.attempt /\ l.owner = Owner
  BY <1>1, OwnerIsNat DEF Lease
<1>3. run' = [run EXCEPT ![c] = r]
  BY <1>1 DEF Rec
<1> HIDE DEF l
<1>4. r \in Rec /\ r.status = "running" /\ r.lease = l
  BY <1>1, <1>2 DEF Rec, Status, ClaimableStatus
<1> HIDE DEF r
<1>5. RunTypes' /\ run'[c] = r /\ \A d \in Call \ {c} : run'[d] = run[d]
  BY <1>1, <1>2, <1>3, <1>4, RunReplaced
<1>6. QED
  BY <1>2, <1>4, <1>5

\* A claim: the record it leaves, and the lease it takes.
LEMMA ClaimTyped ==
  ASSUME NEW r \in Rec, NEW attempt \in Nat, NEW owner \in Nat, r.lease.id = r.lease.attempt,
         ~Exhausted(r, attempt, MaxAttempts)
  PROVE  LET k == ClaimedRun(r, attempt, EffectiveAttempt(r, attempt), owner)
         IN /\ k \in Rec /\ k.lease.id = k.lease.attempt /\ k.lease.id > r.lease.id
            /\ k.lease.owner = owner /\ k.status = "leased"
<1> DEFINE e == EffectiveAttempt(r, attempt)
           l == [id |-> e, attempt |-> e, owner |-> owner]
<1>1. r.lease.id \in Nat /\ r.lease.attempt \in Nat
  BY RecTyped
<1>2. e \in Nat /\ e > r.lease.id
  BY <1>1 DEF EffectiveAttempt
<1>3. e <= MaxAttempts
  BY <1>1, <1>2, NotificationConstantsOK DEF Exhausted
<1> HIDE DEF e
<1>4. l \in Lease /\ l.id = e /\ l.attempt = e /\ l.owner = owner
  BY <1>2, <1>3, NotificationConstantsOK DEF Lease
<1>5. ClaimedRun(r, attempt, EffectiveAttempt(r, attempt), owner) = WithLease(r, "leased", l)
  BY DEF ClaimedRun, e
<1> HIDE DEF l
<1>6. /\ WithLease(r, "leased", l) \in Rec /\ WithLease(r, "leased", l).lease = l
      /\ WithLease(r, "leased", l).status = "leased"
  BY <1>4 DEF WithLease, Rec, Status, ClaimableStatus
<1>7. QED
  BY <1>2, <1>4, <1>5, <1>6

LEMMA AbsentTyped == AbsentRun \in Rec /\ NoLease \in Lease /\ NoLease.id = 0 /\ NoLease.attempt = 0
  BY NotificationConstantsOK DEF AbsentRun, Rec, Lease, NoLease, Status, Absent

LEMMA ParkTyped ==
  ASSUME NEW r \in Rec
  PROVE  /\ ExhaustedRun(r) \in Rec /\ ExhaustedRun(r).lease.id = 0 /\ ExhaustedRun(r).lease.attempt = 0
         /\ IsTerminal(ExhaustedRun(r))
  BY AbsentTyped DEF ExhaustedRun, WithLease, Rec, Status, TerminalStatus, IsTerminal

\* A claim of a row always finds a token of its own.
LEMMA ImageFinite ==
  ASSUME NEW S, IsFiniteSet(S), NEW f, DOMAIN f = S, f = [x \in S |-> f[x]], NEW T, T = {f[x] : x \in S}
  PROVE  IsFiniteSet(T)
<1>1. f \in Surjection(S, T)
  BY DEF Surjection
<1>2. QED
  BY <1>1, FS_Surjection DEF ExistsSurjection

LEMMA TokensAreFinite ==
  ASSUME Types
  PROVE  IsFiniteSet(Tokens)
<1>1. IsFiniteSet({row[w][c].claim : w \in Work, c \in Call})
  <2>1. IsFiniteSet(Work)
    <3>1. IsFiniteSet({} \cup {"prompt"})
      BY FS_EmptySet, FS_AddElement
    <3>2. IsFiniteSet(({} \cup {"prompt"}) \cup {"check"})
      BY <3>1, FS_AddElement
    <3>3. Work = ({} \cup {"prompt"}) \cup {"check"}
      BY DEF Work
    <3>4. QED
      BY <3>2, <3>3
  <2>2. IsFiniteSet(Work \X Call)
    BY <2>1, NotificationConstantsOK, FS_Product
  <2>3. PICK f : f = [x \in Work \X Call |-> row[x[1]][x[2]].claim]
    OBVIOUS
  <2>4. IsFiniteSet({f[x] : x \in Work \X Call})
    BY <2>2, <2>3, ImageFinite
  <2>5. ASSUME NEW w \in Work, NEW c \in Call
        PROVE  row[w][c].claim \in {f[x] : x \in Work \X Call}
    <3>1. PICK x \in Work \X Call : x = <<w, c>>
      OBVIOUS
    <3>2. x[1] = w /\ x[2] = c
      BY <3>1
    <3>3. f[x] = row[w][c].claim
      BY <2>3, <3>2
    <3>4. QED
      BY <3>3
  <2>6. {row[w][c].claim : w \in Work, c \in Call} \subseteq {f[x] : x \in Work \X Call}
    BY <2>5
  <2>7. QED
    BY <2>4, <2>6, FS_Subset
<1>2. IsFiniteSet({d.token : d \in duty})
  <2>1. PICK f : f = [d \in duty |-> d.token]
    OBVIOUS
  <2>2. {f[d] : d \in duty} = {d.token : d \in duty}
    BY <2>1
  <2>3. QED
    BY <2>1, <2>2, ImageFinite DEF Types, DutyTypes
<1>3. IsFiniteSet({pass[p].token : p \in Drainer})
  <2>1. PICK f : f = [p \in Drainer |-> pass[p].token]
    OBVIOUS
  <2>2. {f[p] : p \in Drainer} = {pass[p].token : p \in Drainer}
    BY <2>1
  <2>3. QED
    BY <2>1, <2>2, ImageFinite, NotificationConstantsOK
<1>4. \A A, B, C : IsFiniteSet(A) /\ IsFiniteSet(B) /\ IsFiniteSet(C) => IsFiniteSet((A \cup B) \cup C)
  <2> SUFFICES ASSUME NEW A, NEW B, NEW C, IsFiniteSet(A), IsFiniteSet(B), IsFiniteSet(C)
               PROVE  IsFiniteSet((A \cup B) \cup C)
    OBVIOUS
  <2>1. IsFiniteSet(A \cup B)
    BY FS_Union
  <2>2. QED
    BY <2>1, FS_Union
<1>5. QED
  BY <1>1, <1>2, <1>3, <1>4 DEF Tokens

LEMMA FreshTyped ==
  ASSUME Types
  PROVE  FreshToken \in Nat /\ FreshToken \notin Tokens
<1> DEFINE n == Cardinality(Tokens)
<1>1. IsFiniteSet(Tokens) /\ n \in Nat
  BY TokensAreFinite, FS_CardinalityType
<1>2. IsFiniteSet(1..(n + 1)) /\ Cardinality(1..(n + 1)) = n + 1
  BY <1>1, FS_Interval
<1>3. \E t \in 1..(n + 1) : t \notin Tokens
  <2> SUFFICES ASSUME 1..(n + 1) \subseteq Tokens
               PROVE  FALSE
    OBVIOUS
  <2>1. Cardinality(1..(n + 1)) <= n
    BY <1>1, FS_Subset
  <2>2. QED
    BY <1>1, <1>2, <2>1
<1>4. QED
  BY <1>1, <1>3 DEF FreshToken

-----------------------------------------------------------------------------
(* The turns step by step: initially, dispatches *)

LEMMA InitTurns == Init => TurnInv
<1> SUFFICES ASSUME Init PROVE TurnInv
  OBVIOUS
<1>1. RunTypes
  BY AbsentTyped DEF Init, RunTypes, AbsentRun
<1>2. RowTypes
  BY RowRecs DEF Init, RowTypes, RowRec
<1>3. PassTypes
  BY AbsentTyped DEF Init, PassTypes, NoPass, PassPC, Work
<1>4. DutyTypes
  BY FS_EmptySet DEF Init, DutyTypes
<1>5. Types
  BY <1>1, <1>2, <1>3, <1>4 DEF Init, Types, IdleDrain, DrainPC
<1>6. Items
  BY DEF Init, Items, IdleDrain, Waiting, Current
<1>7. SeenLeases /\ HeldRuns
  BY DEF Init, SeenLeases, SeenOK, NoPass, HeldRuns, Held, IdleDrain
<1>8. CommitsBound
  BY DEF Init, CommitsBound, InBody, IdleDrain, IsTerminal, TerminalStatus, AbsentRun, Absent
<1>9. QED
  BY <1>5, <1>6, <1>7, <1>8 DEF TurnInv

\* A dispatch leaves passes and turns alone.
LEMMA DispatchTurns ==
  ASSUME DispatchInv, TurnInv, RunTypes', RowTypes', note' \in [Key -> Call \cup {NoRun}], LeasesKept, SameObject,
         \A c \in Call : Held(c) => run'[c] = run[c],
         UNCHANGED <<commits, pass, duty, threadVars>>
  PROVE  TurnInv'
<1>1. Types /\ Items /\ SeenLeases /\ HeldRuns /\ CommitsBound
  BY DEF TurnInv
<1>2. Types'
  BY <1>1 DEF Types, PassTypes, DutyTypes, SameObject, threadVars
<1>3. Items'
  BY <1>1, ItemsStay DEF threadVars
<1>4. SeenLeases'
  BY <1>1, <1>2, AllSeenStay
<1>5. HeldRuns'
  BY <1>1, HeldStays DEF threadVars
<1>6. CommitsBound'
  BY <1>1, <1>2, CommitsStay DEF InBody, threadVars
<1>7. QED
  BY <1>2, <1>3, <1>4, <1>5, <1>6 DEF TurnInv

LEMMA TurnParts ==
  TurnInv => /\ Types /\ Items /\ SeenLeases /\ HeldRuns /\ CommitsBound
             /\ RunTypes /\ RowTypes /\ PassTypes /\ DutyTypes
             /\ note \in [Key -> Call \cup {NoRun}]
  BY DEF TurnInv, Types

LEMMA RecordsTurns ==
  ASSUME DispatchInv, TurnInv, NEW c \in Call, Records(c), SameObject,
         UNCHANGED <<commits, pass, duty, threadVars>>
  PROVE  TurnInv'
<1>1. run[c].status = Absent
  BY DEF Records, RunsOf, Exists
<1>2. "queued" \in Status /\ ~IsTerminal(run[c])
  BY <1>1 DEF Status, ClaimableStatus, IsTerminal, TerminalStatus, Absent
<1>3. run' = [run EXCEPT ![c].status = "queued"]
  BY DEF Records
<1>4. RunTypes' /\ LeasesKept /\ \A d \in Call \ {c} : run'[d] = run[d]
  BY <1>2, <1>3, TurnParts, StatusReplaced, StatusLeases
<1>5. RowTypes' /\ note' \in [Key -> Call \cup {NoRun}]
  BY TurnParts, PromptTyped DEF Records
<1>6. ~Held(c)
  BY <1>1, TurnParts DEF HeldRuns, Absent
<1>7. QED
  BY <1>4, <1>5, <1>6, DispatchTurns

LEMMA DispatchingTurns ==
  ASSUME DispatchInv, TurnInv, NEW c \in Call, Dispatching(c)
  PROVE  TurnInv'
<1>1. CASE Dispatch(c) \/ LookUpAgain(c) \/ Deduplicate(c)
  <2>1. UNCHANGED <<storeVars, pass, duty, threadVars, used>>
    BY <1>1 DEF Dispatch, LookUpAgain, LookUp, Deduplicate
  <2>2. RunTypes' /\ RowTypes' /\ note' \in [Key -> Call \cup {NoRun}] /\ LeasesKept /\ SameObject
    BY <2>1, TurnParts, LeasesSame, UsedSame DEF storeVars, RunTypes, RowTypes
  <2>3. QED
    BY <2>1, <2>2, DispatchTurns DEF storeVars
<1>2. CASE Create(c)
  BY <1>2, RecordsTurns, TurnParts, UsedSame DEF Create
<1>3. CASE Wake(c)
  <2>1. call[c].answer \in Call
    BY <1>3 DEF DispatchInv, Answered, Wake, CallAt
  <2>2. RowTypes'
    BY <1>3, <2>1, TurnParts, PromptTyped DEF Wake
  <2>3. RunTypes' /\ note' \in [Key -> Call \cup {NoRun}] /\ LeasesKept /\ SameObject
    BY <1>3, TurnParts, LeasesSame, UsedSame DEF Wake, RunTypes
  <2>4. QED
    BY <1>3, <2>2, <2>3, DispatchTurns DEF Wake
<1>4. CASE DispatchFails(c)
  <2>1. SameObject /\ UNCHANGED <<commits, pass, duty, threadVars>>
    BY <1>4, TurnParts, UsedFails DEF DispatchFails, Fail
  <2>2. CASE Records(c)
    BY <2>1, <2>2, RecordsTurns
  <2>3. CASE UNCHANGED <<run, note>> /\ RowTypes'
    <3>1. RunTypes' /\ note' \in [Key -> Call \cup {NoRun}] /\ LeasesKept
      BY <2>3, TurnParts, LeasesSame DEF RunTypes
    <3>2. QED
      BY <2>1, <2>3, <3>1, DispatchTurns
  <2>4. CASE CallAt(c, "wake") /\ InsertPrompt(call[c].answer) /\ UNCHANGED <<run, note>>
    <3>1. call[c].answer \in Call
      BY <2>4 DEF DispatchInv, Answered, CallAt
    <3>2. RowTypes'
      BY <2>4, <3>1, TurnParts, PromptTyped
    <3>3. QED
      BY <2>3, <2>4, <3>2
  <2>5. CASE UNCHANGED <<run, note, row>>
    BY <2>3, <2>5, TurnParts DEF RowTypes
  <2>6. QED
    BY <1>4, <2>2, <2>4, <2>5 DEF DispatchFails
<1>5. QED
  BY <1>1, <1>2, <1>3, <1>4 DEF Dispatching

-----------------------------------------------------------------------------
(* The turns step by step: passes *)

PassRec == [pc : PassPC, w : Work, c : Call \cup {NoRun}, token : Nat, seen : Rec]

LEMMA PassReplaced ==
  ASSUME PassTypes, NEW p \in Drainer, NEW q \in PassRec, pass' = [pass EXCEPT ![p] = q]
  PROVE  PassTypes' /\ pass'[p] = q /\ \A o \in Drainer \ {p} : pass'[o] = pass[o]
  BY DEF PassTypes, PassRec

LEMMA PassGoes ==
  ASSUME PassTypes, NEW p \in Drainer, NEW pc \in PassPC, NEW r \in Rec,
         pass' = [pass EXCEPT ![p].pc = pc, ![p].seen = r]
  PROVE  /\ PassTypes' /\ pass'[p].pc = pc /\ pass'[p].seen = r /\ pass'[p].c = pass[p].c
         /\ \A o \in Drainer \ {p} : pass'[o] = pass[o]
<1> DEFINE q == [pass[p] EXCEPT !.pc = pc, !.seen = r]
<1>1. pass[p] \in PassRec
  BY DEF PassTypes, PassRec
<1>2. q \in PassRec /\ q.pc = pc /\ q.seen = r /\ q.c = pass[p].c
  BY <1>1 DEF PassRec
<1>3. pass' = [pass EXCEPT ![p] = q]
  OBVIOUS
<1> HIDE DEF q
<1>4. QED
  BY <1>2, <1>3, PassReplaced

LEMMA PassGoesOn ==
  ASSUME PassTypes, NEW p \in Drainer, NEW pc \in PassPC \ {"claim", "notify"}, Goto(p, pc)
  PROVE  PassTypes' /\ SeenOK(p)' /\ \A o \in Drainer \ {p} : pass'[o] = pass[o]
<1> DEFINE q == [pass[p] EXCEPT !.pc = pc]
<1>1. pass[p] \in PassRec
  BY DEF PassTypes, PassRec
<1>2. q \in PassRec /\ q.pc = pc
  BY <1>1 DEF PassRec
<1>3. pass' = [pass EXCEPT ![p] = q]
  BY DEF Goto
<1> HIDE DEF q
<1>4. PassTypes' /\ pass'[p] = q /\ \A o \in Drainer \ {p} : pass'[o] = pass[o]
  BY <1>2, <1>3, PassReplaced
<1>5. QED
  BY <1>2, <1>4 DEF SeenOK

LEMMA PassDone ==
  ASSUME PassTypes, NEW p \in Drainer, Done(p)
  PROVE  PassTypes' /\ SeenOK(p)' /\ \A o \in Drainer \ {p} : pass'[o] = pass[o]
<1>1. NoPass \in PassRec /\ NoPass.pc = "idle"
  BY AbsentTyped DEF NoPass, PassRec, PassPC, Work
<1>2. PassTypes' /\ pass'[p] = NoPass /\ \A o \in Drainer \ {p} : pass'[o] = pass[o]
  BY <1>1, PassReplaced DEF Done
<1>3. QED
  BY <1>1, <1>2 DEF SeenOK

LEMMA PassTurns ==
  ASSUME DispatchInv, TurnInv, NEW p \in Drainer, RunTypes', RowTypes', DutyTypes', PassTypes',
         SeenOK(p)', \A o \in Drainer \ {p} : pass'[o] = pass[o],
         LeasesKept, SameObject, \A c \in Call : Held(c) => run'[c] = run[c],
         UNCHANGED <<note, commits>>, Items', drain'.pc \in DrainPC,
         drain'.pc \in {"commit", "body"} => drain.pc \in {"commit", "body"} /\ drain'.item = drain.item,
         \A c \in Call : InBody(c) => InBody(c)'
  PROVE  TurnInv'
<1>1. Types /\ SeenLeases /\ HeldRuns /\ CommitsBound
  BY TurnParts
<1>2. Types'
  BY <1>1 DEF Types, SameObject
<1>3. SeenLeases'
  BY <1>1, <1>2, SeenStays DEF SeenLeases
<1>4. HeldRuns'
  BY <1>1, HeldStays
<1>5. CommitsBound'
  BY <1>1, <1>2, CommitsStay
<1>6. QED
  BY <1>2, <1>3, <1>4, <1>5 DEF TurnInv

\* The thread is left alone.
LEMMA PassTurnsAlone ==
  ASSUME DispatchInv, TurnInv, NEW p \in Drainer, RunTypes', RowTypes', DutyTypes', PassTypes',
         SeenOK(p)', \A o \in Drainer \ {p} : pass'[o] = pass[o],
         LeasesKept, SameObject, \A c \in Call : Held(c) => run'[c] = run[c],
         UNCHANGED <<note, commits, threadVars>>
  PROVE  TurnInv'
<1>1. Items'
  BY TurnParts, ItemsStay DEF threadVars
<1>2. drain'.pc \in DrainPC /\ \A c \in Call : InBody(c) => InBody(c)'
  BY TurnParts DEF Types, InBody, threadVars
<1>3. QED
  BY <1>1, <1>2, PassTurns DEF threadVars

\* And so are the runs and the duties.
LEMMA PassLooks ==
  ASSUME DispatchInv, TurnInv, NEW p \in Drainer, RowTypes', PassTypes', SeenOK(p)',
         \A o \in Drainer \ {p} : pass'[o] = pass[o], SameObject,
         UNCHANGED <<run, note, commits, duty, threadVars>>
  PROVE  TurnInv'
<1>1. RunTypes' /\ DutyTypes' /\ LeasesKept
  BY TurnParts, LeasesSame DEF RunTypes, DutyTypes
<1>2. QED
  BY <1>1, PassTurnsAlone

LEMMA TakeRowTurns ==
  ASSUME DispatchInv, TurnInv, NEW p \in Drainer, NEW w \in Work, NEW c \in Call, TakeRow(p, w, c)
  PROVE  TurnInv'
<1> DEFINE q == [NoPass EXCEPT !.pc = IF w = "check" THEN "inspect" ELSE "read", !.w = w, !.c = c, !.token = FreshToken]
<1>1. FreshToken \in Nat
  BY TurnParts, FreshTyped
<1>2. RowTypes'
  <2>1. [set |-> TRUE, claim |-> FreshToken] \in RowRec
    BY <1>1 DEF RowRec
  <2>2. QED
    BY <2>1, TurnParts, RowTyped DEF TakeRow
<1>3. q \in PassRec /\ q.pc \notin {"claim", "notify"}
  BY <1>1, AbsentTyped DEF NoPass, PassRec, PassPC, Work
<1>4. pass' = [pass EXCEPT ![p] = q]
  BY DEF TakeRow
<1> HIDE DEF q
<1>5. PassTypes' /\ pass'[p] = q /\ \A o \in Drainer \ {p} : pass'[o] = pass[o]
  BY <1>3, <1>4, TurnParts, PassReplaced
<1>6. SeenOK(p)'
  BY <1>3, <1>5 DEF SeenOK
<1>7. QED
  BY <1>2, <1>5, <1>6, TurnParts, UsedSame, PassLooks DEF TakeRow

LEMMA InspectTurns ==
  ASSUME DispatchInv, TurnInv, NEW p \in Drainer, NEW expired, Inspect(p, expired)
  PROVE  TurnInv'
<1>1. PICK pc \in {"ack", "retry", "read"} : Goto(p, pc)
  BY DEF Inspect
<1>2. pc \in PassPC \ {"claim", "notify"}
  BY DEF PassPC
<1>3. PassTypes' /\ SeenOK(p)' /\ \A o \in Drainer \ {p} : pass'[o] = pass[o]
  BY <1>1, <1>2, TurnParts, PassGoesOn
<1>4. RowTypes' /\ SameObject
  BY TurnParts, UsedSame DEF Inspect, storeVars, RowTypes
<1>5. QED
  BY <1>3, <1>4, PassLooks DEF Inspect, storeVars

LEMMA NoTurnTurns ==
  ASSUME DispatchInv, TurnInv, NEW p \in Drainer, NoTurn(p)
  PROVE  TurnInv'
<1>1. PICK pc \in {"ack", "retry"} : Goto(p, pc)
  BY DEF NoTurn, AfterNull
<1>2. pc \in PassPC \ {"claim", "notify"}
  BY DEF PassPC
<1>3. PassTypes' /\ SeenOK(p)' /\ \A o \in Drainer \ {p} : pass'[o] = pass[o]
  BY <1>1, <1>2, TurnParts, PassGoesOn
<1>4. RowTypes' /\ SameObject
  BY TurnParts, UsedSame DEF NoTurn, storeVars, RowTypes
<1>5. QED
  BY <1>3, <1>4, PassLooks DEF NoTurn, storeVars

LEMMA ReadRunTurns ==
  ASSUME DispatchInv, TurnInv, NEW p \in Drainer, ReadRun(p)
  PROVE  TurnInv'
<1>1. pass[p].c \in Call
  BY PassParts DEF ReadRun, At, PassSpent
<1>2. PICK r \in Rec : r = run[pass[p].c]
  BY <1>1, TurnParts DEF RunTypes
<1>3. /\ PassTypes' /\ pass'[p].pc = "claim" /\ pass'[p].seen = r /\ pass'[p].c = pass[p].c
      /\ \A o \in Drainer \ {p} : pass'[o] = pass[o]
  BY <1>2, TurnParts, PassGoes DEF ReadRun, PassPC
<1>4. run' = run /\ r.lease.id \in Nat
  BY <1>2, RecTyped DEF ReadRun, storeVars
<1>5. SeenOK(p)'
  BY <1>2, <1>3, <1>4 DEF SeenOK
<1>6. RowTypes' /\ SameObject
  BY TurnParts, UsedSame DEF ReadRun, storeVars, RowTypes
<1>7. QED
  BY <1>3, <1>5, <1>6, PassLooks DEF ReadRun, storeVars

LEMMA NotifyFailsTurns ==
  ASSUME DispatchInv, TurnInv, NEW p \in Drainer, NotifyFails(p)
  PROVE  TurnInv'
<1>1. PassTypes' /\ pass'[p].pc = "after" /\ \A o \in Drainer \ {p} : pass'[o] = pass[o]
  BY TurnParts, AbsentTyped, PassGoes DEF NotifyFails, PassPC
<1>2. SeenOK(p)'
  BY <1>1 DEF SeenOK
<1>3. RowTypes' /\ SameObject
  BY TurnParts, UsedFails DEF NotifyFails, Fail, storeVars, RowTypes
<1>4. QED
  BY <1>1, <1>2, <1>3, PassLooks DEF NotifyFails, storeVars

LEMMA FinishPassTurns ==
  ASSUME DispatchInv, TurnInv, NEW p \in Drainer, FinishPass(p)
  PROVE  TurnInv'
<1>1. pass[p].c \in Call /\ pass[p].w \in Work
  BY PassParts, TurnParts, PassTyped DEF FinishPass, At, PassSpent
<1>2. RowTypes'
  BY <1>1, TurnParts, RowDropped DEF FinishPass
<1>3. QED
  BY <1>2, TurnParts, PassDone, UsedSame, PassLooks DEF FinishPass

LEMMA PassFailsTurns ==
  ASSUME DispatchInv, TurnInv, NEW p \in Drainer, PassFails(p)
  PROVE  TurnInv'
<1>1. pass[p].c \in Call /\ pass[p].w \in Work
  BY PassParts, TurnParts, PassTyped DEF PassFails, PassSpent
<1>2. RowTypes'
  <2>1. CASE UNCHANGED row
    BY <2>1, TurnParts DEF RowTypes
  <2>2. CASE RetryRow(pass[p].w, pass[p].c, pass[p].token)
    BY <1>1, <2>2, TurnParts, RowDropped
  <2>3. QED
    BY <2>1, <2>2 DEF PassFails
<1>3. SameObject
  BY TurnParts, UsedFails DEF PassFails, Fail
<1>4. QED
  BY <1>2, <1>3, TurnParts, PassDone, PassLooks DEF PassFails

\* The run of a turn under way is not claimed: no read of it calls its owner
\* gone, and its lease is renewed.
LEMMA HeldIsKept ==
  ASSUME DispatchInv, TurnInv, NEW p \in Drainer, At(p, "claim"), NEW expired, MayExpire(pass[p].c, expired),
         Held(pass[p].c)
  PROVE  ~ClaimAllowed(run[pass[p].c], expired, AbandonedLeaseId(pass[p].c, pass[p].seen))
<1> DEFINE c == pass[p].c
<1>1. c \in Call
  BY PassParts DEF At, PassSpent
<1>2. run[c].status = "running" /\ run[c].lease.id = drain.item.lease /\ drain.item.c = c
  BY <1>1, TurnParts DEF HeldRuns, Held
<1>3. drain.item \in QueueItems /\ ItemOK(drain.item)
  BY TurnParts DEF Items, Held, Current
<1>4. OursIfTaken(c, drain.item.lease)
  <2>1. c # User
    BY <1>1, NotificationConstantsOK
  <2>2. QED
    BY <1>2, <1>3, <2>1 DEF ItemOK
<1>5. run[c].lease.owner = Owner /\ run[c].lease.id # 0
  BY <1>2, <1>4 DEF OursIfTaken
<1>6. run[c].lease # NoLease
  BY <1>5 DEF NoLease
<1>7. pass[p].seen.lease.owner # Owner => pass[p].seen.lease.id # run[c].lease.id
  BY <1>2, <1>5, TurnParts DEF SeenLeases, SeenOK, At, IsTerminal, TerminalStatus
<1>8. AbandonedLeaseId(c, pass[p].seen) # run[c].lease.id
  BY <1>5, <1>7 DEF AbandonedLeaseId
<1>9. QED
  BY <1>6, <1>8 DEF ClaimAllowed, LeaseHolds, MayExpire

LEMMA ClaimRunTurns ==
  ASSUME DispatchInv, TurnInv, NEW p \in Drainer, NEW expired, ClaimRun(p, expired)
  PROVE  TurnInv'
<1>1. PICK c \in Call : c = pass[p].c
  BY PassParts DEF PassSpent, ClaimRun, At
<1>2. PICK attempt \in Nat : attempt = pass[p].seen.lease.attempt + 1
  BY TurnParts, PassTyped
<1> DEFINE allowed == ClaimAllowed(run[c], expired, AbandonedLeaseId(c, pass[p].seen))
           parks == Exhausted(run[c], attempt, MaxAttempts)
           claimed == ClaimedRun(run[c], attempt, EffectiveAttempt(run[c], attempt), Owner)
<1>3. IF allowed /\ ~parks
      THEN /\ run' = [run EXCEPT ![c] = claimed]
           /\ pass' = [pass EXCEPT ![p].pc = "notify", ![p].seen = claimed]
      ELSE /\ run' = IF allowed THEN [run EXCEPT ![c] = ExhaustedRun(@)] ELSE run
           /\ pass' = [pass EXCEPT ![p].pc = "after", ![p].seen = AbsentRun]
  BY <1>1, <1>2 DEF ClaimRun
<1>4. RowTypes' /\ DutyTypes' /\ SameObject /\ UNCHANGED <<note, commits, threadVars>>
  BY TurnParts, UsedSame DEF ClaimRun, RowTypes, DutyTypes
<1>5. run[c] \in Rec /\ run[c].lease.id = run[c].lease.attempt /\ Owner \in Nat
  BY TurnParts, OwnerIsNat DEF RunTypes
<1>6. allowed => ~Held(c) /\ ~IsTerminal(run[c])
  BY <1>1, HeldIsKept DEF ClaimRun, ClaimAllowed, IsClaimable, IsTerminal, ClaimableStatus, TerminalStatus
<1>7. CASE allowed /\ ~parks
  <2>1. /\ claimed \in Rec /\ claimed.lease.id = claimed.lease.attempt /\ claimed.lease.id > run[c].lease.id
        /\ claimed.lease.owner = Owner /\ claimed.status = "leased"
    BY <1>5, <1>7, ClaimTyped
  <2>2. PICK r : r = claimed
    OBVIOUS
  <2>3. run' = [run EXCEPT ![c] = r] /\ pass' = [pass EXCEPT ![p].pc = "notify", ![p].seen = r]
    BY <1>3, <1>7, <2>2
  <2>4. r \in Rec /\ r.lease.id = r.lease.attempt /\ r.lease.id > run[c].lease.id /\ r.lease.owner = Owner
    BY <2>1, <2>2
  <2> HIDE DEF allowed, parks, claimed
  <2>5. RunTypes' /\ run'[c] = r /\ \A d \in Call \ {c} : run'[d] = run[d]
    BY <2>3, <2>4, TurnParts, RunReplaced
  <2>6. LeasesKept
    BY <1>6, <1>7, <2>4, <2>5 DEF LeasesKept
  <2>7. /\ PassTypes' /\ pass'[p].pc = "notify" /\ pass'[p].seen = r /\ pass'[p].c = c
        /\ \A o \in Drainer \ {p} : pass'[o] = pass[o]
    BY <1>1, <2>3, <2>4, TurnParts, PassGoes DEF PassPC
  <2>8. r.lease.id # 0
    BY <1>5, <2>4, RecTyped
  <2>9. SeenOK(p)'
    BY <1>4, <2>4, <2>5, <2>7, <2>8 DEF SeenOK, OursIfTaken, Owner, SameObject
  <2>10. QED
    BY <1>4, <1>6, <1>7, <2>5, <2>6, <2>7, <2>9, PassTurnsAlone
<1>8. CASE ~(allowed /\ ~parks)
  <2>1. RunTypes' /\ LeasesKept /\ \A d \in Call : Held(d) => run'[d] = run[d]
    <3>1. CASE allowed
      <4>1. PICK r : r = ExhaustedRun(run[c])
        OBVIOUS
      <4>2. run' = [run EXCEPT ![c] = r]
        BY <1>3, <1>8, <3>1, <4>1
      <4>3. r \in Rec /\ r.lease.id = 0 /\ r.lease.attempt = 0 /\ IsTerminal(r)
        BY <1>5, <4>1, ParkTyped
      <4>4. RunTypes' /\ run'[c] = r /\ \A d \in Call \ {c} : run'[d] = run[d]
        BY <4>2, <4>3, TurnParts, RunReplaced
      <4>5. QED
        BY <1>6, <3>1, <4>3, <4>4 DEF LeasesKept
    <3>2. CASE ~allowed
      BY <1>3, <3>2, TurnParts, LeasesSame DEF RunTypes
    <3>3. QED
      BY <3>1, <3>2
  <2>2. pass' = [pass EXCEPT ![p].pc = "after", ![p].seen = AbsentRun]
    BY <1>3, <1>8
  <2>3. PassTypes' /\ pass'[p].pc = "after" /\ \A o \in Drainer \ {p} : pass'[o] = pass[o]
    BY <2>2, TurnParts, AbsentTyped, PassGoes DEF PassPC
  <2>4. SeenOK(p)'
    BY <2>3 DEF SeenOK
  <2>5. QED
    BY <1>4, <2>1, <2>3, <2>4, PassTurnsAlone
<1>9. QED
  BY <1>7, <1>8

LEMMA NotifyTurns ==
  ASSUME DispatchInv, TurnInv, NEW p \in Drainer, Notify(p)
  PROVE  TurnInv'
<1>1. PICK lease \in Nat : lease = pass[p].seen.lease.id
  BY TurnParts, PassTyped
<1>2. PICK c \in Call : c = pass[p].c
  BY PassParts DEF Notify, At, PassSpent, Spent
<1>3. PICK item : item = Item(c, lease)
  OBVIOUS
<1>4. OursIfTaken(c, lease)
  BY <1>1, <1>2, TurnParts DEF Notify, At, SeenLeases, SeenOK
<1>5. item \in QueueItems /\ ItemOK(item)
  BY <1>3, <1>4 DEF Item, QueueItems, ItemOK
<1>6. Enqueue(item)
  BY <1>1, <1>2, <1>3 DEF Notify
<1>7. LeasesKept /\ SameObject /\ RunTypes' /\ RowTypes' /\ UNCHANGED <<run, note, commits>>
  BY TurnParts, LeasesSame, UsedSame DEF Notify, storeVars, RunTypes, RowTypes
<1>8. Items'
  BY <1>5, <1>6, <1>7, TurnParts, PassParts, ItemQueued
<1>9. DutyTypes'
  <2>1. PICK d : d = Duty(p, lease, "wait") /\ duty' = duty \cup {d}
    BY <1>1 DEF Notify
  <2>2. d \in [w : Work, c : Call, token : Nat, lease : Nat, then : {"wait", "ack", "retry"}]
    BY <1>2, <2>1, TurnParts, PassTyped DEF Duty
  <2>3. IsFiniteSet(duty')
    BY <2>1, TurnParts, FS_AddElement DEF DutyTypes
  <2>4. QED
    BY <2>1, <2>2, <2>3, TurnParts DEF DutyTypes
<1>10. /\ drain'.pc \in DrainPC
       /\ drain'.pc \in {"commit", "body"} => drain.pc \in {"commit", "body"} /\ drain'.item = drain.item
       /\ \A d \in Call : InBody(d) => InBody(d)'
  <2>1. CASE Draining("idle")
    BY <1>6, <2>1 DEF Enqueue, IdleDrain, DrainPC, InBody, Draining
  <2>2. CASE ~Draining("idle")
    <3>1. drain'.pc = drain.pc /\ drain'.item = drain.item
      BY <1>6, <2>2, PassParts DEF Enqueue, DrainShape
    <3>2. QED
      BY <3>1, TurnParts DEF Types, InBody
  <2>3. QED
    BY <2>1, <2>2
<1>11. PassTypes' /\ SeenOK(p)' /\ \A o \in Drainer \ {p} : pass'[o] = pass[o]
  BY TurnParts, PassDone DEF Notify
<1>12. QED
  BY <1>7, <1>8, <1>9, <1>10, <1>11, PassTurns

LEMMA PassingTurns ==
  ASSUME DispatchInv, TurnInv, NEW p \in Drainer, Passing(p)
  PROVE  TurnInv'
  BY TakeRowTurns, InspectTurns, ReadRunTurns, ClaimRunTurns, NotifyTurns, NotifyFailsTurns, NoTurnTurns,
     FinishPassTurns, PassFailsTurns DEF Passing

-----------------------------------------------------------------------------
(* The turns step by step: the thread *)

DutyRec == [w : Work, c : Call, token : Nat, lease : Nat, then : {"wait", "ack", "retry"}]

LEMMA DutiesMapped ==
  ASSUME DutyTypes, NEW f, f = [d \in duty |-> f[d]], \A d \in duty : f[d] \in DutyRec,
         duty' = {f[d] : d \in duty}
  PROVE  DutyTypes'
<1>1. IsFiniteSet(duty')
  BY ImageFinite DEF DutyTypes
<1>2. QED
  BY <1>1 DEF DutyTypes, DutyRec

LEMMA EndedTyped ==
  ASSUME DutyTypes, NEW items, NEW then \in {"wait", "ack", "retry"}, duty' = Ended(items, then)
  PROVE  DutyTypes'
<1>1. PICK f : f = [d \in duty |-> IF d.then = "wait" /\ Item(d.c, d.lease) \in items THEN [d EXCEPT !.then = then] ELSE d]
  OBVIOUS
<1>2. ASSUME NEW d \in duty
      PROVE  f[d] \in DutyRec
  <2>1. d \in DutyRec
    BY DEF DutyTypes, DutyRec
  <2>2. [d EXCEPT !.then = then] \in DutyRec
    BY <2>1 DEF DutyRec
  <2>3. QED
    BY <1>1, <2>1, <2>2
<1>3. duty' = {f[d] : d \in duty}
  BY <1>1 DEF Ended
<1>4. QED
  BY <1>1, <1>2, <1>3, DutiesMapped

LEMMA ThreadTurns ==
  ASSUME DispatchInv, TurnInv, RunTypes', RowTypes', DutyTypes', LeasesKept, SameObject, UNCHANGED <<note, pass>>,
         drain'.pc \in DrainPC, commits' \in [Call -> Nat],
         Items', HeldRuns', CommitsBound'
  PROVE  TurnInv'
<1>1. PassTypes'
  BY TurnParts DEF PassTypes
<1>2. Types'
  BY <1>1, TurnParts DEF Types, SameObject
<1>3. SeenLeases'
  BY <1>2, TurnParts, AllSeenStay
<1>4. QED
  BY <1>2, <1>3 DEF TurnInv

\* The turn under way, if any, ends: its run is settled, or a fault is counted.
LEMMA TurnLeft ==
  ASSUME DispatchInv, TurnInv, RunTypes', RowTypes', DutyTypes', LeasesKept, SameObject,
         UNCHANGED <<note, pass, commits>>, queue' \in {queue, <<>>}, drain'.pc \in {"idle", "loop", "park"},
         \A c \in Call : InBody(c) => IsTerminal(run'[c]) \/ used'.failures = used.failures + 1
  PROVE  TurnInv'
<1>1. Items'
  <2>1. queue' \in Seq(QueueItems)
    <3>1. queue \in Seq(QueueItems) /\ <<>> \in Seq(QueueItems)
      BY TurnParts DEF Items
    <3>2. QED
      BY <3>1
  <2>2. \A item : Waiting(item)' \/ Current(item)' => Waiting(item)
    BY DEF Waiting, Current
  <2>3. QED
    BY <2>1, <2>2, TurnParts, ItemsKept
<1>2. HeldRuns'
  BY DEF HeldRuns, Held
<1>3. drain'.pc \in DrainPC /\ commits' \in [Call -> Nat]
  BY TurnParts DEF DrainPC, Types
<1>4. Types'
  <2>1. PassTypes'
    BY TurnParts DEF PassTypes
  <2>2. QED
    BY <1>3, <2>1, TurnParts DEF Types, SameObject
<1>5. CommitsBound'
  BY <1>4, TurnParts, CommitsStay
<1>6. QED
  BY <1>1, <1>2, <1>3, <1>5, ThreadTurns

LEMMA LoopStops ==
  ASSUME DrainShape, drain' = LeftLoop \/ NextItem
  PROVE  drain'.pc \in {"idle", "loop"}
<1>1. CASE drain' = LeftLoop /\ drain.restart
  BY <1>1 DEF DrainShape, LeftLoop
<1>2. CASE drain' = LeftLoop /\ ~drain.restart
  BY <1>2 DEF LeftLoop, IdleDrain
<1>3. CASE NextItem
  BY <1>3 DEF DrainShape, NextItem
<1>4. QED
  BY <1>1, <1>2, <1>3

LEMMA UserSendsTurns == ASSUME DispatchInv, TurnInv, UserSends PROVE TurnInv'
<1>1. PICK item : item = Item(User, 0)
  OBVIOUS
<1>2. item \in QueueItems /\ ItemOK(item) /\ Enqueue(item)
  BY <1>1 DEF Item, QueueItems, ItemOK, UserSends
<1>3. /\ LeasesKept /\ SameObject /\ RunTypes' /\ RowTypes' /\ DutyTypes' /\ commits' \in [Call -> Nat]
      /\ UNCHANGED <<run, note, commits, pass, duty>>
  BY TurnParts, LeasesSame, UsedSends DEF UserSends, storeVars, RunTypes, RowTypes, DutyTypes, Types
<1>4. Items'
  BY <1>2, <1>3, TurnParts, PassParts, ItemQueued
<1>5. /\ drain'.pc \in DrainPC
      /\ drain'.pc \in {"commit", "body"} => drain.pc \in {"commit", "body"} /\ drain'.item = drain.item
      /\ \A d \in Call : InBody(d) => InBody(d)'
  <2>1. CASE Draining("idle")
    BY <1>2, <2>1 DEF Enqueue, IdleDrain, DrainPC, InBody, Draining
  <2>2. CASE ~Draining("idle")
    <3>1. drain'.pc = drain.pc /\ drain'.item = drain.item
      BY <1>2, <2>2, PassParts DEF Enqueue, DrainShape
    <3>2. QED
      BY <3>1, TurnParts DEF Types, InBody
  <2>3. QED
    BY <2>1, <2>2
<1>6. HeldRuns'
  BY <1>3, <1>5, TurnParts, HeldStays
<1>7. Types'
  <2>1. PassTypes'
    BY <1>3, TurnParts DEF PassTypes
  <2>2. QED
    BY <1>3, <1>5, <2>1, TurnParts DEF Types, SameObject
<1>8. CommitsBound'
  BY <1>3, <1>5, <1>7, TurnParts, CommitsStay
<1>9. QED
  BY <1>3, <1>4, <1>5, <1>6, <1>8, ThreadTurns

LEMMA DrainLoopTurns == ASSUME DispatchInv, TurnInv, DrainLoop PROVE TurnInv'
<1>1. /\ LeasesKept /\ SameObject /\ RunTypes' /\ RowTypes' /\ DutyTypes' /\ commits' \in [Call -> Nat]
      /\ UNCHANGED <<run, note, commits, pass, duty>> /\ \A c \in Call : ~InBody(c)
  BY TurnParts, LeasesSame, UsedSame DEF DrainLoop, storeVars, RunTypes, RowTypes, DutyTypes, Types, InBody, Draining
<1>2. CASE drain' = LeftLoop /\ UNCHANGED queue
  BY <1>1, <1>2, PassParts, LoopStops, TurnLeft
<1>3. CASE /\ queue # <<>> /\ queue' = Tail(queue)
           /\ drain' = [drain EXCEPT !.pc = "start", !.item = Head(queue)]
  <2>1. drain'.pc = "start" /\ drain'.item = Head(queue)
    BY <1>3, PassParts DEF DrainShape
  <2>2. queue \in Seq(QueueItems)
    BY TurnParts DEF Items
  <2>3. queue' \in Seq(QueueItems) /\ Head(queue) \in QueueItems /\ Waiting(Head(queue))
    BY <1>3, <2>2 DEF Waiting
  <2>4. ASSUME NEW item \in QueueItems, Waiting(item)'
        PROVE  Waiting(item)
    <3>1. PICK i \in 1..Len(queue') : queue'[i] = item
      BY <2>4 DEF Waiting
    <3>2. i + 1 \in 1..Len(queue) /\ queue[i + 1] = item
      BY <1>3, <2>2, <3>1
    <3>3. QED
      BY <3>2 DEF Waiting
  <2>5. \A item \in QueueItems : Current(item)' => Waiting(item)
    BY <2>1, <2>3 DEF Current
  <2>6. Items'
    BY <1>1, <2>1, <2>3, <2>4, <2>5, TurnParts, ItemsKept
  <2>7. HeldRuns' /\ drain'.pc \in DrainPC
    BY <2>1 DEF HeldRuns, Held, DrainPC
  <2>8. Types'
    <3>1. PassTypes'
      BY <1>1, TurnParts DEF PassTypes
    <3>2. QED
      BY <1>1, <2>7, <3>1, TurnParts DEF Types, SameObject
  <2>9. CommitsBound'
    BY <1>1, <2>8, TurnParts, CommitsStay
  <2>10. QED
    BY <1>1, <2>6, <2>7, <2>9, ThreadTurns
<1>4. QED
  BY <1>2, <1>3 DEF DrainLoop

\* A start that is allowed finds its run under the item's lease, which is ours.
LEMMA StartedTurns ==
  ASSUME DispatchInv, TurnInv, Draining("start"), Ours, Started(drain.item)
  PROVE  /\ drain.item.c \in Call /\ RunTypes' /\ RowTypes' /\ LeasesKept
         /\ run'[drain.item.c].status = "running" /\ run'[drain.item.c].lease.id = drain.item.lease
<1>1. PICK c : c = drain.item.c
  OBVIOUS
<1>2. drain.item \in QueueItems /\ ItemOK(drain.item)
  BY TurnParts DEF Items, Current, Draining
<1>3. c \in Call /\ OursIfTaken(c, drain.item.lease)
  BY <1>1, <1>2 DEF QueueItems, ItemOK, Ours
<1>4. ~IsTerminal(run[c]) /\ run[c].lease.id = drain.item.lease
  BY <1>1 DEF Started, StartAllowed, OwnedOpen, TransitionAllowed
<1>5. run[c].lease.owner = Owner
  BY <1>3, <1>4 DEF OursIfTaken
<1>6. /\ RunTypes' /\ run'[c].status = "running" /\ run'[c].lease.id = run[c].lease.id
      /\ run'[c].lease.owner = Owner
      /\ \A d \in Call \ {c} : run'[d] = run[d]
  BY <1>1, <1>3, TurnParts, StartTyped DEF Started
<1>7. LeasesKept
  BY <1>4, <1>5, <1>6 DEF LeasesKept
<1>8. RowTypes'
  BY <1>1, <1>3, TurnParts, RowTyped, RowRecs DEF Started, Work
<1>9. QED
  BY <1>1, <1>3, <1>4, <1>6, <1>7, <1>8

LEMMA StartTurnTurns == ASSUME DispatchInv, TurnInv, StartTurn PROVE TurnInv'
<1>1. /\ drain.item.c \in Call /\ RunTypes' /\ RowTypes' /\ LeasesKept
      /\ run'[drain.item.c].status = "running" /\ run'[drain.item.c].lease.id = drain.item.lease
  BY StartedTurns DEF StartTurn
<1>2. drain'.pc = "commit" /\ drain'.item = drain.item /\ drain.pc = "start"
  BY PassParts DEF StartTurn, DrainShape, Draining
<1>3. DutyTypes' /\ SameObject /\ UNCHANGED <<note, commits, pass, duty, queue>> /\ commits' \in [Call -> Nat]
  BY TurnParts, UsedSame DEF StartTurn, DutyTypes, Types
<1>4. Items'
  BY <1>1, <1>2, <1>3, TurnParts, ItemsStay
<1>5. HeldRuns' /\ drain'.pc \in DrainPC
  BY <1>1, <1>2 DEF HeldRuns, Held, DrainPC
<1>6. Types'
  <2>1. PassTypes'
    BY <1>3, TurnParts DEF PassTypes
  <2>2. QED
    BY <1>1, <1>3, <1>5, <2>1, TurnParts DEF Types, SameObject
<1>7. CommitsBound'
  BY <1>1, <1>2, <1>3, <1>6, TurnParts, CommitsStay DEF InBody
<1>8. QED
  BY <1>1, <1>3, <1>4, <1>5, <1>7, ThreadTurns

LEMMA StartEndsTurns == ASSUME DispatchInv, TurnInv, StartRefused \/ StartFails PROVE TurnInv'
<1>1. /\ drain.pc = "start" /\ duty' = Ended({drain.item}, "ack") /\ drain' = LeftLoop
      /\ UNCHANGED <<note, commits, pass, queue>>
  BY DEF StartRefused, StartFails, Draining, storeVars
<1>2. SameObject
  BY TurnParts, UsedSame, UsedFails DEF StartRefused, StartFails, Fail
<1>3. RunTypes' /\ RowTypes' /\ LeasesKept
  <2>1. CASE UNCHANGED <<run, row>>
    BY <2>1, TurnParts, LeasesSame DEF RunTypes, RowTypes
  <2>2. CASE Ours /\ Started(drain.item)
    BY <1>1, <2>2, StartedTurns DEF Draining
  <2>3. QED
    BY <2>1, <2>2 DEF StartRefused, StartFails, storeVars
<1>4. DutyTypes'
  BY <1>1, TurnParts, EndedTyped
<1>5. drain'.pc \in {"idle", "loop", "park"}
  BY <1>1, PassParts, LoopStops
<1>6. QED
  BY <1>1, <1>2, <1>3, <1>4, <1>5, TurnLeft DEF InBody

LEMMA CommitInputTurns == ASSUME DispatchInv, TurnInv, CommitInput PROVE TurnInv'
<1>1. drain'.pc = "body" /\ drain'.item = drain.item /\ drain.pc = "commit"
  BY PassParts DEF CommitInput, DrainShape, Draining
<1>2. /\ UNCHANGED <<run, note, pass, duty, queue>> /\ RunTypes' /\ RowTypes' /\ DutyTypes' /\ LeasesKept
  BY TurnParts, LeasesSame DEF CommitInput, RunTypes, RowTypes, DutyTypes
<1>3. commits \in [Call -> Nat]
  BY TurnParts DEF Types
<1>4. \/ commits' = [commits EXCEPT ![drain.item.c] = @ + 1] /\ UNCHANGED used
      \/ Fail /\ UNCHANGED commits
  BY DEF CommitInput
<1>5. SameObject
  BY <1>4, TurnParts, UsedSame, UsedFails DEF Fail
<1>6. commits' \in [Call -> Nat]
  BY <1>3, <1>4
<1>7. Items'
  BY <1>1, <1>2, <1>5, TurnParts, ItemsStay
<1>8. HeldRuns' /\ drain'.pc \in DrainPC
  BY <1>1, <1>2, TurnParts, HeldStays DEF DrainPC
<1>9. CommitsBound'
  <2> SUFFICES ASSUME NEW c \in Call
               PROVE  (commits[c] <= used.crashes + used.failures
                         + (IF IsTerminal(run[c]) \/ InBody(c) THEN 1 ELSE 0))'
    BY DEF CommitsBound
  <2>1. /\ used.crashes \in Nat /\ used.failures \in Nat /\ commits[c] \in Nat
        /\ used'.crashes = used.crashes /\ used'.failures \in Nat /\ used'.failures >= used.failures
    BY <1>3, <1>5, TurnParts DEF Types, SameObject
  <2>2. commits[c] <= used.crashes + used.failures + (IF IsTerminal(run[c]) THEN 1 ELSE 0)
    BY <1>1, TurnParts DEF CommitsBound, InBody
  <2>3. CASE c = drain.item.c
    <3>1. ~IsTerminal(run[c])
      BY <1>1, <2>3, TurnParts DEF HeldRuns, Held, IsTerminal, TerminalStatus
    <3>2. InBody(c)'
      BY <1>1, <2>3 DEF InBody
    <3>3. commits'[c] <= commits[c] + 1
      BY <1>3, <1>4, <2>1
    <3>4. commits'[c] \in Nat
      BY <1>6
    <3>5. QED
      BY <2>1, <2>2, <3>1, <3>2, <3>3, <3>4
  <2>4. CASE c # drain.item.c
    <3>1. commits'[c] = commits[c]
      BY <1>3, <1>4, <2>4
    <3>2. run'[c] = run[c] /\ ~InBody(c)'
      BY <1>1, <1>2, <2>4 DEF InBody
    <3>3. QED
      BY <2>1, <2>2, <3>1, <3>2
  <2>5. QED
    BY <2>3, <2>4
<1>10. QED
  BY <1>2, <1>5, <1>6, <1>7, <1>8, <1>9, ThreadTurns

\* A settlement settles the run of the item, which is running.
LEMMA SettledTurns ==
  ASSUME DispatchInv, TurnInv, Draining("body"), Ours, Settled(drain.item.c)
  PROVE  /\ drain.item.c \in Call /\ RunTypes' /\ RowTypes' /\ LeasesKept
         /\ IsTerminal(run'[drain.item.c])
<1>1. PICK c : c = drain.item.c
  OBVIOUS
<1>2. c \in Call
  BY <1>1, TurnParts DEF Items, QueueItems, Draining, Ours
<1>3. PICK s \in TerminalStatus : run' = [run EXCEPT ![c].status = s]
  BY <1>1 DEF Settled
<1>4. s \in Status
  BY DEF Status
<1>5. RunTypes' /\ run'[c].status = s /\ LeasesKept
  BY <1>2, <1>3, <1>4, TurnParts, StatusReplaced, StatusLeases
<1>6. RowTypes'
  BY <1>1, <1>2, TurnParts, RowTyped, RowRecs DEF Settled, Work
<1>7. QED
  BY <1>1, <1>2, <1>3, <1>5, <1>6 DEF IsTerminal

LEMMA SettleTurnTurns == ASSUME DispatchInv, TurnInv, SettleTurn PROVE TurnInv'
<1>1. /\ drain.item.c \in Call /\ RunTypes' /\ RowTypes' /\ LeasesKept
      /\ IsTerminal(run'[drain.item.c])
  BY SettledTurns DEF SettleTurn
<1>2. SameObject /\ UNCHANGED <<note, commits, pass, queue>> /\ duty' = Ended({drain.item}, "ack")
  BY TurnParts, UsedSame DEF SettleTurn
<1>3. DutyTypes'
  BY <1>2, TurnParts, EndedTyped
<1>4. drain'.pc \in {"idle", "loop", "park"}
  BY PassParts, LoopStops DEF SettleTurn
<1>5. QED
  BY <1>1, <1>2, <1>3, <1>4, TurnLeft DEF InBody

LEMMA SettleFailsTurns == ASSUME DispatchInv, TurnInv, SettleFails PROVE TurnInv'
<1>1. RunTypes' /\ RowTypes' /\ LeasesKept
  <2>1. CASE UNCHANGED <<run, row>>
    BY <2>1, TurnParts, LeasesSame DEF RunTypes, RowTypes
  <2>2. CASE Settled(drain.item.c)
    BY <2>2, SettledTurns DEF SettleFails
  <2>3. QED
    BY <2>1, <2>2 DEF SettleFails
<1>2. SameObject /\ used'.failures = used.failures + 1 /\ UNCHANGED <<note, commits, pass, queue>>
  BY TurnParts, UsedFails DEF SettleFails, Fail
<1>3. DutyTypes'
  <2> DEFINE Waits(d) == d.then = "wait"
             Failed(d) == Item(d.c, d.lease) = drain.item
             after(d) == CASE Waits(d) /\ Failed(d) -> [d EXCEPT !.then = "retry"]
                           [] Waits(d) /\ ~Failed(d) /\ Item(d.c, d.lease) \in Rejected
                                                  -> [d EXCEPT !.then = "ack"]
                           [] OTHER               -> d
  <2>1. PICK f : f = [d \in duty |-> after(d)]
    OBVIOUS
  <2>2. ASSUME NEW d \in duty
        PROVE  f[d] \in DutyRec
    <3>1. d \in DutyRec
      BY TurnParts DEF DutyTypes, DutyRec
    <3>2. [d EXCEPT !.then = "retry"] \in DutyRec /\ [d EXCEPT !.then = "ack"] \in DutyRec
      BY <3>1 DEF DutyRec
    <3>3. f[d] \in {[d EXCEPT !.then = "retry"], [d EXCEPT !.then = "ack"], d}
      BY <2>1
    <3>4. QED
      BY <3>1, <3>2, <3>3
  <2>3. duty' = {after(d) : d \in duty}
    BY DEF SettleFails
  <2> HIDE DEF after
  <2>4. duty' = {f[d] : d \in duty}
    BY <2>1, <2>3
  <2>5. f = [d \in duty |-> f[d]]
    BY <2>1
  <2>6. QED
    BY <2>2, <2>4, <2>5, TurnParts, DutiesMapped
<1>4. drain'.pc \in {"idle", "loop", "park"}
  BY PassParts, LoopStops DEF SettleFails
<1>5. QED
  BY <1>1, <1>2, <1>3, <1>4, TurnLeft

LEMMA UserTurnTurns == ASSUME DispatchInv, TurnInv, UserStarts \/ UserEnds \/ UserBlocked PROVE TurnInv'
<1>1. /\ LeasesKept /\ RunTypes' /\ RowTypes' /\ DutyTypes' /\ commits' \in [Call -> Nat]
      /\ UNCHANGED <<run, note, commits, pass, duty>>
  BY TurnParts, LeasesSame
     DEF UserStarts, UserEnds, UserBlocked, storeVars, RunTypes, RowTypes, DutyTypes, Types
<1>2. \A c \in Call : ~InBody(c) /\ drain.item.c # c
  BY NotificationConstantsOK DEF InBody, Ours, UserStarts, UserEnds, UserBlocked
<1>3. CASE UserStarts
  <2>1. drain'.pc = "body" /\ drain'.item = drain.item /\ drain.pc = "start"
    BY <1>3, PassParts DEF UserStarts, DrainShape, Draining
  <2>2. SameObject /\ UNCHANGED queue
    BY <1>3, TurnParts, UsedSame DEF UserStarts
  <2>3. Items'
    BY <1>1, <2>1, <2>2, TurnParts, ItemsStay
  <2>4. HeldRuns' /\ drain'.pc \in DrainPC
    BY <1>2, <2>1 DEF HeldRuns, Held, DrainPC
  <2>5. Types'
    <3>1. PassTypes'
      BY <1>1, TurnParts DEF PassTypes
    <3>2. QED
      BY <1>1, <2>2, <2>4, <3>1, TurnParts DEF Types, SameObject
  <2>6. CommitsBound'
    BY <1>1, <1>2, <2>2, <2>5, TurnParts, CommitsStay
  <2>7. QED
    BY <1>1, <2>2, <2>3, <2>4, <2>6, ThreadTurns
<1>4. CASE UserEnds
  <2>1. drain'.pc \in {"idle", "loop", "park"} /\ UNCHANGED queue /\ SameObject
    BY <1>4, PassParts, LoopStops, TurnParts, UsedSame DEF UserEnds
  <2>2. QED
    BY <1>1, <1>2, <2>1, TurnLeft
<1>5. CASE UserBlocked
  <2>1. drain'.pc = "park" /\ queue' = <<>> /\ SameObject
    BY <1>5, PassParts, TurnParts, UsedFails DEF UserBlocked, DrainShape
  <2>2. QED
    BY <1>1, <1>2, <2>1, TurnLeft
<1>6. QED
  BY <1>3, <1>4, <1>5

LEMMA ParkTurns == ASSUME DispatchInv, TurnInv, ParkNext \/ Parked PROVE TurnInv'
<1>1. \A c \in Call : ~InBody(c)
  BY DEF ParkNext, Parked, Draining, InBody
<1>2. /\ SameObject /\ UNCHANGED <<note, row, commits, pass, queue>> /\ RowTypes'
  BY TurnParts, UsedSame DEF ParkNext, Parked, storeVars, RowTypes
<1>3. CASE ParkNext
  <2>1. PICK item : /\ run' = IF OwnedOpen(item) THEN [run EXCEPT ![item.c] = WithStatus(@, "cancelled")] ELSE run
                    /\ duty' = Ended({item}, "ack")
    BY <1>3 DEF ParkNext
  <2>2. DutyTypes'
    BY <2>1, TurnParts, EndedTyped
  <2>3. RunTypes' /\ LeasesKept
    <3>1. CASE OwnedOpen(item) /\ item.c \in Call
      <4>1. run' = [run EXCEPT ![item.c].status = "cancelled"]
        BY <2>1, <3>1 DEF WithStatus
      <4>2. "cancelled" \in Status /\ "cancelled" \in TerminalStatus
        BY DEF Status, TerminalStatus
      <4>3. QED
        BY <3>1, <4>1, <4>2, TurnParts, StatusReplaced, StatusLeases
    <3>2. CASE ~OwnedOpen(item) \/ item.c \notin Call
      <4>1. run' = run
        BY <2>1, <3>2, TurnParts DEF RunTypes
      <4>2. QED
        BY <4>1, TurnParts, LeasesSame DEF RunTypes
    <3>3. QED
      BY <3>1, <3>2
  <2>4. drain'.pc = "park"
    BY <1>3, PassParts DEF ParkNext, DrainShape, Draining
  <2>5. QED
    BY <1>1, <1>2, <2>2, <2>3, <2>4, TurnLeft
<1>4. CASE Parked
  <2>1. RunTypes' /\ DutyTypes' /\ LeasesKept /\ UNCHANGED <<run, duty>>
    BY <1>4, TurnParts, LeasesSame DEF Parked, storeVars, RunTypes, DutyTypes
  <2>2. drain'.pc \in {"idle", "loop", "park"}
    BY <1>4, PassParts, LoopStops DEF Parked
  <2>3. QED
    BY <1>1, <1>2, <2>1, <2>2, TurnLeft
<1>5. QED
  BY <1>3, <1>4

LEMMA ThreadStepTurns == ASSUME DispatchInv, TurnInv, Thread PROVE TurnInv'
  BY DrainLoopTurns, StartTurnTurns, StartEndsTurns, CommitInputTurns, SettleTurnTurns, SettleFailsTurns,
     UserTurnTurns, ParkTurns DEF Thread

LEMMA FinishDutyTurns == ASSUME DispatchInv, TurnInv, NEW d \in duty, FinishDuty(d) PROVE TurnInv'
<1>1. d.w \in Work /\ d.c \in Call
  BY TurnParts DEF DutyTypes
<1>2. RowTypes'
  BY <1>1, TurnParts, RowDropped DEF FinishDuty
<1>3. DutyTypes'
  <2>1. duty' \subseteq duty
    BY DEF FinishDuty
  <2>2. QED
    BY <2>1, TurnParts, FS_Subset DEF DutyTypes
<1>4. /\ RunTypes' /\ LeasesKept /\ SameObject /\ UNCHANGED <<run, note, commits, pass, threadVars>>
      /\ commits' \in [Call -> Nat] /\ drain'.pc \in DrainPC
  BY TurnParts, LeasesSame, UsedSame DEF FinishDuty, RunTypes, Types, threadVars
<1>5. Items' /\ HeldRuns'
  BY <1>4, TurnParts, ItemsStay, HeldStays DEF threadVars
<1>6. CommitsBound'
  BY <1>4, TurnParts DEF CommitsBound, InBody, FinishDuty, threadVars
<1>7. QED
  BY <1>2, <1>3, <1>4, <1>5, <1>6, ThreadTurns

\* The object dies with its passes and turns; each may be repeated once more.
LEMMA CrashTurns == ASSUME DispatchInv, TurnInv, Crash PROVE TurnInv'
<1>1. /\ used' = [used EXCEPT !.crashes = @ + 1] /\ UNCHANGED <<run, note, row, commits>>
      /\ pass' = [p \in Drainer |-> NoPass] /\ duty' = {} /\ queue' = <<>> /\ drain' = IdleDrain
  BY DEF Crash, storeVars
<1>2. /\ used' \in [sends : Nat, crashes : Nat, failures : Nat] /\ used.crashes \in Nat /\ used.failures \in Nat
      /\ used'.crashes = used.crashes + 1 /\ used'.failures = used.failures
  BY <1>1, TurnParts DEF Types
<1>3. RunTypes' /\ RowTypes'
  BY <1>1, TurnParts DEF RunTypes, RowTypes
<1>4. PassTypes'
  BY <1>1, AbsentTyped DEF PassTypes, NoPass, PassPC, Work
<1>5. DutyTypes'
  BY <1>1, FS_EmptySet DEF DutyTypes
<1>6. Types'
  BY <1>1, <1>2, <1>3, <1>4, <1>5, TurnParts DEF Types, IdleDrain, DrainPC
<1>7. Items' /\ SeenLeases' /\ HeldRuns'
  BY <1>1 DEF Items, IdleDrain, Waiting, Current, SeenLeases, SeenOK, NoPass, HeldRuns, Held
<1>8. CommitsBound'
  <2> SUFFICES ASSUME NEW c \in Call
               PROVE  (commits[c] <= used.crashes + used.failures
                         + (IF IsTerminal(run[c]) \/ InBody(c) THEN 1 ELSE 0))'
    BY DEF CommitsBound
  <2>1. commits[c] <= used.crashes + used.failures + (IF IsTerminal(run[c]) \/ InBody(c) THEN 1 ELSE 0)
    BY TurnParts DEF CommitsBound
  <2>2. commits'[c] = commits[c] /\ commits[c] \in Nat /\ run'[c] = run[c]
    BY <1>1, TurnParts DEF Types
  <2>3. QED
    BY <1>2, <2>1, <2>2
<1>9. QED
  BY <1>6, <1>7, <1>8 DEF TurnInv

LEMMA NextTurns == DispatchInv /\ TurnInv /\ [Next]_vars => TurnInv'
<1> SUFFICES ASSUME DispatchInv, TurnInv, [Next]_vars PROVE TurnInv'
  OBVIOUS
<1>1. CASE \E c \in Call : Dispatching(c)
  BY <1>1, DispatchingTurns
<1>2. CASE \E p \in Drainer : Passing(p)
  BY <1>2, PassingTurns
<1>3. CASE \E d \in duty : FinishDuty(d)
  BY <1>3, FinishDutyTurns
<1>4. CASE Thread
  BY <1>4, ThreadStepTurns
<1>5. CASE UserSends
  BY <1>5, UserSendsTurns
<1>6. CASE Crash
  BY <1>6, CrashTurns
<1>7. CASE UNCHANGED vars
  <2>1. UNCHANGED <<storeVars, pass, duty, threadVars, used>>
    BY <1>7 DEF vars
  <2>2. RunTypes' /\ RowTypes' /\ note' \in [Key -> Call \cup {NoRun}] /\ LeasesKept /\ SameObject
    BY <2>1, TurnParts, LeasesSame, UsedSame DEF storeVars, RunTypes, RowTypes
  <2>3. QED
    BY <2>1, <2>2, DispatchTurns DEF storeVars
<1>8. QED
  BY <1>1, <1>2, <1>3, <1>4, <1>5, <1>6, <1>7 DEF Next

-----------------------------------------------------------------------------
(* The theorems about turns *)

\* Whatever dies, fails or overlaps, a lease of this object that a run is under
\* is the one its turn was queued with, and no pass takes the run of a turn
\* under way for abandoned.
THEOREM TurnInvariant == Spec => []TurnInv
<1>1. QED
  BY InitTurns, NextTurns, DispatchInvariant, PTL DEF Spec

\* Every variable has its shape, and a turn under way has its run, running,
\* under the lease it was queued with (claimRun, markRunRunning).
THEOREM TurnsKeepRuns == Spec => []NotificationsTypeOK
<1>1. DispatchInv /\ TurnInv => NotificationsTypeOK
  <2> SUFFICES ASSUME DispatchInv, TurnInv PROVE NotificationsTypeOK
    OBVIOUS
  <2>1. ASSUME NEW c \in Call
        PROVE  /\ run[c].status \in Status
               /\ run[c].lease.attempt \in 0..MaxAttempts /\ run[c].lease.id = run[c].lease.attempt
    <3>1. run[c] \in Rec /\ run[c].lease.id = run[c].lease.attempt
      BY TurnParts DEF RunTypes
    <3>2. QED
      BY <3>1 DEF Rec, Lease
  <2>2. \A d \in duty : d.then \in {"wait", "ack", "retry"}
    BY TurnParts DEF DutyTypes
  <2>3. call \in [Call -> [pc : {"idle", "lookup", "create", "wake", "done"}, answer : Call \cup {NoRun}]]
    BY DEF DispatchInv, Shapes
  <2>4. \A c \in Call : Held(c) => run[c].status = "running" /\ run[c].lease.id = drain.item.lease
    BY TurnParts DEF HeldRuns
  <2>5. QED
    BY <2>1, <2>2, <2>3, <2>4, TurnParts DEF NotificationsTypeOK, Types, RowTypes, DrainPC
<1>2. QED
  BY <1>1, DispatchInvariant, TurnInvariant, PTL

\* A notification enters the thread again only after a crash or a failure of
\* the store, for any number of passes, however long they outlive their claims.
THEOREM RepeatsAreLosses == Spec => []RepeatedOnlyWhenLost
<1>1. TurnInv => RepeatedOnlyWhenLost
  <2> SUFFICES ASSUME TurnInv, NEW c \in Call
               PROVE  commits[c] <= 1 + used.crashes + used.failures
    BY DEF RepeatedOnlyWhenLost
  <2>1. commits[c] \in Nat /\ used.crashes \in Nat /\ used.failures \in Nat
    BY TurnParts DEF Types
  <2>2. commits[c] <= used.crashes + used.failures + (IF IsTerminal(run[c]) \/ InBody(c) THEN 1 ELSE 0)
    BY TurnParts DEF CommitsBound
  <2>3. QED
    BY <2>1, <2>2
<1>2. QED
  BY <1>1, TurnInvariant, PTL
=============================================================================

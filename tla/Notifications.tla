--------------------------- MODULE Notifications ---------------------------
(***************************************************************************)
(* Notifications of one thread on a Celld host: dispatchAgentNotification  *)
(* records a run, its notification and the row that wakes it; passes of    *)
(* drainCelldScheduledWork claim the row, resume the run, and wait for the *)
(* events of its turn; the thread drains the turns one at a time, beside   *)
(* the turns of a user.  One object runs at a time: it may die and be      *)
(* replaced.  Each transaction of the store is one step, and so is the     *)
(* code between two awaits.                                                *)
(*                                                                         *)
(* Time is not kept: whether the claim of a row, or the lease of a run     *)
(* that no turn renews, has lapsed by now is found out by who reads it.    *)
(* A run's id is the dispatch that made it up, and its lease id the        *)
(* attempt.                                                                *)
(***************************************************************************)
EXTENDS TurnRecords, FiniteSets, Sequences, Functions

CONSTANTS
  Call,          \* calls of dispatchAgentNotification, and the run ids they make up
  Key,           \* scoped idempotency keys
  KeyOf,         \* the key of each call
  User,          \* a queue item that is a user's turn
  NoRun,
  Drainer,       \* passes of drainCelldScheduledWork that claim and resume at a time
  MaxAttempts,
  MaxEvents      \* bound: turns of the user, crashes and failures together

ASSUME NotificationConstantsOK ==
  /\ IsFiniteSet(Call) /\ IsFiniteSet(Drainer) /\ KeyOf \in [Call -> Key]
  /\ User \notin Call /\ NoRun \notin Call
  /\ MaxAttempts \in Nat /\ MaxEvents \in Nat

VARIABLES
  run,      \* the run records
  note,     \* the run that the notification record of each key names
  row,      \* the scheduled work: prompts of dispatches, checks of started turns
  commits,  \* how often the input of each run was committed to the thread
  call,     \* where each dispatch is, and what it answered
  pass,     \* where each pass is with the row it claimed
  duty,     \* turns whose events a pass drains, and what follows them
  queue,    \* inputQueue of the thread
  drain,    \* the thread's drain loop and its item
  used      \* sends, crashes and failures so far

storeVars  == <<run, note, row, commits>>
threadVars == <<queue, drain>>
vars == <<storeVars, call, pass, duty, threadVars, used>>

-----------------------------------------------------------------------------
(* Records and rows *)

\* A prompt resumes a dispatched run, a check one that was started.
Work == {"prompt", "check"}

\* Claim tokens are names: the least one that nothing refers to is fresh.
NoRow == [set |-> FALSE, claim |-> 0]
FreeRow == [NoRow EXCEPT !.set = TRUE]

Tokens == {row[w][c].claim : w \in Work, c \in Call} \cup {d.token : d \in duty}
            \cup {pass[p].token : p \in Drainer}
FreshToken == CHOOSE t \in 1..(Cardinality(Tokens) + 1) : t \notin Tokens

SetRow(w, c, r) == row' = [row EXCEPT ![w][c] = r]

\* insertScheduledWorkRow leaves a row that exists as it is, its claim included.
InsertPrompt(c) ==
  row' = [row EXCEPT !["prompt"][c] = IF @.set THEN @ ELSE FreeRow]

HasRow(c) == \E w \in Work : row[w][c].set

AbsentRun == [status |-> Absent, lease |-> NoLease]

Exists(c) == run[c].status # Absent

\* getByDedupeKey
RunsOf(k) == {c \in Call : KeyOf[c] = k /\ Exists(c)}

\* The running object is the owner its leases name.
Owner == used.crashes + 1

MoreEvents == used.sends + used.crashes + used.failures < MaxEvents
Fail == MoreEvents /\ used' = [used EXCEPT !.failures = @ + 1]

-----------------------------------------------------------------------------
(* Dispatch *)

NoCall == [pc |-> "idle", answer |-> NoRun]

CallAt(c, pc) == call[c].pc = pc
CallTo(c, pc, answer) == call' = [call EXCEPT ![c] = [pc |-> pc, answer |-> answer]]

\* queuedNotificationRun: a run that is not settled is woken once more.
LookUp(c) ==
  /\ \/ RunsOf(KeyOf[c]) = {} /\ CallTo(c, "create", NoRun)
     \/ \E r \in RunsOf(KeyOf[c]) : CallTo(c, IF IsTerminal(run[r]) THEN "done" ELSE "wake", r)
  /\ UNCHANGED <<storeVars, pass, duty, threadVars, used>>

Dispatch(c) == CallAt(c, "idle") /\ LookUp(c)
LookUpAgain(c) == CallAt(c, "lookup") /\ LookUp(c)

\* Mutant of Records: the dispatch trusts what it looked up before.
RecordsUnchecked(c) ==
  /\ run' = [run EXCEPT ![c].status = "queued"]
  /\ note' = [note EXCEPT ![KeyOf[c]] = c]
  /\ InsertPrompt(c)

\* Mutant of Records: the wake is left for after the transaction.
RecordsUnwoken(c) ==
  /\ RunsOf(KeyOf[c]) = {}
  /\ run' = [run EXCEPT ![c].status = "queued"]
  /\ note' = [note EXCEPT ![KeyOf[c]] = c]
  /\ UNCHANGED row

\* The transaction: run, notification and wake, or none of them.
Records(c) ==
  /\ RunsOf(KeyOf[c]) = {}
  /\ run' = [run EXCEPT ![c].status = "queued"]
  /\ note' = [note EXCEPT ![KeyOf[c]] = c]
  /\ InsertPrompt(c)

Create(c) ==
  /\ CallAt(c, "create")
  /\ Records(c)
  /\ CallTo(c, "done", c)
  /\ UNCHANGED <<commits, pass, duty, threadVars, used>>

\* DuplicateNotificationError: the run of another dispatch was committed first.
Deduplicate(c) ==
  /\ CallAt(c, "create")
  /\ RunsOf(KeyOf[c]) # {}
  /\ CallTo(c, "lookup", NoRun)
  /\ UNCHANGED <<storeVars, pass, duty, threadVars, used>>

Wake(c) ==
  /\ CallAt(c, "wake")
  /\ InsertPrompt(call[c].answer)
  /\ CallTo(c, "done", call[c].answer)
  /\ UNCHANGED <<run, note, commits, pass, duty, threadVars, used>>

\* The store fails, before or after the transaction took effect; the caller
\* sees an error, and may dispatch again.
DispatchFails(c) ==
  /\ Fail
  /\ \/ CallAt(c, "create") /\ Records(c)
     \/ CallAt(c, "wake") /\ InsertPrompt(call[c].answer) /\ UNCHANGED <<run, note>>
     \/ (CallAt(c, "create") \/ CallAt(c, "wake")) /\ UNCHANGED <<run, note, row>>
  /\ CallTo(c, "idle", NoRun)
  /\ UNCHANGED <<commits, pass, duty, threadVars>>

Dispatching(c) ==
  Dispatch(c) \/ LookUpAgain(c) \/ Create(c) \/ Deduplicate(c) \/ Wake(c) \/ DispatchFails(c)

-----------------------------------------------------------------------------
(* The thread: its queue, its drain, and the turns it runs *)

Item(c, lease) == [c |-> c, lease |-> lease]

NoItem == Item(NoRun, 0)
IdleDrain == [pc |-> "idle", item |-> NoItem, restart |-> FALSE, callers |-> {}, parked |-> <<>>]

Draining(pc) == drain.pc = pc
Ours == drain.item.c # User

\* The run of the item is held: its turn renews the lease.
Held(c) == drain.pc \in {"commit", "body"} /\ drain.item.c = c

\* An item is queued and the drain requested; a loop under way restarts.
Enqueue(item) ==
  /\ queue' = Append(queue, item)
  /\ drain' = IF Draining("idle")
              THEN [IdleDrain EXCEPT !.pc = "loop", !.callers = {item}]
              ELSE [drain EXCEPT !.restart = TRUE, !.callers = @ \cup {item}]

\* The loop is left: it starts over if another item was queued meanwhile.
LeftLoop ==
  IF drain.restart
  THEN [drain EXCEPT !.pc = "loop", !.item = NoItem, !.restart = FALSE, !.callers = @ \ {drain.item}]
  ELSE IdleDrain

NextItem == drain' = [drain EXCEPT !.pc = "loop", !.item = NoItem, !.callers = @ \ {drain.item}]

\* The events of an item's turn end, as those who drain them see it.
Ended(items, then) ==
  {IF d.then = "wait" /\ Item(d.c, d.lease) \in items THEN [d EXCEPT !.then = then] ELSE d : d \in duty}

\* A loop that throws rejects the drain of everyone who waits for it, unless it
\* starts over: their turns end, queued or not.
Rejected == IF drain.restart THEN {} ELSE drain.callers

UserSends ==
  /\ MoreEvents
  /\ used' = [used EXCEPT !.sends = @ + 1]
  /\ Enqueue(Item(User, 0))
  /\ UNCHANGED <<storeVars, call, pass, duty>>

DrainLoop ==
  /\ Draining("loop")
  /\ IF drain.restart \/ queue = <<>>
     THEN drain' = LeftLoop /\ UNCHANGED queue
     ELSE /\ drain' = [drain EXCEPT !.pc = "start", !.item = Head(queue)]
          /\ queue' = Tail(queue)
  /\ UNCHANGED <<storeVars, call, pass, duty, used>>

\* The run of an item is not settled, and is still the item's claim.
OwnedOpen(item) ==
  /\ ~IsTerminal(run[item.c])
  /\ TransitionAllowed(run[item.c], run[item.c].status, item.lease)

\* Mutant of StartAllowed: any unsettled run may be started.
StartAnyOpen(item) == ~IsTerminal(run[item.c])

\* Mutant of StartAllowed: the start trusts its item.
StartUnchecked(item) == Exists(item.c)

\* markRunRunning: a settled run, or one that another claim took, is refused.
StartAllowed(item) == OwnedOpen(item)

\* The start renews the lease and replaces the run's check.
Started(item) ==
  /\ StartAllowed(item)
  /\ run' = [run EXCEPT ![item.c].status = "running", ![item.c].lease.owner = Owner]
  /\ SetRow("check", item.c, FreeRow)

StartTurn ==
  /\ Draining("start") /\ Ours
  /\ Started(drain.item)
  /\ drain' = [drain EXCEPT !.pc = "commit"]
  /\ UNCHANGED <<note, commits, call, pass, duty, queue, used>>

StartRefused ==
  /\ Draining("start") /\ Ours
  /\ ~StartAllowed(drain.item)
  /\ duty' = Ended({drain.item}, "ack")
  /\ drain' = LeftLoop
  /\ UNCHANGED <<storeVars, call, pass, queue, used>>

\* The start's transaction fails, perhaps after it took effect.  Either way the
\* turn never starts, and the items queued behind it stay.
StartFails ==
  /\ Draining("start")
  /\ Fail
  /\ \/ Ours /\ Started(drain.item)
     \/ UNCHANGED <<run, row>>
  /\ duty' = Ended({drain.item}, "ack")
  /\ drain' = LeftLoop
  /\ UNCHANGED <<note, commits, call, pass, queue>>

\* The notification's input enters the history.
CommitInput ==
  /\ Draining("commit")
  /\ \/ commits' = [commits EXCEPT ![drain.item.c] = @ + 1] /\ UNCHANGED used
     \/ Fail /\ UNCHANGED commits
  /\ drain' = [drain EXCEPT !.pc = "body"]
  /\ UNCHANGED <<run, note, row, call, pass, duty, queue>>

\* The settlement removes the check in its transaction.
Settled(c) ==
  /\ \E s \in TerminalStatus : run' = [run EXCEPT ![c].status = s]
  /\ SetRow("check", c, NoRow)

SettleTurn ==
  /\ Draining("body") /\ Ours
  /\ Settled(drain.item.c)
  /\ duty' = Ended({drain.item}, "ack")
  /\ NextItem
  /\ UNCHANGED <<note, commits, call, pass, queue, used>>

\* A turn that cannot settle closes its turn with the error and throws.
SettleFails ==
  /\ Draining("body") /\ Ours
  /\ Fail
  /\ Settled(drain.item.c) \/ UNCHANGED <<run, row>>
  /\ LET Waits(d) == d.then = "wait"
         Failed(d) == Item(d.c, d.lease) = drain.item
     IN duty' = {CASE Waits(d) /\ Failed(d) -> [d EXCEPT !.then = "retry"]
                   [] Waits(d) /\ ~Failed(d) /\ Item(d.c, d.lease) \in Rejected
                                          -> [d EXCEPT !.then = "ack"]
                   [] OTHER               -> d : d \in duty}
  /\ drain' = LeftLoop
  /\ UNCHANGED <<note, commits, call, pass, queue>>

UserStarts ==
  /\ Draining("start") /\ ~Ours
  /\ drain' = [drain EXCEPT !.pc = "body"]
  /\ UNCHANGED <<storeVars, call, pass, duty, queue, used>>

UserEnds ==
  /\ Draining("body") /\ ~Ours
  /\ NextItem
  /\ UNCHANGED <<storeVars, call, pass, duty, queue, used>>

\* A user's turn that could not acknowledge its input takes the queue with it.
UserBlocked ==
  /\ Draining("body") /\ ~Ours
  /\ used' = [used EXCEPT !.failures = @ + 1]
  /\ drain' = [drain EXCEPT !.pc = "park", !.parked = SelectSeq(queue, LAMBDA i : i.c # User)]
  /\ queue' = <<>>
  /\ UNCHANGED <<storeVars, call, pass, duty>>

\* parkQueuedInputs: the run of each item is cancelled, unless it is settled or
\* another claim took it, and its turn ends.
ParkNext ==
  /\ Draining("park") /\ drain.parked # <<>>
  /\ LET item == Head(drain.parked)
     IN /\ run' = IF OwnedOpen(item) THEN [run EXCEPT ![item.c] = WithStatus(@, "cancelled")] ELSE run
        /\ duty' = Ended({item}, "ack")
  /\ drain' = [drain EXCEPT !.parked = Tail(@)]
  /\ UNCHANGED <<note, row, commits, call, pass, queue, used>>

Parked ==
  /\ Draining("park") /\ drain.parked = <<>>
  /\ drain' = LeftLoop
  /\ UNCHANGED <<storeVars, call, pass, duty, queue, used>>

Thread ==
  \/ DrainLoop \/ StartTurn \/ StartRefused \/ StartFails \/ CommitInput \/ SettleTurn
  \/ SettleFails \/ UserStarts \/ UserEnds \/ UserBlocked \/ ParkNext \/ Parked

-----------------------------------------------------------------------------
(* A pass over the due rows *)

NoPass == [pc |-> "idle", w |-> "prompt", c |-> NoRun, token |-> 0, seen |-> AbsentRun]

At(p, pc) == pass[p].pc = pc
Goto(p, pc) == pass' = [pass EXCEPT ![p].pc = pc]
Done(p) == pass' = [pass EXCEPT ![p] = NoPass]

Duty(p, lease, then) ==
  [w |-> pass[p].w, c |-> pass[p].c, token |-> pass[p].token, lease |-> lease, then |-> then]

\* claimScheduledWorkLease: a free row, or one whose claim has lapsed.
TakeRow(p, w, c) ==
  /\ At(p, "idle")
  /\ row[w][c].set
  /\ SetRow(w, c, [set |-> TRUE, claim |-> FreshToken])
  /\ pass' = [pass EXCEPT ![p] = [NoPass EXCEPT !.pc = IF w = "check" THEN "inspect" ELSE "read",
                                                !.w = w, !.c = c, !.token = FreshToken]]
  /\ UNCHANGED <<run, note, commits, call, duty, threadVars, used>>

\* A lease of an object that is gone, or of a turn here that ended without
\* settling its run.  A claimed run that has not started is not abandoned.
AbandonedLeaseId(c, seen) ==
  IF seen.lease # NoLease /\ (seen.lease.owner # Owner \/ (seen.status = "running" /\ ~Held(c)))
  THEN seen.lease.id ELSE 0

LiveOwner(c, expired) == LeaseHolds(run[c], expired, AbandonedLeaseId(c, run[c]))

\* The lease that a turn renews has not run out; any other may have.
MayExpire(c, expired) == expired => ~Held(c)

\* runTurnBackstop: a settled run's check is done, a live owner's is moved.
Inspect(p, expired) ==
  /\ At(p, "inspect")
  /\ MayExpire(pass[p].c, expired)
  /\ LET c == pass[p].c
     IN Goto(p, IF ~IsClaimable(run[c]) THEN "ack" ELSE IF LiveOwner(c, expired) THEN "retry" ELSE "read")
  /\ UNCHANGED <<storeVars, call, duty, threadVars, used>>

\* agent.resume() reads the run, and claims it later.  The notification is
\* claimed with it, whether or not it was claimed before.
ReadRun(p) ==
  /\ At(p, "read")
  /\ pass' = [pass EXCEPT ![p].pc = "claim", ![p].seen = run[pass[p].c]]
  /\ UNCHANGED <<storeVars, call, duty, threadVars, used>>

ClaimRun(p, expired) ==
  /\ At(p, "claim")
  /\ MayExpire(pass[p].c, expired)
  /\ LET c == pass[p].c
         seen == pass[p].seen
         attempt == seen.lease.attempt + 1
         allowed == ClaimAllowed(run[c], expired, AbandonedLeaseId(c, seen))
         parks == Exhausted(run[c], attempt, MaxAttempts)
         claimed == ClaimedRun(run[c], attempt, EffectiveAttempt(run[c], attempt), Owner)
     IN IF allowed /\ ~parks
        THEN /\ run' = [run EXCEPT ![c] = claimed]
             /\ pass' = [pass EXCEPT ![p].pc = "notify", ![p].seen = claimed]
        ELSE /\ run' = IF allowed THEN [run EXCEPT ![c] = ExhaustedRun(@)] ELSE run
             /\ pass' = [pass EXCEPT ![p].pc = "after", ![p].seen = AbsentRun]
  /\ UNCHANGED <<note, row, commits, call, duty, threadVars, used>>

\* thread.notify(): the turn is queued under the lease of the claim, whatever
\* became of it since and whatever the thread is doing, and the pass drains its
\* events.
Notify(p) ==
  /\ At(p, "notify")
  /\ LET lease == pass[p].seen.lease.id
     IN /\ Enqueue(Item(pass[p].c, lease))
        /\ duty' = duty \cup {Duty(p, lease, "wait")}
  /\ Done(p)
  /\ UNCHANGED <<storeVars, call, used>>

\* The thread cannot be loaded: the run stays leased until its lease lapses.
NotifyFails(p) ==
  /\ At(p, "notify")
  /\ Fail
  /\ pass' = [pass EXCEPT ![p].pc = "after", ![p].seen = AbsentRun]
  /\ UNCHANGED <<storeVars, call, duty, threadVars>>

\* Mutant of AfterNull: a run that gave no turn is someone else's.
AfterNullDone(p) == Goto(p, "ack")

\* No turn: work on a settled run is done, any other is tried again.
AfterNull(p) == Goto(p, IF IsTerminal(run[pass[p].c]) THEN "ack" ELSE "retry")

NoTurn(p) ==
  /\ At(p, "after")
  /\ AfterNull(p)
  /\ UNCHANGED <<storeVars, call, duty, threadVars, used>>

\* Mutant of AckRow: the row goes, whoever claimed it last.
AckAnyRow(w, c, token) == SetRow(w, c, NoRow)

\* Both match the row by the claim of the pass: one that was claimed again, or
\* replaced, is left alone.
AckRow(w, c, token) == SetRow(w, c, IF row[w][c].claim = token THEN NoRow ELSE row[w][c])

RetryRow(w, c, token) == SetRow(w, c, IF row[w][c].claim = token THEN FreeRow ELSE row[w][c])

FinishPass(p) ==
  /\ \/ At(p, "ack") /\ AckRow(pass[p].w, pass[p].c, pass[p].token)
     \/ At(p, "retry") /\ RetryRow(pass[p].w, pass[p].c, pass[p].token)
  /\ Done(p)
  /\ UNCHANGED <<run, note, commits, call, duty, threadVars, used>>

\* The events of a resumed turn ended: its row is acknowledged, or tried again
\* when they ended with an error that was thrown.
FinishDuty(d) ==
  /\ \/ d.then = "ack" /\ AckRow(d.w, d.c, d.token)
     \/ d.then = "retry" /\ RetryRow(d.w, d.c, d.token)
  /\ duty' = duty \ {d}
  /\ UNCHANGED <<run, note, commits, call, pass, threadVars, used>>

\* A failed read or write of the store leaves the row claimed until its claim
\* lapses, or gives it back.
PassFails(p) ==
  /\ pass[p].pc \in {"inspect", "read", "claim", "after", "ack", "retry"}
  /\ Fail
  /\ \/ UNCHANGED row
     \/ RetryRow(pass[p].w, pass[p].c, pass[p].token)
  /\ Done(p)
  /\ UNCHANGED <<run, note, commits, call, duty, threadVars>>

Passing(p) ==
  \/ \E w \in Work, c \in Call : TakeRow(p, w, c)
  \/ \E expired \in BOOLEAN : Inspect(p, expired) \/ ClaimRun(p, expired)
  \/ ReadRun(p) \/ Notify(p) \/ NotifyFails(p) \/ NoTurn(p) \/ FinishPass(p) \/ PassFails(p)

-----------------------------------------------------------------------------
(* Death *)

Crash ==
  /\ MoreEvents
  /\ used' = [used EXCEPT !.crashes = @ + 1]
  /\ call' = [c \in Call |-> IF CallAt(c, "done") THEN call[c] ELSE NoCall]
  /\ pass' = [p \in Drainer |-> NoPass]
  /\ duty' = {}
  /\ queue' = <<>>
  /\ drain' = IdleDrain
  /\ UNCHANGED storeVars

Init ==
  /\ run = [c \in Call |-> AbsentRun]
  /\ note = [k \in Key |-> NoRun]
  /\ row = [w \in Work |-> [c \in Call |-> NoRow]]
  /\ commits = [c \in Call |-> 0]
  /\ call = [c \in Call |-> NoCall]
  /\ pass = [p \in Drainer |-> NoPass]
  /\ duty = {}
  /\ queue = <<>>
  /\ drain = IdleDrain
  /\ used = [sends |-> 0, crashes |-> 0, failures |-> 0]

Next ==
  \/ \E c \in Call : Dispatching(c)
  \/ \E p \in Drainer : Passing(p)
  \/ \E d \in duty : FinishDuty(d)
  \/ Thread \/ UserSends \/ Crash

Spec == Init /\ [][Next]_vars

\* A pass and the thread go on; a due row is taken in the end, which one is
\* open; and a lease that no turn renews has run out in the end, for a pass that
\* comes again and again.  Nothing is fair about calls, sends and faults.
Fairness ==
  /\ SF_vars(\E p \in Drainer, w \in Work, c \in Call : TakeRow(p, w, c))
  /\ \A p \in Drainer :
       /\ SF_vars(Inspect(p, TRUE)) /\ SF_vars(ClaimRun(p, TRUE))
       /\ WF_vars(Inspect(p, FALSE) \/ ReadRun(p) \/ ClaimRun(p, FALSE) \/ Notify(p) \/ NoTurn(p) \/ FinishPass(p))
  /\ WF_vars(DrainLoop \/ StartTurn \/ StartRefused \/ CommitInput \/ SettleTurn \/ UserStarts \/ UserEnds
             \/ ParkNext \/ Parked)

FairSpec == Spec /\ Fairness

-----------------------------------------------------------------------------
(* Properties *)

\* Every variable has its shape, and the run of a turn under way is running
\* under the lease the turn was queued with: no pass takes it over.
NotificationsTypeOK ==
  /\ \A c \in Call : /\ run[c].status \in Status
                     /\ run[c].lease.attempt \in 0..MaxAttempts /\ run[c].lease.id = run[c].lease.attempt
  /\ note \in [Key -> Call \cup {NoRun}]
  /\ row \in [Work -> [Call -> [set : BOOLEAN, claim : Nat]]]
  /\ commits \in [Call -> Nat]
  /\ call \in [Call -> [pc : {"idle", "lookup", "create", "wake", "done"}, answer : Call \cup {NoRun}]]
  /\ \A d \in duty : d.then \in {"wait", "ack", "retry"}
  /\ drain.pc \in {"idle", "loop", "start", "commit", "body", "park"}
  /\ \A c \in Call : Held(c) => /\ run[c].status = "running" /\ run[c].lease.id = drain.item.lease

\* Dispatches of one key, however they race, fail and are repeated, answer one
\* run: the one its notification record names.
AnswersNameTheRun ==
  \A c \in Call : CallAt(c, "done") => note[KeyOf[c]] = call[c].answer /\ Exists(call[c].answer)

\* A crash after the commit of a dispatch leaves something that wakes its run.
QueuedRunsAreWoken == \A c \in Call : run[c].status = "queued" => row["prompt"][c].set

\* While no store call fails, and passes claim runs one at a time, the last row
\* of a run goes only once the run is settled: of the passes that share a row,
\* one that outlived its claim leaves it to the next.
RowsOutliveRuns ==
  [][\A c \in Call : HasRow(c) /\ ~HasRow(c)' => IsTerminal(run'[c]) \/ used.failures > 0]_vars

\* Redelivery repeats a notification in the thread only for a turn that was
\* lost: one whose object died, or whose store failed.
RepeatedOnlyWhenLost ==
  \A c \in Call : commits[c] <= 1 + used.crashes + used.failures

Awaited(k) ==
  LET c == note[k]
  IN c # NoRun /\ ~IsTerminal(run[c]) /\ (HasRow(c) \/ used.failures = 0)

\* A recorded notification's run is settled in the end, unless its rows went
\* with a turn that a failing store kept from starting.
NotificationsEnd == \A k \in Key : Awaited(k) ~> ~Awaited(k)
=============================================================================

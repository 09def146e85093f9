----------------------------- MODULE ThreadInput -----------------------------
(***************************************************************************)
(* The durable inputs of one thread: how sends are admitted to the inbox,  *)
(* queued by the handle that sent them, drained one at a time by the       *)
(* handles of a process, committed to the thread's history, and cancelled  *)
(* when a handle is killed.  A handle is an AgentThread; handles of one    *)
(* process share a host store object, and with it the admission line, the  *)
(* live inputs, the recovery flight and the drain ownership.  One process  *)
(* runs at a time; it may die and be replaced.  Each transaction of the    *)
(* store is one step, and so is the code between two awaits.  A message is *)
(* its admittedSeq.                                                        *)
(***************************************************************************)
EXTENDS Integers, FiniteSets, Sequences, SequencesExt

CONSTANTS
  Handle,
  None,
  MaxSends,         \* bound: messages sent
  FollowUp,         \* the messages that are follow-ups
  MaxCrashes, MaxFailures, MaxKills, MaxInterrupts, MaxResumes,   \* bounds
  MaxEvents,        \* bound: all of these together
  InterruptStarts   \* an interrupt may hit a turn whose start is under way

Msg == 1..MaxSends

ASSUME InputConstantsOK ==
  /\ IsFiniteSet(Handle) /\ None \notin Handle
  /\ {MaxSends, MaxCrashes, MaxFailures, MaxKills, MaxInterrupts, MaxResumes, MaxEvents}
       \subseteq Nat
  /\ FollowUp \subseteq Nat /\ InterruptStarts \in BOOLEAN

VARIABLES
  rec,        \* the inbox records
  run,        \* the status of the run admitted with each message
  hist,       \* the inputs committed to the thread
  by,         \* the handle that sent each message
  turnOf,     \* the AgentTurn of each send, as its caller sees it
  thread,     \* whether a handle's history is that of the store
  parked,     \* the handle holds a recovery that throws
  queue,      \* inputQueue of each handle
  drain,      \* the drain of each handle, and the turn it runs
  blockedOn,  \* the live inputs a handle's restart waits for
  rcv,        \* durable input recovery of each handle
  term,       \* the terminal machine: open or killed
  kill,       \* the teardown of each handle
  calls,      \* the admissions of each process, in line
  flight,     \* a recovery of claims is under way in the process
  live,       \* registered live inputs of each process
  own, last,  \* the owner of the process's drain, and the last to complete
  unseen,     \* handles made stale by a drain that threw (for CommitsAreFresh)
  used        \* what happened so far, against the bounds

storeVars  == <<rec, run, hist>>
callerVars == <<by, turnOf>>
lineVars   == <<calls, flight>>
ownVars    == <<own, last, unseen>>
handleVars == <<thread, parked, queue, drain, blockedOn, rcv, term, kill>>

vars == <<storeVars, callerVars, handleVars, lineVars, live, ownVars, used>>

-----------------------------------------------------------------------------
(* Helpers *)

Terminal == {"completed", "cancelled", "error"}

\* joined are the sends that wait for the drain, and are told when it throws;
\* retry is a restart that waits for it, and then drains once more.
NoDrain == [pc |-> "idle", restart |-> FALSE, orphan |-> FALSE, head |-> 0,
            msg |-> 0, abort |-> FALSE, outcome |-> "processed",
            joined |-> {}, retry |-> FALSE]

NoKill == [phase |-> "none", snap |-> <<>>, err |-> FALSE]

\* The stages in which the drain's turn is activated and not yet released.
InTurn == {"start", "abandon", "release", "commit", "fail", "body", "settle", "finish"}

Happens(kind, max) ==
  /\ used[kind] < max
  /\ used.sends + used.crashes + used.failures + used.kills + used.interrupts + used.resumes
       < MaxEvents
  /\ used' = [used EXCEPT ![kind] = @ + 1]

At(h, pc) == drain[h].pc = pc
Goto(h, pc) == drain' = [drain EXCEPT ![h].pc = pc]

\* The item of the turn is the handle's own queue item, not one rebuilt from a
\* claimed record: only then is its AgentTurn the caller's.
Mine(d) == d.msg # 0 /\ d.msg = d.head

Close(ms) == turnOf' = [m \in Msg |-> IF m \in ms /\ turnOf[m] = "open" THEN "ended" ELSE turnOf[m]]

Unregister(ms) == live' = live \ ms

Pending == {m \in Msg : rec[m].status = "pending"}
Claims(h, m) == rec[m].status = "claiming" /\ rec[m].claim = h

Rec(status, claim) == [status |-> status, claim |-> claim]

ReleaseClaim(h, m) ==
  rec' = IF Claims(h, m) THEN [rec EXCEPT ![m] = Rec("pending", None)] ELSE rec

\* A commit makes every other loaded copy of the thread stale.
Commits(h) ==
  thread' = [g \in Handle |-> IF g # h /\ thread[g] = "fresh" THEN "stale" ELSE thread[g]]

Reload(h) ==
  /\ thread' = [thread EXCEPT ![h] = "fresh"]
  /\ unseen' = unseen \ {h}

\* cancelThreadExecutionRun: a run under a lease or already terminal stays.
Cancelled(ms) == [m \in Msg |-> IF m \in ms /\ run[m] = "queued" THEN "cancelled" ELSE run[m]]

-----------------------------------------------------------------------------
(* Starting and joining a drain *)

\* A pass starts for those who wait for it.
Entered(h, joined, retry) ==
  [NoDrain EXCEPT !.pc = IF own = None THEN "recover" ELSE "wait",
                  !.joined = joined, !.retry = retry]

Enter(h, joined, retry) ==
  /\ drain' = [drain EXCEPT ![h] = Entered(h, joined, retry)]
  /\ own' = IF own = None THEN h ELSE own

\* Mutant of RequestDrain: a request while a loop runs is taken as served.
RequestDrainOnce(h, joined, retry) ==
  IF At(h, "idle") THEN Enter(h, joined, retry) ELSE UNCHANGED <<drain, own>>

RequestDrain(h, joined, retry) ==
  IF At(h, "idle")
  THEN Enter(h, joined, retry)
  ELSE /\ drain' = [drain EXCEPT ![h].restart = TRUE, ![h].joined = @ \cup joined,
                                ![h].retry = @ \/ retry]
       /\ UNCHANGED own

-----------------------------------------------------------------------------
(* Admission: send, followUp and agent.resume() *)

Line == Head(calls)
InLine(step) == calls # <<>> /\ Line.step = step
Step(step) == calls' = <<[Line EXCEPT !.step = step]>> \o Tail(calls)
Leave == calls' = Tail(calls)

Join(h, msg) ==
  /\ term[h] = "open"
  /\ calls' = Append(calls, [h |-> h, step |-> "begin", msg |-> msg])
  /\ thread' = [thread EXCEPT ![h] = IF @ = "unloaded" THEN "loading" ELSE @]
  /\ UNCHANGED <<storeVars, callerVars, parked, queue, drain, blockedOn, rcv,
                 term, kill, flight, live, ownVars>>

Send(h) ==
  /\ Happens("sends", MaxSends)
  /\ Join(h, 0)

\* The host's backstop or a caller leases a run whose owner is gone, and hands it
\* to the thread.  The run of a committed input goes on elsewhere (DurableTurn).
\* A lease outlasts a transaction: no cancellation that a kill sent off while the
\* owner still ran is under way any more.
Resume(h, m) ==
  /\ run[m] = "stranded" /\ rec[m].status # "acked" /\ kill[h].phase = "none"
  /\ \A i \in DOMAIN calls : calls[i].msg # m
  /\ \A g \in Handle : m \notin ToSet(kill[g].snap)
  /\ Happens("resumes", MaxResumes)
  /\ Join(h, m)

Load(h) ==
  /\ thread[h] = "loading"
  /\ thread' = [thread EXCEPT ![h] = "fresh"]
  /\ UNCHANGED <<storeVars, callerVars, parked, queue, drain, blockedOn, rcv,
                 term, kill, lineVars, live, ownVars, used>>

\* A handle's first admission recovers the claims of dead owners, unless a
\* drain of the process runs: its claims are alive.
BeginCall ==
  /\ InLine("begin")
  /\ LET h == Line.h
         recovers == rcv[h] = "pending" /\ own = None
     IN /\ thread[h] # "loading"
        /\ IF term[h] = "open"
           THEN /\ Step("recover")
                /\ rcv' = IF recovers THEN [rcv EXCEPT ![h] = "recovering"] ELSE rcv
                /\ flight' = IF recovers THEN TRUE ELSE flight
           ELSE Leave /\ UNCHANGED <<rcv, flight>>
  /\ UNCHANGED <<storeVars, callerVars, thread, parked, queue, drain, blockedOn,
                 term, kill, live, ownVars, used>>

\* recoverClaims releases every claim of the thread; all the handles that wait
\* for the flight are served by it.
FlightLands ==
  /\ flight
  /\ rec' = [m \in Msg |-> IF rec[m].status = "claiming" THEN Rec("pending", None) ELSE rec[m]]
  /\ flight' = FALSE
  /\ rcv' = [h \in Handle |-> IF rcv[h] = "recovering" THEN "recovered" ELSE rcv[h]]
  /\ UNCHANGED <<run, hist, callerVars, thread, parked, queue, drain, blockedOn,
                 term, kill, calls, live, ownVars, used>>

\* A killed handle, or one whose recovery throws, rejects the send.
AdmitChecks ==
  /\ InLine("recover")
  /\ LET h == Line.h
     IN /\ rcv[h] # "recovering"
        /\ IF term[h] = "open" /\ ~(parked[h] /\ Line.msg = 0)
           THEN Step("admit") ELSE Leave
  /\ UNCHANGED <<storeVars, callerVars, handleVars, flight, live, ownVars, used>>

\* Mutant of NextAdmittedSeq: it counts from zero.
SeqFromZero == Cardinality({n \in Msg : rec[n].status # "none"})

NextAdmittedSeq == 1 + Cardinality({n \in Msg : rec[n].status # "none"})

\* The record and its run are one transaction.  The message is registered as
\* live just before it: nobody can see its record earlier.
Admit ==
  /\ InLine("admit") /\ Line.msg = 0
  /\ LET h == Line.h
         m == NextAdmittedSeq
     IN /\ rec' = [rec EXCEPT ![m] = Rec("pending", None)]
        /\ run' = [run EXCEPT ![m] = "queued"]
        /\ by' = [by EXCEPT ![m] = h]
        /\ live' = live \cup {m}
        /\ calls' = <<[h |-> h, step |-> "push", msg |-> m]>> \o Tail(calls)
  /\ UNCHANGED <<hist, turnOf, handleVars, flight, ownVars, used>>

\* The item is queued and its drain requested even on a handle killed since;
\* only then is the call rejected, and its caller never sees the turn.
Push ==
  /\ InLine("push")
  /\ LET h == Line.h
         m == Line.msg
     IN /\ queue' = [queue EXCEPT ![h] = Append(@, m)]
        /\ RequestDrain(h, {m}, FALSE)
        /\ turnOf' = [turnOf EXCEPT ![m] = IF term[h] = "open" THEN "open" ELSE "gone"]
  /\ Leave
  /\ UNCHANGED <<storeVars, by, thread, parked, blockedOn, rcv, term, kill,
                 flight, live, last, unseen, used>>

\* resumeClaimedExecutionRunOnThread: a free handle whose oldest pending input
\* is the run's own queues it like a send; any other is busy, and the resumer
\* gives the run back.
HandOff ==
  /\ InLine("admit") /\ Line.msg # 0
  /\ LET h == Line.h
         m == Line.msg
         free == /\ drain[h].pc \notin InTurn /\ queue[h] = <<>> /\ own = None
                 /\ m \in Pending /\ \A n \in Pending : n >= m
     IN /\ run' = [run EXCEPT ![m] = "queued"]
        /\ IF free
           THEN /\ live' = live \cup {m}
                /\ queue' = [queue EXCEPT ![h] = <<m>>]
                /\ RequestDrain(h, {}, FALSE)
           ELSE UNCHANGED <<live, queue, drain, own>>
  /\ Leave
  /\ UNCHANGED <<rec, hist, callerVars, thread, parked, blockedOn, rcv, term, kill,
                 flight, last, unseen, used>>

Admission == BeginCall \/ AdmitChecks \/ Admit \/ Push \/ HandOff

-----------------------------------------------------------------------------
(* The drain: ownership, recovery, and the choice of the next input *)

DrainOwn(h) ==
  /\ At(h, "wait") /\ own = None
  /\ own' = h
  /\ Goto(h, "recover")
  /\ UNCHANGED <<storeVars, callerVars, thread, parked, queue, blockedOn, rcv, term,
                 kill, lineVars, live, last, unseen, used>>

\* The owner recovers claims itself when its handle never did.
DrainRecover(h) ==
  /\ At(h, "recover") /\ rcv[h] = "pending"
  /\ rcv' = [rcv EXCEPT ![h] = "recovering"]
  /\ flight' = TRUE
  /\ UNCHANGED <<storeVars, callerVars, thread, parked, queue, drain, blockedOn,
                 term, kill, calls, live, ownVars, used>>

\* Mutant of RefreshRequired: the handle trusts the history it has.
RefreshNever(h) == FALSE

\* Another handle completed a drain since this one did.
RefreshRequired(h) == last \notin {None, h}

DrainReady(h) ==
  /\ At(h, "recover") /\ rcv[h] = "recovered"
  /\ IF RefreshRequired(h) THEN Reload(h) ELSE UNCHANGED <<thread, unseen>>
  /\ drain' = [drain EXCEPT ![h].pc = "loop", ![h].orphan = TRUE]
  /\ UNCHANGED <<storeVars, callerVars, parked, queue, blockedOn, rcv, term, kill,
                 lineVars, live, own, last, used>>

\* One round: the head of the queue, or else an input nobody here queued.
DrainLoop(h) ==
  /\ At(h, "loop")
  /\ LET d == drain[h]
         stops == \/ term[h] # "open" \/ d.restart
                  \/ queue[h] = <<>> /\ (~d.orphan \/ parked[h])
         head == IF queue[h] = <<>> THEN 0 ELSE Head(queue[h])
     IN drain' = [drain EXCEPT ![h] =
          IF stops THEN [d EXCEPT !.pc = "exit"]
          ELSE [d EXCEPT !.pc = "claim", !.head = head, !.msg = 0, !.abort = FALSE,
                         !.orphan = IF head = 0 THEN FALSE ELSE @]]
  /\ UNCHANGED <<storeVars, callerVars, thread, parked, queue, blockedOn, rcv, term,
                 kill, lineVars, live, ownVars, used>>

\* Mutant of NextClaimable: the record admitted last comes first.
LastClaimable == CHOOSE n \in Pending : \A k \in Pending : n >= k

NextClaimable == CHOOSE n \in Pending : \A k \in Pending : n <= k

\* claimNext and what its result decides: the head itself is unregistered and
\* runs; an older record runs first, unless another item here owns it; with
\* nothing to claim the head has been settled elsewhere.
ClaimNext(h) ==
  /\ At(h, "claim")
  /\ LET head == drain[h].head
         m == IF Pending = {} THEN 0 ELSE NextClaimable
         theirs == m # head /\ m \in live
         pc == CASE m = 0 /\ head = 0 -> "exit"
                 [] m = 0 /\ head # 0 -> "drop"
                 [] m # 0 /\ theirs   -> "unclaim"
                 [] OTHER             -> "start"
     IN /\ rec' = IF m = 0 THEN rec ELSE [rec EXCEPT ![m] = Rec("claiming", h)]
        /\ Unregister(IF m = head \/ m = 0 THEN {head} ELSE {})
        /\ queue' = IF m # 0 /\ m = head /\ queue[h] # <<>>
                    THEN [queue EXCEPT ![h] = Tail(@)] ELSE queue
        /\ drain' = [drain EXCEPT ![h].pc = pc, ![h].msg = m]
  /\ UNCHANGED <<run, hist, callerVars, thread, parked, blockedOn, rcv, term, kill,
                 lineVars, ownVars, used>>

\* The record of another item is given back; a queue item waits until that one
\* lets go, and the drain ends.
Unclaim(h) ==
  /\ At(h, "unclaim")
  /\ ReleaseClaim(h, drain[h].msg)
  /\ blockedOn' = [blockedOn EXCEPT ![h] = IF drain[h].head = 0 THEN @ ELSE @ \cup {drain[h].msg}]
  /\ Goto(h, "exit")
  /\ UNCHANGED <<run, hist, callerVars, thread, parked, queue, rcv, term, kill,
                 lineVars, live, ownVars, used>>

RestartReleased(h) ==
  \E m \in blockedOn[h] \ live :
    /\ blockedOn' = [blockedOn EXCEPT ![h] = @ \ {m}]
    /\ RequestDrain(h, {}, TRUE)
    /\ UNCHANGED <<storeVars, callerVars, thread, parked, queue, rcv, term, kill,
                   lineVars, live, last, unseen, used>>

\* The head's run is cancelled and its turn closed; then the queue is shifted,
\* whatever its head is by now.
Drop(h) ==
  /\ At(h, "drop")
  /\ run' = Cancelled({drain[h].head})
  /\ Close({drain[h].head})
  /\ queue' = IF queue[h] = <<>> THEN queue ELSE [queue EXCEPT ![h] = Tail(@)]
  /\ Goto(h, "loop")
  /\ UNCHANGED <<rec, hist, by, thread, parked, blockedOn, rcv, term, kill,
                 lineVars, live, ownVars, used>>

\* The store fails a refresh, a claim or a cancellation, which changes nothing.
\* The drain throws.
DrainThrows(h) ==
  /\ \/ At(h, "recover") /\ rcv[h] = "recovered" /\ RefreshRequired(h)
     \/ drain[h].pc \in {"claim", "drop"}
  /\ Happens("failures", MaxFailures)
  /\ drain' = [drain EXCEPT ![h].pc = "exit", ![h].outcome = "threw"]
  /\ UNCHANGED <<storeVars, callerVars, thread, parked, queue, blockedOn, rcv, term,
                 kill, lineVars, live, ownVars>>

-----------------------------------------------------------------------------
(* The turn of one input *)

End(h, outcome) == drain' = [drain EXCEPT ![h].pc = "finish", ![h].outcome = outcome]

\* markRunRunning: only a queued run starts.  A turn interrupted meanwhile is
\* abandoned; a recovery that throws fails it.
StartTurn(h) ==
  /\ At(h, "start")
  /\ LET d == drain[h]
         starts == run[d.msg] = "queued"
         pc == CASE ~starts -> "release"
                 [] starts /\ d.abort -> "abandon"
                 [] starts /\ ~d.abort /\ parked[h] -> "fail"
                 [] OTHER -> "commit"
     IN /\ run' = IF starts THEN [run EXCEPT ![d.msg] = "running"] ELSE run
        /\ drain' = [drain EXCEPT ![h].pc = pc,
                                  ![h].outcome = IF starts THEN "processed" ELSE "refused"]
  /\ UNCHANGED <<rec, hist, callerVars, thread, parked, queue, blockedOn, rcv, term,
                 kill, lineVars, live, ownVars, used>>

\* The interrupted turn's run is cancelled, then its input is given back.
Abandon(h) ==
  /\ At(h, "abandon")
  /\ run' = [run EXCEPT ![drain[h].msg] = "cancelled"]
  /\ Goto(h, "release")
  /\ UNCHANGED <<rec, hist, callerVars, thread, parked, queue, blockedOn, rcv, term,
                 kill, lineVars, live, ownVars, used>>

Release(h) ==
  /\ At(h, "release")
  /\ ReleaseClaim(h, drain[h].msg)
  /\ Goto(h, "finish")
  /\ UNCHANGED <<run, hist, callerVars, thread, parked, queue, blockedOn, rcv, term,
                 kill, lineVars, live, ownVars, used>>

\* Mutant of Acknowledge: the input is committed, and acknowledged later.
AcknowledgeLater(m) == UNCHANGED rec

Acknowledge(m) == rec' = [rec EXCEPT ![m] = Rec("acked", None)]

\* One transaction commits the input and acknowledges its record.  It fails on
\* a stale history, which is then reloaded, or when the claim was taken away.
CommitInput(h) ==
  /\ At(h, "commit")
  /\ LET m == drain[h].msg
         ok == thread[h] = "fresh" /\ Claims(h, m)
     IN IF ok
        THEN /\ hist' = Append(hist, m)
             /\ Acknowledge(m)
             /\ Commits(h)
             /\ Goto(h, "body")
             /\ UNCHANGED unseen
        ELSE /\ Reload(h)
             /\ Goto(h, "fail")
             /\ UNCHANGED <<rec, hist>>
  /\ UNCHANGED <<run, callerVars, parked, queue, blockedOn, rcv, term, kill,
                 lineVars, live, own, last, used>>

\* A turn that fails before its input is committed gives the input back first.
FailTurn(h) ==
  /\ At(h, "fail")
  /\ ReleaseClaim(h, drain[h].msg)
  /\ drain' = [drain EXCEPT ![h].pc = "settle", ![h].outcome = "blocked"]
  /\ UNCHANGED <<run, hist, callerVars, thread, parked, queue, blockedOn, rcv, term,
                 kill, lineVars, live, ownVars, used>>

\* The store fails the start of the turn, or its input's commit; or the model or
\* a tool fails it.
TurnFails(h) ==
  LET d == drain[h]
  IN /\ d.pc \in {"start", "commit", "body"} /\ Happens("failures", MaxFailures)
     /\ drain' = [drain EXCEPT
          ![h].pc = CASE d.pc = "start" -> "release"
                      [] d.pc = "commit" -> "fail"
                      [] OTHER -> "settle",
          ![h].outcome = IF d.pc = "start" THEN "refused" ELSE @]
     /\ UNCHANGED <<storeVars, callerVars, thread, parked, queue, blockedOn, rcv, term,
                    kill, lineVars, live, ownVars>>

\* The terminal transaction of a turn that ran; one that finds the history
\* stale reloads it and fails the turn.
SettleTurn(h) ==
  /\ At(h, "body")
  /\ LET d == drain[h]
     IN IF thread[h] = "fresh"
        THEN /\ run' = [run EXCEPT ![d.msg] = IF d.abort THEN "cancelled" ELSE "completed"]
             /\ Commits(h)
             /\ End(h, "processed")
             /\ UNCHANGED unseen
        ELSE /\ Reload(h)
             /\ Goto(h, "settle")
             /\ UNCHANGED run
  /\ UNCHANGED <<rec, hist, callerVars, parked, queue, blockedOn, rcv, term, kill,
                 lineVars, live, own, last, used>>

\* The terminal transaction of a failed turn, saved or not.  It leaves a recovery
\* that throws when the input was not committed or the turn is not saved, and may
\* otherwise; a handle that was ever killed keeps none.
Settle(h, saved) ==
  /\ At(h, "settle")
  /\ LET d == drain[h]
         mayPark == kill[h].phase = "none"
     IN /\ run' = [run EXCEPT ![d.msg] = IF saved THEN "error" ELSE "stranded"]
        /\ IF saved THEN Commits(h) /\ UNCHANGED unseen ELSE Reload(h)
        /\ \E recover \in BOOLEAN :
             /\ ~saved \/ d.outcome = "blocked" => recover
             /\ parked' = [parked EXCEPT ![h] = recover /\ mayPark]
        /\ End(h, IF saved THEN d.outcome ELSE "threw")
  /\ UNCHANGED <<rec, hist, callerVars, queue, blockedOn, rcv, term, kill,
                 lineVars, live, own, last>>

\* A stale history conflicts, and is reloaded.
SettleFailed(h) == Settle(h, thread[h] = "fresh") /\ UNCHANGED used

\* The store fails it.
SettleRefused(h) ==
  thread[h] = "fresh" /\ Settle(h, FALSE) /\ Happens("failures", MaxFailures)

\* The turn is released and closed.  After a processed input the loop goes on,
\* but looks for orphans no more once a follow-up ran; a blocked item of the queue
\* parks the others: their runs are cancelled and their callers told.
FinishTurn(h) ==
  /\ At(h, "finish")
  /\ LET d == drain[h]
         parks == d.outcome = "blocked" /\ d.head # 0
         items == IF parks THEN ToSet(queue[h]) ELSE {}
         orphan == IF d.head = 0 THEN TRUE ELSE d.orphan /\ ~(Mine(d) /\ d.head \in FollowUp)
     IN /\ Close(items \cup (IF Mine(d) THEN {d.msg} ELSE {}))
        /\ run' = Cancelled(items)
        /\ Unregister(items)
        /\ queue' = IF parks THEN [queue EXCEPT ![h] = <<>>] ELSE queue
        /\ drain' = [drain EXCEPT ![h].pc = IF d.outcome = "processed" THEN "loop" ELSE "exit",
                                  ![h].orphan = orphan]
  /\ UNCHANGED <<rec, hist, by, thread, parked, blockedOn, rcv, term, kill,
                 lineVars, ownVars, used>>

\* The ownership is let go; only a pass that did not throw is remembered.
DrainExit(h) ==
  /\ At(h, "exit")
  /\ own' = None
  /\ LET threw == drain[h].outcome = "threw"
     IN /\ last' = IF threw THEN last ELSE h
        /\ unseen' = IF threw THEN unseen \cup {g \in Handle : thread[g] = "stale"} ELSE unseen
  /\ Goto(h, "left")
  /\ UNCHANGED <<storeVars, callerVars, thread, parked, queue, blockedOn, rcv, term,
                 kill, lineVars, live, used>>

\* The loop runs again when it was asked to meanwhile.  Otherwise one that threw
\* ends the turns of the sends that wait for it, though their items stay queued,
\* and a restart that waits for it drains again.
DrainSettled(h) ==
  /\ At(h, "left")
  /\ LET d == drain[h]
         again == d.restart /\ term[h] = "open"
         threw == d.outcome = "threw" /\ ~again
         outcome == IF d.outcome \in {"threw", "refused"} THEN d.outcome ELSE "processed"
     IN /\ Close(IF threw THEN d.joined ELSE {})
        /\ IF again THEN Enter(h, d.joined, d.retry)
           ELSE IF threw /\ d.retry THEN Enter(h, {}, TRUE)
           ELSE drain' = [drain EXCEPT ![h] = [NoDrain EXCEPT !.outcome = outcome]]
                /\ UNCHANGED own
  /\ UNCHANGED <<storeVars, by, thread, parked, queue, blockedOn, rcv, term,
                 kill, lineVars, live, last, unseen, used>>

Drain(h) ==
  \/ DrainOwn(h) \/ DrainRecover(h) \/ DrainReady(h) \/ DrainLoop(h) \/ ClaimNext(h)
  \/ Unclaim(h) \/ RestartReleased(h) \/ Drop(h)
  \/ StartTurn(h) \/ Abandon(h) \/ Release(h) \/ CommitInput(h) \/ FailTurn(h)
  \/ SettleTurn(h) \/ SettleFailed(h) \/ FinishTurn(h) \/ DrainExit(h) \/ DrainSettled(h)

Fails(h) == DrainThrows(h) \/ TurnFails(h) \/ SettleRefused(h)

-----------------------------------------------------------------------------
(* Interrupt, kill and crash *)

Interrupt(h) ==
  /\ Happens("interrupts", MaxInterrupts)
  /\ drain[h].pc \in {"commit", "body"} \cup (IF InterruptStarts THEN {"start"} ELSE {})
  /\ drain' = [drain EXCEPT ![h].abort = TRUE]
  /\ UNCHANGED <<storeVars, callerVars, thread, parked, queue, blockedOn, rcv, term,
                 kill, lineVars, live, ownVars>>

\* The handle is killed at once: its turn is aborted and closed, its recovery
\* dropped.  The durable cancellation works on the queue as it is now; with
\* nothing queued the teardown only waits for the admissions in line.
Kill(h) ==
  /\ term[h] = "open" /\ Happens("kills", MaxKills)
  /\ term' = [term EXCEPT ![h] = "killed"]
  /\ parked' = [parked EXCEPT ![h] = FALSE]
  /\ LET d == drain[h]
     IN /\ drain' = IF d.pc \in InTurn THEN [drain EXCEPT ![h].abort = TRUE] ELSE drain
        /\ Close(IF d.pc \in InTurn /\ Mine(d) THEN {d.msg} ELSE {})
  /\ kill' = [kill EXCEPT ![h] =
       [phase |-> IF queue[h] = <<>> THEN "admissions" ELSE "first",
        snap |-> queue[h], err |-> FALSE]]
  /\ UNCHANGED <<storeVars, by, thread, queue, blockedOn, rcv, lineVars, live, ownVars>>

\* cancelQueuedDurableThreadInputs: every item of the snapshot must be pending
\* and its run not under a lease, or the transaction fails as a whole.
Cancellable(m) == rec[m].status = "pending" /\ run[m] \notin {"running", "stranded"}

\* The callers closed: all that are queued by the time the transaction ends.
Spliced(h) == ToSet(queue[h]) \cup ToSet(kill[h].snap)

CancelSnapshot(h, phase, failed) ==
  LET items == ToSet(kill[h].snap)
  IN IF \A m \in items : Cancellable(m)
     THEN /\ rec' = [m \in Msg |-> IF m \in items THEN Rec("acked", None) ELSE rec[m]]
          /\ run' = Cancelled(items)
          /\ Unregister(items)
          /\ Close(Spliced(h))
          /\ queue' = [queue EXCEPT ![h] = <<>>]
          /\ kill' = [kill EXCEPT ![h].phase = phase, ![h].snap = <<>>]
          /\ UNCHANGED term
     ELSE failed /\ UNCHANGED <<rec, run, live, turnOf, queue>>

KillFirst(h) ==
  /\ kill[h].phase = "first"
  /\ CancelSnapshot(h, "admissions",
       /\ kill' = [kill EXCEPT ![h] = [phase |-> "admissions", snap |-> <<>>, err |-> TRUE]]
       /\ UNCHANGED term)
  /\ UNCHANGED <<hist, by, thread, parked, drain, blockedOn, rcv, lineVars, ownVars, used>>

\* Mutant of AdmissionsEnded: the teardown does not wait for them.
AdmissionsIgnored(h) == TRUE

\* The admissions that were in line when the handle was killed are over.
AdmissionsEnded(h) == \A i \in DOMAIN calls : calls[i].h # h

KillAdmissions(h) ==
  /\ kill[h].phase = "admissions" /\ AdmissionsEnded(h)
  /\ kill' = [kill EXCEPT ![h].phase = "second", ![h].snap = queue[h]]
  /\ UNCHANGED <<storeVars, callerVars, thread, parked, queue, drain, blockedOn, rcv,
                 term, lineVars, live, ownVars, used>>

\* A teardown any part of which failed opens the handle again.
KillSecond(h) ==
  LET reopen == /\ term' = [term EXCEPT ![h] = "open"]
                /\ kill' = [kill EXCEPT ![h] = [phase |-> "failed", snap |-> <<>>, err |-> TRUE]]
  IN /\ kill[h].phase = "second"
     /\ IF kill[h].err /\ kill[h].snap = <<>>
        THEN reopen /\ UNCHANGED <<rec, run, live, turnOf, queue>>
        ELSE CancelSnapshot(h, IF kill[h].err THEN "reopens" ELSE "done", reopen)
     /\ UNCHANGED <<hist, by, thread, parked, drain, blockedOn, rcv, lineVars, ownVars, used>>

KillReopens(h) ==
  /\ kill[h].phase = "reopens"
  /\ term' = [term EXCEPT ![h] = "open"]
  /\ kill' = [kill EXCEPT ![h].phase = "failed"]
  /\ UNCHANGED <<storeVars, callerVars, thread, parked, queue, drain, blockedOn, rcv,
                 lineVars, live, ownVars, used>>

Teardown(h) == KillFirst(h) \/ KillAdmissions(h) \/ KillSecond(h) \/ KillReopens(h)

\* A process dies and comes back with new handles: its callers are gone, and
\* the run of a turn under way keeps the lease of its dead owner.
Crash ==
  /\ Happens("crashes", MaxCrashes)
  /\ LET lost == {drain[h].msg : h \in {g \in Handle : drain[g].pc \in InTurn}}
     IN run' = [m \in Msg |-> IF m \in lost /\ run[m] = "running" THEN "stranded" ELSE run[m]]
  /\ turnOf' = [m \in Msg |-> IF turnOf[m] = "none" THEN "none" ELSE "gone"]
  /\ thread' = [h \in Handle |-> "unloaded"]
  /\ parked' = [h \in Handle |-> FALSE]
  /\ queue' = [h \in Handle |-> <<>>]
  /\ drain' = [h \in Handle |-> NoDrain]
  /\ blockedOn' = [h \in Handle |-> {}]
  /\ rcv' = [h \in Handle |-> "pending"]
  /\ term' = [h \in Handle |-> "open"]
  /\ kill' = [h \in Handle |-> NoKill]
  /\ calls' = <<>> /\ flight' = FALSE /\ live' = {}
  /\ own' = None /\ last' = None /\ unseen' = {}
  /\ UNCHANGED <<rec, hist, by>>

-----------------------------------------------------------------------------
Init ==
  /\ rec = [m \in Msg |-> Rec("none", None)]
  /\ run = [m \in Msg |-> "none"]
  /\ hist = <<>>
  /\ by = [m \in Msg |-> None]
  /\ turnOf = [m \in Msg |-> "none"]
  /\ thread = [h \in Handle |-> "unloaded"]
  /\ parked = [h \in Handle |-> FALSE]
  /\ queue = [h \in Handle |-> <<>>]
  /\ drain = [h \in Handle |-> NoDrain]
  /\ blockedOn = [h \in Handle |-> {}]
  /\ rcv = [h \in Handle |-> "pending"]
  /\ term = [h \in Handle |-> "open"]
  /\ kill = [h \in Handle |-> NoKill]
  /\ calls = <<>>
  /\ flight = FALSE
  /\ live = {}
  /\ own = None
  /\ last = None
  /\ unseen = {}
  /\ used = [sends |-> 0, crashes |-> 0, failures |-> 0, kills |-> 0, interrupts |-> 0, resumes |-> 0]

Next ==
  \/ \E h \in Handle :
       \/ Send(h) \/ Load(h) \/ Drain(h) \/ Fails(h)
       \/ Interrupt(h) \/ Kill(h) \/ Teardown(h)
       \/ \E m \in Msg : Resume(h, m)
  \/ Admission \/ FlightLands \/ Crash

Spec == Init /\ [][Next]_vars

\* What a live process does on its own: it never stops while something is left
\* to do.  A turn's body ends (its model call answers, fails or is aborted);
\* nothing is fair about callers, failures and crashes.
Internal ==
  \/ \E h \in Handle : Load(h) \/ Drain(h) \/ Teardown(h)
  \/ Admission \/ FlightLands

Fairness == WF_vars(Internal)

FairSpec == Spec /\ Fairness

-----------------------------------------------------------------------------
(* Properties *)

\* Every variable has its shape.
TypeOK ==
  /\ rec \in [Msg -> [status : {"none", "pending", "claiming", "acked"}, claim : Handle \cup {None}]]
  /\ run \in [Msg -> {"none", "queued", "running", "stranded"} \cup Terminal]
  /\ hist \in Seq(Msg)
  /\ by \in [Msg -> Handle \cup {None}]
  /\ turnOf \in [Msg -> {"none", "open", "ended", "gone"}]
  /\ thread \in [Handle -> {"unloaded", "loading", "fresh", "stale"}]
  /\ parked \in [Handle -> BOOLEAN]
  /\ queue \in [Handle -> Seq(Msg)]
  /\ \A h \in Handle : drain[h].msg \in 0..MaxSends /\ drain[h].head \in 0..MaxSends
  /\ blockedOn \in [Handle -> SUBSET Msg]
  /\ rcv \in [Handle -> {"pending", "recovering", "recovered"}]
  /\ term \in [Handle -> {"open", "killed"}]
  /\ flight \in BOOLEAN
  /\ live \subseteq Msg
  /\ {own, last} \subseteq Handle \cup {None} /\ unseen \subseteq Handle

\* An input is committed at most once, and from then on no recovery of claims
\* gives it back; one that is not committed is acknowledged only by a kill,
\* which cancelled its run.
InputsSettleOnce ==
  /\ \A i, j \in DOMAIN hist : hist[i] = hist[j] => i = j
  /\ \A m \in Msg :
       IF m \in ToSet(hist) THEN rec[m].status = "acked"
       ELSE rec[m].status = "acked" => run[m] \in Terminal

\* Inputs are committed in the order they
\* were admitted, whoever sent them and whatever crashed in between.
AdmissionOrder ==
  \A i, j \in DOMAIN hist : i < j => hist[i] < hist[j]

\* The drain that is about to commit an input has the store's history, unless
\* the drain that made it stale threw: handles that take turns reload it when
\* another one completed a drain since.
CommitsAreFresh ==
  \A h \in Handle : At(h, "commit") => thread[h] = "fresh" \/ h \in unseen

\* When kill() resolves, nothing is queued on the handle and no caller of it
\* waits for a turn, not even one whose admission was under way.
KillEndsCallers ==
  \A h \in Handle : kill[h].phase = "done" =>
    queue[h] = <<>> /\ \A m \in Msg : by[m] = h => turnOf[m] # "open"

\* The four ways a queue gets stuck: the run of a pending input cannot start,
\* as it is cancelled or leased to an owner that is gone; a pending input is
\* registered live and no call or queue holds it; a kill failed, and the handle
\* it opened again is not drained until the next send; nor is one whose drain
\* broke off at a failure of the store.
Held(m) ==
  \/ \E h \in Handle : m \in ToSet(queue[h])
  \/ \E i \in DOMAIN calls : calls[i].msg = m

Wedged ==
  \/ \E m \in Pending : run[m] # "queued" \/ (m \in live /\ ~Held(m))
  \/ \E h \in Handle : kill[h].phase = "failed"
  \/ \E h \in Handle : At(h, "idle") /\ drain[h].outcome # "processed" /\ queue[h] # <<>>

CallsEnd == \A m \in Msg : (turnOf[m] = "open") ~> (turnOf[m] # "open")

\* Every accepted call ends, unless a queue got stuck: no send, drain, restart
\* or recovery loses the wakeup of a queued input.
AcceptedCallsEnd == []~Wedged => CallsEnd

\* Every accepted call ends.
EveryCallEnds == CallsEnd
=============================================================================

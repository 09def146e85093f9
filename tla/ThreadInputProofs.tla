------------------------- MODULE ThreadInputProofs -------------------------
(***************************************************************************)
(* Theorems about ThreadInput, for any number of handles, sends, kills,    *)
(* interrupts, failures, crashes and resumed runs: one inductive invariant *)
(* of sixteen conjuncts, a lemma for the preservation of each, and what    *)
(* follows from it.                                                        *)
(***************************************************************************)
EXTENDS ThreadInput, FiniteSetTheorems, WellFoundedInduction, TLAPS

USE DEF vars, storeVars, callerVars, lineVars, ownVars, handleVars

-----------------------------------------------------------------------------
(* The inductive invariant *)

\* The stages of a drain: outside the pass it owns, with a record claimed, and
\* with the turn's run started.
Stages == {"idle", "wait", "recover", "loop", "claim", "unclaim", "drop", "exit", "left"} \cup InTurn
Outside == {"idle", "wait", "left"}
Claiming == {"unclaim", "start", "abandon", "release", "commit", "fail"}
Started == {"abandon", "commit", "fail", "body", "settle"}
Choosing == {"claim", "drop"}

Outcomes == {"processed", "refused", "blocked", "threw"}

Drains == [pc : Stages, restart : BOOLEAN, orphan : BOOLEAN, head : 0..MaxSends,
           msg : 0..MaxSends, abort : BOOLEAN, outcome : Outcomes,
           joined : SUBSET Msg, retry : BOOLEAN]

Kills == [phase : {"none", "first", "admissions", "second", "reopens", "failed", "done"},
          snap : Seq(Msg), err : BOOLEAN]

Calls == [h : Handle, step : {"begin", "recover", "admit", "push"}, msg : 0..MaxSends]

\* A drain works on a message in the stages that need one.
DrainShapes ==
  /\ drain \in [Handle -> Drains]
  /\ \A h \in Handle : drain[h].pc \in InTurn \cup {"unclaim"} => drain[h].msg # 0

\* Every variable has its shape, records' fields included.
Shapes ==
  /\ TypeOK
  /\ DrainShapes
  /\ kill \in [Handle -> Kills]
  /\ calls \in Seq(Calls)
  /\ used.sends \in 0..MaxSends /\ DOMAIN used = {"sends", "crashes", "failures", "kills", "interrupts", "resumes"}

\* One drain of the process is inside its pass at a time: the owner's.
Owned == \A h \in Handle : drain[h].pc \notin Outside <=> own = h

\* A handle with something to drain has loaded the thread.
Loaded ==
  /\ \A h \in Handle : ~At(h, "idle") \/ queue[h] # <<>> \/ blockedOn[h] # {} =>
       thread[h] \in {"fresh", "stale"}
  /\ \A i \in DOMAIN calls : /\ thread[calls[i].h] # "unloaded"
                             /\ calls[i].step # "begin" => thread[calls[i].h] \in {"fresh", "stale"}

\* A stale handle is one that another drained since, and it says so, unless that
\* drain threw: it cannot get past its recovery with the history it has, and when
\* it throws there it does not get further.
Stale ==
  /\ \A h \in Handle : thread[h] = "stale" /\ h \notin unseen /\ own \in {None, h} =>
       /\ last \notin {None, h}
       /\ own = h => At(h, "recover") \/ (At(h, "exit") /\ drain[h].outcome = "threw")
  /\ \A h \in unseen : thread[h] = "stale"

\* Admissions go one by one, and the line has each message once; the one being
\* pushed is admitted by its handle, and one handed to a thread is stranded.
Lined ==
  /\ \A i \in DOMAIN calls :
       /\ i > 1 => calls[i].step = "begin"
       /\ calls[i].msg # 0 /\ calls[i].step # "push" => run[calls[i].msg] = "stranded"
       /\ calls[i].step = "push" => calls[i].msg # 0 /\ by[calls[i].msg] = calls[i].h
  /\ \A i, j \in DOMAIN calls : calls[i].msg = calls[j].msg /\ calls[i].msg # 0 => i = j

\* The sends in a line that have no message yet.
Sends(line) == {i \in DOMAIN line : line[i].msg = 0}

\* The messages admitted are the first ones, and with the sends in line they
\* are no more than were sent.
Counted ==
  \E k \in 0..MaxSends : /\ \A m \in Msg : rec[m].status # "none" <=> m <= k
                         /\ k + Cardinality(Sends(calls)) <= used.sends

\* A record and its run are made together, and a started turn's run is running.
Run ==
  /\ \A m \in Msg : run[m] = "none" <=> rec[m].status = "none"
  /\ \A h \in Handle : drain[h].pc \in Started => run[drain[h].msg] = "running"

\* A claim is held by the drain that works on it, unless no handle of the
\* process has recovered the claims of the dead yet; a drain past its recovery
\* has.
Claimed ==
  /\ \A h \in Handle : drain[h].pc \notin Outside \cup {"recover"} => rcv[h] = "recovered"
  /\ \A m \in Msg : rec[m].status = "claiming" =>
       \/ \A h \in Handle : rcv[h] # "recovered"
       \/ \E h \in Handle : drain[h].pc \in Claiming /\ drain[h].msg = m /\ rec[m].claim = h

\* What was admitted before a committed or a claimed input is acknowledged.
Ordered ==
  /\ \A i \in DOMAIN hist, n \in Msg : n < hist[i] => rec[n].status = "acked"
  /\ \A h \in Handle, n \in Msg :
       drain[h].pc \in Claiming /\ n < drain[h].msg => rec[n].status = "acked"

\* An input that waits: admitted, registered live, its run not started.
Waiting(m) == m \in live /\ rec[m].status \in {"pending", "claiming"} /\ run[m] = "queued"

\* Every queued input waits, in one place; so does the one being pushed.
Queued ==
  /\ \A h \in Handle : \A i \in DOMAIN queue[h] : Waiting(queue[h][i])
  /\ \A g, h \in Handle : \A i \in DOMAIN queue[g], j \in DOMAIN queue[h] :
       queue[g][i] = queue[h][j] => g = h /\ i = j
  /\ \A i \in DOMAIN calls : calls[i].step = "push" =>
       Waiting(calls[i].msg) /\ \A h \in Handle : calls[i].msg \notin ToSet(queue[h])

\* What is not live, or belongs to the teardown of one handle.
Apart ==
  /\ \A m \in live : rec[m].status # "none"
  /\ \A h \in Handle : drain[h].pc \in InTurn =>
       drain[h].msg \notin live /\ rec[drain[h].msg].status # "none"
  /\ \A m \in Msg : run[m] = "stranded" => m \notin live
  /\ \A h \in Handle : \A m \in ToSet(kill[h].snap) :
       /\ rec[m].status # "none"
       /\ \A i \in DOMAIN calls : calls[i].msg # m
       /\ \A g \in Handle \ {h} : m \notin ToSet(queue[g])

\* While a drain chooses, its head is the head of its queue, or was cancelled
\* by a kill; and a kill's cancellation cannot fail.
Headed ==
  \A h \in Handle : drain[h].pc \in Choosing =>
    /\ drain[h].head # 0 /\ (rec[drain[h].head].status # "acked" \/ term[h] = "open") =>
         queue[h] # <<>> /\ Head(queue[h]) = drain[h].head
    /\ At(h, "drop") => /\ drain[h].head # 0 /\ rec[drain[h].head].status = "acked"
                        /\ kill[h].phase # "first"
    /\ ToSet(kill[h].snap) \subseteq ToSet(queue[h])
    /\ kill[h].phase \in {"first", "second"} /\ queue[h] # <<>> => Head(queue[h]) \in ToSet(kill[h].snap)
    /\ term[h] = "killed" => ~kill[h].err

Closed(h) == \A m \in Msg : by[m] = h => turnOf[m] # "open"

\* How far a kill got, and what it has closed.
Torn ==
  \A h \in Handle :
    LET phase == kill[h].phase IN
    /\ term[h] = "open" <=> phase \in {"none", "failed"}
    /\ phase \notin {"first", "second"} => kill[h].snap = <<>>
    /\ phase = "first" => kill[h].snap # <<>>
    /\ phase \in {"first", "done"} => ~kill[h].err
    /\ phase = "reopens" => kill[h].err
    /\ phase \in {"second", "reopens", "done"} => AdmissionsEnded(h)
    /\ phase = "first" => \A m \in Msg : by[m] = h /\ turnOf[m] = "open" => m \in ToSet(kill[h].snap)
    /\ phase \in {"admissions", "second"} /\ ~kill[h].err => Closed(h)
    /\ phase = "done" => queue[h] = <<>> /\ Closed(h)

\* A caller who waits has its input queued by its handle, or in its turn.
Open ==
  \A m \in Msg : turnOf[m] = "open" =>
    /\ by[m] \in Handle
    /\ \/ m \in ToSet(queue[by[m]])
       \/ drain[by[m]].pc \in InTurn /\ drain[by[m]].msg = m /\ drain[by[m]].head = m

\* What the proofs carry from step to step.
Inv ==
  /\ Shapes /\ Owned /\ Loaded /\ Stale /\ Lined /\ Counted /\ Run /\ Claimed /\ Ordered
  /\ Queued /\ Apart /\ Headed /\ Torn /\ Open /\ InputsSettleOnce /\ AdmissionOrder

-----------------------------------------------------------------------------
(* Sequences *)

LEMMA Heads ==
  ASSUME NEW S, NEW s \in Seq(S), s # <<>>
  PROVE  /\ Head(s) = s[1] /\ Head(s) \in S /\ 1 \in DOMAIN s /\ Len(s) \in Nat \ {0}
         /\ Tail(s) \in Seq(S)
         /\ Len(Tail(s)) = Len(s) - 1 /\ DOMAIN Tail(s) = 1..(Len(s) - 1)
         /\ DOMAIN s = 1..Len(s)
         /\ \A i \in 1..(Len(s) - 1) : i + 1 \in DOMAIN s /\ Tail(s)[i] = s[i + 1]
  OBVIOUS

LEMMA TailSet ==
  ASSUME NEW S, NEW s \in Seq(S), s # <<>>
  PROVE  ToSet(Tail(s)) \subseteq ToSet(s)
  BY DEF ToSet

LEMMA AppendSet ==
  ASSUME NEW S, NEW s \in Seq(S), NEW x \in S
  PROVE  /\ Append(s, x) \in Seq(S) /\ Append(s, x) # <<>>
         /\ DOMAIN Append(s, x) = DOMAIN s \cup {Len(s) + 1} /\ Len(s) + 1 \notin DOMAIN s
         /\ \A i \in DOMAIN s : Append(s, x)[i] = s[i]
         /\ Append(s, x)[Len(s) + 1] = x
         /\ ToSet(Append(s, x)) = ToSet(s) \cup {x}
<1>1. /\ Append(s, x) \in Seq(S) /\ Append(s, x) # <<>>
      /\ DOMAIN Append(s, x) = DOMAIN s \cup {Len(s) + 1} /\ Len(s) + 1 \notin DOMAIN s
  OBVIOUS
<1>2. \A i \in DOMAIN s : Append(s, x)[i] = s[i]
  OBVIOUS
<1>3. Append(s, x)[Len(s) + 1] = x
  OBVIOUS
<1>4. QED
  BY <1>1, <1>2, <1>3 DEF ToSet

LEMMA OneSet == \A x : ToSet(<<x>>) = {x} /\ DOMAIN <<x>> = {1} /\ <<x>>[1] = x
  BY DEF ToSet

LEMMA NoSet == ToSet(<<>>) = {} /\ DOMAIN <<>> = {}
  BY DEF ToSet

LEMMA InSet == \A s, i : i \in DOMAIN s => s[i] \in ToSet(s)
  BY DEF ToSet

LEMMA OfSet == \A s : \A x \in ToSet(s) : \E i \in DOMAIN s : x = s[i]
  BY DEF ToSet

-----------------------------------------------------------------------------
(* What a step does to a drain and to the line *)

\* Only the drain of h moved, to this stage, message, head and outcome.
Turned(h, stage, m, head, outcome) ==
  /\ drain' \in [Handle -> Drains]
  /\ drain'[h].pc = stage /\ drain'[h].msg = m /\ drain'[h].head = head
  /\ drain'[h].outcome = outcome
  /\ \A g \in Handle \ {h} : drain'[g] = drain[g]

LEMMA ConstantsOK == /\ MaxSends \in Nat /\ None \notin Handle /\ Msg \subseteq Nat
                     /\ \A m : m \in Msg <=> m \in 0..MaxSends /\ m # 0
  BY InputConstantsOK DEF Msg

\* A drain at this stage, with this message, head and outcome.
Is(d, stage, m, head, outcome) ==
  d \in Drains /\ d.pc = stage /\ d.msg = m /\ d.head = head /\ d.outcome = outcome

LEMMA StageEdit ==
  ASSUME NEW d \in Drains, NEW stage \in Stages
  PROVE  Is([d EXCEPT !.pc = stage], stage, d.msg, d.head, d.outcome)
  BY DEF Drains, Is

LEMMA OutcomeEdit ==
  ASSUME NEW d \in Drains, NEW stage \in Stages, NEW outcome \in Outcomes
  PROVE  Is([d EXCEPT !.pc = stage, !.outcome = outcome], stage, d.msg, d.head, outcome)
  BY DEF Drains, Is

LEMMA OrphanEdit ==
  ASSUME NEW d \in Drains, NEW stage \in Stages, NEW orphan \in BOOLEAN
  PROVE  Is([d EXCEPT !.pc = stage, !.orphan = orphan], stage, d.msg, d.head, d.outcome)
  BY DEF Drains, Is

LEMMA RestartEdit ==
  ASSUME NEW d \in Drains, NEW joined \in SUBSET Msg, NEW retry \in BOOLEAN
  PROVE  Is([d EXCEPT !.restart = TRUE, !.joined = joined, !.retry = retry],
            d.pc, d.msg, d.head, d.outcome)
  BY DEF Drains, Is

LEMMA PassEdit ==
  ASSUME NEW d \in Drains, NEW stage \in Stages, NEW joined \in SUBSET Msg, NEW retry \in BOOLEAN
  PROVE  Is([d EXCEPT !.pc = stage, !.joined = joined, !.retry = retry],
            stage, d.msg, d.head, d.outcome)
  BY DEF Drains, Is

LEMMA AbortEdit ==
  ASSUME NEW d \in Drains
  PROVE  Is([d EXCEPT !.abort = TRUE], d.pc, d.msg, d.head, d.outcome)
  BY DEF Drains, Is

LEMMA MsgEdit ==
  ASSUME NEW d \in Drains, NEW stage \in Stages, NEW m \in 0..MaxSends
  PROVE  Is([d EXCEPT !.pc = stage, !.msg = m], stage, m, d.head, d.outcome)
  BY DEF Drains, Is

LEMMA HeadEdit ==
  ASSUME NEW d \in Drains, NEW stage \in Stages, NEW m \in 0..MaxSends, NEW orphan \in BOOLEAN
  PROVE  Is([d EXCEPT !.pc = stage, !.head = m, !.msg = 0, !.abort = FALSE, !.orphan = orphan],
            stage, 0, m, d.outcome)
<1>1. 0 \in 0..MaxSends
  BY ConstantsOK
<1>2. QED
  BY <1>1 DEF Drains, Is

LEMMA NewTurns ==
  ASSUME Shapes, NEW h \in Handle, NEW d, NEW stage, NEW m, NEW head, NEW outcome,
         drain' = [drain EXCEPT ![h] = d], Is(d, stage, m, head, outcome)
  PROVE  Turned(h, stage, m, head, outcome)
  BY DEF Shapes, DrainShapes, Turned, Is

LEMMA DrainFields ==
  ASSUME Shapes, NEW h \in Handle
  PROVE  /\ drain[h] \in Drains
         /\ drain[h].pc \in Stages /\ drain[h].msg \in 0..MaxSends /\ drain[h].head \in 0..MaxSends
         /\ drain[h].restart \in BOOLEAN /\ drain[h].orphan \in BOOLEAN /\ drain[h].abort \in BOOLEAN
         /\ drain[h].outcome \in Outcomes
         /\ drain[h].joined \in SUBSET Msg /\ drain[h].retry \in BOOLEAN
  BY DEF Shapes, DrainShapes, Drains

LEMMA GotoTurns ==
  ASSUME Shapes, NEW h \in Handle, NEW stage \in Stages, Goto(h, stage)
  PROVE  Turned(h, stage, drain[h].msg, drain[h].head, drain[h].outcome)
  BY DEF Shapes, DrainShapes, Goto, Turned, Drains

LEMMA EndTurns ==
  ASSUME Shapes, NEW h \in Handle, NEW outcome \in Outcomes, End(h, outcome)
  PROVE  Turned(h, "finish", drain[h].msg, drain[h].head, outcome)
<1> DEFINE d == [drain[h] EXCEPT !.pc = "finish", !.outcome = outcome]
<1>1. "finish" \in Stages
  BY DEF Stages, InTurn
<1>2. Is(d, "finish", drain[h].msg, drain[h].head, outcome)
  BY <1>1, DrainFields, OutcomeEdit
<1>3. drain' = [drain EXCEPT ![h] = d]
  BY DEF End, Shapes, DrainShapes
<1> HIDE DEF d
<1>4. QED
  BY <1>2, <1>3, NewTurns

LEMMA NewDrains == NoDrain \in Drains
  BY ConstantsOK DEF NoDrain, Drains, Stages, Outcomes

LEMMA EnterTurns ==
  ASSUME Shapes, NEW h \in Handle, NEW joined \in SUBSET Msg, NEW retry \in BOOLEAN,
         Enter(h, joined, retry)
  PROVE  /\ Turned(h, IF own = None THEN "recover" ELSE "wait", 0, 0, "processed")
         /\ own' = IF own = None THEN h ELSE own
<1> DEFINE stage == IF own = None THEN "recover" ELSE "wait"
           d == [NoDrain EXCEPT !.pc = stage, !.joined = joined, !.retry = retry]
<1>1. stage \in Stages
  BY DEF Stages
<1>2. drain' = [drain EXCEPT ![h] = d] /\ own' = IF own = None THEN h ELSE own
  BY DEF Enter, Entered
<1> HIDE DEF stage
<1>3. Is(d, stage, 0, 0, "processed")
  <2>1. NoDrain \in Drains /\ NoDrain.msg = 0 /\ NoDrain.head = 0 /\ NoDrain.outcome = "processed"
    BY NewDrains DEF NoDrain
  <2>2. QED
    BY <1>1, <2>1, PassEdit
<1> HIDE DEF d
<1>4. Turned(h, stage, 0, 0, "processed")
  BY <1>2, <1>3, NewTurns
<1>5. QED
  BY <1>2, <1>4 DEF stage

\* A drain is requested of a handle, for some sends and restarts or for none.
Requests(h) == \E joined \in SUBSET Msg, retry \in BOOLEAN : RequestDrain(h, joined, retry)

LEMMA RequestTurns ==
  ASSUME Shapes, NEW h \in Handle, Requests(h)
  PROVE  \/ /\ At(h, "idle")
            /\ Turned(h, IF own = None THEN "recover" ELSE "wait", 0, 0, "processed")
            /\ own' = IF own = None THEN h ELSE own
         \/ /\ ~At(h, "idle")
            /\ Turned(h, drain[h].pc, drain[h].msg, drain[h].head, drain[h].outcome)
            /\ own' = own
<1>1. PICK joined \in SUBSET Msg, retry \in BOOLEAN : RequestDrain(h, joined, retry)
  BY DEF Requests
<1>2. CASE At(h, "idle")
  BY <1>1, <1>2, EnterTurns DEF RequestDrain
<1>3. CASE ~At(h, "idle")
  <2> DEFINE d == [drain[h] EXCEPT !.restart = TRUE, !.joined = drain[h].joined \cup joined,
                                   !.retry = drain[h].retry \/ retry]
  <2>1. drain[h].joined \cup joined \in SUBSET Msg /\ (drain[h].retry \/ retry) \in BOOLEAN
    BY DrainFields
  <2>2. Is(d, drain[h].pc, drain[h].msg, drain[h].head, drain[h].outcome)
    BY <2>1, DrainFields, RestartEdit
  <2>3. drain' = [drain EXCEPT ![h] = d] /\ own' = own
    BY <1>1, <1>3 DEF RequestDrain, Shapes, DrainShapes
  <2> HIDE DEF d
  <2>4. Turned(h, drain[h].pc, drain[h].msg, drain[h].head, drain[h].outcome)
    BY <2>2, <2>3, NewTurns
  <2>5. QED
    BY <1>3, <2>3, <2>4
<1>4. QED
  BY <1>2, <1>3

\* The steps that request one.
LEMMA PushRequests ==
  ASSUME Shapes, Lined, Push
  PROVE  Requests(Line.h)
<1>1. Line.msg \in Msg
  <2>1. calls # <<>> /\ Line.step = "push"
    BY DEF Push, InLine
  <2>2. 1 \in DOMAIN calls /\ Line = calls[1] /\ Line \in Calls
    BY <2>1, Heads DEF Line, Shapes
  <2>3. QED
    BY <2>1, <2>2, ConstantsOK DEF Lined, Calls
<1>2. RequestDrain(Line.h, {Line.msg}, FALSE)
  BY DEF Push
<1>3. QED
  BY <1>1, <1>2 DEF Requests

LEMMA HandOffRequests ==
  ASSUME HandOff
  PROVE  Requests(Line.h) \/ UNCHANGED <<live, queue, drain, own>>
<1>1. RequestDrain(Line.h, {}, FALSE) \/ UNCHANGED <<live, queue, drain, own>>
  BY DEF HandOff
<1>2. QED
  BY <1>1 DEF Requests

LEMMA RestartRequests ==
  ASSUME NEW h \in Handle, RestartReleased(h)
  PROVE  Requests(h)
<1>1. RequestDrain(h, {}, TRUE)
  BY DEF RestartReleased
<1>2. QED
  BY <1>1 DEF Requests

LEMMA ReadyTurns ==
  ASSUME Shapes, NEW h \in Handle, DrainReady(h)
  PROVE  Turned(h, "loop", drain[h].msg, drain[h].head, drain[h].outcome)
<1> DEFINE d == [drain[h] EXCEPT !.pc = "loop", !.orphan = TRUE]
<1>1. "loop" \in Stages
  BY DEF Stages
<1>2. Is(d, "loop", drain[h].msg, drain[h].head, drain[h].outcome)
  BY <1>1, DrainFields, OrphanEdit
<1>3. drain' = [drain EXCEPT ![h] = d]
  BY DEF DrainReady, Shapes, DrainShapes
<1> HIDE DEF d
<1>4. QED
  BY <1>2, <1>3, NewTurns

\* The head that the loop chooses.
Oldest(h) == IF queue[h] = <<>> THEN 0 ELSE Head(queue[h])

LEMMA LoopTurns ==
  ASSUME Shapes, NEW h \in Handle, DrainLoop(h)
  PROVE  \/ Turned(h, "exit", drain[h].msg, drain[h].head, drain[h].outcome)
         \/ /\ term[h] = "open"
            /\ Turned(h, "claim", 0, Oldest(h), drain[h].outcome)
<1>1. Oldest(h) \in 0..MaxSends
  BY ConstantsOK DEF Shapes, DrainShapes, TypeOK, Oldest
<1> DEFINE stops == \/ term[h] # "open" \/ drain[h].restart
                    \/ queue[h] = <<>> /\ (~drain[h].orphan \/ parked[h])
<1>2. drain' = [drain EXCEPT ![h] =
             IF stops THEN [drain[h] EXCEPT !.pc = "exit"]
             ELSE [drain[h] EXCEPT !.pc = "claim", !.head = Oldest(h), !.msg = 0, !.abort = FALSE,
                                   !.orphan = IF Oldest(h) = 0 THEN FALSE ELSE @]]
  BY DEF DrainLoop, Oldest
<1>3. CASE stops
  <2> DEFINE d == [drain[h] EXCEPT !.pc = "exit"]
  <2>1. "exit" \in Stages
    BY DEF Stages
  <2>2. Is(d, "exit", drain[h].msg, drain[h].head, drain[h].outcome)
    BY <2>1, DrainFields, StageEdit
  <2>3. drain' = [drain EXCEPT ![h] = d]
    BY <1>2, <1>3
  <2> HIDE DEF d
  <2>4. QED
    BY <2>2, <2>3, NewTurns
<1>4. CASE ~stops
  <2> DEFINE orphan == IF Oldest(h) = 0 THEN FALSE ELSE drain[h].orphan
             d == [drain[h] EXCEPT !.pc = "claim", !.head = Oldest(h), !.msg = 0, !.abort = FALSE,
                                   !.orphan = orphan]
  <2>1. "claim" \in Stages /\ orphan \in BOOLEAN
    BY DrainFields DEF Stages
  <2>2. drain' = [drain EXCEPT ![h] = d]
    BY <1>2, <1>4
  <2> HIDE DEF orphan
  <2>3. Is(d, "claim", 0, Oldest(h), drain[h].outcome)
    BY <1>1, <2>1, DrainFields, HeadEdit
  <2> HIDE DEF d
  <2>4. QED
    BY <1>4, <2>2, <2>3, NewTurns
<1>5. QED
  BY <1>3, <1>4

LEMMA Least ==
  ASSUME NEW T, T \subseteq Nat, T # {}
  PROVE  \E x \in T : \A y \in T : x <= y
<1> DEFINE R == OpToRel(<, Nat)
<1>1. IsWellFoundedOn(R, Nat)
  BY NatLessThanWellFounded
<1>2. \A x, y \in Nat : <<x, y>> \in R <=> x < y
  BY DEF OpToRel
<1> HIDE DEF R
<1>3. PICK x \in T : \A y \in T : ~(<<y, x>> \in R)
  BY <1>1, WFMin
<1>4. \A y \in T : y \in Nat /\ x \in Nat /\ ~(y < x)
  BY <1>2, <1>3
<1>5. QED
  BY <1>4

\* The record a claim takes: the one admitted first, if there is any.
Chosen == IF Pending = {} THEN 0 ELSE NextClaimable

LEMMA ChosenFirst ==
  /\ Chosen \in 0..MaxSends
  /\ Chosen = 0 <=> Pending = {}
  /\ Chosen # 0 => Chosen \in Pending /\ \A n \in Pending : Chosen <= n
<1>1. Pending \subseteq Msg /\ Pending \subseteq Nat
  BY ConstantsOK DEF Pending
<1>2. CASE Pending = {}
  BY <1>2, ConstantsOK DEF Chosen
<1>3. CASE Pending # {}
  <2>1. \E x \in Pending : \A y \in Pending : x <= y
    BY <1>1, <1>3, Least
  <2>2. NextClaimable \in Pending /\ \A n \in Pending : NextClaimable <= n
    BY <2>1 DEF NextClaimable
  <2>3. NextClaimable \in 0..MaxSends /\ NextClaimable # 0
    BY <1>1, <2>2, ConstantsOK
  <2>4. QED
    BY <1>3, <2>2, <2>3 DEF Chosen
<1>4. QED
  BY <1>2, <1>3

\* What a claim leads to.
AfterClaim(h) ==
  IF Chosen = 0 THEN IF drain[h].head = 0 THEN "exit" ELSE "drop"
  ELSE IF Chosen # drain[h].head /\ Chosen \in live THEN "unclaim" ELSE "start"

LEMMA ClaimTurns ==
  ASSUME Shapes, NEW h \in Handle, ClaimNext(h)
  PROVE  /\ At(h, "claim")
         /\ Turned(h, AfterClaim(h), Chosen, drain[h].head, drain[h].outcome)
         /\ rec' = IF Chosen = 0 THEN rec ELSE [rec EXCEPT ![Chosen] = Rec("claiming", h)]
         /\ live' = live \ IF Chosen = drain[h].head \/ Chosen = 0 THEN {drain[h].head} ELSE {}
         /\ queue' = IF Chosen # 0 /\ Chosen = drain[h].head /\ queue[h] # <<>>
                     THEN [queue EXCEPT ![h] = Tail(@)] ELSE queue
<1> DEFINE m == IF Pending = {} THEN 0 ELSE NextClaimable
           theirs == m # drain[h].head /\ m \in live
           pc == CASE m = 0 /\ drain[h].head = 0 -> "exit"
                   [] m = 0 /\ drain[h].head # 0 -> "drop"
                   [] m # 0 /\ theirs   -> "unclaim"
                   [] OTHER             -> "start"
           d == [drain[h] EXCEPT !.pc = pc, !.msg = m]
<1>1. m = Chosen
  BY DEF Chosen
<1>2. /\ At(h, "claim")
      /\ rec' = IF m = 0 THEN rec ELSE [rec EXCEPT ![m] = Rec("claiming", h)]
      /\ Unregister(IF m = drain[h].head \/ m = 0 THEN {drain[h].head} ELSE {})
      /\ queue' = IF m # 0 /\ m = drain[h].head /\ queue[h] # <<>>
                  THEN [queue EXCEPT ![h] = Tail(@)] ELSE queue
      /\ drain' = [drain EXCEPT ![h].pc = pc, ![h].msg = m]
  BY DEF ClaimNext
<1>3. drain' = [drain EXCEPT ![h] = d]
  BY <1>2 DEF Shapes, DrainShapes
<1> HIDE DEF m
<1>4. pc = AfterClaim(h)
  BY <1>1 DEF AfterClaim
<1> HIDE DEF pc
<1>5. AfterClaim(h) \in Stages
  BY DEF AfterClaim, Stages, InTurn
<1>6. Is(d, AfterClaim(h), Chosen, drain[h].head, drain[h].outcome)
  BY <1>1, <1>4, <1>5, ChosenFirst, DrainFields, MsgEdit
<1> HIDE DEF d
<1>7. Turned(h, AfterClaim(h), Chosen, drain[h].head, drain[h].outcome)
  BY <1>3, <1>6, NewTurns
<1>8. QED
  BY <1>1, <1>2, <1>7 DEF Unregister

LEMMA StartTurns ==
  ASSUME Shapes, NEW h \in Handle, StartTurn(h)
  PROVE  \/ /\ run[drain[h].msg] = "queued" /\ run' = [run EXCEPT ![drain[h].msg] = "running"]
            /\ \E stage \in {"abandon", "fail", "commit"} :
                 Turned(h, stage, drain[h].msg, drain[h].head, "processed")
         \/ /\ run[drain[h].msg] # "queued" /\ run' = run
            /\ Turned(h, "release", drain[h].msg, drain[h].head, "refused")
<1> DEFINE starts == run[drain[h].msg] = "queued"
           pc == CASE ~starts -> "release"
                   [] starts /\ drain[h].abort -> "abandon"
                   [] starts /\ ~drain[h].abort /\ parked[h] -> "fail"
                   [] OTHER -> "commit"
           outcome == IF starts THEN "processed" ELSE "refused"
           d == [drain[h] EXCEPT !.pc = pc, !.outcome = outcome]
<1>1. /\ run' = IF starts THEN [run EXCEPT ![drain[h].msg] = "running"] ELSE run
      /\ drain' = [drain EXCEPT ![h].pc = pc, ![h].outcome = outcome]
  BY DEF StartTurn
<1>2. drain' = [drain EXCEPT ![h] = d]
  BY <1>1 DEF Shapes, DrainShapes
<1>3. pc \in {"abandon", "fail", "commit", "release"} /\ (pc = "release" <=> ~starts)
  <2>1. CASE ~starts
    BY <2>1
  <2>2. CASE starts /\ drain[h].abort
    BY <2>2
  <2>3. CASE starts /\ ~drain[h].abort /\ parked[h]
    BY <2>3
  <2>4. CASE starts /\ ~drain[h].abort /\ ~parked[h]
    BY <2>4
  <2>5. QED
    BY <2>1, <2>2, <2>3, <2>4
<1> HIDE DEF pc
<1>4. pc \in Stages /\ outcome \in Outcomes
  BY <1>3 DEF Stages, InTurn, Outcomes
<1>5. Is(d, pc, drain[h].msg, drain[h].head, outcome)
  BY <1>4, DrainFields, OutcomeEdit
<1> HIDE DEF d
<1>6. Turned(h, pc, drain[h].msg, drain[h].head, outcome)
  BY <1>2, <1>5, NewTurns
<1>7. QED
  BY <1>1, <1>3, <1>6

LEMMA FailTurns ==
  ASSUME Shapes, NEW h \in Handle, FailTurn(h)
  PROVE  Turned(h, "settle", drain[h].msg, drain[h].head, "blocked")
<1> DEFINE d == [drain[h] EXCEPT !.pc = "settle", !.outcome = "blocked"]
<1>1. "settle" \in Stages
  BY DEF Stages, InTurn
<1>2. Is(d, "settle", drain[h].msg, drain[h].head, "blocked")
  BY <1>1, DrainFields, OutcomeEdit DEF Outcomes
<1>3. drain' = [drain EXCEPT ![h] = d]
  BY DEF FailTurn, Shapes, DrainShapes
<1> HIDE DEF d
<1>4. QED
  BY <1>2, <1>3, NewTurns

LEMMA FinishTurns ==
  ASSUME Shapes, NEW h \in Handle, FinishTurn(h)
  PROVE  Turned(h, IF drain[h].outcome = "processed" THEN "loop" ELSE "exit",
                drain[h].msg, drain[h].head, drain[h].outcome)
<1> DEFINE stage == IF drain[h].outcome = "processed" THEN "loop" ELSE "exit"
           orphan == IF drain[h].head = 0 THEN TRUE
                     ELSE drain[h].orphan /\ ~(Mine(drain[h]) /\ drain[h].head \in FollowUp)
           d == [drain[h] EXCEPT !.pc = stage, !.orphan = orphan]
<1>1. stage \in Stages /\ orphan \in BOOLEAN
  BY DrainFields DEF Stages
<1>2. drain' = [drain EXCEPT ![h].pc = stage, ![h].orphan = orphan]
  BY DEF FinishTurn
<1> HIDE DEF stage, orphan
<1>3. Is(d, stage, drain[h].msg, drain[h].head, drain[h].outcome)
  BY <1>1, DrainFields, OrphanEdit
<1>4. drain' = [drain EXCEPT ![h] = d]
  BY <1>2 DEF Shapes, DrainShapes
<1> HIDE DEF d
<1>5. Turned(h, stage, drain[h].msg, drain[h].head, drain[h].outcome)
  BY <1>3, <1>4, NewTurns
<1>6. QED
  BY <1>5 DEF stage

\* The stages and outcomes of a failure of the store, the model or a tool.
LEMMA ThrowTurns ==
  ASSUME Shapes, NEW h \in Handle, DrainThrows(h)
  PROVE  Turned(h, "exit", drain[h].msg, drain[h].head, "threw")
<1> DEFINE d == [drain[h] EXCEPT !.pc = "exit", !.outcome = "threw"]
<1>1. "exit" \in Stages /\ "threw" \in Outcomes
  BY DEF Stages, Outcomes
<1>2. Is(d, "exit", drain[h].msg, drain[h].head, "threw")
  BY <1>1, DrainFields, OutcomeEdit
<1>3. drain' = [drain EXCEPT ![h] = d]
  BY DEF DrainThrows, Shapes, DrainShapes
<1> HIDE DEF d
<1>4. QED
  BY <1>2, <1>3, NewTurns

LEMMA TurnFailsTurns ==
  ASSUME Shapes, NEW h \in Handle, TurnFails(h)
  PROVE  \/ At(h, "start") /\ Turned(h, "release", drain[h].msg, drain[h].head, "refused")
         \/ At(h, "commit") /\ Turned(h, "fail", drain[h].msg, drain[h].head, drain[h].outcome)
         \/ At(h, "body") /\ Turned(h, "settle", drain[h].msg, drain[h].head, drain[h].outcome)
<1> DEFINE stage == CASE drain[h].pc = "start" -> "release"
                      [] drain[h].pc = "commit" -> "fail"
                      [] OTHER -> "settle"
           outcome == IF drain[h].pc = "start" THEN "refused" ELSE drain[h].outcome
           d == [drain[h] EXCEPT !.pc = stage, !.outcome = outcome]
<1>1. drain[h].pc \in {"start", "commit", "body"}
  BY DEF TurnFails
<1>2. drain' = [drain EXCEPT ![h] = d]
  BY DEF TurnFails, Shapes, DrainShapes
<1>3. /\ drain[h].pc = "start" => stage = "release" /\ outcome = "refused"
      /\ drain[h].pc = "commit" => stage = "fail" /\ outcome = drain[h].outcome
      /\ drain[h].pc = "body" => stage = "settle" /\ outcome = drain[h].outcome
  OBVIOUS
<1> HIDE DEF stage, outcome
<1>4. stage \in Stages /\ outcome \in Outcomes
  BY <1>1, <1>3, DrainFields DEF Stages, InTurn, Outcomes
<1>5. Is(d, stage, drain[h].msg, drain[h].head, outcome)
  BY <1>4, DrainFields, OutcomeEdit
<1> HIDE DEF d
<1>6. Turned(h, stage, drain[h].msg, drain[h].head, outcome)
  BY <1>2, <1>5, NewTurns
<1>7. QED
  BY <1>1, <1>3, <1>6 DEF At

\* The terminal transaction of a failed turn, saved or not.
Settles(h) == SettleFailed(h) \/ SettleRefused(h)

LEMMA SettleEnds ==
  ASSUME Shapes, NEW h \in Handle, Settles(h)
  PROVE  /\ At(h, "settle")
         /\ \E outcome \in Outcomes : Turned(h, "finish", drain[h].msg, drain[h].head, outcome)
         /\ run' \in {[run EXCEPT ![drain[h].msg] = status] : status \in {"error", "stranded"}}
         /\ UNCHANGED <<rec, hist, callerVars, queue, blockedOn, rcv, term, kill, lineVars, live,
                        own, last>>
<1>1. PICK saved \in BOOLEAN : Settle(h, saved)
  BY DEF Settles, SettleFailed, SettleRefused
<1>2. End(h, IF saved THEN drain[h].outcome ELSE "threw")
  BY <1>1 DEF Settle
<1>3. (IF saved THEN drain[h].outcome ELSE "threw") \in Outcomes
  BY DrainFields DEF Outcomes
<1>4. \E outcome \in Outcomes : Turned(h, "finish", drain[h].msg, drain[h].head, outcome)
  BY <1>2, <1>3, EndTurns
<1>5. run' \in {[run EXCEPT ![drain[h].msg] = status] : status \in {"error", "stranded"}}
  BY <1>1 DEF Settle
<1>6. QED
  BY <1>1, <1>4, <1>5 DEF Settle

LEMMA SettledTurns ==
  ASSUME Shapes, NEW h \in Handle, DrainSettled(h)
  PROVE  /\ At(h, "left")
         /\ \/ /\ Turned(h, IF own = None THEN "recover" ELSE "wait", 0, 0, "processed")
               /\ own' = IF own = None THEN h ELSE own
            \/ /\ \E outcome \in Outcomes : Turned(h, "idle", 0, 0, outcome)
               /\ own' = own
<1> DEFINE d == drain[h]
           again == d.restart /\ term[h] = "open"
           threw == d.outcome = "threw" /\ ~again
           outcome == IF d.outcome \in {"threw", "refused"} THEN d.outcome ELSE "processed"
<1>1. /\ At(h, "left")
      /\ IF again THEN Enter(h, d.joined, d.retry)
         ELSE IF threw /\ d.retry THEN Enter(h, {}, TRUE)
         ELSE drain' = [drain EXCEPT ![h] = [NoDrain EXCEPT !.outcome = outcome]] /\ own' = own
  BY DEF DrainSettled
<1>2. CASE again
  BY <1>1, <1>2, EnterTurns, DrainFields
<1>3. CASE ~again /\ threw /\ d.retry
  <2>1. Enter(h, {}, TRUE)
    BY <1>1, <1>3
  <2>2. QED
    BY <1>1, <2>1, EnterTurns
<1>4. CASE ~again /\ ~(threw /\ d.retry)
  <2> DEFINE e == [NoDrain EXCEPT !.outcome = outcome]
  <2>1. drain' = [drain EXCEPT ![h] = e] /\ own' = own
    BY <1>1, <1>4
  <2>2. outcome \in Outcomes
    BY DEF Outcomes
  <2> HIDE DEF outcome
  <2>3. Is(e, "idle", 0, 0, outcome)
    BY <2>2, NewDrains DEF NoDrain, Is, Drains
  <2> HIDE DEF e
  <2>4. Turned(h, "idle", 0, 0, outcome)
    BY <2>1, <2>3, NewTurns
  <2>5. QED
    BY <1>1, <2>1, <2>2, <2>4
<1>5. QED
  BY <1>2, <1>3, <1>4

LEMMA AbortTurns ==
  ASSUME Shapes, NEW h \in Handle, drain' = [drain EXCEPT ![h].abort = TRUE] \/ drain' = drain
  PROVE  Turned(h, drain[h].pc, drain[h].msg, drain[h].head, drain[h].outcome)
<1>1. CASE drain' = drain
  BY <1>1 DEF Shapes, DrainShapes, Turned
<1>2. CASE drain' = [drain EXCEPT ![h].abort = TRUE]
  <2> DEFINE d == [drain[h] EXCEPT !.abort = TRUE]
  <2>1. Is(d, drain[h].pc, drain[h].msg, drain[h].head, drain[h].outcome)
    BY DrainFields, AbortEdit
  <2>2. drain' = [drain EXCEPT ![h] = d]
    BY <1>2 DEF Shapes, DrainShapes
  <2> HIDE DEF d
  <2>3. QED
    BY <2>1, <2>2, NewTurns
<1>3. QED
  BY <1>1, <1>2

LEMMA LineLeaves ==
  ASSUME Shapes, calls # <<>>, Leave
  PROVE  /\ calls' \in Seq(Calls)
         /\ \A i \in DOMAIN calls' : i + 1 \in DOMAIN calls /\ i + 1 > 1 /\ calls'[i] = calls[i + 1]
         /\ DOMAIN calls' \subseteq Nat
  BY Heads DEF Shapes, DrainShapes, Leave

LEMMA LineHeads ==
  ASSUME Shapes, calls # <<>>
  PROVE  /\ 1 \in DOMAIN calls /\ Line = calls[1] /\ Line \in Calls
         /\ Line.h \in Handle /\ Line.msg \in 0..MaxSends
         /\ DOMAIN calls \subseteq Nat /\ \A i \in DOMAIN calls : i # 1 => i > 1
         /\ \A i \in DOMAIN calls : calls[i] \in Calls /\ calls[i].h \in Handle /\ calls[i].msg \in 0..MaxSends
<1>1. calls \in Seq(Calls) /\ DOMAIN calls \subseteq Nat \ {0}
  BY DEF Shapes, DrainShapes
<1>2. \A c \in Calls : c.h \in Handle /\ c.msg \in 0..MaxSends
  BY DEF Calls
<1>3. 1 \in DOMAIN calls /\ Line = calls[1] /\ Line \in Calls
  BY <1>1, Heads DEF Line
<1>4. \A i \in DOMAIN calls : calls[i] \in Calls
  BY <1>1
<1>5. \A i \in DOMAIN calls : i # 1 => i > 1
  BY <1>1
<1>6. QED
  BY <1>1, <1>2, <1>3, <1>4, <1>5

LEMMA LineReplaces ==
  ASSUME Shapes, calls # <<>>, NEW c \in Calls, calls' = <<c>> \o Tail(calls)
  PROVE  /\ calls' \in Seq(Calls)
         /\ DOMAIN calls' = DOMAIN calls /\ calls'[1] = c
         /\ \A i \in DOMAIN calls \ {1} : calls'[i] = calls[i]
<1>1. Tail(calls) \in Seq(Calls) /\ Len(Tail(calls)) = Len(calls) - 1
      /\ Len(calls) \in Nat \ {0} /\ \A i \in 1..(Len(calls) - 1) : Tail(calls)[i] = calls[i + 1]
  BY Heads DEF Shapes, DrainShapes
<1>2. calls' \in Seq(Calls) /\ Len(calls') = Len(calls) /\ calls'[1] = c
  BY <1>1
<1>3. ASSUME NEW i \in DOMAIN calls \ {1}
      PROVE  calls'[i] = calls[i]
  <2>1. i \in 2..Len(calls)
    BY DEF Shapes, DrainShapes
  <2>2. calls'[i] = Tail(calls)[i - 1]
    BY <1>1, <2>1
  <2>3. i - 1 \in 1..(Len(calls) - 1) /\ (i - 1) + 1 = i
    BY <1>1, <2>1
  <2>4. QED
    BY <1>1, <2>2, <2>3
<1>4. DOMAIN calls' = DOMAIN calls
  BY <1>2 DEF Shapes, DrainShapes
<1>5. QED
  BY <1>2, <1>3, <1>4

LEMMA LineSteps ==
  ASSUME Shapes, calls # <<>>, NEW step \in {"begin", "recover", "admit", "push"}, Step(step)
  PROVE  /\ calls' \in Seq(Calls)
         /\ DOMAIN calls' = DOMAIN calls /\ calls'[1] = [h |-> Line.h, step |-> step, msg |-> Line.msg]
         /\ \A i \in DOMAIN calls \ {1} : calls'[i] = calls[i]
<1>1. Line \in Calls
  BY LineHeads
<1>2. [Line EXCEPT !.step = step] = [h |-> Line.h, step |-> step, msg |-> Line.msg]
  BY <1>1 DEF Calls
<1>3. [h |-> Line.h, step |-> step, msg |-> Line.msg] \in Calls
  BY <1>1 DEF Calls
<1>4. calls' = <<[h |-> Line.h, step |-> step, msg |-> Line.msg]>> \o Tail(calls)
  BY <1>2 DEF Step
<1>5. QED
  BY <1>3, <1>4, LineReplaces

\* A step that only appends to the line, or leaves it alone, keeps its head.
LEMMA LineJoins ==
  ASSUME Shapes, NEW h \in Handle, NEW m \in 0..MaxSends, Join(h, m)
  PROVE  /\ calls' \in Seq(Calls)
         /\ DOMAIN calls' = DOMAIN calls \cup {Len(calls) + 1} /\ Len(calls) + 1 \notin DOMAIN calls
         /\ Len(calls) + 1 \in Nat \ {0}
         /\ \A i \in DOMAIN calls : calls'[i] = calls[i]
         /\ calls'[Len(calls) + 1] = [h |-> h, step |-> "begin", msg |-> m]
<1>1. [h |-> h, step |-> "begin", msg |-> m] \in Calls
  BY DEF Calls
<1>2. calls' = Append(calls, [h |-> h, step |-> "begin", msg |-> m])
  BY DEF Join
<1>3. Len(calls) + 1 \in Nat \ {0}
  BY DEF Shapes, DrainShapes
<1>4. QED
  BY <1>1, <1>2, <1>3, AppendSet DEF Shapes, DrainShapes

-----------------------------------------------------------------------------
(* Counting the sends in line *)

LEMMA SendsFinite ==
  ASSUME NEW s \in Seq(Calls)
  PROVE  IsFiniteSet(Sends(s)) /\ Cardinality(Sends(s)) \in Nat
<1>1. Len(s) \in Int /\ 1 \in Int
  OBVIOUS
<1>2. IsFiniteSet(1..Len(s))
  BY <1>1, FS_Interval
<1>3. Sends(s) \in SUBSET (1..Len(s))
  BY DEF Sends
<1>4. IsFiniteSet(Sends(s))
  BY <1>2, <1>3, FS_Subset
<1>5. QED
  BY <1>4, FS_CardinalityType

LEMMA SendsLeave ==
  ASSUME NEW s \in Seq(Calls), s # <<>>
  PROVE  Cardinality(Sends(Tail(s))) <= Cardinality(Sends(s))
<1> DEFINE S == Sends(s)
           T == Sends(Tail(s))
           f == [i \in T |-> i + 1]
<1>1. T \subseteq Nat /\ \A i \in T : i + 1 \in S
  BY Heads DEF Sends
<1>2. IsFiniteSet(S)
  BY SendsFinite
<1> HIDE DEF S, T
<1>3. f \in [T -> S] /\ \A i, j \in T : f[i] = f[j] => i = j
  BY <1>1
<1>4. f \in Injection(T, S)
  BY <1>3 DEF Injection, IsInjective
<1>5. Cardinality(T) <= Cardinality(S)
  BY <1>2, <1>4, FS_Injection
<1>6. QED
  BY <1>5 DEF S, T

LEMMA SendsAdmitted ==
  ASSUME NEW s \in Seq(Calls), NEW t \in Seq(Calls), s # <<>>, DOMAIN t = DOMAIN s,
         s[1].msg = 0, t[1].msg # 0, \A i \in DOMAIN s \ {1} : t[i] = s[i]
  PROVE  Cardinality(Sends(t)) + 1 = Cardinality(Sends(s))
<1> DEFINE S == Sends(s)
           T == Sends(t)
<1>1. T = S \ {1} /\ 1 \in S
  BY Heads DEF Sends
<1>2. IsFiniteSet(S) /\ Cardinality(S) \in Nat
  BY SendsFinite
<1> HIDE DEF S, T
<1>3. Cardinality(S \ {1}) = Cardinality(S) - 1
  BY <1>1, <1>2, FS_RemoveElement
<1>4. Cardinality(T) + 1 = Cardinality(S)
  BY <1>1, <1>2, <1>3
<1>5. QED
  BY <1>4 DEF S, T

LEMMA SendsSame ==
  ASSUME NEW s \in Seq(Calls), NEW t \in Seq(Calls), s # <<>>, DOMAIN t = DOMAIN s,
         s[1].msg = t[1].msg, \A i \in DOMAIN s \ {1} : t[i] = s[i]
  PROVE  Sends(t) = Sends(s)
  BY DEF Sends

LEMMA SendsJoin ==
  ASSUME NEW s \in Seq(Calls), NEW t \in Seq(Calls), NEW n, n \notin DOMAIN s,
         DOMAIN t = DOMAIN s \cup {n}, \A i \in DOMAIN s : t[i] = s[i]
  PROVE  /\ Cardinality(Sends(t)) <= Cardinality(Sends(s)) + 1
         /\ t[n].msg # 0 => Sends(t) = Sends(s)
<1> DEFINE S == Sends(s)
           T == Sends(t)
<1>1. n \notin S /\ T = IF t[n].msg = 0 THEN S \cup {n} ELSE S
  BY DEF Sends
<1>2. IsFiniteSet(S) /\ Cardinality(S) \in Nat
  BY SendsFinite
<1> HIDE DEF S, T
<1>3. Cardinality(S \cup {n}) = Cardinality(S) + 1
  BY <1>1, <1>2, FS_AddElement
<1>4. Cardinality(T) <= Cardinality(S) + 1 /\ (t[n].msg # 0 => T = S)
  BY <1>1, <1>2, <1>3
<1>5. QED
  BY <1>4 DEF S, T

-----------------------------------------------------------------------------
(* The shapes of the variables *)

LEMMA TurnShapes ==
  ASSUME Shapes, NEW h \in Handle, NEW stage, NEW m, NEW head, NEW outcome,
         Turned(h, stage, m, head, outcome), stage \in InTurn \cup {"unclaim"} => m # 0
  PROVE  DrainShapes'
  BY DEF Shapes, DrainShapes, Turned

LEMMA DrainTypes ==
  ASSUME Shapes, DrainShapes', NEW h \in Handle
  PROVE  drain'[h].msg \in 0..MaxSends /\ drain'[h].head \in 0..MaxSends
  BY DEF DrainShapes, Drains

LEMMA ShapesStay ==
  ASSUME Shapes, UNCHANGED vars
  PROVE  Shapes'
  BY DEF Shapes, DrainShapes, TypeOK

LEMMA JoinShapes ==
  ASSUME Shapes, NEW h \in Handle, NEW m \in 0..MaxSends, Join(h, m),
         used'.sends \in 0..MaxSends, DOMAIN used' = DOMAIN used
  PROVE  Shapes'
  BY LineJoins DEF Shapes, DrainShapes, TypeOK, Join

LEMMA LoadShapes ==
  ASSUME Shapes, NEW h \in Handle, Load(h)
  PROVE  Shapes'
  BY DEF Shapes, DrainShapes, TypeOK, Load

LEMMA BeginShapes ==
  ASSUME Shapes, BeginCall
  PROVE  Shapes'
  BY LineHeads, LineLeaves, LineSteps DEF Shapes, DrainShapes, TypeOK, BeginCall, InLine

LEMMA LandsShapes ==
  ASSUME Shapes, FlightLands
  PROVE  Shapes'
  BY DEF Shapes, DrainShapes, TypeOK, FlightLands, Rec

LEMMA ChecksShapes ==
  ASSUME Shapes, AdmitChecks
  PROVE  Shapes'
  BY LineLeaves, LineSteps DEF Shapes, DrainShapes, TypeOK, AdmitChecks, InLine

\* A message that is admitted is the next one, and there is one.
LEMMA NextIsNew ==
  ASSUME Shapes, Counted, InLine("admit"), Line.msg = 0
  PROVE  /\ NextAdmittedSeq \in Msg /\ rec[NextAdmittedSeq].status = "none"
         /\ \A m \in Msg : rec[m].status # "none" <=> m < NextAdmittedSeq
         /\ NextAdmittedSeq + Cardinality(Sends(calls)) <= used.sends + 1
<1>1. PICK k \in 0..MaxSends : /\ \A m \in Msg : rec[m].status # "none" <=> m <= k
                               /\ k + Cardinality(Sends(calls)) <= used.sends
  BY DEF Counted
<1>2. {n \in Msg : rec[n].status # "none"} = 1..k
  BY <1>1, ConstantsOK DEF Msg
<1>3. k \in Nat /\ 1 \in Int /\ k \in Int
  BY <1>1, ConstantsOK
<1>4. Cardinality(1..k) = k
  BY <1>3, FS_Interval
<1>5. NextAdmittedSeq = k + 1
  <2> DEFINE S == {n \in Msg : rec[n].status # "none"}
  <2>1. NextAdmittedSeq = 1 + Cardinality(S)
    BY DEF NextAdmittedSeq
  <2>2. S = 1..k
    BY <1>2
  <2> HIDE DEF S
  <2>3. QED
    BY <1>3, <1>4, <2>1, <2>2
<1>6. calls # <<>> /\ calls \in Seq(Calls)
  BY DEF InLine, Shapes
<1>7. 1 \in Sends(calls)
  BY <1>6, LineHeads DEF Sends
<1>8. Cardinality(Sends(calls)) >= 1
  BY <1>6, <1>7, SendsFinite, FS_EmptySet
<1>9. used.sends \in 0..MaxSends /\ MaxSends \in Nat /\ Cardinality(Sends(calls)) \in Nat
  BY <1>6, ConstantsOK, SendsFinite DEF Shapes
<1>10. k + 1 \in Msg
  BY <1>1, <1>3, <1>8, <1>9 DEF Msg
<1>11. \A m \in Msg : m \in Nat
  BY ConstantsOK
<1>12. QED
  BY <1>1, <1>3, <1>5, <1>9, <1>10, <1>11

LEMMA AdmitShapes ==
  ASSUME Shapes, Counted, Admit
  PROVE  Shapes'
<1>1. NextAdmittedSeq \in Msg
  BY NextIsNew DEF Admit
<1>2. calls # <<>> /\ calls' = <<[h |-> Line.h, step |-> "push", msg |-> NextAdmittedSeq]>> \o Tail(calls)
  BY DEF Admit, InLine
<1>3. [h |-> Line.h, step |-> "push", msg |-> NextAdmittedSeq] \in Calls /\ Line.h \in Handle
  BY <1>1, <1>2, LineHeads, ConstantsOK DEF Calls
<1>4. calls' \in Seq(Calls)
  BY <1>2, <1>3, LineReplaces
<1> DEFINE m == NextAdmittedSeq
<1>5. /\ rec' = [rec EXCEPT ![m] = Rec("pending", None)] /\ run' = [run EXCEPT ![m] = "queued"]
      /\ by' = [by EXCEPT ![m] = Line.h] /\ live' = live \cup {m}
      /\ UNCHANGED <<hist, turnOf, handleVars, flight, ownVars, used>>
  BY DEF Admit
<1> HIDE DEF m
<1>6. QED
  BY <1>1, <1>3, <1>4, <1>5 DEF Shapes, DrainShapes, TypeOK, Rec, m

LEMMA RequestShapes ==
  ASSUME Shapes, NEW h \in Handle, Requests(h)
  PROVE  DrainShapes' /\ own' \in Handle \cup {None}
<1>1. own \in Handle \cup {None} /\ DrainShapes
  BY DEF Shapes, TypeOK
<1>2. PICK stage, m, head, outcome :
        Turned(h, stage, m, head, outcome) /\ (stage \in InTurn \cup {"unclaim"} => m # 0)
  BY <1>1, RequestTurns DEF InTurn, At, DrainShapes
<1>3. DrainShapes'
  BY <1>2, TurnShapes
<1>4. own' \in Handle \cup {None}
  BY <1>1, RequestTurns
<1>5. QED
  BY <1>3, <1>4

LEMMA PushShapes ==
  ASSUME Shapes, Lined, Push
  PROVE  Shapes'
<1>1. calls # <<>> /\ Line.step = "push" /\ Line.h \in Handle /\ Line.msg \in Msg
  BY LineHeads, ConstantsOK DEF Push, InLine, Lined
<1>2. calls' \in Seq(Calls)
  BY <1>1, LineLeaves DEF Push
<1>3. queue[Line.h] \in Seq(Msg) /\ Append(queue[Line.h], Line.msg) \in Seq(Msg)
  BY <1>1 DEF Shapes, TypeOK
<1>4. DrainShapes' /\ own' \in Handle \cup {None}
  BY <1>1, RequestShapes, PushRequests
<1>5. \A h \in Handle : drain'[h].msg \in 0..MaxSends /\ drain'[h].head \in 0..MaxSends
  BY <1>4, DrainTypes
<1>6. queue' = [queue EXCEPT ![Line.h] = Append(queue[Line.h], Line.msg)]
  BY DEF Push
<1>7. queue' \in [Handle -> Seq(Msg)]
  BY <1>3, <1>6 DEF Shapes, TypeOK
<1>8. turnOf' \in [Msg -> {"none", "open", "ended", "gone"}]
  BY DEF Push, Shapes, TypeOK
<1>9. QED
  BY <1>2, <1>4, <1>5, <1>7, <1>8 DEF Shapes, TypeOK, Push

LEMMA HandOffShapes ==
  ASSUME Shapes, HandOff
  PROVE  Shapes'
<1>1. calls # <<>> /\ Line.h \in Handle /\ Line.msg \in Msg
  BY LineHeads, ConstantsOK DEF HandOff, InLine
<1>2. calls' \in Seq(Calls)
  BY <1>1, LineLeaves DEF HandOff
<1>3. DrainShapes' /\ own' \in Handle \cup {None}
  BY <1>1, RequestShapes, HandOffRequests DEF Shapes, TypeOK, DrainShapes
<1>4. \A h \in Handle : drain'[h].msg \in 0..MaxSends /\ drain'[h].head \in 0..MaxSends
  BY <1>3, DrainTypes
<1>5. queue' \in [Handle -> Seq(Msg)] /\ live' \subseteq Msg
  <2>1. \/ queue' = queue /\ live' = live
        \/ queue' = [queue EXCEPT ![Line.h] = <<Line.msg>>] /\ live' = live \cup {Line.msg}
    BY DEF HandOff
  <2>2. <<Line.msg>> \in Seq(Msg)
    BY <1>1
  <2>3. queue \in [Handle -> Seq(Msg)] /\ live \subseteq Msg
    BY DEF Shapes, TypeOK
  <2>4. QED
    BY <1>1, <2>1, <2>2, <2>3
<1>6. QED
  BY <1>1, <1>2, <1>3, <1>4, <1>5 DEF Shapes, TypeOK, HandOff

LEMMA OwnShapes ==
  ASSUME Shapes, NEW h \in Handle, DrainOwn(h)
  PROVE  Shapes'
<1>1. Turned(h, "recover", drain[h].msg, drain[h].head, drain[h].outcome)
  BY GotoTurns DEF DrainOwn, Stages
<1>2. DrainShapes'
  BY <1>1, TurnShapes DEF InTurn
<1>3. \A g \in Handle : drain'[g].msg \in 0..MaxSends /\ drain'[g].head \in 0..MaxSends
  BY <1>2, DrainTypes
<1>4. QED
  BY <1>2, <1>3 DEF Shapes, TypeOK, DrainOwn

LEMMA RecoverShapes ==
  ASSUME Shapes, NEW h \in Handle, DrainRecover(h)
  PROVE  Shapes'
  BY DEF Shapes, DrainShapes, TypeOK, DrainRecover

LEMMA ThreadTypes ==
  ASSUME Shapes, NEW h
  PROVE  /\ Commits(h) => thread' \in [Handle -> {"unloaded", "loading", "fresh", "stale"}]
         /\ thread' = [thread EXCEPT ![h] = "fresh"] =>
              thread' \in [Handle -> {"unloaded", "loading", "fresh", "stale"}]
         /\ Reload(h) => /\ thread' \in [Handle -> {"unloaded", "loading", "fresh", "stale"}]
                         /\ unseen' \subseteq Handle
  BY DEF Commits, Reload, Shapes, TypeOK

LEMMA ReadyShapes ==
  ASSUME Shapes, NEW h \in Handle, DrainReady(h)
  PROVE  Shapes'
<1>1. DrainShapes'
  BY ReadyTurns, TurnShapes DEF InTurn
<1>2. \A g \in Handle : drain'[g].msg \in 0..MaxSends /\ drain'[g].head \in 0..MaxSends
  BY <1>1, DrainTypes
<1>3. QED
  BY <1>1, <1>2, ThreadTypes DEF Shapes, TypeOK, DrainReady

LEMMA LoopShapes ==
  ASSUME Shapes, NEW h \in Handle, DrainLoop(h)
  PROVE  Shapes'
<1>1. DrainShapes'
  BY LoopTurns, TurnShapes DEF InTurn
<1>2. \A g \in Handle : drain'[g].msg \in 0..MaxSends /\ drain'[g].head \in 0..MaxSends
  BY <1>1, DrainTypes
<1>3. QED
  BY <1>1, <1>2 DEF Shapes, TypeOK, DrainLoop

LEMMA ClaimShapes ==
  ASSUME Shapes, NEW h \in Handle, ClaimNext(h)
  PROVE  Shapes'
<1>1. DrainShapes'
  BY ClaimTurns, TurnShapes DEF AfterClaim, InTurn
<1>2. \A g \in Handle : drain'[g].msg \in 0..MaxSends /\ drain'[g].head \in 0..MaxSends
  BY <1>1, DrainTypes
<1>3. queue' \in [Handle -> Seq(Msg)]
  <2>1. queue \in [Handle -> Seq(Msg)]
    BY DEF Shapes, TypeOK
  <2>2. queue[h] # <<>> => Tail(queue[h]) \in Seq(Msg)
    BY <2>1
  <2>3. QED
    BY <2>1, <2>2, ClaimTurns
<1>4. rec' \in [Msg -> [status : {"none", "pending", "claiming", "acked"}, claim : Handle \cup {None}]]
  <2>1. Rec("claiming", h) \in [status : {"none", "pending", "claiming", "acked"}, claim : Handle \cup {None}]
    BY DEF Rec
  <2>2. rec' = rec \/ rec' = [rec EXCEPT ![Chosen] = Rec("claiming", h)]
    BY ClaimTurns
  <2>3. QED
    BY <2>1, <2>2 DEF Shapes, TypeOK
<1>5. live' \subseteq Msg
  BY ClaimTurns DEF Shapes, TypeOK
<1>6. QED
  BY <1>1, <1>2, <1>3, <1>4, <1>5 DEF Shapes, TypeOK, ClaimNext

LEMMA RecTypes ==
  ASSUME Shapes, NEW h, NEW m, ReleaseClaim(h, m)
  PROVE  rec' \in [Msg -> [status : {"none", "pending", "claiming", "acked"}, claim : Handle \cup {None}]]
  BY DEF Shapes, TypeOK, ReleaseClaim, Rec

LEMMA UnclaimShapes ==
  ASSUME Shapes, NEW h \in Handle, Unclaim(h)
  PROVE  Shapes'
<1>1. drain[h].msg \in Msg
  BY DrainFields, ConstantsOK DEF Shapes, DrainShapes, Unclaim, At
<1>2. Turned(h, "exit", drain[h].msg, drain[h].head, drain[h].outcome)
  BY GotoTurns DEF Unclaim, Stages
<1>3. DrainShapes'
  BY <1>2, TurnShapes DEF InTurn
<1>4. \A g \in Handle : drain'[g].msg \in 0..MaxSends /\ drain'[g].head \in 0..MaxSends
  BY <1>3, DrainTypes
<1>5. rec' \in [Msg -> [status : {"none", "pending", "claiming", "acked"}, claim : Handle \cup {None}]]
  BY RecTypes DEF Unclaim
<1>6. blockedOn' \in [Handle -> SUBSET Msg]
  BY <1>1 DEF Unclaim, Shapes, TypeOK
<1>7. QED
  BY <1>3, <1>4, <1>5, <1>6 DEF Shapes, TypeOK, Unclaim

LEMMA RestartShapes ==
  ASSUME Shapes, NEW h \in Handle, RestartReleased(h)
  PROVE  Shapes'
<1>1. DrainShapes' /\ own' \in Handle \cup {None}
  BY RequestShapes, RestartRequests
<1>2. \A g \in Handle : drain'[g].msg \in 0..MaxSends /\ drain'[g].head \in 0..MaxSends
  BY <1>1, DrainTypes
<1>3. QED
  BY <1>1, <1>2 DEF Shapes, TypeOK, RestartReleased

LEMMA RunTypes ==
  ASSUME Shapes, NEW ms
  PROVE  /\ Cancelled(ms) \in [Msg -> {"none", "queued", "running", "stranded"} \cup Terminal]
         /\ Close(ms) => turnOf' \in [Msg -> {"none", "open", "ended", "gone"}]
         /\ Unregister(ms) => live' \subseteq Msg
  BY DEF Cancelled, Close, Unregister, Shapes, TypeOK, Terminal

LEMMA DropShapes ==
  ASSUME Shapes, NEW h \in Handle, Drop(h)
  PROVE  Shapes'
<1>1. Turned(h, "loop", drain[h].msg, drain[h].head, drain[h].outcome)
  BY GotoTurns DEF Drop, Stages
<1>2. DrainShapes'
  BY <1>1, TurnShapes DEF InTurn
<1>3. \A g \in Handle : drain'[g].msg \in 0..MaxSends /\ drain'[g].head \in 0..MaxSends
  BY <1>2, DrainTypes
<1>4. queue' \in [Handle -> Seq(Msg)]
  <2>1. queue \in [Handle -> Seq(Msg)]
    BY DEF Shapes, TypeOK
  <2>2. queue[h] # <<>> => Tail(queue[h]) \in Seq(Msg)
    BY <2>1
  <2>3. QED
    BY <2>1, <2>2 DEF Drop
<1>5. QED
  BY <1>2, <1>3, <1>4, RunTypes DEF Shapes, TypeOK, Drop

\* A turn's drain works on a message of the thread.
LEMMA TurnWorks ==
  ASSUME Shapes, NEW h \in Handle, drain[h].pc \in InTurn \cup {"unclaim"}
  PROVE  drain[h].msg \in Msg
  BY DrainFields, ConstantsOK DEF Shapes, DrainShapes

LEMMA StartShapes ==
  ASSUME Shapes, NEW h \in Handle, StartTurn(h)
  PROVE  Shapes'
<1>1. drain[h].msg \in Msg /\ drain[h].msg # 0
  BY TurnWorks, ConstantsOK DEF StartTurn, At, InTurn
<1>2. DrainShapes'
  BY <1>1, StartTurns, TurnShapes
<1>3. \A g \in Handle : drain'[g].msg \in 0..MaxSends /\ drain'[g].head \in 0..MaxSends
  BY <1>2, DrainTypes
<1>4. run' \in [Msg -> {"none", "queued", "running", "stranded"} \cup Terminal]
  <2>1. run' = run \/ run' = [run EXCEPT ![drain[h].msg] = "running"]
    BY StartTurns
  <2>2. QED
    BY <1>1, <2>1 DEF Shapes, TypeOK
<1>5. QED
  BY <1>2, <1>3, <1>4 DEF Shapes, TypeOK, StartTurn

LEMMA AbandonShapes ==
  ASSUME Shapes, NEW h \in Handle, Abandon(h) \/ Release(h)
  PROVE  Shapes'
<1>1. drain[h].msg \in Msg /\ drain[h].msg # 0
  BY TurnWorks, ConstantsOK DEF Abandon, Release, At, InTurn
<1>2. DrainShapes'
  BY <1>1, GotoTurns, TurnShapes DEF Abandon, Release, Stages, InTurn
<1>3. \A g \in Handle : drain'[g].msg \in 0..MaxSends /\ drain'[g].head \in 0..MaxSends
  BY <1>2, DrainTypes
<1>4. run' \in [Msg -> {"none", "queued", "running", "stranded"} \cup Terminal]
  BY <1>1 DEF Shapes, TypeOK, Abandon, Release, Terminal
<1>5. rec' \in [Msg -> [status : {"none", "pending", "claiming", "acked"}, claim : Handle \cup {None}]]
  BY RecTypes DEF Abandon, Release, Shapes, TypeOK
<1>6. QED
  BY <1>2, <1>3, <1>4, <1>5 DEF Shapes, TypeOK, Abandon, Release

LEMMA CommitShapes ==
  ASSUME Shapes, NEW h \in Handle, CommitInput(h)
  PROVE  Shapes'
<1>1. drain[h].msg \in Msg /\ drain[h].msg # 0
  BY TurnWorks, ConstantsOK DEF CommitInput, At, InTurn
<1>2. DrainShapes'
  BY <1>1, GotoTurns, TurnShapes DEF CommitInput, Stages, InTurn
<1>3. \A g \in Handle : drain'[g].msg \in 0..MaxSends /\ drain'[g].head \in 0..MaxSends
  BY <1>2, DrainTypes
<1>4. thread' \in [Handle -> {"unloaded", "loading", "fresh", "stale"}] /\ unseen' \subseteq Handle
  BY ThreadTypes DEF CommitInput, Shapes, TypeOK
<1>5. \/ hist' = Append(hist, drain[h].msg) /\ rec' = [rec EXCEPT ![drain[h].msg] = Rec("acked", None)]
      \/ hist' = hist /\ rec' = rec
  BY DEF CommitInput, Acknowledge
<1>6. rec' \in [Msg -> [status : {"none", "pending", "claiming", "acked"}, claim : Handle \cup {None}]]
  <2>1. rec' = rec \/ rec' = [rec EXCEPT ![drain[h].msg] = Rec("acked", None)]
    BY <1>5
  <2>2. Rec("acked", None) \in [status : {"none", "pending", "claiming", "acked"}, claim : Handle \cup {None}]
    BY DEF Rec
  <2>3. QED
    BY <2>1, <2>2 DEF Shapes, TypeOK
<1>7. hist' \in Seq(Msg)
  <2>1. hist \in Seq(Msg)
    BY DEF Shapes, TypeOK
  <2>2. Append(hist, drain[h].msg) \in Seq(Msg)
    BY <1>1, <2>1
  <2>3. QED
    BY <1>5, <2>1, <2>2
<1>8. QED
  BY <1>2, <1>3, <1>4, <1>6, <1>7 DEF Shapes, TypeOK, CommitInput

LEMMA FailShapes ==
  ASSUME Shapes, NEW h \in Handle, FailTurn(h) \/ TurnFails(h) \/ DrainThrows(h)
  PROVE  Shapes'
<1>1. FailTurn(h) \/ TurnFails(h) => drain[h].msg # 0
  BY TurnWorks, ConstantsOK DEF FailTurn, TurnFails, At, InTurn
<1>2. DrainShapes'
  BY <1>1, FailTurns, TurnFailsTurns, ThrowTurns, TurnShapes DEF InTurn
<1>3. \A g \in Handle : drain'[g].msg \in 0..MaxSends /\ drain'[g].head \in 0..MaxSends
  BY <1>2, DrainTypes
<1>4. rec' \in [Msg -> [status : {"none", "pending", "claiming", "acked"}, claim : Handle \cup {None}]]
  BY RecTypes DEF FailTurn, TurnFails, DrainThrows, Shapes, TypeOK
<1>5. used'.sends = used.sends /\ DOMAIN used' = DOMAIN used
  BY DEF FailTurn, TurnFails, DrainThrows, Happens, Shapes
<1>6. QED
  BY <1>2, <1>3, <1>4, <1>5 DEF Shapes, TypeOK, FailTurn, TurnFails, DrainThrows

LEMMA SettleShapes ==
  ASSUME Shapes, NEW h \in Handle, SettleTurn(h)
  PROVE  Shapes'
<1>1. drain[h].msg \in Msg /\ drain[h].msg # 0
  BY TurnWorks, ConstantsOK DEF SettleTurn, At, InTurn
<1>2. DrainShapes'
  BY <1>1, EndTurns, GotoTurns, TurnShapes DEF SettleTurn, Stages, InTurn, Outcomes
<1>3. \A g \in Handle : drain'[g].msg \in 0..MaxSends /\ drain'[g].head \in 0..MaxSends
  BY <1>2, DrainTypes
<1>4. thread' \in [Handle -> {"unloaded", "loading", "fresh", "stale"}] /\ unseen' \subseteq Handle
  BY ThreadTypes DEF SettleTurn, Shapes, TypeOK
<1>5. run' \in [Msg -> {"none", "queued", "running", "stranded"} \cup Terminal]
  BY <1>1 DEF Shapes, TypeOK, SettleTurn, Terminal
<1>6. QED
  BY <1>2, <1>3, <1>4, <1>5 DEF Shapes, TypeOK, SettleTurn

\* The history of an owner past its recovery is the store's, but for those that a
\* drain that threw left behind.
LEMMA OwnerFresh ==
  ASSUME Shapes, Owned, Loaded, Stale, NEW h \in Handle,
         drain[h].pc \notin Outside \cup {"recover", "exit"}
  PROVE  (thread[h] = "fresh" \/ h \in unseen) /\ own = h
<1>1. own = h
  BY DEF Owned
<1>2. thread[h] \in {"fresh", "stale"}
  BY DEF Loaded, At, Outside
<1>3. thread[h] # "stale" \/ h \in unseen
  BY <1>1 DEF Stale, At
<1>4. QED
  BY <1>1, <1>2, <1>3

LEMMA SettlesShapes ==
  ASSUME Shapes, NEW h \in Handle, Settles(h)
  PROVE  Shapes'
<1>1. PICK saved \in BOOLEAN : Settle(h, saved)
  BY DEF Settles, SettleFailed, SettleRefused
<1>2. drain[h].msg \in Msg /\ drain[h].msg # 0
  BY <1>1, TurnWorks, ConstantsOK DEF Settle, At, InTurn
<1>3. DrainShapes'
  BY <1>2, SettleEnds, TurnShapes
<1>4. \A g \in Handle : drain'[g].msg \in 0..MaxSends /\ drain'[g].head \in 0..MaxSends
  BY <1>3, DrainTypes
<1>5. thread' \in [Handle -> {"unloaded", "loading", "fresh", "stale"}] /\ unseen' \subseteq Handle
  BY <1>1, ThreadTypes DEF Settle, Shapes, TypeOK
<1>6. run' \in [Msg -> {"none", "queued", "running", "stranded"} \cup Terminal]
  BY <1>1, <1>2 DEF Shapes, TypeOK, Settle, Terminal
<1>7. parked' \in [Handle -> BOOLEAN]
  BY <1>1 DEF Shapes, TypeOK, Settle
<1>8. used'.sends = used.sends /\ DOMAIN used' = DOMAIN used
  BY DEF Settles, SettleFailed, SettleRefused, Happens, Shapes
<1>9. QED
  BY <1>3, <1>4, <1>5, <1>6, <1>7, <1>8, SettleEnds DEF Shapes, TypeOK

LEMMA FinishShapes ==
  ASSUME Shapes, NEW h \in Handle, FinishTurn(h)
  PROVE  Shapes'
<1>1. DrainShapes'
  BY FinishTurns, TurnShapes DEF InTurn
<1>2. \A g \in Handle : drain'[g].msg \in 0..MaxSends /\ drain'[g].head \in 0..MaxSends
  BY <1>1, DrainTypes
<1>3. queue' \in [Handle -> Seq(Msg)]
  <2>1. queue' = queue \/ queue' = [queue EXCEPT ![h] = <<>>]
    BY DEF FinishTurn
  <2>2. <<>> \in Seq(Msg)
    OBVIOUS
  <2>3. QED
    BY <2>1, <2>2 DEF Shapes, TypeOK
<1>4. /\ run' \in [Msg -> {"none", "queued", "running", "stranded"} \cup Terminal]
      /\ turnOf' \in [Msg -> {"none", "open", "ended", "gone"}] /\ live' \subseteq Msg
  BY RunTypes DEF FinishTurn
<1>5. QED
  BY <1>1, <1>2, <1>3, <1>4 DEF Shapes, TypeOK, FinishTurn

LEMMA ExitShapes ==
  ASSUME Shapes, NEW h \in Handle, DrainExit(h) \/ DrainSettled(h)
  PROVE  Shapes'
<1>1. DrainShapes'
  BY GotoTurns, SettledTurns, TurnShapes DEF DrainExit, Stages, InTurn
<1>2. \A g \in Handle : drain'[g].msg \in 0..MaxSends /\ drain'[g].head \in 0..MaxSends
  BY <1>1, DrainTypes
<1>3. own' \in Handle \cup {None}
  BY SettledTurns DEF DrainExit, Shapes, TypeOK
<1>4. turnOf' \in [Msg -> {"none", "open", "ended", "gone"}]
  BY RunTypes DEF DrainExit, DrainSettled, Shapes, TypeOK
<1>5. unseen' \subseteq Handle
  BY DEF DrainExit, DrainSettled, Shapes, TypeOK
<1>6. last' \in Handle \cup {None}
  BY DEF DrainExit, DrainSettled, Shapes, TypeOK
<1>7. /\ UNCHANGED <<storeVars, by, thread, parked, queue, blockedOn, rcv, term, kill, lineVars>>
      /\ live' = live /\ used' = used
  BY DEF DrainExit, DrainSettled
<1>8. TypeOK'
  BY <1>2, <1>3, <1>4, <1>5, <1>6, <1>7 DEF Shapes, TypeOK
<1>9. QED
  BY <1>1, <1>7, <1>8 DEF Shapes

LEMMA InterruptShapes ==
  ASSUME Shapes, NEW h \in Handle, Interrupt(h)
  PROVE  Shapes'
<1>1. DrainShapes'
  BY AbortTurns, TurnShapes DEF Interrupt, Shapes, DrainShapes
<1>2. \A g \in Handle : drain'[g].msg \in 0..MaxSends /\ drain'[g].head \in 0..MaxSends
  BY <1>1, DrainTypes
<1>3. used'.sends = used.sends /\ DOMAIN used' = DOMAIN used
  BY DEF Interrupt, Happens, Shapes
<1>4. QED
  BY <1>1, <1>2, <1>3 DEF Shapes, TypeOK, Interrupt

\* The teardown's record, moved on.
LEMMA KillFields ==
  ASSUME Shapes, NEW h \in Handle
  PROVE  /\ kill[h] \in Kills /\ kill[h].snap \in Seq(Msg) /\ kill[h].err \in BOOLEAN
         /\ kill[h].phase \in {"none", "first", "admissions", "second", "reopens", "failed", "done"}
         /\ ToSet(kill[h].snap) \subseteq Msg /\ queue[h] \in Seq(Msg) /\ ToSet(queue[h]) \subseteq Msg
<1>1. kill[h] \in Kills /\ queue[h] \in Seq(Msg)
  BY DEF Shapes, TypeOK
<1>2. kill[h].snap \in Seq(Msg)
  BY <1>1 DEF Kills
<1>3. \A s \in Seq(Msg) : ToSet(s) \subseteq Msg
  BY DEF ToSet
<1>4. QED
  BY <1>1, <1>2, <1>3 DEF Kills

\* Only the teardown of h moved, to this phase, snapshot and error.
Tears(h, phase, snap, err) ==
  /\ kill' \in [Handle -> Kills]
  /\ kill'[h].phase = phase /\ kill'[h].snap = snap /\ kill'[h].err = err
  /\ \A g \in Handle \ {h} : kill'[g] = kill[g]

Phases == {"none", "first", "admissions", "second", "reopens", "failed", "done"}

\* A teardown in this phase, with this snapshot and error.
IsKill(k, phase, snap, err) == k \in Kills /\ k.phase = phase /\ k.snap = snap /\ k.err = err

LEMMA NewTears ==
  ASSUME Shapes, NEW h \in Handle, NEW k, NEW phase, NEW snap, NEW err,
         IsKill(k, phase, snap, err), kill' = [kill EXCEPT ![h] = k]
  PROVE  Tears(h, phase, snap, err)
  BY DEF Shapes, Tears, IsKill

LEMMA KillMakes ==
  ASSUME NEW phase \in Phases, NEW snap \in Seq(Msg), NEW err \in BOOLEAN
  PROVE  IsKill([phase |-> phase, snap |-> snap, err |-> err], phase, snap, err)
  BY DEF Kills, IsKill, Phases

LEMMA KillEdit ==
  ASSUME NEW k \in Kills, NEW phase \in Phases, NEW snap \in Seq(Msg)
  PROVE  IsKill([k EXCEPT !.phase = phase, !.snap = snap], phase, snap, k.err)
  BY DEF Kills, IsKill, Phases

LEMMA PhaseEdit ==
  ASSUME NEW k \in Kills, NEW phase \in Phases
  PROVE  IsKill([k EXCEPT !.phase = phase], phase, k.snap, k.err)
  BY DEF Kills, IsKill, Phases

LEMMA KillTears ==
  ASSUME Shapes, NEW h \in Handle, Kill(h)
  PROVE  Tears(h, IF queue[h] = <<>> THEN "admissions" ELSE "first", queue[h], FALSE)
<1>1. kill' = [kill EXCEPT ![h] =
                 [phase |-> IF queue[h] = <<>> THEN "admissions" ELSE "first", snap |-> queue[h], err |-> FALSE]]
  BY DEF Kill
<1>2. (IF queue[h] = <<>> THEN "admissions" ELSE "first") \in Phases
  BY DEF Phases
<1>3. QED
  BY <1>1, <1>2, NewTears, KillMakes, KillFields

LEMMA AdmissionsTears ==
  ASSUME Shapes, NEW h \in Handle, KillAdmissions(h)
  PROVE  Tears(h, "second", queue[h], kill[h].err)
<1> DEFINE k == [kill[h] EXCEPT !.phase = "second", !.snap = queue[h]]
<1>1. kill' = [kill EXCEPT ![h] = k]
  BY DEF KillAdmissions, Shapes
<1>2. IsKill(k, "second", queue[h], kill[h].err)
  BY KillFields, KillEdit DEF Phases
<1> HIDE DEF k
<1>3. QED
  BY <1>1, <1>2, NewTears

LEMMA ReopensTears ==
  ASSUME Shapes, NEW h \in Handle, KillReopens(h)
  PROVE  Tears(h, "failed", kill[h].snap, kill[h].err)
<1> DEFINE k == [kill[h] EXCEPT !.phase = "failed"]
<1>1. kill' = [kill EXCEPT ![h] = k]
  BY DEF KillReopens, Shapes
<1>2. IsKill(k, "failed", kill[h].snap, kill[h].err)
  BY KillFields, PhaseEdit DEF Phases
<1> HIDE DEF k
<1>3. QED
  BY <1>1, <1>2, NewTears

\* A cancellation that does not fail.
Cancels(h, phase) ==
  LET items == ToSet(kill[h].snap)
  IN /\ \A m \in items : Cancellable(m)
     /\ rec' = [m \in Msg |-> IF m \in items THEN Rec("acked", None) ELSE rec[m]]
     /\ run' = Cancelled(items)
     /\ Unregister(items)
     /\ Close(Spliced(h))
     /\ queue' = [queue EXCEPT ![h] = <<>>]
     /\ Tears(h, phase, <<>>, kill[h].err)
     /\ UNCHANGED term

LEMMA SnapshotTears ==
  ASSUME Shapes, NEW h \in Handle, NEW failed, NEW phase \in Phases,
         CancelSnapshot(h, phase, failed)
  PROVE  \/ Cancels(h, phase)
         \/ /\ ~(\A m \in ToSet(kill[h].snap) : Cancellable(m))
            /\ failed /\ UNCHANGED <<rec, run, live, turnOf, queue>>
<1>1. CASE \A m \in ToSet(kill[h].snap) : Cancellable(m)
  <2> DEFINE k == [kill[h] EXCEPT !.phase = phase, !.snap = <<>>]
  <2>1. kill' = [kill EXCEPT ![h] = k]
    BY <1>1 DEF CancelSnapshot, Shapes
  <2>2. <<>> \in Seq(Msg)
    OBVIOUS
  <2>3. IsKill(k, phase, <<>>, kill[h].err)
    BY <2>2, KillFields, KillEdit
  <2> HIDE DEF k
  <2>4. Tears(h, phase, <<>>, kill[h].err)
    BY <2>1, <2>3, NewTears
  <2>5. QED
    BY <1>1, <2>4 DEF CancelSnapshot, Cancels
<1>2. CASE ~(\A m \in ToSet(kill[h].snap) : Cancellable(m))
  BY <1>2 DEF CancelSnapshot
<1>3. QED
  BY <1>1, <1>2

LEMMA FirstTears ==
  ASSUME Shapes, NEW h \in Handle, KillFirst(h)
  PROVE  /\ kill[h].phase = "first"
         /\ \/ Cancels(h, "admissions")
            \/ /\ ~(\A m \in ToSet(kill[h].snap) : Cancellable(m))
               /\ Tears(h, "admissions", <<>>, TRUE)
               /\ UNCHANGED <<term, rec, run, live, turnOf, queue>>
<1> DEFINE failed == /\ kill' = [kill EXCEPT ![h] = [phase |-> "admissions", snap |-> <<>>, err |-> TRUE]]
                     /\ UNCHANGED term
<1>1. CancelSnapshot(h, "admissions", failed) /\ "admissions" \in Phases
  BY DEF KillFirst, Phases
<1>2. \/ Cancels(h, "admissions")
      \/ /\ ~(\A m \in ToSet(kill[h].snap) : Cancellable(m))
         /\ failed /\ UNCHANGED <<rec, run, live, turnOf, queue>>
  BY <1>1, SnapshotTears
<1>3. <<>> \in Seq(Msg)
  OBVIOUS
<1>4. failed => Tears(h, "admissions", <<>>, TRUE) /\ UNCHANGED term
  BY <1>3, NewTears, KillMakes DEF Phases
<1> HIDE DEF failed
<1>5. QED
  BY <1>2, <1>4 DEF KillFirst

\* What opens a handle again.
LEMMA SecondTears ==
  ASSUME Shapes, NEW h \in Handle, KillSecond(h)
  PROVE  /\ kill[h].phase = "second"
         /\ \/ Cancels(h, IF kill[h].err THEN "reopens" ELSE "done")
            \/ /\ \/ kill[h].err
                  \/ ~(\A m \in ToSet(kill[h].snap) : Cancellable(m))
               /\ Tears(h, "failed", <<>>, TRUE) /\ term' = [term EXCEPT ![h] = "open"]
               /\ UNCHANGED <<rec, run, live, turnOf, queue>>
<1> DEFINE reopen == /\ term' = [term EXCEPT ![h] = "open"]
                     /\ kill' = [kill EXCEPT ![h] = [phase |-> "failed", snap |-> <<>>, err |-> TRUE]]
           phase == IF kill[h].err THEN "reopens" ELSE "done"
<1>1. \/ kill[h].err /\ reopen /\ UNCHANGED <<rec, run, live, turnOf, queue>>
      \/ CancelSnapshot(h, phase, reopen)
  BY DEF KillSecond
<1>2. <<>> \in Seq(Msg)
  OBVIOUS
<1>3. reopen => Tears(h, "failed", <<>>, TRUE) /\ term' = [term EXCEPT ![h] = "open"]
  BY <1>2, NewTears, KillMakes DEF Phases
<1>4. phase \in Phases
  BY DEF Phases
<1> HIDE DEF reopen
<1>5. \/ kill[h].err /\ reopen /\ UNCHANGED <<rec, run, live, turnOf, queue>>
      \/ Cancels(h, phase)
      \/ /\ ~(\A m \in ToSet(kill[h].snap) : Cancellable(m))
         /\ reopen /\ UNCHANGED <<rec, run, live, turnOf, queue>>
  BY <1>1, <1>4, SnapshotTears
<1>6. QED
  BY <1>3, <1>5 DEF KillSecond

LEMMA KillShapes ==
  ASSUME Shapes, NEW h \in Handle, Kill(h)
  PROVE  Shapes'
<1>1. Turned(h, drain[h].pc, drain[h].msg, drain[h].head, drain[h].outcome)
  BY AbortTurns DEF Kill
<1>2. DrainShapes'
  BY <1>1, TurnShapes DEF Shapes, DrainShapes
<1>3. \A g \in Handle : drain'[g].msg \in 0..MaxSends /\ drain'[g].head \in 0..MaxSends
  BY <1>2, DrainTypes
<1>4. turnOf' \in [Msg -> {"none", "open", "ended", "gone"}]
  BY RunTypes DEF Kill
<1>5. kill' \in [Handle -> Kills]
  BY KillTears DEF Tears
<1>6. used'.sends = used.sends /\ DOMAIN used' = DOMAIN used
  BY DEF Kill, Happens, Shapes
<1>7. QED
  BY <1>2, <1>3, <1>4, <1>5, <1>6 DEF Shapes, TypeOK, Kill

LEMMA CancelTypes ==
  ASSUME Shapes, NEW h \in Handle, NEW phase, Cancels(h, phase)
  PROVE  /\ rec' \in [Msg -> [status : {"none", "pending", "claiming", "acked"}, claim : Handle \cup {None}]]
         /\ run' \in [Msg -> {"none", "queued", "running", "stranded"} \cup Terminal]
         /\ live' \subseteq Msg /\ turnOf' \in [Msg -> {"none", "open", "ended", "gone"}]
         /\ queue' \in [Handle -> Seq(Msg)] /\ kill' \in [Handle -> Kills]
<1>1. rec' \in [Msg -> [status : {"none", "pending", "claiming", "acked"}, claim : Handle \cup {None}]]
  BY DEF Cancels, Rec, Shapes, TypeOK
<1>2. /\ run' \in [Msg -> {"none", "queued", "running", "stranded"} \cup Terminal]
      /\ live' \subseteq Msg /\ turnOf' \in [Msg -> {"none", "open", "ended", "gone"}]
  BY RunTypes DEF Cancels
<1>3. <<>> \in Seq(Msg)
  OBVIOUS
<1>4. queue' \in [Handle -> Seq(Msg)]
  BY <1>3 DEF Cancels, Shapes, TypeOK
<1>5. kill' \in [Handle -> Kills]
  BY DEF Cancels, Tears
<1>6. QED
  BY <1>1, <1>2, <1>4, <1>5

LEMMA TeardownShapes ==
  ASSUME Shapes, NEW h \in Handle, Teardown(h)
  PROVE  Shapes'
<1>1. /\ rec' \in [Msg -> [status : {"none", "pending", "claiming", "acked"}, claim : Handle \cup {None}]]
      /\ run' \in [Msg -> {"none", "queued", "running", "stranded"} \cup Terminal]
      /\ live' \subseteq Msg /\ turnOf' \in [Msg -> {"none", "open", "ended", "gone"}]
      /\ queue' \in [Handle -> Seq(Msg)] /\ kill' \in [Handle -> Kills]
      /\ term' \in [Handle -> {"open", "killed"}]
  <2>1. CASE KillFirst(h)
    <3>1. CASE Cancels(h, "admissions")
      BY <3>1, CancelTypes DEF Cancels, Shapes, TypeOK
    <3>2. CASE Tears(h, "admissions", <<>>, TRUE) /\ UNCHANGED <<term, rec, run, live, turnOf, queue>>
      BY <3>2 DEF Tears, Shapes, TypeOK
    <3>3. QED
      BY <2>1, <3>1, <3>2, FirstTears
  <2>2. CASE KillSecond(h)
    <3>1. CASE Cancels(h, IF kill[h].err THEN "reopens" ELSE "done")
      BY <3>1, CancelTypes DEF Cancels, Shapes, TypeOK
    <3>2. CASE /\ Tears(h, "failed", <<>>, TRUE) /\ term' = [term EXCEPT ![h] = "open"]
               /\ UNCHANGED <<rec, run, live, turnOf, queue>>
      BY <3>2 DEF Tears, Shapes, TypeOK
    <3>3. QED
      BY <2>2, <3>1, <3>2, SecondTears
  <2>3. CASE KillAdmissions(h)
    BY <2>3, AdmissionsTears DEF Tears, KillAdmissions, Shapes, TypeOK
  <2>4. CASE KillReopens(h)
    BY <2>4, ReopensTears DEF Tears, KillReopens, Shapes, TypeOK
  <2>5. QED
    BY <2>1, <2>2, <2>3, <2>4 DEF Teardown
<1>2. UNCHANGED <<hist, by, thread, parked, drain, blockedOn, rcv, lineVars, ownVars, used>>
  BY DEF Teardown, KillFirst, KillSecond, KillAdmissions, KillReopens
<1>3. QED
  BY <1>1, <1>2 DEF Shapes, DrainShapes, TypeOK

LEMMA CrashShapes ==
  ASSUME Shapes, Crash
  PROVE  Shapes'
<1>1. /\ drain' = [h \in Handle |-> NoDrain] /\ kill' = [h \in Handle |-> NoKill]
      /\ calls' = <<>> /\ live' = {} /\ own' = None /\ last' = None /\ unseen' = {}
      /\ flight' = FALSE
  BY DEF Crash
<1>2. NoKill \in Kills /\ calls' \in Seq(Calls)
  BY <1>1 DEF NoKill, Kills
<1>3. DrainShapes'
  BY <1>1, NewDrains DEF DrainShapes, NoDrain, InTurn
<1>4. \A g \in Handle : drain'[g].msg \in 0..MaxSends /\ drain'[g].head \in 0..MaxSends
  BY <1>3, DrainTypes
<1>5. used'.sends = used.sends /\ DOMAIN used' = DOMAIN used
  BY DEF Crash, Happens, Shapes
<1>6. run' \in [Msg -> {"none", "queued", "running", "stranded"} \cup Terminal]
      /\ turnOf' \in [Msg -> {"none", "open", "ended", "gone"}]
  BY DEF Crash, Shapes, TypeOK
<1>7. queue' \in [Handle -> Seq(Msg)]
  <2>1. <<>> \in Seq(Msg)
    OBVIOUS
  <2>2. QED
    BY <2>1 DEF Crash
<1>8. /\ thread' \in [Handle -> {"unloaded", "loading", "fresh", "stale"}]
      /\ parked' \in [Handle -> BOOLEAN] /\ blockedOn' \in [Handle -> SUBSET Msg]
      /\ rcv' \in [Handle -> {"pending", "recovering", "recovered"}]
      /\ term' \in [Handle -> {"open", "killed"}]
  BY DEF Crash
<1>9. UNCHANGED <<rec, hist, by>> /\ kill' \in [Handle -> Kills]
  BY <1>1, <1>2 DEF Crash
<1>10. TypeOK'
  BY <1>1, <1>4, <1>6, <1>7, <1>8, <1>9 DEF Shapes, TypeOK
<1>11. QED
  BY <1>2, <1>3, <1>5, <1>9, <1>10 DEF Shapes

LEMMA SendShapes ==
  ASSUME Shapes, NEW h \in Handle, Send(h)
  PROVE  Shapes'
<1>1. used'.sends = used.sends + 1 /\ used.sends < MaxSends /\ DOMAIN used' = DOMAIN used
  BY DEF Send, Happens, Shapes
<1>2. used'.sends \in 0..MaxSends /\ 0 \in 0..MaxSends
  BY <1>1, ConstantsOK DEF Shapes
<1>3. QED
  BY <1>1, <1>2, JoinShapes DEF Send

LEMMA ResumeShapes ==
  ASSUME Shapes, NEW h \in Handle, NEW m \in Msg, Resume(h, m)
  PROVE  Shapes'
<1>1. used'.sends = used.sends /\ DOMAIN used' = DOMAIN used
  BY DEF Resume, Happens, Shapes
<1>2. used'.sends \in 0..MaxSends /\ m \in 0..MaxSends
  BY <1>1, ConstantsOK DEF Shapes
<1>3. QED
  BY <1>1, <1>2, JoinShapes DEF Resume

LEMMA StepShapes == Inv /\ [Next]_vars => Shapes'
<1> SUFFICES ASSUME Inv, [Next]_vars
             PROVE  Shapes'
  OBVIOUS
<1> USE DEF Inv
<1>1. CASE UNCHANGED vars
  BY <1>1, ShapesStay
<1>2. ASSUME NEW h \in Handle, Drain(h)
      PROVE  Shapes'
  BY <1>2, OwnShapes, RecoverShapes, ReadyShapes, LoopShapes, ClaimShapes, UnclaimShapes, RestartShapes,
     DropShapes, StartShapes, AbandonShapes, CommitShapes, FailShapes, SettleShapes,
     SettlesShapes, FinishShapes, ExitShapes DEF Drain, Settles
<1>3. ASSUME NEW h \in Handle,
             Send(h) \/ Load(h) \/ Fails(h) \/ Interrupt(h) \/ Kill(h) \/ Teardown(h)
      PROVE  Shapes'
  BY <1>3, SendShapes, LoadShapes, FailShapes, SettlesShapes, InterruptShapes, KillShapes, TeardownShapes
     DEF Fails, Settles
<1>4. ASSUME NEW h \in Handle, NEW m \in Msg, Resume(h, m)
      PROVE  Shapes'
  BY <1>4, ResumeShapes
<1>5. CASE Admission
  BY <1>5, BeginShapes, ChecksShapes, AdmitShapes, PushShapes, HandOffShapes DEF Admission
<1>6. CASE FlightLands \/ Crash
  BY <1>6, LandsShapes, CrashShapes
<1>7. QED
  BY <1>1, <1>2, <1>3, <1>4, <1>5, <1>6 DEF Next

-----------------------------------------------------------------------------
(* One drain at a time *)

\* The steps a drain takes within its pass.
Working(h) ==
  \/ DrainReady(h) \/ DrainLoop(h) \/ ClaimNext(h) \/ Unclaim(h) \/ Drop(h)
  \/ StartTurn(h) \/ Abandon(h) \/ Release(h) \/ CommitInput(h) \/ FailTurn(h) \/ Fails(h)
  \/ SettleTurn(h) \/ SettleFailed(h) \/ FinishTurn(h)

\* Such a step moves the owner's drain, past its recovery.
LEMMA WorkTurns ==
  ASSUME Inv, NEW h \in Handle, Working(h)
  PROVE  /\ drain[h].pc \notin Outside /\ own = h /\ own' = own
         /\ \E stage, m, head, outcome :
              Turned(h, stage, m, head, outcome) /\ stage \notin Outside \cup {"recover"}
<1> USE DEF Inv
<1>1. drain[h].pc \notin Outside
  BY DEF Working, DrainReady, DrainLoop, ClaimNext, Unclaim, Drop, StartTurn, Abandon, Release,
     CommitInput, FailTurn, Fails, DrainThrows, TurnFails, SettleRefused, Settle, SettleTurn, SettleFailed, FinishTurn, At, Outside
<1>2. own = h
  BY <1>1 DEF Owned
<1>3. own' = own
  BY DEF Working, DrainReady, DrainLoop, ClaimNext, Unclaim, Drop, StartTurn, Abandon, Release,
     CommitInput, FailTurn, Fails, DrainThrows, TurnFails, SettleRefused, Settle, SettleTurn, SettleFailed, FinishTurn
<1>4. \E stage, m, head, outcome :
        Turned(h, stage, m, head, outcome) /\ stage \notin Outside \cup {"recover"}
  <2>1. CASE DrainReady(h)
    BY <2>1, ReadyTurns DEF Outside
  <2>2. CASE DrainLoop(h)
    BY <2>2, LoopTurns DEF Outside
  <2>3. CASE ClaimNext(h)
    <3>1. AfterClaim(h) \notin Outside \cup {"recover"}
      BY DEF AfterClaim, Outside
    <3>2. QED
      BY <2>3, <3>1, ClaimTurns
  <2>4. CASE StartTurn(h)
    BY <2>4, StartTurns DEF Outside
  <2>5. CASE FailTurn(h)
    BY <2>5, FailTurns DEF Outside
  <2>6. CASE FinishTurn(h)
    BY <2>6, FinishTurns DEF Outside
  <2>7. CASE Unclaim(h) \/ Drop(h) \/ Abandon(h) \/ Release(h) \/ CommitInput(h)
    <3>1. PICK stage \in {"exit", "loop", "release", "finish", "body", "fail", "settle"} : Goto(h, stage)
      BY <2>7 DEF Unclaim, Drop, Abandon, Release, CommitInput
    <3>2. stage \in Stages /\ stage \notin Outside \cup {"recover"}
      BY <3>1 DEF Stages, InTurn, Outside
    <3>3. QED
      BY <3>1, <3>2, GotoTurns
  <2>8. CASE SettleTurn(h)
    <3>1. End(h, "processed") \/ Goto(h, "settle")
      BY <2>8 DEF SettleTurn
    <3>2. "settle" \in Stages
      BY DEF Stages, InTurn
    <3>3. QED
      BY <3>1, <3>2, EndTurns, GotoTurns DEF Outside, Outcomes
  <2>9. CASE Settles(h)
    BY <2>9, SettleEnds DEF Outside
  <2>10. CASE DrainThrows(h) \/ TurnFails(h)
    BY <2>10, ThrowTurns, TurnFailsTurns DEF Outside
  <2>11. QED
    BY <2>1, <2>2, <2>3, <2>4, <2>5, <2>6, <2>7, <2>8, <2>9, <2>10 DEF Working, Fails, Settles
<1>5. QED
  BY <1>1, <1>2, <1>3, <1>4

LEMMA NotOwned ==
  ASSUME Owned, own = None, NEW g \in Handle
  PROVE  drain[g].pc \in Outside
  BY ConstantsOK DEF Owned

LEMMA StepOwned == Inv /\ [Next]_vars => Owned'
<1> SUFFICES ASSUME Inv, [Next]_vars
             PROVE  Owned'
  OBVIOUS
<1> USE DEF Inv
<1>1. ASSUME own' = own, \A g \in Handle : drain'[g].pc = drain[g].pc
      PROVE  Owned'
  BY <1>1 DEF Owned
<1>2. ASSUME NEW h \in Handle, Working(h)
      PROVE  Owned'
  BY <1>2, WorkTurns DEF Owned, Turned
<1>3. ASSUME NEW h \in Handle, Requests(h)
      PROVE  Owned'
  <2>1. CASE /\ At(h, "idle")
             /\ Turned(h, IF own = None THEN "recover" ELSE "wait", 0, 0, "processed")
             /\ own' = IF own = None THEN h ELSE own
    <3>1. own # h
      BY <2>1 DEF Owned, At, Outside
    <3>2. CASE own = None
      BY <2>1, <3>2, NotOwned DEF Owned, Turned, Outside
    <3>3. CASE own # None
      BY <2>1, <3>1, <3>3 DEF Owned, Turned, Outside
    <3>4. QED
      BY <3>2, <3>3
  <2>2. CASE Turned(h, drain[h].pc, drain[h].msg, drain[h].head, drain[h].outcome) /\ own' = own
    BY <2>2, <1>1 DEF Turned
  <2>3. QED
    BY <1>3, <2>1, <2>2, RequestTurns
<1>4. ASSUME NEW h \in Handle, DrainOwn(h)
      PROVE  Owned'
  <2>1. own = None /\ own' = h /\ Turned(h, "recover", drain[h].msg, drain[h].head, drain[h].outcome)
    BY <1>4, GotoTurns DEF DrainOwn, Stages
  <2>2. QED
    BY <2>1, NotOwned DEF Owned, Turned, Outside
<1>5. ASSUME NEW h \in Handle, DrainExit(h)
      PROVE  Owned'
  <2>1. own' = None /\ Turned(h, "left", drain[h].msg, drain[h].head, drain[h].outcome)
    BY <1>5, GotoTurns DEF DrainExit, Stages
  <2>2. own = h
    BY <1>5 DEF DrainExit, At, Owned, Outside
  <2>3. QED
    BY <2>1, <2>2, ConstantsOK DEF Owned, Turned, Outside
<1>6. ASSUME NEW h \in Handle, DrainSettled(h)
      PROVE  Owned'
  <2>1. drain[h].pc = "left" /\ own # h
    BY <1>6 DEF DrainSettled, At, Owned, Outside
  <2>2. CASE (\E outcome \in Outcomes : Turned(h, "idle", 0, 0, outcome)) /\ own' = own
    BY <2>1, <2>2 DEF Owned, Turned, Outside
  <2>3. CASE /\ Turned(h, IF own = None THEN "recover" ELSE "wait", 0, 0, "processed")
             /\ own' = IF own = None THEN h ELSE own
    <3>1. CASE own = None
      BY <2>3, <3>1, NotOwned DEF Owned, Turned, Outside
    <3>2. CASE own # None
      BY <2>1, <2>3, <3>2 DEF Owned, Turned, Outside
    <3>3. QED
      BY <3>1, <3>2
  <2>4. QED
    BY <1>6, <2>2, <2>3, SettledTurns
<1>7. ASSUME NEW h \in Handle, Interrupt(h) \/ Kill(h)
      PROVE  Owned'
  <2>1. Turned(h, drain[h].pc, drain[h].msg, drain[h].head, drain[h].outcome)
    BY <1>7, AbortTurns DEF Interrupt, Kill
  <2>2. own' = own
    BY <1>7 DEF Interrupt, Kill
  <2>3. QED
    BY <1>1, <2>1, <2>2 DEF Turned
<1>8. CASE Crash
  <2>1. own' = None /\ \A h \in Handle : drain'[h] = NoDrain
    BY <1>8 DEF Crash
  <2>2. QED
    BY <2>1, ConstantsOK DEF Owned, NoDrain, Outside
<1>9. ASSUME UNCHANGED <<drain, own>>
      PROVE  Owned'
  BY <1>1, <1>9
<1>10. ASSUME NEW h \in Handle, Drain(h)
       PROVE  Owned'
  <2>1. CASE DrainRecover(h)
    BY <1>9, <2>1 DEF DrainRecover
  <2>2. CASE RestartReleased(h)
    BY <1>3, <2>2, RestartRequests
  <2>3. QED
    BY <1>2, <1>4, <1>5, <1>6, <1>10, <2>1, <2>2 DEF Drain, Working
<1>11. ASSUME NEW h \in Handle, Send(h) \/ Load(h) \/ Teardown(h)
       PROVE  Owned'
  BY <1>9, <1>11 DEF Send, Join, Load, Teardown, KillFirst, KillSecond, KillAdmissions, KillReopens
<1>12. ASSUME NEW h \in Handle, NEW m \in Msg, Resume(h, m)
       PROVE  Owned'
  BY <1>9, <1>12 DEF Resume, Join
<1>13. CASE Admission
  <2>1. CASE BeginCall \/ AdmitChecks \/ Admit
    BY <1>9, <2>1 DEF BeginCall, AdmitChecks, Admit
  <2>2. CASE Push
    BY <1>3, <2>2, LineHeads, PushRequests DEF Push, InLine
  <2>3. CASE HandOff
    BY <1>3, <1>9, <2>3, LineHeads, HandOffRequests DEF HandOff, InLine
  <2>4. QED
    BY <1>13, <2>1, <2>2, <2>3 DEF Admission
<1>14. CASE FlightLands \/ UNCHANGED vars
  BY <1>9, <1>14 DEF FlightLands
<1>15. QED
  BY <1>2, <1>7, <1>8, <1>10, <1>11, <1>12, <1>13, <1>14 DEF Next, Working

-----------------------------------------------------------------------------
(* Handles load the thread before they drain it *)

\* No handle forgets what it has loaded, and the threads of a step that commits
\* nothing, loads nothing and joins no call stay.
Grows == \A h \in Handle :
  /\ thread[h] # "unloaded" => thread'[h] # "unloaded"
  /\ thread[h] \in {"fresh", "stale"} => thread'[h] \in {"fresh", "stale"}

LEMMA WorkGrows ==
  ASSUME Inv, NEW h \in Handle, Working(h)
  PROVE  /\ Grows /\ \A g \in Handle \ {h} : queue'[g] = queue[g] /\ blockedOn'[g] = blockedOn[g]
         /\ calls' = calls
<1> USE DEF Inv
<1>1. thread \in [Handle -> {"unloaded", "loading", "fresh", "stale"}] /\ DOMAIN queue = Handle
      /\ DOMAIN blockedOn = Handle
  BY DEF Shapes, TypeOK
<1>2. \/ thread' = thread \/ Commits(h) \/ thread' = [thread EXCEPT ![h] = "fresh"]
  <2>1. CASE DrainReady(h)
    BY <1>1, <2>1 DEF DrainReady, Reload
  <2>2. CASE ~DrainReady(h)
    BY <2>2 DEF Working, DrainLoop, ClaimNext, Unclaim, Drop, StartTurn, Abandon, Release, Reload,
       CommitInput, FailTurn, Fails, DrainThrows, TurnFails, SettleRefused, Settle, SettleTurn, SettleFailed, FinishTurn
  <2>3. QED
    BY <2>1, <2>2
<1>3. Grows
  BY <1>1, <1>2 DEF Grows, Commits
<1>4. \/ queue' = queue \/ \E s : queue' = [queue EXCEPT ![h] = s]
  BY ClaimTurns DEF Working, DrainReady, DrainLoop, Unclaim, Drop, StartTurn, Abandon, Release,
     CommitInput, FailTurn, Fails, DrainThrows, TurnFails, SettleRefused, Settle, SettleTurn, SettleFailed, FinishTurn
<1>5. \/ blockedOn' = blockedOn \/ \E s : blockedOn' = [blockedOn EXCEPT ![h] = s]
  <2>1. CASE Unclaim(h)
    <3>1. blockedOn' = [blockedOn EXCEPT ![h] =
            IF drain[h].head = 0 THEN blockedOn[h] ELSE blockedOn[h] \cup {drain[h].msg}]
      BY <2>1 DEF Unclaim
    <3>2. QED
      BY <3>1
  <2>2. CASE ~Unclaim(h)
    BY <2>2 DEF Working, DrainReady, DrainLoop, ClaimNext, Drop, StartTurn, Abandon, Release,
       CommitInput, FailTurn, Fails, DrainThrows, TurnFails, SettleRefused, Settle, SettleTurn, SettleFailed, FinishTurn
  <2>3. QED
    BY <2>1, <2>2
<1>6. calls' = calls
  BY DEF Working, DrainReady, DrainLoop, ClaimNext, Unclaim, Drop, StartTurn, Abandon, Release,
     CommitInput, FailTurn, Fails, DrainThrows, TurnFails, SettleRefused, Settle, SettleTurn, SettleFailed, FinishTurn
<1>7. QED
  BY <1>1, <1>3, <1>4, <1>5, <1>6

\* The line changes in one of these ways.
LineStays == calls' = calls
LineShrinks ==
  /\ calls # <<>>
  /\ \A i \in DOMAIN calls' : i + 1 \in DOMAIN calls /\ calls'[i] = calls[i + 1]

LEMMA ShrinksLoaded ==
  ASSUME Loaded, Grows, LineStays \/ LineShrinks,
         \A h \in Handle : \/ drain'[h].pc = "idle" /\ queue'[h] = <<>> /\ blockedOn'[h] = {}
                           \/ ~At(h, "idle") \/ queue[h] # <<>> \/ blockedOn[h] # {}
                           \/ thread[h] \in {"fresh", "stale"},
         \A i \in DOMAIN calls : calls[i].h \in Handle
  PROVE  Loaded'
<1>1. \A h \in Handle : (~At(h, "idle") \/ queue[h] # <<>> \/ blockedOn[h] # {})' =>
        thread'[h] \in {"fresh", "stale"}
  BY DEF Loaded, Grows, At
<1>2. \A i \in DOMAIN calls' : \E j \in DOMAIN calls : calls'[i] = calls[j]
  BY DEF LineStays, LineShrinks
<1>3. QED
  BY <1>1, <1>2 DEF Loaded, Grows, At

LEMMA CallHandles ==
  ASSUME Shapes
  PROVE  \A i \in DOMAIN calls : calls[i].h \in Handle
<1>1. \A i \in DOMAIN calls : calls[i] \in Calls
  BY DEF Shapes
<1>2. QED
  BY <1>1 DEF Calls

\* A step of one handle that moves neither a drain nor a queue.
LEMMA SameLoaded ==
  ASSUME Inv, Grows, LineStays \/ LineShrinks,
         \A h \in Handle : /\ drain'[h].pc = drain[h].pc /\ queue'[h] \in {queue[h], <<>>}
                           /\ blockedOn'[h] = blockedOn[h]
  PROVE  Loaded'
<1>1. \A h \in Handle : \/ drain'[h].pc = "idle" /\ queue'[h] = <<>> /\ blockedOn'[h] = {}
                        \/ ~At(h, "idle") \/ queue[h] # <<>> \/ blockedOn[h] # {}
                        \/ thread[h] \in {"fresh", "stale"}
  BY DEF At
<1>2. QED
  BY <1>1, ShrinksLoaded, CallHandles DEF Inv

LEMMA RequestLoaded ==
  ASSUME Inv, NEW h \in Handle, Requests(h), thread' = thread, LineStays \/ LineShrinks,
         thread[h] \in {"fresh", "stale"},
         \A g \in Handle \ {h} : queue'[g] = queue[g] /\ blockedOn'[g] = blockedOn[g]
  PROVE  Loaded'
<1>1. Grows
  BY DEF Grows
<1>2. \A g \in Handle \ {h} : drain'[g] = drain[g]
  BY RequestTurns DEF Inv, Turned
<1>3. \A g \in Handle : \/ drain'[g].pc = "idle" /\ queue'[g] = <<>> /\ blockedOn'[g] = {}
                        \/ ~At(g, "idle") \/ queue[g] # <<>> \/ blockedOn[g] # {}
                        \/ thread[g] \in {"fresh", "stale"}
  BY <1>2 DEF At
<1>4. QED
  BY <1>1, <1>3, ShrinksLoaded, CallHandles DEF Inv

LEMMA TailShrinks ==
  ASSUME Shapes, calls # <<>>, Leave
  PROVE  LineShrinks
  BY LineLeaves DEF LineShrinks

LEMMA StepLoaded == Inv /\ [Next]_vars => Loaded'
<1> SUFFICES ASSUME Inv, [Next]_vars
             PROVE  Loaded'
  OBVIOUS
<1> USE DEF Inv
<1>1. ASSUME NEW h \in Handle, Working(h)
      PROVE  Loaded'
  <2>1. \A g \in Handle \ {h} : drain'[g] = drain[g]
    BY <1>1, WorkTurns DEF Turned
  <2>2. ~At(h, "idle")
    BY <1>1, WorkTurns DEF At, Outside
  <2>3. \A g \in Handle : \/ drain'[g].pc = "idle" /\ queue'[g] = <<>> /\ blockedOn'[g] = {}
                          \/ ~At(g, "idle") \/ queue[g] # <<>> \/ blockedOn[g] # {}
                          \/ thread[g] \in {"fresh", "stale"}
    BY <1>1, <2>1, <2>2, WorkGrows DEF At
  <2>4. QED
    BY <1>1, <2>3, WorkGrows, ShrinksLoaded, CallHandles DEF LineStays
<1>2. ASSUME NEW h \in Handle, DrainOwn(h) \/ DrainExit(h) \/ DrainSettled(h)
      PROVE  Loaded'
  <2>1. ~At(h, "idle") /\ UNCHANGED <<thread, queue, blockedOn, calls>>
    BY <1>2 DEF DrainOwn, DrainExit, DrainSettled, At
  <2>2. \A g \in Handle \ {h} : drain'[g] = drain[g]
    BY <1>2, GotoTurns, SettledTurns DEF DrainOwn, DrainExit, Stages, Turned
  <2>3. \A g \in Handle : \/ drain'[g].pc = "idle" /\ queue'[g] = <<>> /\ blockedOn'[g] = {}
                          \/ ~At(g, "idle") \/ queue[g] # <<>> \/ blockedOn[g] # {}
                          \/ thread[g] \in {"fresh", "stale"}
    BY <2>1, <2>2 DEF At
  <2>4. Grows /\ LineStays
    BY <2>1 DEF Grows, LineStays
  <2>5. QED
    BY <2>3, <2>4, ShrinksLoaded, CallHandles
<1>3. ASSUME NEW h \in Handle, RestartReleased(h)
      PROVE  Loaded'
  <2>1. blockedOn[h] # {} /\ Requests(h) /\ UNCHANGED <<thread, queue, calls>>
        /\ \A g \in Handle \ {h} : blockedOn'[g] = blockedOn[g]
    BY <1>3, RestartRequests DEF RestartReleased, Shapes, TypeOK
  <2>2. thread[h] \in {"fresh", "stale"}
    BY <2>1 DEF Loaded
  <2>3. QED
    BY <2>1, <2>2, RequestLoaded DEF LineStays
<1>4. ASSUME NEW h \in Handle, Interrupt(h) \/ Kill(h) \/ DrainRecover(h) \/ Load(h) \/ Teardown(h)
      PROVE  Loaded'
  <2>1. \A g \in Handle : drain'[g].pc = drain[g].pc
    <3>1. CASE Interrupt(h) \/ Kill(h)
      <4>1. Turned(h, drain[h].pc, drain[h].msg, drain[h].head, drain[h].outcome)
        BY <3>1, AbortTurns DEF Interrupt, Kill
      <4>2. QED
        BY <4>1 DEF Turned
    <3>2. CASE DrainRecover(h) \/ Load(h) \/ Teardown(h)
      BY <3>2 DEF DrainRecover, Load, Teardown, KillFirst, KillSecond, KillAdmissions, KillReopens
    <3>3. QED
      BY <1>4, <3>1, <3>2
  <2>2. \A g \in Handle : queue'[g] \in {queue[g], <<>>}
    <3>1. CASE Teardown(h)
      BY <3>1, FirstTears, SecondTears DEF Teardown, Cancels, KillAdmissions, KillReopens, Shapes, TypeOK
    <3>2. CASE Interrupt(h) \/ Kill(h) \/ DrainRecover(h) \/ Load(h)
      BY <3>2 DEF Interrupt, Kill, DrainRecover, Load
    <3>3. QED
      BY <1>4, <3>1, <3>2
  <2>3. UNCHANGED <<blockedOn, calls>>
    BY <1>4 DEF Interrupt, Kill, DrainRecover, Load, Teardown, KillFirst, KillSecond, KillAdmissions,
       KillReopens
  <2>4. thread' = thread \/ thread' = [thread EXCEPT ![h] = "fresh"]
    BY <1>4 DEF Interrupt, Kill, DrainRecover, Load, Teardown, KillFirst, KillSecond, KillAdmissions,
       KillReopens
  <2>5. Grows
    BY <2>4 DEF Grows, Shapes, TypeOK
  <2>6. QED
    BY <2>1, <2>2, <2>3, <2>5, SameLoaded DEF LineStays
<1>5. ASSUME NEW h \in Handle, NEW m \in 0..MaxSends, Join(h, m)
      PROVE  Loaded'
  <2>1. UNCHANGED <<drain, queue, blockedOn>>
    BY <1>5 DEF Join
  <2>2. thread' = [thread EXCEPT ![h] = IF @ = "unloaded" THEN "loading" ELSE @]
    BY <1>5 DEF Join
  <2>3. Grows /\ thread'[h] # "unloaded"
    BY <2>2 DEF Grows, Shapes, TypeOK
  <2>4. \A g \in Handle : (~At(g, "idle") \/ queue[g] # <<>> \/ blockedOn[g] # {})' =>
          thread'[g] \in {"fresh", "stale"}
    BY <2>1, <2>3 DEF Grows, Loaded, At
  <2>5. \A i \in DOMAIN calls' : \/ \E j \in DOMAIN calls : calls'[i] = calls[j]
                                 \/ calls'[i].h = h /\ calls'[i].step = "begin"
    <3> DEFINE n == Len(calls) + 1
    <3>1. /\ DOMAIN calls' = DOMAIN calls \cup {n} /\ \A i \in DOMAIN calls : calls'[i] = calls[i]
          /\ calls'[n] = [h |-> h, step |-> "begin", msg |-> m]
      BY <1>5, LineJoins
    <3> HIDE DEF n
    <3>2. calls'[n].h = h /\ calls'[n].step = "begin"
      BY <3>1
    <3>3. QED
      BY <3>1, <3>2
  <2>6. QED
    BY <2>3, <2>4, <2>5, CallHandles DEF Grows, Loaded
<1>6. CASE BeginCall \/ AdmitChecks
  <2>1. calls # <<>> /\ UNCHANGED <<drain, queue, blockedOn, thread>>
    BY <1>6 DEF BeginCall, AdmitChecks, InLine
  <2>2. CASE Leave
    BY <2>1, <2>2, TailShrinks, SameLoaded DEF Grows
  <2>3. CASE Step("recover") \/ Step("admit")
    <3>1. thread[Line.h] \in {"fresh", "stale"} /\ Line.h \in Handle
      <4>1. CASE BeginCall
        BY <2>1, <4>1, LineHeads DEF BeginCall, Loaded, Shapes, TypeOK
      <4>2. CASE AdmitChecks
        BY <2>1, <4>2, LineHeads DEF AdmitChecks, InLine, Loaded
      <4>3. QED
        BY <1>6, <4>1, <4>2
    <3>2. \A i \in DOMAIN calls' : \/ \E j \in DOMAIN calls : calls'[i] = calls[j]
                                   \/ calls'[i].h = Line.h
      BY <2>1, <2>3, LineSteps
    <3>3. QED
      BY <2>1, <3>1, <3>2 DEF Loaded, At
  <2>4. QED
    BY <1>6, <2>2, <2>3 DEF BeginCall, AdmitChecks
<1>7. CASE Admit
  <2>1. calls # <<>> /\ UNCHANGED <<drain, queue, blockedOn, thread>>
    BY <1>7 DEF Admit, InLine
  <2>2. thread[Line.h] \in {"fresh", "stale"}
    BY <1>7, <2>1, LineHeads DEF Admit, InLine, Loaded
  <2>3. NextAdmittedSeq \in Msg /\ [h |-> Line.h, step |-> "push", msg |-> NextAdmittedSeq] \in Calls
    BY <1>7, <2>1, NextIsNew, LineHeads, ConstantsOK DEF Admit, Calls
  <2>4. calls' = <<[h |-> Line.h, step |-> "push", msg |-> NextAdmittedSeq]>> \o Tail(calls)
    BY <1>7 DEF Admit
  <2>5. \A i \in DOMAIN calls' : \/ \E j \in DOMAIN calls : calls'[i] = calls[j]
                                 \/ calls'[i].h = Line.h
    BY <2>1, <2>3, <2>4, LineReplaces
  <2>6. QED
    BY <2>1, <2>2, <2>5 DEF Loaded, At
<1>8. CASE Push \/ HandOff
  <2>1. calls # <<>> /\ Leave /\ UNCHANGED <<thread, blockedOn>>
    BY <1>8 DEF Push, HandOff, InLine
  <2>2. thread[Line.h] \in {"fresh", "stale"} /\ Line.h \in Handle
    BY <1>8, <2>1, LineHeads DEF Push, HandOff, InLine, Loaded
  <2>3. \A g \in Handle \ {Line.h} : queue'[g] = queue[g] /\ blockedOn'[g] = blockedOn[g]
    BY <1>8, <2>1, <2>2 DEF Push, HandOff, Shapes, TypeOK
  <2>4. Requests(Line.h) \/ UNCHANGED <<drain, queue>>
    BY <1>8, PushRequests, HandOffRequests
  <2>5. CASE Requests(Line.h)
    BY <2>1, <2>2, <2>3, <2>5, RequestLoaded, TailShrinks
  <2>6. CASE UNCHANGED <<drain, queue>>
    BY <2>1, <2>6, TailShrinks, SameLoaded DEF Grows
  <2>7. QED
    BY <2>4, <2>5, <2>6
<1>9. CASE FlightLands \/ UNCHANGED vars
  BY <1>9, SameLoaded DEF FlightLands, Grows, LineStays
<1>10. CASE Crash
  BY <1>10 DEF Crash, Loaded, At, NoDrain
<1>11. ASSUME NEW h \in Handle, Drain(h)
       PROVE  Loaded'
  BY <1>1, <1>2, <1>3, <1>4, <1>11 DEF Drain, Working
<1>12. ASSUME NEW h \in Handle, Send(h) \/ \E m \in Msg : Resume(h, m)
       PROVE  Loaded'
  BY <1>5, <1>12, ConstantsOK DEF Send, Resume
<1>13. QED
  BY <1>1, <1>4, <1>6, <1>7, <1>8, <1>9, <1>10, <1>11, <1>12 DEF Next, Admission, Working

-----------------------------------------------------------------------------
(* The history of the drain's owner *)

LEMMA StaleKept ==
  ASSUME Stale, own' = own, last' = last, unseen' = unseen,
         \A h \in Handle : thread'[h] = "stale" <=> thread[h] = "stale",
         \A h \in Handle : /\ At(h, "recover") => At(h, "recover")'
                           /\ At(h, "exit") /\ drain[h].outcome = "threw" =>
                                (At(h, "exit") /\ drain[h].outcome = "threw")',
         unseen \subseteq Handle
  PROVE  Stale'
  BY DEF Stale

\* A drain outside its pass starts one, or asks for one.
LEMMA EnteredStale ==
  ASSUME Inv, NEW h \in Handle, drain[h].pc \in Outside, UNCHANGED <<thread, last, unseen>>,
         Turned(h, IF own = None THEN "recover" ELSE "wait", 0, 0, "processed"),
         own' = IF own = None THEN h ELSE own
  PROVE  Stale'
<1> USE DEF Inv
<1>1. CASE own = None
  BY <1>1, ConstantsOK DEF Stale, Turned, At
<1>2. CASE own # None
  <2>1. \A g \in Handle \ {h} : drain'[g] = drain[g]
    BY DEF Turned
  <2>2. QED
    BY <1>2, <2>1, StaleKept DEF At, Outside, Shapes, TypeOK
<1>3. QED
  BY <1>1, <1>2

LEMMA RequestStale ==
  ASSUME Inv, NEW h \in Handle, Requests(h), UNCHANGED <<thread, last, unseen>>
  PROVE  Stale'
<1> USE DEF Inv
<1>1. CASE /\ At(h, "idle")
           /\ Turned(h, IF own = None THEN "recover" ELSE "wait", 0, 0, "processed")
           /\ own' = IF own = None THEN h ELSE own
  BY <1>1, EnteredStale DEF At, Outside
<1>2. CASE Turned(h, drain[h].pc, drain[h].msg, drain[h].head, drain[h].outcome) /\ own' = own
  BY <1>2, StaleKept DEF Turned, At, Shapes, TypeOK
<1>3. QED
  BY <1>1, <1>2, RequestTurns

\* What a step of a pass does to the history of its owner.
LEMMA WorkStale ==
  ASSUME Inv, NEW h \in Handle, Working(h)
  PROVE  /\ \A g \in unseen' : thread'[g] = "stale"
         /\ thread'[h] = "stale" /\ h \notin unseen' =>
              /\ last' \notin {None, h}
              /\ (At(h, "exit") /\ drain[h].outcome = "threw")'
<1> USE DEF Inv
<1>1. own = h /\ thread \in [Handle -> {"unloaded", "loading", "fresh", "stale"}]
      /\ \A g \in unseen : g \in Handle /\ thread[g] = "stale"
  BY WorkTurns DEF Shapes, TypeOK, Stale
<1>2. ASSUME Reload(h)
      PROVE  thread'[h] = "fresh" /\ \A g \in unseen' : thread'[g] = "stale"
  BY <1>1, <1>2 DEF Reload
<1>3. ASSUME UNCHANGED <<thread, unseen>> \/ (Commits(h) /\ unseen' = unseen)
      PROVE  thread'[h] = thread[h] /\ unseen' = unseen /\ \A g \in unseen' : thread'[g] = "stale"
  BY <1>1, <1>3 DEF Commits
<1>4. CASE DrainThrows(h)
  <2>1. UNCHANGED <<thread, unseen, last>>
    BY <1>4 DEF DrainThrows
  <2>2. drain'[h].pc = "exit" /\ drain'[h].outcome = "threw"
    BY <1>4, ThrowTurns DEF Turned
  <2>3. thread[h] = "stale" /\ h \notin unseen => last \notin {None, h}
    BY <1>1 DEF Stale
  <2>4. QED
    BY <1>1, <2>1, <2>2, <2>3 DEF At
<1>5. CASE DrainReady(h)
  <2>1. Reload(h) \/ (UNCHANGED <<thread, unseen>> /\ last \in {None, h})
    BY <1>5 DEF DrainReady, RefreshRequired
  <2>2. CASE Reload(h)
    BY <1>2, <2>2
  <2>3. CASE UNCHANGED <<thread, unseen>> /\ last \in {None, h}
    BY <1>1, <2>3 DEF Stale
  <2>4. QED
    BY <2>1, <2>2, <2>3
<1>6. CASE ~DrainThrows(h) /\ ~DrainReady(h)
  <2>1. drain[h].pc \notin Outside \cup {"recover", "exit"}
    BY <1>6 DEF Working, DrainLoop, ClaimNext, Unclaim, Drop, StartTurn, Abandon, Release, CommitInput,
       FailTurn, Fails, TurnFails, SettleTurn, SettleRefused, SettleFailed, Settle, FinishTurn, At, Outside
  <2>2. thread[h] = "fresh" \/ h \in unseen
    BY <2>1, OwnerFresh
  <2>3. Reload(h) \/ UNCHANGED <<thread, unseen>> \/ (Commits(h) /\ unseen' = unseen)
    BY <1>6 DEF Working, DrainLoop, ClaimNext, Unclaim, Drop, StartTurn, Abandon, Release, CommitInput,
       FailTurn, Fails, TurnFails, SettleTurn, SettleRefused, SettleFailed, Settle, FinishTurn
  <2>4. QED
    BY <1>2, <1>3, <2>2, <2>3
<1>7. QED
  BY <1>4, <1>5, <1>6

LEMMA StepStale == Inv /\ [Next]_vars => Stale'
<1> SUFFICES ASSUME Inv, [Next]_vars
             PROVE  Stale'
  OBVIOUS
<1> USE DEF Inv
<1> unseen \subseteq Handle
  BY DEF Shapes, TypeOK
<1>1. ASSUME NEW h \in Handle, Working(h)
      PROVE  Stale'
  <2>1. own = h /\ own' = h /\ h # None
    BY <1>1, WorkTurns, ConstantsOK
  <2>2. QED
    BY <1>1, <2>1, WorkStale DEF Stale
<1>2. ASSUME NEW h \in Handle, DrainOwn(h)
      PROVE  Stale'
  <2>1. /\ own = None /\ own' = h /\ h # None /\ UNCHANGED <<thread, last, unseen>>
        /\ Turned(h, "recover", drain[h].msg, drain[h].head, drain[h].outcome)
    BY <1>2, GotoTurns, ConstantsOK DEF DrainOwn, Stages
  <2>2. QED
    BY <2>1 DEF Stale, Turned, At
<1>3. ASSUME NEW h \in Handle, DrainExit(h)
      PROVE  Stale'
  <2>1. own = h /\ own' = None /\ thread' = thread /\ h # None /\ At(h, "exit")
    BY <1>3, ConstantsOK DEF DrainExit, Owned, At, Outside
  <2>2. CASE drain[h].outcome = "threw"
    <3>1. unseen' = unseen \cup {g \in Handle : thread[g] = "stale"}
      BY <1>3, <2>2 DEF DrainExit
    <3>2. QED
      BY <2>1, <3>1 DEF Stale
  <2>3. CASE drain[h].outcome # "threw"
    <3>1. last' = h /\ unseen' = unseen
      BY <1>3, <2>3 DEF DrainExit
    <3>2. thread[h] # "stale" \/ h \in unseen
      BY <2>1, <2>3 DEF Stale, At
    <3>3. QED
      BY <2>1, <3>1, <3>2, ConstantsOK DEF Stale
  <2>4. QED
    BY <2>2, <2>3
<1>4. ASSUME NEW h \in Handle, DrainSettled(h)
      PROVE  Stale'
  <2>1. drain[h].pc = "left" /\ UNCHANGED <<thread, last, unseen>>
    BY <1>4 DEF DrainSettled, At
  <2>2. CASE (\E outcome \in Outcomes : Turned(h, "idle", 0, 0, outcome)) /\ own' = own
    BY <2>1, <2>2, StaleKept DEF Turned, At
  <2>3. CASE /\ Turned(h, IF own = None THEN "recover" ELSE "wait", 0, 0, "processed")
             /\ own' = IF own = None THEN h ELSE own
    BY <2>1, <2>3, EnteredStale DEF Outside
  <2>4. QED
    BY <1>4, <2>2, <2>3, SettledTurns
<1>5. ASSUME NEW h \in Handle, RestartReleased(h)
      PROVE  Stale'
  BY <1>5, RestartRequests, RequestStale DEF RestartReleased
<1>6. ASSUME NEW h \in Handle, Interrupt(h) \/ Kill(h)
      PROVE  Stale'
  <2>1. Turned(h, drain[h].pc, drain[h].msg, drain[h].head, drain[h].outcome)
    BY <1>6, AbortTurns DEF Interrupt, Kill
  <2>2. UNCHANGED <<own, last, unseen, thread>>
    BY <1>6 DEF Interrupt, Kill
  <2>3. QED
    BY <2>1, <2>2, StaleKept DEF Turned, At
<1>7. ASSUME NEW h \in Handle, NEW m \in 0..MaxSends, Join(h, m)
      PROVE  Stale'
  <2>1. UNCHANGED <<own, last, unseen, drain>>
        /\ thread' = [thread EXCEPT ![h] = IF @ = "unloaded" THEN "loading" ELSE @]
    BY <1>7 DEF Join
  <2>2. \A g \in Handle : thread'[g] = "stale" <=> thread[g] = "stale"
    BY <2>1 DEF Shapes, TypeOK
  <2>3. QED
    BY <2>1, <2>2, StaleKept DEF At
<1>8. ASSUME NEW h \in Handle, Load(h)
      PROVE  Stale'
  <2>1. /\ UNCHANGED <<own, last, unseen, drain>> /\ thread' = [thread EXCEPT ![h] = "fresh"]
        /\ thread[h] = "loading"
    BY <1>8 DEF Load
  <2>2. \A g \in Handle : thread'[g] = "stale" <=> thread[g] = "stale"
    BY <2>1 DEF Shapes, TypeOK
  <2>3. QED
    BY <2>1, <2>2, StaleKept DEF At
<1>9. ASSUME UNCHANGED <<own, last, unseen, drain, thread>>
      PROVE  Stale'
  BY <1>9, StaleKept DEF At
<1>10. CASE Push \/ HandOff
  <2>1. Line.h \in Handle /\ UNCHANGED <<thread, last, unseen>>
    BY <1>10, LineHeads DEF Push, HandOff, InLine
  <2>2. Requests(Line.h) \/ UNCHANGED <<drain, own>>
    BY <1>10, PushRequests, HandOffRequests
  <2>3. QED
    BY <1>9, <2>1, <2>2, RequestStale
<1>11. CASE Crash
  BY <1>11 DEF Crash, Stale
<1>12. CASE BeginCall \/ AdmitChecks \/ Admit \/ FlightLands \/ UNCHANGED vars
  BY <1>9, <1>12 DEF BeginCall, AdmitChecks, Admit, FlightLands
<1>13. ASSUME NEW h \in Handle, DrainRecover(h) \/ Teardown(h)
       PROVE  Stale'
  BY <1>9, <1>13 DEF DrainRecover, Teardown, KillFirst, KillSecond, KillAdmissions, KillReopens
<1>14. ASSUME NEW h \in Handle, Drain(h)
       PROVE  Stale'
  BY <1>1, <1>2, <1>3, <1>4, <1>5, <1>13, <1>14 DEF Drain, Working
<1>15. ASSUME NEW h \in Handle, Send(h) \/ \E m \in Msg : Resume(h, m)
       PROVE  Stale'
  BY <1>7, <1>15, ConstantsOK DEF Send, Resume
<1>16. QED
  BY <1>1, <1>6, <1>8, <1>10, <1>11, <1>12, <1>13, <1>14, <1>15 DEF Next, Admission, Working

\* CommitsAreFresh: the drain about to commit an input has the store's history,
\* or one that a drain that threw left behind.
LEMMA InvFresh == Inv => CommitsAreFresh
  BY OwnerFresh DEF Inv, CommitsAreFresh, At, Outside

-----------------------------------------------------------------------------
(* The line of admissions *)

\* What a drain's step does to the runs: one run that waits starts, one that is
\* running ends or is left to its lease, or runs that wait are cancelled.
LEMMA WorkRuns ==
  ASSUME Inv, NEW h \in Handle, Working(h), NEW m \in Msg, run'[m] # run[m]
  PROVE  \/ run[m] = "queued" /\ run'[m] = "cancelled" /\ (Drop(h) \/ FinishTurn(h))
         \/ run[m] = "queued" /\ run'[m] = "running" /\ m = drain[h].msg /\ StartTurn(h)
         \/ /\ run[m] = "running" /\ run'[m] \in Terminal /\ m = drain[h].msg
            /\ Abandon(h) \/ SettleTurn(h) \/ Settles(h)
         \/ run[m] = "running" /\ run'[m] = "stranded" /\ m = drain[h].msg /\ Settles(h)
<1> USE DEF Inv
<1>1. run \in [Msg -> {"none", "queued", "running", "stranded"} \cup Terminal]
  BY DEF Shapes, TypeOK
<1>2. CASE Drop(h) \/ FinishTurn(h)
  <2>1. PICK ms : run' = Cancelled(ms)
    BY <1>2 DEF Drop, FinishTurn
  <2>2. QED
    BY <1>2, <2>1 DEF Cancelled
<1>3. CASE StartTurn(h)
  BY <1>1, <1>3, StartTurns
<1>4. CASE Abandon(h) \/ SettleTurn(h)
  <2>1. drain[h].pc \in Started
    BY <1>4 DEF Abandon, SettleTurn, At, Started
  <2>2. run[drain[h].msg] = "running"
    BY <2>1 DEF Run
  <2>3. run' = run \/ \E v \in Terminal : run' = [run EXCEPT ![drain[h].msg] = v]
    BY <1>4 DEF Abandon, SettleTurn, Terminal
  <2>4. QED
    BY <1>1, <1>4, <2>2, <2>3
<1>5. CASE Settles(h)
  <2>1. run[drain[h].msg] = "running"
    BY <1>5, SettleEnds DEF At, Started, Run
  <2>2. \E status \in {"error", "stranded"} : run' = [run EXCEPT ![drain[h].msg] = status]
    BY <1>5, SettleEnds
  <2>3. QED
    BY <1>1, <1>5, <2>1, <2>2 DEF Terminal
<1>6. CASE \/ DrainReady(h) \/ DrainLoop(h) \/ ClaimNext(h) \/ Unclaim(h) \/ Release(h)
           \/ CommitInput(h) \/ FailTurn(h) \/ DrainThrows(h) \/ TurnFails(h)
  BY <1>6 DEF DrainReady, DrainLoop, ClaimNext, Unclaim, Release, CommitInput, FailTurn, DrainThrows, TurnFails
<1>7. QED
  BY <1>2, <1>3, <1>4, <1>5, <1>6 DEF Working, Fails, Settles

\* A teardown cancels runs that wait, no others.
LEMMA TeardownRuns ==
  ASSUME Inv, NEW h \in Handle, Teardown(h), NEW m \in Msg, run'[m] # run[m]
  PROVE  run[m] = "queued" /\ run'[m] = "cancelled" /\ m \in ToSet(kill[h].snap)
<1> USE DEF Inv
<1>1. PICK phase : Cancels(h, phase)
  BY FirstTears, SecondTears DEF Teardown, KillAdmissions, KillReopens
<1>2. run' = Cancelled(ToSet(kill[h].snap))
  BY <1>1 DEF Cancels
<1>3. QED
  BY <1>2 DEF Cancelled

\* The line keeps what it says as long as it stays, or moves on, and the runs it
\* hands over stay stranded.
LEMMA LinedKept ==
  ASSUME Inv, LineStays, by' = by,
         \A i \in DOMAIN calls : calls[i].msg # 0 /\ run[calls[i].msg] = "stranded" =>
            run'[calls[i].msg] = "stranded"
  PROVE  Lined'
<1>1. calls' = calls
  BY DEF LineStays
<1>2. QED
  BY <1>1 DEF Inv, Lined

LEMMA LinedLeft ==
  ASSUME Inv, calls # <<>>, Leave,
         \A i \in DOMAIN calls : calls[i].msg # 0 /\ run[calls[i].msg] = "stranded" /\ i # 1 =>
            run'[calls[i].msg] = "stranded"
  PROVE  Lined'
<1> USE DEF Inv
<1>1. \A i \in DOMAIN calls' : i + 1 \in DOMAIN calls /\ i + 1 > 1 /\ calls'[i] = calls[i + 1] /\ i \in Nat
  BY LineLeaves
<1>2. \A i \in DOMAIN calls' : calls'[i].step = "begin"
                               /\ (calls'[i].msg # 0 => run'[calls'[i].msg] = "stranded")
  BY <1>1 DEF Lined
<1>3. \A i, j \in DOMAIN calls' : calls'[i].msg = calls'[j].msg /\ calls'[i].msg # 0 => i = j
  BY <1>1 DEF Lined
<1>4. QED
  BY <1>2, <1>3 DEF Lined

LEMMA CallMsgs ==
  ASSUME Shapes
  PROVE  \A i \in DOMAIN calls : calls[i].msg # 0 => calls[i].msg \in Msg
<1>1. \A i \in DOMAIN calls : calls[i] \in Calls
  BY DEF Shapes
<1>2. QED
  BY <1>1, ConstantsOK DEF Calls

\* The head of the line moves on and keeps its handle and message.
LEMMA LinedSteps ==
  ASSUME Inv, calls # <<>>, NEW step \in {"recover", "admit"}, Step(step), Line.step # "push",
         UNCHANGED <<run, by>>
  PROVE  Lined'
<1> USE DEF Inv
<1>1. /\ DOMAIN calls' = DOMAIN calls /\ \A i \in DOMAIN calls \ {1} : calls'[i] = calls[i]
      /\ calls'[1].h = calls[1].h /\ calls'[1].msg = calls[1].msg /\ calls'[1].step = step
      /\ 1 \in DOMAIN calls /\ calls[1].step # "push"
  BY LineSteps, LineHeads
<1>2. \A i \in DOMAIN calls : calls'[i].msg = calls[i].msg
  BY <1>1
<1>3. QED
  BY <1>1, <1>2 DEF Lined

LEMMA StepLined == Inv /\ [Next]_vars => Lined'
<1> SUFFICES ASSUME Inv, [Next]_vars
             PROVE  Lined'
  OBVIOUS
<1> USE DEF Inv
<1>1. ASSUME NEW h \in Handle, Working(h)
      PROVE  Lined'
  <2>1. UNCHANGED <<calls, by>>
    BY <1>1 DEF Working, DrainReady, DrainLoop, ClaimNext, Unclaim, Drop, StartTurn, Abandon, Release,
       CommitInput, FailTurn, Fails, DrainThrows, TurnFails, SettleRefused, Settle, SettleTurn, SettleFailed, FinishTurn
  <2>2. \A m \in Msg : run[m] = "stranded" => run'[m] = "stranded"
    BY <1>1, WorkRuns
  <2>3. QED
    BY <2>1, <2>2, LinedKept, CallMsgs DEF LineStays
<1>2. ASSUME NEW h \in Handle, Teardown(h)
      PROVE  Lined'
  <2>1. UNCHANGED <<calls, by>>
    BY <1>2 DEF Teardown, KillFirst, KillSecond, KillAdmissions, KillReopens
  <2>2. \A m \in Msg : run[m] = "stranded" => run'[m] = "stranded"
    BY <1>2, TeardownRuns
  <2>3. QED
    BY <2>1, <2>2, LinedKept, CallMsgs DEF LineStays
<1>3. ASSUME UNCHANGED <<run, by, calls>>
      PROVE  Lined'
  BY <1>3, LinedKept DEF LineStays
<1>4. ASSUME NEW h \in Handle,
             \/ DrainOwn(h) \/ DrainRecover(h) \/ RestartReleased(h) \/ DrainExit(h) \/ DrainSettled(h)
             \/ Load(h) \/ Interrupt(h) \/ Kill(h)
      PROVE  Lined'
  BY <1>3, <1>4 DEF DrainOwn, DrainRecover, RestartReleased, DrainExit, DrainSettled, Load, Interrupt, Kill
<1>5. ASSUME NEW h \in Handle, NEW m \in 0..MaxSends, Join(h, m),
             m # 0 => run[m] = "stranded" /\ \A i \in DOMAIN calls : calls[i].msg # m
      PROVE  Lined'
  <2> DEFINE n == Len(calls) + 1
             c == [h |-> h, step |-> "begin", msg |-> m]
  <2>1. c.h = h /\ c.step = "begin" /\ c.msg = m
    OBVIOUS
  <2>2. /\ DOMAIN calls' = DOMAIN calls \cup {n} /\ n \notin DOMAIN calls
        /\ \A i \in DOMAIN calls : calls'[i] = calls[i]
        /\ calls'[n] = c
    <3>1. /\ DOMAIN calls' = DOMAIN calls \cup {Len(calls) + 1} /\ Len(calls) + 1 \notin DOMAIN calls
          /\ \A i \in DOMAIN calls : calls'[i] = calls[i]
          /\ calls'[Len(calls) + 1] = [h |-> h, step |-> "begin", msg |-> m]
      BY <1>5, LineJoins
    <3>2. QED
      BY <3>1
  <2> HIDE DEF c
  <2>3. /\ DOMAIN calls' = DOMAIN calls \cup {n} /\ n \notin DOMAIN calls
        /\ \A i \in DOMAIN calls : calls'[i] = calls[i]
        /\ calls'[n].h = h /\ calls'[n].step = "begin" /\ calls'[n].msg = m
    BY <2>1, <2>2
  <2>4. UNCHANGED <<run, by>>
    BY <1>5 DEF Join
  <2> HIDE DEF n
  <2>5. \A i \in DOMAIN calls' :
          /\ i > 1 => calls'[i].step = "begin"
          /\ calls'[i].msg # 0 /\ calls'[i].step # "push" => run[calls'[i].msg] = "stranded"
          /\ calls'[i].step = "push" => calls'[i].msg # 0 /\ by[calls'[i].msg] = calls'[i].h
    BY <1>5, <2>3 DEF Lined
  <2>6. \A i, j \in DOMAIN calls' : calls'[i].msg = calls'[j].msg /\ calls'[i].msg # 0 => i = j
    BY <1>5, <2>3 DEF Lined
  <2>7. QED
    BY <2>4, <2>5, <2>6 DEF Lined
<1>6. CASE BeginCall \/ AdmitChecks
  <2>1. calls # <<>> /\ Line.step # "push" /\ UNCHANGED <<run, by>>
    BY <1>6 DEF BeginCall, AdmitChecks, InLine
  <2>2. CASE Leave
    BY <2>1, <2>2, LinedLeft
  <2>3. CASE Step("recover") \/ Step("admit")
    BY <2>1, <2>3, LinedSteps
  <2>4. QED
    BY <1>6, <2>2, <2>3 DEF BeginCall, AdmitChecks
<1>7. CASE Admit
  <2> DEFINE m == NextAdmittedSeq
             c == [h |-> Line.h, step |-> "push", msg |-> m]
  <2>1. calls # <<>> /\ Line.msg = 0 /\ Line.step = "admit"
    BY <1>7 DEF Admit, InLine
  <2>2. m \in Msg /\ rec[m].status = "none" /\ m # 0 /\ Line.h \in Handle
    BY <1>7, <2>1, NextIsNew, LineHeads, ConstantsOK DEF Admit
  <2>3. run[m] = "none"
    BY <2>2 DEF Run
  <2>4. /\ calls' = <<c>> \o Tail(calls) /\ run' = [run EXCEPT ![m] = "queued"]
        /\ by' = [by EXCEPT ![m] = Line.h]
    BY <1>7 DEF Admit
  <2> HIDE DEF m
  <2>5. c \in Calls
    BY <2>2, ConstantsOK DEF Calls
  <2>6. /\ DOMAIN calls' = DOMAIN calls /\ \A i \in DOMAIN calls \ {1} : calls'[i] = calls[i]
        /\ calls'[1].h = Line.h /\ calls'[1].msg = m /\ calls'[1].step = "push"
    BY <2>1, <2>4, <2>5, LineReplaces
  <2>7. \A k \in Msg \ {m} : run'[k] = run[k] /\ by'[k] = by[k]
    BY <2>4 DEF Shapes, TypeOK
  <2>8. by'[m] = Line.h
    BY <2>2, <2>4 DEF Shapes, TypeOK
  <2>9. 1 \in DOMAIN calls /\ \A i \in DOMAIN calls : i # 1 => i > 1
    BY <2>1, LineHeads
  <2>10. \A i \in DOMAIN calls \ {1} : /\ calls[i].step = "begin"
                                       /\ calls[i].msg # 0 => run[calls[i].msg] = "stranded"
    BY <2>9 DEF Lined
  <2>11. \A i \in DOMAIN calls \ {1} : calls[i].msg # m /\ (calls[i].msg # 0 => run'[calls[i].msg] = "stranded")
    BY <2>2, <2>3, <2>7, <2>10, CallMsgs
  <2>12. QED
    BY <2>2, <2>6, <2>8, <2>10, <2>11 DEF Lined
<1>8. CASE Push \/ HandOff
  <2>1. calls # <<>> /\ Leave /\ by' = by
    BY <1>8 DEF Push, HandOff, InLine
  <2>2. \A i \in DOMAIN calls : calls[i].msg # 0 /\ run[calls[i].msg] = "stranded" =>
          run'[calls[i].msg] = "stranded" \/ i = 1
    <3>1. CASE Push
      BY <3>1 DEF Push
    <3>2. CASE HandOff
      <4>1. run' = [run EXCEPT ![Line.msg] = "queued"] /\ Line = calls[1] /\ 1 \in DOMAIN calls
        BY <2>1, <3>2, LineHeads DEF HandOff
      <4>2. \A i \in DOMAIN calls : calls[i].msg # 0 /\ calls[i].msg = calls[1].msg => i = 1
        BY <4>1 DEF Lined
      <4>3. QED
        BY <4>1, <4>2, CallMsgs DEF Shapes, TypeOK
    <3>3. QED
      BY <1>8, <3>1, <3>2
  <2>3. QED
    BY <2>1, <2>2, LinedLeft
<1>9. CASE FlightLands \/ UNCHANGED vars
  BY <1>3, <1>9 DEF FlightLands
<1>10. CASE Crash
  <2>1. DOMAIN calls' = {}
    BY <1>10 DEF Crash
  <2>2. QED
    BY <2>1 DEF Lined
<1>11. ASSUME NEW h \in Handle, Send(h) \/ \E m \in Msg : Resume(h, m)
       PROVE  Lined'
  BY <1>5, <1>11, ConstantsOK DEF Send, Resume
<1>12. ASSUME NEW h \in Handle, Drain(h)
       PROVE  Lined'
  BY <1>1, <1>4, <1>12 DEF Drain, Working
<1>13. QED
  BY <1>1, <1>2, <1>4, <1>6, <1>7, <1>8, <1>9, <1>10, <1>11, <1>12 DEF Next, Admission, Working

-----------------------------------------------------------------------------
(* What any step does to the records, the runs and the drains *)

\* Every step is of one handle, of the line, of the recovery flight, or a crash.
LEMMA Steps ==
  ASSUME [Next]_vars
  PROVE  \/ \E h \in Handle :
              \/ Working(h)
              \/ DrainOwn(h) \/ DrainRecover(h) \/ RestartReleased(h) \/ DrainExit(h) \/ DrainSettled(h)
              \/ Send(h) \/ Load(h) \/ Interrupt(h) \/ Kill(h) \/ Teardown(h)
              \/ \E m \in Msg : Resume(h, m)
         \/ BeginCall \/ AdmitChecks \/ Admit \/ Push \/ HandOff \/ FlightLands \/ Crash
         \/ UNCHANGED vars
  BY DEF Next, Drain, Admission, Working

\* A drain moves by its own pass, or outside it, or not at all.
Rests(g) ==
  \/ /\ drain'[g].pc = drain[g].pc /\ drain'[g].msg = drain[g].msg
     /\ drain'[g].head = drain[g].head /\ drain'[g].outcome = drain[g].outcome
  \/ drain'[g].pc \in Outside \cup {"recover"}

LEMMA RequestRests ==
  ASSUME Inv, NEW h \in Handle, Requests(h), NEW g \in Handle
  PROVE  Rests(g)
  BY RequestTurns DEF Inv, Rests, Turned, Outside

LEMMA StepTurns ==
  ASSUME Inv, [Next]_vars
  PROVE  (\E h \in Handle : Working(h)) \/ \A g \in Handle : Rests(g)
<1> USE DEF Inv
<1>1. ASSUME drain' = drain, NEW g \in Handle
      PROVE  Rests(g)
  BY <1>1 DEF Rests
<1>2. ASSUME NEW h \in Handle, DrainOwn(h), NEW g \in Handle
      PROVE  Rests(g)
  BY <1>2, GotoTurns DEF DrainOwn, Stages, Rests, Turned
<1>3. ASSUME NEW h \in Handle, DrainExit(h), NEW g \in Handle
      PROVE  Rests(g)
  BY <1>3, GotoTurns DEF DrainExit, Stages, Rests, Turned, Outside
<1>4. ASSUME NEW h \in Handle, DrainSettled(h), NEW g \in Handle
      PROVE  Rests(g)
  BY <1>4, SettledTurns DEF Rests, Turned, Outside
<1>5. ASSUME NEW h \in Handle, Interrupt(h) \/ Kill(h), NEW g \in Handle
      PROVE  Rests(g)
  BY <1>5, AbortTurns DEF Interrupt, Kill, Rests, Turned
<1>6. ASSUME NEW h \in Handle, RestartReleased(h), NEW g \in Handle
      PROVE  Rests(g)
  BY <1>6, RequestRests, RestartRequests
<1>7. ASSUME Push \/ HandOff, NEW g \in Handle
      PROVE  Rests(g)
  <2>1. Line.h \in Handle /\ (Requests(Line.h) \/ drain' = drain)
    BY <1>7, LineHeads, PushRequests, HandOffRequests DEF Push, HandOff, InLine
  <2>2. QED
    BY <1>1, <2>1, RequestRests
<1>8. ASSUME Crash, NEW g \in Handle
      PROVE  Rests(g)
  <2>1. drain'[g] = NoDrain
    BY <1>8 DEF Crash
  <2>2. QED
    BY <2>1 DEF NoDrain, Rests, Outside
<1>9. ASSUME NEW h \in Handle,
             DrainRecover(h) \/ Send(h) \/ Load(h) \/ Teardown(h) \/ \E m \in Msg : Resume(h, m)
      PROVE  drain' = drain
  BY <1>9 DEF DrainRecover, Send, Join, Load, Teardown, KillFirst, KillSecond, KillAdmissions,
     KillReopens, Resume
<1>10. ASSUME BeginCall \/ AdmitChecks \/ Admit \/ FlightLands \/ UNCHANGED vars
       PROVE  drain' = drain
  BY <1>10 DEF BeginCall, AdmitChecks, Admit, FlightLands
<1>11. QED
  BY <1>1, <1>2, <1>3, <1>4, <1>5, <1>6, <1>7, <1>8, <1>9, <1>10, Steps

\* The recovery of a handle is done once, by the flight or a crash.
LEMMA StepRcv ==
  ASSUME Inv, [Next]_vars, ~FlightLands, ~Crash, NEW h \in Handle
  PROVE  rcv'[h] = "recovered" <=> rcv[h] = "recovered"
<1>1. CASE BeginCall
  <2>1. rcv' = rcv \/ (rcv[Line.h] = "pending" /\ rcv' = [rcv EXCEPT ![Line.h] = "recovering"])
    BY <1>1 DEF BeginCall
  <2>2. QED
    BY <2>1 DEF Inv, Shapes, TypeOK
<1>2. ASSUME NEW g \in Handle, DrainRecover(g)
      PROVE  rcv'[h] = "recovered" <=> rcv[h] = "recovered"
  BY <1>2 DEF DrainRecover, Inv, Shapes, TypeOK
<1>3. ASSUME NEW g \in Handle, Working(g)
      PROVE  rcv' = rcv
  BY <1>3 DEF Working, DrainReady, DrainLoop, ClaimNext, Unclaim, Drop, StartTurn, Abandon, Release,
     CommitInput, FailTurn, Fails, DrainThrows, TurnFails, SettleRefused, Settle, SettleTurn, SettleFailed, FinishTurn
<1>4. ASSUME NEW g \in Handle,
             \/ DrainOwn(g) \/ RestartReleased(g) \/ DrainExit(g) \/ DrainSettled(g)
             \/ Send(g) \/ Load(g) \/ Interrupt(g) \/ Kill(g) \/ Teardown(g)
             \/ \E m \in Msg : Resume(g, m)
      PROVE  rcv' = rcv
  BY <1>4 DEF DrainOwn, RestartReleased, DrainExit, DrainSettled, Send, Join, Load, Interrupt, Kill,
     Teardown, KillFirst, KillSecond, KillAdmissions, KillReopens, Resume
<1>5. CASE AdmitChecks \/ Admit \/ Push \/ HandOff \/ UNCHANGED vars
  BY <1>5 DEF AdmitChecks, Admit, Push, HandOff
<1>6. QED
  BY <1>1, <1>2, <1>3, <1>4, <1>5, Steps

\* The ways a record changes.
Admitted(m) == Admit /\ m = NextAdmittedSeq /\ rec[m].status = "none" /\ rec'[m] = Rec("pending", None)
Taken(h, m) == ClaimNext(h) /\ m = Chosen /\ rec[m].status = "pending" /\ rec'[m] = Rec("claiming", h)
GivenBack(h, m) ==
  /\ Unclaim(h) \/ Release(h) \/ FailTurn(h)
  /\ m = drain[h].msg /\ Claims(h, m) /\ rec'[m] = Rec("pending", None)
Recovered(m) == FlightLands /\ rec[m].status = "claiming" /\ rec'[m] = Rec("pending", None)
CommittedBy(h, m) ==
  /\ CommitInput(h) /\ thread[h] = "fresh"
  /\ m = drain[h].msg /\ Claims(h, m) /\ rec'[m] = Rec("acked", None)
CancelledBy(h, m) ==
  Teardown(h) /\ m \in ToSet(kill[h].snap) /\ Cancellable(m) /\ rec'[m] = Rec("acked", None)

LEMMA ReleaseRecs ==
  ASSUME Inv, NEW h \in Handle, NEW n, ReleaseClaim(h, n), NEW m \in Msg, rec'[m] # rec[m]
  PROVE  m = n /\ Claims(h, m) /\ rec'[m] = Rec("pending", None)
  BY DEF Inv, Shapes, TypeOK, ReleaseClaim

LEMMA RecSteps ==
  ASSUME Inv, [Next]_vars, NEW m \in Msg, rec'[m] # rec[m]
  PROVE  \/ Admitted(m) \/ Recovered(m)
         \/ \E h \in Handle : Taken(h, m) \/ GivenBack(h, m) \/ CommittedBy(h, m) \/ CancelledBy(h, m)
<1> USE DEF Inv
<1>1. CASE Admit
  <2>1. NextAdmittedSeq \in Msg /\ rec[NextAdmittedSeq].status = "none"
    BY <1>1, NextIsNew DEF Admit
  <2>2. rec' = [rec EXCEPT ![NextAdmittedSeq] = Rec("pending", None)]
    BY <1>1 DEF Admit
  <2>3. m = NextAdmittedSeq /\ rec'[m] = Rec("pending", None)
    BY <2>1, <2>2 DEF Shapes, TypeOK
  <2>4. QED
    BY <1>1, <2>1, <2>3 DEF Admitted
<1>2. ASSUME NEW h \in Handle, ClaimNext(h)
      PROVE  Taken(h, m)
  <2>1. rec' = IF Chosen = 0 THEN rec ELSE [rec EXCEPT ![Chosen] = Rec("claiming", h)]
    BY <1>2, ClaimTurns
  <2>2. m = Chosen /\ Chosen # 0 /\ rec'[m] = Rec("claiming", h)
    BY <2>1 DEF Shapes, TypeOK
  <2>3. m \in Pending
    BY <2>2, ChosenFirst
  <2>4. QED
    BY <1>2, <2>2, <2>3 DEF Taken, Pending
<1>3. ASSUME NEW h \in Handle, Unclaim(h) \/ Release(h) \/ FailTurn(h)
      PROVE  GivenBack(h, m)
  <2>1. ReleaseClaim(h, drain[h].msg)
    BY <1>3 DEF Unclaim, Release, FailTurn
  <2>2. QED
    BY <1>3, <2>1, ReleaseRecs DEF GivenBack
<1>4. ASSUME NEW h \in Handle, CommitInput(h)
      PROVE  CommittedBy(h, m)
  <2>1. /\ thread[h] = "fresh" /\ Claims(h, drain[h].msg)
        /\ rec' = [rec EXCEPT ![drain[h].msg] = Rec("acked", None)]
    BY <1>4 DEF CommitInput, Acknowledge
  <2>2. QED
    BY <1>4, <2>1 DEF CommittedBy, Shapes, TypeOK
<1>5. ASSUME NEW h \in Handle, Teardown(h)
      PROVE  CancelledBy(h, m)
  <2>1. PICK phase : Cancels(h, phase)
    BY <1>5, FirstTears, SecondTears DEF Teardown, KillAdmissions, KillReopens
  <2>2. QED
    BY <1>5, <2>1 DEF Cancels, CancelledBy
<1>6. CASE FlightLands
  BY <1>6 DEF FlightLands, Recovered
<1>7. ASSUME NEW h \in Handle, Working(h)
      PROVE  Taken(h, m) \/ GivenBack(h, m) \/ CommittedBy(h, m)
  <2>1. CASE ClaimNext(h) \/ Unclaim(h) \/ Release(h) \/ FailTurn(h) \/ CommitInput(h)
    BY <1>2, <1>3, <1>4, <2>1
  <2>2. CASE ~(ClaimNext(h) \/ Unclaim(h) \/ Release(h) \/ FailTurn(h) \/ CommitInput(h))
    BY <1>7, <2>2 DEF Working, DrainReady, DrainLoop, Drop, StartTurn, Abandon, Fails, DrainThrows, TurnFails, SettleRefused, Settle, SettleTurn,
       SettleFailed, FinishTurn
  <2>3. QED
    BY <2>1, <2>2
<1>8. ASSUME NEW g \in Handle,
             \/ DrainOwn(g) \/ DrainRecover(g) \/ RestartReleased(g) \/ DrainExit(g) \/ DrainSettled(g)
             \/ Send(g) \/ Load(g) \/ Interrupt(g) \/ Kill(g) \/ \E n \in Msg : Resume(g, n)
      PROVE  FALSE
  BY <1>8 DEF DrainOwn, DrainRecover, RestartReleased, DrainExit, DrainSettled, Send, Join, Load,
     Interrupt, Kill, Resume
<1>9. CASE BeginCall \/ AdmitChecks \/ Push \/ HandOff \/ Crash \/ UNCHANGED vars
  BY <1>9 DEF BeginCall, AdmitChecks, Push, HandOff, Crash
<1>10. QED
  BY <1>1, <1>5, <1>6, <1>7, <1>8, <1>9, Steps

\* The ways a run changes.
RunAdmitted(m) == Admit /\ m = NextAdmittedSeq /\ run[m] = "none" /\ run'[m] = "queued"
RunHanded(m) == HandOff /\ m = Line.msg /\ run[m] = "stranded" /\ run'[m] = "queued"
RunCancelled(h, m) ==
  /\ run[m] = "queued" /\ run'[m] = "cancelled"
  /\ \/ Drop(h) /\ m = drain[h].head
     \/ FinishTurn(h) /\ m \in ToSet(queue[h])
     \/ Teardown(h) /\ m \in ToSet(kill[h].snap)
RunStarted(h, m) == StartTurn(h) /\ m = drain[h].msg /\ run[m] = "queued" /\ run'[m] = "running"
RunEnded(h, m) ==
  /\ Abandon(h) \/ SettleTurn(h) \/ Settles(h)
  /\ m = drain[h].msg /\ run[m] = "running" /\ run'[m] \in Terminal
RunLost(m) ==
  /\ run[m] = "running" /\ run'[m] = "stranded"
  /\ Crash \/ \E h \in Handle : Settles(h) /\ m = drain[h].msg

LEMMA RunSteps ==
  ASSUME Inv, [Next]_vars, NEW m \in Msg, run'[m] # run[m]
  PROVE  \/ RunAdmitted(m) \/ RunHanded(m) \/ RunLost(m)
         \/ \E h \in Handle : RunCancelled(h, m) \/ RunStarted(h, m) \/ RunEnded(h, m)
<1> USE DEF Inv
<1>1. CASE Admit
  <2>1. NextAdmittedSeq \in Msg /\ rec[NextAdmittedSeq].status = "none"
    BY <1>1, NextIsNew DEF Admit
  <2>2. run' = [run EXCEPT ![NextAdmittedSeq] = "queued"]
    BY <1>1 DEF Admit
  <2>3. m = NextAdmittedSeq /\ run'[m] = "queued"
    BY <2>1, <2>2 DEF Shapes, TypeOK
  <2>4. run[m] = "none"
    BY <2>1, <2>3 DEF Run
  <2>5. QED
    BY <1>1, <2>3, <2>4 DEF RunAdmitted
<1>2. CASE HandOff
  <2>1. run' = [run EXCEPT ![Line.msg] = "queued"] /\ calls # <<>> /\ Line.msg # 0 /\ Line.step = "admit"
    BY <1>2 DEF HandOff, InLine
  <2>2. run[Line.msg] = "stranded"
    BY <2>1, LineHeads DEF Lined
  <2>3. QED
    BY <1>2, <2>1, <2>2 DEF RunHanded, Shapes, TypeOK
<1>3. ASSUME NEW h \in Handle, Working(h)
      PROVE  RunCancelled(h, m) \/ RunStarted(h, m) \/ RunEnded(h, m) \/ RunLost(m)
  <2>1. CASE Drop(h)
    BY <2>1 DEF Drop, Cancelled, RunCancelled
  <2>2. CASE FinishTurn(h)
    BY <2>2 DEF FinishTurn, Cancelled, RunCancelled
  <2>3. CASE ~Drop(h) /\ ~FinishTurn(h)
    BY <1>3, <2>3, WorkRuns DEF RunStarted, RunEnded, RunLost
  <2>4. QED
    BY <2>1, <2>2, <2>3
<1>4. ASSUME NEW h \in Handle, Teardown(h)
      PROVE  RunCancelled(h, m)
  BY <1>4, TeardownRuns DEF RunCancelled
<1>5. CASE Crash
  BY <1>5 DEF Crash, RunLost
<1>6. ASSUME NEW g \in Handle,
             \/ DrainOwn(g) \/ DrainRecover(g) \/ RestartReleased(g) \/ DrainExit(g) \/ DrainSettled(g)
             \/ Send(g) \/ Load(g) \/ Interrupt(g) \/ Kill(g) \/ \E n \in Msg : Resume(g, n)
      PROVE  FALSE
  BY <1>6 DEF DrainOwn, DrainRecover, RestartReleased, DrainExit, DrainSettled, Send, Join, Load,
     Interrupt, Kill, Resume
<1>7. CASE BeginCall \/ AdmitChecks \/ Push \/ FlightLands \/ UNCHANGED vars
  BY <1>7 DEF BeginCall, AdmitChecks, Push, FlightLands
<1>8. QED
  BY <1>1, <1>2, <1>3, <1>4, <1>5, <1>6, <1>7, Steps

\* While a handle works, no other is in a pass.
LEMMA NotOutside ==
  ASSUME Inv, NEW h \in Handle, Working(h), NEW g \in Handle, g # h
  PROVE  drain[g].pc \in Outside /\ drain'[g] = drain[g]
  BY WorkTurns DEF Inv, Owned, Turned

\* Outside its pass, or at its end, is where a drain changes by other steps.
LEMMA LeavesPass ==
  ASSUME Inv, [Next]_vars, ~Crash, NEW h \in Handle, ~Working(h), drain'[h].pc # drain[h].pc
  PROVE  At(h, "exit") \/ At(h, "wait") \/ At(h, "left") \/ At(h, "idle")
<1> USE DEF Inv
<1>1. ASSUME NEW g \in Handle, DrainOwn(g) \/ DrainExit(g)
      PROVE  At(h, "wait") \/ At(h, "exit")
  <2>1. h = g
    BY <1>1, GotoTurns DEF DrainOwn, DrainExit, Stages, Turned
  <2>2. QED
    BY <1>1, <2>1 DEF DrainOwn, DrainExit
<1>2. ASSUME NEW g \in Handle, DrainSettled(g)
      PROVE  At(h, "left")
  BY <1>2, SettledTurns DEF Turned
<1>3. ASSUME NEW g \in Handle, Interrupt(g) \/ Kill(g)
      PROVE  FALSE
  BY <1>3, AbortTurns DEF Interrupt, Kill, Turned
<1>4. ASSUME NEW g \in Handle, Requests(g)
      PROVE  At(h, "idle")
  BY <1>4, RequestTurns DEF Turned
<1>5. ASSUME NEW g \in Handle, RestartReleased(g)
      PROVE  At(h, "idle")
  BY <1>4, <1>5, RestartRequests
<1>6. CASE Push \/ HandOff
  <2>1. Line.h \in Handle /\ (Requests(Line.h) \/ drain' = drain)
    BY <1>6, LineHeads, PushRequests, HandOffRequests DEF Push, HandOff, InLine
  <2>2. QED
    BY <1>4, <2>1
<1>7. ASSUME NEW g \in Handle,
             DrainRecover(g) \/ Send(g) \/ Load(g) \/ Teardown(g) \/ \E m \in Msg : Resume(g, m)
      PROVE  drain' = drain
  BY <1>7 DEF DrainRecover, Send, Join, Load, Teardown, KillFirst, KillSecond, KillAdmissions,
     KillReopens, Resume
<1>8. CASE BeginCall \/ AdmitChecks \/ Admit \/ FlightLands \/ UNCHANGED vars
  BY <1>8 DEF BeginCall, AdmitChecks, Admit, FlightLands
<1>9. ASSUME NEW g \in Handle, Working(g)
      PROVE  FALSE
  BY <1>9, NotOutside
<1>10. QED
  BY <1>1, <1>2, <1>3, <1>5, <1>6, <1>7, <1>8, <1>9, Steps

-----------------------------------------------------------------------------
(* The messages admitted are the first ones *)

LEMMA NoneKept ==
  ASSUME Inv, [Next]_vars, ~Admit, NEW m \in Msg
  PROVE  rec'[m].status = "none" <=> rec[m].status = "none"
<1>1. CASE rec'[m] = rec[m]
  BY <1>1
<1>2. CASE rec'[m] # rec[m]
  <2>1. \A status, claim : Rec(status, claim).status = status
    BY DEF Rec
  <2>2. \/ Recovered(m)
        \/ \E h \in Handle : Taken(h, m) \/ GivenBack(h, m) \/ CommittedBy(h, m) \/ CancelledBy(h, m)
    BY <1>2, RecSteps DEF Admitted
  <2>3. Recovered(m) => rec[m].status # "none" /\ rec'[m].status # "none"
    BY <2>1 DEF Recovered
  <2>4. \A h \in Handle : Taken(h, m) \/ GivenBack(h, m) \/ CommittedBy(h, m) \/ CancelledBy(h, m) =>
          rec[m].status # "none" /\ rec'[m].status # "none"
    BY <2>1 DEF Taken, GivenBack, CommittedBy, CancelledBy, Claims, Cancellable
  <2>5. QED
    BY <2>2, <2>3, <2>4
<1>3. QED
  BY <1>1, <1>2

\* The sends in line, against those made.
Pays == Cardinality(Sends(calls')) + used.sends <= Cardinality(Sends(calls)) + used'.sends

LEMMA UsedKept ==
  ASSUME Inv, [Next]_vars
  PROVE  /\ used'.sends = used.sends \/ (used'.sends = used.sends + 1 /\ \E h \in Handle : Send(h))
         /\ used.sends \in Nat
<1> USE DEF Inv
<1>1. used.sends \in Nat /\ DOMAIN used = {"sends", "crashes", "failures", "kills", "interrupts", "resumes"}
  BY ConstantsOK DEF Shapes
<1>2. ASSUME NEW kind \in {"crashes", "failures", "kills", "interrupts", "resumes"}, NEW max, Happens(kind, max)
      PROVE  used'.sends = used.sends
  BY <1>1, <1>2 DEF Happens
<1>3. ASSUME NEW h \in Handle, Send(h)
      PROVE  used'.sends = used.sends + 1
  BY <1>1, <1>3 DEF Send, Happens
<1>4. ASSUME NEW h \in Handle, Fails(h) \/ Interrupt(h) \/ Kill(h) \/ \E m \in Msg : Resume(h, m)
      PROVE  used'.sends = used.sends
  BY <1>2, <1>4 DEF Fails, DrainThrows, TurnFails, SettleRefused, Settle, Interrupt, Kill, Resume
<1>5. CASE Crash
  BY <1>1, <1>2, <1>5 DEF Crash
<1>6. ASSUME NEW h \in Handle, Working(h), ~Fails(h)
      PROVE  used' = used
  BY <1>6 DEF Working, DrainReady, DrainLoop, ClaimNext, Unclaim, Drop, StartTurn, Abandon, Release,
     CommitInput, FailTurn, SettleTurn, SettleFailed, FinishTurn
<1>7. ASSUME NEW g \in Handle,
             \/ DrainOwn(g) \/ DrainRecover(g) \/ RestartReleased(g) \/ DrainExit(g) \/ DrainSettled(g)
             \/ Load(g) \/ Teardown(g)
      PROVE  used' = used
  BY <1>7 DEF DrainOwn, DrainRecover, RestartReleased, DrainExit, DrainSettled, Load,
     Teardown, KillFirst, KillSecond, KillAdmissions, KillReopens
<1>8. CASE BeginCall \/ AdmitChecks \/ Admit \/ Push \/ HandOff \/ FlightLands \/ UNCHANGED vars
  BY <1>1, <1>8 DEF BeginCall, AdmitChecks, Admit, Push, HandOff, FlightLands
<1>9. QED
  BY <1>1, <1>3, <1>4, <1>5, <1>6, <1>7, <1>8, Steps

LEMMA LinePays ==
  ASSUME Inv, [Next]_vars, ~Admit
  PROVE  Pays
<1> USE DEF Inv
<1>1. calls \in Seq(Calls) /\ Cardinality(Sends(calls)) \in Nat
  BY SendsFinite DEF Shapes
<1>2. used.sends \in Nat /\ (used'.sends = used.sends \/ used'.sends = used.sends + 1)
  BY UsedKept
<1>3. CASE calls' = calls
  BY <1>1, <1>2, <1>3 DEF Pays
<1>4. CASE calls # <<>> /\ Leave
  <2>1. Cardinality(Sends(calls')) <= Cardinality(Sends(calls))
    BY <1>1, <1>4, SendsLeave DEF Leave
  <2>2. Cardinality(Sends(calls')) \in Nat
    BY <1>1, <1>4, LineLeaves, SendsFinite
  <2>3. QED
    BY <1>1, <1>2, <2>1, <2>2 DEF Pays
<1>5. ASSUME calls # <<>>, NEW step \in {"recover", "admit"}, Step(step)
      PROVE  Pays
  <2>1. calls' \in Seq(Calls) /\ DOMAIN calls' = DOMAIN calls /\ calls'[1].msg = calls[1].msg
        /\ \A i \in DOMAIN calls \ {1} : calls'[i] = calls[i]
    BY <1>5, LineSteps, LineHeads
  <2>2. Sends(calls') = Sends(calls)
    BY <1>1, <1>5, <2>1, SendsSame
  <2>3. QED
    BY <1>1, <1>2, <2>2 DEF Pays
<1>6. ASSUME NEW h \in Handle, NEW m \in 0..MaxSends, Join(h, m), m = 0 => used'.sends = used.sends + 1
      PROVE  Pays
  <2> DEFINE n == Len(calls) + 1
             c == [h |-> h, step |-> "begin", msg |-> m]
  <2>1. calls' \in Seq(Calls) /\ DOMAIN calls' = DOMAIN calls \cup {n} /\ n \notin DOMAIN calls
        /\ \A i \in DOMAIN calls : calls'[i] = calls[i]
    BY <1>6, LineJoins
  <2>2. calls'[n] = c /\ c.msg = m
    <3>1. calls'[Len(calls) + 1] = [h |-> h, step |-> "begin", msg |-> m]
      BY <1>6, LineJoins
    <3>2. QED
      BY <3>1
  <2> HIDE DEF n, c
  <2>3. /\ Cardinality(Sends(calls')) <= Cardinality(Sends(calls)) + 1
        /\ m # 0 => Sends(calls') = Sends(calls)
    BY <1>1, <2>1, <2>2, SendsJoin
  <2>4. Cardinality(Sends(calls')) \in Nat
    BY <2>1, SendsFinite
  <2>5. QED
    BY <1>1, <1>2, <1>6, <2>3, <2>4 DEF Pays
<1>7. CASE Crash
  <2>1. calls' = <<>>
    BY <1>7 DEF Crash
  <2>2. Sends(calls') = {}
    BY <2>1 DEF Sends
  <2>3. Cardinality(Sends(calls')) = 0
    BY <2>2, FS_EmptySet
  <2>4. QED
    BY <1>1, <1>2, <2>3 DEF Pays
<1>8. ASSUME NEW h \in Handle, Send(h)
      PROVE  Pays
  <2>1. used'.sends = used.sends + 1 /\ Join(h, 0) /\ 0 \in 0..MaxSends
    BY <1>8, ConstantsOK DEF Send, Happens, Shapes
  <2>2. QED
    BY <1>6, <2>1
<1>9. ASSUME NEW h \in Handle, NEW m \in Msg, Resume(h, m)
      PROVE  Pays
  <2>1. Join(h, m) /\ m \in 0..MaxSends /\ m # 0
    BY <1>9, ConstantsOK DEF Resume
  <2>2. QED
    BY <1>6, <2>1
<1>10. CASE BeginCall \/ AdmitChecks
  BY <1>4, <1>5, <1>10 DEF BeginCall, AdmitChecks, InLine
<1>11. CASE Push \/ HandOff
  BY <1>4, <1>11 DEF Push, HandOff, InLine
<1>12. ASSUME NEW g \in Handle,
             \/ DrainOwn(g) \/ DrainRecover(g) \/ RestartReleased(g) \/ DrainExit(g) \/ DrainSettled(g)
             \/ Load(g) \/ Teardown(g) \/ Interrupt(g) \/ Kill(g)
      PROVE  calls' = calls
  BY <1>12 DEF DrainOwn, DrainRecover, RestartReleased, DrainExit, DrainSettled, Load,
     Teardown, KillFirst, KillSecond, KillAdmissions, KillReopens, Interrupt, Kill
<1>13. ASSUME NEW h \in Handle, Working(h)
       PROVE  calls' = calls
  BY <1>13, WorkGrows
<1>14. CASE FlightLands \/ UNCHANGED vars
  BY <1>3, <1>14 DEF FlightLands
<1>15. QED
  BY <1>3, <1>7, <1>8, <1>9, <1>10, <1>11, <1>12, <1>13, <1>14, Steps

LEMMA StepCounted == Inv /\ [Next]_vars => Counted'
<1> SUFFICES ASSUME Inv, [Next]_vars
             PROVE  Counted'
  OBVIOUS
<1> USE DEF Inv
<1>1. PICK k \in 0..MaxSends : /\ \A m \in Msg : rec[m].status # "none" <=> m <= k
                               /\ k + Cardinality(Sends(calls)) <= used.sends
  BY DEF Counted
<1>2. calls \in Seq(Calls) /\ Cardinality(Sends(calls)) \in Nat /\ calls' \in Seq(Calls)
      /\ Cardinality(Sends(calls')) \in Nat
  <2>1. calls \in Seq(Calls) /\ calls' \in Seq(Calls)
    BY StepShapes DEF Shapes
  <2>2. QED
    BY <2>1, SendsFinite
<1>3. used.sends \in Nat /\ (used'.sends = used.sends \/ used'.sends = used.sends + 1)
  BY UsedKept
<1>4. k \in Nat
  BY <1>1, ConstantsOK
<1>5. CASE ~Admit
  <2>1. \A m \in Msg : rec'[m].status # "none" <=> m <= k
    BY <1>1, <1>5, NoneKept
  <2>2. k + Cardinality(Sends(calls')) <= used'.sends
    BY <1>1, <1>2, <1>3, <1>4, <1>5, LinePays DEF Pays
  <2>3. QED
    BY <1>1, <2>1, <2>2 DEF Counted
<1>6. CASE Admit
  <2> DEFINE s == NextAdmittedSeq
             c == [h |-> Line.h, step |-> "push", msg |-> s]
  <2>1. InLine("admit") /\ Line.msg = 0 /\ used' = used /\ calls # <<>>
        /\ calls' = <<c>> \o Tail(calls) /\ rec' = [rec EXCEPT ![s] = Rec("pending", None)]
    BY <1>6 DEF Admit, InLine
  <2>2. /\ s \in Msg /\ s # 0 /\ s \in 0..MaxSends /\ s \in Nat
        /\ \A m \in Msg : rec[m].status # "none" <=> m < s
        /\ s + Cardinality(Sends(calls)) <= used.sends + 1
    BY <2>1, NextIsNew, ConstantsOK
  <2> HIDE DEF s
  <2>3. c \in Calls /\ c.msg = s
    BY <2>1, <2>2, LineHeads DEF Calls
  <2> HIDE DEF c
  <2>4. Cardinality(Sends(calls')) + 1 = Cardinality(Sends(calls))
    BY <1>2, <2>1, <2>2, <2>3, LineReplaces, LineHeads, SendsAdmitted
  <2>5. \A m \in Msg : rec'[m].status # "none" <=> m <= s
    <3>1. \A m \in Msg : m \in Nat /\ (m = s => rec'[m].status = "pending") /\ (m # s => rec'[m] = rec[m])
      BY <2>1, ConstantsOK DEF Shapes, TypeOK, Rec
    <3>2. QED
      BY <2>2, <3>1
  <2>6. s + Cardinality(Sends(calls')) <= used'.sends
    BY <1>2, <1>3, <2>1, <2>2, <2>4
  <2>7. QED
    BY <2>2, <2>5, <2>6 DEF Counted
<1>7. QED
  BY <1>5, <1>6

-----------------------------------------------------------------------------
(* Records and runs *)

LEMMA StepRun == Inv /\ [Next]_vars => Run'
<1> SUFFICES ASSUME Inv, [Next]_vars
             PROVE  Run'
  OBVIOUS
<1> USE DEF Inv
<1>1. ASSUME NEW m \in Msg
      PROVE  run'[m] = "none" <=> rec'[m].status = "none"
  <2>1. CASE ~Admit
    <3>1. rec'[m].status = "none" <=> rec[m].status = "none"
      BY <2>1, NoneKept
    <3>2. run'[m] = "none" <=> run[m] = "none"
      BY <2>1, RunSteps DEF RunAdmitted, RunHanded, RunLost, RunCancelled, RunStarted, RunEnded, Terminal
    <3>3. QED
      BY <3>1, <3>2 DEF Run
  <2>2. CASE Admit
    <3>1. NextAdmittedSeq \in Msg
      BY <2>2, NextIsNew DEF Admit
    <3>2. /\ m = NextAdmittedSeq => rec'[m].status = "pending" /\ run'[m] = "queued"
          /\ m # NextAdmittedSeq => rec'[m] = rec[m] /\ run'[m] = run[m]
      BY <2>2, <3>1 DEF Admit, Shapes, TypeOK, Rec
    <3>3. QED
      BY <3>2 DEF Run
  <2>3. QED
    BY <2>1, <2>2
<1>2. ASSUME NEW g \in Handle, drain'[g].pc \in Started
      PROVE  run'[drain'[g].msg] = "running"
  <2>1. CASE \E h \in Handle : Working(h)
    <3>1. PICK h \in Handle : Working(h)
      BY <2>1
    <3>2. g = h
      BY <1>2, <3>1, WorkTurns, NotOutside DEF Turned, Started, Outside
    <3>3. drain[h].msg \in 0..MaxSends /\ (drain[h].pc \in InTurn => drain[h].msg \in Msg)
      BY DrainFields, ConstantsOK DEF Shapes, DrainShapes
    <3>4. CASE StartTurn(h)
      <4>1. drain[h].msg \in Msg
        BY <3>3, <3>4 DEF StartTurn, At, InTurn
      <4>2. drain'[h].msg = drain[h].msg /\ (drain'[h].pc = "release" \/ run' = [run EXCEPT ![drain[h].msg] = "running"])
        BY <3>4, StartTurns DEF Turned
      <4>3. run' = [run EXCEPT ![drain[h].msg] = "running"]
        BY <1>2, <3>2, <4>2 DEF Started
      <4>4. QED
        BY <3>2, <4>1, <4>2, <4>3 DEF Shapes, TypeOK
    <3>5. CASE CommitInput(h) \/ FailTurn(h) \/ (TurnFails(h) /\ ~At(h, "start"))
      <4>1. run' = run /\ drain[h].pc \in Started
        BY <3>5 DEF CommitInput, FailTurn, TurnFails, At, Started
      <4>2. drain'[h].msg = drain[h].msg
        BY <3>5, FailTurns, GotoTurns, TurnFailsTurns DEF CommitInput, Turned, Stages, InTurn
      <4>3. QED
        BY <3>2, <4>1, <4>2 DEF Run
    <3>6. CASE SettleTurn(h) /\ Goto(h, "settle")
      <4>1. run' = run /\ drain[h].pc \in Started
        <5>1. drain'[h].pc = "settle"
          BY <3>6, GotoTurns DEF Stages, InTurn, Turned
        <5>2. ~End(h, "processed")
          BY <5>1, EndTurns DEF Turned, Outcomes
        <5>3. QED
          BY <3>6, <5>2 DEF SettleTurn, At, Started
      <4>2. drain'[h].msg = drain[h].msg
        BY <3>6, GotoTurns DEF Turned, Stages, InTurn
      <4>3. QED
        BY <3>2, <4>1, <4>2 DEF Run
    <3>7. CASE SettleTurn(h) /\ End(h, "processed")
      BY <1>2, <3>2, <3>7, EndTurns DEF Turned, Started, Outcomes
    <3>8. CASE Settles(h) \/ DrainThrows(h) \/ (TurnFails(h) /\ At(h, "start"))
      <4>1. drain'[h].pc \in {"finish", "exit", "release"}
        BY <3>8, SettleEnds, ThrowTurns, TurnFailsTurns DEF Turned, At
      <4>2. QED
        BY <1>2, <3>2, <4>1 DEF Started
    <3>9. CASE DrainReady(h) \/ DrainLoop(h) \/ ClaimNext(h) \/ FinishTurn(h)
      <4>1. drain'[h].pc \in {"loop", "exit", "claim", AfterClaim(h)}
        BY <3>9, ReadyTurns, LoopTurns, ClaimTurns, FinishTurns DEF Turned
      <4>2. AfterClaim(h) \in {"exit", "drop", "unclaim", "start"}
        BY DEF AfterClaim
      <4>3. QED
        BY <1>2, <3>2, <4>1, <4>2 DEF Started
    <3>10. CASE Unclaim(h) \/ Drop(h) \/ Abandon(h) \/ Release(h)
      <4>1. PICK stage \in {"exit", "loop", "release", "finish"} : Goto(h, stage)
        BY <3>10 DEF Unclaim, Drop, Abandon, Release
      <4>2. QED
        BY <1>2, <3>2, <4>1, GotoTurns DEF Turned, Started, Stages, InTurn
    <3>11. SettleTurn(h) => Goto(h, "settle") \/ End(h, "processed")
      BY DEF SettleTurn
    <3>12. QED
      BY <3>1, <3>4, <3>5, <3>6, <3>7, <3>8, <3>9, <3>10, <3>11 DEF Working, Fails, Settles
  <2>2. CASE ~(\E h \in Handle : Working(h))
    <3>1. drain'[g].msg = drain[g].msg /\ drain[g].pc \in Started
      BY <1>2, <2>2, StepTurns DEF Rests, Started, Outside
    <3>2. ~Crash
      <4>1. Crash => drain'[g] = NoDrain
        BY DEF Crash
      <4>2. QED
        BY <1>2, <4>1 DEF NoDrain, Started
    <3>3. run[drain[g].msg] = "running" /\ drain[g].msg \in Msg
      BY <3>1, DrainFields, ConstantsOK DEF Run, Shapes, DrainShapes, Started, InTurn
    <3>4. run'[drain[g].msg] = "running"
      BY <2>2, <3>2, <3>3, RunSteps DEF RunAdmitted, RunHanded, RunLost, RunCancelled, RunStarted, RunEnded,
         Working, Fails, Settles
    <3>5. QED
      BY <3>1, <3>4
  <2>3. QED
    BY <2>1, <2>2
<1>3. QED
  BY <1>1, <1>2 DEF Run

-----------------------------------------------------------------------------
(* Claims *)

LEMMA Status == \A status, claim : Rec(status, claim).status = status /\ Rec(status, claim).claim = claim
  BY DEF Rec

\* While a drain past its recovery holds no claim, no record is claimed.
LEMMA NoClaims ==
  ASSUME Inv, NEW h \in Handle, drain[h].pc \notin Outside \cup {"recover"} \cup Claiming, NEW m \in Msg
  PROVE  rec[m].status # "claiming"
<1> USE DEF Inv
<1>1. rcv[h] = "recovered" /\ own = h
  BY DEF Claimed, Owned
<1>2. \A g \in Handle : drain[g].pc \in Claiming => own = g
  BY DEF Owned, Claiming, Outside
<1>3. QED
  BY <1>1, <1>2 DEF Claimed

\* A drain keeps what it has claimed until the record is given back or acknowledged.
LEMMA ClaimKept ==
  ASSUME Inv, NEW h \in Handle, Working(h), drain[h].pc \in Claiming, Claims(h, drain[h].msg),
         drain[h].msg \in Msg
  PROVE  \/ rec'[drain[h].msg].status # "claiming"
         \/ drain'[h].pc \in Claiming /\ drain'[h].msg = drain[h].msg
<1> USE DEF Inv
<1>1. CASE Unclaim(h) \/ Release(h) \/ FailTurn(h)
  <2>1. rec' = [rec EXCEPT ![drain[h].msg] = Rec("pending", None)]
    BY <1>1 DEF Unclaim, Release, FailTurn, ReleaseClaim
  <2>2. QED
    BY <2>1, Status DEF Shapes, TypeOK
<1>2. CASE StartTurn(h)
  BY <1>2, StartTurns DEF Turned, Claiming
<1>3. CASE Abandon(h)
  BY <1>3, GotoTurns DEF Abandon, Turned, Claiming, Stages, InTurn
<1>4. CASE CommitInput(h)
  <2>1. CASE Acknowledge(drain[h].msg)
    BY <2>1, Status DEF Acknowledge, Shapes, TypeOK
  <2>2. CASE Goto(h, "fail")
    BY <2>2, GotoTurns DEF Turned, Claiming, Stages, InTurn
  <2>3. QED
    BY <1>4, <2>1, <2>2 DEF CommitInput
<1>5. CASE TurnFails(h)
  BY <1>5, TurnFailsTurns DEF Turned, Claiming, At
<1>6. QED
  BY <1>1, <1>2, <1>3, <1>4, <1>5 DEF Working, DrainReady, DrainLoop, ClaimNext, Drop, Fails, DrainThrows,
     SettleRefused, Settle, SettleTurn, SettleFailed, FinishTurn, At, Claiming

\* The recovery of a drain that gets to work is done.
LEMMA WorkRecovered ==
  ASSUME Inv, NEW h \in Handle, Working(h)
  PROVE  rcv[h] = "recovered" /\ rcv' = rcv
<1>1. rcv' = rcv
  BY DEF Working, DrainReady, DrainLoop, ClaimNext, Unclaim, Drop, StartTurn, Abandon, Release,
     CommitInput, FailTurn, Fails, DrainThrows, TurnFails, SettleRefused, Settle, SettleTurn, SettleFailed, FinishTurn
<1>2. rcv[h] = "recovered"
  <2>1. CASE DrainReady(h) \/ (DrainThrows(h) /\ At(h, "recover"))
    BY <2>1 DEF DrainReady, DrainThrows, At
  <2>2. CASE ~DrainReady(h) /\ ~(DrainThrows(h) /\ At(h, "recover"))
    <3>1. drain[h].pc \notin Outside \cup {"recover"}
      BY <2>2 DEF Working, DrainLoop, ClaimNext, Unclaim, Drop, StartTurn, Abandon, Release,
         CommitInput, FailTurn, Fails, DrainThrows, TurnFails, SettleRefused, Settle, SettleTurn, SettleFailed, FinishTurn, At, Outside
    <3>2. QED
      BY <3>1 DEF Inv, Claimed
  <2>3. QED
    BY <2>1, <2>2
<1>3. QED
  BY <1>1, <1>2

LEMMA StepRecovered ==
  ASSUME Inv, [Next]_vars, NEW g \in Handle, drain'[g].pc \notin Outside \cup {"recover"}
  PROVE  rcv'[g] = "recovered"
<1> USE DEF Inv
<1>1. CASE \E h \in Handle : Working(h)
  <2>1. PICK h \in Handle : Working(h)
    BY <1>1
  <2>2. g = h
    BY <2>1, NotOutside
  <2>3. QED
    BY <2>1, <2>2, WorkRecovered
<1>2. CASE ~(\E h \in Handle : Working(h))
  <2>1. drain[g].pc \notin Outside \cup {"recover"}
    BY <1>2, StepTurns DEF Rests
  <2>2. rcv[g] = "recovered"
    BY <2>1 DEF Claimed
  <2>3. ~Crash
    <3>1. Crash => drain'[g] = NoDrain
      BY DEF Crash
    <3>2. QED
      BY <3>1 DEF NoDrain, Outside
  <2>4. FlightLands => rcv'[g] = "recovered"
    BY <2>2 DEF FlightLands
  <2>5. QED
    BY <2>2, <2>3, <2>4, StepRcv
<1>3. QED
  BY <1>1, <1>2

LEMMA StepClaimed == Inv /\ [Next]_vars => Claimed'
<1> SUFFICES ASSUME Inv, [Next]_vars
             PROVE  Claimed'
  OBVIOUS
<1> USE DEF Inv
<1>1. ASSUME NEW m \in Msg, rec'[m].status = "claiming"
      PROVE  \/ \A h \in Handle : rcv'[h] # "recovered"
             \/ \E h \in Handle : drain'[h].pc \in Claiming /\ drain'[h].msg = m /\ rec'[m].claim = h
  <2>1. CASE rec'[m] # rec[m]
    <3>1. PICK h \in Handle : Taken(h, m)
      BY <1>1, <2>1, RecSteps, Status
         DEF Admitted, Recovered, GivenBack, CommittedBy, CancelledBy
    <3>2. rec'[m].claim = h /\ m = Chosen /\ m # 0
      BY <3>1, Status, ConstantsOK DEF Taken
    <3>3. drain'[h].pc = AfterClaim(h) /\ drain'[h].msg = m
      BY <3>1, <3>2, ClaimTurns DEF Taken, Turned
    <3>4. AfterClaim(h) \in Claiming
      BY <3>2 DEF AfterClaim, Claiming
    <3>5. QED
      BY <3>2, <3>3, <3>4
  <2>2. CASE rec'[m] = rec[m] /\ FlightLands
    BY <1>1, <2>2, Status DEF FlightLands
  <2>3. CASE rec'[m] = rec[m] /\ Crash
    BY <2>3 DEF Crash
  <2>4. CASE rec'[m] = rec[m] /\ ~FlightLands /\ ~Crash
    <3>1. CASE \A h \in Handle : rcv[h] # "recovered"
      BY <2>4, <3>1, StepRcv
    <3>2. CASE \E h \in Handle : drain[h].pc \in Claiming /\ drain[h].msg = m /\ rec[m].claim = h
      <4>1. PICK h \in Handle : drain[h].pc \in Claiming /\ drain[h].msg = m /\ rec[m].claim = h
        BY <3>2
      <4>2. CASE \E g \in Handle : Working(g)
        <5>1. Working(h)
          BY <4>1, <4>2, NotOutside DEF Claiming, Outside
        <5>2. QED
          BY <1>1, <2>4, <4>1, <5>1, ClaimKept DEF Claims
      <4>3. CASE ~(\E g \in Handle : Working(g))
        <5>1. Rests(h)
          BY <4>3, StepTurns
        <5>2. CASE drain'[h].pc = drain[h].pc /\ drain'[h].msg = drain[h].msg
          BY <2>4, <4>1, <5>2
        <5>3. CASE drain'[h].pc \in Outside \cup {"recover"} /\ drain'[h].pc # drain[h].pc
          <6>1. own = h /\ ~At(h, "exit") /\ ~At(h, "wait") /\ ~At(h, "left") /\ ~At(h, "idle")
            BY <4>1 DEF Owned, Claiming, Outside, At
          <6>2. FALSE
            BY <2>4, <4>3, <5>3, <6>1, LeavesPass
          <6>3. QED
            BY <6>2
        <5>4. QED
          BY <4>1, <5>1, <5>2, <5>3 DEF Rests, Claiming, Outside
      <4>4. QED
        BY <4>2, <4>3
    <3>3. QED
      BY <1>1, <2>4, <3>1, <3>2 DEF Claimed
  <2>5. QED
    BY <2>1, <2>2, <2>3, <2>4
<1>2. QED
  BY <1>1, StepRecovered DEF Claimed

-----------------------------------------------------------------------------
(* The history *)

LEMMA AckedStays ==
  ASSUME Inv, [Next]_vars, NEW m \in Msg, rec[m].status = "acked"
  PROVE  rec'[m] = rec[m]
<1>1. SUFFICES ASSUME rec'[m] # rec[m] PROVE FALSE
  OBVIOUS
<1>2. \A h \in Handle : ~(Taken(h, m) \/ GivenBack(h, m) \/ CommittedBy(h, m) \/ CancelledBy(h, m))
  BY DEF Taken, GivenBack, CommittedBy, CancelledBy, Claims, Cancellable
<1>3. ~Admitted(m) /\ ~Recovered(m)
  BY DEF Admitted, Recovered
<1>4. QED
  BY <1>1, <1>2, <1>3, RecSteps

\* A commit, by the drain that holds the claim of its input.
Commitment(h) ==
  /\ CommitInput(h) /\ drain[h].msg \in Msg /\ Claims(h, drain[h].msg)
  /\ hist' = Append(hist, drain[h].msg) /\ rec'[drain[h].msg].status = "acked"

LEMMA HistSteps ==
  ASSUME Inv, [Next]_vars
  PROVE  hist' = hist \/ \E h \in Handle : Commitment(h)
<1> USE DEF Inv
<1>1. ASSUME NEW h \in Handle, CommitInput(h), hist' # hist
      PROVE  Commitment(h)
  <2>1. Claims(h, drain[h].msg) /\ hist' = Append(hist, drain[h].msg) /\ Acknowledge(drain[h].msg)
    BY <1>1 DEF CommitInput
  <2>2. drain[h].msg \in Msg
    BY <1>1, DrainFields, ConstantsOK DEF CommitInput, At, InTurn, Shapes, DrainShapes
  <2>3. rec'[drain[h].msg].status = "acked"
    BY <2>1, <2>2, Status DEF Acknowledge, Shapes, TypeOK
  <2>4. QED
    BY <1>1, <2>1, <2>2, <2>3 DEF Commitment
<1>2. ASSUME NEW h \in Handle, Working(h), ~CommitInput(h)
      PROVE  hist' = hist
  BY <1>2 DEF Working, DrainReady, DrainLoop, ClaimNext, Unclaim, Drop, StartTurn, Abandon, Release,
     FailTurn, Fails, DrainThrows, TurnFails, SettleRefused, Settle, SettleTurn, SettleFailed, FinishTurn
<1>3. ASSUME NEW g \in Handle,
             \/ DrainOwn(g) \/ DrainRecover(g) \/ RestartReleased(g) \/ DrainExit(g) \/ DrainSettled(g)
             \/ Send(g) \/ Load(g) \/ Interrupt(g) \/ Kill(g) \/ Teardown(g) \/ \E n \in Msg : Resume(g, n)
      PROVE  hist' = hist
  BY <1>3 DEF DrainOwn, DrainRecover, RestartReleased, DrainExit, DrainSettled, Send, Join, Load,
     Interrupt, Kill, Resume, Teardown, KillFirst, KillSecond, KillAdmissions, KillReopens
<1>4. CASE BeginCall \/ AdmitChecks \/ Admit \/ Push \/ HandOff \/ FlightLands \/ Crash \/ UNCHANGED vars
  BY <1>4 DEF BeginCall, AdmitChecks, Admit, Push, HandOff, FlightLands, Crash
<1>5. QED
  BY <1>1, <1>2, <1>3, <1>4, Steps

LEMMA Grown ==
  ASSUME Inv, NEW h \in Handle, Commitment(h)
  PROVE  /\ DOMAIN hist' = DOMAIN hist \cup {Len(hist) + 1} /\ Len(hist) + 1 \notin DOMAIN hist
         /\ \A i \in DOMAIN hist : hist'[i] = hist[i] /\ hist[i] \in Msg /\ i < Len(hist) + 1
         /\ hist'[Len(hist) + 1] = drain[h].msg
         /\ ToSet(hist') = ToSet(hist) \cup {drain[h].msg}
<1>1. hist \in Seq(Msg) /\ drain[h].msg \in Msg /\ hist' = Append(hist, drain[h].msg)
  BY DEF Inv, Shapes, TypeOK, Commitment
<1>2. \A i \in DOMAIN hist : hist[i] \in Msg /\ i < Len(hist) + 1
  BY <1>1
<1>3. QED
  BY <1>1, <1>2, AppendSet

\* Terminal runs stay terminal.
LEMMA TerminalStays ==
  ASSUME Inv, [Next]_vars, NEW m \in Msg, run[m] \in Terminal
  PROVE  run'[m] = run[m]
  BY RunSteps DEF RunAdmitted, RunHanded, RunLost, RunCancelled, RunStarted, RunEnded, Terminal

LEMMA StepSettled == Inv /\ [Next]_vars => InputsSettleOnce'
<1> SUFFICES ASSUME Inv, [Next]_vars
             PROVE  InputsSettleOnce'
  OBVIOUS
<1> USE DEF Inv
<1>1. ASSUME NEW m \in Msg, m \in ToSet(hist')
      PROVE  rec'[m].status = "acked"
  <2>1. m \in ToSet(hist) => rec'[m].status = "acked"
    BY AckedStays DEF InputsSettleOnce
  <2>2. ASSUME NEW h \in Handle, Commitment(h)
        PROVE  rec'[m].status = "acked"
    BY <1>1, <2>1, <2>2, Grown DEF Commitment
  <2>3. QED
    BY <1>1, <2>1, <2>2, HistSteps
<1>2. ASSUME NEW m \in Msg, m \notin ToSet(hist'), rec'[m].status = "acked"
      PROVE  run'[m] \in Terminal
  <2>1. m \notin ToSet(hist)
    BY <1>2, HistSteps, Grown
  <2>2. CASE rec'[m] = rec[m]
    BY <1>2, <2>1, <2>2, TerminalStays DEF InputsSettleOnce
  <2>3. CASE rec'[m] # rec[m]
    <3>1. PICK h \in Handle : CommittedBy(h, m) \/ CancelledBy(h, m)
      BY <1>2, <2>3, RecSteps, Status DEF Admitted, Recovered, Taken, GivenBack
    <3>2. ~CommittedBy(h, m)
      <4>1. SUFFICES ASSUME CommittedBy(h, m) PROVE FALSE
        OBVIOUS
      <4>2. /\ CommitInput(h) /\ thread[h] = "fresh" /\ m = drain[h].msg /\ Claims(h, m)
            /\ rec'[m].status = "acked"
        BY <4>1, Status DEF CommittedBy
      <4>3. hist' = Append(hist, m)
        BY <4>2 DEF CommitInput
      <4>4. Commitment(h)
        BY <4>2, <4>3 DEF Commitment
      <4>5. QED
        BY <1>2, <4>2, <4>4, Grown
    <3>3. Teardown(h) /\ m \in ToSet(kill[h].snap) /\ Cancellable(m)
      BY <3>1, <3>2 DEF CancelledBy
    <3>4. PICK phase : Cancels(h, phase)
      <4>1. rec' # rec
        BY <2>3
      <4>2. QED
        BY <3>3, <4>1, FirstTears, SecondTears DEF Teardown, KillAdmissions, KillReopens
    <3>5. run'[m] = IF run[m] = "queued" THEN "cancelled" ELSE run[m]
      BY <3>3, <3>4 DEF Cancels, Cancelled
    <3>6. run[m] \in {"none", "queued", "running", "stranded"} \cup Terminal /\ run[m] # "none"
      BY <3>3 DEF Shapes, TypeOK, Run, Cancellable
    <3>7. QED
      BY <3>3, <3>5, <3>6 DEF Cancellable, Terminal
  <2>4. QED
    BY <2>2, <2>3
<1>3. \A i, j \in DOMAIN hist' : hist'[i] = hist'[j] => i = j
  <2>1. ASSUME NEW h \in Handle, Commitment(h)
        PROVE  \A i, j \in DOMAIN hist' : hist'[i] = hist'[j] => i = j
    <3>1. drain[h].msg \notin ToSet(hist)
      BY <2>1 DEF Commitment, Claims, InputsSettleOnce
    <3>2. QED
      BY <2>1, <3>1, Grown, InSet DEF InputsSettleOnce
  <2>2. QED
    BY <2>1, HistSteps DEF InputsSettleOnce
<1>4. QED
  BY <1>1, <1>2, <1>3 DEF InputsSettleOnce

LEMMA StepOrder == Inv /\ [Next]_vars => AdmissionOrder'
<1> SUFFICES ASSUME Inv, [Next]_vars
             PROVE  AdmissionOrder'
  OBVIOUS
<1> USE DEF Inv
<1>1. ASSUME NEW h \in Handle, Commitment(h)
      PROVE  AdmissionOrder'
  <2>1. drain[h].msg \in Msg /\ rec[drain[h].msg].status # "acked"
    BY <1>1 DEF Commitment, Claims
  <2>2. \A i \in DOMAIN hist : hist[i] \in Msg /\ rec[hist[i]].status = "acked"
    BY <1>1, Grown, InSet DEF InputsSettleOnce
  <2>3. \A i \in DOMAIN hist : hist[i] < drain[h].msg
    BY <2>1, <2>2, ConstantsOK DEF Ordered
  <2>4. DOMAIN hist \subseteq Nat /\ Len(hist) \in Nat
    BY DEF Shapes, TypeOK
  <2>5. ASSUME NEW i \in DOMAIN hist', NEW j \in DOMAIN hist', i < j
        PROVE  hist'[i] < hist'[j]
    <3>1. i \in DOMAIN hist
      <4>1. i = Len(hist) + 1 => FALSE
        <5>1. \A k \in DOMAIN hist' : k = Len(hist) + 1 \/ k < Len(hist) + 1
          BY <1>1, Grown
        <5>2. j \in Nat
          BY <1>1, <2>4, Grown
        <5>3. QED
          BY <2>4, <2>5, <5>1, <5>2
      <4>2. QED
        BY <1>1, <4>1, Grown
    <3>2. CASE j \in DOMAIN hist
      BY <1>1, <2>5, <3>1, <3>2, Grown DEF AdmissionOrder
    <3>3. CASE j = Len(hist) + 1
      BY <1>1, <2>3, <3>1, <3>3, Grown
    <3>4. QED
      BY <1>1, <3>2, <3>3, Grown
  <2>6. QED
    BY <2>5 DEF AdmissionOrder
<1>2. CASE hist' = hist
  BY <1>2 DEF AdmissionOrder
<1>3. QED
  BY <1>1, <1>2, HistSteps

\* Of the records admitted before a drain's, none waits.
LEMMA TakenOrdered ==
  ASSUME Inv, NEW h \in Handle, ClaimNext(h), Chosen # 0, NEW n \in Msg, n < Chosen
  PROVE  rec[n].status = "acked"
<1> USE DEF Inv
<1>1. Chosen \in Pending /\ \A k \in Pending : Chosen <= k
  BY ChosenFirst
<1>2. n \in Nat /\ Chosen \in Nat /\ Chosen \in Msg
  BY <1>1, ConstantsOK DEF Pending
<1>3. n \notin Pending
  BY <1>1, <1>2
<1>4. rec[n].status # "none"
  <2>1. PICK k \in 0..MaxSends : \A m \in Msg : rec[m].status # "none" <=> m <= k
    BY DEF Counted
  <2>2. Chosen <= k /\ k \in Nat
    BY <1>1, <1>2, <2>1, ConstantsOK DEF Pending
  <2>3. QED
    BY <1>2, <2>1, <2>2
<1>5. rec[n].status # "claiming"
  BY NoClaims DEF ClaimNext, At, Outside, Claiming
<1>6. rec[n].status \in {"none", "pending", "claiming", "acked"}
  BY DEF Shapes, TypeOK
<1>7. QED
  BY <1>3, <1>4, <1>5, <1>6 DEF Pending

\* A drain that holds a claim after a step held it before, or has just taken it.
LEMMA ClaimingSteps ==
  ASSUME Inv, [Next]_vars, NEW h \in Handle, drain'[h].pc \in Claiming
  PROVE  \/ drain[h].pc \in Claiming /\ drain'[h].msg = drain[h].msg
         \/ ClaimNext(h) /\ Chosen # 0 /\ drain'[h].msg = Chosen
<1> USE DEF Inv
<1>1. CASE \E g \in Handle : Working(g)
  <2>1. Working(h)
    BY <1>1, NotOutside DEF Claiming, Outside
  <2>2. CASE ClaimNext(h)
    <3>1. drain'[h].pc = AfterClaim(h) /\ drain'[h].msg = Chosen
      BY <2>2, ClaimTurns DEF Turned
    <3>2. Chosen # 0
      BY <3>1 DEF AfterClaim, Claiming
    <3>3. QED
      BY <2>2, <3>1, <3>2
  <2>3. CASE StartTurn(h) \/ CommitInput(h) \/ Abandon(h) \/ (TurnFails(h) /\ ~At(h, "body"))
    <3>1. drain[h].pc \in Claiming
      BY <2>3 DEF StartTurn, CommitInput, Abandon, TurnFails, At, Claiming
    <3>2. drain'[h].msg = drain[h].msg
      BY <2>3, StartTurns, GotoTurns, TurnFailsTurns DEF CommitInput, Abandon, Turned, Stages, InTurn
    <3>3. QED
      BY <3>1, <3>2
  <2>4. CASE DrainReady(h) \/ DrainLoop(h) \/ FailTurn(h) \/ FinishTurn(h)
    BY <2>4, ReadyTurns, LoopTurns, FailTurns, FinishTurns DEF Turned, Claiming
  <2>5. CASE Unclaim(h) \/ Drop(h) \/ Release(h)
    <3>1. PICK stage \in {"exit", "loop", "finish"} : Goto(h, stage)
      BY <2>5 DEF Unclaim, Drop, Release
    <3>2. QED
      BY <3>1, GotoTurns DEF Turned, Claiming, Stages, InTurn
  <2>6. CASE SettleTurn(h)
    BY <2>6, GotoTurns, EndTurns DEF SettleTurn, Turned, Claiming, Stages, InTurn, Outcomes
  <2>7. CASE Settles(h) \/ DrainThrows(h) \/ (TurnFails(h) /\ At(h, "body"))
    <3>1. drain'[h].pc \in {"finish", "exit", "settle"}
      BY <2>7, SettleEnds, ThrowTurns, TurnFailsTurns DEF Turned, At
    <3>2. QED
      BY <3>1 DEF Claiming
  <2>8. QED
    BY <2>1, <2>2, <2>3, <2>4, <2>5, <2>6, <2>7 DEF Working, Fails, Settles
<1>2. CASE ~(\E g \in Handle : Working(g))
  BY <1>2, StepTurns DEF Rests, Claiming, Outside
<1>3. QED
  BY <1>1, <1>2

LEMMA StepOrdered == Inv /\ [Next]_vars => Ordered'
<1> SUFFICES ASSUME Inv, [Next]_vars
             PROVE  Ordered'
  OBVIOUS
<1> USE DEF Inv
<1>1. ASSUME NEW h \in Handle, NEW n \in Msg, drain'[h].pc \in Claiming, n < drain'[h].msg
      PROVE  rec'[n].status = "acked"
  <2>1. rec[n].status = "acked"
    BY <1>1, ClaimingSteps, TakenOrdered DEF Ordered
  <2>2. QED
    BY <2>1, AckedStays
<1>2. ASSUME NEW i \in DOMAIN hist', NEW n \in Msg, n < hist'[i]
      PROVE  rec'[n].status = "acked"
  <2>1. rec[n].status = "acked"
    <3>1. ASSUME NEW h \in Handle, Commitment(h)
          PROVE  rec[n].status = "acked"
      <4>1. drain[h].pc \in Claiming
        BY <3>1 DEF Commitment, CommitInput, At, Claiming
      <4>2. QED
        BY <1>2, <3>1, <4>1, Grown DEF Ordered
    <3>2. QED
      BY <1>2, <3>1, HistSteps DEF Ordered
  <2>2. QED
    BY <2>1, AckedStays
<1>3. QED
  BY <1>1, <1>2 DEF Ordered

-----------------------------------------------------------------------------
(* What any step does to the queues, the live inputs and the line *)

Parks(g) == FinishTurn(g) /\ drain[g].outcome = "blocked" /\ drain[g].head # 0

Emptied(g) ==
  /\ queue'[g] = <<>>
  /\ \/ Crash
     \/ Parks(g)
     \/ (KillFirst(g) \/ KillSecond(g)) /\ \E phase : Cancels(g, phase)

Shifted(g) ==
  /\ queue[g] # <<>> /\ queue'[g] = Tail(queue[g])
  /\ Drop(g) \/ (ClaimNext(g) /\ Chosen # 0 /\ Chosen = drain[g].head)

Pushed(g) == Push /\ calls # <<>> /\ Line.step = "push" /\ g = Line.h
             /\ queue'[g] = Append(queue[g], Line.msg)

Handed(g) == HandOff /\ calls # <<>> /\ Line.step = "admit" /\ Line.msg \in Pending /\ own = None
             /\ g = Line.h /\ queue[g] = <<>> /\ queue'[g] = <<Line.msg>>

LEMMA QueueSteps ==
  ASSUME Inv, [Next]_vars, NEW g \in Handle, queue'[g] # queue[g]
  PROVE  Emptied(g) \/ Shifted(g) \/ Pushed(g) \/ Handed(g)
<1> USE DEF Inv
<1>1. \A h : \A s : queue' = [queue EXCEPT ![h] = s] => g = h /\ queue'[g] = s
  BY DEF Shapes, TypeOK
<1>2. ASSUME NEW h \in Handle, ClaimNext(h)
      PROVE  Shifted(g)
  <2>1. queue' = IF Chosen # 0 /\ Chosen = drain[h].head /\ queue[h] # <<>>
                 THEN [queue EXCEPT ![h] = Tail(queue[h])] ELSE queue
    BY <1>2, ClaimTurns
  <2>2. QED
    BY <1>1, <1>2, <2>1 DEF Shifted
<1>3. ASSUME NEW h \in Handle, Drop(h)
      PROVE  Shifted(g)
  <2>1. queue' = IF queue[h] = <<>> THEN queue ELSE [queue EXCEPT ![h] = Tail(queue[h])]
    BY <1>3 DEF Drop
  <2>2. QED
    BY <1>1, <1>3, <2>1 DEF Shifted
<1>4. ASSUME NEW h \in Handle, FinishTurn(h)
      PROVE  Emptied(g)
  BY <1>1, <1>4 DEF FinishTurn, Emptied, Parks
<1>5. ASSUME NEW h \in Handle, Teardown(h)
      PROVE  Emptied(g)
  <2>1. KillFirst(h) \/ KillSecond(h)
    BY <1>5 DEF Teardown, KillAdmissions, KillReopens
  <2>2. PICK phase : Cancels(h, phase)
    BY <2>1, FirstTears, SecondTears
  <2>3. QED
    BY <1>1, <2>1, <2>2 DEF Cancels, Emptied
<1>6. CASE Push
  <2>1. queue' = [queue EXCEPT ![Line.h] = Append(queue[Line.h], Line.msg)]
    BY <1>6 DEF Push
  <2>2. calls # <<>> /\ Line.step = "push"
    BY <1>6 DEF Push, InLine
  <2>3. g = Line.h /\ queue'[g] = Append(queue[g], Line.msg)
    <3>1. g = Line.h /\ queue'[g] = Append(queue[Line.h], Line.msg)
      <4>1. Line.h \in Handle
        BY <2>2, LineHeads
      <4>2. QED
        BY <1>1, <2>1, <4>1
    <3>2. QED
      BY <3>1
  <2>4. QED
    BY <1>6, <2>2, <2>3 DEF Pushed
<1>7. CASE HandOff
  <2>1. queue' = [queue EXCEPT ![Line.h] = <<Line.msg>>] /\ queue[Line.h] = <<>> /\ own = None
        /\ Line.msg \in Pending
    BY <1>7 DEF HandOff
  <2>2. QED
    BY <1>1, <1>7, <2>1 DEF HandOff, InLine, Handed
<1>8. CASE Crash
  BY <1>8 DEF Crash, Emptied
<1>9. ASSUME NEW h \in Handle, Working(h), ~ClaimNext(h), ~Drop(h), ~FinishTurn(h)
      PROVE  queue' = queue
  BY <1>9 DEF Working, DrainReady, DrainLoop, Unclaim, StartTurn, Abandon, Release, CommitInput,
     FailTurn, Fails, DrainThrows, TurnFails, SettleRefused, Settle, SettleTurn, SettleFailed
<1>10. ASSUME NEW h \in Handle,
             \/ DrainOwn(h) \/ DrainRecover(h) \/ RestartReleased(h) \/ DrainExit(h) \/ DrainSettled(h)
             \/ Send(h) \/ Load(h) \/ Interrupt(h) \/ Kill(h) \/ \E n \in Msg : Resume(h, n)
       PROVE  queue' = queue
  BY <1>10 DEF DrainOwn, DrainRecover, RestartReleased, DrainExit, DrainSettled, Send, Join, Load,
     Interrupt, Kill, Resume
<1>11. CASE BeginCall \/ AdmitChecks \/ Admit \/ FlightLands \/ UNCHANGED vars
  BY <1>11 DEF BeginCall, AdmitChecks, Admit, FlightLands
<1>12. QED
  BY <1>2, <1>3, <1>4, <1>5, <1>6, <1>7, <1>8, <1>9, <1>10, <1>11, Steps

\* Where an item of a queue was before the step, unless it is new at the end.
Items(g, shift) ==
  \A i \in DOMAIN queue'[g] :
    /\ i \in Nat
    /\ \/ i + shift \in DOMAIN queue[g] /\ queue'[g][i] = queue[g][i + shift]
       \/ (Pushed(g) \/ Handed(g)) /\ queue'[g][i] = Line.msg /\ i = Len(queue[g]) + 1

Shift(g) == IF Shifted(g) THEN 1 ELSE 0

LEMMA QueueItems ==
  ASSUME Inv, [Next]_vars, NEW g \in Handle
  PROVE  Items(g, Shift(g))
<1> USE DEF Inv
<1>1. queue[g] \in Seq(Msg) /\ DOMAIN queue[g] \subseteq Nat /\ (\A i \in Nat : i + 0 = i)
  BY DEF Shapes, TypeOK
<1>2. CASE queue'[g] = queue[g] /\ ~Shifted(g)
  BY <1>1, <1>2 DEF Items, Shift
<1>3. CASE Emptied(g) /\ ~Shifted(g)
  <2>1. DOMAIN queue'[g] = {}
    BY <1>3 DEF Emptied
  <2>2. QED
    BY <2>1 DEF Items
<1>4. CASE Shifted(g)
  <2>1. DOMAIN queue'[g] \subseteq Nat
        /\ \A i \in DOMAIN queue'[g] : i + 1 \in DOMAIN queue[g] /\ queue'[g][i] = queue[g][i + 1]
    BY <1>1, <1>4, Heads DEF Shifted
  <2>2. QED
    BY <1>4, <2>1 DEF Items, Shift
<1>5. CASE Pushed(g) /\ ~Shifted(g)
  <2>1. Line.msg \in Msg
    BY <1>5, LineHeads, CallMsgs DEF Pushed, Lined
  <2>2. /\ DOMAIN queue'[g] = DOMAIN queue[g] \cup {Len(queue[g]) + 1}
        /\ \A i \in DOMAIN queue[g] : queue'[g][i] = queue[g][i]
        /\ queue'[g][Len(queue[g]) + 1] = Line.msg
    BY <1>1, <1>5, <2>1, AppendSet DEF Pushed
  <2>3. Len(queue[g]) + 1 \in Nat
    BY <1>1
  <2>4. Items(g, 0)
    BY <1>1, <1>5, <2>2, <2>3 DEF Items
  <2>5. QED
    BY <1>5, <2>4 DEF Shift
<1>6. CASE Handed(g) /\ ~Shifted(g)
  <2>1. DOMAIN queue'[g] = {1} /\ queue'[g][1] = Line.msg
    BY <1>6, OneSet DEF Handed
  <2>2. Len(queue[g]) + 1 = 1
    BY <1>6 DEF Handed
  <2>3. QED
    BY <1>6, <2>1, <2>2 DEF Items
<1>7. QED
  BY <1>2, <1>3, <1>4, <1>5, <1>6, QueueSteps

LEMMA QueueOld ==
  ASSUME Inv, [Next]_vars, NEW g \in Handle, NEW m \in ToSet(queue'[g])
  PROVE  m \in ToSet(queue[g]) \/ (m = Line.msg /\ (Pushed(g) \/ Handed(g)))
  BY QueueItems, OfSet, InSet DEF Items

\* The ways an input stops being live, or becomes it.
LEMMA LiveEnds ==
  ASSUME Inv, [Next]_vars, NEW m \in Msg, m \in live, m \notin live'
  PROVE  \/ Crash
         \/ \E h \in Handle :
              \/ ClaimNext(h) /\ m = drain[h].head /\ Chosen \in {0, m}
              \/ Parks(h) /\ m \in ToSet(queue[h])
              \/ Teardown(h) /\ m \in ToSet(kill[h].snap) /\ \E phase : Cancels(h, phase)
<1> USE DEF Inv
<1>1. ASSUME NEW h \in Handle, ClaimNext(h)
      PROVE  m = drain[h].head /\ Chosen \in {0, m}
  BY <1>1, ClaimTurns
<1>2. ASSUME NEW h \in Handle, FinishTurn(h)
      PROVE  Parks(h) /\ m \in ToSet(queue[h])
  BY <1>2 DEF FinishTurn, Unregister, Parks
<1>3. ASSUME NEW h \in Handle, Teardown(h)
      PROVE  m \in ToSet(kill[h].snap) /\ \E phase : Cancels(h, phase)
  <2>1. PICK phase : Cancels(h, phase)
    BY <1>3, FirstTears, SecondTears DEF Teardown, KillAdmissions, KillReopens
  <2>2. QED
    BY <2>1 DEF Cancels, Unregister
<1>4. ASSUME NEW h \in Handle, Working(h), ~ClaimNext(h), ~FinishTurn(h)
      PROVE  live' = live
  BY <1>4 DEF Working, DrainReady, DrainLoop, Unclaim, Drop, StartTurn, Abandon, Release, CommitInput,
     FailTurn, Fails, DrainThrows, TurnFails, SettleRefused, Settle, SettleTurn, SettleFailed
<1>5. ASSUME NEW h \in Handle,
             \/ DrainOwn(h) \/ DrainRecover(h) \/ RestartReleased(h) \/ DrainExit(h) \/ DrainSettled(h)
             \/ Send(h) \/ Load(h) \/ Interrupt(h) \/ Kill(h) \/ \E n \in Msg : Resume(h, n)
      PROVE  live' = live
  BY <1>5 DEF DrainOwn, DrainRecover, RestartReleased, DrainExit, DrainSettled, Send, Join, Load,
     Interrupt, Kill, Resume
<1>6. CASE BeginCall \/ AdmitChecks \/ Admit \/ Push \/ HandOff \/ FlightLands \/ UNCHANGED vars
  BY <1>6 DEF BeginCall, AdmitChecks, Admit, Push, HandOff, FlightLands
<1>7. QED
  BY <1>1, <1>2, <1>3, <1>4, <1>5, <1>6, Steps

LEMMA LiveBegins ==
  ASSUME Inv, [Next]_vars, NEW m \in Msg, m \notin live, m \in live'
  PROVE  \/ Admitted(m) /\ RunAdmitted(m)
         \/ HandOff /\ m = Line.msg /\ m \in Pending /\ own = None /\ RunHanded(m)
<1> USE DEF Inv
<1>1. CASE Admit
  <2>1. m = NextAdmittedSeq
    BY <1>1 DEF Admit
  <2>2. rec[m].status = "none" /\ run[m] = "none"
    BY <1>1, <2>1, NextIsNew DEF Admit, Run
  <2>3. rec'[m] = Rec("pending", None) /\ run'[m] = "queued"
    BY <1>1, <2>1 DEF Admit, Shapes, TypeOK
  <2>4. QED
    BY <1>1, <2>1, <2>2, <2>3 DEF Admitted, RunAdmitted
<1>2. CASE HandOff
  <2>1. m = Line.msg /\ m \in Pending /\ own = None /\ run' = [run EXCEPT ![m] = "queued"]
    BY <1>2 DEF HandOff
  <2>2. run[m] = "stranded"
    BY <1>2, <2>1, LineHeads, ConstantsOK DEF HandOff, InLine, Lined
  <2>3. QED
    BY <1>2, <2>1, <2>2 DEF RunHanded, Shapes, TypeOK
<1>3. ASSUME NEW h \in Handle, Working(h) \/ Teardown(h)
      PROVE  live' \subseteq live
  <2>1. CASE ClaimNext(h)
    BY <2>1, ClaimTurns
  <2>2. CASE FinishTurn(h)
    BY <2>2 DEF FinishTurn, Unregister
  <2>3. CASE Teardown(h)
    BY <2>3, FirstTears, SecondTears DEF Teardown, KillAdmissions, KillReopens, Cancels, Unregister
  <2>4. CASE ~ClaimNext(h) /\ ~FinishTurn(h) /\ ~Teardown(h)
    BY <1>3, <2>4 DEF Working, DrainReady, DrainLoop, Unclaim, Drop, StartTurn, Abandon, Release,
       CommitInput, FailTurn, Fails, DrainThrows, TurnFails, SettleRefused, Settle, SettleTurn, SettleFailed
  <2>5. QED
    BY <2>1, <2>2, <2>3, <2>4
<1>4. ASSUME NEW h \in Handle,
             \/ DrainOwn(h) \/ DrainRecover(h) \/ RestartReleased(h) \/ DrainExit(h) \/ DrainSettled(h)
             \/ Send(h) \/ Load(h) \/ Interrupt(h) \/ Kill(h) \/ \E n \in Msg : Resume(h, n)
      PROVE  live' = live
  BY <1>4 DEF DrainOwn, DrainRecover, RestartReleased, DrainExit, DrainSettled, Send, Join, Load,
     Interrupt, Kill, Resume
<1>5. CASE BeginCall \/ AdmitChecks \/ Push \/ FlightLands \/ Crash \/ UNCHANGED vars
  BY <1>5 DEF BeginCall, AdmitChecks, Push, FlightLands, Crash
<1>6. QED
  BY <1>1, <1>2, <1>3, <1>4, <1>5, Steps

\* An input that is being pushed after a step was so before, or is just admitted.
LEMMA PushSteps ==
  ASSUME Inv, [Next]_vars, NEW i \in DOMAIN calls', calls'[i].step = "push"
  PROVE  \/ i \in DOMAIN calls /\ calls'[i] = calls[i] /\ ~Push /\ ~HandOff /\ ~Admit /\ ~Crash
         \/ /\ Admit /\ calls'[i].msg = NextAdmittedSeq /\ NextAdmittedSeq \in Msg
            /\ rec[NextAdmittedSeq].status = "none"
<1> USE DEF Inv
<1>1. CASE calls # <<>> /\ Leave
  BY <1>1, LineLeaves DEF Lined
<1>2. ASSUME calls # <<>>, NEW step \in {"recover", "admit"}, Step(step)
      PROVE  i \in DOMAIN calls /\ calls'[i] = calls[i]
  BY <1>2, LineSteps
<1>3. ASSUME NEW h \in Handle, NEW m \in 0..MaxSends, Join(h, m)
      PROVE  i \in DOMAIN calls /\ calls'[i] = calls[i]
  <2> DEFINE n == Len(calls) + 1
             c == [h |-> h, step |-> "begin", msg |-> m]
  <2>1. DOMAIN calls' = DOMAIN calls \cup {n} /\ \A j \in DOMAIN calls : calls'[j] = calls[j]
    BY <1>3, LineJoins
  <2>2. calls'[n] = c /\ c.step = "begin"
    <3>1. calls'[Len(calls) + 1] = [h |-> h, step |-> "begin", msg |-> m]
      BY <1>3, LineJoins
    <3>2. QED
      BY <3>1
  <2> HIDE DEF n, c
  <2>3. QED
    BY <2>1, <2>2
<1>4. CASE Admit
  <2> DEFINE s == NextAdmittedSeq
             c == [h |-> Line.h, step |-> "push", msg |-> s]
  <2>1. calls # <<>> /\ calls' = <<c>> \o Tail(calls)
    BY <1>4 DEF Admit, InLine
  <2>2. s \in Msg /\ rec[s].status = "none" /\ s \in 0..MaxSends
    BY <1>4, NextIsNew, ConstantsOK DEF Admit
  <2> HIDE DEF s
  <2>3. c \in Calls /\ c.msg = s
    BY <2>1, <2>2, LineHeads DEF Calls
  <2> HIDE DEF c
  <2>4. DOMAIN calls' = DOMAIN calls /\ calls'[1] = c /\ \A j \in DOMAIN calls \ {1} : calls'[j] = calls[j]
    BY <2>1, <2>3, LineReplaces
  <2>5. \A j \in DOMAIN calls : j # 1 => j > 1
    BY <2>1, LineHeads
  <2>6. i = 1
    BY <2>4, <2>5 DEF Lined
  <2>7. QED
    BY <1>4, <2>2, <2>3, <2>4, <2>6 DEF s
<1>5. ASSUME NEW h \in Handle, Send(h) \/ \E m \in Msg : Resume(h, m)
      PROVE  i \in DOMAIN calls /\ calls'[i] = calls[i]
  BY <1>3, <1>5, ConstantsOK DEF Send, Resume
<1>6. CASE BeginCall \/ AdmitChecks
  <2>1. calls # <<>> /\ (Leave \/ Step("recover") \/ Step("admit"))
    BY <1>6 DEF BeginCall, AdmitChecks, InLine
  <2>2. ~Push /\ ~HandOff /\ ~Admit /\ ~Crash
    <3>1. Line.step \in {"begin", "recover"}
      BY <1>6 DEF BeginCall, AdmitChecks, InLine
    <3>2. Crash => DOMAIN calls' = {}
      BY DEF Crash
    <3>3. QED
      BY <3>1, <3>2 DEF Push, HandOff, Admit, InLine
  <2>3. QED
    BY <1>1, <1>2, <2>1, <2>2
<1>7. CASE Push \/ HandOff
  BY <1>1, <1>7 DEF Push, HandOff, InLine
<1>8. CASE Crash
  <2>1. DOMAIN calls' = {}
    BY <1>8 DEF Crash
  <2>2. QED
    BY <2>1
<1>9. CASE ~BeginCall /\ ~AdmitChecks /\ ~Push /\ ~HandOff /\ ~Admit /\ ~Crash
  <2>1. ASSUME NEW g \in Handle,
             \/ DrainOwn(g) \/ DrainRecover(g) \/ RestartReleased(g) \/ DrainExit(g) \/ DrainSettled(g)
             \/ Load(g) \/ Teardown(g) \/ Interrupt(g) \/ Kill(g)
        PROVE  calls' = calls
    BY <2>1 DEF DrainOwn, DrainRecover, RestartReleased, DrainExit, DrainSettled, Load,
       Teardown, KillFirst, KillSecond, KillAdmissions, KillReopens, Interrupt, Kill
  <2>2. ASSUME NEW h \in Handle, Working(h)
        PROVE  calls' = calls
    BY <2>2, WorkGrows
  <2>3. CASE FlightLands \/ UNCHANGED vars
    BY <1>9, <2>3 DEF FlightLands
  <2>4. QED
    BY <1>5, <1>9, <2>1, <2>2, <2>3, Steps
<1>10. QED
  BY <1>4, <1>6, <1>7, <1>8, <1>9

\* A message in line after a step was there before, is handed over by a resume,
\* or is just admitted.
LEMMA MessageSteps ==
  ASSUME Inv, [Next]_vars, NEW m \in Msg, NEW i \in DOMAIN calls', calls'[i].msg = m
  PROVE  \/ \E j \in DOMAIN calls : calls[j].msg = m
         \/ \E h \in Handle : Resume(h, m)
         \/ rec[m].status = "none"
<1> USE DEF Inv
<1>1. CASE calls # <<>> /\ Leave
  BY <1>1, LineLeaves
<1>2. ASSUME calls # <<>>, NEW step \in {"recover", "admit"}, Step(step)
      PROVE  \E j \in DOMAIN calls : calls[j].msg = m
  <2>1. DOMAIN calls' = DOMAIN calls /\ calls'[1] = [h |-> Line.h, step |-> step, msg |-> Line.msg]
        /\ \A j \in DOMAIN calls \ {1} : calls'[j] = calls[j]
    BY <1>2, LineSteps
  <2>2. calls'[1].msg = calls[1].msg
    BY <1>2, <2>1, LineHeads
  <2>3. QED
    BY <2>1, <2>2
<1>3. ASSUME NEW h \in Handle, NEW k \in 0..MaxSends, Join(h, k)
      PROVE  (\E j \in DOMAIN calls : calls[j].msg = m) \/ m = k
  <2> DEFINE n == Len(calls) + 1
             c == [h |-> h, step |-> "begin", msg |-> k]
  <2>1. DOMAIN calls' = DOMAIN calls \cup {n} /\ \A j \in DOMAIN calls : calls'[j] = calls[j]
    BY <1>3, LineJoins
  <2>2. calls'[n] = c /\ c.msg = k
    <3>1. calls'[Len(calls) + 1] = [h |-> h, step |-> "begin", msg |-> k]
      BY <1>3, LineJoins
    <3>2. QED
      BY <3>1
  <2> HIDE DEF n, c
  <2>3. QED
    BY <2>1, <2>2
<1>4. CASE Admit
  <2> DEFINE s == NextAdmittedSeq
             c == [h |-> Line.h, step |-> "push", msg |-> s]
  <2>1. calls # <<>> /\ calls' = <<c>> \o Tail(calls)
    BY <1>4 DEF Admit, InLine
  <2>2. s \in 0..MaxSends /\ rec[s].status = "none"
    BY <1>4, NextIsNew, ConstantsOK DEF Admit
  <2> HIDE DEF s
  <2>3. c \in Calls /\ c.msg = s
    BY <2>1, <2>2, LineHeads DEF Calls
  <2> HIDE DEF c
  <2>4. DOMAIN calls' = DOMAIN calls /\ calls'[1] = c /\ \A j \in DOMAIN calls \ {1} : calls'[j] = calls[j]
    BY <2>1, <2>3, LineReplaces
  <2>5. QED
    BY <2>2, <2>3, <2>4
<1>5. ASSUME NEW h \in Handle, Send(h) \/ \E k \in Msg : Resume(h, k)
      PROVE  (\E j \in DOMAIN calls : calls[j].msg = m) \/ Resume(h, m)
  <2>1. CASE Send(h)
    BY <1>3, <2>1, ConstantsOK DEF Send
  <2>2. ASSUME NEW k \in Msg, Resume(h, k)
        PROVE  (\E j \in DOMAIN calls : calls[j].msg = m) \/ Resume(h, m)
    <3>1. (\E j \in DOMAIN calls : calls[j].msg = m) \/ m = k
      BY <1>3, <2>2, ConstantsOK DEF Resume
    <3>2. QED
      BY <2>2, <3>1
  <2>3. QED
    BY <1>5, <2>1, <2>2
<1>6. CASE BeginCall \/ AdmitChecks
  <2>1. calls # <<>> /\ (Leave \/ Step("recover") \/ Step("admit"))
    BY <1>6 DEF BeginCall, AdmitChecks, InLine
  <2>2. QED
    BY <1>1, <1>2, <2>1
<1>7. CASE Push \/ HandOff
  BY <1>1, <1>7 DEF Push, HandOff, InLine
<1>8. CASE Crash
  <2>1. DOMAIN calls' = {}
    BY <1>8 DEF Crash
  <2>2. QED
    BY <2>1
<1>9. ASSUME NEW g \in Handle,
             \/ DrainOwn(g) \/ DrainRecover(g) \/ RestartReleased(g) \/ DrainExit(g) \/ DrainSettled(g)
             \/ Load(g) \/ Teardown(g) \/ Interrupt(g) \/ Kill(g)
      PROVE  calls' = calls
  BY <1>9 DEF DrainOwn, DrainRecover, RestartReleased, DrainExit, DrainSettled, Load, Teardown,
     KillFirst, KillAdmissions, KillSecond, KillReopens, Interrupt, Kill
<1>10. CASE FlightLands \/ UNCHANGED vars
  BY <1>10 DEF FlightLands
<1>11. QED
  BY <1>1, <1>4, <1>5, <1>6, <1>7, <1>8, <1>9, <1>10, WorkGrows, Steps

-----------------------------------------------------------------------------
(* Queued inputs wait *)

\* A drain that chooses with nothing pending finds no input that waits.
LEMMA NoneWaits ==
  ASSUME Inv, NEW h \in Handle, ClaimNext(h), Chosen = 0, NEW m \in Msg
  PROVE  ~Waiting(m)
<1>1. rec[m].status # "claiming"
  BY NoClaims DEF ClaimNext, At, Outside, Claiming
<1>2. m \notin Pending
  BY ChosenFirst
<1>3. QED
  BY <1>1, <1>2 DEF Waiting, Pending

LEMMA ClaimedHead ==
  ASSUME Inv, NEW h \in Handle, ClaimNext(h), Chosen # 0, Chosen = drain[h].head
  PROVE  queue[h] # <<>> /\ Head(queue[h]) = Chosen /\ queue'[h] = Tail(queue[h])
         /\ Chosen \in Msg /\ 1 \in DOMAIN queue[h] /\ queue[h][1] = Chosen
<1> USE DEF Inv
<1>1. Chosen \in Pending
  BY ChosenFirst
<1>2. queue[h] # <<>> /\ Head(queue[h]) = Chosen
  BY <1>1 DEF Headed, Pending, ClaimNext, At, Choosing
<1>3. queue' = [queue EXCEPT ![h] = Tail(queue[h])]
  BY <1>2, ClaimTurns
<1>4. queue[h] \in Seq(Msg)
  BY DEF Shapes, TypeOK
<1>5. QED
  BY <1>1, <1>2, <1>3, <1>4, Heads DEF Pending, Shapes, TypeOK

\* It waits after the step.
Waits(m) == m \in live' /\ rec'[m].status \in {"pending", "claiming"} /\ run'[m] = "queued"

\* How an input stops waiting.
LEMMA WaitingEnds ==
  ASSUME Inv, [Next]_vars, NEW m \in Msg, Waiting(m), ~Waits(m)
  PROVE  \/ Crash
         \/ \E h \in Handle :
              \/ ClaimNext(h) /\ m = drain[h].head /\ Chosen = m
              \/ Parks(h) /\ m \in ToSet(queue[h])
              \/ Teardown(h) /\ m \in ToSet(kill[h].snap) /\ \E phase : Cancels(h, phase)
<1> USE DEF Inv
<1> DEFINE Ends == \/ Crash
                   \/ \E h \in Handle :
                        \/ ClaimNext(h) /\ m = drain[h].head /\ Chosen = m
                        \/ Parks(h) /\ m \in ToSet(queue[h])
                        \/ Teardown(h) /\ m \in ToSet(kill[h].snap) /\ \E phase : Cancels(h, phase)
<1>1. m \in live /\ rec[m].status \in {"pending", "claiming"} /\ run[m] = "queued"
  BY DEF Waiting
<1>2. CASE m \notin live'
  <2>1. \A h \in Handle : ClaimNext(h) /\ Chosen \in {0, m} => Chosen = m
    BY NoneWaits
  <2>2. QED
    BY <1>1, <1>2, <2>1, LiveEnds
<1>3. \A h \in Handle : drain[h].pc \in InTurn => drain[h].msg # m
  BY <1>1 DEF Apart
<1>4. CASE rec'[m].status \notin {"pending", "claiming"}
  <2>1. PICK h \in Handle : CommittedBy(h, m) \/ CancelledBy(h, m)
    BY <1>1, <1>4, RecSteps, Status DEF Admitted, Recovered, Taken, GivenBack
  <2>2. ~CommittedBy(h, m)
    BY <1>3 DEF CommittedBy, CommitInput, At, InTurn
  <2>3. Teardown(h) /\ m \in ToSet(kill[h].snap) /\ rec' # rec
    BY <1>1, <1>4, <2>1, <2>2 DEF CancelledBy
  <2>4. \E phase : Cancels(h, phase)
    BY <2>3, FirstTears, SecondTears DEF Teardown, KillAdmissions, KillReopens
  <2>5. QED
    BY <2>3, <2>4
<1>5. CASE run'[m] # "queued"
  <2>1. PICK h \in Handle : RunCancelled(h, m) \/ RunStarted(h, m)
    BY <1>1, <1>5, RunSteps DEF RunAdmitted, RunHanded, RunLost, RunEnded
  <2>2. ~RunStarted(h, m)
    BY <1>3 DEF RunStarted, StartTurn, At, InTurn
  <2>3. ~(Drop(h) /\ m = drain[h].head)
    BY <1>1 DEF Headed, Drop, At, Choosing
  <2>4. FinishTurn(h) => Parks(h)
    BY <1>1, <1>5 DEF FinishTurn, Cancelled, Parks
  <2>5. Teardown(h) => \E phase : Cancels(h, phase)
    <3>1. run' # run
      BY <1>1, <1>5
    <3>2. QED
      BY <3>1, FirstTears, SecondTears DEF Teardown, KillAdmissions, KillReopens
  <2>6. QED
    BY <2>1, <2>2, <2>3, <2>4, <2>5 DEF RunCancelled
<1>6. QED
  BY <1>2, <1>4, <1>5 DEF Waits

\* An item stays in one queue.
LEMMA OneQueue ==
  ASSUME Inv, NEW g \in Handle, NEW h \in Handle, NEW m \in ToSet(queue[g]), m \in ToSet(queue[h])
  PROVE  g = h
  BY OfSet DEF Inv, Queued

LEMMA ItemsMsg ==
  ASSUME Inv, NEW g \in Handle
  PROVE  queue[g] \in Seq(Msg) /\ \A m \in ToSet(queue[g]) : m \in Msg /\ Waiting(m)
<1>1. queue[g] \in Seq(Msg)
  BY DEF Inv, Shapes, TypeOK
<1>2. \A i \in DOMAIN queue[g] : queue[g][i] \in Msg /\ Waiting(queue[g][i])
  BY <1>1 DEF Inv, Queued
<1>3. QED
  BY <1>1, <1>2, OfSet

\* A new item was in no queue.
LEMMA NewItem ==
  ASSUME Inv, NEW g \in Handle, Pushed(g) \/ Handed(g), NEW h \in Handle
  PROVE  Line.msg \notin ToSet(queue[h])
<1> USE DEF Inv
<1>1. CASE Pushed(g)
  BY <1>1, LineHeads DEF Pushed, Queued
<1>2. CASE Handed(g)
  <2>1. Line.msg # 0 /\ run[Line.msg] = "stranded"
    BY <1>2, LineHeads DEF Handed, HandOff, InLine, Lined
  <2>2. QED
    BY <2>1, ItemsMsg DEF Waiting
<1>3. QED
  BY <1>1, <1>2

LEMMA QueuesApart ==
  ASSUME Inv, [Next]_vars
  PROVE  \A g, h \in Handle : \A i \in DOMAIN queue'[g], j \in DOMAIN queue'[h] :
           queue'[g][i] = queue'[h][j] => g = h /\ i = j
<1> USE DEF Inv
<1>1. SUFFICES ASSUME NEW g \in Handle, NEW h \in Handle,
                      NEW i \in DOMAIN queue'[g], NEW j \in DOMAIN queue'[h],
                      queue'[g][i] = queue'[h][j]
               PROVE  g = h /\ i = j
  OBVIOUS
<1> DEFINE a == Shift(g)
           b == Shift(h)
<1>2. Items(g, a) /\ Items(h, b) /\ a \in {0, 1} /\ b \in {0, 1} /\ (g = h => a = b)
  BY QueueItems DEF Shift
<1>3. Items(h, b)
  BY <1>2
<1> HIDE DEF a, b
<1>4. i \in Nat /\ j \in Nat
  BY <1>1, <1>2, <1>3 DEF Items
<1>5. CASE i + a \in DOMAIN queue[g] /\ queue'[g][i] = queue[g][i + a]
  <2>1. queue'[g][i] \in ToSet(queue[g])
    BY <1>5, InSet
  <2>2. j + b \in DOMAIN queue[h] /\ queue'[h][j] = queue[h][j + b]
    BY <1>1, <1>3, <2>1, NewItem DEF Items
  <2>3. g = h /\ i + a = j + b
    <3>1. queue[g][i + a] = queue[h][j + b]
      BY <1>1, <1>5, <2>2
    <3>2. QED
      BY <1>5, <2>2, <3>1 DEF Queued
  <2>4. QED
    BY <1>2, <1>4, <2>3
<1>6. CASE (Pushed(g) \/ Handed(g)) /\ queue'[g][i] = Line.msg /\ i = Len(queue[g]) + 1
  <2>1. Line.msg \notin ToSet(queue[h])
    BY <1>6, NewItem
  <2>2. (Pushed(h) \/ Handed(h)) /\ j = Len(queue[h]) + 1
    BY <1>1, <1>3, <1>6, <2>1, InSet DEF Items
  <2>3. g = h
    BY <1>6, <2>2 DEF Pushed, Handed
  <2>4. QED
    BY <1>6, <2>2, <2>3
<1>7. QED
  BY <1>1, <1>2, <1>5, <1>6 DEF Items

LEMMA StepQueued == Inv /\ [Next]_vars => Queued'
<1> SUFFICES ASSUME Inv, [Next]_vars
             PROVE  Queued'
  OBVIOUS
<1> USE DEF Inv
<1>1. ASSUME NEW g \in Handle, NEW i \in DOMAIN queue'[g]
      PROVE  Waits(queue'[g][i])
  <2>1. PICK m : m = queue'[g][i]
    OBVIOUS
  <2>2. m \in ToSet(queue'[g])
    BY <1>1, <2>1, InSet
  <2>3. CASE m \in ToSet(queue[g])
    <3>1. m \in Msg /\ Waiting(m)
      BY <2>3, ItemsMsg
    <3>2. SUFFICES ASSUME ~Waits(m) PROVE FALSE
      BY <2>1
    <3>3. ~Crash
      BY <1>1 DEF Crash
    <3>4. PICK h \in Handle :
            \/ ClaimNext(h) /\ m = drain[h].head /\ Chosen = m
            \/ Parks(h) /\ m \in ToSet(queue[h])
            \/ Teardown(h) /\ m \in ToSet(kill[h].snap) /\ \E phase : Cancels(h, phase)
      BY <3>1, <3>2, <3>3, WaitingEnds
    <3>5. ~(Parks(h) /\ m \in ToSet(queue[h]))
      <4>1. m \in ToSet(queue[h]) => h = g
        BY <2>3, OneQueue
      <4>2. Parks(h) => queue' = [queue EXCEPT ![h] = <<>>]
        BY DEF FinishTurn, Parks
      <4>3. QED
        BY <1>1, <4>1, <4>2 DEF Shapes, TypeOK
    <3>6. ~(Teardown(h) /\ m \in ToSet(kill[h].snap) /\ \E phase : Cancels(h, phase))
      <4>1. m \in ToSet(kill[h].snap) => h = g
        BY <2>3 DEF Apart
      <4>2. \A phase : Cancels(h, phase) => queue' = [queue EXCEPT ![h] = <<>>]
        BY DEF Cancels
      <4>3. QED
        BY <1>1, <4>1, <4>2 DEF Shapes, TypeOK
    <3>7. ClaimNext(h) /\ m = drain[h].head /\ Chosen = m /\ m # 0
      BY <3>1, <3>4, <3>5, <3>6, ConstantsOK
    <3>8. queue[h] # <<>> /\ queue'[h] = Tail(queue[h]) /\ 1 \in DOMAIN queue[h] /\ queue[h][1] = m
      BY <3>7, ClaimedHead
    <3>9. h = g
      BY <2>3, <3>8, InSet, OneQueue
    <3>10. i \in Nat /\ i # 0 /\ i + 1 \in DOMAIN queue[g] /\ m = queue[g][i + 1]
      <4>1. queue[g] \in Seq(Msg) /\ queue[g] # <<>> /\ queue'[g] = Tail(queue[g])
        BY <3>8, <3>9, ItemsMsg
      <4>2. DOMAIN queue'[g] = 1..(Len(queue[g]) - 1) /\ Len(queue[g]) \in Nat
        BY <4>1, Heads
      <4>3. i \in 1..(Len(queue[g]) - 1)
        BY <1>1, <4>2
      <4>4. i \in Nat /\ i # 0
        BY <4>2, <4>3
      <4>5. QED
        BY <2>1, <4>1, <4>3, <4>4, Heads
    <3>11. i + 1 = 1
      BY <3>8, <3>9, <3>10 DEF Queued
    <3>12. QED
      BY <3>10, <3>11
  <2>4. CASE m = Line.msg /\ Pushed(g)
    <3>1. Waiting(Line.msg)
      BY <2>4, LineHeads DEF Pushed, Queued
    <3>2. UNCHANGED <<rec, run, live>>
      BY <2>4 DEF Pushed, Push
    <3>3. Waiting(m)
      BY <2>4, <3>1
    <3>4. QED
      BY <2>1, <3>2, <3>3 DEF Waiting, Waits
  <2>5. CASE m = Line.msg /\ Handed(g)
    <3>1. /\ m \in Pending /\ rec' = rec /\ live' = live \cup {m} /\ run' = [run EXCEPT ![m] = "queued"]
      <4>1. HandOff /\ queue[Line.h] = <<>> /\ queue'[Line.h] # <<>> /\ m = Line.msg /\ Line.msg \in Pending
        BY <2>5 DEF Handed
      <4>2. queue' # queue
        BY <4>1
      <4>3. QED
        BY <4>1, <4>2 DEF HandOff
    <3>2. m \in Msg /\ rec'[m].status = "pending" /\ m \in live' /\ run'[m] = "queued"
      BY <3>1 DEF Pending, Shapes, TypeOK
    <3>3. QED
      BY <2>1, <3>2 DEF Waits
  <2>6. QED
    BY <2>2, <2>3, <2>4, <2>5, QueueOld
<1>2. ASSUME NEW i \in DOMAIN calls', calls'[i].step = "push"
      PROVE  Waits(calls'[i].msg) /\ \A h \in Handle : calls'[i].msg \notin ToSet(queue'[h])
  <2>1. PICK m : m = calls'[i].msg
    OBVIOUS
  <2>2. CASE i \in DOMAIN calls /\ calls'[i] = calls[i] /\ ~Push /\ ~HandOff /\ ~Admit /\ ~Crash
    <3>1. m \in Msg /\ Waiting(m) /\ \A h \in Handle : m \notin ToSet(queue[h])
      BY <1>2, <2>1, <2>2, CallMsgs DEF Queued, Lined
    <3>2. \A h \in Handle : m \notin ToSet(queue'[h])
      BY <2>2, <3>1, QueueOld DEF Pushed, Handed
    <3>3. \A h \in Handle : m \notin ToSet(kill[h].snap)
      BY <1>2, <2>1, <2>2 DEF Apart
    <3>4. \A h \in Handle : ~(ClaimNext(h) /\ m = drain[h].head /\ Chosen = m)
      BY <3>1, ClaimedHead, InSet, ConstantsOK
    <3>5. Waits(m)
      BY <2>2, <3>1, <3>3, <3>4, WaitingEnds
    <3>6. QED
      BY <2>1, <3>2, <3>5
  <2>3. CASE Admit /\ m = NextAdmittedSeq /\ NextAdmittedSeq \in Msg /\ rec[NextAdmittedSeq].status = "none"
    <3>1. /\ rec' = [rec EXCEPT ![m] = Rec("pending", None)] /\ run' = [run EXCEPT ![m] = "queued"]
          /\ live' = live \cup {m} /\ queue' = queue
      BY <2>3 DEF Admit
    <3>2. m \in Msg /\ rec'[m].status = "pending" /\ m \in live' /\ run'[m] = "queued"
      BY <2>3, <3>1, Status DEF Shapes, TypeOK
    <3>3. \A h \in Handle : m \notin ToSet(queue[h])
      BY <2>3, ItemsMsg DEF Waiting
    <3>4. QED
      BY <2>1, <3>1, <3>2, <3>3 DEF Waits
  <2>4. QED
    BY <1>2, <2>1, <2>2, <2>3, PushSteps
<1>3. QED
  BY <1>1, <1>2, QueuesApart DEF Queued, Waiting, Waits

-----------------------------------------------------------------------------
(* What any step does to a teardown *)

Becomes(g, phase, snap, err) == kill'[g].phase = phase /\ kill'[g].snap = snap /\ kill'[g].err = err

KillStarts(g) ==
  /\ Kill(g) /\ term[g] = "open" /\ term'[g] = "killed"
  /\ Becomes(g, IF queue[g] = <<>> THEN "admissions" ELSE "first", queue[g], FALSE)

FirstCancels(g) ==
  /\ KillFirst(g) /\ kill[g].phase = "first" /\ Cancels(g, "admissions") /\ term'[g] = term[g]
  /\ Becomes(g, "admissions", <<>>, kill[g].err)

FirstFails(g) ==
  /\ KillFirst(g) /\ kill[g].phase = "first" /\ term'[g] = term[g]
  /\ ~(\A m \in ToSet(kill[g].snap) : Cancellable(m))
  /\ UNCHANGED <<rec, run, live, turnOf, queue>>
  /\ Becomes(g, "admissions", <<>>, TRUE)

SecondBegins(g) ==
  /\ KillAdmissions(g) /\ kill[g].phase = "admissions" /\ AdmissionsEnded(g) /\ term'[g] = term[g]
  /\ Becomes(g, "second", queue[g], kill[g].err)

SecondCancels(g) ==
  /\ KillSecond(g) /\ kill[g].phase = "second" /\ term'[g] = term[g]
  /\ Cancels(g, IF kill[g].err THEN "reopens" ELSE "done")
  /\ Becomes(g, IF kill[g].err THEN "reopens" ELSE "done", <<>>, kill[g].err)

SecondFails(g) ==
  /\ KillSecond(g) /\ kill[g].phase = "second" /\ term'[g] = "open"
  /\ kill[g].err \/ ~(\A m \in ToSet(kill[g].snap) : Cancellable(m))
  /\ UNCHANGED <<rec, run, live, turnOf, queue>>
  /\ Becomes(g, "failed", <<>>, TRUE)

Reopened(g) ==
  /\ KillReopens(g) /\ kill[g].phase = "reopens" /\ term'[g] = "open"
  /\ Becomes(g, "failed", kill[g].snap, kill[g].err)

Renewed(g) == Crash /\ term'[g] = "open" /\ Becomes(g, "none", <<>>, FALSE)

LEMMA KillSteps ==
  ASSUME Inv, [Next]_vars, NEW g \in Handle, kill'[g] # kill[g] \/ term'[g] # term[g]
  PROVE  \/ KillStarts(g) \/ FirstCancels(g) \/ FirstFails(g) \/ SecondBegins(g) \/ SecondCancels(g)
         \/ SecondFails(g) \/ Reopened(g) \/ Renewed(g)
<1> USE DEF Inv
<1>1. ASSUME NEW h \in Handle, NEW phase, NEW snap, NEW err, Tears(h, phase, snap, err),
             \A k \in Handle \ {h} : term'[k] = term[k]
      PROVE  h = g /\ Becomes(g, phase, snap, err)
  BY <1>1 DEF Tears, Becomes
<1>2. \A h \in Handle : \A v : term' = [term EXCEPT ![h] = v] \/ term' = term =>
        \A k \in Handle \ {h} : term'[k] = term[k]
  BY DEF Shapes, TypeOK
<1>3. \A h \in Handle : \A v : term' = [term EXCEPT ![h] = v] => term'[h] = v
  BY DEF Shapes, TypeOK
<1>4. ASSUME NEW h \in Handle, Kill(h)
      PROVE  KillStarts(g)
  <2>1. term' = [term EXCEPT ![h] = "killed"] /\ term[h] = "open"
    BY <1>4 DEF Kill
  <2>2. h = g /\ Becomes(g, IF queue[h] = <<>> THEN "admissions" ELSE "first", queue[h], FALSE)
    BY <1>1, <1>2, <1>4, <2>1, KillTears
  <2>3. QED
    BY <1>3, <1>4, <2>1, <2>2 DEF KillStarts
<1>5. ASSUME NEW h \in Handle, KillFirst(h)
      PROVE  FirstCancels(g) \/ FirstFails(g)
  <2>1. CASE Cancels(h, "admissions")
    <3>1. term' = term /\ Tears(h, "admissions", <<>>, kill[h].err)
      BY <2>1 DEF Cancels
    <3>2. h = g /\ Becomes(g, "admissions", <<>>, kill[h].err)
      BY <1>1, <1>2, <3>1
    <3>3. QED
      BY <1>5, <2>1, <3>1, <3>2 DEF FirstCancels, KillFirst
  <2>2. CASE /\ ~(\A m \in ToSet(kill[h].snap) : Cancellable(m))
             /\ Tears(h, "admissions", <<>>, TRUE)
             /\ UNCHANGED <<term, rec, run, live, turnOf, queue>>
    <3>1. h = g /\ Becomes(g, "admissions", <<>>, TRUE)
      BY <1>1, <1>2, <2>2
    <3>2. QED
      BY <1>5, <2>2, <3>1 DEF FirstFails, KillFirst
  <2>3. QED
    BY <1>5, <2>1, <2>2, FirstTears
<1>6. ASSUME NEW h \in Handle, KillAdmissions(h)
      PROVE  SecondBegins(g)
  <2>1. term' = term /\ kill[h].phase = "admissions" /\ AdmissionsEnded(h)
    BY <1>6 DEF KillAdmissions
  <2>2. h = g /\ Becomes(g, "second", queue[h], kill[h].err)
    BY <1>1, <1>2, <1>6, <2>1, AdmissionsTears
  <2>3. QED
    BY <1>6, <2>1, <2>2 DEF SecondBegins
<1>7. ASSUME NEW h \in Handle, KillSecond(h)
      PROVE  SecondCancels(g) \/ SecondFails(g)
  <2> DEFINE phase == IF kill[h].err THEN "reopens" ELSE "done"
  <2>1. CASE Cancels(h, phase)
    <3>1. term' = term /\ Tears(h, phase, <<>>, kill[h].err)
      BY <2>1 DEF Cancels
    <3> HIDE DEF phase
    <3>2. h = g /\ Becomes(g, phase, <<>>, kill[h].err)
      BY <1>1, <1>2, <3>1
    <3>3. QED
      BY <1>7, <2>1, <3>1, <3>2 DEF SecondCancels, KillSecond, phase
  <2>2. CASE /\ kill[h].err \/ ~(\A m \in ToSet(kill[h].snap) : Cancellable(m))
             /\ Tears(h, "failed", <<>>, TRUE) /\ term' = [term EXCEPT ![h] = "open"]
             /\ UNCHANGED <<rec, run, live, turnOf, queue>>
    <3>1. h = g /\ Becomes(g, "failed", <<>>, TRUE)
      BY <1>1, <1>2, <2>2
    <3>2. QED
      BY <1>3, <1>7, <2>2, <3>1 DEF SecondFails, KillSecond
  <2>3. QED
    BY <1>7, <2>1, <2>2, SecondTears
<1>8. ASSUME NEW h \in Handle, KillReopens(h)
      PROVE  Reopened(g)
  <2>1. term' = [term EXCEPT ![h] = "open"] /\ kill[h].phase = "reopens"
    BY <1>8 DEF KillReopens
  <2>2. h = g /\ Becomes(g, "failed", kill[h].snap, kill[h].err)
    BY <1>1, <1>2, <1>8, <2>1, ReopensTears
  <2>3. QED
    BY <1>3, <1>8, <2>1, <2>2 DEF Reopened
<1>9. CASE Crash
  <2>1. kill'[g] = NoKill /\ term'[g] = "open"
    BY <1>9 DEF Crash
  <2>2. QED
    BY <1>9, <2>1 DEF Renewed, Becomes, NoKill
<1>10. ASSUME NEW h \in Handle, Working(h)
       PROVE  UNCHANGED <<kill, term>>
  BY <1>10 DEF Working, DrainReady, DrainLoop, ClaimNext, Unclaim, Drop, StartTurn, Abandon, Release,
     CommitInput, FailTurn, Fails, DrainThrows, TurnFails, SettleRefused, Settle, SettleTurn, SettleFailed, FinishTurn
<1>11. ASSUME NEW h \in Handle,
             \/ DrainOwn(h) \/ DrainRecover(h) \/ RestartReleased(h) \/ DrainExit(h) \/ DrainSettled(h)
             \/ Send(h) \/ Load(h) \/ Interrupt(h) \/ \E n \in Msg : Resume(h, n)
       PROVE  UNCHANGED <<kill, term>>
  BY <1>11 DEF DrainOwn, DrainRecover, RestartReleased, DrainExit, DrainSettled, Send, Join, Load,
     Interrupt, Resume
<1>12. CASE BeginCall \/ AdmitChecks \/ Admit \/ Push \/ HandOff \/ FlightLands \/ UNCHANGED vars
  BY <1>12 DEF BeginCall, AdmitChecks, Admit, Push, HandOff, FlightLands
<1>13. QED
  BY <1>4, <1>5, <1>6, <1>7, <1>8, <1>9, <1>10, <1>11, <1>12, Steps DEF Teardown

\* What a teardown holds after a step it held before, or takes from the queue.
LEMMA SnapSteps ==
  ASSUME Inv, [Next]_vars, NEW g \in Handle, NEW m \in ToSet(kill'[g].snap)
  PROVE  \/ m \in ToSet(kill[g].snap)
         \/ m \in ToSet(queue[g]) /\ (Kill(g) \/ KillAdmissions(g))
<1>1. CASE kill'[g] = kill[g]
  BY <1>1
<1>2. CASE kill'[g] # kill[g]
  <2>1. \/ kill'[g].snap \in {<<>>, kill[g].snap}
        \/ kill'[g].snap = queue[g] /\ (Kill(g) \/ KillAdmissions(g))
    BY <1>2, KillSteps DEF KillStarts, FirstCancels, FirstFails, SecondBegins, SecondCancels, SecondFails,
       Reopened, Renewed, Becomes
  <2>2. QED
    BY <2>1, NoSet
<1>3. QED
  BY <1>1, <1>2

-----------------------------------------------------------------------------
(* What is not live, and what a teardown holds *)

LEMMA AdmittedStays ==
  ASSUME Inv, [Next]_vars, NEW m \in Msg, rec[m].status # "none"
  PROVE  rec'[m].status # "none"
<1>1. \A h \in Handle : Taken(h, m) \/ GivenBack(h, m) \/ CommittedBy(h, m) \/ CancelledBy(h, m) =>
        rec'[m].status # "none"
  BY Status DEF Taken, GivenBack, CommittedBy, CancelledBy
<1>2. Admitted(m) \/ Recovered(m) => rec'[m].status # "none"
  BY Status DEF Admitted, Recovered
<1>3. QED
  BY <1>1, <1>2, RecSteps

\* A drain in its turn after a step was so before, or has just chosen an input.
LEMMA TurnSteps ==
  ASSUME Inv, [Next]_vars, NEW h \in Handle, drain'[h].pc \in InTurn
  PROVE  \/ drain[h].pc \in InTurn /\ drain'[h].msg = drain[h].msg /\ drain'[h].head = drain[h].head
         \/ /\ ClaimNext(h) /\ Chosen # 0 /\ drain'[h].msg = Chosen /\ drain'[h].head = drain[h].head
            /\ Chosen = drain[h].head \/ Chosen \notin live
<1> USE DEF Inv
<1>1. CASE \E g \in Handle : Working(g)
  <2>1. Working(h)
    BY <1>1, NotOutside DEF InTurn, Outside
  <2>2. CASE ClaimNext(h)
    <3>1. drain'[h].pc = AfterClaim(h) /\ drain'[h].msg = Chosen /\ drain'[h].head = drain[h].head
      BY <2>2, ClaimTurns DEF Turned
    <3>2. Chosen # 0 /\ (Chosen = drain[h].head \/ Chosen \notin live)
      BY <3>1 DEF AfterClaim, InTurn
    <3>3. QED
      BY <2>2, <3>1, <3>2
  <2>3. CASE StartTurn(h) \/ CommitInput(h) \/ Abandon(h) \/ Release(h) \/ FailTurn(h) \/ TurnFails(h)
             \/ SettleTurn(h) \/ Settles(h)
    <3>1. drain[h].pc \in InTurn
      BY <2>3, SettleEnds DEF StartTurn, CommitInput, Abandon, Release, FailTurn, TurnFails, SettleTurn, At, InTurn
    <3>2. CASE StartTurn(h) \/ FailTurn(h)
      BY <3>1, <3>2, StartTurns, FailTurns DEF Turned
    <3>3. CASE Settles(h) \/ TurnFails(h)
      BY <3>1, <3>3, SettleEnds, TurnFailsTurns DEF Turned
    <3>4. CASE SettleTurn(h)
      BY <3>1, <3>4, EndTurns, GotoTurns DEF SettleTurn, Turned, Stages, InTurn, Outcomes
    <3>5. CASE CommitInput(h) \/ Abandon(h) \/ Release(h)
      <4>1. PICK stage \in InTurn : Goto(h, stage)
        BY <3>5 DEF CommitInput, Abandon, Release, InTurn
      <4>2. QED
        BY <3>1, <4>1, GotoTurns DEF Turned, Stages
    <3>6. QED
      BY <2>3, <3>2, <3>3, <3>4, <3>5
  <2>4. CASE DrainReady(h) \/ DrainLoop(h) \/ DrainThrows(h) \/ FinishTurn(h)
    BY <2>4, ReadyTurns, LoopTurns, ThrowTurns, FinishTurns DEF Turned, InTurn
  <2>5. CASE Unclaim(h) \/ Drop(h)
    <3>1. PICK stage \in {"exit", "loop"} : Goto(h, stage)
      BY <2>5 DEF Unclaim, Drop
    <3>2. QED
      BY <3>1, GotoTurns DEF Turned, Stages, InTurn
  <2>6. QED
    BY <2>1, <2>2, <2>3, <2>4, <2>5 DEF Working, Fails, Settles
<1>2. CASE ~(\E g \in Handle : Working(g))
  BY <1>2, StepTurns DEF Rests, InTurn, Outside
<1>3. QED
  BY <1>1, <1>2

LEMMA StepApart == Inv /\ [Next]_vars => Apart'
<1> SUFFICES ASSUME Inv, [Next]_vars
             PROVE  Apart'
  OBVIOUS
<1> USE DEF Inv
<1>1. live \subseteq Msg /\ live' \subseteq Msg
  BY StepShapes DEF Shapes, TypeOK
<1>2. ASSUME NEW m \in live'
      PROVE  rec'[m].status # "none"
  <2>1. CASE m \in live
    BY <1>1, <2>1, AdmittedStays DEF Apart
  <2>2. CASE m \notin live
    BY <1>1, <1>2, <2>2, LiveBegins, Status, AdmittedStays DEF Admitted, Pending
  <2>3. QED
    BY <2>1, <2>2
<1>3. ASSUME NEW h \in Handle, drain'[h].pc \in InTurn
      PROVE  drain'[h].msg \notin live' /\ rec'[drain'[h].msg].status # "none"
  <2>1. PICK m : m = drain'[h].msg
    OBVIOUS
  <2>2. CASE drain[h].pc \in InTurn /\ m = drain[h].msg
    <3>1. m \in Msg /\ m \notin live /\ rec[m].status # "none" /\ own = h
      BY <2>2, DrainFields, ConstantsOK DEF Shapes, DrainShapes, Apart, Owned, InTurn, Outside
    <3>2. m \notin live'
      BY <3>1, LiveBegins, ConstantsOK DEF Admitted
    <3>3. QED
      BY <2>1, <3>1, <3>2, AdmittedStays
  <2>3. CASE ClaimNext(h) /\ Chosen # 0 /\ m = Chosen /\ (Chosen = drain[h].head \/ Chosen \notin live)
    <3>1. m \in Pending /\ m \in Msg /\ rec[m].status # "none"
      BY <2>3, ChosenFirst DEF Pending
    <3>2. m \notin live'
      BY <2>3, ClaimTurns
    <3>3. QED
      BY <2>1, <3>1, <3>2, AdmittedStays
  <2>4. QED
    BY <1>3, <2>1, <2>2, <2>3, TurnSteps
<1>4. ASSUME NEW m \in Msg, run'[m] = "stranded"
      PROVE  m \notin live'
  <2>1. CASE Crash
    BY <2>1 DEF Crash
  <2>2. CASE ~Crash
    <3>1. \/ run[m] = "stranded"
          \/ \E h \in Handle : Settles(h) /\ m = drain[h].msg
      BY <1>4, <2>2, RunSteps DEF RunAdmitted, RunHanded, RunLost, RunCancelled, RunStarted, RunEnded, Terminal
    <3>2. m \notin live
      BY <3>1, SettleEnds DEF Apart, At, InTurn
    <3>3. QED
      BY <1>4, <3>2, LiveBegins DEF RunAdmitted, RunHanded
  <2>3. QED
    BY <2>1, <2>2
<1>5. ASSUME NEW h \in Handle, NEW m \in ToSet(kill'[h].snap)
      PROVE  /\ rec'[m].status # "none"
             /\ \A i \in DOMAIN calls' : calls'[i].msg # m
             /\ \A g \in Handle \ {h} : m \notin ToSet(queue'[g])
  <2>1. CASE m \in ToSet(kill[h].snap)
    <3>1. m \in Msg /\ rec[m].status # "none"
      BY <2>1, KillFields DEF Apart
    <3>2. \A i \in DOMAIN calls' : calls'[i].msg # m
      BY <2>1, <3>1, MessageSteps DEF Apart, Resume
    <3>3. ASSUME NEW g \in Handle, g # h
          PROVE  m \notin ToSet(queue'[g])
      <4>1. m \notin ToSet(queue[g])
        BY <2>1, <3>3 DEF Apart
      <4>2. ~(m = Line.msg /\ Pushed(g))
        BY <2>1, LineHeads DEF Pushed, Apart
      <4>3. ~(m = Line.msg /\ Handed(g))
        BY <2>1, LineHeads DEF Handed, Apart
      <4>4. QED
        BY <4>1, <4>2, <4>3, QueueOld
    <3>4. QED
      BY <3>1, <3>2, <3>3, AdmittedStays
  <2>2. CASE m \in ToSet(queue[h]) /\ (Kill(h) \/ KillAdmissions(h))
    <3>1. m \in Msg /\ rec[m].status # "none"
      BY <2>2, ItemsMsg DEF Waiting
    <3>2. UNCHANGED <<queue, calls>>
      BY <2>2 DEF Kill, KillAdmissions
    <3>3. ASSUME NEW i \in DOMAIN calls
          PROVE  calls[i].msg # m
      <4>1. run[m] = "queued" /\ m # 0
        BY <2>2, <3>1, ItemsMsg, ConstantsOK DEF Waiting
      <4>2. QED
        BY <2>2, <4>1 DEF Queued, Lined
    <3>4. \A g \in Handle \ {h} : m \notin ToSet(queue[g])
      BY <2>2, OneQueue
    <3>5. QED
      BY <3>1, <3>2, <3>3, <3>4, AdmittedStays
  <2>3. QED
    BY <1>5, <2>1, <2>2, SnapSteps
<1>6. QED
  BY <1>2, <1>3, <1>4, <1>5 DEF Apart

-----------------------------------------------------------------------------
(* A drain that chooses *)

\* While a drain chooses, a cancellation of its queue cannot fail.
LEMMA AllCancellable ==
  ASSUME Inv, NEW h \in Handle, drain[h].pc \in Choosing, NEW m \in ToSet(kill[h].snap)
  PROVE  Cancellable(m)
<1> USE DEF Inv
<1>1. m \in ToSet(queue[h])
  BY DEF Headed
<1>2. m \in Msg /\ Waiting(m)
  BY <1>1, ItemsMsg
<1>3. rec[m].status # "claiming"
  BY <1>2, NoClaims DEF Choosing, Outside, Claiming
<1>4. QED
  BY <1>2, <1>3 DEF Waiting, Cancellable

LEMMA ChoosingSteps ==
  ASSUME Inv, [Next]_vars, NEW h \in Handle, drain'[h].pc \in Choosing
  PROVE  \/ /\ drain[h].pc \in Choosing /\ drain'[h].pc = drain[h].pc /\ drain'[h].head = drain[h].head
            /\ ~(\E g \in Handle : Working(g))
         \/ DrainLoop(h) /\ term[h] = "open" /\ drain'[h].pc = "claim" /\ drain'[h].head = Oldest(h)
         \/ /\ ClaimNext(h) /\ Chosen = 0 /\ drain[h].head # 0 /\ drain'[h].pc = "drop"
            /\ drain'[h].head = drain[h].head
<1> USE DEF Inv
<1>1. CASE \E g \in Handle : Working(g)
  <2>1. Working(h)
    BY <1>1, NotOutside DEF Choosing, Outside
  <2>2. CASE ClaimNext(h)
    <3>1. drain'[h].pc = AfterClaim(h) /\ drain'[h].head = drain[h].head
      BY <2>2, ClaimTurns DEF Turned
    <3>2. QED
      BY <2>2, <3>1 DEF AfterClaim, Choosing
  <2>3. CASE DrainLoop(h)
    BY <2>3, LoopTurns DEF Turned, Choosing
  <2>4. CASE StartTurn(h) \/ FailTurn(h) \/ DrainReady(h) \/ FinishTurn(h)
    BY <2>4, StartTurns, FailTurns, ReadyTurns, FinishTurns DEF Turned, Choosing
  <2>5. CASE Settles(h) \/ DrainThrows(h) \/ TurnFails(h)
    BY <2>5, SettleEnds, ThrowTurns, TurnFailsTurns DEF Turned, Choosing
  <2>6. CASE SettleTurn(h)
    BY <2>6, EndTurns, GotoTurns DEF SettleTurn, Turned, Stages, InTurn, Choosing, Outcomes
  <2>7. CASE Unclaim(h) \/ Drop(h) \/ Abandon(h) \/ Release(h) \/ CommitInput(h)
    <3>1. PICK stage \in {"exit", "loop", "release", "finish", "body", "fail"} : Goto(h, stage)
      BY <2>7 DEF Unclaim, Drop, Abandon, Release, CommitInput
    <3>2. QED
      BY <3>1, GotoTurns DEF Turned, Stages, InTurn, Choosing
  <2>8. QED
    BY <2>1, <2>2, <2>3, <2>4, <2>5, <2>6, <2>7 DEF Working, Fails, Settles
<1>2. CASE ~(\E g \in Handle : Working(g))
  BY <1>2, StepTurns DEF Rests, Choosing, Outside
<1>3. QED
  BY <1>1, <1>2

\* What Headed says of one handle.
HeadedAt(h) ==
  /\ drain[h].head # 0 /\ (rec[drain[h].head].status # "acked" \/ term[h] = "open") =>
       queue[h] # <<>> /\ Head(queue[h]) = drain[h].head
  /\ At(h, "drop") => /\ drain[h].head # 0 /\ rec[drain[h].head].status = "acked"
                      /\ kill[h].phase # "first"
  /\ ToSet(kill[h].snap) \subseteq ToSet(queue[h])
  /\ kill[h].phase \in {"first", "second"} /\ queue[h] # <<>> => Head(queue[h]) \in ToSet(kill[h].snap)
  /\ term[h] = "killed" => ~kill[h].err

LEMMA HeadIn == \A s \in Seq(Msg) : s # <<>> => Head(s) \in ToSet(s)
  BY Heads, InSet

\* A drain that drops its head is the drain of a killed handle.
LEMMA DropsKilled ==
  ASSUME Inv, NEW h \in Handle, At(h, "drop")
  PROVE  term[h] = "killed"
<1> USE DEF Inv
<1>1. drain[h].head # 0 /\ rec[drain[h].head].status = "acked"
  BY DEF Headed, At, Choosing
<1>2. CASE term[h] = "open"
  <2>1. queue[h] # <<>> /\ Head(queue[h]) = drain[h].head
    BY <1>1, <1>2 DEF Headed, At, Choosing
  <2>2. Waiting(drain[h].head)
    BY <2>1, ItemsMsg, HeadIn
  <2>3. QED
    BY <1>1, <2>2 DEF Waiting
<1>3. QED
  BY <1>2 DEF Shapes, TypeOK

\* A drain that goes on choosing while something else moves.
LEMMA ChoosesOn ==
  ASSUME Inv, [Next]_vars, NEW h \in Handle, drain[h].pc \in Choosing, drain'[h].pc = drain[h].pc,
         drain'[h].head = drain[h].head, ~(\E g \in Handle : Working(g))
  PROVE  HeadedAt(h)'
<1> USE DEF Inv
<1>1. HeadedAt(h)
  BY DEF Headed, HeadedAt
<1>2. ~Crash /\ own = h /\ h # None
  <2>1. Crash => drain'[h] = NoDrain
    BY DEF Crash
  <2>2. QED
    BY <2>1, ConstantsOK DEF NoDrain, Choosing, Owned, Outside
<1>3. ~FirstFails(h) /\ ~SecondFails(h) /\ ~Reopened(h) /\ ~Renewed(h)
  <2>1. ~FirstFails(h)
    BY AllCancellable DEF FirstFails
  <2>2. kill[h].phase \in {"second", "reopens"} => term[h] = "killed" /\ ~kill[h].err
    BY <1>1 DEF Torn, HeadedAt, Shapes, TypeOK
  <2>3. ~SecondFails(h)
    BY <2>2, AllCancellable DEF SecondFails
  <2>4. ~Reopened(h)
    BY <2>2 DEF Reopened, Torn
  <2>5. QED
    BY <1>2, <2>1, <2>3, <2>4 DEF Renewed
<1>4. \/ kill'[h] = kill[h] /\ term'[h] = term[h]
      \/ KillStarts(h) \/ FirstCancels(h) \/ SecondBegins(h) \/ SecondCancels(h)
  BY <1>3, KillSteps
<1>5. term'[h] = "open" => term[h] = "open"
  BY <1>4 DEF KillStarts, FirstCancels, SecondBegins, SecondCancels
<1>6. \/ queue'[h] = queue[h]
      \/ queue'[h] = <<>> /\ (KillFirst(h) \/ KillSecond(h)) /\ \E phase : Cancels(h, phase)
      \/ Pushed(h)
  <2>1. ~Shifted(h)
    BY DEF Shifted, Working
  <2>2. ~Handed(h)
    BY <1>2 DEF Handed
  <2>3. QED
    BY <1>2, <2>1, <2>2, QueueSteps DEF Emptied, Parks, Working
<1>7. queue[h] \in Seq(Msg) /\ (drain[h].head # 0 => drain[h].head \in Msg)
  BY DrainFields, ConstantsOK DEF Shapes, TypeOK
<1>8. Pushed(h) => /\ queue'[h] # <<>> /\ ToSet(queue'[h]) = ToSet(queue[h]) \cup {Line.msg}
                   /\ (queue[h] # <<>> => Head(queue'[h]) = Head(queue[h]))
  <2>1. Pushed(h) => Line.msg \in Msg /\ queue'[h] = Append(queue[h], Line.msg)
    BY LineHeads, CallMsgs DEF Pushed, Lined
  <2>2. ASSUME Pushed(h), queue[h] # <<>>
        PROVE  Head(queue'[h]) = Head(queue[h])
    <3>1. Append(queue[h], Line.msg) \in Seq(Msg) /\ Append(queue[h], Line.msg) # <<>>
          /\ \A i \in DOMAIN queue[h] : Append(queue[h], Line.msg)[i] = queue[h][i]
      BY <1>7, <2>1, <2>2, AppendSet
    <3>2. 1 \in DOMAIN queue[h] /\ Head(queue[h]) = queue[h][1]
      BY <1>7, <2>2, Heads
    <3>3. Head(Append(queue[h], Line.msg)) = Append(queue[h], Line.msg)[1]
      BY <3>1, Heads
    <3>4. QED
      BY <2>1, <2>2, <3>1, <3>2, <3>3
  <2>3. ASSUME Pushed(h)
        PROVE  queue'[h] # <<>> /\ ToSet(queue'[h]) = ToSet(queue[h]) \cup {Line.msg}
    <3>1. /\ Append(queue[h], Line.msg) # <<>>
          /\ ToSet(Append(queue[h], Line.msg)) = ToSet(queue[h]) \cup {Line.msg}
      BY <1>7, <2>1, <2>3, AppendSet
    <3>2. QED
      BY <2>1, <2>3, <3>1
  <2>4. QED
    BY <2>2, <2>3
<1>9. ASSUME KillFirst(h) \/ KillSecond(h), NEW phase, Cancels(h, phase)
      PROVE  /\ kill'[h].snap = <<>> /\ term'[h] = term[h] /\ term[h] = "killed"
             /\ kill[h].phase \in {"first", "second"}
             /\ \A m \in ToSet(kill[h].snap) : rec'[m].status = "acked"
  <2>1. kill'[h].snap = <<>> /\ term'[h] = term[h]
    BY <1>9 DEF Cancels, Tears
  <2>2. kill[h].phase \in {"first", "second"}
    BY <1>9 DEF KillFirst, KillSecond
  <2>3. term[h] = "killed"
    BY <2>2 DEF Torn, Shapes, TypeOK
  <2>4. \A m \in ToSet(kill[h].snap) : rec'[m].status = "acked"
    BY <1>9, KillFields, Status DEF Cancels
  <2>5. QED
    BY <2>1, <2>2, <2>3, <2>4
\* The head that is kept, and the queue it heads.
<1>10. ASSUME drain[h].head # 0, rec'[drain[h].head].status # "acked" \/ term'[h] = "open"
       PROVE  queue'[h] # <<>> /\ Head(queue'[h]) = drain[h].head
  <2>1. rec[drain[h].head].status # "acked" \/ term[h] = "open"
    BY <1>5, <1>7, <1>10, AckedStays
  <2>2. queue[h] # <<>> /\ Head(queue[h]) = drain[h].head
    BY <1>1, <1>10, <2>1 DEF HeadedAt
  <2>3. ASSUME KillFirst(h) \/ KillSecond(h), NEW phase, Cancels(h, phase)
        PROVE  FALSE
    <3>1. Head(queue[h]) \in ToSet(kill[h].snap)
      BY <1>1, <1>9, <2>2, <2>3 DEF HeadedAt
    <3>2. QED
      BY <1>9, <1>10, <2>2, <2>3, <3>1
  <2>4. QED
    BY <1>6, <1>8, <2>2, <2>3
<1>11. ASSUME At(h, "drop")
       PROVE  /\ drain[h].head # 0 /\ rec'[drain[h].head].status = "acked" /\ kill'[h].phase # "first"
  <2>1. drain[h].head # 0 /\ rec[drain[h].head].status = "acked" /\ kill[h].phase # "first"
    BY <1>1, <1>11 DEF HeadedAt
  <2>2. rec'[drain[h].head].status = "acked"
    BY <1>7, <2>1, AckedStays
  <2>3. ~KillStarts(h)
    BY <1>11, DropsKilled DEF KillStarts
  <2>4. kill'[h].phase # "first"
    BY <1>4, <2>1, <2>3 DEF FirstCancels, SecondBegins, SecondCancels, Becomes
  <2>5. QED
    BY <2>1, <2>2, <2>4
<1>12. KillStarts(h) \/ SecondBegins(h) => kill'[h].snap = queue[h] /\ queue'[h] = queue[h]
  BY DEF KillStarts, SecondBegins, Becomes, Kill, KillAdmissions
<1>13. FirstCancels(h) \/ SecondCancels(h) =>
         kill'[h].snap = <<>> /\ kill'[h].phase \notin {"first", "second"} /\ kill'[h].err = kill[h].err
         /\ term'[h] = term[h]
  BY DEF FirstCancels, SecondCancels, Becomes
<1>14. ToSet(kill'[h].snap) \subseteq ToSet(queue'[h])
  <2>1. CASE kill'[h].snap = <<>>
    BY <2>1, NoSet
  <2>2. CASE kill'[h].snap # <<>>
    BY <1>1, <1>4, <1>6, <1>8, <1>9, <1>12, <1>13, <2>2 DEF HeadedAt
  <2>3. QED
    BY <2>1, <2>2
<1>15. ASSUME kill'[h].phase \in {"first", "second"}, queue'[h] # <<>>
       PROVE  Head(queue'[h]) \in ToSet(kill'[h].snap)
  <2>1. CASE KillStarts(h) \/ SecondBegins(h)
    BY <1>7, <1>12, <1>15, <2>1, HeadIn
  <2>2. CASE kill'[h] = kill[h] /\ queue'[h] = queue[h]
    BY <1>1, <1>15, <2>2 DEF HeadedAt
  <2>3. CASE kill'[h] = kill[h] /\ Pushed(h)
    <3>1. kill[h].phase = "first"
      <4>1. kill[h].phase = "second" => AdmissionsEnded(h)
        BY DEF Torn
      <4>2. ~AdmissionsEnded(h)
        BY <2>3, LineHeads DEF Pushed, AdmissionsEnded
      <4>3. QED
        BY <1>15, <2>3, <4>1, <4>2
    <3>2. queue[h] # <<>>
      <4>1. kill[h].snap # <<>> /\ kill[h].snap \in Seq(Msg)
        BY <3>1, KillFields DEF Torn
      <4>2. Head(kill[h].snap) \in ToSet(queue[h])
        BY <1>1, <4>1, HeadIn DEF HeadedAt
      <4>3. QED
        BY <4>2, NoSet
    <3>3. QED
      BY <1>1, <1>8, <1>15, <2>3, <3>1, <3>2 DEF HeadedAt
  <2>4. QED
    BY <1>4, <1>6, <1>13, <1>15, <2>1, <2>2, <2>3
<1>16. term'[h] = "killed" => ~kill'[h].err
  <2>1. CASE KillStarts(h)
    BY <2>1 DEF KillStarts, Becomes
  <2>2. CASE SecondBegins(h)
    BY <1>1, <2>2 DEF SecondBegins, Becomes, HeadedAt
  <2>3. QED
    BY <1>1, <1>4, <1>13, <2>1, <2>2 DEF HeadedAt
<1>17. QED
  BY <1>10, <1>11, <1>14, <1>15, <1>16 DEF HeadedAt, At

LEMMA StepHeaded == Inv /\ [Next]_vars => Headed'
<1> SUFFICES ASSUME Inv, [Next]_vars
             PROVE  Headed'
  OBVIOUS
<1> USE DEF Inv
<1>1. SUFFICES ASSUME NEW h \in Handle, drain'[h].pc \in Choosing
               PROVE  HeadedAt(h)'
  BY DEF Headed, HeadedAt
<1>2. CASE /\ drain[h].pc \in Choosing /\ drain'[h].pc = drain[h].pc /\ drain'[h].head = drain[h].head
           /\ ~(\E g \in Handle : Working(g))
  BY <1>2, ChoosesOn
<1>3. CASE DrainLoop(h) /\ term[h] = "open" /\ drain'[h].pc = "claim" /\ drain'[h].head = Oldest(h)
  <2>1. UNCHANGED <<rec, queue, kill, term>>
    BY <1>3 DEF DrainLoop
  <2>2. kill[h].phase \in {"none", "failed"} /\ ToSet(kill[h].snap) = {}
    BY <1>3, NoSet DEF Torn
  <2>3. Oldest(h) # 0 => queue[h] # <<>> /\ Head(queue[h]) = Oldest(h)
    BY DEF Oldest
  <2>4. QED
    BY <1>3, <2>1, <2>2, <2>3 DEF HeadedAt, At
<1>4. CASE /\ ClaimNext(h) /\ Chosen = 0 /\ drain[h].head # 0 /\ drain'[h].pc = "drop"
           /\ drain'[h].head = drain[h].head
  <2>1. rec' = rec /\ queue' = queue /\ UNCHANGED <<kill, term>>
    BY <1>4, ClaimTurns DEF ClaimNext
  <2>2. HeadedAt(h)
    BY <1>4 DEF Headed, HeadedAt, ClaimNext, At, Choosing
  <2>3. queue[h] = <<>>
    <3>1. SUFFICES ASSUME queue[h] # <<>> PROVE FALSE
      OBVIOUS
    <3>2. Head(queue[h]) \in Msg /\ Waiting(Head(queue[h]))
      BY <3>1, ItemsMsg, HeadIn
    <3>3. QED
      BY <1>4, <3>2, NoneWaits
  <2>4. rec[drain[h].head].status = "acked" /\ term[h] # "open"
    BY <1>4, <2>2, <2>3 DEF HeadedAt
  <2>5. kill[h].phase # "first"
    <3>1. ToSet(kill[h].snap) = {}
      BY <2>2, <2>3, NoSet DEF HeadedAt
    <3>2. kill[h].snap # <<>> => Head(kill[h].snap) \in ToSet(kill[h].snap)
      BY KillFields, HeadIn
    <3>3. QED
      BY <3>1, <3>2 DEF Torn
  <2>6. QED
    BY <1>4, <2>1, <2>2, <2>3, <2>4, <2>5 DEF HeadedAt, At
<1>5. QED
  BY <1>1, <1>2, <1>3, <1>4, ChoosingSteps

-----------------------------------------------------------------------------
(* What a teardown has closed *)

LEMMA OpenKnown ==
  ASSUME Inv, NEW m \in Msg, turnOf[m] = "open"
  PROVE  rec[m].status # "none" /\ by[m] \in Handle
<1> USE DEF Inv
<1>1. by[m] \in Handle
  BY DEF Open
<1>2. CASE m \in ToSet(queue[by[m]])
  BY <1>1, <1>2, ItemsMsg DEF Waiting
<1>3. CASE drain[by[m]].pc \in InTurn /\ drain[by[m]].msg = m
  BY <1>1, <1>3 DEF Apart
<1>4. QED
  BY <1>1, <1>2, <1>3 DEF Open

\* A turn that is open after a step was so before, or is that of the input pushed.
Opened(m) ==
  /\ Push /\ calls # <<>> /\ Line.step = "push" /\ m = Line.msg /\ by[m] = Line.h
  /\ term[Line.h] = "open" /\ Pushed(Line.h)

LEMMA OpenSteps ==
  ASSUME Inv, [Next]_vars, NEW m \in Msg, turnOf'[m] = "open"
  PROVE  by'[m] = by[m] /\ (turnOf[m] = "open" \/ Opened(m))
<1> USE DEF Inv
<1>1. turnOf \in [Msg -> {"none", "open", "ended", "gone"}] /\ by \in [Msg -> Handle \cup {None}]
  BY DEF Shapes, TypeOK
<1>2. ASSUME NEW ms, Close(ms)
      PROVE  turnOf[m] = "open"
  BY <1>2 DEF Close
<1>3. ASSUME NEW h \in Handle, Teardown(h)
      PROVE  turnOf[m] = "open" /\ by' = by
  <2>1. by' = by
    BY <1>3 DEF Teardown, KillFirst, KillAdmissions, KillSecond, KillReopens
  <2>2. turnOf' = turnOf \/ Close(Spliced(h))
    BY <1>3, FirstTears, SecondTears DEF Teardown, KillAdmissions, KillReopens, Cancels
  <2>3. QED
    BY <1>2, <2>1, <2>2
<1>4. ASSUME NEW h \in Handle, Drop(h) \/ FinishTurn(h) \/ Kill(h) \/ DrainSettled(h)
      PROVE  turnOf[m] = "open" /\ by' = by
  <2>1. \E ms : Close(ms)
    BY <1>4 DEF Drop, FinishTurn, Kill, DrainSettled
  <2>2. by' = by
    BY <1>4 DEF Drop, FinishTurn, Kill, DrainSettled
  <2>3. QED
    BY <1>2, <2>1, <2>2
<1>5. CASE Push
  <2>1. calls # <<>> /\ Line.step = "push" /\ by' = by
    BY <1>5 DEF Push, InLine
  <2>2. Pushed(Line.h) /\ by[Line.msg] = Line.h
    <3>1. queue'[Line.h] = Append(queue[Line.h], Line.msg)
      BY <1>5, <2>1, LineHeads DEF Push, Shapes, TypeOK
    <3>2. QED
      BY <1>5, <2>1, <3>1, LineHeads DEF Pushed, Lined
  <2>3. turnOf' = [turnOf EXCEPT ![Line.msg] = IF term[Line.h] = "open" THEN "open" ELSE "gone"]
    BY <1>5 DEF Push
  <2>4. CASE m = Line.msg
    <3>1. term[Line.h] = "open"
      BY <1>1, <2>3, <2>4
    <3>2. QED
      BY <1>5, <2>1, <2>2, <2>4, <3>1 DEF Opened
  <2>5. CASE m # Line.msg
    BY <1>1, <2>1, <2>3, <2>5
  <2>6. QED
    BY <2>4, <2>5
<1>6. CASE Admit
  <2>1. turnOf' = turnOf /\ by' = [by EXCEPT ![NextAdmittedSeq] = Line.h]
    BY <1>6 DEF Admit
  <2>2. rec[NextAdmittedSeq].status = "none"
    BY <1>6, NextIsNew DEF Admit
  <2>3. m # NextAdmittedSeq
    BY <2>1, <2>2, OpenKnown
  <2>4. QED
    BY <1>1, <2>1, <2>3
<1>7. CASE Crash
  BY <1>7 DEF Crash
<1>8. ASSUME NEW h \in Handle, Working(h), ~Drop(h), ~FinishTurn(h)
      PROVE  UNCHANGED <<turnOf, by>>
  BY <1>8 DEF Working, DrainReady, DrainLoop, ClaimNext, Unclaim, StartTurn, Abandon, Release,
     CommitInput, FailTurn, Fails, DrainThrows, TurnFails, SettleRefused, Settle, SettleTurn, SettleFailed, callerVars
<1>9. ASSUME NEW h \in Handle,
             \/ DrainOwn(h) \/ DrainRecover(h) \/ RestartReleased(h) \/ DrainExit(h)
             \/ Send(h) \/ Load(h) \/ Interrupt(h) \/ \E n \in Msg : Resume(h, n)
      PROVE  UNCHANGED <<turnOf, by>>
  BY <1>9 DEF DrainOwn, DrainRecover, RestartReleased, DrainExit, Send, Join, Load, Interrupt, Resume
<1>10. CASE BeginCall \/ AdmitChecks \/ HandOff \/ FlightLands \/ UNCHANGED vars
  BY <1>10 DEF BeginCall, AdmitChecks, HandOff, FlightLands
<1>11. QED
  BY <1>3, <1>4, <1>5, <1>6, <1>7, <1>8, <1>9, <1>10, Steps

\* A call in line was there before the step, or joins it on an open handle.
LEMMA CallSteps ==
  ASSUME Inv, [Next]_vars, NEW i \in DOMAIN calls'
  PROVE  \/ \E j \in DOMAIN calls : calls'[i].h = calls[j].h
         \/ \E h \in Handle : calls'[i].h = h /\ term[h] = "open"
<1> USE DEF Inv
<1>1. CASE calls # <<>> /\ Leave
  BY <1>1, LineLeaves
<1>2. ASSUME calls # <<>>, NEW step \in {"recover", "admit"}, Step(step)
      PROVE  \E j \in DOMAIN calls : calls'[i].h = calls[j].h
  <2>1. DOMAIN calls' = DOMAIN calls /\ calls'[1] = [h |-> Line.h, step |-> step, msg |-> Line.msg]
        /\ \A j \in DOMAIN calls \ {1} : calls'[j] = calls[j]
    BY <1>2, LineSteps
  <2>2. calls'[1].h = calls[1].h
    BY <1>2, <2>1, LineHeads
  <2>3. QED
    BY <2>1, <2>2
<1>3. ASSUME NEW h \in Handle, NEW m \in 0..MaxSends, Join(h, m)
      PROVE  \/ \E j \in DOMAIN calls : calls'[i].h = calls[j].h
             \/ \E g \in Handle : calls'[i].h = g /\ term[g] = "open"
  <2> DEFINE n == Len(calls) + 1
             c == [h |-> h, step |-> "begin", msg |-> m]
  <2>1. DOMAIN calls' = DOMAIN calls \cup {n} /\ \A j \in DOMAIN calls : calls'[j] = calls[j]
    BY <1>3, LineJoins
  <2>2. calls'[n] = c /\ c.h = h
    <3>1. calls'[Len(calls) + 1] = [h |-> h, step |-> "begin", msg |-> m]
      BY <1>3, LineJoins
    <3>2. QED
      BY <3>1
  <2>3. term[h] = "open"
    BY <1>3 DEF Join
  <2> HIDE DEF n, c
  <2>4. QED
    BY <2>1, <2>2, <2>3
<1>4. CASE Admit
  <2> DEFINE s == NextAdmittedSeq
             c == [h |-> Line.h, step |-> "push", msg |-> s]
  <2>1. calls # <<>> /\ calls' = <<c>> \o Tail(calls)
    BY <1>4 DEF Admit, InLine
  <2>2. s \in 0..MaxSends
    BY <1>4, NextIsNew, ConstantsOK DEF Admit
  <2> HIDE DEF s
  <2>3. c \in Calls /\ c.h = Line.h
    BY <2>1, <2>2, LineHeads DEF Calls
  <2> HIDE DEF c
  <2>4. DOMAIN calls' = DOMAIN calls /\ calls'[1] = c /\ \A j \in DOMAIN calls \ {1} : calls'[j] = calls[j]
    BY <2>1, <2>3, LineReplaces
  <2>5. Line = calls[1] /\ 1 \in DOMAIN calls
    BY <2>1, LineHeads
  <2>6. QED
    BY <2>3, <2>4, <2>5
<1>5. ASSUME NEW h \in Handle, Send(h) \/ \E m \in Msg : Resume(h, m)
      PROVE  \/ \E j \in DOMAIN calls : calls'[i].h = calls[j].h
             \/ \E g \in Handle : calls'[i].h = g /\ term[g] = "open"
  BY <1>3, <1>5, ConstantsOK DEF Send, Resume
<1>6. CASE BeginCall \/ AdmitChecks
  <2>1. calls # <<>> /\ (Leave \/ Step("recover") \/ Step("admit"))
    BY <1>6 DEF BeginCall, AdmitChecks, InLine
  <2>2. QED
    BY <1>1, <1>2, <2>1
<1>7. CASE Push \/ HandOff
  BY <1>1, <1>7 DEF Push, HandOff, InLine
<1>8. CASE Crash
  <2>1. DOMAIN calls' = {}
    BY <1>8 DEF Crash
  <2>2. QED
    BY <2>1
<1>9. ASSUME NEW g \in Handle,
             \/ DrainOwn(g) \/ DrainRecover(g) \/ RestartReleased(g) \/ DrainExit(g) \/ DrainSettled(g)
             \/ Load(g) \/ Teardown(g) \/ Interrupt(g) \/ Kill(g)
      PROVE  calls' = calls
  BY <1>9 DEF DrainOwn, DrainRecover, RestartReleased, DrainExit, DrainSettled, Load, Teardown,
     KillFirst, KillAdmissions, KillSecond, KillReopens, Interrupt, Kill
<1>10. CASE FlightLands \/ UNCHANGED vars
  BY <1>10 DEF FlightLands
<1>11. QED
  BY <1>1, <1>4, <1>5, <1>6, <1>7, <1>8, <1>9, <1>10, WorkGrows, Steps

\* What Torn says of one handle.
TornAt(h) ==
  /\ term[h] = "open" <=> kill[h].phase \in {"none", "failed"}
  /\ kill[h].phase \notin {"first", "second"} => kill[h].snap = <<>>
  /\ kill[h].phase = "first" => kill[h].snap # <<>>
  /\ kill[h].phase \in {"first", "done"} => ~kill[h].err
  /\ kill[h].phase = "reopens" => kill[h].err
  /\ kill[h].phase \in {"second", "reopens", "done"} => AdmissionsEnded(h)
  /\ kill[h].phase = "first" => \A m \in Msg : by[m] = h /\ turnOf[m] = "open" => m \in ToSet(kill[h].snap)
  /\ kill[h].phase \in {"admissions", "second"} /\ ~kill[h].err => Closed(h)
  /\ kill[h].phase = "done" => queue[h] = <<>> /\ Closed(h)

\* On a killed handle no call joins the line and no turn opens.
LEMMA KilledHandle ==
  ASSUME Inv, [Next]_vars, NEW h \in Handle, term[h] = "killed"
  PROVE  /\ AdmissionsEnded(h) => AdmissionsEnded(h)'
         /\ \A m \in Msg : by'[m] = h /\ turnOf'[m] = "open" => by[m] = h /\ turnOf[m] = "open"
         /\ AdmissionsEnded(h) /\ queue[h] = <<>> => queue'[h] = <<>>
<1> USE DEF Inv
<1>1. AdmissionsEnded(h) => AdmissionsEnded(h)'
  BY CallSteps DEF AdmissionsEnded
<1>2. \A m \in Msg : by'[m] = h /\ turnOf'[m] = "open" => by[m] = h /\ turnOf[m] = "open"
  BY OpenSteps DEF Opened
<1>3. ASSUME AdmissionsEnded(h), queue[h] = <<>>
      PROVE  queue'[h] = <<>>
  <2>1. ~Pushed(h) /\ ~Handed(h)
    BY <1>3, LineHeads DEF Pushed, Handed, AdmissionsEnded
  <2>2. QED
    BY <1>3, <2>1, QueueSteps DEF Emptied, Shifted
<1>4. QED
  BY <1>1, <1>2, <1>3

\* The teardown itself.
LEMMA TornSteps ==
  ASSUME Inv, [Next]_vars, NEW h \in Handle,
         \/ KillStarts(h) \/ FirstCancels(h) \/ FirstFails(h) \/ SecondBegins(h) \/ SecondCancels(h)
         \/ SecondFails(h) \/ Reopened(h) \/ Renewed(h)
  PROVE  TornAt(h)'
<1> USE DEF Inv
<1>1. TornAt(h)
  BY DEF Torn, TornAt
<1>2. CASE KillStarts(h)
  <2>1. /\ term'[h] = "killed" /\ ~kill'[h].err /\ kill'[h].snap = queue[h]
        /\ kill'[h].phase = IF queue[h] = <<>> THEN "admissions" ELSE "first"
    BY <1>2 DEF KillStarts, Becomes
  <2>2. ASSUME NEW m \in Msg, by'[m] = h, turnOf'[m] = "open"
        PROVE  m \in ToSet(queue[h])
    <3>1. turnOf[m] = "open" /\ by[m] = h
      <4>1. by' = by /\ \E ms : Close(ms)
        BY <1>2 DEF KillStarts, Kill
      <4>2. QED
        BY <2>2, <4>1 DEF Close
    <3>2. ~(drain[h].pc \in InTurn /\ drain[h].msg = m /\ drain[h].head = m)
      <4>1. SUFFICES ASSUME drain[h].pc \in InTurn /\ drain[h].msg = m /\ drain[h].head = m
                     PROVE  FALSE
        OBVIOUS
      <4>2. Mine(drain[h])
        BY <4>1, ConstantsOK DEF Mine
      <4>3. Close({drain[h].msg})
        BY <1>2, <4>1, <4>2 DEF KillStarts, Kill
      <4>4. QED
        BY <2>2, <4>1, <4>3 DEF Close
    <3>3. QED
      BY <3>1, <3>2 DEF Open
  <2>3. kill'[h].phase = "admissions" => Closed(h)'
    BY <2>1, <2>2, NoSet DEF Closed
  <2>4. QED
    BY <2>1, <2>2, <2>3 DEF TornAt
<1>3. CASE FirstCancels(h)
  <2>1. /\ term'[h] = term[h] /\ kill'[h].phase = "admissions" /\ kill'[h].snap = <<>>
        /\ kill[h].phase = "first"
    BY <1>3 DEF FirstCancels, Becomes
  <2>2. term[h] = "killed"
    BY <1>1, <2>1 DEF TornAt, Shapes, TypeOK
  <2>3. Close(Spliced(h))
    BY <1>3 DEF FirstCancels, Cancels
  <2>4. ASSUME NEW m \in Msg, by'[m] = h, turnOf'[m] = "open"
        PROVE  FALSE
    <3>1. m \in ToSet(kill[h].snap)
      BY <1>1, <2>1, <2>2, <2>4, KilledHandle DEF TornAt
    <3>2. QED
      BY <2>3, <2>4, <3>1 DEF Close, Spliced
  <2>5. QED
    BY <2>1, <2>2, <2>4 DEF TornAt, Closed
<1>4. CASE FirstFails(h)
  <2>1. /\ term'[h] = term[h] /\ kill'[h].phase = "admissions" /\ kill'[h].snap = <<>> /\ kill'[h].err
        /\ kill[h].phase = "first"
    BY <1>4 DEF FirstFails, Becomes
  <2>2. term[h] # "open"
    BY <1>1, <2>1 DEF TornAt
  <2>3. QED
    BY <2>1, <2>2 DEF TornAt
<1>5. CASE SecondBegins(h)
  <2>1. /\ term'[h] = term[h] /\ kill'[h].phase = "second" /\ kill'[h].err = kill[h].err
        /\ kill[h].phase = "admissions" /\ AdmissionsEnded(h)
    BY <1>5 DEF SecondBegins, Becomes
  <2>2. term[h] = "killed"
    BY <1>1, <2>1 DEF TornAt, Shapes, TypeOK
  <2>3. AdmissionsEnded(h)' /\ (~kill'[h].err => Closed(h)')
    BY <1>1, <2>1, <2>2, KilledHandle DEF TornAt, Closed
  <2>4. QED
    BY <2>1, <2>2, <2>3 DEF TornAt
<1>6. CASE SecondCancels(h)
  <2>1. /\ term'[h] = term[h] /\ kill'[h].phase = (IF kill[h].err THEN "reopens" ELSE "done")
        /\ kill'[h].snap = <<>> /\ kill'[h].err = kill[h].err /\ kill[h].phase = "second"
    BY <1>6 DEF SecondCancels, Becomes
  <2>2. term[h] = "killed"
    BY <1>1, <2>1 DEF TornAt, Shapes, TypeOK
  <2>3. AdmissionsEnded(h)' /\ (~kill[h].err => Closed(h)')
    BY <1>1, <2>1, <2>2, KilledHandle DEF TornAt, Closed
  <2>4. queue'[h] = <<>>
    BY <1>6 DEF SecondCancels, Cancels, Shapes, TypeOK
  <2>5. QED
    BY <2>1, <2>2, <2>3, <2>4 DEF TornAt
<1>7. CASE SecondFails(h) \/ Reopened(h) \/ Renewed(h)
  <2>1. kill[h].phase = "reopens" => kill[h].snap = <<>>
    BY <1>1 DEF TornAt
  <2>2. term'[h] = "open" /\ kill'[h].phase \in {"none", "failed"} /\ kill'[h].snap = <<>>
    BY <1>7, <2>1 DEF SecondFails, Reopened, Renewed, Becomes
  <2>3. QED
    BY <2>2 DEF TornAt
<1>8. QED
  BY <1>2, <1>3, <1>4, <1>5, <1>6, <1>7

LEMMA StepTorn == Inv /\ [Next]_vars => Torn'
<1> SUFFICES ASSUME Inv, [Next]_vars
             PROVE  Torn'
  OBVIOUS
<1> USE DEF Inv
<1>1. SUFFICES ASSUME NEW h \in Handle
               PROVE  TornAt(h)'
  BY DEF Torn, TornAt
<1>2. CASE kill'[h] # kill[h] \/ term'[h] # term[h]
  BY <1>2, KillSteps, TornSteps
<1>3. CASE kill'[h] = kill[h] /\ term'[h] = term[h]
  <2>1. TornAt(h)
    BY DEF Torn, TornAt
  <2>2. CASE term[h] = "open"
    <3>1. kill[h].phase \in {"none", "failed"}
      BY <2>1, <2>2 DEF TornAt
    <3>2. QED
      BY <1>3, <2>1, <2>2, <3>1 DEF TornAt
  <2>3. CASE term[h] = "killed"
    <3>1. kill[h].phase \notin {"none", "failed"}
      BY <2>1, <2>3 DEF TornAt
    <3>2. kill[h].phase \in {"second", "reopens", "done"} => AdmissionsEnded(h) /\ AdmissionsEnded(h)'
      BY <2>1, <2>3, KilledHandle DEF TornAt
    <3>3. kill[h].phase = "first" =>
            \A m \in Msg : by'[m] = h /\ turnOf'[m] = "open" => m \in ToSet(kill[h].snap)
      BY <2>1, <2>3, KilledHandle DEF TornAt
    <3>4. Closed(h) => Closed(h)'
      BY <2>3, KilledHandle DEF Closed
    <3>5. kill[h].phase = "done" => queue'[h] = <<>>
      BY <2>1, <2>3, <3>2, KilledHandle DEF TornAt
    <3>6. QED
      BY <1>3, <2>1, <2>3, <3>1, <3>2, <3>3, <3>4, <3>5 DEF TornAt
  <2>4. QED
    BY <2>2, <2>3 DEF Shapes, TypeOK
<1>4. QED
  BY <1>2, <1>3

-----------------------------------------------------------------------------
(* The callers who wait *)

\* A turn goes on until it is released, or its process dies.
LEMMA TurnEnds ==
  ASSUME Inv, [Next]_vars, NEW h \in Handle, drain[h].pc \in InTurn, ~Crash, ~FinishTurn(h)
  PROVE  drain'[h].pc \in InTurn /\ drain'[h].msg = drain[h].msg /\ drain'[h].head = drain[h].head
<1> USE DEF Inv
<1>1. CASE Working(h)
  <2>1. CASE StartTurn(h) \/ FailTurn(h)
    BY <2>1, StartTurns, FailTurns DEF Turned, InTurn
  <2>2. CASE Settles(h) \/ TurnFails(h)
    BY <2>2, SettleEnds, TurnFailsTurns DEF Turned, InTurn
  <2>3. CASE SettleTurn(h)
    <3>1. End(h, "processed") \/ Goto(h, "settle")
      BY <2>3 DEF SettleTurn
    <3>2. QED
      BY <3>1, EndTurns, GotoTurns DEF Turned, Stages, InTurn, Outcomes
  <2>4. CASE CommitInput(h) \/ Abandon(h) \/ Release(h)
    <3>1. PICK stage \in InTurn : Goto(h, stage)
      BY <2>4 DEF CommitInput, Abandon, Release, InTurn
    <3>2. QED
      BY <3>1, GotoTurns DEF Turned, Stages
  <2>5. ~(DrainReady(h) \/ DrainLoop(h) \/ ClaimNext(h) \/ Unclaim(h) \/ Drop(h) \/ DrainThrows(h))
    BY DEF DrainReady, DrainLoop, ClaimNext, Unclaim, Drop, DrainThrows, At, InTurn
  <2>6. QED
    BY <1>1, <2>1, <2>2, <2>3, <2>4, <2>5 DEF Working, Fails, Settles
<1>2. CASE ~Working(h)
  <2>1. drain'[h].pc = drain[h].pc
    BY <1>2, LeavesPass DEF At, InTurn
  <2>2. CASE \E g \in Handle : Working(g)
    BY <1>2, <2>2, NotOutside DEF InTurn, Outside
  <2>3. CASE Rests(h)
    BY <2>1, <2>3 DEF Rests, InTurn, Outside
  <2>4. QED
    BY <2>2, <2>3, StepTurns
<1>3. QED
  BY <1>1, <1>2

\* An item that leaves its queue while its caller waits is the one that is claimed.
LEMMA OpenLeaves ==
  ASSUME Inv, [Next]_vars, NEW h \in Handle, NEW m \in Msg, by[m] = h, turnOf[m] = "open",
         turnOf'[m] = "open", m \in ToSet(queue[h]), m \notin ToSet(queue'[h])
  PROVE  drain'[h].pc \in InTurn /\ drain'[h].msg = m /\ drain'[h].head = m
<1> USE DEF Inv
<1>1. queue[h] \in Seq(Msg)
  BY ItemsMsg
<1>2. ~Emptied(h)
  <2>1. ~Crash
    BY DEF Crash
  <2>2. ~Parks(h)
    BY DEF FinishTurn, Close, Parks
  <2>3. ASSUME NEW phase, Cancels(h, phase)
        PROVE  FALSE
    BY <2>3 DEF Cancels, Close, Spliced
  <2>4. QED
    BY <2>1, <2>2, <2>3 DEF Emptied
<1>3. ~Pushed(h)
  <2>1. SUFFICES ASSUME Pushed(h) PROVE FALSE
    OBVIOUS
  <2>2. Line.msg \in Msg /\ queue'[h] = Append(queue[h], Line.msg)
    BY <2>1, LineHeads, CallMsgs DEF Pushed, Lined
  <2>3. ToSet(Append(queue[h], Line.msg)) = ToSet(queue[h]) \cup {Line.msg}
    BY <1>1, <2>2, AppendSet
  <2>4. QED
    BY <2>2, <2>3
<1>4. ~Handed(h)
  BY NoSet DEF Handed
<1>5. Shifted(h)
  BY <1>2, <1>3, <1>4, QueueSteps
<1>6. m = Head(queue[h])
  <2>1. PICK i \in DOMAIN queue[h] : m = queue[h][i]
    BY OfSet
  <2>2. CASE i = 1
    BY <1>1, <1>5, <2>1, <2>2, Heads DEF Shifted
  <2>3. CASE i # 1
    <3>1. i - 1 \in DOMAIN Tail(queue[h]) /\ Tail(queue[h])[i - 1] = m
      <4>1. i \in 1..Len(queue[h]) /\ DOMAIN Tail(queue[h]) = 1..(Len(queue[h]) - 1)
            /\ Len(queue[h]) \in Nat
        BY <1>1, <1>5, <2>1, Heads DEF Shifted
      <4>2. i - 1 \in 1..(Len(queue[h]) - 1) /\ (i - 1) + 1 = i
        BY <2>3, <4>1
      <4>3. \A k \in 1..(Len(queue[h]) - 1) : Tail(queue[h])[k] = queue[h][k + 1]
        BY <1>1, <1>5, Heads DEF Shifted
      <4>4. QED
        BY <2>1, <4>1, <4>2, <4>3
    <3>2. QED
      BY <1>5, <3>1, InSet DEF Shifted
  <2>4. QED
    BY <2>2, <2>3
<1>7. ~Drop(h)
  <2>1. SUFFICES ASSUME At(h, "drop") PROVE FALSE
    BY DEF Drop
  <2>2. term[h] = "killed" /\ kill[h].phase # "first" /\ ~kill[h].err
    BY <2>1, DropsKilled DEF Headed, At, Choosing
  <2>3. kill[h].phase \in {"admissions", "second", "done"}
    BY <2>2, KillFields DEF Torn
  <2>4. Closed(h)
    BY <2>2, <2>3 DEF Torn
  <2>5. QED
    BY <2>4 DEF Closed
<1>8. ClaimNext(h) /\ Chosen # 0 /\ Chosen = drain[h].head
  BY <1>5, <1>7 DEF Shifted
<1>9. Chosen = m
  BY <1>6, <1>8, ClaimedHead
<1>10. drain'[h].pc = "start" /\ drain'[h].msg = Chosen /\ drain'[h].head = drain[h].head
  BY <1>8, ClaimTurns DEF Turned, AfterClaim
<1>11. QED
  BY <1>8, <1>9, <1>10 DEF InTurn

LEMMA StepOpen == Inv /\ [Next]_vars => Open'
<1> SUFFICES ASSUME Inv, [Next]_vars
             PROVE  Open'
  OBVIOUS
<1> USE DEF Inv
<1>1. SUFFICES ASSUME NEW m \in Msg, turnOf'[m] = "open"
               PROVE  /\ by'[m] \in Handle
                      /\ \/ m \in ToSet(queue'[by'[m]])
                         \/ drain'[by'[m]].pc \in InTurn /\ drain'[by'[m]].msg = m /\ drain'[by'[m]].head = m
  BY DEF Open
<1>2. PICK h : h = by[m]
  OBVIOUS
<1>3. by'[m] = h
  BY <1>1, <1>2, OpenSteps
<1>4. CASE Opened(m)
  <2>1. h \in Handle /\ h = Line.h /\ Line.msg = m
    BY <1>2, <1>4, LineHeads DEF Opened
  <2>2. queue'[h] = Append(queue[h], m) /\ queue[h] \in Seq(Msg)
    BY <1>4, <2>1, ItemsMsg DEF Opened, Pushed
  <2>3. m \in ToSet(Append(queue[h], m))
    BY <2>2, AppendSet
  <2>4. QED
    BY <1>3, <2>1, <2>2, <2>3
<1>5. CASE turnOf[m] = "open"
  <2>1. h \in Handle
    BY <1>2, <1>5, OpenKnown
  <2>2. CASE m \in ToSet(queue[h])
    BY <1>1, <1>2, <1>3, <1>5, <2>1, <2>2, OpenLeaves
  <2>3. CASE drain[h].pc \in InTurn /\ drain[h].msg = m /\ drain[h].head = m
    <3>1. ~Crash
      BY <1>1 DEF Crash
    <3>2. ~FinishTurn(h)
      <4>1. Mine(drain[h])
        BY <2>3, ConstantsOK DEF Mine
      <4>2. ASSUME FinishTurn(h)
            PROVE  FALSE
        <5>1. turnOf'[m] # "open"
          BY <2>3, <4>1, <4>2 DEF FinishTurn, Close
        <5>2. QED
          BY <1>1, <5>1
      <4>3. QED
        BY <4>2
    <3>3. QED
      BY <1>3, <2>1, <2>3, <3>1, <3>2, TurnEnds
  <2>4. QED
    BY <1>2, <1>5, <2>1, <2>2, <2>3 DEF Open
<1>6. QED
  BY <1>1, <1>4, <1>5, OpenSteps

-----------------------------------------------------------------------------
(* The theorems *)

LEMMA InitHolds == Init => Inv
<1> SUFFICES ASSUME Init
             PROVE  Inv
  OBVIOUS
<1>1. MaxSends \in Nat /\ None \notin Handle /\ 0 \in 0..MaxSends
  BY ConstantsOK
<1>2. /\ \A m \in Msg : rec[m] = Rec("none", None) /\ run[m] = "none" /\ turnOf[m] = "none"
      /\ \A h \in Handle : /\ drain[h] = NoDrain /\ queue[h] = <<>> /\ blockedOn[h] = {}
                           /\ kill[h] = NoKill /\ term[h] = "open" /\ thread[h] = "unloaded"
                           /\ rcv[h] = "pending"
      /\ calls = <<>> /\ hist = <<>> /\ live = {} /\ own = None /\ last = None /\ unseen = {}
      /\ used.sends = 0 /\ DOMAIN used = {"sends", "crashes", "failures", "kills", "interrupts", "resumes"}
  BY DEF Init
<1>3. NoDrain \in Drains /\ NoDrain.pc = "idle" /\ NoDrain.msg = 0 /\ NoDrain.head = 0
  BY NewDrains DEF NoDrain
<1>4. NoKill \in Kills /\ NoKill.phase = "none" /\ NoKill.snap = <<>> /\ NoKill.err = FALSE
  BY DEF NoKill, Kills
<1>5. DOMAIN <<>> = {} /\ ToSet(<<>>) = {}
  BY NoSet
<1>6. TypeOK
  <2>1. Rec("none", None) \in [status : {"none", "pending", "claiming", "acked"}, claim : Handle \cup {None}]
    BY DEF Rec
  <2>2. /\ rec \in [Msg -> [status : {"none", "pending", "claiming", "acked"}, claim : Handle \cup {None}]]
        /\ run \in [Msg -> {"none", "queued", "running", "stranded"} \cup Terminal]
        /\ by \in [Msg -> Handle \cup {None}] /\ turnOf \in [Msg -> {"none", "open", "ended", "gone"}]
    BY <2>1 DEF Init
  <2>3. /\ thread \in [Handle -> {"unloaded", "loading", "fresh", "stale"}]
        /\ parked \in [Handle -> BOOLEAN] /\ queue \in [Handle -> Seq(Msg)]
        /\ blockedOn \in [Handle -> SUBSET Msg] /\ rcv \in [Handle -> {"pending", "recovering", "recovered"}]
        /\ term \in [Handle -> {"open", "killed"}] /\ hist \in Seq(Msg)
    BY DEF Init
  <2>4. flight \in BOOLEAN /\ live \subseteq Msg /\ {own, last} \subseteq Handle \cup {None}
        /\ unseen \subseteq Handle
    BY DEF Init
  <2>5. \A h \in Handle : drain[h].msg \in 0..MaxSends /\ drain[h].head \in 0..MaxSends
    BY <1>1, <1>2, <1>3
  <2>6. QED
    BY <2>2, <2>3, <2>4, <2>5 DEF TypeOK
<1>7. Shapes
  BY <1>1, <1>2, <1>3, <1>4, <1>6 DEF Init, Shapes, DrainShapes, InTurn
<1>8. Owned
  BY <1>1, <1>2, <1>3 DEF Owned, Outside
<1>9. Loaded /\ Stale /\ Lined /\ Ordered /\ Queued
  BY <1>2, <1>3, <1>5 DEF Loaded, Stale, Lined, Ordered, Queued, At, Claiming
<1>10. Counted
  <2>1. Sends(calls) = {}
    BY <1>2, <1>5 DEF Sends
  <2>2. Cardinality({}) = 0
    BY FS_EmptySet
  <2>3. \A m \in Msg : rec[m].status = "none" /\ ~(m <= 0)
    BY <1>2, Status DEF Msg
  <2>4. 0 + Cardinality(Sends(calls)) <= used.sends
    <3>1. Cardinality(Sends(calls)) = 0 /\ used.sends = 0
      BY <1>2, <2>1, <2>2
    <3>2. QED
      BY <3>1
  <2>5. QED
    BY <1>1, <2>3, <2>4 DEF Counted
<1>11. Run /\ Claimed /\ InputsSettleOnce /\ AdmissionOrder
  BY <1>2, <1>3, <1>5, Status DEF Run, Claimed, InputsSettleOnce, AdmissionOrder, Started, Outside
<1>12. Apart /\ Headed /\ Open
  BY <1>2, <1>3, <1>4, <1>5, Status DEF Apart, Headed, Open, InTurn, Choosing
<1>13. Torn
  BY <1>2, <1>4 DEF Torn
<1>14. QED
  BY <1>7, <1>8, <1>9, <1>10, <1>11, <1>12, <1>13 DEF Inv

LEMMA StepHolds == Inv /\ [Next]_vars => Inv'
<1> SUFFICES ASSUME Inv, [Next]_vars
             PROVE  Inv'
  OBVIOUS
<1>1. Shapes' /\ Owned' /\ Loaded' /\ Stale' /\ Lined' /\ Counted'
  BY StepShapes, StepOwned, StepLoaded, StepStale, StepLined, StepCounted
<1>2. Run' /\ Claimed' /\ Ordered' /\ Queued' /\ Apart' /\ Headed'
  BY StepRun, StepClaimed, StepOrdered, StepQueued, StepApart, StepHeaded
<1>3. Torn' /\ Open' /\ InputsSettleOnce' /\ AdmissionOrder'
  BY StepTorn, StepOpen, StepSettled, StepOrder
<1>4. QED
  BY <1>1, <1>2, <1>3 DEF Inv

\* The inductive invariant: the drains of a process take turns, the line and
\* the queues hold each input once, and a teardown knows what it has closed.
THEOREM InvariantHolds == Spec => []Inv
<1>1. QED
  BY InitHolds, StepHolds, PTL DEF Spec

\* Every variable of the inbox and its drains keeps its shape.
THEOREM TypeCorrect == Spec => []TypeOK
<1>1. Inv => TypeOK
  BY DEF Inv, Shapes
<1>2. QED
  BY <1>1, InvariantHolds, PTL

\* An input is committed to the thread's history at most once, whatever sends,
\* kills, failures and crashes come between, and no recovery of claims gives a
\* committed one back; one acknowledged without a commit has a run that ended.
THEOREM InputsSettle == Spec => []InputsSettleOnce
<1>1. Inv => InputsSettleOnce
  BY DEF Inv
<1>2. QED
  BY <1>1, InvariantHolds, PTL

\* The history holds the inputs in the order the inbox admitted them.
THEOREM AdmittedInOrder == Spec => []AdmissionOrder
<1>1. Inv => AdmissionOrder
  BY DEF Inv
<1>2. QED
  BY <1>1, InvariantHolds, PTL

\* A drain about to commit has the store's history, unless the drain that made
\* it stale threw: taking turns, and the reload when another handle completed a
\* drain last, leave it no other stale one.
THEOREM FreshCommits == Spec => []CommitsAreFresh
<1>1. QED
  BY InvFresh, InvariantHolds, PTL

\* A kill() that resolved has left nothing queued on its handle, and no caller
\* of the handle waiting.
THEOREM KillEnds == Spec => []KillEndsCallers
<1>1. Inv => KillEndsCallers
  BY DEF Inv, Torn, Closed, KillEndsCallers
<1>2. QED
  BY <1>1, InvariantHolds, PTL

=============================================================================

------------------------ MODULE DurableOwnerProofs ------------------------
(***************************************************************************)
(* What the owner of a durable turn, and the store it writes to, know of   *)
(* the calls that were started: the evidence every recovery relies on.     *)
(***************************************************************************)
EXTENDS DurableTurnProofs

USE DEF vars, storeVars, attemptVars, worldVars

-----------------------------------------------------------------------------
(* Histories *)

HasUse(history, c, u) ==
  \E k \in DOMAIN history : \E e \in history[k] : e.call = c /\ e.use = u

InHistory(history, entry) == \E k \in DOMAIN history : entry \in history[k]

CallsOnce(history) ==
  \A j, k \in DOMAIN history : \A d \in history[j], e \in history[k] :
    d.call = e.call /\ d.use = e.use => j = k /\ d = e

UsesIn(history, used) ==
  \A k \in DOMAIN history : \A e \in history[k] : e.use <= used[e.call]

\* Appending a round adds it to the rounds there were.
LEMMA WithRoundParts ==
  ASSUME NEW h \in History, NEW round \in SUBSET Entries, round # {}
  PROVE  /\ DOMAIN h = 1 .. Len(h) /\ Len(h) \in Nat
         /\ DOMAIN WithRound(h, round) = 1 .. (Len(h) + 1)
         /\ WithRound(h, round)[Len(h) + 1] = round
         /\ \A k \in DOMAIN h : WithRound(h, round)[k] = h[k]
  BY DEF History, WithRound

LEMMA CountWithRound ==
  ASSUME NEW h \in History, NEW round \in SUBSET Entries, NEW c \in Call
  PROVE  /\ ResultCount(h, c) \in Nat
         /\ ResultCount(WithRound(h, round), c) =
              ResultCount(h, c) + (IF \E e \in round : e.call = c THEN 1 ELSE 0)
<1> DEFINE S(g) == {k \in DOMAIN g : \E entry \in g[k] : entry.call = c}
<1>1. ResultCount(h, c) \in Nat /\ IsFiniteSet(S(h))
  BY ResultCountType
<1>2. CASE round = {}
  BY <1>1, <1>2 DEF WithRound
<1>3. CASE round # {}
  <2> DEFINE g == WithRound(h, round)
             n == Len(h) + 1
  <2>1. /\ DOMAIN h = 1 .. Len(h) /\ Len(h) \in Nat
        /\ DOMAIN g = 1 .. n
        /\ g[n] = round
        /\ \A k \in DOMAIN h : g[k] = h[k]
    BY <1>3, WithRoundParts
  <2> HIDE DEF g
  <2>2. DOMAIN g = DOMAIN h \cup {n} /\ n \notin DOMAIN h
    BY <2>1
  <2> HIDE DEF n
  <2>3. CASE \E e \in round : e.call = c
    <3>a. n \in S(g) /\ n \notin S(h)
      BY <2>1, <2>2, <2>3
    <3>b. \A k \in DOMAIN h : k \in S(g) <=> k \in S(h)
      BY <2>1, <2>2
    <3>c. S(g) \subseteq DOMAIN g /\ S(h) \subseteq DOMAIN h
      OBVIOUS
    <3> HIDE DEF S
    <3>1. S(g) = S(h) \cup {n} /\ n \notin S(h)
      BY <2>2, <3>a, <3>b, <3>c
    <3>2. Cardinality(S(g)) = Cardinality(S(h)) + 1
      BY <1>1, <3>1, FS_AddElement
    <3>3. QED
      BY <1>1, <2>3, <3>2 DEF ResultCount, g, S
  <2>4. CASE ~\E e \in round : e.call = c
    <3>1. S(g) = S(h)
      BY <2>1, <2>2, <2>4
    <3>2. ResultCount(h, c) = Cardinality(S(h)) /\ ResultCount(g, c) = Cardinality(S(g))
      BY DEF ResultCount
    <3>3. ResultCount(g, c) = ResultCount(h, c)
      BY <3>1, <3>2
    <3>4. QED
      BY <1>1, <2>4, <3>3 DEF g
  <2>5. QED
    BY <2>3, <2>4
<1>4. QED
  BY <1>2, <1>3

LEMMA InWithRound ==
  ASSUME NEW h \in History, NEW round \in SUBSET Entries
  PROVE  \A entry : InHistory(WithRound(h, round), entry) <=>
                      InHistory(h, entry) \/ entry \in round
<1>1. CASE round = {}
  BY <1>1 DEF WithRound
<1>2. CASE round # {}
  <2>1. /\ DOMAIN h = 1 .. Len(h) /\ Len(h) \in Nat
        /\ DOMAIN WithRound(h, round) = 1 .. (Len(h) + 1)
        /\ WithRound(h, round)[Len(h) + 1] = round
        /\ \A k \in DOMAIN h : WithRound(h, round)[k] = h[k]
    BY <1>2, WithRoundParts
  <2>2. DOMAIN WithRound(h, round) = DOMAIN h \cup {Len(h) + 1}
    BY <2>1
  <2>3. QED
    BY <2>1, <2>2 DEF InHistory
<1>3. QED
  BY <1>1, <1>2

LEMMA HasUseIn == \A history, c, u :
  HasUse(history, c, u) <=> \E entry : InHistory(history, entry) /\ entry.call = c /\ entry.use = u
  BY DEF HasUse, InHistory

LEMMA EntryUsed == \A history, c, u, v : InHistory(history, Entry(c, u, v)) => HasUse(history, c, u)
<1>1. \A c, u, v : Entry(c, u, v).call = c /\ Entry(c, u, v).use = u
  BY DEF Entry
<1>2. QED
  BY <1>1, HasUseIn

LEMMA HasUseWithRound ==
  ASSUME NEW h \in History, NEW round \in SUBSET Entries
  PROVE  \A c, u : HasUse(WithRound(h, round), c, u) <=>
                     HasUse(h, c, u) \/ \E e \in round : e.call = c /\ e.use = u
  BY InWithRound, HasUseIn

LEMMA UsesWithRound ==
  ASSUME NEW h \in History, NEW round \in SUBSET Entries, NEW used,
         UsesIn(h, used), \A e \in round : e.use <= used[e.call]
  PROVE  UsesIn(WithRound(h, round), used)
<1>1. \A entry : InHistory(h, entry) => entry.use <= used[entry.call]
  BY DEF UsesIn, InHistory
<1>2. \A entry : InHistory(WithRound(h, round), entry) => entry.use <= used[entry.call]
  BY <1>1, InWithRound
<1>3. QED
  BY <1>2 DEF UsesIn, InHistory

LEMMA OnceWithRound ==
  ASSUME NEW h \in History, NEW round \in SUBSET Entries, CallsOnce(h),
         \A e \in round : ~HasUse(h, e.call, e.use),
         \A d, e \in round : d.call = e.call => d = e
  PROVE  CallsOnce(WithRound(h, round))
<1>1. CASE round = {}
  BY <1>1 DEF WithRound
<1>2. CASE round # {}
  <2> DEFINE g == WithRound(h, round)
             n == Len(h) + 1
  <2>1. /\ DOMAIN h = 1 .. Len(h) /\ Len(h) \in Nat
        /\ DOMAIN g = 1 .. n /\ g[n] = round
        /\ \A k \in DOMAIN h : g[k] = h[k]
    BY <1>2, WithRoundParts
  <2>2. DOMAIN g = DOMAIN h \cup {n}
    BY <2>1
  <2> HIDE DEF g, n
  <2>3. ASSUME NEW j \in DOMAIN g, NEW k \in DOMAIN g, NEW d \in g[j], NEW e \in g[k],
               d.call = e.call, d.use = e.use
        PROVE  j = k /\ d = e
    <3>1. CASE j \in DOMAIN h /\ k \in DOMAIN h
      BY <2>1, <2>3, <3>1 DEF CallsOnce
    <3>2. CASE j \in DOMAIN h /\ k = n
      BY <2>1, <2>3, <3>2 DEF HasUse
    <3>3. CASE j = n /\ k \in DOMAIN h
      BY <2>1, <2>3, <3>3 DEF HasUse
    <3>4. CASE j = n /\ k = n
      BY <2>1, <2>3, <3>4
    <3>5. QED
      BY <2>2, <3>1, <3>2, <3>3, <3>4
  <2>4. QED
    BY <2>3 DEF CallsOnce, g
<1>3. QED
  BY <1>1, <1>2

\* A turn rolled back leaves a prefix of the history.
LEMMA PrefixKeeps ==
  ASSUME NEW h \in History, NEW n \in Nat, n <= Len(h), NEW used, UsesIn(h, used), CallsOnce(h)
  PROVE  UsesIn(SubSeq(h, 1, n), used) /\ CallsOnce(SubSeq(h, 1, n))
<1>1. h \in Seq(SUBSET Entries) /\ Len(h) \in Nat /\ DOMAIN h = 1 .. Len(h)
  BY DEF History
<1> DEFINE g == SubSeq(h, 1, n)
<1>2. DOMAIN g = 1 .. n /\ \A k \in 1 .. n : g[k] = h[k] /\ k \in DOMAIN h
  BY <1>1
<1> HIDE DEF g
<1>3. UsesIn(g, used) /\ CallsOnce(g)
  BY <1>2 DEF UsesIn, CallsOnce
<1>4. QED
  BY <1>3 DEF g

-----------------------------------------------------------------------------
(* What a checkpoint says of a history *)

\* A result is in the history once it counts as committed, and not before.
ResultsOK(results, history) ==
  \A r \in results :
    /\ IsCommitted(history, r) => InHistory(history, Entry(r.call, r.use, r.value))
    /\ HasUse(history, r.call, r.use) => IsCommitted(history, r)
    /\ ~IsCommitted(history, r) => ResultCount(history, r.call) = r.prior

\* Its calls are unfinished, or accounted for.
Evidence(checkpoint, history) ==
  /\ \A i \in checkpoint.journal.inflight : ~HasUse(history, i.call, i.use)
  /\ ResultsOK(checkpoint.journal.results, history)
  /\ \A d \in checkpoint.completed :
       IsCommitted(history, d) \/ \E r \in checkpoint.journal.results : Completion(r) = d
  /\ \A d \in checkpoint.own :
       \/ IsCommitted(history, d)
       \/ \E r \in checkpoint.journal.results : r.call = d.call /\ r.prior = d.prior

\* The results of a journal that no history has yet.
Fresh(j, history) ==
  \A r \in j.results :
    ~HasUse(history, r.call, r.use) /\ r.prior = ResultCount(history, r.call)

Covers(j, history, x) ==
  \/ \E i \in j.inflight : i.call = x.call /\ i.use = x.use /\ i.attempt >= x.attempt
  \/ \E r \in j.results : r.call = x.call /\ r.use = x.use
  \/ HasUse(history, x.call, x.use)

\* No call that was started is forgotten.
CoversAll(j, history, starts) == \A x \in starts : Covers(j, history, x)

Calls == [call : Call, use : Nat, attempt : Nat]

LEMMA CommittedStays ==
  ASSUME NEW h \in History, NEW round \in SUBSET Entries, NEW r,
         r.call \in Call, r.prior \in Nat, IsCommitted(h, r)
  PROVE  IsCommitted(WithRound(h, round), r)
<1>1. /\ ResultCount(h, r.call) \in Nat
      /\ ResultCount(WithRound(h, round), r.call) \in
           {ResultCount(h, r.call), ResultCount(h, r.call) + 1}
  BY CountWithRound
<1>2. QED
  BY <1>1 DEF IsCommitted

LEMMA CommittedBy ==
  ASSUME NEW h \in History, NEW round \in SUBSET Entries, NEW r \in Results,
         ResultCount(h, r.call) = r.prior, Entry(r.call, r.use, r.value) \in round
  PROVE  IsCommitted(WithRound(h, round), r)
<1>1. r.call \in Call /\ r.prior \in Nat
  BY DEF Results
<1>2. \E e \in round : e.call = r.call
  BY DEF Entry
<1>3. ResultCount(WithRound(h, round), r.call) = r.prior + 1
  BY <1>1, <1>2, CountWithRound
<1>4. QED
  BY <1>1, <1>3 DEF IsCommitted

\* After a commit of everything it keeps, a checkpoint has nothing to add.
LEMMA EvidenceCommitted ==
  ASSUME NEW cp \in Checkpoint, NEW h \in History, NEW round \in SUBSET Entries,
         Evidence(cp, h),
         \A i \in cp.journal.inflight, e \in round : i.call # e.call,
         \A r \in cp.journal.results :
           IsCommitted(h, r) \/ Entry(r.call, r.use, r.value) \in round
  PROVE  /\ Evidence(cp, WithRound(h, round))
         /\ \A r \in cp.journal.results : IsCommitted(WithRound(h, round), r)
         /\ \A d \in cp.completed \cup cp.own : IsCommitted(WithRound(h, round), d)
<1> DEFINE g == WithRound(h, round)
<1>1. /\ cp.journal.inflight \in SUBSET Intents /\ cp.journal.results \in SUBSET Results
      /\ cp.completed \in SUBSET Completions /\ cp.own \in SUBSET Completions
  BY JournalType DEF Checkpoint
<1>2. \A r \in cp.journal.results : IsCommitted(g, r)
  <2>1. ASSUME NEW r \in cp.journal.results
        PROVE  IsCommitted(g, r)
    <3>1. r \in Results /\ r.call \in Call /\ r.prior \in Nat
      BY <1>1 DEF Results
    <3>2. CASE IsCommitted(h, r)
      BY <3>1, <3>2, CommittedStays
    <3>3. CASE ~IsCommitted(h, r)
      <4>1. ResultCount(h, r.call) = r.prior /\ Entry(r.call, r.use, r.value) \in round
        BY <3>3 DEF Evidence, ResultsOK
      <4>2. QED
        BY <3>1, <4>1, CommittedBy
    <3>4. QED
      BY <3>2, <3>3
  <2>2. QED
    BY <2>1
<1>3. \A r \in cp.journal.results : InHistory(g, Entry(r.call, r.use, r.value))
  BY InWithRound DEF Evidence, ResultsOK
<1>4. \A i \in cp.journal.inflight : ~HasUse(g, i.call, i.use)
  BY HasUseWithRound DEF Evidence
<1>5. ASSUME NEW d \in cp.completed \cup cp.own
      PROVE  IsCommitted(g, d)
  <2>1. d \in Completions /\ d.call \in Call /\ d.prior \in Nat
    BY <1>1 DEF Completions
  <2>2. \/ IsCommitted(h, d)
        \/ \E r \in cp.journal.results : r.call = d.call /\ r.prior = d.prior
    BY DEF Evidence, Completion
  <2>3. CASE IsCommitted(h, d)
    BY <2>1, <2>3, CommittedStays
  <2>4. CASE \E r \in cp.journal.results : r.call = d.call /\ r.prior = d.prior
    BY <1>2, <2>4 DEF IsCommitted
  <2>5. QED
    BY <2>2, <2>3, <2>4
<1> HIDE DEF g
<1>6. Evidence(cp, g)
  BY <1>2, <1>3, <1>4, <1>5 DEF Evidence, ResultsOK
<1>7. QED
  BY <1>2, <1>5, <1>6 DEF g

\* A checkpoint written while its results are fresh.
LEMMA FreshEvidence ==
  ASSUME NEW j \in Journal, NEW h \in History, Fresh(j, h)
  PROVE  ResultsOK(j.results, h) /\ \A r \in j.results : ~IsCommitted(h, r)
<1>1. ASSUME NEW r \in j.results
      PROVE  /\ ~IsCommitted(h, r) /\ ~HasUse(h, r.call, r.use)
             /\ ResultCount(h, r.call) = r.prior
  <2>1. r.call \in Call
    BY JournalType DEF Results
  <2>2. ResultCount(h, r.call) \in Nat /\ r.prior = ResultCount(h, r.call)
    BY <2>1, ResultCountType DEF Fresh
  <2>3. QED
    BY <2>2 DEF IsCommitted, Fresh
<1>2. QED
  BY <1>1 DEF ResultsOK

LEMMA CoversIntent ==
  ASSUME NEW j \in Journal, NEW h, NEW i \in Intents, NEW starts \in SUBSET Calls,
         NEW more \in SUBSET Calls, CoversAll(j, h, starts),
         \A k \in j.inflight : k.call = i.call => k.use = i.use /\ k.attempt <= i.attempt,
         \A x \in more : x \in starts \/ (x.call = i.call /\ x.use = i.use /\ x.attempt = i.attempt)
  PROVE  CoversAll(PutIntent(j, i), h, more)
<1>1. j.inflight \in SUBSET Intents /\ j = [inflight |-> j.inflight, results |-> j.results]
  BY JournalType
<1>2. /\ PutIntent(j, i).results = j.results
      /\ PutIntent(j, i).inflight = (j.inflight \ {k \in j.inflight : k.call = i.call}) \cup {i}
  BY <1>1 DEF PutIntent
<1>3. ASSUME NEW x \in more
      PROVE  Covers(PutIntent(j, i), h, x)
  <2>1. x.attempt \in Nat /\ i.attempt \in Nat /\ i.attempt >= i.attempt
    BY DEF Calls, Intents
  <2>2. CASE x.call = i.call /\ x.use = i.use /\ x.attempt = i.attempt
    BY <1>2, <2>1, <2>2 DEF Covers
  <2>3. CASE x \in starts
    <3>1. Covers(j, h, x)
      BY <2>3 DEF CoversAll
    <3>2. ASSUME NEW k \in j.inflight, k.call = x.call, k.use = x.use, k.attempt >= x.attempt
          PROVE  Covers(PutIntent(j, i), h, x)
      <4>1. k.attempt \in Nat
        BY <1>1 DEF Intents
      <4>2. CASE k.call = i.call
        <5>1. i.attempt >= x.attempt /\ k.use = i.use
          BY <2>1, <3>2, <4>1, <4>2
        <5>2. QED
          BY <1>2, <3>2, <4>2, <5>1 DEF Covers
      <4>3. CASE k.call # i.call
        BY <1>2, <3>2, <4>3 DEF Covers
      <4>4. QED
        BY <4>2, <4>3
    <3>3. QED
      BY <1>2, <3>1, <3>2 DEF Covers
  <2>4. QED
    BY <2>2, <2>3
<1>4. QED
  BY <1>3 DEF CoversAll

LEMMA CoversResult ==
  ASSUME NEW j \in Journal, NEW h, NEW r, NEW starts, CoversAll(j, h, starts),
         \A k \in j.inflight : k.call = r.call => k.use = r.use
  PROVE  CoversAll(PutResult(j, r), h, starts)
<1>1. /\ PutResult(j, r).results = j.results \cup {r}
      /\ PutResult(j, r).inflight = j.inflight \ {k \in j.inflight : k.call = r.call}
  BY DEF PutResult
<1>2. ASSUME NEW x \in starts
      PROVE  Covers(PutResult(j, r), h, x)
  BY <1>1 DEF CoversAll, Covers
<1>3. QED
  BY <1>2 DEF CoversAll

LEMMA CoversCommitted ==
  ASSUME NEW j, NEW k, NEW h \in History, NEW round \in SUBSET Entries, NEW starts,
         CoversAll(j, h, starts), j.inflight \subseteq k.inflight,
         \A r \in j.results :
           r \in k.results \/ HasUse(h, r.call, r.use) \/ Entry(r.call, r.use, r.value) \in round
  PROVE  CoversAll(k, WithRound(h, round), starts)
<1>1. \A c, u : HasUse(WithRound(h, round), c, u) <=>
                  HasUse(h, c, u) \/ \E e \in round : e.call = c /\ e.use = u
  BY HasUseWithRound
<1>2. ASSUME NEW x \in starts
      PROVE  Covers(k, WithRound(h, round), x)
  <2>1. Covers(j, h, x)
    BY <1>2 DEF CoversAll
  <2>2. CASE \E r \in j.results : r.call = x.call /\ r.use = x.use
    BY <1>1, <2>2 DEF Covers, Entry
  <2>3. QED
    BY <1>1, <2>1, <2>2 DEF Covers
<1>3. QED
  BY <1>2 DEF CoversAll

-----------------------------------------------------------------------------
(* What the owner of the run knows *)

\* The run may still go on.
Open == run.status \notin {"cancelled", "completed", "error"}

\* The calls whose effect attempt s started, or is free to start.
Starts(s) ==
  {x \in Calls :
     /\ policy[x.call] # "pure"
     /\ \/ [call |-> x.call, use |-> x.use, attempt |-> x.attempt, by |-> s] \in ran
        \/ /\ calls[s][x.call].stage = "ready"
           /\ calls[s][x.call].use = x.use /\ calls[s][x.call].attempt = x.attempt}

AllStarts == {x \in Calls : \E s \in Attempt : x \in Starts(s)}

OneStarter == \A s, t \in Attempt : \A x \in Calls : x \in Starts(s) /\ x \in Starts(t) => s = t

HistoryOK == UsesIn(committed, uses) /\ CallsOnce(committed)

Checkpointed ==
  Open => CoversAll(ckpt.journal, committed, AllStarts) /\ Evidence(ckpt, committed)

\* A recovery works from the checkpoint there is.
Recovers(t) ==
  /\ pc[t] \in {"loaded", "prepared", "restored"} => loaded[t] = ckpt
  /\ pc[t] \in {"prepared", "restored"} =>
       hist[t] = WithRound(committed, RoundOf(Restorable(ckpt, committed)))

HistoryInMemory(t) ==
  hist[t] = IF pc[t] = "commit" THEN WithRound(committed, RoundOf(journal[t].results))
            ELSE committed

CallsInMemory(t) ==
  \A c \in Call :
    /\ calls[t][c].stage # "none" => ~HasUse(committed, c, calls[t][c].use)
    /\ calls[t][c].stage = "issued" =>
         [call |-> c, use |-> calls[t][c].use, attempt |-> calls[t][c].attempt] \notin AllStarts

JournalInMemory(t) ==
  /\ Fresh(journal[t], committed)
  /\ CoversAll(journal[t], committed, AllStarts)
  /\ \A d \in KnownCompleted(t) :
       IsCommitted(committed, d) \/ \E r \in journal[t].results : Completion(r) = d

\* Its journal has what the checkpoint has, but for a write that failed.
TakenOver(t) ==
  /\ \A i \in ckpt.journal.inflight :
       \/ \E k \in journal[t].inflight : k.call = i.call
       \/ calls[t][i.call].stage = "failed"
  /\ \A r \in ckpt.journal.results :
       \/ r \in journal[t].results
       \/ IsCommitted(committed, r)
       \/ calls[t][r.call].stage = "failed" /\ LostAnswers

Runs(t) == HistoryInMemory(t) /\ CallsInMemory(t) /\ JournalInMemory(t) /\ TakenOver(t)

Owner(t) == Owns(t) => Recovers(t) /\ (Active(t) => Runs(t))

OwnerInv ==
  OneStarter /\ HistoryOK /\ Checkpointed /\ \A t \in Attempt : Owner(t)

FullInv == ShapeInv /\ CallsInv /\ OwnerInv /\ run.status # Absent

LEMMA InitOwner == Init => OwnerInv
<1> SUFFICES ASSUME Init PROVE OwnerInv
  OBVIOUS
<1>1. /\ ckpt = NoCheckpoint /\ ran = {} /\ committed = <<>>
      /\ \A t \in Attempt : /\ journal[t] = EmptyJournal /\ hist[t] = <<>>
                            /\ calls[t] = NoCalls /\ known[t] = NothingRead
                            /\ pc[t] \in {"request", "unborn"}
  BY DEF Init, NoCalls
<1>2. \A s \in Attempt : Starts(s) = {}
  <2>1. ASSUME NEW s \in Attempt, NEW x \in Calls
        PROVE  calls[s][x.call].stage = "none"
    <3>1. x.call \in Call
      BY DEF Calls
    <3>2. QED
      BY <1>1, <3>1 DEF NoCalls, NoCall
  <2>2. QED
    BY <1>1, <2>1 DEF Starts
<1>3. AllStarts = {} /\ OneStarter
  BY <1>2 DEF AllStarts, OneStarter
<1>4. /\ NoCheckpoint.journal = EmptyJournal /\ EmptyJournal.inflight = {} /\ EmptyJournal.results = {}
      /\ NoCheckpoint.completed = {} /\ NoCheckpoint.own = {} /\ NoCheckpoint.phase = "none"
  BY DEF NoCheckpoint, EmptyJournal
<1>5. DOMAIN committed = {}
  BY <1>1
<1>6. HistoryOK
  BY <1>5 DEF HistoryOK, UsesIn, CallsOnce
<1>7. Checkpointed
  BY <1>1, <1>3, <1>4 DEF Checkpointed, CoversAll, Evidence, ResultsOK
<1>8. ASSUME NEW t \in Attempt
      PROVE  Owner(t)
  <2>1. KnownCompleted(t) = {}
    BY <1>1, <1>4 DEF KnownCompleted, CompletedThrough, NothingRead
  <2>2. JournalInMemory(t) /\ TakenOver(t)
    BY <1>1, <1>3, <1>4, <2>1 DEF JournalInMemory, TakenOver, Fresh, CoversAll
  <2>3. \A c \in Call : NoCalls[c].stage = "none"
    BY DEF NoCalls, NoCall
  <2>4. CallsInMemory(t) /\ HistoryInMemory(t) /\ Recovers(t)
    BY <1>1, <2>3 DEF CallsInMemory, HistoryInMemory, Recovers
  <2>5. QED
    BY <2>2, <2>4 DEF Owner, Runs
<1>9. QED
  BY <1>3, <1>6, <1>7, <1>8 DEF OwnerInv

-----------------------------------------------------------------------------
(* Steps that start nothing *)

Quiet == \A s \in Attempt : Starts(s)' \subseteq Starts(s)

LEMMA QuietStarts ==
  ASSUME Quiet
  PROVE  AllStarts' \subseteq AllStarts /\ (OneStarter => OneStarter')
<1>1. \A s \in Attempt : \A x \in Calls : (x \in Starts(s))' => x \in Starts(s)
  BY DEF Quiet
<1>2. AllStarts' = {x \in Calls : \E s \in Attempt : x \in Starts(s)'}
  BY DEF AllStarts
<1>3. OneStarter' = (\A s, t \in Attempt : \A x \in Calls :
                       x \in Starts(s)' /\ x \in Starts(t)' => s = t)
  BY DEF OneStarter
<1>4. AllStarts' \subseteq AllStarts
  BY <1>2 DEF AllStarts, Quiet
<1>5. QED
  BY <1>3, <1>4 DEF OneStarter, Quiet

LEMMA StartsShrink ==
  ASSUME NEW t \in Attempt, Alone(t), UNCHANGED <<policy, ran>>,
         \A c \in Call : calls'[t][c].stage = "ready" => calls'[t][c] = calls[t][c]
  PROVE  Quiet
<1>1. ASSUME NEW s \in Attempt, NEW x \in Calls, x \in Starts(s)'
      PROVE  x \in Starts(s)
  <2>1. x.call \in Call
    BY DEF Calls
  <2>2. /\ policy[x.call] # "pure"
        /\ \/ [call |-> x.call, use |-> x.use, attempt |-> x.attempt, by |-> s] \in ran
           \/ /\ calls'[s][x.call].stage = "ready"
              /\ calls'[s][x.call].use = x.use /\ calls'[s][x.call].attempt = x.attempt
    BY <1>1 DEF Starts
  <2>3. calls'[s][x.call].stage = "ready" => calls'[s][x.call] = calls[s][x.call]
    BY <2>1 DEF Alone
  <2>4. QED
    BY <2>2, <2>3 DEF Starts
<1>2. \A s \in Attempt : Starts(s)' \subseteq Calls
  BY DEF Starts
<1>3. QED
  BY <1>1, <1>2 DEF Quiet

\* An effect runs that was free to start.
LEMMA RunQuiet ==
  ASSUME ShapeInv, NEW t \in Attempt, NEW c \in Call, RunEffect(t, c)
  PROVE  Quiet
<1> USE ShapeParts
<1>1. /\ calls[t][c].stage = "ready" /\ UNCHANGED policy
      /\ ran' = ran \cup {[call |-> c, use |-> calls[t][c].use,
                           attempt |-> calls[t][c].attempt, by |-> t]}
  BY DEF RunEffect
<1>2. Alone(t) /\ Moved(t, c, "ran", calls[t][c].attempt)
  BY RunEffectShaped, RanMoved DEF Shaped
<1>3. ASSUME NEW s \in Attempt, NEW x \in Calls, x \in Starts(s)'
      PROVE  x \in Starts(s)
  <2>1. x.call \in Call
    BY DEF Calls
  <2>2. /\ policy[x.call] # "pure"
        /\ \/ [call |-> x.call, use |-> x.use, attempt |-> x.attempt, by |-> s] \in ran'
           \/ /\ calls'[s][x.call].stage = "ready"
              /\ calls'[s][x.call].use = x.use /\ calls'[s][x.call].attempt = x.attempt
    BY <1>1, <1>3 DEF Starts
  <2>3. CASE [call |-> x.call, use |-> x.use, attempt |-> x.attempt, by |-> s] \in ran
    BY <2>2, <2>3 DEF Starts
  <2>4. CASE [call |-> x.call, use |-> x.use, attempt |-> x.attempt, by |-> s] =
               [call |-> c, use |-> calls[t][c].use, attempt |-> calls[t][c].attempt, by |-> t]
    <3>1. x.call = c /\ x.use = calls[t][c].use /\ x.attempt = calls[t][c].attempt /\ s = t
      BY <2>4
    <3>2. QED
      BY <1>1, <2>2, <3>1 DEF Starts
  <2>5. CASE /\ calls'[s][x.call].stage = "ready"
             /\ calls'[s][x.call].use = x.use /\ calls'[s][x.call].attempt = x.attempt
    <3>1. calls'[s][x.call] = calls[s][x.call]
      BY <1>2, <2>1, <2>5 DEF Alone, Moved
    <3>2. QED
      BY <2>2, <2>5, <3>1 DEF Starts
  <2>6. QED
    BY <1>1, <2>2, <2>3, <2>4, <2>5
<1>4. \A s \in Attempt : Starts(s)' \subseteq Calls
  BY DEF Starts
<1>5. QED
  BY <1>3, <1>4 DEF Quiet

\* An owner that takes no step keeps what it knows.
LEMMA OtherOwner ==
  ASSUME FullInv, NEW t \in Attempt, Alone(t), OthersKeep(t),
         AllStarts' \subseteq AllStarts \/ Owns(t),
         NEW s \in Attempt \ {t}
  PROVE  Owner(s)'
<1> SUFFICES ASSUME Owns(s)' PROVE Recovers(s)' /\ (Active(s)' => Runs(s)')
  BY DEF Owner
<1>1. Owns(s) /\ UNCHANGED <<ckpt, committed>>
  BY DEF OthersKeep
<1>2. AllStarts' \subseteq AllStarts
  BY <1>1 DEF Owns
<1>3. /\ pc'[s] = pc[s] /\ loaded'[s] = loaded[s] /\ base'[s] = base[s] /\ hist'[s] = hist[s]
      /\ journal'[s] = journal[s] /\ known'[s] = known[s] /\ calls'[s] = calls[s]
  BY DEF Alone
<1>4. Recovers(s) /\ (Active(s) => Runs(s))
  BY <1>1 DEF FullInv, OwnerInv, Owner
<1>5. Recovers(s)'
  BY <1>1, <1>3, <1>4 DEF Recovers
<1>6. ASSUME Active(s)' PROVE Runs(s)'
  <2>1. Runs(s)
    BY <1>3, <1>4, <1>6 DEF Active
  <2>2. HistoryInMemory(s)' /\ TakenOver(s)'
    BY <1>1, <1>3, <2>1 DEF Runs, HistoryInMemory, TakenOver
  <2>3. CallsInMemory(s)'
    BY <1>1, <1>2, <1>3, <2>1 DEF Runs, CallsInMemory
  <2>4. KnownCompleted(s)' = KnownCompleted(s)
    BY <1>1, <1>3 DEF KnownCompleted
  <2>5. CoversAll(journal'[s], committed', AllStarts')
    BY <1>1, <1>2, <1>3, <2>1 DEF Runs, JournalInMemory, CoversAll
  <2>6. JournalInMemory(s)'
    BY <1>1, <1>3, <2>1, <2>4, <2>5 DEF Runs, JournalInMemory
  <2>7. QED
    BY <2>2, <2>3, <2>6 DEF Runs
<1>7. QED
  BY <1>5, <1>6

LEMMA OwnerKept ==
  ASSUME FullInv, NEW t \in Attempt, Alone(t), OthersKeep(t),
         AllStarts' \subseteq AllStarts \/ Owns(t),
         OneStarter', HistoryOK', Checkpointed', Owner(t)'
  PROVE  OwnerInv'
  BY OtherOwner DEF OwnerInv

LEMMA FullParts ==
  ASSUME FullInv
  PROVE  /\ ShapeInv /\ CallsInv /\ OwnerInv /\ OneStarter /\ HistoryOK /\ Checkpointed
         /\ run.status # Absent
         /\ \A t \in Attempt : Owner(t) /\ Memory(t) /\ JournalOK(journal[t], uses, reruns, policy)
         /\ TypeOK /\ StoreTypes /\ MemoryTypes /\ WorldTypes /\ BasesFit
  BY ShapeParts DEF FullInv, OwnerInv, CallsInv

LEMMA HistoryKept ==
  ASSUME FullInv, committed' = committed, uses' = uses
  PROVE  HistoryOK'
  BY FullParts DEF HistoryOK

LEMMA CoversFewer ==
  ASSUME NEW j, NEW h, NEW starts, NEW fewer, CoversAll(j, h, starts), fewer \subseteq starts
  PROVE  CoversAll(j, h, fewer)
  BY DEF CoversAll

LEMMA StoreKept ==
  ASSUME FullInv, UNCHANGED <<ckpt, committed>>, Open' => Open, AllStarts' \subseteq AllStarts
  PROVE  Checkpointed'
<1>1. ASSUME Open'
      PROVE  CoversAll(ckpt'.journal, committed', AllStarts') /\ Evidence(ckpt', committed')
  <2>1. CoversAll(ckpt.journal, committed, AllStarts) /\ Evidence(ckpt, committed)
    BY <1>1, FullParts DEF Checkpointed
  <2>2. CoversAll(ckpt.journal, committed, AllStarts')
    BY <2>1, CoversFewer
  <2>3. QED
    BY <2>1, <2>2
<1>2. QED
  BY <1>1 DEF Checkpointed

LEMMA LeaveQuiet ==
  ASSUME FullInv, NEW t \in Attempt, Leave(t), UNCHANGED <<policy, ran>>
  PROVE  Quiet /\ Alone(t)
<1>1. calls'[t] = NoCalls
  BY FullParts DEF Leave, NoCalls, MemoryTypes
<1>2. \A c \in Call : NoCalls[c].stage = "none"
  BY DEF NoCalls, NoCall
<1>3. Alone(t)
  BY FullParts, LeaveAlone
<1>4. QED
  BY <1>1, <1>2, <1>3, StartsShrink

\* An attempt that ends.
LEMMA LeaveOwner ==
  ASSUME FullInv, NEW t \in Attempt, Leave(t), OthersKeep(t), UNCHANGED <<ckpt, policy, ran>>,
         HistoryOK', Open' => Open /\ UNCHANGED committed
  PROVE  OwnerInv'
<1>1. Quiet /\ Alone(t)
  BY LeaveQuiet
<1>2. AllStarts' \subseteq AllStarts /\ OneStarter'
  BY <1>1, QuietStarts, FullParts
<1>3. Checkpointed'
  <2>1. CASE Open'
    BY <1>2, <2>1, StoreKept
  <2>2. CASE ~Open'
    BY <2>2 DEF Checkpointed
  <2>3. QED
    BY <2>1, <2>2
<1>4. pc'[t] = "over"
  BY FullParts, LeaveTypes
<1>5. Owner(t)'
  BY <1>4 DEF Owner, Recovers, Active
<1>6. QED
  BY <1>1, <1>2, <1>3, <1>5, OwnerKept

LEMMA EndTurnOwner ==
  ASSUME FullInv, NEW t \in Attempt, NEW status \in {"needs-recovery", "error", "completed"},
         Active(t), EndTurn(t, status), OthersKeep(t), UNCHANGED <<policy, uses, ran>>
  PROVE  OwnerInv'
<1> USE FullParts
<1>1. Leave(t) /\ UNCHANGED ckpt
  BY DEF EndTurn
<1>2. \/ UNCHANGED <<run, committed>>
      \/ /\ Owns(t) /\ run' = WithStatus(run, status)
         /\ committed' = IF status = "error" THEN SubSeq(committed, 1, base[t]) ELSE committed
  BY FencedOut DEF EndTurn
<1>3. HistoryOK'
  <2>1. CASE committed' = committed
    BY <2>1, HistoryKept
  <2>2. CASE Owns(t) /\ committed' = SubSeq(committed, 1, base[t])
    <3>1. base[t] \in Nat /\ base[t] <= Len(committed) /\ committed \in History
      BY <2>2 DEF BasesFit, MemoryTypes, StoreTypes
    <3>2. UsesIn(committed', uses) /\ CallsOnce(committed')
      BY <2>2, <3>1, PrefixKeeps DEF HistoryOK
    <3>3. QED
      BY <3>2 DEF HistoryOK
  <2>3. QED
    BY <1>2, <2>1, <2>2
<1>4. Open' => Open /\ UNCHANGED committed
  <2>1. CASE UNCHANGED <<run, committed>>
    BY <2>1 DEF Open
  <2>2. CASE Owns(t) /\ run' = WithStatus(run, status)
    <3>1. run'.status = status /\ Open
      BY <2>2 DEF Open, Owns, WithStatus, StoreTypes, Record, TerminalStatus
    <3>2. QED
      BY <1>2, <3>1 DEF Open
  <2>3. QED
    BY <1>2, <2>1, <2>2
<1>5. QED
  BY <1>1, <1>3, <1>4, LeaveOwner

LEMMA EndOwner ==
  ASSUME FullInv, NEW t \in Attempt, StopRound(t) \/ RequestFails(t) \/ Complete(t) \/ Die(t)
  PROVE  OwnerInv'
<1> USE FullParts
<1>1. OthersKeep(t)
  BY StopRoundShaped, RequestFailsShaped, CompleteShaped, DieShaped DEF Shaped
<1>2. CASE Die(t)
  <2>1. Leave(t) /\ UNCHANGED <<storeVars, worldVars>>
    BY <1>2 DEF Die
  <2>2. HistoryOK' /\ (Open' => Open /\ UNCHANGED committed)
    BY <2>1, HistoryKept DEF Open
  <2>3. QED
    BY <1>1, <2>1, <2>2, LeaveOwner
<1>3. CASE StopRound(t) \/ RequestFails(t) \/ Complete(t)
  <2>1. /\ EndTurn(t, "error") \/ EndTurn(t, "needs-recovery") \/ EndTurn(t, "completed")
        /\ Active(t) /\ UNCHANGED <<policy, uses, ran>>
    BY <1>3 DEF StopRound, RequestFails, Complete, Active, InRound
  <2>2. QED
    BY <1>1, <2>1, EndTurnOwner
<1>4. QED
  BY <1>2, <1>3

-----------------------------------------------------------------------------
(* A recovery, until it runs *)

LEMMA RecoveringOwner ==
  ASSUME FullInv, NEW t \in Attempt, Alone(t), OthersKeep(t), pc'[t] \in Recovering,
         UNCHANGED <<ckpt, committed, policy, uses, ran, calls>>,
         Open' => Open, Owns(t)' => Recovers(t)'
  PROVE  OwnerInv'
<1>1. Quiet
  BY StartsShrink
<1>2. AllStarts' \subseteq AllStarts /\ OneStarter'
  BY <1>1, QuietStarts, FullParts
<1>3. Checkpointed' /\ HistoryOK'
  BY <1>2, StoreKept, HistoryKept
<1>4. Owner(t)'
  BY DEF Owner, Active, Recovering
<1>5. QED
  BY <1>2, <1>3, <1>4, OwnerKept

LEMMA ClaimOwner ==
  ASSUME FullInv, NEW t \in Attempt, Claim(t)
  PROVE  OwnerInv'
<1> USE FullParts
<1>1. /\ ClaimAllowed(run, TRUE, 0) /\ run' = ClaimedRun(run, run.lease.attempt + 1, t, NoOwner)
      /\ UNCHANGED <<ckpt, committed, calls, worldVars>>
  BY DEF Claim
<1>2. Alone(t) /\ OthersKeep(t)
  BY ClaimShaped DEF Shaped
<1>3. pc'[t] = "claimed"
  BY DEF Claim, Goto, MemoryTypes
<1>4. Open
  BY <1>1 DEF ClaimAllowed, IsClaimable, ClaimableStatus, Open
<1>5. Recovers(t)' /\ pc'[t] \in Recovering
  BY <1>3 DEF Recovers, Recovering
<1>6. QED
  BY <1>1, <1>2, <1>4, <1>5, RecoveringOwner

LEMMA ParkClaimedOwner ==
  ASSUME FullInv, NEW t \in Attempt, ParkClaimed(t), UNCHANGED <<ckpt, committed, worldVars>>
  PROVE  OwnerInv'
<1> USE FullParts
<1>1. Leave(t) /\ OthersKeep(t)
  BY ParkClaimedShaped DEF ParkClaimed, Shaped
<1>2. Open' => Open
  BY DEF ParkClaimed, TransitionAllowed, Open
<1>3. QED
  BY <1>1, <1>2, HistoryKept, LeaveOwner

LEMMA LoadCheckpointOwner ==
  ASSUME FullInv, NEW t \in Attempt, LoadCheckpoint(t)
  PROVE  OwnerInv'
<1> USE FullParts
<1>1. UNCHANGED <<ckpt, committed, worldVars>> /\ Alone(t) /\ OthersKeep(t)
  BY LoadCheckpointShaped DEF LoadCheckpoint, Shaped
<1>2. CASE ParkClaimed(t)
  BY <1>1, <1>2, ParkClaimedOwner
<1>3. CASE /\ loaded' = [loaded EXCEPT ![t] = ckpt]
           /\ Goto(t, "loaded")
           /\ UNCHANGED <<run, base, hist, journal, known, calls>>
  <2>1. pc'[t] = "loaded" /\ loaded'[t] = ckpt'
    BY <1>1, <1>3 DEF Goto, MemoryTypes
  <2>2. Recovers(t)' /\ pc'[t] \in Recovering /\ (Open' => Open)
    BY <1>3, <2>1 DEF Recovers, Recovering, Open
  <2>3. QED
    BY <1>1, <1>3, <2>2, RecoveringOwner
<1>4. QED
  BY <1>2, <1>3 DEF LoadCheckpoint

LEMMA PrepareOwner ==
  ASSUME FullInv, NEW t \in Attempt, Prepare(t)
  PROVE  OwnerInv'
<1> USE FullParts
<1>1. UNCHANGED <<ckpt, committed, worldVars>> /\ Alone(t) /\ OthersKeep(t) /\ pc[t] = "loaded"
  BY PrepareShaped DEF Prepare, Shaped
<1>2. CASE ParkClaimed(t)
  BY <1>1, <1>2, ParkClaimedOwner
<1>3. CASE /\ hist' = [hist EXCEPT ![t] = WithRound(committed, RoundOf(Restorable(loaded[t], committed)))]
           /\ Goto(t, "prepared")
           /\ UNCHANGED <<run, loaded, journal, known, calls>>
  <2> DEFINE restored == WithRound(committed, RoundOf(Restorable(loaded[t], committed)))
  <2>1. pc'[t] = "prepared" /\ hist'[t] = restored /\ loaded'[t] = loaded[t]
    BY <1>3 DEF Goto, MemoryTypes
  <2>2. ASSUME Owns(t)' PROVE Recovers(t)'
    <3>1. Owns(t)
      BY <1>3, <2>2 DEF Owns
    <3>2. loaded[t] = ckpt
      BY <1>1, <3>1 DEF Owner, Recovers
    <3>3. QED
      BY <1>1, <2>1, <3>2 DEF Recovers
  <2>3. pc'[t] \in Recovering /\ (Open' => Open)
    BY <1>3, <2>1 DEF Recovering, Open
  <2>4. QED
    BY <1>1, <1>3, <2>2, <2>3, RecoveringOwner
<1>4. QED
  BY <1>2, <1>3 DEF Prepare

LEMMA StartOwner ==
  ASSUME FullInv, NEW t \in Attempt, Start(t)
  PROVE  OwnerInv'
<1> USE FullParts
<1>1. UNCHANGED <<ckpt, committed, worldVars>> /\ Alone(t) /\ OthersKeep(t) /\ pc[t] = "prepared"
  BY StartShaped DEF Start, Shaped
<1>2. CASE Leave(t) /\ UNCHANGED run
  BY <1>1, <1>2, HistoryKept, LeaveOwner DEF Open
<1>3. CASE /\ ~IsTerminal(run) /\ run.lease.id = t
           /\ run' = WithStatus(run, "running")
           /\ Goto(t, "restored")
           /\ UNCHANGED <<loaded, base, hist, journal, known, calls>>
  <2>1. Owns(t) /\ Open
    BY <1>3 DEF Owns, IsTerminal, Open, TerminalStatus
  <2>2. pc'[t] = "restored"
    BY <1>3 DEF Goto, MemoryTypes
  <2>3. Recovers(t)
    BY <2>1 DEF Owner
  <2>4. Recovers(t)' /\ pc'[t] \in Recovering
    BY <1>1, <1>3, <2>2, <2>3 DEF Recovers, Recovering
  <2>5. QED
    BY <1>1, <1>3, <2>1, <2>4, RecoveringOwner
<1>4. QED
  BY <1>2, <1>3 DEF Start

-----------------------------------------------------------------------------
(* Rounds that are finished, committed and restored *)

LEMMA JournalKept ==
  ASSUME FullInv, NEW t \in Attempt, UNCHANGED <<ckpt, committed>>,
         journal'[t] = journal[t], known'[t] = known[t], AllStarts' \subseteq AllStarts,
         JournalInMemory(t)
  PROVE  JournalInMemory(t)'
<1>1. KnownCompleted(t)' = KnownCompleted(t)
  BY DEF KnownCompleted
<1>2. CoversAll(journal[t], committed, AllStarts')
  BY CoversFewer DEF JournalInMemory
<1>3. QED
  BY <1>1, <1>2 DEF JournalInMemory

LEMMA FinishRoundOwner ==
  ASSUME FullInv, NEW t \in Attempt, FinishRound(t)
  PROVE  OwnerInv'
<1> USE FullParts
<1> DEFINE round == {Entry(c, calls[t][c].use, calls[t][c].value) :
                       c \in {d \in Call : calls[t][d].stage = "done"}}
<1>1. /\ UNCHANGED <<storeVars, journal, known, worldVars>> /\ InRound(t)
      /\ \A c \in Call : calls[t][c].stage \in {"none", "done"}
      /\ Alone(t) /\ OthersKeep(t)
  BY FinishRoundShaped DEF FinishRound, Shaped
<1>2. pc'[t] = "commit" /\ calls'[t] = NoCalls /\ hist'[t] = WithRound(hist[t], round)
  BY DEF FinishRound, Goto, MemoryTypes, NoCalls
<1>3. \A c \in Call : NoCalls[c].stage = "none"
  BY DEF NoCalls, NoCall
<1>4. Quiet
  BY <1>1, <1>2, <1>3, StartsShrink
<1>5. AllStarts' \subseteq AllStarts /\ OneStarter'
  BY <1>4, QuietStarts
<1>6. Checkpointed' /\ HistoryOK'
  BY <1>1, <1>5, StoreKept, HistoryKept DEF Open
<1>7. round = RoundOf(journal[t].results)
  <2>1. ASSUME NEW r \in journal[t].results
        PROVE  Entry(r.call, r.use, r.value) \in round
    <3>1. r.call \in Call
      BY JournalType DEF MemoryTypes, Results
    <3>2. calls[t][r.call].stage = "done" /\ calls[t][r.call].use = r.use /\ calls[t][r.call].value = r.value
      BY <1>1 DEF Memory
    <3>3. Entry(r.call, calls[t][r.call].use, calls[t][r.call].value) \in round
      BY <3>1, <3>2
    <3>4. QED
      BY <3>2, <3>3
  <2>2. ASSUME NEW c \in Call, calls[t][c].stage = "done"
        PROVE  Entry(c, calls[t][c].use, calls[t][c].value) \in RoundOf(journal[t].results)
    <3>1. PICK r \in journal[t].results : r.call = c
      BY <2>2 DEF Memory
    <3>2. calls[t][r.call].use = r.use /\ calls[t][r.call].value = r.value
      BY <1>1 DEF Memory
    <3>3. QED
      BY <3>1, <3>2 DEF RoundOf
  <2>3. RoundOf(journal[t].results) \subseteq round
    BY <2>1 DEF RoundOf
  <2>4. round \subseteq RoundOf(journal[t].results)
    BY <2>2
  <2>5. QED
    BY <2>3, <2>4
<1> HIDE DEF round
<1>8. ASSUME Owns(t)' PROVE Runs(t)'
  <2>1. Runs(t)
    BY <1>1, <1>8 DEF Owner, Owns, Active, InRound
  <2>2. HistoryInMemory(t)'
    BY <1>1, <1>2, <1>7, <2>1 DEF Runs, HistoryInMemory, InRound
  <2>3. CallsInMemory(t)'
    BY <1>2, <1>3 DEF CallsInMemory
  <2>4. JournalInMemory(t)'
    BY <1>1, <1>5, <2>1, JournalKept DEF Runs
  <2>5. /\ \A i \in ckpt.journal.inflight : i.call \in Call
        /\ \A r \in ckpt.journal.results : r.call \in Call
    BY JournalType DEF StoreTypes, Checkpoint, Intents, Results
  <2>6. TakenOver(t)'
    BY <1>1, <2>1, <2>5 DEF Runs, TakenOver
  <2>7. QED
    BY <2>2, <2>3, <2>4, <2>6 DEF Runs
<1>9. Owner(t)'
  BY <1>2, <1>8 DEF Owner, Recovers
<1>10. QED
  BY <1>1, <1>5, <1>6, <1>9, OwnerKept

\* The owner commits a round.
LEMMA CommitKept ==
  ASSUME FullInv, Open, AllStarts' \subseteq AllStarts, UNCHANGED <<ckpt, uses>>,
         NEW round \in SUBSET Entries, committed' = WithRound(committed, round),
         \A e \in round : e.use <= uses[e.call] /\ ~HasUse(committed, e.call, e.use),
         \A d, e \in round : d.call = e.call => d = e,
         \A i \in ckpt.journal.inflight, e \in round : i.call # e.call,
         \A r \in ckpt.journal.results :
           IsCommitted(committed, r) \/ Entry(r.call, r.use, r.value) \in round
  PROVE  /\ HistoryOK' /\ Checkpointed' /\ Evidence(ckpt, committed')
         /\ \A r \in ckpt.journal.results : IsCommitted(committed', r)
         /\ \A d \in ckpt.completed \cup ckpt.own : IsCommitted(committed', d)
         /\ CoversAll(ckpt.journal, committed', AllStarts')
<1> USE FullParts
<1>1. committed \in History /\ ckpt \in Checkpoint
  BY DEF StoreTypes
<1>2. UsesIn(committed', uses) /\ CallsOnce(committed')
  BY <1>1, UsesWithRound, OnceWithRound DEF HistoryOK
<1>3. Evidence(ckpt, committed) /\ CoversAll(ckpt.journal, committed, AllStarts')
  BY CoversFewer DEF Checkpointed
<1>4. /\ Evidence(ckpt, committed')
      /\ \A r \in ckpt.journal.results : IsCommitted(committed', r)
      /\ \A d \in ckpt.completed \cup ckpt.own : IsCommitted(committed', d)
  BY <1>1, <1>3, EvidenceCommitted
<1>5. CoversAll(ckpt.journal, committed', AllStarts')
  BY <1>1, <1>3, CoversCommitted
<1>6. QED
  BY <1>2, <1>4, <1>5 DEF HistoryOK, Checkpointed

LEMMA RoundOfParts ==
  ASSUME NEW results, NEW e \in RoundOf(results)
  PROVE  \E r \in results : e = Entry(r.call, r.use, r.value) /\ e.call = r.call /\ e.use = r.use
  BY DEF RoundOf, Entry

LEMMA CommitRoundOwner ==
  ASSUME FullInv, NEW t \in Attempt, CommitRound(t)
  PROVE  OwnerInv'
<1> USE FullParts
<1>1. UNCHANGED <<run, ckpt, worldVars>> /\ pc[t] = "commit" /\ Alone(t) /\ OthersKeep(t)
  BY CommitRoundShaped DEF CommitRound, Shaped
<1>2. CASE Leave(t) /\ UNCHANGED committed
  BY <1>1, <1>2, HistoryKept, LeaveOwner DEF Open
<1>3. CASE /\ OwnsRunning(t) /\ committed' = hist[t]
           /\ journal' = [journal EXCEPT ![t].results = {}] /\ Goto(t, "request")
           /\ UNCHANGED <<loaded, base, hist, known, calls>>
  <2> DEFINE round == RoundOf(journal[t].results)
  <2>1. Owns(t) /\ Open
    BY <1>3 DEF OwnsRunning, TransitionAllowed, Owns, Open, TerminalStatus, Absent
  <2>2. Runs(t)
    BY <1>1, <2>1 DEF Owner, Active
  <2>3. /\ calls[t] = NoCalls /\ journal[t].inflight = {}
        /\ journal[t] \in Journal /\ journal[t].results \in SUBSET Results
    BY <1>1, JournalType DEF Memory, InRound, MemoryTypes
  <2>4. journal'[t].inflight = {} /\ journal'[t].results = {}
    <3>1. journal'[t] = [journal[t] EXCEPT !.results = {}]
      BY <1>3 DEF MemoryTypes
    <3>2. QED
      BY <2>3, <3>1, JournalType
  <2>5. pc'[t] = "request" /\ UNCHANGED calls
    BY <1>3 DEF Goto, MemoryTypes
  <2>6. Quiet
    BY <1>1, <2>5, StartsShrink
  <2>7. AllStarts' \subseteq AllStarts /\ OneStarter'
    BY <2>6, QuietStarts
  <2>8. round \in SUBSET Entries /\ committed' = WithRound(committed, round)
    BY <1>1, <1>3, <2>2, <2>3, RoundOfType DEF Runs, HistoryInMemory
  <2>9. \A c \in Call : calls[t][c].stage = "none"
    BY <2>3 DEF NoCalls, NoCall
  <2>10. /\ \A i \in ckpt.journal.inflight : i.call \in Call
         /\ \A r \in ckpt.journal.results : r.call \in Call
    BY JournalType DEF StoreTypes, Checkpoint, Intents, Results
  <2>11. /\ ckpt.journal.inflight = {}
         /\ \A r \in ckpt.journal.results : r \in journal[t].results \/ IsCommitted(committed, r)
    BY <2>2, <2>3, <2>9, <2>10 DEF Runs, TakenOver
  <2>12. \A r \in journal[t].results :
           /\ Entry(r.call, r.use, r.value) \in round
           /\ ~HasUse(committed, r.call, r.use) /\ ResultCount(committed, r.call) = r.prior
           /\ r.use <= uses[r.call]
    BY <2>2 DEF RoundOf, Runs, JournalInMemory, Fresh, JournalOK
  <2>13. \A e \in round : e.use <= uses[e.call] /\ ~HasUse(committed, e.call, e.use)
    BY <2>12, RoundOfParts
  <2>14. \A d, e \in round : d.call = e.call => d = e
    <3>1. \A r, s \in journal[t].results : r.call = s.call => r = s
      BY DEF JournalOK, WellFormed
    <3>2. QED
      BY <3>1, RoundOfParts
  <2> HIDE DEF round
  <2>15. /\ HistoryOK' /\ Checkpointed'
         /\ \A r \in ckpt.journal.results : IsCommitted(committed', r)
    BY <1>1, <2>1, <2>7, <2>8, <2>11, <2>12, <2>13, <2>14, CommitKept
  <2>16. HistoryInMemory(t)' /\ CallsInMemory(t)' /\ Recovers(t)'
    BY <1>3, <2>3, <2>5, <2>9 DEF HistoryInMemory, CallsInMemory, Recovers
  <2>17. TakenOver(t)'
    BY <1>1, <2>11, <2>15 DEF TakenOver
  <2>18. JournalInMemory(t)'
    <3>1. committed \in History
      BY DEF StoreTypes
    <3>2. CoversAll(journal[t], committed, AllStarts')
      BY <2>2, <2>7, CoversFewer DEF Runs, JournalInMemory
    <3>3. CoversAll(journal'[t], committed', AllStarts')
      BY <2>3, <2>4, <2>8, <2>12, <3>1, <3>2, CoversCommitted
    <3>4. KnownCompleted(t)' = KnownCompleted(t) /\ KnownCompleted(t) \in SUBSET Completions
      BY <1>1, <1>3, KnownTypes DEF KnownCompleted
    <3>5. ASSUME NEW d \in KnownCompleted(t)
          PROVE  IsCommitted(committed', d)
      <4>1. d.call \in Call /\ d.prior \in Nat
        BY <3>4 DEF Completions
      <4>2. CASE IsCommitted(committed, d)
        BY <2>8, <3>1, <4>1, <4>2, CommittedStays
      <4>3. CASE \E r \in journal[t].results : Completion(r) = d
        <5>1. PICK r \in journal[t].results : r.call = d.call /\ r.prior = d.prior
          BY <4>3 DEF Completion
        <5>2. IsCommitted(committed', r)
          BY <2>3, <2>8, <2>12, <3>1, CommittedBy
        <5>3. QED
          BY <5>1, <5>2 DEF IsCommitted
      <4>4. QED
        BY <2>2, <4>2, <4>3 DEF Runs, JournalInMemory
    <3>6. Fresh(journal'[t], committed')
      BY <2>4 DEF Fresh
    <3>7. QED
      BY <3>3, <3>4, <3>5, <3>6 DEF JournalInMemory
  <2>19. Owner(t)'
    BY <2>16, <2>17, <2>18 DEF Owner, Runs
  <2>20. QED
    BY <1>1, <2>7, <2>15, <2>19, OwnerKept
<1>4. QED
  BY <1>2, <1>3 DEF CommitRound

\* A recovery commits what it restored and goes on with its turn.
LEMMA CarriesOwner ==
  ASSUME FullInv, NEW t \in Attempt, Carries(t), pc[t] = "restored", Owns(t), AllStarts' \subseteq AllStarts,
         UNCHANGED <<run, ckpt, uses>>
  PROVE  HistoryOK' /\ Checkpointed' /\ Owner(t)'
<1> USE FullParts
<1> DEFINE round == RoundOf(Restorable(ckpt, committed))
<1>1. /\ loaded[t] = ckpt /\ Open
      /\ committed' = WithRound(committed, round) /\ hist'[t] = committed'
  BY DEF Owner, Recovers, Carries, Owns, Open, TerminalStatus
<1>2. /\ ckpt.journal \in Journal /\ committed \in History
      /\ ckpt.journal.inflight \in SUBSET Intents /\ ckpt.journal.results \in SUBSET Results
  BY JournalType DEF StoreTypes, Checkpoint
<1>3. round \in SUBSET Entries
  <2>1. Restorable(ckpt, committed) \in SUBSET Results
    BY <1>2 DEF Restorable
  <2>2. QED
    BY <2>1, RoundOfType
<1>4. /\ JournalOK(ckpt.journal, uses, reruns, policy) /\ Evidence(ckpt, committed)
      /\ CoversAll(ckpt.journal, committed, AllStarts')
  BY <1>1, CoversFewer DEF FullInv, CallsInv, Checkpointed
<1>5. \A r \in Restorable(ckpt, committed) :
        r \in ckpt.journal.results /\ r.use <= uses[r.call] /\ ~HasUse(committed, r.call, r.use)
  BY <1>4 DEF Restorable, JournalOK, Evidence, ResultsOK
<1>6. \A e \in round : e.use <= uses[e.call] /\ ~HasUse(committed, e.call, e.use)
  BY <1>5, RoundOfParts
<1>7. \A d, e \in round : d.call = e.call => d = e
  <2>1. \A r, s \in Restorable(ckpt, committed) : r.call = s.call => r = s
    BY <1>4, <1>5 DEF JournalOK, WellFormed
  <2>2. QED
    BY <2>1, RoundOfParts
<1>8. \A i \in ckpt.journal.inflight, e \in round : i.call # e.call
  <2>1. \A i \in ckpt.journal.inflight, r \in Restorable(ckpt, committed) : i.call # r.call
    BY <1>4, <1>5 DEF JournalOK, WellFormed
  <2>2. QED
    BY <2>1, RoundOfParts
<1>9. \A r \in ckpt.journal.results :
        IsCommitted(committed, r) \/ Entry(r.call, r.use, r.value) \in round
  BY DEF Restorable, RoundOf
<1>10. \A r \in ckpt.journal.results :
         HasUse(committed, r.call, r.use) \/ Entry(r.call, r.use, r.value) \in round
  BY <1>4, <1>9, EntryUsed DEF Evidence, ResultsOK
<1> HIDE DEF round
<1>11. /\ HistoryOK' /\ Checkpointed' /\ Evidence(ckpt, committed')
       /\ \A r \in ckpt.journal.results : IsCommitted(committed', r)
       /\ \A d \in ckpt.completed \cup ckpt.own : IsCommitted(committed', d)
  BY <1>1, <1>3, <1>6, <1>7, <1>8, <1>9, CommitKept
<1>12. /\ journal'[t].inflight = ckpt.journal.inflight /\ journal'[t].results = {}
       /\ pc'[t] \in {"request", "settle"} /\ known'[t] = NothingRead
  BY <1>1 DEF Carries, Memory, Active
<1>13. CoversAll(journal'[t], committed', AllStarts')
  BY <1>1, <1>2, <1>3, <1>4, <1>10, <1>12, CoversCommitted
<1>14. \A d \in KnownCompleted(t)' : IsCommitted(committed', d)
  <2>1. KnownCompleted(t)' = CompletedThrough(ckpt)
    BY <1>12 DEF KnownCompleted, NothingRead
  <2>2. CompletedThrough(ckpt) \subseteq ckpt.completed \cup ckpt.own
    BY DEF CompletedThrough
  <2>3. QED
    BY <1>11, <2>1, <2>2
<1>15. JournalInMemory(t)'
  BY <1>12, <1>13, <1>14 DEF JournalInMemory, Fresh
<1>16. CallsInMemory(t)'
  <2>1. ASSUME NEW c \in Call, calls'[t][c].stage # "none"
        PROVE  calls'[t][c].stage = "carried" /\ ~HasUse(committed', c, calls'[t][c].use)
    <3>1. PICK i \in ckpt.journal.inflight : i.call = c
      BY <1>1, <2>1 DEF Carries, NoCall
    <3>2. calls'[t][c].stage = "carried" /\ calls'[t][c].use = i.use
      BY <1>1, <3>1 DEF Carries
    <3>3. QED
      BY <1>11, <3>1, <3>2 DEF Evidence
  <2>2. QED
    BY <2>1 DEF CallsInMemory
<1>17. TakenOver(t)'
  BY <1>11, <1>12 DEF TakenOver
<1>18. HistoryInMemory(t)' /\ Recovers(t)'
  BY <1>1, <1>12 DEF HistoryInMemory, Recovers
<1>19. QED
  BY <1>11, <1>15, <1>16, <1>17, <1>18 DEF Owner, Runs

LEMMA CommitRestoredOwner ==
  ASSUME FullInv, NEW t \in Attempt, CommitRestored(t)
  PROVE  OwnerInv'
<1> USE FullParts
<1>1. UNCHANGED <<run, ckpt, worldVars>> /\ pc[t] = "restored" /\ Alone(t) /\ OthersKeep(t)
  BY CommitRestoredShaped DEF CommitRestored, Shaped
<1>2. CASE Leave(t) /\ UNCHANGED committed
  BY <1>1, <1>2, HistoryKept, LeaveOwner DEF Open
<1>3. CASE hist[t] = committed \/ OwnsRunning(t)
  <2>1. Carries(t)
    BY <1>3, RestoredCarries
  <2>2. ASSUME NEW c \in Call PROVE calls'[t][c].stage # "ready"
    <3>1. CASE \E i \in loaded[t].journal.inflight : i.call = c
      BY <2>1, <3>1 DEF Carries
    <3>2. CASE \A i \in loaded[t].journal.inflight : i.call # c
      BY <2>1, <3>2 DEF Carries, NoCall
    <3>3. QED
      BY <3>1, <3>2
  <2>3. Quiet
    BY <1>1, <2>2, StartsShrink
  <2>4. AllStarts' \subseteq AllStarts /\ OneStarter'
    BY <2>3, QuietStarts
  <2>5. CASE Owns(t)
    BY <1>1, <2>1, <2>4, <2>5, CarriesOwner, OwnerKept
  <2>6. CASE ~Owns(t)
    <3>1. committed' = committed
      BY <1>3, <2>1, <2>6 DEF OwnsRunning, TransitionAllowed, Owns, Carries, TerminalStatus
    <3>2. HistoryOK' /\ Checkpointed'
      BY <1>1, <2>4, <3>1, HistoryKept, StoreKept DEF Open
    <3>3. Owner(t)'
      BY <1>1, <2>6 DEF Owner, Owns
    <3>4. QED
      BY <1>1, <2>4, <3>2, <3>3, OwnerKept
  <2>7. QED
    BY <2>5, <2>6
<1>4. QED
  BY <1>2, <1>3 DEF CommitRestored

-----------------------------------------------------------------------------
(* The steps of a call *)

\* What started was a use of its call.
LEMMA StartsOK ==
  ASSUME FullInv, NEW x \in AllStarts
  PROVE  x.use <= uses[x.call] /\ x.call \in Call
<1> USE FullParts
<1>1. PICK s \in Attempt : x \in Starts(s)
  BY DEF AllStarts
<1>2. x.call \in Call
  BY DEF AllStarts, Calls
<1>3. CASE [call |-> x.call, use |-> x.use, attempt |-> x.attempt, by |-> s] \in ran
  BY <1>2, <1>3 DEF FullInv, CallsInv, RanOK, CallOK
<1>4. CASE calls[s][x.call].stage = "ready" /\ calls[s][x.call].use = x.use
  BY <1>2, <1>4 DEF Memory, CallOK
<1>5. QED
  BY <1>1, <1>2, <1>3, <1>4 DEF Starts

LEMMA RequestOwner ==
  ASSUME FullInv, NEW t \in Attempt, Request(t)
  PROVE  OwnerInv'
<1> USE FullParts
<1>1. /\ pc[t] = "request" /\ UNCHANGED <<storeVars, hist, journal, known, policy, ran, reruns>>
      /\ Alone(t) /\ OthersKeep(t)
  BY RequestShaped DEF Request, Shaped
<1>2. PICK round \in SUBSET Call :
        /\ uses' = [c \in Call |-> IF c \in round THEN uses[c] + 1 ELSE uses[c]]
        /\ calls' = [calls EXCEPT ![t] = [c \in Call |->
             IF c \in round
             THEN [stage |-> "issued", use |-> uses[c] + 1, attempt |-> 1, value |-> 0]
             ELSE NoCall]]
  BY DEF Request
<1>3. pc'[t] = "round"
  BY DEF Request, Goto, MemoryTypes
<1>4. ASSUME NEW c \in Call
      PROVE  /\ calls'[t][c].stage \in {"none", "issued"}
             /\ calls'[t][c].stage = "issued" => calls'[t][c].use = uses[c] + 1
             /\ uses[c] \in Nat /\ uses'[c] \in Nat /\ uses[c] <= uses'[c]
  <2>1. calls'[t][c] = IF c \in round
             THEN [stage |-> "issued", use |-> uses[c] + 1, attempt |-> 1, value |-> 0]
             ELSE NoCall
    BY <1>2 DEF MemoryTypes
  <2>2. uses[c] \in Nat /\ uses'[c] = IF c \in round THEN uses[c] + 1 ELSE uses[c]
    BY <1>2 DEF WorldTypes
  <2>3. QED
    BY <2>1, <2>2 DEF NoCall
<1>5. Quiet
  BY <1>1, <1>4, StartsShrink
<1>6. AllStarts' \subseteq AllStarts /\ OneStarter'
  BY <1>5, QuietStarts
<1>7. \A k \in DOMAIN committed : \A e \in committed[k] : e.call \in Call /\ e.use \in Nat
  <2>1. \A k \in DOMAIN committed : committed[k] \in SUBSET Entries
    BY DEF StoreTypes, History
  <2>2. QED
    BY <2>1 DEF Entries
<1>8. HistoryOK'
  <2>1. UsesIn(committed, uses')
    BY <1>4, <1>7 DEF HistoryOK, UsesIn
  <2>2. QED
    BY <1>1, <2>1 DEF HistoryOK
<1>9. Checkpointed'
  BY <1>1, <1>6, StoreKept DEF Open
<1>10. ASSUME Owns(t)' PROVE Runs(t)'
  <2>1. Runs(t)
    BY <1>1, <1>10 DEF Owner, Owns, Active
  <2>2. HistoryInMemory(t)'
    BY <1>1, <1>3, <2>1 DEF Runs, HistoryInMemory
  <2>3. ASSUME NEW c \in Call, calls'[t][c].stage # "none"
        PROVE  /\ ~HasUse(committed, c, calls'[t][c].use)
               /\ [call |-> c, use |-> calls'[t][c].use, attempt |-> calls'[t][c].attempt] \notin AllStarts
    <3>1. calls'[t][c].use = uses[c] + 1 /\ uses[c] \in Nat
      BY <1>4, <2>3
    <3>2. ~HasUse(committed, c, uses[c] + 1)
      BY <1>7, <3>1 DEF HasUse, HistoryOK, UsesIn
    <3>3. ~(uses[c] + 1 <= uses[c])
      BY <3>1
    <3>4. QED
      BY <3>1, <3>2, <3>3, StartsOK
  <2>4. CallsInMemory(t)'
    BY <1>1, <1>6, <2>3 DEF CallsInMemory
  <2>5. JournalInMemory(t)'
    BY <1>1, <1>6, <2>1, JournalKept DEF Runs
  <2>6. /\ \A i \in ckpt.journal.inflight : i.call \in Call
        /\ \A r \in ckpt.journal.results : r.call \in Call
    BY JournalType DEF StoreTypes, Checkpoint, Intents, Results
  <2>7. \A c \in Call : calls[t][c].stage = "none"
    BY <1>1 DEF Memory, InRound, NoCalls, NoCall
  <2>8. TakenOver(t)'
    BY <1>1, <2>1, <2>6, <2>7 DEF Runs, TakenOver
  <2>9. QED
    BY <2>2, <2>4, <2>5, <2>8 DEF Runs
<1>11. Owner(t)'
  BY <1>3, <1>10 DEF Owner, Recovers
<1>12. QED
  BY <1>1, <1>6, <1>8, <1>9, <1>11, OwnerKept

\* A call that moves on keeps its use.
LEMMA MovedInMemory ==
  ASSUME FullInv, NEW t \in Attempt, NEW c \in Call, Unfinished(t, c), CallsInMemory(t),
         NEW s, NEW v, s \notin {"none", "issued"}, Moved(t, c, s, v), committed' = committed,
         \A x \in AllStarts' : x \in AllStarts \/ x.call = c
  PROVE  CallsInMemory(t)'
<1>1. ASSUME NEW d \in Call, calls'[t][d].stage # "none"
      PROVE  ~HasUse(committed, d, calls'[t][d].use)
  BY <1>1 DEF CallsInMemory, Moved, Unfinished
<1>2. ASSUME NEW d \in Call, calls'[t][d].stage = "issued"
      PROVE  [call |-> d, use |-> calls'[t][d].use, attempt |-> calls'[t][d].attempt] \notin AllStarts'
  <2>1. d # c /\ calls'[t][d] = calls[t][d]
    BY <1>2 DEF Moved
  <2>2. [call |-> d, use |-> calls'[t][d].use, attempt |-> calls'[t][d].attempt] \notin AllStarts
    BY <1>2, <2>1 DEF CallsInMemory
  <2>3. QED
    BY <2>1, <2>2
<1>3. QED
  BY <1>1, <1>2 DEF CallsInMemory

\* A call that moves on in memory.
LEMMA MovesOwner ==
  ASSUME FullInv, NEW t \in Attempt, NEW c \in Call, Unfinished(t, c), calls[t][c].stage # "failed",
         NEW s, NEW v, s \notin {"none", "issued"}, Moved(t, c, s, v), Quiet,
         Alone(t), OthersKeep(t), UNCHANGED <<storeVars, pc, hist, journal, known, uses>>
  PROVE  OwnerInv'
<1> USE FullParts
<1>1. AllStarts' \subseteq AllStarts /\ OneStarter' /\ InRound(t)
  BY QuietStarts DEF Unfinished
<1>2. HistoryOK' /\ Checkpointed'
  BY <1>1, HistoryKept, StoreKept DEF Open
<1>3. ASSUME Owns(t)' PROVE Runs(t)'
  <2>1. Runs(t)
    BY <1>1, <1>3 DEF Owner, Owns, Active, InRound
  <2>2. HistoryInMemory(t)'
    BY <2>1 DEF Runs, HistoryInMemory
  <2>3. JournalInMemory(t)'
    BY <1>1, <2>1, JournalKept DEF Runs
  <2>4. CallsInMemory(t)'
    BY <1>1, <2>1, MovedInMemory DEF Runs
  <2>5. /\ \A i \in ckpt.journal.inflight : i.call \in Call
        /\ \A r \in ckpt.journal.results : r.call \in Call
    BY JournalType DEF StoreTypes, Checkpoint, Intents, Results
  <2>6. TakenOver(t)'
    BY <2>1, <2>5 DEF Runs, TakenOver, Moved
  <2>7. QED
    BY <2>2, <2>3, <2>4, <2>6 DEF Runs
<1>4. Owner(t)'
  BY <1>1, <1>3 DEF Owner, Recovers, InRound
<1>5. QED
  BY <1>1, <1>2, <1>4, OwnerKept

LEMMA RunEffectOwner ==
  ASSUME FullInv, NEW t \in Attempt, NEW c \in Call, RunEffect(t, c)
  PROVE  OwnerInv'
<1> USE FullParts
<1>1. /\ UNCHANGED <<storeVars, pc, hist, journal, known, uses>>
      /\ calls[t][c].stage = "ready" /\ Unfinished(t, c)
      /\ Alone(t) /\ OthersKeep(t)
  BY RunEffectShaped DEF RunEffect, Shaped, Unfinished
<1>2. Quiet /\ Moved(t, c, "ran", calls[t][c].attempt)
  BY RunQuiet, RanMoved
<1>3. QED
  BY <1>1, <1>2, MovesOwner

LEMMA RerunCarriedOwner ==
  ASSUME FullInv, NEW t \in Attempt, NEW intent \in journal[t].inflight, RerunCarried(t, intent)
  PROVE  OwnerInv'
<1> USE FullParts
<1>1. /\ UNCHANGED <<storeVars, pc, hist, journal, known, worldVars>>
      /\ pc[t] = "settle" /\ calls[t][intent.call].stage = "carried"
      /\ Alone(t) /\ OthersKeep(t)
  BY RerunCarriedShaped DEF RerunCarried, Shaped, Settling
<1>2. /\ intent.call \in Call /\ intent.attempt \in Nat
      /\ calls'[t][intent.call].stage = "issued"
      /\ calls'[t][intent.call].attempt = intent.attempt + 1
      /\ calls'[t][intent.call].use = calls[t][intent.call].use
      /\ \A d \in Call \ {intent.call} : calls'[t][d] = calls[t][d]
  BY RerunMoved DEF Intents
<1>3. Quiet
  BY <1>1, <1>2, StartsShrink
<1>4. AllStarts' \subseteq AllStarts /\ OneStarter'
  BY <1>3, QuietStarts
<1>5. HistoryOK' /\ Checkpointed'
  BY <1>1, <1>4, HistoryKept, StoreKept DEF Open
<1>6. ASSUME Owns(t)' PROVE Runs(t)'
  <2>1. Runs(t)
    BY <1>1, <1>6 DEF Owner, Owns, Active
  <2>2. HistoryInMemory(t)'
    BY <1>1, <2>1 DEF Runs, HistoryInMemory
  <2>3. JournalInMemory(t)'
    BY <1>1, <1>4, <2>1, JournalKept DEF Runs
  <2>4. ~HasUse(committed, intent.call, intent.use) /\ calls[t][intent.call].use = intent.use
    BY <1>1, <1>2, <2>1 DEF Runs, CallsInMemory, Memory
  <2> DEFINE x == [call |-> intent.call, use |-> intent.use, attempt |-> intent.attempt + 1]
  <2>5. x \notin AllStarts
    <3>1. ~Covers(journal[t], committed, x)
      <4>1. \A i \in journal[t].inflight : i.call = intent.call => i.attempt = intent.attempt
        BY DEF JournalOK, WellFormed
      <4>2. ~(intent.attempt >= intent.attempt + 1)
        BY <1>2
      <4>3. \A r \in journal[t].results : r.call # intent.call
        BY DEF JournalOK, WellFormed
      <4>4. QED
        BY <2>4, <4>1, <4>2, <4>3 DEF Covers
    <3>2. QED
      BY <2>1, <3>1 DEF Runs, JournalInMemory, CoversAll
  <2>6. CallsInMemory(t)'
    <3>1. ASSUME NEW d \in Call, calls'[t][d].stage # "none"
          PROVE  ~HasUse(committed, d, calls'[t][d].use)
      BY <1>1, <1>2, <2>1, <3>1 DEF Runs, CallsInMemory
    <3>2. ASSUME NEW d \in Call, calls'[t][d].stage = "issued"
          PROVE  [call |-> d, use |-> calls'[t][d].use, attempt |-> calls'[t][d].attempt] \notin AllStarts
      <4>1. CASE d = intent.call
        BY <1>2, <2>4, <2>5, <4>1
      <4>2. CASE d # intent.call
        <5>1. calls'[t][d] = calls[t][d]
          BY <1>2, <4>2
        <5>2. QED
          BY <2>1, <3>2, <5>1 DEF Runs, CallsInMemory
      <4>3. QED
        BY <4>1, <4>2
    <3>3. QED
      BY <1>1, <1>4, <3>1, <3>2 DEF CallsInMemory
  <2>7. /\ \A i \in ckpt.journal.inflight : i.call \in Call
        /\ \A r \in ckpt.journal.results : r.call \in Call
    BY JournalType DEF StoreTypes, Checkpoint, Intents, Results
  <2>8. \A d \in Call : calls[t][d].stage = "failed" => calls'[t][d].stage = "failed"
    BY <1>1, <1>2
  <2>9. TakenOver(t)'
    BY <1>1, <2>1, <2>7, <2>8 DEF Runs, TakenOver
  <2>10. QED
    BY <2>2, <2>3, <2>6, <2>9 DEF Runs
<1>7. Owner(t)'
  BY <1>1, <1>6 DEF Owner, Recovers
<1>8. QED
  BY <1>1, <1>4, <1>5, <1>7, OwnerKept

\* What an owner's next journal has to say of its calls.
NextOK(t, c, own, next) ==
  /\ Fresh(next, committed)
  /\ CoversAll(next, committed, AllStarts)
  /\ \A i \in next.inflight : ~HasUse(committed, i.call, i.use)
  /\ \A d \in KnownCompleted(t) \cup own :
       IsCommitted(committed, d) \/ \E r \in next.results : Completion(r) = d
  /\ \A i \in next.inflight : i.call = c \/ \E k \in journal[t].inflight : k.call = i.call
  /\ \A r \in next.results : r.call = c \/ r \in journal[t].results

\* A checkpoint the owner wrote.
LEMMA StoredEvidence ==
  ASSUME FullInv, NEW t \in Attempt, NEW c, NEW phase, NEW own, NEW next \in Journal,
         NextOK(t, c, own, next), Store(t, phase, own, next)
  PROVE  Evidence(ckpt', committed) /\ ckpt'.journal = next
<1>1. /\ ckpt'.journal = next /\ ckpt'.own = own /\ ckpt'.completed = KnownCompleted(t)
  BY DEF Store
<1>2. ResultsOK(next.results, committed)
  BY FullParts, FreshEvidence DEF NextOK, StoreTypes
<1>3. \A r \in next.results : Completion(r).call = r.call /\ Completion(r).prior = r.prior
  BY DEF Completion
<1>4. \A d \in own : \/ IsCommitted(committed, d)
                     \/ \E r \in next.results : r.call = d.call /\ r.prior = d.prior
  BY <1>3 DEF NextOK
<1>5. QED
  BY <1>1, <1>2, <1>4 DEF Evidence, NextOK

LEMMA LandedOwner ==
  ASSUME FullInv, NEW t \in Attempt, NEW c \in Call, Unfinished(t, c), Owns(t),
         NEW phase, NEW own, NEW next \in Journal, NEW landed,
         Landed(t, c, phase, own, next, landed), NextOK(t, c, own, next),
         UNCHANGED <<pc, hist, committed>>, run'.lease = run.lease, run'.status = run.status,
         CallsInMemory(t)', CoversAll(next, committed, AllStarts')
  PROVE  Checkpointed' /\ Owner(t)'
<1> USE FullParts
<1>1. Runs(t) /\ Active(t)
  BY DEF Owner, Active, Unfinished, InRound
<1>2. Evidence(ckpt', committed) /\ ckpt'.journal = next
  BY StoredEvidence DEF Landed
<1>3. journal'[t] = next /\ known'[t] = [read |-> TRUE, calls |-> KnownCompleted(t) \cup own]
  BY DEF Landed, SetKnown, MemoryTypes
<1>4. Checkpointed'
  BY <1>2 DEF Checkpointed
<1>5. HistoryInMemory(t)' /\ Recovers(t)'
  BY <1>1 DEF Unfinished, InRound, Runs, HistoryInMemory, Recovers
<1>6. KnownCompleted(t)' = KnownCompleted(t) \cup own
  BY <1>3 DEF KnownCompleted
<1>7. JournalInMemory(t)'
  BY <1>3, <1>6 DEF JournalInMemory, NextOK
<1>8. TakenOver(t)'
  BY <1>2, <1>3 DEF TakenOver
<1>9. QED
  BY <1>4, <1>5, <1>7, <1>8 DEF Owner, Runs

\* A call stopped by a write that failed; the write may be in the store.
LEMMA FailedOwner ==
  ASSUME FullInv, NEW t \in Attempt, NEW c \in Call, Unfinished(t, c),
         NEW phase, NEW own, NEW next \in Journal, Failed(t, c, phase, own, next),
         Owns(t) => NextOK(t, c, own, next), Alone(t), OthersKeep(t),
         UNCHANGED <<pc, hist, committed, policy, uses, ran>>,
         run'.lease = run.lease, run'.status = run.status
  PROVE  OwnerInv'
<1> USE FullParts
<1>1. Moved(t, c, "failed", calls[t][c].value) /\ InRound(t)
  BY StageMoved DEF Failed, Unfinished
<1>2. Quiet
  BY <1>1, StartsShrink DEF Moved
<1>3. AllStarts' \subseteq AllStarts /\ OneStarter'
  BY <1>2, QuietStarts
<1>4. \/ UNCHANGED <<run, ckpt>>
      \/ LostAnswers /\ Owns(t) /\ Store(t, phase, own, next)
  BY FencedOut DEF Failed
<1>5. UNCHANGED journal /\ known'[t] = [read |-> TRUE, calls |-> KnownCompleted(t)]
  BY DEF Failed, SetKnown, MemoryTypes
<1>6. Checkpointed'
  <2>1. CASE UNCHANGED <<run, ckpt>>
    BY <1>3, <2>1, StoreKept DEF Open
  <2>2. CASE Owns(t) /\ Store(t, phase, own, next)
    <3>1. Evidence(ckpt', committed) /\ ckpt'.journal = next
      BY <2>2, StoredEvidence
    <3>2. CoversAll(next, committed, AllStarts')
      BY <1>3, <2>2, CoversFewer DEF NextOK
    <3>3. QED
      BY <3>1, <3>2 DEF Checkpointed
  <2>3. QED
    BY <1>4, <2>1, <2>2
<1>7. ASSUME Owns(t)' PROVE Runs(t)'
  <2>1. Owns(t) /\ Runs(t)
    BY <1>1, <1>7 DEF Owner, Owns, Active, InRound
  <2>2. HistoryInMemory(t)'
    BY <1>5, <2>1 DEF Runs, HistoryInMemory
  <2>3. CallsInMemory(t)'
    BY <1>1, <1>3, <2>1, MovedInMemory DEF Runs
  <2>4. KnownCompleted(t)' = KnownCompleted(t)
    BY <1>5 DEF KnownCompleted
  <2>5. CoversAll(journal[t], committed, AllStarts')
    BY <1>3, <2>1, CoversFewer DEF Runs, JournalInMemory
  <2>6. JournalInMemory(t)'
    BY <1>5, <2>1, <2>4, <2>5 DEF Runs, JournalInMemory
  <2>7. \A d \in Call : calls[t][d].stage = "failed" => calls'[t][d].stage = "failed"
    BY <1>1 DEF Moved
  <2>8. TakenOver(t)'
    <3>1. CASE UNCHANGED <<run, ckpt>>
      <4>1. /\ \A i \in ckpt.journal.inflight : i.call \in Call
            /\ \A r \in ckpt.journal.results : r.call \in Call
        BY JournalType DEF StoreTypes, Checkpoint, Intents, Results
      <4>2. QED
        BY <1>5, <2>1, <2>7, <3>1, <4>1 DEF Runs, TakenOver
    <3>2. CASE LostAnswers /\ Store(t, phase, own, next)
      <4>1. ckpt'.journal = next
        BY <3>2 DEF Store
      <4>2. calls'[t][c].stage = "failed"
        BY <1>1 DEF Moved
      <4>3. QED
        BY <1>5, <2>1, <3>2, <4>1, <4>2 DEF TakenOver, NextOK
    <3>3. QED
      BY <1>4, <3>1, <3>2
  <2>9. QED
    BY <2>2, <2>3, <2>6, <2>8 DEF Runs
<1>8. Owner(t)'
  BY <1>1, <1>7 DEF Owner, Recovers, InRound
<1>9. QED
  BY <1>3, <1>6, <1>8, HistoryKept, OwnerKept

LEMMA AppendOwner ==
  ASSUME FullInv, NEW t \in Attempt, NEW c \in Call, Unfinished(t, c),
         NEW phase, NEW own, NEW next \in Journal, NEW landed,
         AppendTo(t, c, phase, own, next, landed), Owns(t) => NextOK(t, c, own, next),
         Alone(t), OthersKeep(t), UNCHANGED <<pc, hist, committed, policy, uses, ran>>,
         run'.lease = run.lease, run'.status = run.status,
         Landed(t, c, phase, own, next, landed) /\ Owns(t) =>
           OneStarter' /\ CallsInMemory(t)' /\ CoversAll(next, committed, AllStarts')
  PROVE  OwnerInv'
<1>1. CASE Failed(t, c, phase, own, next)
  BY <1>1, FailedOwner
<1>2. CASE Landed(t, c, phase, own, next, landed)
  <2>1. Owns(t)
    BY <1>2, FencedOut DEF Landed
  <2>2. Checkpointed' /\ Owner(t)'
    BY <1>2, <2>1, LandedOwner
  <2>3. QED
    BY <1>2, <2>1, <2>2, HistoryKept, OwnerKept
<1>3. QED
  BY <1>1, <1>2, AppendCases

LEMMA AppendKeepsLease ==
  ASSUME FullInv, NEW t \in Attempt, NEW c, NEW phase, NEW own, NEW next, NEW landed,
         AppendTo(t, c, phase, own, next, landed)
  PROVE  run'.lease = run.lease /\ run'.status = run.status
<1>1. run \in Record
  BY FullParts DEF StoreTypes
<1>2. run' = run \/ run' = [run EXCEPT !.checkpointVersion = @ + 1]
  BY DEF AppendTo, Store
<1>3. QED
  BY <1>1, <1>2 DEF Record

\* What is known of an intent and of a result before they are appended.
LEMMA NextIntentOK ==
  ASSUME FullInv, NEW t \in Attempt, NEW c \in Call, Unfinished(t, c),
         NEW p \in {policy[c], "manual-recovery"}, Runs(t)
  PROVE  /\ NextOK(t, c, {}, WithIntent(t, c, p))
         /\ \A more \in SUBSET Calls :
              (\A x \in more : \/ x \in AllStarts
                               \/ /\ x.call = c /\ x.use = calls[t][c].use
                                  /\ x.attempt = calls[t][c].attempt)
              => CoversAll(WithIntent(t, c, p), committed, more)
<1> USE FullParts
<1> DEFINE i == IntentFor(t, c, p)
           next == WithIntent(t, c, p)
<1>1. i \in Intents /\ next = PutIntent(journal[t], i)
  BY WithIntentOK
<1>2. i.call = c /\ i.use = calls[t][c].use /\ i.attempt = calls[t][c].attempt
  BY DEF IntentFor
<1>3. journal[t] \in Journal /\ journal[t].inflight \in SUBSET Intents
  BY JournalType DEF MemoryTypes
<1> HIDE DEF i
<1>4. /\ next.results = journal[t].results
      /\ next.inflight = (journal[t].inflight \ {k \in journal[t].inflight : k.call = c}) \cup {i}
  BY <1>1, <1>2, <1>3, JournalType DEF PutIntent
<1>5. \A k \in journal[t].inflight : k.call = i.call => k.use = i.use /\ k.attempt <= i.attempt
  BY <1>2 DEF Memory
<1> HIDE DEF next
<1>6. ASSUME NEW more \in SUBSET Calls,
             \A x \in more : \/ x \in AllStarts
                             \/ /\ x.call = c /\ x.use = calls[t][c].use
                                /\ x.attempt = calls[t][c].attempt
      PROVE  CoversAll(next, committed, more)
  <2>1. AllStarts \in SUBSET Calls /\ CoversAll(journal[t], committed, AllStarts)
    BY DEF AllStarts, Runs, JournalInMemory
  <2>2. QED
    BY <1>1, <1>2, <1>3, <1>5, <1>6, <2>1, CoversIntent
<1>7. AllStarts \in SUBSET Calls
  BY DEF AllStarts
<1>8. CoversAll(next, committed, AllStarts)
  BY <1>6, <1>7
<1>9. Fresh(next, committed)
  BY <1>4 DEF Runs, JournalInMemory, Fresh
<1>10. ASSUME NEW k \in next.inflight
       PROVE  ~HasUse(committed, k.call, k.use)
  <2>1. CASE k = i
    BY <1>2, <2>1 DEF Runs, CallsInMemory, Unfinished
  <2>2. CASE k \in journal[t].inflight
    <3>1. k.call \in Call /\ calls[t][k.call].stage # "none" /\ calls[t][k.call].use = k.use
      BY <1>3, <2>2 DEF Memory, Intents
    <3>2. QED
      BY <3>1 DEF Runs, CallsInMemory
  <2>3. QED
    BY <1>4, <2>1, <2>2
<1>11. \A d \in KnownCompleted(t) :
         IsCommitted(committed, d) \/ \E r \in next.results : Completion(r) = d
  BY <1>4 DEF Runs, JournalInMemory
<1>12. /\ \A k \in next.inflight : k.call = c \/ k \in journal[t].inflight
       /\ \A r \in next.results : r \in journal[t].results
  BY <1>2, <1>4
<1>13. NextOK(t, c, {}, next)
  BY <1>8, <1>9, <1>10, <1>11, <1>12 DEF NextOK
<1>14. QED
  BY <1>6, <1>13 DEF next

LEMMA NextResultOK ==
  ASSUME FullInv, NEW t \in Attempt, NEW c \in Call, Unfinished(t, c), NEW v \in Int, Runs(t)
  PROVE  NextOK(t, c, {Completion(Result(t, c, v))}, WithResult(t, c, v))
<1> USE FullParts
<1> DEFINE res == Result(t, c, v)
           next == WithResult(t, c, v)
<1>1. next = PutResult(journal[t], res) /\ res.call = c /\ res.use = calls[t][c].use
  BY WithResultOK DEF Result
<1>2. res.prior = ResultCount(committed, c)
  BY DEF Runs, HistoryInMemory, Unfinished, InRound, Result
<1>3. journal[t] \in Journal /\ journal[t].inflight \in SUBSET Intents
  BY JournalType DEF MemoryTypes
<1> HIDE DEF res
<1>4. /\ next.results = journal[t].results \cup {res}
      /\ next.inflight = journal[t].inflight \ {k \in journal[t].inflight : k.call = c}
  BY <1>1 DEF PutResult
<1>5. \A k \in journal[t].inflight : k.call = res.call => k.use = res.use
  BY <1>1 DEF Memory
<1>6. CoversAll(next, committed, AllStarts)
  BY <1>1, <1>3, <1>5, CoversResult DEF Runs, JournalInMemory
<1> HIDE DEF next
<1>7. Fresh(next, committed)
  <2>1. ~HasUse(committed, c, calls[t][c].use)
    BY DEF Runs, CallsInMemory, Unfinished
  <2>2. QED
    BY <1>1, <1>2, <1>4, <2>1 DEF Runs, JournalInMemory, Fresh
<1>8. ASSUME NEW k \in next.inflight
      PROVE  ~HasUse(committed, k.call, k.use)
  <2>1. k.call \in Call /\ calls[t][k.call].stage # "none" /\ calls[t][k.call].use = k.use
    BY <1>3, <1>4 DEF Memory, Intents
  <2>2. QED
    BY <2>1 DEF Runs, CallsInMemory
<1>9. \A d \in KnownCompleted(t) \cup {Completion(res)} :
        IsCommitted(committed, d) \/ \E r \in next.results : Completion(r) = d
  BY <1>4 DEF Runs, JournalInMemory
<1>10. /\ \A k \in next.inflight : k \in journal[t].inflight
       /\ \A r \in next.results : r.call = c \/ r \in journal[t].results
  BY <1>1, <1>4
<1>11. NextOK(t, c, {Completion(res)}, next)
  BY <1>6, <1>7, <1>8, <1>9, <1>10 DEF NextOK
<1>12. QED
  BY <1>11 DEF next, res

\* A call whose intent is recorded is free to start.
LEMMA StagedStarts ==
  ASSUME FullInv, NEW t \in Attempt, NEW c \in Call, Alone(t), NEW s \in {"ready", "parked"}, NEW v,
         Moved(t, c, s, v), UNCHANGED <<policy, ran>>, CallsInMemory(t),
         s = "ready" => calls[t][c].stage = "issued"
  PROVE  /\ OneStarter'
         /\ AllStarts' \in SUBSET Calls
         /\ \A x \in AllStarts' :
              \/ x \in AllStarts
              \/ x.call = c /\ x.use = calls[t][c].use /\ x.attempt = calls[t][c].attempt
<1> DEFINE x0 == [call |-> c, use |-> calls[t][c].use, attempt |-> calls[t][c].attempt]
<1>1. ASSUME NEW q \in Attempt, NEW x \in Calls, x \in Starts(q)'
      PROVE  x \in Starts(q) \/ (q = t /\ x = x0 /\ s = "ready")
  <2>1. x.call \in Call /\ x = [call |-> x.call, use |-> x.use, attempt |-> x.attempt]
    BY DEF Calls
  <2>2. /\ policy[x.call] # "pure"
        /\ \/ [call |-> x.call, use |-> x.use, attempt |-> x.attempt, by |-> q] \in ran
           \/ /\ calls'[q][x.call].stage = "ready"
              /\ calls'[q][x.call].use = x.use /\ calls'[q][x.call].attempt = x.attempt
    BY <1>1 DEF Starts
  <2>3. CASE [call |-> x.call, use |-> x.use, attempt |-> x.attempt, by |-> q] \in ran
    BY <2>2, <2>3 DEF Starts
  <2>4. CASE /\ calls'[q][x.call].stage = "ready"
             /\ calls'[q][x.call].use = x.use /\ calls'[q][x.call].attempt = x.attempt
    <3>1. CASE q = t /\ x.call = c
      BY <2>1, <2>4, <3>1 DEF Moved
    <3>2. CASE q # t \/ x.call # c
      <4>1. calls'[q][x.call] = calls[q][x.call]
        BY <2>1, <3>2 DEF Alone, Moved
      <4>2. QED
        BY <2>2, <2>4, <4>1 DEF Starts
    <3>3. QED
      BY <3>1, <3>2
  <2>5. QED
    BY <2>2, <2>3, <2>4
<1>2. s = "ready" => x0 \notin AllStarts
  BY DEF CallsInMemory
<1>3. x0.call = c /\ x0.use = calls[t][c].use /\ x0.attempt = calls[t][c].attempt
  OBVIOUS
<1> HIDE DEF x0
<1>4. \A q \in Attempt, x \in Calls : x \in Starts(q) => x \in AllStarts
  BY DEF AllStarts
<1>5. ASSUME NEW q \in Attempt, NEW r \in Attempt, NEW x \in Calls, x \in Starts(q)', x \in Starts(r)'
      PROVE  q = r
  <2>1. CASE x \in Starts(q) /\ x \in Starts(r)
    BY <2>1, FullParts DEF OneStarter
  <2>2. CASE ~(x \in Starts(q) /\ x \in Starts(r))
    BY <1>1, <1>2, <1>4, <1>5, <2>2
  <2>3. QED
    BY <2>1, <2>2
<1>6. OneStarter'
  BY <1>5 DEF OneStarter
<1>7. AllStarts' = {x \in Calls : \E q \in Attempt : x \in Starts(q)'}
  BY DEF AllStarts
<1>8. \A x \in AllStarts' : x \in AllStarts \/ x = x0
  BY <1>1, <1>4, <1>7
<1>9. QED
  BY <1>3, <1>6, <1>7, <1>8

LEMMA AppendIntentOwner ==
  ASSUME FullInv, NEW t \in Attempt, NEW c \in Call, Unfinished(t, c), calls[t][c].stage # "failed",
         NEW p \in {policy[c], "manual-recovery"}, NEW s \in {"ready", "parked"},
         s = "ready" => calls[t][c].stage = "issued",
         AppendIntent(t, c, p, s), Alone(t), OthersKeep(t),
         UNCHANGED <<pc, hist, committed, policy, uses, ran>>
  PROVE  OwnerInv'
<1> USE FullParts
<1> DEFINE next == WithIntent(t, c, p)
           landed == [calls[t][c] EXCEPT !.stage = s]
<1>1. AppendTo(t, c, "before-tool", {}, next, landed)
  BY DEF AppendIntent
<1>2. next \in Journal
  BY WithIntentOK
<1>3. Owns(t) => Runs(t)
  BY DEF Owner, Active, Unfinished, InRound
<1>4. Owns(t) => NextOK(t, c, {}, next)
  BY <1>3, NextIntentOK
<1>5. ASSUME Landed(t, c, "before-tool", {}, next, landed), Owns(t)
      PROVE  OneStarter' /\ CallsInMemory(t)' /\ CoversAll(next, committed, AllStarts')
  <2>1. Moved(t, c, s, calls[t][c].value)
    BY <1>5, StageMoved DEF Landed
  <2>2. CallsInMemory(t) /\ Runs(t)
    BY <1>3, <1>5 DEF Runs
  <2>3. /\ OneStarter' /\ AllStarts' \in SUBSET Calls
        /\ \A x \in AllStarts' :
             \/ x \in AllStarts
             \/ x.call = c /\ x.use = calls[t][c].use /\ x.attempt = calls[t][c].attempt
    BY <2>1, <2>2, StagedStarts
  <2>4. CoversAll(next, committed, AllStarts')
    BY <2>2, <2>3, NextIntentOK
  <2>5. CallsInMemory(t)'
    BY <2>1, <2>2, <2>3, MovedInMemory
  <2>6. QED
    BY <2>3, <2>4, <2>5
<1> HIDE DEF next, landed
<1>6. run'.lease = run.lease /\ run'.status = run.status
  BY <1>1, AppendKeepsLease
<1>7. QED
  BY <1>1, <1>2, <1>4, <1>5, <1>6, AppendOwner

LEMMA AppendResultOwner ==
  ASSUME FullInv, NEW t \in Attempt, NEW c \in Call, Unfinished(t, c), calls[t][c].stage # "failed",
         NEW v \in Int, AppendResult(t, c, v), Alone(t), OthersKeep(t),
         UNCHANGED <<pc, hist, committed, policy, uses, ran>>
  PROVE  OwnerInv'
<1> USE FullParts
<1> DEFINE next == WithResult(t, c, v)
           landed == [calls[t][c] EXCEPT !.stage = "done", !.value = v]
           own == {Completion(Result(t, c, v))}
<1>1. AppendTo(t, c, "after-tool", own, next, landed)
  BY DEF AppendResult
<1>2. next \in Journal
  BY WithResultOK
<1>3. Owns(t) => Runs(t)
  BY DEF Owner, Active, Unfinished, InRound
<1>4. Owns(t) => NextOK(t, c, own, next)
  BY <1>3, NextResultOK
<1>5. ASSUME Landed(t, c, "after-tool", own, next, landed), Owns(t)
      PROVE  OneStarter' /\ CallsInMemory(t)' /\ CoversAll(next, committed, AllStarts')
  <2>1. Moved(t, c, "done", v)
    BY <1>5, DoneMoved DEF Landed
  <2>2. Quiet
    BY <2>1, StartsShrink DEF Moved
  <2>3. AllStarts' \subseteq AllStarts /\ OneStarter'
    BY <2>2, QuietStarts
  <2>4. CallsInMemory(t)'
    BY <1>3, <1>5, <2>1, <2>3, MovedInMemory DEF Runs
  <2>5. CoversAll(next, committed, AllStarts')
    BY <1>4, <1>5, <2>3, CoversFewer DEF NextOK
  <2>6. QED
    BY <2>3, <2>4, <2>5
<1> HIDE DEF next, landed, own
<1>6. run'.lease = run.lease /\ run'.status = run.status
  BY <1>1, AppendKeepsLease
<1>7. QED
  BY <1>1, <1>2, <1>4, <1>5, <1>6, AppendOwner

LEMMA BeforeToolOwner ==
  ASSUME FullInv, NEW t \in Attempt, NEW c \in Call, BeforeTool(t, c)
  PROVE  OwnerInv'
<1> USE FullParts
<1>1. /\ Alone(t) /\ OthersKeep(t) /\ Unfinished(t, c) /\ calls[t][c].stage = "issued"
      /\ UNCHANGED <<committed, pc, loaded, base, hist, policy, uses, ran, reruns>> /\ InRound(t)
  BY BeforeToolShaped, UnfinishedStages DEF BeforeTool, Shaped
<1>2. CASE Staged(policy[c])
  <2>1. /\ journal' = [journal EXCEPT ![t] = WithIntent(t, c, policy[c])]
        /\ SetStage(t, c, "ready") /\ UNCHANGED <<run, ckpt, known>>
    BY <1>2 DEF BeforeTool
  <2>2. Moved(t, c, "ready", calls[t][c].value)
    BY <2>1, StageMoved
  <2>3. Quiet
    <3>1. ASSUME NEW s \in Attempt, NEW x \in Calls, x \in Starts(s)'
          PROVE  x \in Starts(s)
      <4>1. x.call \in Call /\ policy[x.call] # "pure"
        BY <1>1, <3>1 DEF Calls, Starts
      <4>2. x.call # c
        BY <1>2, <4>1 DEF Staged
      <4>3. calls'[s][x.call] = calls[s][x.call]
        BY <1>1, <2>2, <4>1, <4>2 DEF Alone, Moved
      <4>4. QED
        BY <1>1, <3>1, <4>3 DEF Starts
    <3>2. \A s \in Attempt : Starts(s)' \subseteq Calls
      BY DEF Starts
    <3>3. QED
      BY <3>1, <3>2 DEF Quiet
  <2>4. AllStarts' \subseteq AllStarts /\ OneStarter' /\ AllStarts' \in SUBSET Calls
    BY <2>3, QuietStarts DEF AllStarts
  <2>5. HistoryOK' /\ Checkpointed'
    BY <1>1, <2>1, <2>4, HistoryKept, StoreKept DEF Open
  <2>6. ASSUME Owns(t)' PROVE Runs(t)'
    <3> DEFINE next == WithIntent(t, c, policy[c])
    <3>1. Runs(t)
      BY <1>1, <2>1, <2>6 DEF Owner, Owns, Active, InRound
    <3>2. journal'[t] = next
      BY <2>1 DEF MemoryTypes
    <3>3. NextOK(t, c, {}, next) /\ CoversAll(next, committed, AllStarts')
      BY <1>1, <2>4, <3>1, NextIntentOK
    <3>4. \A k \in journal[t].inflight : \E i \in next.inflight : i.call = k.call
      <4>1. next = PutIntent(journal[t], IntentFor(t, c, policy[c]))
        BY <1>1, WithIntentOK
      <4>2. next.inflight = (journal[t].inflight \ {k \in journal[t].inflight : k.call = c})
                              \cup {IntentFor(t, c, policy[c])}
        BY <4>1, JournalType DEF PutIntent, IntentFor, MemoryTypes
      <4>3. QED
        BY <4>2 DEF IntentFor
    <3>5. next.results = journal[t].results
      <4>1. journal[t] \in Journal
        BY DEF MemoryTypes
      <4>2. QED
        BY <4>1, JournalType DEF WithIntent
    <3> HIDE DEF next
    <3>6. HistoryInMemory(t)'
      BY <1>1, <3>1 DEF Runs, HistoryInMemory, InRound
    <3>7. CallsInMemory(t)'
      BY <1>1, <2>2, <2>4, <3>1, MovedInMemory DEF Runs
    <3>8. KnownCompleted(t)' = KnownCompleted(t)
      BY <2>1 DEF KnownCompleted
    <3>9. JournalInMemory(t)'
      BY <1>1, <3>2, <3>3, <3>8 DEF JournalInMemory, NextOK
    <3>10. /\ \A i \in ckpt.journal.inflight : i.call \in Call
           /\ \A r \in ckpt.journal.results : r.call \in Call
      BY JournalType DEF StoreTypes, Checkpoint, Intents, Results
    <3>11. \A d \in Call : calls[t][d].stage = "failed" => calls'[t][d].stage = "failed"
      BY <1>1, <2>2 DEF Moved
    <3>12. TakenOver(t)'
      BY <1>1, <2>1, <3>1, <3>2, <3>4, <3>5, <3>10, <3>11 DEF Runs, TakenOver
    <3>13. QED
      BY <3>6, <3>7, <3>9, <3>12 DEF Runs
  <2>7. Owner(t)'
    BY <1>1, <2>6 DEF Owner, Recovers, InRound
  <2>8. QED
    BY <1>1, <2>4, <2>5, <2>7, OwnerKept
<1>3. CASE ~Staged(policy[c])
  <2>1. AppendIntent(t, c, policy[c], "ready")
    BY <1>3 DEF BeforeTool
  <2>2. QED
    BY <1>1, <2>1, AppendIntentOwner
<1>4. QED
  BY <1>2, <1>3

LEMMA HookParksOwner ==
  ASSUME FullInv, NEW t \in Attempt, NEW c \in Call, HookParks(t, c)
  PROVE  OwnerInv'
<1> USE FullParts
<1>1. /\ Alone(t) /\ OthersKeep(t) /\ Unfinished(t, c) /\ calls[t][c].stage = "ready"
      /\ UNCHANGED <<committed, pc, loaded, base, hist, policy, uses, ran, reruns>>
  BY HookParksShaped, UnfinishedStages DEF HookParks, Shaped
<1>2. CASE policy[c] = "manual-recovery"
  <2>1. SetStage(t, c, "parked") /\ UNCHANGED <<run, ckpt, journal, known>>
    BY <1>2 DEF HookParks
  <2>2. Moved(t, c, "parked", calls[t][c].value)
    BY <2>1, StageMoved
  <2>3. Quiet
    BY <1>1, <2>2, StartsShrink DEF Moved
  <2>4. QED
    BY <1>1, <2>1, <2>2, <2>3, MovesOwner
<1>3. CASE policy[c] # "manual-recovery"
  <2>1. AppendIntent(t, c, "manual-recovery", "parked")
    BY <1>3 DEF HookParks
  <2>2. QED
    BY <1>1, <2>1, AppendIntentOwner
<1>4. QED
  BY <1>2, <1>3

LEMMA HookBlocksOwner ==
  ASSUME FullInv, NEW t \in Attempt, NEW c \in Call, HookBlocks(t, c)
  PROVE  OwnerInv'
<1>1. /\ Alone(t) /\ OthersKeep(t) /\ Unfinished(t, c) /\ calls[t][c].stage = "ready"
      /\ UNCHANGED <<committed, pc, hist, policy, uses, ran>>
  BY FullParts, HookBlocksShaped, UnfinishedStages DEF HookBlocks, Shaped
<1>2. AppendResult(t, c, Blocked) /\ Blocked \in Int
  BY DEF HookBlocks, Blocked
<1>3. QED
  BY <1>1, <1>2, AppendResultOwner

LEMMA AfterToolOwner ==
  ASSUME FullInv, NEW t \in Attempt, NEW c \in Call, AfterTool(t, c)
  PROVE  OwnerInv'
<1>1. /\ Alone(t) /\ OthersKeep(t) /\ Unfinished(t, c) /\ calls[t][c].stage = "ran"
      /\ UNCHANGED <<committed, pc, hist, policy, uses, ran>>
  BY FullParts, AfterToolShaped, UnfinishedStages DEF AfterTool, Shaped
<1>2. calls[t][c].value \in Int /\ AppendResult(t, c, calls[t][c].value)
  BY FullParts DEF MemoryTypes, CallRecord, AfterTool
<1>3. QED
  BY <1>1, <1>2, AppendResultOwner

LEMMA SettleCarriedOwner ==
  ASSUME FullInv, NEW t \in Attempt, NEW intent \in journal[t].inflight, SettleCarried(t, intent)
  PROVE  OwnerInv'
<1>1. intent.call \in Call
  BY FullParts, JournalType DEF MemoryTypes, Intents
<1>2. PICK v \in Int : AppendResult(t, intent.call, v)
  BY DEF SettleCarried, Decided, Interrupted
<1>3. /\ Unfinished(t, intent.call) /\ calls[t][intent.call].stage = "carried"
      /\ UNCHANGED <<committed, pc, hist, policy, uses, ran>>
  BY DEF SettleCarried, Settling, Unfinished, InRound
<1>4. Alone(t) /\ OthersKeep(t)
  BY FullParts, SettleCarriedShaped DEF Shaped
<1>5. QED
  BY <1>1, <1>2, <1>3, <1>4, AppendResultOwner

\* An operator's decisions leave the evidence, and no owner.
LEMMA ResolveRecoveryOwner ==
  ASSUME FullInv, ResolveRecovery
  PROVE  OwnerInv'
<1> USE FullParts
<1>1. /\ run.status = "needs-recovery"
      /\ UNCHANGED <<committed, attemptVars, policy, uses, ran>>
      /\ run'.lease = NoLease
  BY ResolveRecoveryShaped DEF ResolveRecovery
<1>2. Quiet
  BY <1>1 DEF Quiet, Starts
<1>3. AllStarts' \subseteq AllStarts /\ OneStarter'
  BY <1>2, QuietStarts
<1>4. WellFormed(ckpt.journal)
  BY DEF FullInv, CallsInv, JournalOK
<1>5. /\ ckpt'.journal.results = ckpt.journal.results
      /\ ckpt'.completed = ckpt.completed
      /\ \A i \in ckpt'.journal.inflight : \E k \in ckpt.journal.inflight : SameIntent(i, k)
      /\ \A k \in ckpt.journal.inflight : \E i \in ckpt'.journal.inflight : SameIntent(i, k)
      /\ \A d \in ckpt'.own : \E e \in ckpt.own : d.call = e.call /\ d.prior = e.prior
  BY <1>4, ResolvedEvidence
<1>6. Evidence(ckpt, committed) /\ CoversAll(ckpt.journal, committed, AllStarts')
  BY <1>1, <1>3, CoversFewer DEF Checkpointed, Open
<1>7. CoversAll(ckpt'.journal, committed, AllStarts')
  <2>1. ASSUME NEW x \in AllStarts'
        PROVE  Covers(ckpt'.journal, committed, x)
    <3>1. Covers(ckpt.journal, committed, x)
      BY <1>6 DEF CoversAll
    <3>2. ASSUME NEW k \in ckpt.journal.inflight, k.call = x.call, k.use = x.use, k.attempt >= x.attempt
          PROVE  \E i \in ckpt'.journal.inflight :
                   i.call = x.call /\ i.use = x.use /\ i.attempt >= x.attempt
      BY <1>5, <3>2 DEF SameIntent
    <3>3. QED
      BY <1>5, <3>1, <3>2 DEF Covers
  <2>2. QED
    BY <2>1 DEF CoversAll
<1>8. Evidence(ckpt', committed)
  <2>1. \A i \in ckpt'.journal.inflight : ~HasUse(committed, i.call, i.use)
    BY <1>5, <1>6 DEF Evidence, SameIntent
  <2>2. ASSUME NEW d \in ckpt'.own
        PROVE  \/ IsCommitted(committed, d)
               \/ \E r \in ckpt'.journal.results : r.call = d.call /\ r.prior = d.prior
    <3>1. PICK e \in ckpt.own : d.call = e.call /\ d.prior = e.prior
      BY <1>5
    <3>2. IsCommitted(committed, e) => IsCommitted(committed, d)
      BY <3>1 DEF IsCommitted
    <3>3. QED
      BY <1>5, <1>6, <3>1, <3>2 DEF Evidence
  <2>3. QED
    BY <1>5, <1>6, <2>1, <2>2 DEF Evidence
<1>9. Checkpointed' /\ HistoryOK'
  BY <1>1, <1>7, <1>8, HistoryKept DEF Checkpointed
<1>10. \A s \in Attempt : ~Owns(s)'
  BY <1>1, AttemptIsNat DEF Owns, NoLease
<1>11. QED
  BY <1>3, <1>9, <1>10 DEF OwnerInv, Owner

LEMMA SameOwner ==
  ASSUME OwnerInv, UNCHANGED vars
  PROVE  OwnerInv'
<1>1. \A s \in Attempt : Starts(s)' = Starts(s)
  BY DEF Starts
<1>2. AllStarts' = AllStarts
  BY <1>1 DEF AllStarts
<1>3. OneStarter' = OneStarter
  BY <1>1 DEF OneStarter
<1>4. HistoryOK' /\ Checkpointed'
  BY <1>2 DEF OwnerInv, HistoryOK, Checkpointed, Open
<1>5. ASSUME NEW t \in Attempt
      PROVE  Owner(t)'
  <2>1. Owner(t)
    BY DEF OwnerInv
  <2>2. KnownCompleted(t)' = KnownCompleted(t)
    BY DEF KnownCompleted
  <2>3. Owns(t)' = Owns(t) /\ Active(t)' = Active(t) /\ Recovers(t)' = Recovers(t)
    BY DEF Owns, Active, Recovers
  <2>4. Runs(t) => Runs(t)'
    BY <1>2, <2>2 DEF Runs, HistoryInMemory, CallsInMemory, JournalInMemory, TakenOver
  <2>5. QED
    BY <2>1, <2>3, <2>4 DEF Owner
<1>6. QED
  BY <1>3, <1>4, <1>5 DEF OwnerInv

LEMMA StepOwner == FullInv /\ [Next]_vars => OwnerInv'
<1> SUFFICES ASSUME FullInv, [Next]_vars PROVE OwnerInv'
  OBVIOUS
<1>1. CASE UNCHANGED vars
  BY <1>1, FullParts, SameOwner
<1>2. CASE ResolveRecovery
  BY <1>2, ResolveRecoveryOwner
<1>3. ASSUME NEW t \in Attempt, CallStep(t)
      PROVE  OwnerInv'
  BY <1>3, BeforeToolOwner, HookParksOwner, HookBlocksOwner, RunEffectOwner, AfterToolOwner
     DEF CallStep
<1>4. ASSUME NEW t \in Attempt, RoundStep(t) \/ Die(t)
      PROVE  OwnerInv'
  BY <1>4, RequestOwner, FinishRoundOwner, CommitRoundOwner, EndOwner DEF RoundStep
<1>5. ASSUME NEW t \in Attempt, RecoveryStep(t) \/ Claim(t)
      PROVE  OwnerInv'
  BY <1>5, ClaimOwner, LoadCheckpointOwner, PrepareOwner, StartOwner, CommitRestoredOwner,
     RerunCarriedOwner, SettleCarriedOwner DEF RecoveryStep
<1>6. QED
  BY <1>1, <1>2, <1>3, <1>4, <1>5 DEF Next

-----------------------------------------------------------------------------
(* What the invariant says of effects and outcomes *)

LEMMA EffectStarts ==
  ASSUME FullInv, NEW e \in ran, policy[e.call] # "pure"
  PROVE  /\ [call |-> e.call, use |-> e.use, attempt |-> e.attempt] \in Starts(e.by)
         /\ [call |-> e.call, use |-> e.use, attempt |-> e.attempt] \in AllStarts
         /\ e.by \in Attempt
<1> DEFINE x == [call |-> e.call, use |-> e.use, attempt |-> e.attempt]
<1>1. /\ e = [call |-> e.call, use |-> e.use, attempt |-> e.attempt, by |-> e.by]
      /\ x \in Calls /\ e.by \in Attempt
  BY FullParts DEF WorldTypes, Calls
<1>2. x.call = e.call /\ x.use = e.use /\ x.attempt = e.attempt
  OBVIOUS
<1> HIDE DEF x
<1>3. x \in Starts(e.by)
  BY <1>1, <1>2 DEF Starts
<1>4. QED
  BY <1>1, <1>3 DEF AllStarts, x

LEMMA EffectsDiffer ==
  ASSUME FullInv, NEW d \in ran, NEW e \in ran, policy[d.call] # "pure",
         d.call = e.call, d.use = e.use, d.attempt = e.attempt
  PROVE  d = e
<1> DEFINE x == [call |-> d.call, use |-> d.use, attempt |-> d.attempt]
<1>1. x \in Starts(d.by) /\ x \in AllStarts /\ d.by \in Attempt
  BY EffectStarts
<1>2. x \in Starts(e.by) /\ e.by \in Attempt
  BY EffectStarts
<1>3. d.by = e.by
  BY <1>1, <1>2, FullParts DEF OneStarter, AllStarts
<1>4. QED
  BY <1>3, FullParts DEF WorldTypes

\* The store and its owner's memory tell whether a call has an outcome.
LEMMA NothingSaved ==
  ASSUME FullInv, NEW t \in Attempt, Owns(t), NEW c \in Call, Unfinished(t, c), calls[t][c].stage # "failed",
         NEW e, e.call = c, e.use = calls[t][c].use
  PROVE  SavedIn(e) = {}
<1> USE FullParts
<1>1. Runs(t) /\ InRound(t)
  BY DEF Owner, Active, Unfinished, InRound
<1>2. ~HasUse(committed, c, calls[t][c].use)
  BY <1>1 DEF Runs, CallsInMemory, Unfinished
<1>3. ASSUME NEW r \in ckpt.journal.results, IsUse(r, e)
      PROVE  FALSE
  <2>1. r.call = c /\ r.use = calls[t][c].use
    BY <1>3 DEF IsUse
  <2>2. r \notin journal[t].results
    BY <2>1, NoResultYet
  <2>3. IsCommitted(committed, r)
    BY <1>1, <2>1, <2>2 DEF Runs, TakenOver
  <2>4. Open
    BY DEF Owns, Open, TerminalStatus
  <2>5. InHistory(committed, Entry(r.call, r.use, r.value))
    BY <2>3, <2>4 DEF Checkpointed, Evidence, ResultsOK
  <2>6. QED
    BY <1>2, <2>1, <2>5, EntryUsed
<1>4. ASSUME NEW k \in DOMAIN committed, NEW x \in committed[k], IsUse(x, e)
      PROVE  FALSE
  BY <1>2, <1>4 DEF IsUse, HasUse
<1>5. QED
  BY <1>3, <1>4 DEF SavedIn

LEMMA StepReruns ==
  FullInv /\ [Next]_vars =>
    [\A e \in ran' \ ran : run.status = "running" /\ run.lease.id = e.by => SavedIn(e) = {}]_ran
<1> SUFFICES ASSUME FullInv, Next, ran' # ran, NEW e \in ran' \ ran,
                    run.status = "running", run.lease.id = e.by
             PROVE  SavedIn(e) = {}
  OBVIOUS
<1>1. PICK t \in Attempt : \E c \in Call : RunEffect(t, c)
  <2>1. ASSUME NEW t \in Attempt, NEW c \in Call,
               BeforeTool(t, c) \/ HookParks(t, c) \/ HookBlocks(t, c) \/ AfterTool(t, c)
        PROVE  ran' = ran
    BY <2>1 DEF BeforeTool, HookParks, HookBlocks, AfterTool
  <2>2. ASSUME NEW t \in Attempt, RoundStep(t)
        PROVE  ran' = ran
    BY <2>2 DEF RoundStep, Request, FinishRound, CommitRound, StopRound, RequestFails, Complete
  <2>3. ASSUME NEW t \in Attempt, RecoveryStep(t)
        PROVE  ran' = ran
    <3>1. ASSUME LoadCheckpoint(t) \/ Prepare(t) \/ Start(t) \/ CommitRestored(t)
          PROVE  ran' = ran
      BY <3>1 DEF LoadCheckpoint, Prepare, Start, CommitRestored
    <3>2. ASSUME NEW i \in journal[t].inflight, RerunCarried(t, i) \/ SettleCarried(t, i)
          PROVE  ran' = ran
      BY <3>2 DEF RerunCarried, SettleCarried
    <3>3. QED
      BY <2>3, <3>1, <3>2 DEF RecoveryStep
  <2>4. ASSUME NEW t \in Attempt, Claim(t) \/ Die(t)
        PROVE  ran' = ran
    BY <2>4 DEF Claim, Die
  <2>5. ResolveRecovery => ran' = ran
    BY DEF ResolveRecovery
  <2>6. PICK t \in Attempt : CallStep(t)
    BY <2>2, <2>3, <2>4, <2>5 DEF Next
  <2>7. QED
    BY <2>1, <2>6 DEF CallStep
<1>2. PICK c \in Call : RunEffect(t, c)
  BY <1>1
<1>3. e = [call |-> c, use |-> calls[t][c].use, attempt |-> calls[t][c].attempt, by |-> t]
  BY <1>2 DEF RunEffect
<1>4. e.call = c /\ e.use = calls[t][c].use /\ e.by = t
  BY <1>3
<1>5. Owns(t)
  BY <1>4 DEF Owns, TerminalStatus, Absent
<1>6. Unfinished(t, c) /\ calls[t][c].stage # "failed"
  BY <1>2 DEF RunEffect, Unfinished
<1>7. QED
  BY <1>4, <1>5, <1>6, NothingSaved

\* The results that join the store are new to it, or what it has.
LEMMA OutcomesKept ==
  ASSUME FullInv, NEW R \in SUBSET Results,
         \A r, s \in R : r.call = s.call => r = s,
         \A r \in R : ~HasUse(committed, r.call, r.use),
         \A r \in ckpt.journal.results : r \in R \/ InHistory(committed, Entry(r.call, r.use, r.value)),
         \/ ckpt'.journal.results = R /\ committed' = committed
         \/ ckpt'.journal.results = ckpt.journal.results /\ committed' = WithRound(committed, RoundOf(R)),
         NEW u, SavedIn(u) # {}
  PROVE  SavedIn(u)' = SavedIn(u)
<1> DEFINE InR(v) == \E r \in R : IsUse(r, u) /\ r.value = v
           InC(v) == \E r \in ckpt.journal.results : IsUse(r, u) /\ r.value = v
           InH(v) == \E e : InHistory(committed, e) /\ IsUse(e, u) /\ e.value = v
<1>1. \A v : v \in SavedIn(u) <=> InC(v) \/ InH(v)
  <2>1. \A v : v \in {r.value : r \in {x \in ckpt.journal.results : IsUse(x, u)}} <=> InC(v)
    OBVIOUS
  <2>2. \A v : v \in {e.value : e \in {x \in UNION {committed[k] : k \in DOMAIN committed} : IsUse(x, u)}}
                 <=> InH(v)
    BY DEF InHistory
  <2>3. QED
    BY <2>1, <2>2 DEF SavedIn
<1>2. \A v : v \in SavedIn(u)' <=> \/ \E r \in ckpt'.journal.results : IsUse(r, u) /\ r.value = v
                                   \/ \E e : InHistory(committed', e) /\ IsUse(e, u) /\ e.value = v
  <2>1. \A v : v \in {r.value : r \in {x \in ckpt'.journal.results : IsUse(x, u)}}
                 <=> \E r \in ckpt'.journal.results : IsUse(r, u) /\ r.value = v
    OBVIOUS
  <2>2. \A v : v \in {e.value : e \in {x \in UNION {committed'[k] : k \in DOMAIN committed'} : IsUse(x, u)}}
                 <=> \E e : InHistory(committed', e) /\ IsUse(e, u) /\ e.value = v
    BY DEF InHistory
  <2>3. QED
    BY <2>1, <2>2 DEF SavedIn, IsUse
<1>3. \A r : /\ Entry(r.call, r.use, r.value).value = r.value
             /\ IsUse(Entry(r.call, r.use, r.value), u) <=> IsUse(r, u)
  BY DEF Entry, IsUse
<1>4. \A v : v \in SavedIn(u)' <=> InR(v) \/ InH(v) \/ (InC(v) /\ committed' # committed)
  <2>1. CASE ckpt'.journal.results = R /\ committed' = committed
    BY <1>2, <2>1
  <2>2. CASE ckpt'.journal.results = ckpt.journal.results /\ committed' = WithRound(committed, RoundOf(R))
    <3>1. RoundOf(R) \in SUBSET Entries /\ committed \in History
      BY RoundOfType, FullParts DEF StoreTypes
    <3>2. \A e : InHistory(committed', e) <=> InHistory(committed, e) \/ e \in RoundOf(R)
      BY <2>2, <3>1, InWithRound
    <3>3. \A e : e \in RoundOf(R) <=> \E r \in R : e = Entry(r.call, r.use, r.value)
      BY DEF RoundOf
    <3>4. \A v : (\E e : InHistory(committed', e) /\ IsUse(e, u) /\ e.value = v) <=> InH(v) \/ InR(v)
      BY <1>3, <3>2, <3>3
    <3>5. \A v : InC(v) => InR(v) \/ InH(v)
      BY <1>3
    <3>6. QED
      BY <1>2, <2>2, <3>4, <3>5
  <2>3. QED
    BY <2>1, <2>2
<1>5. \A v : InC(v) => InR(v) \/ InH(v)
  BY <1>3
<1>6. ASSUME NEW v, InR(v) PROVE InC(v) \/ InH(v)
  <2>1. PICK r \in R : IsUse(r, u) /\ r.value = v
    BY <1>6
  <2>2. ~HasUse(committed, r.call, r.use) /\ r.call = u.call /\ r.use = u.use
    BY <2>1 DEF IsUse
  <2>3. \A w : ~InH(w)
    BY <2>2, HasUseIn DEF IsUse
  <2>4. PICK w : InC(w)
    BY <1>1, <2>3
  <2>5. PICK s \in ckpt.journal.results : IsUse(s, u)
    BY <2>4
  <2>6. s \in R
    <3>1. ASSUME InHistory(committed, Entry(s.call, s.use, s.value)) PROVE InH(s.value)
      BY <1>3, <2>5, <3>1
    <3>2. s \in R \/ InHistory(committed, Entry(s.call, s.use, s.value))
      BY <2>5
    <3>3. QED
      BY <2>3, <3>1, <3>2
  <2>7. s = r
    BY <2>1, <2>5, <2>6 DEF IsUse
  <2>8. QED
    BY <2>1, <2>5, <2>7
<1> HIDE DEF InR, InC, InH
<1>7. \A v : v \in SavedIn(u)' <=> v \in SavedIn(u)
  BY <1>1, <1>4, <1>5, <1>6
<1>8. QED
  BY <1>7 DEF SavedIn

\* What a step may do to the outcomes that are saved.
KeepsSaved ==
  \/ UNCHANGED <<ckpt, committed>>
  \/ run'.status = "error"
  \/ \A u \in Use : SavedIn(u) # {} => SavedIn(u)' = SavedIn(u)

LEMMA AppendSaves ==
  ASSUME FullInv, ~LostAnswers, NEW t \in Attempt, NEW c \in Call, Unfinished(t, c),
         NEW phase, NEW own, NEW next \in Journal, NEW landed,
         AppendTo(t, c, phase, own, next, landed), WellFormed(next),
         Owns(t) => NextOK(t, c, own, next), journal[t].results \subseteq next.results,
         committed' = committed
  PROVE  KeepsSaved
<1> USE FullParts
<1>1. CASE Failed(t, c, phase, own, next)
  BY <1>1 DEF Failed, KeepsSaved
<1>2. CASE Landed(t, c, phase, own, next, landed)
  <2>1. Owns(t)
    BY <1>2, FencedOut DEF Landed
  <2>2. Open /\ Runs(t)
    BY <2>1 DEF Owner, Active, Unfinished, InRound, Owns, Open, TerminalStatus
  <2>3. ckpt'.journal = next
    BY <1>2 DEF Landed, Store
  <2>4. next.results \in SUBSET Results
    BY JournalType
  <2>5. /\ \A r, s \in next.results : r.call = s.call => r = s
        /\ \A r \in next.results : ~HasUse(committed, r.call, r.use)
    BY <2>1 DEF WellFormed, NextOK, Fresh
  <2>6. \A r \in ckpt.journal.results :
          r \in next.results \/ InHistory(committed, Entry(r.call, r.use, r.value))
    BY <2>2 DEF Runs, TakenOver, Checkpointed, Evidence, ResultsOK
  <2>7. \A u : SavedIn(u) # {} => SavedIn(u)' = SavedIn(u)
    BY <2>3, <2>4, <2>5, <2>6, OutcomesKept
  <2>8. QED
    BY <2>7 DEF KeepsSaved
<1>3. QED
  BY <1>1, <1>2, AppendCases

LEMMA AppendIntentSaves ==
  ASSUME FullInv, ~LostAnswers, NEW t \in Attempt, NEW c \in Call, Unfinished(t, c),
         NEW p \in {policy[c], "manual-recovery"}, NEW s, AppendIntent(t, c, p, s), committed' = committed
  PROVE  KeepsSaved
<1> USE FullParts
<1> DEFINE next == WithIntent(t, c, p)
           landed == [calls[t][c] EXCEPT !.stage = s]
<1>1. AppendTo(t, c, "before-tool", {}, next, landed)
  BY DEF AppendIntent
<1>2. next \in Journal /\ WellFormed(next)
  BY WithIntentOK DEF JournalOK
<1>3. Owns(t) => NextOK(t, c, {}, next)
  BY NextIntentOK DEF Owner, Active, Unfinished, InRound
<1>4. journal[t].results \subseteq next.results
  BY JournalType DEF WithIntent, MemoryTypes
<1> HIDE DEF next, landed
<1>5. QED
  BY <1>1, <1>2, <1>3, <1>4, AppendSaves

LEMMA AppendResultSaves ==
  ASSUME FullInv, ~LostAnswers, NEW t \in Attempt, NEW c \in Call, Unfinished(t, c),
         NEW v \in Int, AppendResult(t, c, v), committed' = committed
  PROVE  KeepsSaved
<1> USE FullParts
<1> DEFINE next == WithResult(t, c, v)
           landed == [calls[t][c] EXCEPT !.stage = "done", !.value = v]
           own == {Completion(Result(t, c, v))}
<1>1. AppendTo(t, c, "after-tool", own, next, landed)
  BY DEF AppendResult
<1>2. next \in Journal /\ WellFormed(next)
  BY WithResultOK DEF JournalOK
<1>3. Owns(t) => NextOK(t, c, own, next)
  BY NextResultOK DEF Owner, Active, Unfinished, InRound
<1>4. journal[t].results \subseteq next.results
  BY DEF WithResult
<1> HIDE DEF next, landed, own
<1>5. QED
  BY <1>1, <1>2, <1>3, <1>4, AppendSaves

LEMMA CallSaves ==
  ASSUME FullInv, ~LostAnswers, NEW t \in Attempt, CallStep(t)
  PROVE  KeepsSaved
<1> USE FullParts
<1>1. PICK c \in Call : BeforeTool(t, c) \/ HookParks(t, c) \/ HookBlocks(t, c)
                          \/ RunEffect(t, c) \/ AfterTool(t, c)
  BY DEF CallStep
<1>2. ASSUME BeforeTool(t, c) \/ HookParks(t, c)
      PROVE  KeepsSaved
  <2>1. committed' = committed /\ Unfinished(t, c)
    BY <1>2, UnfinishedStages DEF BeforeTool, HookParks
  <2>2. \/ ckpt' = ckpt
        \/ \E p \in {policy[c], "manual-recovery"} : \E s : AppendIntent(t, c, p, s)
    BY <1>2 DEF BeforeTool, HookParks
  <2>3. QED
    BY <2>1, <2>2, AppendIntentSaves DEF KeepsSaved
<1>3. ASSUME HookBlocks(t, c) \/ AfterTool(t, c)
      PROVE  KeepsSaved
  <2>1. committed' = committed /\ Unfinished(t, c)
    BY <1>3, UnfinishedStages DEF HookBlocks, AfterTool
  <2>2. Blocked \in Int /\ calls[t][c].value \in Int
    BY DEF Blocked, MemoryTypes, CallRecord
  <2>3. AppendResult(t, c, Blocked) \/ AppendResult(t, c, calls[t][c].value)
    BY <1>3 DEF HookBlocks, AfterTool
  <2>4. QED
    BY <2>1, <2>2, <2>3, AppendResultSaves
<1>4. ASSUME RunEffect(t, c)
      PROVE  KeepsSaved
  BY <1>4 DEF RunEffect, KeepsSaved
<1>5. QED
  BY <1>1, <1>2, <1>3, <1>4

LEMMA CommitRoundSaves ==
  ASSUME FullInv, NEW t \in Attempt, CommitRound(t)
  PROVE  KeepsSaved
<1>1. ckpt' = ckpt /\ pc[t] = "commit" /\ (committed' = committed \/ (OwnsRunning(t) /\ committed' = hist[t]))
  <2>1. ckpt' = ckpt /\ pc[t] = "commit"
    BY DEF CommitRound
  <2>2. committed' = committed \/ (OwnsRunning(t) /\ committed' = hist[t])
    BY DEF CommitRound
  <2>3. QED
    BY <2>1, <2>2
<1> USE FullParts
<1>2. CASE committed' = committed
  BY <1>1, <1>2 DEF KeepsSaved
<1>3. CASE OwnsRunning(t) /\ committed' = hist[t]
  <2>1. Owns(t) /\ Open
    BY <1>3 DEF OwnsRunning, TransitionAllowed, Owns, Open, TerminalStatus, Absent
  <2>2. Runs(t)
    BY <1>1, <2>1 DEF Owner, Active
  <2>3. /\ calls[t] = NoCalls
        /\ journal[t].results \in SUBSET Results
    BY <1>1, JournalType DEF Memory, InRound, MemoryTypes
  <2>4. committed' = WithRound(committed, RoundOf(journal[t].results))
    BY <1>1, <1>3, <2>2 DEF Runs, HistoryInMemory
  <2>5. \A c \in Call : calls[t][c].stage # "failed"
    BY <2>3 DEF NoCalls, NoCall
  <2>6. \A r \in ckpt.journal.results : r.call \in Call
    BY JournalType DEF StoreTypes, Checkpoint, Results
  <2>7. \A r \in ckpt.journal.results :
          r \in journal[t].results \/ InHistory(committed, Entry(r.call, r.use, r.value))
    BY <2>1, <2>2, <2>5, <2>6 DEF Runs, TakenOver, Checkpointed, Evidence, ResultsOK
  <2>8. /\ \A r, s \in journal[t].results : r.call = s.call => r = s
        /\ \A r \in journal[t].results : ~HasUse(committed, r.call, r.use)
    BY <2>2 DEF JournalOK, WellFormed, Runs, JournalInMemory, Fresh
  <2>9. \A u : SavedIn(u) # {} => SavedIn(u)' = SavedIn(u)
    BY <1>1, <2>3, <2>4, <2>7, <2>8, OutcomesKept
  <2>10. QED
    BY <2>9 DEF KeepsSaved
<1>4. QED
  BY <1>1, <1>2, <1>3

LEMMA CommitRestoredSaves ==
  ASSUME FullInv, NEW t \in Attempt, CommitRestored(t)
  PROVE  KeepsSaved
<1>1. ckpt' = ckpt /\ pc[t] = "restored" /\ (committed' = committed \/ (OwnsRunning(t) /\ committed' = hist[t]))
  <2>1. ckpt' = ckpt /\ pc[t] = "restored"
    BY DEF CommitRestored
  <2>2. committed' = committed \/ (OwnsRunning(t) /\ committed' = hist[t])
    BY DEF CommitRestored
  <2>3. QED
    BY <2>1, <2>2
<1> USE FullParts
<1>2. CASE committed' = committed
  BY <1>1, <1>2 DEF KeepsSaved
<1>3. CASE OwnsRunning(t) /\ committed' = hist[t]
  <2> DEFINE R == Restorable(ckpt, committed)
  <2>1. Owns(t) /\ Open
    BY <1>3 DEF OwnsRunning, TransitionAllowed, Owns, Open, TerminalStatus, Absent
  <2>2. committed' = WithRound(committed, RoundOf(R))
    BY <1>1, <1>3, <2>1 DEF Owner, Recovers
  <2>3. R \in SUBSET Results /\ R \subseteq ckpt.journal.results
    BY JournalType DEF StoreTypes, Checkpoint, Restorable
  <2>4. ResultsOK(ckpt.journal.results, committed) /\ WellFormed(ckpt.journal)
    BY <2>1 DEF Checkpointed, Evidence, FullInv, CallsInv, JournalOK
  <2>5. \A r \in ckpt.journal.results : r \in R \/ IsCommitted(committed, r)
    BY DEF Restorable
  <2>6. \A r \in R : ~IsCommitted(committed, r)
    BY DEF Restorable
  <2> HIDE DEF R
  <2>7. \A r \in ckpt.journal.results :
          r \in R \/ InHistory(committed, Entry(r.call, r.use, r.value))
    BY <2>4, <2>5 DEF ResultsOK
  <2>8. /\ \A r, s \in R : r.call = s.call => r = s
        /\ \A r \in R : ~HasUse(committed, r.call, r.use)
    BY <2>3, <2>4, <2>6 DEF WellFormed, ResultsOK
  <2>9. \A u : SavedIn(u) # {} => SavedIn(u)' = SavedIn(u)
    BY <1>1, <2>2, <2>3, <2>7, <2>8, OutcomesKept
  <2>10. QED
    BY <2>9 DEF KeepsSaved
<1>4. QED
  BY <1>1, <1>2, <1>3

LEMMA EndSaves ==
  ASSUME FullInv, NEW t, StopRound(t) \/ RequestFails(t) \/ Complete(t)
  PROVE  KeepsSaved
<1>1. PICK status : EndTurn(t, status)
  BY DEF StopRound, RequestFails, Complete
<1>2. run \in Record
  BY FullParts DEF StoreTypes
<1>3. WithStatus(run, status).status = status
  BY <1>2 DEF Record, WithStatus
<1>4. ckpt' = ckpt /\ (committed' = committed \/ (run' = WithStatus(run, status) /\ status = "error"))
  BY <1>1 DEF EndTurn
<1>5. QED
  BY <1>3, <1>4 DEF KeepsSaved

LEMMA ResolveSaves ==
  ASSUME FullInv, ResolveRecovery
  PROVE  KeepsSaved
<1>1. ckpt'.journal.results = ckpt.journal.results
  BY FullParts, ResolvedEvidence DEF FullInv, CallsInv, JournalOK
<1>2. committed' = committed
  BY DEF ResolveRecovery
<1>3. \A u : SavedIn(u)' = SavedIn(u)
  BY <1>1, <1>2 DEF SavedIn, IsUse
<1>4. QED
  BY <1>3 DEF KeepsSaved

LEMMA StepSaved ==
  ASSUME ~LostAnswers
  PROVE  FullInv /\ [Next]_vars => [KeepsSaved]_vars
<1> SUFFICES ASSUME FullInv, Next PROVE KeepsSaved
  OBVIOUS
<1>1. ASSUME NEW t \in Attempt, RoundStep(t) PROVE KeepsSaved
  <2>1. Request(t) \/ FinishRound(t) => UNCHANGED <<ckpt, committed>>
    BY DEF Request, FinishRound
  <2>2. QED
    BY <1>1, <2>1, CommitRoundSaves, EndSaves DEF RoundStep, KeepsSaved
<1>2. ASSUME NEW t \in Attempt, Claim(t) \/ Die(t) PROVE KeepsSaved
  BY <1>2 DEF Claim, Die, KeepsSaved
<1>3. ASSUME NEW t \in Attempt, RecoveryStep(t) PROVE KeepsSaved
  <2>1. LoadCheckpoint(t) \/ Prepare(t) \/ Start(t) => UNCHANGED <<ckpt, committed>>
    BY DEF LoadCheckpoint, Prepare, Start
  <2>2. ASSUME NEW intent \in journal[t].inflight, RerunCarried(t, intent)
        PROVE  KeepsSaved
    BY <2>2 DEF RerunCarried, KeepsSaved
  <2>3. ASSUME NEW intent \in journal[t].inflight, SettleCarried(t, intent)
        PROVE  KeepsSaved
    <3>1. intent.call \in Call
      BY FullParts, JournalType DEF MemoryTypes, Intents
    <3>2. PICK v \in Int : AppendResult(t, intent.call, v)
      BY <2>3 DEF SettleCarried, Decided, Interrupted
    <3>3. Unfinished(t, intent.call) /\ committed' = committed
      BY <2>3 DEF SettleCarried, Settling, Unfinished, InRound
    <3>4. QED
      BY <3>1, <3>2, <3>3, AppendResultSaves
  <2>4. QED
    BY <1>3, <2>1, <2>2, <2>3, CommitRestoredSaves DEF RecoveryStep, KeepsSaved
<1>4. QED
  BY <1>1, <1>2, <1>3, CallSaves, ResolveSaves DEF Next

RerunsFinite == IsFiniteSet(reruns)

\* An operator decides on finitely many calls.
LEMMA InflightFinite ==
  ASSUME FullInv
  PROVE  IsFiniteSet(ckpt.journal.inflight)
<1> DEFINE inflight == ckpt.journal.inflight
           f == [i \in inflight |-> i.call]
<1>1. \A i \in inflight : i.call \in Call
  BY FullParts, JournalType DEF StoreTypes, Checkpoint, Intents
<1>2. \A i, k \in inflight : i.call = k.call => i = k
  BY DEF FullInv, CallsInv, JournalOK, WellFormed
<1>3. f \in Injection(inflight, Call)
  BY <1>1, <1>2 DEF Injection, IsInjective
<1>4. QED
  BY <1>3, FS_Injection, DurableConstantsOK

LEMMA StepFinite ==
  ASSUME FullInv, RerunsFinite, [Next]_vars
  PROVE  RerunsFinite'
<1> USE DEF RerunsFinite
<1>1. CASE ResolveRecovery
  BY <1>1, FullParts, InflightFinite, ResolvedEvidence DEF FullInv, CallsInv, JournalOK
<1>2. ASSUME NEW t \in Attempt, CallStep(t) PROVE reruns' = reruns
  BY <1>2 DEF CallStep, BeforeTool, HookParks, HookBlocks, RunEffect, AfterTool
<1>3. ASSUME NEW t \in Attempt, RoundStep(t) \/ Claim(t) \/ Die(t) PROVE reruns' = reruns
  BY <1>3 DEF RoundStep, Request, FinishRound, CommitRound, StopRound, RequestFails, Complete,
     Claim, Die
<1>4. ASSUME NEW t \in Attempt, RecoveryStep(t) PROVE reruns' = reruns
  BY <1>4 DEF RecoveryStep, LoadCheckpoint, Prepare, Start, CommitRestored, RerunCarried, SettleCarried
<1>5. QED
  BY <1>1, <1>2, <1>3, <1>4 DEF Next

\* Every run of a call but its first is one an operator decided on.
LEMMA EffectsCounted ==
  ASSUME FullInv, RerunsFinite
  PROVE  EffectsAtMostOnce
<1> SUFFICES ASSUME NEW u \in Use, policy[u.call] \in {"interrupt", "manual-recovery"}
             PROVE  Cardinality({e \in ran : IsUse(e, u)})
                      <= 1 + Cardinality({d \in reruns : IsUse(d, u)})
  BY DEF EffectsAtMostOnce
<1> USE FullParts
<1> DEFINE D == {d \in reruns : IsUse(d, u)}
           first == [call |-> u.call, use |-> u.use, attempt |-> 0]
           E == {e \in ran : IsUse(e, u)}
           f == [e \in E |-> [call |-> u.call, use |-> u.use, attempt |-> e.attempt - 1]]
<1>1. IsFiniteSet(D)
  BY FS_Subset DEF RerunsFinite
<1>2. /\ IsFiniteSet(D \cup {first}) /\ Cardinality(D) \in Nat
      /\ Cardinality(D \cup {first}) <= 1 + Cardinality(D)
  <2> HIDE DEF D, first
  <2>1. Cardinality(D) \in Nat
    BY <1>1, FS_CardinalityType
  <2>2. /\ IsFiniteSet(D \cup {first})
        /\ Cardinality(D \cup {first}) \in {Cardinality(D), Cardinality(D) + 1}
    BY <1>1, FS_AddElement
  <2>3. QED
    BY <2>1, <2>2
<1>3. ASSUME NEW e \in E
      PROVE  f[e] \in D \cup {first} /\ e.attempt \in Nat
  <2>1. e.call = u.call /\ e.use = u.use /\ e.attempt \in Nat
    BY DEF IsUse, WorldTypes
  <2>2. CallOK(e.call, e.use, e.attempt, uses, reruns, policy)
    BY DEF FullInv, CallsInv, RanOK
  <2>3. CASE e.attempt > 1
    <3>1. [call |-> u.call, use |-> u.use, attempt |-> e.attempt - 1] \in reruns
      BY <2>1, <2>2, <2>3 DEF CallOK, StrictPolicy
    <3>2. QED
      BY <2>1, <3>1 DEF IsUse
  <2>4. CASE e.attempt = 1
    BY <2>1, <2>4
  <2>5. QED
    BY <2>1, <2>2, <2>3, <2>4 DEF CallOK
<1>4. ASSUME NEW d \in E, NEW e \in E, f[d] = f[e]
      PROVE  d = e
  <2>1. d.call = u.call /\ d.use = u.use /\ e.call = u.call /\ e.use = u.use
    BY DEF IsUse
  <2>2. f[d].attempt = d.attempt - 1 /\ f[e].attempt = e.attempt - 1
    OBVIOUS
  <2>3. d.attempt = e.attempt
    BY <1>3, <1>4, <2>2
  <2>4. QED
    BY <2>1, <2>3, EffectsDiffer
<1>5. f \in Injection(E, D \cup {first})
  <2>1. f \in [E -> D \cup {first}]
    BY <1>3
  <2>2. QED
    BY <1>4, <2>1 DEF Injection, IsInjective
<1> HIDE DEF D, E, f, first
<1>6. IsFiniteSet(E) /\ Cardinality(E) <= Cardinality(D \cup {first})
  BY <1>2, <1>5, FS_Injection
<1>7. Cardinality(E) \in Nat /\ Cardinality(D \cup {first}) \in Nat
  BY <1>2, <1>6, FS_CardinalityType
<1>8. Cardinality(E) <= 1 + Cardinality(D)
  BY <1>2, <1>6, <1>7
<1>9. QED
  BY <1>8 DEF E, D

LEMMA StepPresent == run.status # Absent /\ run \in Record /\ [Next]_vars => run'.status # Absent
<1> SUFFICES ASSUME run.status # Absent, run \in Record, [Next]_vars PROVE run'.status # Absent
  OBVIOUS
<1> DEFINE Kept == run'.status \in {run.status, "needs-recovery", "queued", "running", "leased",
                                    "error", "completed"}
<1>1. \A status : /\ WithStatus(run, status).status = status
                  /\ \A lease : WithLease(run, status, lease).status = status
  BY DEF Record, WithStatus, WithLease
<1>2. \A t, phase, own, next : Store(t, phase, own, next) => run'.status = run.status
  BY DEF Store, Record
<1>3. ASSUME NEW t \in Attempt, CallStep(t) PROVE Kept
  BY <1>2, <1>3 DEF CallStep, BeforeTool, HookParks, HookBlocks, RunEffect, AfterTool,
     AppendIntent, AppendResult, AppendTo
<1>4. ASSUME NEW t \in Attempt, RoundStep(t) \/ Die(t) PROVE Kept
  <2>1. ASSUME NEW status \in {"needs-recovery", "error", "completed"}, EndTurn(t, status) PROVE Kept
    BY <1>1, <2>1 DEF EndTurn
  <2>2. Request(t) \/ FinishRound(t) \/ CommitRound(t) \/ Die(t) => run' = run
    BY DEF Request, FinishRound, CommitRound, Die
  <2>3. StopRound(t) => EndTurn(t, "error") \/ EndTurn(t, "needs-recovery")
    BY DEF StopRound
  <2>4. RequestFails(t) => EndTurn(t, "error")
    BY DEF RequestFails
  <2>5. Complete(t) => EndTurn(t, "completed")
    BY DEF Complete
  <2>6. QED
    BY <1>4, <2>1, <2>2, <2>3, <2>4, <2>5 DEF RoundStep
<1>5. ASSUME NEW t \in Attempt, RecoveryStep(t) \/ Claim(t) PROVE Kept
  <2>1. ClaimedRun(run, run.lease.attempt + 1, t, NoOwner).status = "leased"
    BY DEF ClaimedRun, Record, WithLease
  <2>2. Claim(t) => Kept
    BY <2>1 DEF Claim
  <2>3. LoadCheckpoint(t) \/ Prepare(t) \/ Start(t) => Kept
    BY <1>1 DEF LoadCheckpoint, Prepare, ParkClaimed, Start
  <2>4. CommitRestored(t) => Kept
    BY DEF CommitRestored
  <2>5. ASSUME NEW intent \in journal[t].inflight, RerunCarried(t, intent) \/ SettleCarried(t, intent)
        PROVE  Kept
    <3>1. run' = run \/ \E phase, own, next : Store(t, phase, own, next)
      BY <2>5 DEF RerunCarried, SettleCarried, AppendResult, AppendTo
    <3>2. QED
      BY <1>2, <3>1
  <2>6. QED
    BY <1>5, <2>2, <2>3, <2>4, <2>5 DEF RecoveryStep
<1>6. ASSUME ResolveRecovery PROVE Kept
  <2>1. \A version : [WithLease(run, "queued", NoLease) EXCEPT !.checkpointVersion = version].status = "queued"
    BY DEF Record, WithLease
  <2>2. QED
    BY <1>6, <2>1 DEF ResolveRecovery
<1>7. Kept
  BY <1>3, <1>4, <1>5, <1>6 DEF Next
<1>8. QED
  BY <1>7 DEF Absent

LEMMA InitFull == Init => FullInv
<1>1. Init => run.status # Absent
  BY DEF Init, Absent
<1>2. QED
  BY <1>1, InitType, InitCalls, InitOwner DEF FullInv

LEMMA StepFull == FullInv /\ [Next]_vars => FullInv'
<1> SUFFICES ASSUME FullInv, [Next]_vars PROVE FullInv'
  OBVIOUS
<1>1. run'.status # Absent
  BY FullParts, StepPresent DEF StoreTypes
<1>2. QED
  BY <1>1, FullParts, StepShape, StepCalls, StepOwner DEF FullInv

-----------------------------------------------------------------------------
(* Theorems *)

\* Whoever owns the run, the attempts it replaced, the checkpoint and the
\* committed history agree on every call that was started: the inductive
\* invariant the results below rest on.
THEOREM OwnerInvariant == Spec => []FullInv
  BY InitFull, StepFull, PTL DEF Spec

\* Committed history has each call once, whichever attempts committed it: a
\* recovery tells the rounds that are in the history from those it restores.
THEOREM CommittedOnce == Spec => []CallsCommittedOnce
<1>1. FullInv => CallsCommittedOnce
  BY FullParts DEF HistoryOK, CallsOnce, CallsCommittedOnce
<1>2. QED
  BY <1>1, OwnerInvariant, PTL

\* The owner that asks its model again knows of every recorded effect, those
\* of attempts that died in the middle included.
THEOREM EffectsKnown == Spec => []EffectsKnownToModel
<1>1. FullInv => EffectsKnownToModel
  <2> SUFFICES ASSUME FullInv, NEW t \in Attempt, pc[t] = "request", OwnsRunning(t),
                      NEW e \in ran, policy[e.call] # "pure"
               PROVE  \E k \in DOMAIN hist[t] : \E entry \in hist[t][k] : IsUse(entry, e)
    BY DEF EffectsKnownToModel
  <2> USE FullParts
  <2> DEFINE x == [call |-> e.call, use |-> e.use, attempt |-> e.attempt]
  <2>1. Owns(t)
    BY DEF OwnsRunning, TransitionAllowed, Owns, TerminalStatus
  <2>2. Runs(t) /\ hist[t] = committed
    BY <2>1 DEF Owner, Active, Runs, HistoryInMemory
  <2>3. x \in AllStarts
    BY EffectStarts
  <2>4. Covers(journal[t], committed, x)
    BY <2>2, <2>3 DEF Runs, JournalInMemory, CoversAll
  <2>5. journal[t].inflight = {} /\ journal[t].results = {}
    BY DEF Memory, InRound
  <2>6. QED
    BY <2>2, <2>4, <2>5 DEF Covers, HasUse, IsUse
<1>2. QED
  BY <1>1, OwnerInvariant, PTL

\* The checkpoint a recovery holds accounts for every completed call: it never
\* gives up on results it cannot find.
THEOREM EvidenceIsEnough == Spec => []EvidenceSuffices
<1>1. FullInv => EvidenceSuffices
  <2> SUFFICES ASSUME FullInv, NEW t \in Attempt, pc[t] = "loaded", TransitionAllowed(run, "leased", t)
               PROVE  Unrestorable(loaded[t], committed) = {}
    BY DEF EvidenceSuffices
  <2>1. Owns(t) /\ Open
    BY DEF TransitionAllowed, Owns, Open, TerminalStatus, Absent
  <2>2. loaded[t] = ckpt
    BY <2>1, FullParts DEF Owner, Recovers
  <2>3. \A d \in ckpt.completed :
          IsCommitted(committed, d) \/ \E r \in ckpt.journal.results : r.call = d.call /\ r.version = d.version
    BY <2>1, FullParts DEF Checkpointed, Evidence, Completion
  <2>4. QED
    BY <2>2, <2>3 DEF Unrestorable
<1>2. QED
  BY <1>1, OwnerInvariant, PTL

\* Two runs of an idempotent call never have the same attempt number, so the
\* tool can tell a repetition by it.
THEOREM AttemptsAreDistinct == Spec => []AttemptsDiffer
<1>1. FullInv => AttemptsDiffer
  <2> SUFFICES ASSUME FullInv, NEW d \in ran, NEW e \in ran, policy[d.call] = "idempotent",
                      d.call = e.call, d.use = e.use, d.attempt = e.attempt
               PROVE  d = e
    BY DEF AttemptsDiffer
  <2>1. policy[d.call] # "pure"
    OBVIOUS
  <2>2. QED
    BY <2>1, EffectsDiffer
<1>2. QED
  BY <1>1, OwnerInvariant, PTL

\* The owner of the run never runs a call whose outcome is saved, even when
\* the store lost the answer to the write that saved it.
THEOREM OwnerRunsNoneAgain == Spec => OwnerNeverReruns
<1>1. FullInv /\ [Next]_vars =>
        [\A e \in ran' \ ran : run.status = "running" /\ run.lease.id = e.by => SavedIn(e) = {}]_ran
  BY StepReruns
<1>2. QED
  BY <1>1, OwnerInvariant, PTL DEF Spec, OwnerNeverReruns

\* No crash and no recovery loses or replaces a saved outcome, as long as the
\* store answers for what it wrote.
THEOREM SavedStays == ASSUME ~LostAnswers PROVE Spec => SavedOutcomeStays
<1>1. FullInv /\ [Next]_vars =>
        [\/ UNCHANGED <<ckpt, committed>>
         \/ run'.status = "error"
         \/ \A u \in Use : SavedIn(u) # {} => SavedIn(u)' = SavedIn(u)]_vars
  BY StepSaved DEF KeepsSaved
<1>2. QED
  BY <1>1, OwnerInvariant, PTL DEF Spec, SavedOutcomeStays

\* A call whose effect must not be repeated runs at most once more than an
\* operator decided on, for any number of owners.
THEOREM EffectsBounded == Spec => []EffectsAtMostOnce
<1>1. Init => RerunsFinite
  BY FS_EmptySet DEF Init, RerunsFinite
<1>2. FullInv /\ RerunsFinite /\ [Next]_vars => RerunsFinite'
  BY StepFinite
<1>3. FullInv /\ RerunsFinite => EffectsAtMostOnce
  BY EffectsCounted
<1>4. QED
  BY <1>1, <1>2, <1>3, OwnerInvariant, PTL DEF Spec

=============================================================================

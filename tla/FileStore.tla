------------------------------ MODULE FileStore ------------------------------
(***************************************************************************)
(* FileExecutionStore: the processes of one host share a directory of      *)
(* generations and a pointer to the current one.  Under the FileLock, a    *)
(* transaction works on a hard-linked copy of the current generation and   *)
(* then switches the pointer; a single write changes the current           *)
(* generation itself, and a read reads it.  A generation has two files     *)
(* here, as the store has two kinds: a log, whose file may be shared with  *)
(* other generations, and a document, which every write replaces.  Their   *)
(* contents are the calls that wrote them, and for a log how its last line *)
(* ends: an append may fail or die inside its line.  A process may die at  *)
(* any step.                                                               *)
(***************************************************************************)
EXTENDS FileLock, LogFile, FiniteSets, Functions

CONSTANTS Nothing, MaxCalls   \* bound: calls

\* Nothing is no view of the files, whose contents are sets of calls.
ASSUME StoreConstantsOK ==
  /\ MaxCalls \in Nat
  /\ Nothing \notin [log : [lines : SUBSET (1..MaxCalls), end : End],
                      doc : SUBSET (1..MaxCalls)]

VARIABLES
  ptr,     \* the generation that .current-generation names
  gen,     \* the generations in the directory
  logs,    \* the contents of the log files, named by the calls that made them
  call,    \* the call of each process
  work,    \* its steps under the lock: the next, the directory, the log it read
  issued   \* the calls begun

storeVars == <<ptr, gen, logs>>
vars == <<lockVars, storeVars, call, work, issued>>

-----------------------------------------------------------------------------
(* Generations *)

Main == 0
Unnamed == -1
Id == 1..MaxCalls
Call == {Main} \cup Id

\* The files a kind of call writes.
Write == [tx |-> {"log", "doc"}, append |-> {"log"}, put |-> {"doc"}]
Kinds == DOMAIN Write \cup {"read"}

\* A generation without files; no call made its log, and log 0 is empty.
Empty == [log |-> 0, doc |-> {}]

With(g) == [x \in DOMAIN gen \cup {g} |-> IF x \in DOMAIN gen THEN gen[x] ELSE Empty]

Links(i) == Cardinality({g \in DOMAIN gen : gen[g].log = i})

\* Every generation but those in gs is gone, and with them the logs that no
\* generation links.
Keep(gs) ==
  /\ gen' = Restrict(gen, gs)
  /\ logs' = [i \in Call |-> IF \E g \in gs : gen[g].log = i THEN logs[i] ELSE NoLines]

\* The file of the log of g is replaced, or created, with these contents.
SetLog(g, i, log) ==
  /\ logs' = [logs EXCEPT ![i] = log]
  /\ gen' = [gen EXCEPT ![g].log = i]

\* The line goes into the file itself: a log no other generation links, or none.
InPlace(g) == gen[g].log = 0 \/ Links(gen[g].log) = 1
Target(g, i) == IF gen[g].log = 0 THEN i ELSE gen[g].log

\* Mutant of AppendLine: the line is added to the file, whoever else links it.
AppendInPlace(g, i) == SetLog(g, Target(g, i), Extended(logs[gen[g].log], i))

\* A log with other links is copied first, and one that is missing created.
AppendLine(g, i) ==
  SetLog(g, IF InPlace(g) THEN Target(g, i) ELSE i, Extended(logs[gen[g].log], i))

\* Only an append in place leaves a part of it: a copy is not yet renamed.
AppendPart(g, i) ==
  /\ InPlace(g)
  /\ \E log \in Stopped(logs[gen[g].log], i) : SetLog(g, Target(g, i), log)

ReplaceDocument(g, i) == gen' = [gen EXCEPT ![g].doc = @ \cup {i}] /\ UNCHANGED logs

-----------------------------------------------------------------------------
(* Calls *)

NoCall == [kind |-> "none", id |-> 0, answer |-> "none", view |-> Nothing]
NoWork == [step |-> "none", dir |-> Unnamed, log |-> NoLines]

Request(p) ==
  /\ issued < MaxCalls
  /\ Enter(p)
  /\ issued' = issued + 1
  /\ \E k \in Kinds :
       /\ call' = [call EXCEPT ![p] = [NoCall EXCEPT !.kind = k, !.id = issued + 1]]
       /\ work' = [work EXCEPT ![p] =
                     [NoWork EXCEPT !.step = IF k = "tx" THEN "stage" ELSE "resolve"]]
  /\ UNCHANGED storeVars

Answer(p, a) ==
  /\ call' = [call EXCEPT ![p].answer = a]
  /\ work' = [work EXCEPT ![p] = NoWork]
  /\ UNCHANGED <<storeVars, issued>>

TimeOut(p) == GiveUp(p) /\ Answer(p, "failed")

Does(p, step) == At(p, "held") /\ work[p].step = step
Then(p, step) == work' = [work EXCEPT ![p].step = step]

Reply(p) ==
  /\ Unlock(p)
  /\ \/ work[p].step = "done" /\ Answer(p, "ok")
     \/ work[p].step = "failed" /\ Answer(p, "failed")

-----------------------------------------------------------------------------
(* The steps of a call that holds the lock *)

Stage(p) ==
  /\ Does(p, "stage")
  /\ gen' = With(call[p].id)
  /\ Then(p, "resolve")
  /\ UNCHANGED <<lockVars, ptr, logs, call, issued>>

\* Mutant of Resolve: a store without a pointer is given no first generation.
ResolveOnly(p) ==
  /\ Does(p, "resolve")
  /\ work' = [work EXCEPT ![p].step = "log", ![p].dir = IF ptr = Unnamed THEN Main ELSE ptr]
  /\ UNCHANGED <<lockVars, storeVars, call, issued>>

\* currentDataDirectory: the first to ask names the first generation.
Resolve(p) ==
  LET first == IF call[p].kind = "tx" THEN "link"
               ELSE IF call[p].kind = "put" THEN "doc" ELSE "log"
  IN /\ Does(p, "resolve")
     /\ IF ptr # Unnamed
        THEN UNCHANGED <<ptr, gen>>
        ELSE ptr' = Main /\ gen' = With(Main)
     /\ work' = [work EXCEPT ![p].step = first, ![p].dir = ptr']
     /\ UNCHANGED <<lockVars, logs, call, issued>>

\* The files of the current generation are linked, or copied where the
\* filesystem refuses a link; then the transaction works on its own copy.
Link(p) ==
  LET i == call[p].id
      source == gen[work[p].dir]
  IN /\ Does(p, "link")
     /\ \/ gen' = [gen EXCEPT ![i] = source] /\ UNCHANGED logs
        \/ /\ source.log # 0
           /\ gen' = [gen EXCEPT ![i] = [source EXCEPT !.log = i]]
           /\ logs' = [logs EXCEPT ![i] = logs[source.log]]
     /\ work' = [work EXCEPT ![p].step = "log", ![p].dir = i]
     /\ UNCHANGED <<lockVars, ptr, call, issued>>

WriteLog(p) ==
  /\ Does(p, "log") /\ call[p].kind # "read"
  /\ AppendLine(work[p].dir, call[p].id)
  /\ Then(p, IF call[p].kind = "tx" THEN "doc" ELSE "done")
  /\ UNCHANGED <<lockVars, ptr, call, issued>>

WriteDocument(p) ==
  /\ Does(p, "doc") /\ call[p].kind # "read"
  /\ ReplaceDocument(work[p].dir, call[p].id)
  /\ Then(p, IF call[p].kind = "tx" THEN "switch" ELSE "done")
  /\ UNCHANGED <<lockVars, ptr, call, issued>>

\* A log with a line that cannot be parsed fails the read.
ReadLog(p) ==
  LET log == logs[gen[work[p].dir].log]
  IN /\ Does(p, "log") /\ call[p].kind = "read"
     /\ IF log.end = "torn"
        THEN Then(p, "failed")
        ELSE work' = [work EXCEPT ![p].step = "doc", ![p].log = log]
     /\ UNCHANGED <<lockVars, storeVars, call, issued>>

ReadDocument(p) ==
  /\ Does(p, "doc") /\ call[p].kind = "read"
  /\ call' = [call EXCEPT ![p].view = [log |-> work[p].log, doc |-> gen[work[p].dir].doc]]
  /\ Then(p, "done")
  /\ UNCHANGED <<lockVars, storeVars, issued>>

\* The rename of the pointer commits; the flush that follows may fail.
Switch(p) ==
  /\ Does(p, "switch")
  /\ ptr' = call[p].id
  /\ \E step \in {"prune", "undo"} :
       work' = [work EXCEPT ![p].step = step, ![p].dir = Unnamed]
  /\ UNCHANGED <<lockVars, gen, logs, call, issued>>

\* The sweep may fail for any of the superseded generations, unnoticed.
Prune(p) ==
  /\ Does(p, "prune")
  /\ \E gs \in SUBSET DOMAIN gen : call[p].id \in gs /\ Keep(gs)
  /\ Then(p, "done")
  /\ UNCHANGED <<lockVars, ptr, call, issued>>

\* A step of a transaction fails, or its operation throws.
Throw(p) ==
  /\ At(p, "held") /\ call[p].kind = "tx"
  /\ work[p].step \in {"resolve", "link", "log", "doc", "switch"}
  /\ work' = [work EXCEPT ![p].step = "undo", ![p].dir = Unnamed]
  /\ UNCHANGED <<lockVars, storeVars, call, issued>>

\* A read or write of a single file fails, and changes nothing; but an append in
\* place is not atomic, and leaves what it wrote.  A process that dies inside its
\* line is one that stops there and dies before it lets the lock go.
FailSingle(p) ==
  /\ At(p, "held") /\ call[p].kind # "tx"
  /\ work[p].step \in {"resolve", "log", "doc"}
  /\ \/ UNCHANGED <<gen, logs>>
     \/ /\ call[p].kind = "append" /\ work[p].step = "log"
        /\ AppendPart(work[p].dir, call[p].id)
  /\ Then(p, "failed")
  /\ UNCHANGED <<lockVars, ptr, call, issued>>

\* Mutant of Undo: the generation is removed though the pointer names it.
UndoAlways(p) ==
  /\ Does(p, "undo") /\ Keep(DOMAIN gen \ {call[p].id}) /\ Then(p, "failed")
  /\ UNCHANGED <<lockVars, ptr, call, issued>>

\* The generation of a failed transaction goes, unless the pointer names it.
Undo(p) ==
  /\ Does(p, "undo")
  /\ Keep(DOMAIN gen \ ({call[p].id} \ {ptr}))
  /\ Then(p, "failed")
  /\ UNCHANGED <<lockVars, ptr, call, issued>>

StoreCrash(p) ==
  /\ Crash(p)
  /\ call' = [call EXCEPT ![p] = NoCall]
  /\ work' = [work EXCEPT ![p] = NoWork]
  /\ UNCHANGED <<storeVars, issued>>

-----------------------------------------------------------------------------
(* Specification *)

Init ==
  /\ LockInit
  /\ ptr = Unnamed /\ gen = <<>> /\ logs = [i \in Call |-> NoLines]
  /\ call = [p \in Process |-> NoCall]
  /\ work = [p \in Process |-> NoWork]
  /\ issued = 0

Locking(p) == LockStep(p) /\ UNCHANGED <<storeVars, call, work, issued>>

Working(p) ==
  \/ Stage(p) \/ Resolve(p) \/ Link(p) \/ WriteLog(p) \/ WriteDocument(p)
  \/ ReadLog(p) \/ ReadDocument(p) \/ Switch(p) \/ Prune(p) \/ Undo(p) \/ Reply(p)

\* What the store does after a marker was removed unchecked is left to
\* FileLock, where two calls may then hold the lock.
Next ==
  /\ ~stale
  /\ \E p \in Process :
       \/ Request(p) \/ TimeOut(p) \/ Throw(p) \/ FailSingle(p) \/ StoreCrash(p)
       \/ Locking(p) \/ Working(p)

Spec == Init /\ [][Next]_vars

\* A process that does not die goes on with its call; it need not give up.
FairSpec ==
  Spec /\ \A p \in Process : WF_vars(~stale /\ (Locking(p) \/ Working(p)))

-----------------------------------------------------------------------------
(* Properties *)

Version == [log : Call, doc : SUBSET Id]
Log == [lines : SUBSET Id, end : End]
View == [log : Log, doc : SUBSET Id]
Requested == [kind : Kinds \cup {"none"}, id : Call, answer : {"none", "ok", "failed"},
              view : View \cup {Nothing}]
Task == [step : {"none", "stage", "resolve", "link", "log", "doc", "switch", "prune",
                 "undo", "done", "failed"},
         dir : Call \cup {Unnamed}, log : Log]

Shapes ==
  /\ ptr \in Call \cup {Unnamed}
  /\ gen \in [DOMAIN gen -> Version] /\ DOMAIN gen \subseteq Call
  /\ logs \in [Call -> Log]
  /\ call \in [Process -> Requested]
  /\ work \in [Process -> Task]
  /\ issued \in 0..MaxCalls

\* The shapes of the variables; the directory a call works in exists.
StoreTypeOK ==
  /\ LockTypeOK /\ Shapes
  /\ \A p \in Process : work[p].dir \in DOMAIN gen \cup {Unnamed}

\* Whatever fails or dies, the pointer names a generation that is there.
PointerNamesGeneration == ptr # Unnamed => ptr \in DOMAIN gen

\* A call ends though nobody gives up, whichever owners and reapers died.
CallsEnd == \A p \in Process : ~At(p, "idle") ~> At(p, "idle") \/ stale

\* StoreRegister seen through the pointer: a transaction takes effect when the
\* pointer is switched, and nothing of one that failed or died is ever seen.
Value ==
  IF ptr = Unnamed THEN [log |-> NoLines, doc |-> {}]
  ELSE [log |-> logs[gen[ptr].log], doc |-> gen[ptr].doc]

Register == INSTANCE StoreRegister WITH value <- Value, request <- call

ImplementsRegister == Register!Spec
=============================================================================

---------------------------- MODULE StoreRegister ----------------------------
(***************************************************************************)
(* What a shared file store promises to the processes of its host: it is   *)
(* one register, here a log and a document.  A call takes effect at once   *)
(* or not at all, before it is answered and never after its process died;  *)
(* what it wrote is never lost; a read sees the register at one moment.    *)
(* The exception is an append that fails or dies inside its line: it may   *)
(* leave a log that cannot be read, at once or after the next append.      *)
(* Such a log is never read as less than it holds: every read of it fails. *)
(***************************************************************************)
EXTENDS Integers, LogFile

CONSTANTS Process, Id, Write, Nothing

VARIABLES
  value,   \* the lines of the log and how the last one ends, and the document
  request  \* the call of each process, its answer and what it read

NoRequest == [kind |-> "none", id |-> 0, answer |-> "none", view |-> Nothing]
Kinds == DOMAIN Write \cup {"read"}
Open(p) == request[p].kind # "none" /\ request[p].answer = "none"

Init ==
  /\ value = [log |-> NoLines, doc |-> {}]
  /\ request = [p \in Process |-> NoRequest]

Begin(p) ==
  /\ ~Open(p)
  /\ \E k \in Kinds, i \in Id \ (value.log.lines \cup value.doc) :
       /\ \A q \in Process : request[q].id # i
       /\ request' = [request EXCEPT ![p] = [NoRequest EXCEPT !.kind = k, !.id = i]]
  /\ UNCHANGED value

\* The files of the register that a kind of call writes: Write.
Apply(p) ==
  LET r == request[p]
  IN /\ Open(p) /\ r.kind \in DOMAIN Write
     /\ value' = [log |-> IF "log" \in Write[r.kind] THEN Extended(value.log, r.id) ELSE value.log,
                  doc |-> IF "doc" \in Write[r.kind] THEN value.doc \cup {r.id} ELSE value.doc]
     /\ UNCHANGED request

\* A call that writes the log alone may stop inside its line.
Stop(p) ==
  LET r == request[p]
  IN /\ Open(p) /\ r.kind \in DOMAIN Write /\ Write[r.kind] = {"log"}
     /\ \E log \in Stopped(value.log, r.id) : value' = [value EXCEPT !.log = log]
     /\ UNCHANGED request

\* A torn log cannot be read, and no write mends it.
View(p) ==
  /\ Open(p) /\ request[p].kind = "read" /\ value.log.end # "torn"
  /\ request' = [request EXCEPT ![p].view = value]
  /\ UNCHANGED value

\* A write answered with success has taken effect, and a read has its view.
Succeed(p) ==
  LET r == request[p]
  IN /\ Open(p)
     /\ IF r.kind = "read" THEN r.view # Nothing
        ELSE /\ "log" \in Write[r.kind] => r.id \in value.log.lines /\ value.log.end # "open"
             /\ "doc" \in Write[r.kind] => r.id \in value.doc
     /\ request' = [request EXCEPT ![p].answer = "ok"]
     /\ UNCHANGED value

\* A failed call may have taken effect before it failed.
Fail(p) ==
  /\ Open(p)
  /\ request' = [request EXCEPT ![p].answer = "failed"]
  /\ UNCHANGED value

Die(p) ==
  /\ request' = [request EXCEPT ![p] = NoRequest]
  /\ UNCHANGED value

Next ==
  \E p \in Process :
    Begin(p) \/ Apply(p) \/ Stop(p) \/ View(p) \/ Succeed(p) \/ Fail(p) \/ Die(p)

Spec == Init /\ [][Next]_<<value, request>>
=============================================================================

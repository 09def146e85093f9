------------------------------ MODULE FileLock ------------------------------
(***************************************************************************)
(* withProcessFileLock: the lock that the processes of one host take       *)
(* around every access to a file store.  The lock is a file that names its *)
(* owner, published by an atomic link; the lock of a dead process is       *)
(* removed by a caller that first publishes a second such file, the        *)
(* reaping marker.  Each call of the filesystem is one step, and a process *)
(* may die between any two.                                                *)
(*                                                                         *)
(* An owner is a process and its incarnation, which stands for the pid.    *)
(* Its token needs no place in the model: a process has one call at a time *)
(* here, and a caller keeps what it read across a step only when the owner *)
(* it read was dead, so no later file of that owner can be mistaken for it.*)
(***************************************************************************)
EXTENDS Integers

CONSTANTS
  Process,
  NoOwner,
  MaxCrashes   \* bound: how often a process dies

ASSUME LockConstantsOK ==
  MaxCrashes \in Nat /\ NoOwner \notin [proc : Process, inc : Nat]

VARIABLES
  inc,    \* the incarnation of each process
  file,   \* the owner that the lock file and the reaping marker name
  at,     \* where each process is in its call
  stale   \* a marker was removed that is not the one the caller checked

lockVars == <<inc, file, at, stale>>

Owner == [proc : Process, inc : Nat]
Me(p) == [proc |-> p, inc |-> inc[p]]
Alive(o) == o.inc = inc[o.proc]
Dead(o) == o # NoOwner /\ ~Alive(o)

\* Where a call is: the owner it remembers, and for a removal under way the
\* file and where the call goes on.
Idle == [pc |-> "idle", file |-> "lock", owner |-> NoOwner, next |-> "idle"]

At(p, pc) == at[p].pc = pc
Goto(p, pc) == at' = [at EXCEPT ![p] = [Idle EXCEPT !.pc = pc]]
Remember(p, pc, o) == at' = [at EXCEPT ![p] = [Idle EXCEPT !.pc = pc, !.owner = o]]

LockInit ==
  /\ inc = [p \in Process |-> 0]
  /\ file = [f \in {"lock", "reaping"} |-> NoOwner]
  /\ at = [p \in Process |-> Idle]
  /\ stale = FALSE

-----------------------------------------------------------------------------
(* Removing a file that one owns or whose owner is dead *)

ReleaseFile(p, f, o, next) ==
  at' = [at EXCEPT ![p] = [pc |-> "check", file |-> f, owner |-> o, next |-> next]]

CheckOwner(p) ==
  /\ At(p, "check")
  /\ IF file[at[p].file] = at[p].owner
     THEN at' = [at EXCEPT ![p].pc = "remove"]
     ELSE Goto(p, at[p].next)
  /\ UNCHANGED <<inc, file, stale>>

\* The removal names a path: it takes whatever file is there by now.
RemoveFile(p) ==
  /\ At(p, "remove")
  /\ file' = [file EXCEPT ![at[p].file] = NoOwner]
  /\ stale' = (stale \/ (/\ at[p].file = "reaping"
                         /\ file["reaping"] \notin {NoOwner, at[p].owner}))
  /\ Goto(p, at[p].next)
  /\ UNCHANGED inc

-----------------------------------------------------------------------------
(* Acquiring the lock *)

\* Mutant of Look: a marker is respected whoever left it.
LookOnly(p) ==
  /\ At(p, "look") /\ file["reaping"] = NoOwner /\ Goto(p, "publish")
  /\ UNCHANGED <<inc, file, stale>>

\* A live reaper makes the caller poll; the marker of a dead one is removed.
Look(p) ==
  LET o == file["reaping"]
  IN /\ At(p, "look")
     /\ \/ o = NoOwner /\ Goto(p, "publish")
        \/ Dead(o) /\ ReleaseFile(p, "reaping", o, "publish")
     /\ UNCHANGED <<inc, file, stale>>

GiveUp(p) ==
  /\ At(p, "look") /\ Goto(p, "idle")
  /\ UNCHANGED <<inc, file, stale>>

Publish(p) ==
  /\ At(p, "publish")
  /\ IF file["lock"] = NoOwner
     THEN file' = [file EXCEPT !["lock"] = Me(p)] /\ Goto(p, "confirm")
     ELSE Goto(p, "observe") /\ UNCHANGED file
  /\ UNCHANGED <<inc, stale>>

\* The reaper may have been in flight when the marker was looked for.
Confirm(p) ==
  LET o == file["reaping"]
  IN /\ At(p, "confirm")
     /\ \/ o = NoOwner /\ Goto(p, "held")
        \/ Dead(o) /\ ReleaseFile(p, "reaping", o, "held")
        \/ o # NoOwner /\ Alive(o) /\ ReleaseFile(p, "lock", Me(p), "look")
     /\ UNCHANGED <<inc, file, stale>>

-----------------------------------------------------------------------------
(* Reclaiming the lock of a dead owner *)

Observe(p) ==
  /\ At(p, "observe")
  /\ IF Dead(file["lock"]) THEN Remember(p, "mark", file["lock"]) ELSE Goto(p, "look")
  /\ UNCHANGED <<inc, file, stale>>

Mark(p) ==
  /\ At(p, "mark")
  /\ IF file["reaping"] = NoOwner
     THEN /\ file' = [file EXCEPT !["reaping"] = Me(p)]
          /\ Remember(p, "verify", at[p].owner)
     ELSE Goto(p, "look") /\ UNCHANGED file
  /\ UNCHANGED <<inc, stale>>

\* Mutant of Verify: the lock seen before the marker is taken to be there still.
VerifyNothing(p) ==
  /\ At(p, "verify") /\ Remember(p, "reap", at[p].owner)
  /\ UNCHANGED <<inc, file, stale>>

Verify(p) ==
  /\ At(p, "verify")
  /\ IF file["lock"] = at[p].owner /\ Dead(file["lock"])
     THEN Remember(p, "reap", at[p].owner)
     ELSE ReleaseFile(p, "reaping", Me(p), "look")
  /\ UNCHANGED <<inc, file, stale>>

Reap(p) ==
  /\ At(p, "reap")
  /\ file' = [file EXCEPT !["lock"] = NoOwner]
  /\ ReleaseFile(p, "reaping", Me(p), "look")
  /\ UNCHANGED <<inc, stale>>

-----------------------------------------------------------------------------
(* The lock as a component *)

Enter(p) == At(p, "idle") /\ Goto(p, "look") /\ UNCHANGED <<inc, file, stale>>

Unlock(p) ==
  /\ At(p, "held") /\ ReleaseFile(p, "lock", Me(p), "idle")
  /\ UNCHANGED <<inc, file, stale>>

Die(p) ==
  /\ inc' = [inc EXCEPT ![p] = @ + 1]
  /\ at' = [at EXCEPT ![p] = Idle]
  /\ UNCHANGED <<file, stale>>

\* A process dies in its call; whoever takes its place has a pid of its own.
Crash(p) == ~At(p, "idle") /\ inc[p] < MaxCrashes /\ Die(p)

LockStep(p) ==
  CheckOwner(p) \/ RemoveFile(p) \/ Look(p) \/ Publish(p) \/ Confirm(p)
  \/ Observe(p) \/ Mark(p) \/ Verify(p) \/ Reap(p)

LockNext ==
  \E p \in Process : LockStep(p) \/ Enter(p) \/ GiveUp(p) \/ Unlock(p) \/ Crash(p)

LockSpec == LockInit /\ [][LockNext]_lockVars

-----------------------------------------------------------------------------
(* Properties *)

Place == [pc : {"idle", "look", "check", "remove", "publish", "confirm", "held",
                "observe", "mark", "verify", "reap"},
          file : {"lock", "reaping"}, owner : Owner \cup {NoOwner},
          next : {"idle", "look", "publish", "held"}]

\* The shapes of the lock's variables.
LockTypeOK ==
  /\ inc \in [Process -> Nat]
  /\ file \in [{"lock", "reaping"} -> Owner \cup {NoOwner}]
  /\ at \in [Process -> Place]
  /\ stale \in BOOLEAN

\* Two calls never hold the lock at a time.
OneHolder == \A p, q \in Process : At(p, "held") /\ At(q, "held") => p = q

\* Nothing but the removal of a marker that is not the one its remover checked
\* lets two calls hold the lock at a time.
HoldersExclude == stale \/ OneHolder
=============================================================================

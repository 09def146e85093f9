--------------------------- MODULE FileStoreProofs ---------------------------
(***************************************************************************)
(* Theorems about FileLock and about FileStore, whose calls take its lock, *)
(* for every set of processes, any number of calls and crashes.            *)
(***************************************************************************)
EXTENDS FileStore, FiniteSetTheorems, TLAPS

-----------------------------------------------------------------------------
(* The lock *)

\* An owner that is dead, and stays so.
Gone(o) == o \in Owner /\ o.inc < inc[o.proc]

\* No file names an incarnation that is still to come.
FilesPast == \A f \in {"lock", "reaping"} :
               file[f] # NoOwner => file[f].inc <= inc[file[f].proc]

\* What a call remembers: the owner it saw dead, or itself.
Remembers(p) ==
  /\ at[p].pc \in {"mark", "verify", "reap"} => Gone(at[p].owner)
  /\ at[p].pc \in {"check", "remove"} =>
       \/ at[p].file = "lock" /\ at[p].owner = Me(p) /\ at[p].next \in {"look", "idle"}
       \/ at[p].file = "reaping" /\ at[p].owner = Me(p) /\ at[p].next = "look"
       \/ at[p].file = "reaping" /\ Gone(at[p].owner) /\ at[p].next \in {"publish", "held"}

Releases(p) == at[p].pc \in {"check", "remove"}

\* The calls that own the lock file, and those that own the marker.
HasLock(p) ==
  \/ at[p].pc \in {"confirm", "held"}
  \/ Releases(p) /\ (at[p].file = "lock" \/ at[p].next = "held")

HasMarker(p) ==
  \/ at[p].pc \in {"verify", "reap"}
  \/ Releases(p) /\ at[p].file = "reaping" /\ at[p].next = "look"

\* While no marker was removed unchecked, the files name these calls, and the
\* lock that a reaper is about to remove is that of the dead owner.
Owns(p) ==
  /\ HasLock(p) => file["lock"] = Me(p)
  /\ HasMarker(p) => file["reaping"] = Me(p)
  /\ At(p, "reap") => file["lock"] = at[p].owner

LockInv ==
  /\ LockTypeOK
  /\ FilesPast
  /\ \A p \in Process : Remembers(p)
  /\ ~stale => \A p \in Process : Owns(p)

-----------------------------------------------------------------------------
LEMMA Init_LockInv == LockInit => LockInv
<1> SUFFICES ASSUME LockInit PROVE LockInv
  OBVIOUS
<1>1. LockTypeOK /\ FilesPast
  BY LockConstantsOK DEF LockInit, LockTypeOK, FilesPast, Idle, Place, Owner
<1>2. \A p \in Process : at[p].pc = "idle"
  BY DEF LockInit, Idle
<1>3. QED
  BY <1>1, <1>2 DEF LockInv, Remembers, Releases, HasLock, HasMarker, Owns, At

\* The step of one call: what it must show of that call and of the files for
\* the invariant to go on holding of all.
LEMMA OneMoves ==
  ASSUME LockInv, NEW p \in Process, LockTypeOK', UNCHANGED inc,
         \A q \in Process : q # p => at'[q] = at[q],
         FilesPast', Remembers(p)', ~stale' => ~stale /\ Owns(p)',
         ~stale' => \A q \in Process : q # p => Owns(q)'
  PROVE  LockInv'
<1>1. \A q \in Process : q # p => Remembers(q)'
  BY DEF LockInv, Remembers, Gone, Me
<1>2. QED
  BY <1>1 DEF LockInv

\* Where the steps of a call lead.
Elsewhere(p) == \A q \in Process : q # p => at'[q] = at[q]

LEMMA GotoPlace ==
  ASSUME LockTypeOK, NEW p \in Process, NEW s \in {"idle", "look", "publish", "confirm",
           "held", "observe"},
         Goto(p, s)
  PROVE  /\ at' \in [Process -> Place] /\ Elsewhere(p)
         /\ at'[p].pc = s
  BY DEF LockTypeOK, Goto, Idle, Place, Elsewhere

LEMMA RememberPlace ==
  ASSUME LockTypeOK, NEW p \in Process, NEW s \in {"mark", "verify", "reap"},
         NEW o \in Owner, Remember(p, s, o)
  PROVE  /\ at' \in [Process -> Place] /\ Elsewhere(p)
         /\ at'[p].pc = s /\ at'[p].owner = o
  BY DEF LockTypeOK, Remember, Idle, Place, Elsewhere

LEMMA ReleasePlace ==
  ASSUME LockTypeOK, NEW p \in Process, NEW f \in {"lock", "reaping"}, NEW o \in Owner,
         NEW n \in {"idle", "look", "publish", "held"}, ReleaseFile(p, f, o, n)
  PROVE  /\ at' \in [Process -> Place] /\ Elsewhere(p)
         /\ at'[p].pc = "check" /\ at'[p].file = f /\ at'[p].owner = o /\ at'[p].next = n
  BY DEF LockTypeOK, ReleaseFile, Place, Elsewhere

\* A step that leaves both files alone disturbs no other call.
LEMMA FilesKept ==
  ASSUME LockInv, NEW p \in Process, UNCHANGED <<inc, file, stale>>,
         at' \in [Process -> Place], Elsewhere(p),
         Remembers(p)', ~stale => Owns(p)'
  PROVE  LockInv'
<1>1. FilesPast' /\ LockTypeOK'
  BY DEF LockInv, FilesPast, LockTypeOK
<1>2. ~stale => \A q \in Process : q # p => Owns(q)'
  BY DEF LockInv, Owns, HasLock, HasMarker, Releases, Elsewhere, Me, At
<1>3. QED
  BY <1>1, <1>2, OneMoves DEF Elsewhere

\* An owner seen dead in a file is gone for good; oneself is an owner.
LEMMA SeenDead ==
  ASSUME LockInv, NEW f \in {"lock", "reaping"}, Dead(file[f])
  PROVE  Gone(file[f])
  BY DEF LockInv, LockTypeOK, FilesPast, Dead, Alive, Gone, Owner

LEMMA MeOwner == ASSUME LockTypeOK, NEW p \in Process PROVE Me(p) \in Owner
  BY DEF LockTypeOK, Me, Owner

\* The places where a call neither remembers nor owns anything.
LEMMA Unburdened ==
  ASSUME NEW p \in Process, at'[p].pc \in {"idle", "look", "publish", "observe"}
  PROVE  Remembers(p)' /\ Owns(p)'
  BY DEF Remembers, Owns, HasLock, HasMarker, Releases, At

LEMMA CheckOwnerInv ==
  ASSUME LockInv, NEW p \in Process, CheckOwner(p) PROVE LockInv'
<1> USE DEF CheckOwner, LockInv, At
<1>1. CASE file[at[p].file] = at[p].owner
  <2>1. /\ at' = [at EXCEPT ![p].pc = "remove"] /\ UNCHANGED <<inc, file, stale>>
        /\ at[p].pc = "check" /\ at[p] \in Place /\ at \in [Process -> Place]
    BY <1>1 DEF LockTypeOK
  <2>2. /\ at' \in [Process -> Place] /\ Elsewhere(p)
        /\ at'[p].pc = "remove" /\ at'[p].file = at[p].file
        /\ at'[p].owner = at[p].owner /\ at'[p].next = at[p].next
    BY <2>1 DEF Place, Elsewhere
  <2>3. Remembers(p)' /\ (~stale => Owns(p)')
    BY <2>1, <2>2 DEF Remembers, Gone, Me, Owns, HasLock, HasMarker, Releases
  <2>4. QED
    BY <2>1, <2>2, <2>3, FilesKept
<1>2. CASE file[at[p].file] # at[p].owner
  <2>1. at[p].pc = "check" /\ at[p].next \in {"look", "idle", "publish", "held"}
        /\ Goto(p, at[p].next) /\ UNCHANGED <<inc, file, stale>>
    BY <1>2 DEF Remembers
  <2>2. at' \in [Process -> Place] /\ Elsewhere(p) /\ at'[p].pc = at[p].next
    BY <2>1, GotoPlace
  <2>3. Remembers(p)' /\ (~stale => Owns(p)')
    BY <2>1, <2>2 DEF Remembers, Owns, HasLock, HasMarker, Releases, Me
  <2>4. QED
    BY <2>1, <2>2, <2>3, FilesKept
<1>3. QED
  BY <1>1, <1>2

LEMMA LookInv ==
  ASSUME LockInv, NEW p \in Process, Look(p) PROVE LockInv'
<1> DEFINE o == file["reaping"]
<1>1. LockTypeOK /\ UNCHANGED <<inc, file, stale>>
  BY DEF Look, LockInv
<1>2. CASE Goto(p, "publish")
  <2>1. at' \in [Process -> Place] /\ Elsewhere(p) /\ at'[p].pc = "publish"
    BY <1>1, <1>2, GotoPlace
  <2>2. QED
    BY <1>1, <2>1, Unburdened, FilesKept
<1>3. CASE Dead(o) /\ ReleaseFile(p, "reaping", o, "publish")
  <2>1. Gone(o)
    BY <1>3, SeenDead
  <2>2. /\ at' \in [Process -> Place] /\ Elsewhere(p) /\ at'[p].pc = "check"
        /\ at'[p].file = "reaping" /\ at'[p].owner = o /\ at'[p].next = "publish"
    BY <1>1, <1>3, <2>1, ReleasePlace DEF Gone
  <2>3. Remembers(p)' /\ Owns(p)'
    BY <1>1, <2>1, <2>2 DEF Remembers, Gone, Owns, HasLock, HasMarker, Releases, At
  <2>4. QED
    BY <1>1, <2>2, <2>3, FilesKept
<1>4. QED
  BY <1>2, <1>3 DEF Look

LEMMA ConfirmInv ==
  ASSUME LockInv, NEW p \in Process, Confirm(p) PROVE LockInv'
<1> DEFINE o == file["reaping"]
<1>1. LockTypeOK /\ UNCHANGED <<inc, file, stale>> /\ at[p].pc = "confirm"
  BY DEF Confirm, LockInv, At
<1>2. ~stale => file["lock"] = Me(p)
  BY <1>1 DEF LockInv, Owns, HasLock
<1>3. CASE Goto(p, "held")
  <2>1. at' \in [Process -> Place] /\ Elsewhere(p) /\ at'[p].pc = "held"
    BY <1>1, <1>3, GotoPlace
  <2>2. Remembers(p)' /\ (~stale => Owns(p)')
    BY <1>1, <1>2, <2>1 DEF Remembers, Owns, HasLock, HasMarker, Releases, At, Me
  <2>3. QED
    BY <1>1, <2>1, <2>2, FilesKept
<1>4. CASE Dead(o) /\ ReleaseFile(p, "reaping", o, "held")
  <2>1. Gone(o)
    BY <1>4, SeenDead
  <2>2. /\ at' \in [Process -> Place] /\ Elsewhere(p) /\ at'[p].pc = "check"
        /\ at'[p].file = "reaping" /\ at'[p].owner = o /\ at'[p].next = "held"
    BY <1>1, <1>4, <2>1, ReleasePlace DEF Gone
  <2>3. Remembers(p)' /\ (~stale => Owns(p)')
    BY <1>1, <1>2, <2>1, <2>2
    DEF Remembers, Gone, Owns, HasLock, HasMarker, Releases, At, Me
  <2>4. QED
    BY <1>1, <2>2, <2>3, FilesKept
<1>5. CASE ReleaseFile(p, "lock", Me(p), "look")
  <2>1. /\ at' \in [Process -> Place] /\ Elsewhere(p) /\ at'[p].pc = "check"
        /\ at'[p].file = "lock" /\ at'[p].owner = Me(p) /\ at'[p].next = "look"
    BY <1>1, <1>5, MeOwner, ReleasePlace
  <2>2. Remembers(p)' /\ (~stale => Owns(p)')
    BY <1>1, <1>2, <2>1 DEF Remembers, Owns, HasLock, HasMarker, Releases, At, Me
  <2>3. QED
    BY <1>1, <2>1, <2>2, FilesKept
<1>6. QED
  BY <1>3, <1>4, <1>5 DEF Confirm

LEMMA ObserveInv ==
  ASSUME LockInv, NEW p \in Process, Observe(p) PROVE LockInv'
<1> DEFINE o == file["lock"]
<1>1. LockTypeOK /\ UNCHANGED <<inc, file, stale>>
  BY DEF Observe, LockInv
<1>2. CASE Goto(p, "look")
  <2>1. at' \in [Process -> Place] /\ Elsewhere(p) /\ at'[p].pc = "look"
    BY <1>1, <1>2, GotoPlace
  <2>2. QED
    BY <1>1, <2>1, Unburdened, FilesKept
<1>3. CASE Dead(o) /\ Remember(p, "mark", o)
  <2>1. Gone(o)
    BY <1>3, SeenDead
  <2>2. at' \in [Process -> Place] /\ Elsewhere(p) /\ at'[p].pc = "mark" /\ at'[p].owner = o
    BY <1>1, <1>3, <2>1, RememberPlace DEF Gone
  <2>3. Remembers(p)' /\ Owns(p)'
    BY <1>1, <2>1, <2>2 DEF Remembers, Gone, Owns, HasLock, HasMarker, Releases, At
  <2>4. QED
    BY <1>1, <2>2, <2>3, FilesKept
<1>4. QED
  BY <1>2, <1>3 DEF Observe

LEMMA VerifyInv ==
  ASSUME LockInv, NEW p \in Process, Verify(p) PROVE LockInv'
<1>1. /\ LockTypeOK /\ UNCHANGED <<inc, file, stale>> /\ at[p].pc = "verify"
      /\ Gone(at[p].owner) /\ (~stale => file["reaping"] = Me(p))
  BY DEF Verify, LockInv, Remembers, Owns, HasMarker, At
<1>2. CASE file["lock"] = at[p].owner /\ Remember(p, "reap", at[p].owner)
  <2>1. /\ at' \in [Process -> Place] /\ Elsewhere(p) /\ at'[p].pc = "reap"
        /\ at'[p].owner = at[p].owner
    BY <1>1, <1>2, RememberPlace DEF Gone
  <2>2. Remembers(p)' /\ (~stale => Owns(p)')
    BY <1>1, <1>2, <2>1 DEF Remembers, Gone, Owns, HasLock, HasMarker, Releases, At, Me
  <2>3. QED
    BY <1>1, <2>1, <2>2, FilesKept
<1>3. CASE ReleaseFile(p, "reaping", Me(p), "look")
  <2>1. /\ at' \in [Process -> Place] /\ Elsewhere(p) /\ at'[p].pc = "check"
        /\ at'[p].file = "reaping" /\ at'[p].owner = Me(p) /\ at'[p].next = "look"
    BY <1>1, <1>3, MeOwner, ReleasePlace
  <2>2. Remembers(p)' /\ (~stale => Owns(p)')
    BY <1>1, <2>1 DEF Remembers, Owns, HasLock, HasMarker, Releases, At, Me
  <2>3. QED
    BY <1>1, <2>1, <2>2, FilesKept
<1>4. QED
  BY <1>2, <1>3 DEF Verify

LEMMA UseInv ==
  ASSUME LockInv, NEW p \in Process, Enter(p) \/ GiveUp(p) \/ Unlock(p) PROVE LockInv'
<1>1. LockTypeOK /\ UNCHANGED <<inc, file, stale>>
  BY DEF Enter, GiveUp, Unlock, LockInv
<1>2. CASE Goto(p, "look") \/ Goto(p, "idle")
  <2>1. at' \in [Process -> Place] /\ Elsewhere(p) /\ at'[p].pc \in {"look", "idle"}
    BY <1>1, <1>2, GotoPlace
  <2>2. QED
    BY <1>1, <2>1, Unburdened, FilesKept
<1>3. CASE Unlock(p)
  <2>1. /\ at' \in [Process -> Place] /\ Elsewhere(p) /\ at'[p].pc = "check"
        /\ at'[p].file = "lock" /\ at'[p].owner = Me(p) /\ at'[p].next = "idle"
    BY <1>1, <1>3, MeOwner, ReleasePlace DEF Unlock
  <2>2. ~stale => file["lock"] = Me(p)
    BY <1>3 DEF Unlock, LockInv, Owns, HasLock, At
  <2>3. Remembers(p)' /\ (~stale => Owns(p)')
    BY <1>1, <2>1, <2>2 DEF Remembers, Owns, HasLock, HasMarker, Releases, At, Me
  <2>4. QED
    BY <1>1, <2>1, <2>3, FilesKept
<1>4. QED
  BY <1>2, <1>3 DEF Enter, GiveUp

-----------------------------------------------------------------------------
(* The steps that write the files *)

LEMMA FileWritten ==
  ASSUME LockInv, NEW f \in {"lock", "reaping"}, NEW o \in Owner \cup {NoOwner},
         o # NoOwner => o.inc <= inc[o.proc],
         file' = [file EXCEPT ![f] = o], UNCHANGED inc
  PROVE  /\ file' \in [{"lock", "reaping"} -> Owner \cup {NoOwner}] /\ FilesPast'
         /\ file'[f] = o /\ \A g \in {"lock", "reaping"} \ {f} : file'[g] = file[g]
  BY DEF LockInv, LockTypeOK, FilesPast

LEMMA PublishInv ==
  ASSUME LockInv, NEW p \in Process, Publish(p) PROVE LockInv'
<1>1. LockTypeOK /\ UNCHANGED <<inc, stale>> /\ NoOwner \notin Owner
  BY LockConstantsOK DEF Publish, LockInv, Owner
<1>2. CASE Goto(p, "observe") /\ UNCHANGED file
  <2>1. at' \in [Process -> Place] /\ Elsewhere(p) /\ at'[p].pc = "observe"
    BY <1>1, <1>2, GotoPlace
  <2>2. QED
    BY <1>1, <1>2, <2>1, Unburdened, FilesKept
<1>3. CASE /\ file["lock"] = NoOwner /\ file' = [file EXCEPT !["lock"] = Me(p)]
           /\ Goto(p, "confirm")
  <2>1. at' \in [Process -> Place] /\ Elsewhere(p) /\ at'[p].pc = "confirm"
    BY <1>1, <1>3, GotoPlace
  <2>2. Me(p) \in Owner /\ Me(p).inc <= inc[Me(p).proc]
    BY <1>1, MeOwner DEF Me, LockTypeOK
  <2>3. /\ file' \in [{"lock", "reaping"} -> Owner \cup {NoOwner}] /\ FilesPast'
        /\ file'["lock"] = Me(p) /\ file'["reaping"] = file["reaping"]
    BY <1>1, <1>3, <2>2, FileWritten
  <2>4. LockTypeOK'
    BY <1>1, <2>1, <2>3 DEF LockTypeOK
  <2>5. Remembers(p)' /\ Owns(p)'
    BY <1>1, <2>1, <2>3 DEF Remembers, Owns, HasLock, HasMarker, Releases, At, Me
  <2>6. ASSUME ~stale, NEW q \in Process, q # p PROVE Owns(q)'
    <3>1. Owns(q) /\ at'[q] = at[q] /\ Remembers(q)
      BY <2>1, <2>6 DEF LockInv, Elsewhere
    <3>2. Me(q) \in Owner /\ Me(q)' = Me(q)
      BY <1>1, MeOwner DEF Me
    <3>3. ~HasLock(q) /\ ~At(q, "reap")
      BY <1>1, <1>3, <3>1, <3>2 DEF Owns, Remembers, Gone, At
    <3>4. QED
      BY <2>3, <3>1, <3>2, <3>3 DEF Owns, HasLock, HasMarker, Releases, At
  <2>7. QED
    BY <1>1, <2>1, <2>3, <2>4, <2>5, <2>6, OneMoves DEF Elsewhere
<1>4. QED
  BY <1>2, <1>3 DEF Publish

LEMMA MarkInv ==
  ASSUME LockInv, NEW p \in Process, Mark(p) PROVE LockInv'
<1>1. /\ LockTypeOK /\ UNCHANGED <<inc, stale>> /\ NoOwner \notin Owner
      /\ Gone(at[p].owner)
  BY LockConstantsOK DEF Mark, LockInv, Owner, Remembers, At
<1>2. CASE Goto(p, "look") /\ UNCHANGED file
  <2>1. at' \in [Process -> Place] /\ Elsewhere(p) /\ at'[p].pc = "look"
    BY <1>1, <1>2, GotoPlace
  <2>2. QED
    BY <1>1, <1>2, <2>1, Unburdened, FilesKept
<1>3. CASE /\ file["reaping"] = NoOwner /\ file' = [file EXCEPT !["reaping"] = Me(p)]
           /\ Remember(p, "verify", at[p].owner)
  <2>1. /\ at' \in [Process -> Place] /\ Elsewhere(p) /\ at'[p].pc = "verify"
        /\ at'[p].owner = at[p].owner
    BY <1>1, <1>3, RememberPlace DEF Gone
  <2>2. Me(p) \in Owner /\ Me(p).inc <= inc[Me(p).proc]
    BY <1>1, MeOwner DEF Me, LockTypeOK
  <2>3. /\ file' \in [{"lock", "reaping"} -> Owner \cup {NoOwner}] /\ FilesPast'
        /\ file'["reaping"] = Me(p) /\ file'["lock"] = file["lock"]
    BY <1>1, <1>3, <2>2, FileWritten
  <2>4. LockTypeOK'
    BY <1>1, <2>1, <2>3 DEF LockTypeOK
  <2>5. Remembers(p)' /\ Owns(p)'
    BY <1>1, <2>1, <2>3 DEF Remembers, Owns, HasLock, HasMarker, Releases, At, Me, Gone
  <2>6. ASSUME ~stale, NEW q \in Process, q # p PROVE Owns(q)'
    <3>1. Owns(q) /\ at'[q] = at[q]
      BY <2>1, <2>6 DEF LockInv, Elsewhere
    <3>2. Me(q) \in Owner /\ Me(q)' = Me(q)
      BY <1>1, MeOwner DEF Me
    <3>3. ~HasMarker(q)
      BY <1>1, <1>3, <3>1, <3>2 DEF Owns
    <3>4. QED
      BY <2>3, <3>1, <3>2, <3>3 DEF Owns, HasLock, HasMarker, Releases, At
  <2>7. QED
    BY <1>1, <2>1, <2>3, <2>4, <2>5, <2>6, OneMoves DEF Elsewhere
<1>4. QED
  BY <1>2, <1>3 DEF Mark

\* Two reapers would both own the marker, and a live owner of the lock would
\* be the dead one that the reaper removes.
LEMMA ReapInv ==
  ASSUME LockInv, NEW p \in Process, Reap(p) PROVE LockInv'
<1>1. /\ LockTypeOK /\ UNCHANGED <<inc, stale>> /\ NoOwner \notin Owner /\ at[p].pc = "reap"
      /\ file' = [file EXCEPT !["lock"] = NoOwner] /\ ReleaseFile(p, "reaping", Me(p), "look")
      /\ Gone(at[p].owner)
  BY LockConstantsOK DEF Reap, LockInv, Owner, Remembers, At
<1>2. /\ at' \in [Process -> Place] /\ Elsewhere(p) /\ at'[p].pc = "check"
      /\ at'[p].file = "reaping" /\ at'[p].owner = Me(p) /\ at'[p].next = "look"
  BY <1>1, MeOwner, ReleasePlace
<1>3. /\ file' \in [{"lock", "reaping"} -> Owner \cup {NoOwner}] /\ FilesPast'
      /\ file'["lock"] = NoOwner /\ file'["reaping"] = file["reaping"]
  BY <1>1, FileWritten
<1>4. LockTypeOK'
  BY <1>1, <1>2, <1>3 DEF LockTypeOK
<1>5. Remembers(p)'
  BY <1>1, <1>2 DEF Remembers, Me
<1>6. ~stale => file["reaping"] = Me(p) /\ file["lock"] = at[p].owner
  BY <1>1 DEF LockInv, Owns, HasMarker, At
<1>7. ~stale => Owns(p)'
  BY <1>1, <1>2, <1>3, <1>6 DEF Owns, HasLock, HasMarker, Releases, At, Me
<1>8. ASSUME ~stale, NEW q \in Process, q # p PROVE Owns(q)'
  <2>1. Owns(q) /\ at'[q] = at[q] /\ Me(q)' = Me(q)
    BY <1>1, <1>2, <1>8 DEF LockInv, Elsewhere, Me
  <2>2. ~HasMarker(q)
    BY <1>6, <1>8, <2>1 DEF Owns, Me
  <2>3. ~HasLock(q)
    BY <1>1, <1>6, <1>8, <2>1 DEF Owns, Me, Gone, LockTypeOK
  <2>4. QED
    BY <1>3, <2>1, <2>2, <2>3 DEF Owns, HasLock, HasMarker, Releases, At
<1>9. QED
  BY <1>1, <1>2, <1>3, <1>4, <1>5, <1>7, <1>8, OneMoves DEF Elsewhere

LEMMA RemoveFileInv ==
  ASSUME LockInv, NEW p \in Process, RemoveFile(p) PROVE LockInv'
<1> DEFINE f == at[p].file
           n == at[p].next
<1>1. /\ LockTypeOK /\ UNCHANGED inc /\ NoOwner \notin Owner /\ at[p].pc = "remove"
      /\ at[p] \in Place /\ file' = [file EXCEPT ![f] = NoOwner] /\ Goto(p, n)
      /\ stale' = (stale \/ (f = "reaping" /\ file["reaping"] \notin {NoOwner, at[p].owner}))
  BY LockConstantsOK DEF RemoveFile, LockInv, LockTypeOK, Owner, At
<1>2. f \in {"lock", "reaping"} /\ n \in {"look", "idle", "publish", "held"}
  BY <1>1 DEF LockInv, Remembers
<1>3. at' \in [Process -> Place] /\ Elsewhere(p) /\ at'[p].pc = n
  BY <1>1, <1>2, GotoPlace
<1>4. /\ file' \in [{"lock", "reaping"} -> Owner \cup {NoOwner}] /\ FilesPast'
      /\ file'[f] = NoOwner /\ \A g \in {"lock", "reaping"} \ {f} : file'[g] = file[g]
  BY <1>1, <1>2, FileWritten
<1>5. LockTypeOK'
  BY <1>1, <1>3, <1>4 DEF LockTypeOK
<1>6. Remembers(p)'
  BY <1>2, <1>3 DEF Remembers
<1>7. stale' = FALSE => stale = FALSE
  BY <1>1 DEF LockTypeOK
<1>8. ASSUME ~stale' PROVE ~stale /\ Owns(p)'
  <2>1. ~stale /\ Owns(p) /\ Remembers(p)
    BY <1>1, <1>8 DEF LockInv
  <2>2. n = "held" => f = "reaping" /\ file["lock"] = Me(p)
    BY <1>1, <2>1 DEF Remembers, Owns, HasLock, Releases
  <2>3. n = "held" => file'["lock"] = Me(p)'
    BY <1>1, <1>4, <2>2 DEF Me
  <2>4. QED
    BY <1>2, <1>3, <2>1, <2>3 DEF Owns, HasLock, HasMarker, Releases, At
<1>9. ASSUME ~stale', NEW q \in Process, q # p PROVE Owns(q)'
  <2>1. /\ ~stale /\ Owns(q) /\ Owns(p) /\ Remembers(p) /\ Remembers(q)
        /\ at'[q] = at[q] /\ Me(q)' = Me(q)
    BY <1>1, <1>3, <1>8, <1>9 DEF LockInv, Elsewhere, Me
  <2>2. Me(q) \in Owner /\ Me(q) # Me(p) /\ ~Gone(Me(q)) /\ ~Gone(Me(p))
    BY <1>1, <1>9, MeOwner DEF Me, Gone, LockTypeOK
  <2>3. CASE f = "lock"
    <3>1. file["lock"] = Me(p)
      BY <1>1, <2>1, <2>3 DEF Owns, HasLock, Releases
    <3>2. ~HasLock(q) /\ ~At(q, "reap")
      BY <2>1, <2>2, <3>1 DEF Owns, Remembers, At
    <3>3. QED
      BY <1>4, <2>1, <2>3, <3>2 DEF Owns, HasLock, HasMarker, Releases, At
  <2>4. CASE f = "reaping"
    <3>1. file["reaping"] # Me(q)
      <4>1. CASE n = "look"
        BY <1>1, <2>1, <2>2, <2>4, <4>1 DEF Owns, HasMarker, Releases
      <4>2. CASE n # "look"
        <5>1. Gone(at[p].owner)
          BY <1>1, <2>1, <2>4, <4>2 DEF Remembers
        <5>2. file["reaping"] \in {NoOwner, at[p].owner}
          BY <1>1, <1>9, <2>4
        <5>3. QED
          BY <1>1, <2>2, <5>1, <5>2
      <4>3. QED
        BY <4>1, <4>2
    <3>2. ~HasMarker(q)
      BY <2>1, <3>1 DEF Owns
    <3>3. QED
      BY <1>4, <2>1, <2>4, <3>2 DEF Owns, HasLock, HasMarker, Releases, At
  <2>5. QED
    BY <1>2, <2>3, <2>4
<1>10. QED
  BY <1>1, <1>3, <1>4, <1>5, <1>6, <1>8, <1>9, OneMoves DEF Elsewhere

\* A death makes one incarnation past, and leaves its files to the others.
LEMMA CrashInv ==
  ASSUME LockInv, NEW p \in Process, Crash(p) PROVE LockInv'
<1>1. /\ LockTypeOK /\ UNCHANGED <<file, stale>>
      /\ inc' = [inc EXCEPT ![p] = @ + 1] /\ at' = [at EXCEPT ![p] = Idle]
  BY DEF Crash, Die, LockInv
<1>2. /\ inc' \in [Process -> Nat] /\ \A q \in Process : inc[q] <= inc'[q]
      /\ \A q \in Process : q # p => inc'[q] = inc[q]
  BY <1>1 DEF LockTypeOK
<1>3. /\ at' \in [Process -> Place] /\ at'[p].pc = "idle"
      /\ \A q \in Process : q # p => at'[q] = at[q]
  BY <1>1 DEF LockTypeOK, Place, Idle
<1>4. LockTypeOK'
  BY <1>1, <1>2, <1>3 DEF LockTypeOK
<1>5. FilesPast'
  <2>1. SUFFICES ASSUME NEW f \in {"lock", "reaping"}, file[f] # NoOwner
                 PROVE  file[f].inc <= inc'[file[f].proc]
    BY <1>1 DEF FilesPast
  <2>2. /\ file[f].inc <= inc[file[f].proc] /\ file[f].proc \in Process
        /\ file[f].inc \in Nat
    BY <1>1, <2>1 DEF LockInv, FilesPast, LockTypeOK, Owner
  <2>3. QED
    BY <1>1, <1>2, <2>2 DEF LockTypeOK
<1>6. \A o : Gone(o) => Gone(o)'
  BY <1>1, <1>2 DEF Gone, Owner, LockTypeOK
<1>7. \A q \in Process : Remembers(q)' /\ (~stale => Owns(q)')
  <2>1. Remembers(p)' /\ Owns(p)'
    BY <1>3, Unburdened
  <2>2. ASSUME NEW q \in Process, q # p PROVE Remembers(q)' /\ (~stale => Owns(q)')
    <3>1. at'[q] = at[q] /\ Me(q)' = Me(q)
      BY <1>2, <1>3, <2>2 DEF Me
    <3>2. Remembers(q)'
      BY <1>6, <3>1 DEF LockInv, Remembers
    <3>3. ~stale => Owns(q)'
      BY <1>1, <3>1 DEF LockInv, Owns, HasLock, HasMarker, Releases, At
    <3>4. QED
      BY <3>2, <3>3
  <2>3. QED
    BY <2>1, <2>2
<1>8. QED
  BY <1>1, <1>4, <1>5, <1>7 DEF LockInv

LEMMA LockStepInv == LockInv /\ [LockNext]_lockVars => LockInv'
<1> SUFFICES ASSUME LockInv, [LockNext]_lockVars PROVE LockInv'
  OBVIOUS
<1>1. CASE UNCHANGED lockVars
  BY <1>1 DEF lockVars, LockInv, LockTypeOK, FilesPast, Remembers, Gone, Owns, HasLock,
     HasMarker, Releases, Me, At
<1>2. ASSUME NEW p \in Process, LockStep(p) PROVE LockInv'
  BY <1>2, CheckOwnerInv, RemoveFileInv, LookInv, PublishInv, ConfirmInv, ObserveInv,
     MarkInv, VerifyInv, ReapInv DEF LockStep
<1>3. ASSUME NEW p \in Process, Enter(p) \/ GiveUp(p) \/ Unlock(p) \/ Crash(p) PROVE LockInv'
  BY <1>3, UseInv, CrashInv
<1>4. QED
  BY <1>1, <1>2, <1>3 DEF LockNext

LEMMA LockInvExcludes == LockInv => HoldersExclude
<1>1. SUFFICES ASSUME LockInv, ~stale, NEW p \in Process, NEW q \in Process,
                      At(p, "held"), At(q, "held")
               PROVE  p = q
  BY DEF HoldersExclude, OneHolder
<1>2. file["lock"] = Me(p) /\ file["lock"] = Me(q)
  BY <1>1 DEF LockInv, Owns, HasLock, At
<1>3. QED
  BY <1>2 DEF Me

\* Whatever the processes do and whenever they die, two calls hold the lock at
\* a time only after a marker was removed that its remover had not checked.
THEOREM LockExcludes == LockSpec => []HoldersExclude
<1>1. LockSpec => []LockInv
  BY Init_LockInv, LockStepInv, PTL DEF LockSpec
<1>2. QED
  BY <1>1, LockInvExcludes, PTL

-----------------------------------------------------------------------------
(* The store under the lock *)

\* A call that does not hold the lock has not resolved the pointer.
Waits(p) ==
  ~At(p, "held") => /\ work[p].dir = Unnamed
                    /\ work[p].step \in {"none", "stage", "resolve"}
                    /\ work[p].step = "resolve" => call[p].kind # "tx"

\* The directory a call works in, and the generation a transaction made.
WorksIn(p) ==
  /\ work[p].step \in {"link", "log", "doc"} => work[p].dir # Unnamed
  /\ work[p].step \in {"prune", "undo"} => work[p].dir = Unnamed
  /\ work[p].step \in {"stage", "link", "switch", "prune", "undo"} => call[p].kind = "tx"
  /\ work[p].step \in {"resolve", "link", "log", "doc", "switch", "prune"} /\ call[p].kind = "tx"
       => call[p].id \in DOMAIN gen
  /\ work[p].step # "none" => call[p].id \in Id
  /\ work[p].step = "prune" => ptr = call[p].id

StoreInv ==
  /\ StoreTypeOK
  /\ PointerNamesGeneration
  /\ \A p \in Process : Waits(p) /\ WorksIn(p)

-----------------------------------------------------------------------------
LEMMA KindsAre ==
  /\ Kinds = {"tx", "append", "put", "read"} /\ Main \in Call /\ 0 \in Call /\ Id \subseteq Call
  /\ Id \subseteq Nat /\ Unnamed \notin Call
  BY StoreConstantsOK DEF Kinds, Write, Main, Id, Call, Unnamed

\* The contents of log files.
LEMMA LogsAre ==
  /\ NoLines \in Log
  /\ \A log \in Log, i \in Id : Extended(log, i) \in Log /\ Stopped(log, i) \subseteq Log
  BY DEF Log, NoLines, Extended, Stopped, End

LEMMA NoneAre == NoCall \in Requested /\ NoWork \in Task
  BY KindsAre, LogsAre DEF NoCall, NoWork, Requested, Task, View

LEMMA InitStoreInv == Init => StoreInv
<1> SUFFICES ASSUME Init PROVE StoreInv
  OBVIOUS
<1>1. LockTypeOK
  BY Init_LockInv DEF Init, LockInv
<1>2. Shapes /\ \A p \in Process : work[p] = NoWork /\ call[p] = NoCall
  <2>1. DOMAIN gen = {} /\ gen \in [{} -> Version]
    BY DEF Init
  <2>2. logs \in [Call -> Log]
    BY LogsAre DEF Init
  <2>3. QED
    BY <2>1, <2>2, KindsAre, NoneAre, StoreConstantsOK DEF Init, Shapes
<1>3. QED
  BY <1>1, <1>2 DEF StoreInv, StoreTypeOK, PointerNamesGeneration, Init, Waits, WorksIn,
     NoWork, NoCall, Unnamed

\* Everything but the call of p and the store stays as it is.
Alone(p) ==
  \A q \in Process : q # p => at'[q] = at[q] /\ call'[q] = call[q] /\ work'[q] = work[q]

\* What p must show of itself after its step.
Settles(p) == /\ Waits(p) /\ WorksIn(p) /\ work[p].dir \in DOMAIN gen \cup {Unnamed}

LEMMA Held == LockInv /\ ~stale => OneHolder
  BY LockInvExcludes DEF HoldersExclude

\* A holder disturbs nobody: the others have not resolved the pointer.
LEMMA HolderMoves ==
  ASSUME LockInv, StoreInv, ~stale, LockTypeOK', NEW p \in Process, At(p, "held"),
         Alone(p), Shapes', PointerNamesGeneration', Settles(p)'
  PROVE  StoreInv'
<1>1. ASSUME NEW q \in Process, q # p PROVE Settles(q)'
  <2>1. ~At(q, "held")
    BY <1>1, Held DEF OneHolder
  <2>2. Waits(q) /\ WorksIn(q) /\ at'[q] = at[q] /\ call'[q] = call[q] /\ work'[q] = work[q]
    BY <1>1 DEF StoreInv, Alone
  <2>3. QED
    BY <2>1, <2>2 DEF Settles, Waits, WorksIn, At
<1>2. QED
  BY <1>1 DEF StoreInv, StoreTypeOK, Settles

\* So does a call that leaves the store alone.
LEMMA OutsideMoves ==
  ASSUME StoreInv, LockTypeOK', NEW p \in Process, Alone(p), UNCHANGED storeVars,
         Shapes', Settles(p)'
  PROVE  StoreInv'
<1>1. ASSUME NEW q \in Process, q # p PROVE Settles(q)'
  <2>1. /\ Waits(q) /\ WorksIn(q) /\ work[q].dir \in DOMAIN gen \cup {Unnamed}
        /\ at'[q] = at[q] /\ call'[q] = call[q] /\ work'[q] = work[q] /\ UNCHANGED <<gen, ptr>>
    BY <1>1 DEF StoreInv, StoreTypeOK, Alone, storeVars
  <2>2. QED
    BY <2>1 DEF Settles, Waits, WorksIn, At
<1>2. PointerNamesGeneration'
  BY DEF StoreInv, PointerNamesGeneration, storeVars
<1>3. QED
  BY <1>1, <1>2 DEF StoreInv, StoreTypeOK, Settles

-----------------------------------------------------------------------------
(* What the assignments to a call do *)

LEMMA WorkThen ==
  ASSUME Shapes, NEW p \in Process, NEW s \in {"resolve", "log", "doc", "switch", "done", "failed"},
         Then(p, s)
  PROVE  /\ work' \in [Process -> Task] /\ \A q \in Process : q # p => work'[q] = work[q]
         /\ work'[p].step = s /\ work'[p].dir = work[p].dir
  BY DEF Shapes, Then, Task

LEMMA WorkIn ==
  ASSUME Shapes, NEW p \in Process,
         NEW s \in {"link", "log", "doc", "prune", "undo"}, NEW d \in Call \cup {Unnamed},
         work' = [work EXCEPT ![p].step = s, ![p].dir = d]
  PROVE  /\ work' \in [Process -> Task] /\ \A q \in Process : q # p => work'[q] = work[q]
         /\ work'[p].step = s /\ work'[p].dir = d
  BY DEF Shapes, Task

LEMMA WorkReset ==
  ASSUME Shapes, NEW p \in Process, work' = [work EXCEPT ![p] = NoWork]
  PROVE  /\ work' \in [Process -> Task] /\ \A q \in Process : q # p => work'[q] = work[q]
         /\ work'[p].step = "none" /\ work'[p].dir = Unnamed
  BY NoneAre DEF Shapes, NoWork

\* A call that is over, or not begun, settles.
LEMMA IdleSettles ==
  ASSUME NEW p \in Process, work'[p].step = "none", work'[p].dir = Unnamed
  PROVE  Settles(p)'
  BY DEF Settles, Waits, WorksIn

LEMMA AnswerShapes ==
  ASSUME Shapes, NEW p \in Process, NEW a \in {"ok", "failed"}, Answer(p, a)
  PROVE  /\ Shapes' /\ UNCHANGED storeVars
         /\ \A q \in Process : q # p => call'[q] = call[q] /\ work'[q] = work[q]
         /\ work'[p].step = "none" /\ work'[p].dir = Unnamed
<1>1. call' \in [Process -> Requested] /\ \A q \in Process : q # p => call'[q] = call[q]
  BY DEF Answer, Shapes, Requested
<1>2. QED
  BY <1>1, WorkReset DEF Answer, Shapes, storeVars

-----------------------------------------------------------------------------
(* The steps outside the lock *)

LEMMA RequestInv ==
  ASSUME LockInv, StoreInv, LockTypeOK', NEW p \in Process, Request(p)
  PROVE  StoreInv'
<1>1. PICK k \in Kinds :
        /\ call' = [call EXCEPT ![p] = [NoCall EXCEPT !.kind = k, !.id = issued + 1]]
        /\ work' = [work EXCEPT ![p] =
                      [NoWork EXCEPT !.step = IF k = "tx" THEN "stage" ELSE "resolve"]]
  BY DEF Request
<1>2. /\ UNCHANGED storeVars /\ issued' = issued + 1 /\ issued + 1 \in Id
      /\ issued' \in 0..MaxCalls /\ Shapes /\ LockTypeOK /\ Goto(p, "look")
  BY StoreConstantsOK DEF Request, StoreInv, StoreTypeOK, Shapes, Id, Enter
<1>3. /\ call' \in [Process -> Requested] /\ \A q \in Process : q # p => call'[q] = call[q]
      /\ call'[p].kind = k /\ call'[p].id = issued + 1
  BY <1>1, <1>2, KindsAre, NoneAre DEF Shapes, NoCall, Requested
<1>4. /\ work' \in [Process -> Task] /\ \A q \in Process : q # p => work'[q] = work[q]
      /\ work'[p].step = (IF k = "tx" THEN "stage" ELSE "resolve")
      /\ work'[p].dir = Unnamed
  BY <1>1, <1>2, NoneAre DEF Shapes, NoWork, Task
<1>5. Alone(p)
  BY <1>2, <1>3, <1>4, GotoPlace DEF Alone, Elsewhere
<1>6. Shapes'
  BY <1>2, <1>3, <1>4 DEF Shapes, storeVars
<1>7. Settles(p)'
  BY <1>2, <1>3, <1>4 DEF Settles, Waits, WorksIn
<1>8. QED
  BY <1>2, <1>5, <1>6, <1>7, OutsideMoves

LEMMA TimeOutInv ==
  ASSUME LockInv, StoreInv, LockTypeOK', NEW p \in Process, TimeOut(p)
  PROVE  StoreInv'
<1>1. Shapes /\ LockTypeOK /\ Goto(p, "idle") /\ Answer(p, "failed")
  BY DEF StoreInv, StoreTypeOK, TimeOut, GiveUp
<1>2. Shapes' /\ UNCHANGED storeVars /\ Settles(p)' /\ Alone(p)
  BY <1>1, AnswerShapes, IdleSettles, GotoPlace DEF Alone, Elsewhere
<1>3. QED
  BY <1>2, OutsideMoves

LEMMA StoreCrashInv ==
  ASSUME LockInv, StoreInv, LockTypeOK', NEW p \in Process, StoreCrash(p)
  PROVE  StoreInv'
<1>1. /\ Shapes /\ LockTypeOK /\ at' = [at EXCEPT ![p] = Idle] /\ UNCHANGED <<storeVars, issued>>
      /\ call' = [call EXCEPT ![p] = NoCall] /\ work' = [work EXCEPT ![p] = NoWork]
  BY DEF StoreInv, StoreTypeOK, StoreCrash, Crash, Die
<1>2. call' \in [Process -> Requested] /\ \A q \in Process : q # p => call'[q] = call[q]
  BY <1>1, NoneAre DEF Shapes
<1>3. /\ work' \in [Process -> Task] /\ \A q \in Process : q # p => work'[q] = work[q]
      /\ Settles(p)'
  BY <1>1, WorkReset, IdleSettles
<1>4. Shapes' /\ Alone(p)
  BY <1>1, <1>2, <1>3 DEF Shapes, storeVars, Alone, LockTypeOK
<1>5. QED
  BY <1>1, <1>3, <1>4, OutsideMoves

\* A step of the lock ends outside, or with the lock just taken.
LEMMA LockingMoves ==
  ASSUME LockInv, NEW p \in Process, LockStep(p)
  PROVE  ~At(p, "held") /\ Elsewhere(p)
<1>1. LockTypeOK /\ at \in [Process -> Place]
  BY DEF LockInv, LockTypeOK
<1>2. ~At(p, "held")
  BY DEF LockStep, CheckOwner, RemoveFile, Look, Publish, Confirm, Observe, Mark, Verify,
     Reap, At
<1>3. Elsewhere(p)
  BY <1>1 DEF LockStep, CheckOwner, RemoveFile, Look, Publish, Confirm, Observe, Mark, Verify,
     Reap, Goto, Remember, ReleaseFile, Elsewhere
<1>4. QED
  BY <1>2, <1>3

LEMMA LockingInv ==
  ASSUME LockInv, StoreInv, LockTypeOK', NEW p \in Process, Locking(p)
  PROVE  StoreInv'
<1>1. ~At(p, "held") /\ Elsewhere(p) /\ UNCHANGED <<storeVars, call, work, issued>>
  BY LockingMoves DEF Locking
<1>2. Alone(p) /\ Shapes'
  BY <1>1 DEF Alone, Elsewhere, StoreInv, StoreTypeOK, Shapes, storeVars
<1>3. Waits(p) /\ WorksIn(p) /\ work[p].dir \in DOMAIN gen \cup {Unnamed}
  BY DEF StoreInv, StoreTypeOK
<1>4. Settles(p)'
  BY <1>1, <1>3 DEF Settles, Waits, WorksIn, storeVars
<1>5. QED
  BY <1>1, <1>2, <1>4, OutsideMoves

-----------------------------------------------------------------------------
(* The steps under the lock *)

\* What a holder's step starts from, and what it must give.
Before(p) ==
  /\ LockInv /\ StoreInv /\ ~stale /\ LockTypeOK' /\ At(p, "held")
  /\ Shapes /\ Settles(p) /\ PointerNamesGeneration

LEMMA ReplyInv ==
  ASSUME NEW p \in Process, Before(p), Reply(p) PROVE StoreInv'
<1>1. PICK a \in {"ok", "failed"} : Answer(p, a)
  BY DEF Reply
<1>2. LockTypeOK /\ Elsewhere(p)
  BY ReleasePlace, MeOwner DEF Reply, Unlock, Before, LockInv
<1>3. Shapes' /\ UNCHANGED storeVars /\ Settles(p)' /\ Alone(p)
  BY <1>1, <1>2, AnswerShapes, IdleSettles DEF Alone, Elsewhere, Before
<1>4. QED
  BY <1>3, OutsideMoves DEF Before

LEMMA WithShape ==
  ASSUME Shapes, NEW g \in Call
  PROVE  /\ With(g) \in [DOMAIN gen \cup {g} -> Version] /\ DOMAIN With(g) = DOMAIN gen \cup {g}
         /\ DOMAIN gen \cup {g} \subseteq Call
  BY KindsAre DEF Shapes, With, Empty, Version

LEMMA StageInv ==
  ASSUME NEW p \in Process, Before(p), Stage(p) PROVE StoreInv'
<1>1. /\ gen' = With(call[p].id) /\ Then(p, "resolve") /\ UNCHANGED <<lockVars, ptr, logs, call, issued>>
      /\ call[p].id \in Id /\ call[p].id \in Call /\ work[p].dir \in DOMAIN gen \cup {Unnamed}
  BY KindsAre DEF Stage, Does, Before, Settles, WorksIn
<1>2. /\ gen' \in [DOMAIN gen' -> Version] /\ DOMAIN gen' = DOMAIN gen \cup {call[p].id}
      /\ DOMAIN gen' \subseteq Call
  BY <1>1, WithShape DEF Before
<1>3. /\ work' \in [Process -> Task] /\ \A q \in Process : q # p => work'[q] = work[q]
      /\ work'[p].step = "resolve" /\ work'[p].dir = work[p].dir
  BY <1>1, WorkThen DEF Before
<1>4. Shapes' /\ Alone(p) /\ PointerNamesGeneration'
  BY <1>1, <1>2, <1>3 DEF Before, Shapes, Alone, lockVars, PointerNamesGeneration
<1>5. Settles(p)'
  BY <1>1, <1>2, <1>3 DEF Before, Settles, Waits, WorksIn, At, lockVars
<1>6. QED
  BY <1>4, <1>5, HolderMoves DEF Before

LEMMA ResolveInv ==
  ASSUME NEW p \in Process, Before(p), Resolve(p) PROVE StoreInv'
<1> DEFINE first == IF call[p].kind = "tx" THEN "link"
                    ELSE IF call[p].kind = "put" THEN "doc" ELSE "log"
<1>1. /\ UNCHANGED <<lockVars, logs, call, issued>> /\ work[p].step = "resolve"
      /\ work' = [work EXCEPT ![p].step = first, ![p].dir = ptr']
      /\ call[p].id \in Id
  BY DEF Resolve, Does, Before, Settles, WorksIn
<1>2. /\ gen' \in [DOMAIN gen' -> Version] /\ DOMAIN gen \subseteq DOMAIN gen'
      /\ DOMAIN gen' \subseteq Call /\ ptr' \in DOMAIN gen' /\ ptr' \in Call
  <2>1. CASE ptr # Unnamed /\ UNCHANGED <<ptr, gen>>
    BY <2>1 DEF Before, Shapes, PointerNamesGeneration
  <2>2. CASE ptr' = Main /\ gen' = With(Main)
    BY <2>2, KindsAre, WithShape DEF Before
  <2>3. QED
    BY <2>1, <2>2 DEF Resolve
<1>3. /\ work' \in [Process -> Task] /\ \A q \in Process : q # p => work'[q] = work[q]
      /\ work'[p].step = first /\ work'[p].dir = ptr'
  BY <1>1, <1>2, WorkIn DEF Before
<1>4. Shapes' /\ Alone(p) /\ PointerNamesGeneration'
  BY <1>1, <1>2, <1>3 DEF Before, Shapes, Alone, lockVars, PointerNamesGeneration
<1>5. Settles(p)'
  BY <1>1, <1>2, <1>3, KindsAre DEF Before, Settles, Waits, WorksIn, At, lockVars
<1>6. QED
  BY <1>4, <1>5, HolderMoves DEF Before

\* A holder's step that gives the generations it has new contents.
LEMMA ContentsChange ==
  ASSUME NEW p \in Process, Before(p), UNCHANGED <<lockVars, ptr, issued>>,
         gen' \in [DOMAIN gen' -> Version], DOMAIN gen' = DOMAIN gen,
         logs' \in [Call -> Log], call' \in [Process -> Requested],
         work' \in [Process -> Task],
         \A q \in Process : q # p => call'[q] = call[q] /\ work'[q] = work[q],
         Settles(p)'
  PROVE  StoreInv'
<1>1. Shapes' /\ Alone(p) /\ PointerNamesGeneration'
  BY DEF Before, Shapes, Alone, lockVars, PointerNamesGeneration
<1>2. QED
  BY <1>1, HolderMoves DEF Before

LEMMA LinkInv ==
  ASSUME NEW p \in Process, Before(p), Link(p) PROVE StoreInv'
<1> DEFINE i == call[p].id
           source == gen[work[p].dir]
<1>1. /\ work' = [work EXCEPT ![p].step = "log", ![p].dir = i] /\ UNCHANGED <<lockVars, ptr, call, issued>>
      /\ work[p].step = "link" /\ call[p].kind = "tx" /\ i \in DOMAIN gen /\ i \in Id /\ i \in Call
      /\ work[p].dir \in DOMAIN gen
  BY KindsAre DEF Link, Does, Before, Settles, WorksIn
<1>2. source \in Version /\ source.log \in Call /\ logs[source.log] \in Log
  BY <1>1 DEF Before, Shapes, Version
<1>3. /\ gen' \in [DOMAIN gen' -> Version] /\ DOMAIN gen' = DOMAIN gen
      /\ logs' \in [Call -> Log]
  <2>1. CASE gen' = [gen EXCEPT ![i] = source] /\ UNCHANGED logs
    BY <1>1, <1>2, <2>1 DEF Before, Shapes
  <2>2. CASE /\ gen' = [gen EXCEPT ![i] = [source EXCEPT !.log = i]]
             /\ logs' = [logs EXCEPT ![i] = logs[source.log]]
    <3>1. [source EXCEPT !.log = i] \in Version
      BY <1>1, <1>2 DEF Version
    <3>2. QED
      BY <1>1, <1>2, <2>2, <3>1 DEF Before, Shapes
  <2>3. QED
    BY <2>1, <2>2 DEF Link
<1>4. /\ work' \in [Process -> Task] /\ \A q \in Process : q # p => work'[q] = work[q]
      /\ work'[p].step = "log" /\ work'[p].dir = i
  BY <1>1, WorkIn DEF Before
<1>5. Settles(p)'
  BY <1>1, <1>3, <1>4, KindsAre DEF Before, Settles, Waits, WorksIn, At, lockVars
<1>6. QED
  BY <1>1, <1>3, <1>4, <1>5, ContentsChange DEF Before, Shapes

LEMMA SetLogShape ==
  ASSUME Shapes, NEW g \in DOMAIN gen, NEW j \in Call, NEW log \in Log, SetLog(g, j, log)
  PROVE  /\ gen' \in [DOMAIN gen' -> Version] /\ DOMAIN gen' = DOMAIN gen
         /\ logs' \in [Call -> Log]
<1>1. gen[g] \in Version
  BY DEF Shapes
<1>2. [gen[g] EXCEPT !.log = j] \in Version
  BY <1>1 DEF Version
<1>3. QED
  BY <1>2 DEF Shapes, SetLog

\* The file that a line goes to, and what it may then hold.
LEMMA LinesShape ==
  ASSUME Shapes, NEW g \in DOMAIN gen, NEW i \in Id
  PROVE  /\ Target(g, i) \in Call /\ i \in Call
         /\ Extended(logs[gen[g].log], i) \in Log
         /\ Stopped(logs[gen[g].log], i) \subseteq Log
<1>1. gen[g] \in Version /\ gen[g].log \in Call /\ i \in Call
  BY KindsAre DEF Shapes, Version
<1>2. logs[gen[g].log] \in Log
  BY <1>1 DEF Shapes
<1>3. QED
  BY <1>1, <1>2, LogsAre DEF Target

LEMMA AppendShape ==
  ASSUME Shapes, NEW g \in DOMAIN gen, NEW i \in Id, AppendLine(g, i)
  PROVE  /\ gen' \in [DOMAIN gen' -> Version] /\ DOMAIN gen' = DOMAIN gen
         /\ logs' \in [Call -> Log]
<1> DEFINE j == IF InPlace(g) THEN Target(g, i) ELSE i
<1>1. j \in Call /\ Extended(logs[gen[g].log], i) \in Log
  BY LinesShape
<1>2. SetLog(g, j, Extended(logs[gen[g].log], i))
  BY DEF AppendLine
<1>3. QED
  BY <1>1, <1>2, SetLogShape

LEMMA PartShape ==
  ASSUME Shapes, NEW g \in DOMAIN gen, NEW i \in Id, AppendPart(g, i)
  PROVE  /\ gen' \in [DOMAIN gen' -> Version] /\ DOMAIN gen' = DOMAIN gen
         /\ logs' \in [Call -> Log]
<1>1. PICK log \in Stopped(logs[gen[g].log], i) : SetLog(g, Target(g, i), log)
  BY DEF AppendPart
<1>2. Target(g, i) \in Call /\ log \in Log
  BY LinesShape
<1>3. QED
  BY <1>1, <1>2, SetLogShape

LEMMA WriteLogInv ==
  ASSUME NEW p \in Process, Before(p), WriteLog(p) PROVE StoreInv'
<1>1. /\ AppendLine(work[p].dir, call[p].id) /\ UNCHANGED <<lockVars, ptr, call, issued>>
      /\ Then(p, IF call[p].kind = "tx" THEN "doc" ELSE "done")
      /\ work[p].step = "log" /\ call[p].id \in Id /\ work[p].dir \in DOMAIN gen
  BY DEF WriteLog, Does, Before, Settles, WorksIn
<1>2. /\ gen' \in [DOMAIN gen' -> Version] /\ DOMAIN gen' = DOMAIN gen
      /\ logs' \in [Call -> Log]
  BY <1>1, AppendShape DEF Before
<1>3. /\ work' \in [Process -> Task] /\ \A q \in Process : q # p => work'[q] = work[q]
      /\ work'[p].step = (IF call[p].kind = "tx" THEN "doc" ELSE "done")
      /\ work'[p].dir = work[p].dir
  BY <1>1, WorkThen DEF Before
<1>4. Settles(p)'
  BY <1>1, <1>2, <1>3 DEF Before, Settles, Waits, WorksIn, At, lockVars
<1>5. QED
  BY <1>1, <1>2, <1>3, <1>4, ContentsChange DEF Before, Shapes

LEMMA WriteDocumentInv ==
  ASSUME NEW p \in Process, Before(p), WriteDocument(p) PROVE StoreInv'
<1> DEFINE g == work[p].dir
           i == call[p].id
<1>1. /\ ReplaceDocument(g, i) /\ UNCHANGED <<lockVars, ptr, call, issued>>
      /\ Then(p, IF call[p].kind = "tx" THEN "switch" ELSE "done")
      /\ work[p].step = "doc" /\ i \in Id /\ g \in DOMAIN gen
  BY DEF WriteDocument, Does, Before, Settles, WorksIn
<1>2. /\ gen' \in [DOMAIN gen' -> Version] /\ DOMAIN gen' = DOMAIN gen
      /\ logs' \in [Call -> Log]
  <2>1. gen[g] \in Version
    BY <1>1 DEF Before, Shapes
  <2>2. [gen[g] EXCEPT !.doc = @ \cup {i}] \in Version
    BY <1>1, <2>1 DEF Version
  <2>3. QED
    BY <1>1, <2>2 DEF Before, Shapes, ReplaceDocument
<1>3. /\ work' \in [Process -> Task] /\ \A q \in Process : q # p => work'[q] = work[q]
      /\ work'[p].step = (IF call[p].kind = "tx" THEN "switch" ELSE "done")
      /\ work'[p].dir = work[p].dir
  BY <1>1, WorkThen DEF Before
<1>4. Settles(p)'
  BY <1>1, <1>2, <1>3 DEF Before, Settles, Waits, WorksIn, At, lockVars
<1>5. QED
  BY <1>1, <1>2, <1>3, <1>4, ContentsChange DEF Before, Shapes

LEMMA ReadLogInv ==
  ASSUME NEW p \in Process, Before(p), ReadLog(p) PROVE StoreInv'
<1> DEFINE content == logs[gen[work[p].dir].log]
<1>1. /\ UNCHANGED <<lockVars, storeVars, call, issued>> /\ call[p].kind # "tx"
      /\ work[p].step = "log" /\ call[p].id \in Id /\ work[p].dir \in DOMAIN gen
  BY DEF ReadLog, Does, Before, Settles, WorksIn, storeVars
<1>2. content \in Log
  BY <1>1 DEF Before, Shapes, Version
<1>3. /\ work' \in [Process -> Task] /\ \A q \in Process : q # p => work'[q] = work[q]
      /\ work'[p].step \in {"doc", "failed"} /\ work'[p].dir = work[p].dir
  <2>1. CASE Then(p, "failed")
    BY <2>1, WorkThen DEF Before
  <2>2. CASE work' = [work EXCEPT ![p].step = "doc", ![p].log = content]
    BY <1>2, <2>2 DEF Before, Shapes, Task
  <2>3. QED
    BY <2>1, <2>2 DEF ReadLog
<1>4. Settles(p)'
  BY <1>1, <1>3 DEF Before, Settles, Waits, WorksIn, At, lockVars, storeVars
<1>5. QED
  BY <1>1, <1>3, <1>4, ContentsChange DEF Before, Shapes, storeVars

LEMMA ReadDocumentInv ==
  ASSUME NEW p \in Process, Before(p), ReadDocument(p) PROVE StoreInv'
<1> DEFINE seen == [log |-> work[p].log, doc |-> gen[work[p].dir].doc]
<1>1. /\ call' = [call EXCEPT ![p].view = seen] /\ Then(p, "done")
      /\ UNCHANGED <<lockVars, storeVars, issued>>
      /\ work[p].step = "doc" /\ work[p].dir \in DOMAIN gen /\ call[p].id \in Id
  BY DEF ReadDocument, Does, Before, Settles, WorksIn
<1>2. seen \in View
  BY <1>1 DEF Before, Shapes, Version, Task, View
<1>3. /\ call' \in [Process -> Requested] /\ \A q \in Process : q # p => call'[q] = call[q]
      /\ call'[p].id = call[p].id /\ call'[p].kind = call[p].kind
  BY <1>1, <1>2 DEF Before, Shapes, Requested
<1>4. /\ work' \in [Process -> Task] /\ \A q \in Process : q # p => work'[q] = work[q]
      /\ work'[p].step = "done" /\ work'[p].dir = work[p].dir
  BY <1>1, WorkThen DEF Before
<1>5. Settles(p)'
  BY <1>1, <1>3, <1>4 DEF Before, Settles, Waits, WorksIn, At, lockVars, storeVars
<1>6. QED
  BY <1>1, <1>3, <1>4, <1>5, ContentsChange DEF Before, Shapes, storeVars

LEMMA SwitchInv ==
  ASSUME NEW p \in Process, Before(p), Switch(p) PROVE StoreInv'
<1>1. PICK s \in {"prune", "undo"} : work' = [work EXCEPT ![p].step = s, ![p].dir = Unnamed]
  BY DEF Switch
<1>2. /\ ptr' = call[p].id /\ UNCHANGED <<lockVars, gen, logs, call, issued>>
      /\ call[p].id \in DOMAIN gen /\ call[p].id \in Id /\ call[p].id \in Call /\ call[p].kind = "tx"
  BY KindsAre DEF Switch, Does, Before, Settles, WorksIn
<1>3. /\ work' \in [Process -> Task] /\ \A q \in Process : q # p => work'[q] = work[q]
      /\ work'[p].step = s /\ work'[p].dir = Unnamed
  BY <1>1, WorkIn DEF Before
<1>4. Shapes' /\ Alone(p) /\ PointerNamesGeneration'
  BY <1>2, <1>3 DEF Before, Shapes, Alone, lockVars, PointerNamesGeneration
<1>5. Settles(p)'
  BY <1>2, <1>3 DEF Before, Settles, Waits, WorksIn, At, lockVars
<1>6. QED
  BY <1>4, <1>5, HolderMoves DEF Before

LEMMA KeepShape ==
  ASSUME Shapes, NEW gs \in SUBSET DOMAIN gen, Keep(gs)
  PROVE  /\ gen' \in [DOMAIN gen' -> Version] /\ DOMAIN gen' = gs /\ gs \subseteq Call
         /\ logs' \in [Call -> Log]
  BY LogsAre DEF Shapes, Keep, Restrict

LEMMA PruneInv ==
  ASSUME NEW p \in Process, Before(p), Prune(p) PROVE StoreInv'
<1>1. PICK gs \in SUBSET DOMAIN gen : call[p].id \in gs /\ Keep(gs)
  BY DEF Prune
<1>2. /\ Then(p, "done") /\ UNCHANGED <<lockVars, ptr, call, issued>>
      /\ work[p].step = "prune" /\ work[p].dir = Unnamed /\ ptr = call[p].id /\ call[p].id \in Id
  BY DEF Prune, Does, Before, Settles, WorksIn
<1>3. /\ gen' \in [DOMAIN gen' -> Version] /\ DOMAIN gen' = gs /\ gs \subseteq Call
      /\ logs' \in [Call -> Log]
  BY <1>1, KeepShape DEF Before
<1>4. /\ work' \in [Process -> Task] /\ \A q \in Process : q # p => work'[q] = work[q]
      /\ work'[p].step = "done" /\ work'[p].dir = Unnamed
  BY <1>2, WorkThen DEF Before
<1>5. Shapes' /\ Alone(p) /\ PointerNamesGeneration'
  BY <1>1, <1>2, <1>3, <1>4 DEF Before, Shapes, Alone, lockVars, PointerNamesGeneration
<1>6. Settles(p)'
  BY <1>2, <1>4 DEF Before, Settles, Waits, WorksIn, At, lockVars
<1>7. QED
  BY <1>5, <1>6, HolderMoves DEF Before

LEMMA UndoInv ==
  ASSUME NEW p \in Process, Before(p), Undo(p) PROVE StoreInv'
<1> DEFINE gs == DOMAIN gen \ ({call[p].id} \ {ptr})
<1>1. /\ Keep(gs) /\ Then(p, "failed") /\ UNCHANGED <<lockVars, ptr, call, issued>>
      /\ work[p].step = "undo" /\ work[p].dir = Unnamed /\ call[p].id \in Id
  BY DEF Undo, Does, Before, Settles, WorksIn
<1>2. /\ gen' \in [DOMAIN gen' -> Version] /\ DOMAIN gen' = gs /\ gs \subseteq Call
      /\ logs' \in [Call -> Log]
  BY <1>1, KeepShape DEF Before
<1>3. /\ work' \in [Process -> Task] /\ \A q \in Process : q # p => work'[q] = work[q]
      /\ work'[p].step = "failed" /\ work'[p].dir = Unnamed
  BY <1>1, WorkThen DEF Before
<1>4. Shapes' /\ Alone(p) /\ PointerNamesGeneration'
  BY <1>1, <1>2, <1>3 DEF Before, Shapes, Alone, lockVars, PointerNamesGeneration
<1>5. Settles(p)'
  BY <1>1, <1>3 DEF Before, Settles, Waits, WorksIn, At, lockVars
<1>6. QED
  BY <1>4, <1>5, HolderMoves DEF Before

LEMMA ThrowInv ==
  ASSUME NEW p \in Process, Before(p), Throw(p) PROVE StoreInv'
<1>1. /\ work' = [work EXCEPT ![p].step = "undo", ![p].dir = Unnamed]
      /\ UNCHANGED <<lockVars, storeVars, call, issued>>
      /\ call[p].kind = "tx" /\ call[p].id \in Id
  BY DEF Throw, Before, Settles, WorksIn
<1>2. /\ work' \in [Process -> Task] /\ \A q \in Process : q # p => work'[q] = work[q]
      /\ work'[p].step = "undo" /\ work'[p].dir = Unnamed
  BY <1>1, WorkIn DEF Before
<1>3. Settles(p)'
  BY <1>1, <1>2 DEF Before, Settles, Waits, WorksIn, At, lockVars
<1>4. QED
  BY <1>1, <1>2, <1>3, ContentsChange DEF Before, Shapes, storeVars

LEMMA FailSingleInv ==
  ASSUME NEW p \in Process, Before(p), FailSingle(p) PROVE StoreInv'
<1>1. /\ Then(p, "failed") /\ UNCHANGED <<lockVars, ptr, call, issued>>
      /\ call[p].id \in Id
  BY DEF FailSingle, Before, Settles, WorksIn
<1>2. /\ gen' \in [DOMAIN gen' -> Version] /\ DOMAIN gen' = DOMAIN gen
      /\ logs' \in [Call -> Log]
  <2>1. CASE UNCHANGED <<gen, logs>>
    BY <2>1 DEF Before, Shapes
  <2>2. CASE work[p].step = "log" /\ AppendPart(work[p].dir, call[p].id)
    <3>1. work[p].dir \in DOMAIN gen /\ Shapes
      BY <2>2 DEF Before, Settles, WorksIn
    <3>2. QED
      BY <1>1, <2>2, <3>1, PartShape
  <2>3. QED
    BY <2>1, <2>2 DEF FailSingle
<1>3. /\ work' \in [Process -> Task] /\ \A q \in Process : q # p => work'[q] = work[q]
      /\ work'[p].step = "failed" /\ work'[p].dir = work[p].dir
  BY <1>1, WorkThen DEF Before
<1>4. Settles(p)'
  BY <1>1, <1>2, <1>3 DEF Before, Settles, Waits, WorksIn, At, lockVars
<1>5. QED
  BY <1>1, <1>2, <1>3, <1>4, ContentsChange DEF Before, Shapes

-----------------------------------------------------------------------------
(* Theorems *)

\* The store uses the lock as FileLock describes it.
LEMMA StoreUsesLock == [Next]_vars => [LockNext]_lockVars
<1>1. ASSUME NEW p \in Process, Working(p), ~Reply(p) PROVE UNCHANGED lockVars
  BY <1>1 DEF Working, Stage, Resolve, Link, WriteLog, WriteDocument, ReadLog, ReadDocument,
     Switch, Prune, Undo
<1>2. ASSUME NEW p \in Process, Throw(p) \/ FailSingle(p) PROVE UNCHANGED lockVars
  BY <1>2 DEF Throw, FailSingle
<1>3. QED
  BY <1>1, <1>2 DEF Next, vars, LockNext, Request, TimeOut, StoreCrash, Locking, Reply

LEMMA StoreStepInv ==
  ASSUME LockInv, StoreInv, LockInv', [Next]_vars
  PROVE  StoreInv'
<1>1. LockTypeOK'
  BY DEF LockInv
<1>2. CASE UNCHANGED vars
  BY <1>2 DEF vars, storeVars, lockVars, StoreInv, StoreTypeOK, LockTypeOK, Shapes,
     PointerNamesGeneration, Waits, WorksIn, At
<1>3. ASSUME ~stale, NEW p \in Process,
             Request(p) \/ TimeOut(p) \/ StoreCrash(p) \/ Locking(p)
      PROVE  StoreInv'
  BY <1>1, <1>3, RequestInv, TimeOutInv, StoreCrashInv, LockingInv
<1>4. ASSUME ~stale, NEW p \in Process, Throw(p) \/ FailSingle(p) \/ Working(p)
      PROVE  StoreInv'
  <2>1. At(p, "held")
    BY <1>4 DEF Throw, FailSingle, Working, Stage, Resolve, Link, WriteLog, WriteDocument,
       ReadLog, ReadDocument, Switch, Prune, Undo, Does, Reply, Unlock
  <2>2. Before(p)
    BY <1>1, <1>4, <2>1 DEF Before, StoreInv, StoreTypeOK, Settles
  <2>3. QED
    BY <1>4, <2>2, ThrowInv, FailSingleInv, StageInv, ResolveInv, LinkInv, WriteLogInv,
       WriteDocumentInv, ReadLogInv, ReadDocumentInv, SwitchInv, PruneInv, UndoInv, ReplyInv
       DEF Working
<1>5. QED
  BY <1>2, <1>3, <1>4 DEF Next

LEMMA BothInv == Spec => [](LockInv /\ StoreInv)
<1>1. Init => LockInv /\ StoreInv
  BY InitStoreInv, Init_LockInv DEF Init
<1>2. LockInv /\ StoreInv /\ [Next]_vars => LockInv' /\ StoreInv'
  BY StoreUsesLock, LockStepInv, StoreStepInv
<1>3. QED
  BY <1>1, <1>2, PTL DEF Spec

\* The variables of the store have their shapes, and the directory that a call
\* works in is there, whoever fails or dies.
THEOREM StoreTyped == Spec => []StoreTypeOK
<1>1. StoreInv => StoreTypeOK
  BY DEF StoreInv
<1>2. QED
  BY <1>1, BothInv, PTL

\* The store's calls hold the lock one at a time, until a marker is removed
\* that its remover had not checked.
THEOREM StoreExcludes == Spec => []HoldersExclude
<1>1. QED
  BY BothInv, LockInvExcludes, PTL

\* Neither a failed switch, nor a sweep, nor a death leaves the pointer naming
\* a generation that is gone.
THEOREM PointerNeverDangles == Spec => []PointerNamesGeneration
<1>1. StoreInv => PointerNamesGeneration
  BY DEF StoreInv
<1>2. QED
  BY <1>1, BothInv, PTL

-----------------------------------------------------------------------------
(* The store as a register *)

\* A call is open from its request to its answer, which frees the lock.
Busy(p) == ~At(p, "idle") /\ ~(Releases(p) /\ at[p].next = "idle")

Contents(g) == [log |-> logs[gen[g].log], doc |-> gen[g].doc]

\* What v becomes when call i writes the files fs.
Plus(v, fs, i) ==
  [log |-> IF "log" \in fs THEN Extended(v.log, i) ELSE v.log,
   doc |-> IF "doc" \in fs THEN v.doc \cup {i} ELSE v.doc]

\* Only calls that were begun are in the store.
Issued ==
  /\ ptr <= issued
  /\ \A g \in DOMAIN gen : gen[g].log <= issued /\ gen[g].doc \subseteq 1..issued
  /\ \A i \in Call : logs[i].lines \subseteq 1..issued
  /\ \A p \in Process : call[p].id <= issued
  /\ \A p, q \in Process : p # q /\ call[p].id = call[q].id => call[p].id = 0

\* Before the pointer is first named there is no first generation, and the log
\* of a generation without one is empty.
FirstEmpty == logs[0] = NoLines /\ (ptr = Unnamed => Main \notin DOMAIN gen)

\* A transaction that has not linked the current generation left no trace.
Fresh(p) ==
  call[p].kind = "tx" /\ work[p].step \in {"stage", "resolve", "link"} =>
    ptr # call[p].id /\ \A g \in DOMAIN gen : gen[g].log # call[p].id

\* The files of its copy that a transaction has written.
Written(p) ==
  IF work[p].step = "log" THEN {} ELSE IF work[p].step = "doc" THEN {"log"} ELSE {"log", "doc"}

\* A transaction works on a copy of the current value that no one else sees,
\* written as far as its step says.
Private(p) ==
  call[p].kind = "tx" /\ work[p].step \in {"log", "doc", "switch"} =>
    /\ work[p].dir = call[p].id /\ ptr # call[p].id
    /\ \A g \in DOMAIN gen \ {call[p].id} : gen[g].log # call[p].id
    /\ Contents(call[p].id) = Plus(Value, Written(p), call[p].id)

\* A transaction that links and a call of one file use the current generation.
Current(p) ==
  /\ work[p].step = "link" \/ (call[p].kind # "tx" /\ work[p].step \in {"log", "doc"})
       => work[p].dir = ptr
  /\ call[p].kind = "append" => work[p].step # "doc"
  /\ call[p].kind = "put" => work[p].step # "log"
  /\ call[p].kind = "read" /\ work[p].step = "doc" =>
       work[p].log = Value.log /\ Value.log.end # "torn"

\* A call that is about to be answered with success has taken effect.
Effective(p) ==
  work[p].step \in {"prune", "done"} =>
    IF call[p].kind = "read" THEN call[p].view # Nothing
    ELSE /\ "log" \in Write[call[p].kind] =>
              call[p].id \in Value.log.lines /\ Value.log.end # "open"
         /\ "doc" \in Write[call[p].kind] => call[p].id \in Value.doc

Sound(p) ==
  /\ Busy(p) <=> Register!Open(p)
  /\ Fresh(p) /\ Private(p) /\ Current(p) /\ Effective(p)

RegInv == Issued /\ FirstEmpty /\ \A p \in Process : Sound(p)

-----------------------------------------------------------------------------
LEMMA ValueIs ==
  /\ Value = [log |-> Value.log, doc |-> Value.doc]
  /\ ptr # Unnamed => Value = Contents(ptr)
  BY DEF Value, Contents

LEMMA SameValue ==
  ASSUME UNCHANGED ptr,
         ptr # Unnamed => logs'[gen'[ptr].log] = logs[gen[ptr].log] /\ gen'[ptr].doc = gen[ptr].doc
  PROVE  Value' = Value
  BY DEF Value

LEMMA InitReg == Init => RegInv /\ Register!Init
<1> SUFFICES ASSUME Init PROVE RegInv /\ Register!Init
  OBVIOUS
<1>1. /\ ptr = Unnamed /\ DOMAIN gen = {} /\ logs = [i \in Call |-> NoLines] /\ issued = 0
      /\ call = [p \in Process |-> NoCall] /\ work = [p \in Process |-> NoWork]
      /\ \A p \in Process : At(p, "idle")
  BY DEF Init, LockInit, At, Idle
<1>2. Issued /\ FirstEmpty
  BY <1>1, KindsAre DEF Issued, FirstEmpty, Unnamed, NoCall, NoLines
<1>3. ASSUME NEW p \in Process PROVE Sound(p)
  BY <1>1 DEF Sound, Busy, Register!Open, Fresh, Private, Current, Effective, NoCall, NoWork
<1>4. Register!Init
  BY <1>1 DEF Register!Init, Register!NoRequest, Register!NoLines, NoLines, NoCall, Value
<1>5. QED
  BY <1>2, <1>3, <1>4 DEF RegInv

\* A step that leaves the store alone disturbs no other call.
LEMMA OutsideSound ==
  ASSUME NEW p \in Process, RegInv, UNCHANGED storeVars, Alone(p), Issued', Sound(p)'
  PROVE  RegInv' /\ Value' = Value
<1>1. Value' = Value /\ FirstEmpty'
  BY DEF Value, RegInv, FirstEmpty, storeVars
<1>2. ASSUME NEW q \in Process, q # p PROVE Sound(q)'
  <2>1. /\ at'[q] = at[q] /\ call'[q] = call[q] /\ work'[q] = work[q] /\ Sound(q)
        /\ ptr' = ptr /\ gen' = gen /\ logs' = logs
    BY <1>2 DEF Alone, RegInv, storeVars
  <2>2. Busy(q)' <=> Register!Open(q)'
    BY <2>1 DEF Sound, Busy, Register!Open, Releases, At
  <2>3. Fresh(q)' /\ Private(q)'
    BY <1>1, <2>1 DEF Sound, Fresh, Private, Contents, Plus, Written
  <2>4. Current(q)' /\ Effective(q)'
    BY <1>1, <2>1 DEF Sound, Current, Effective
  <2>5. QED
    BY <2>2, <2>3, <2>4 DEF Sound
<1>3. QED
  BY <1>1, <1>2 DEF RegInv

\* A holder disturbs nobody: the others have not linked, and left no trace.
LEMMA HolderSound ==
  ASSUME NEW p \in Process, Before(p), RegInv, UNCHANGED <<lockVars, issued>>, Alone(p),
         call[p].id \in Id, call'[p].id = call[p].id, call'[p].kind = call[p].kind,
         call'[p].answer = call[p].answer, ptr' \in {ptr, Main, call[p].id},
         \A g \in DOMAIN gen' :
           /\ \/ gen'[g].log \in {0, call[p].id}
              \/ \E h \in DOMAIN gen : gen'[g].log = gen[h].log
           /\ gen'[g].doc \subseteq 1..issued,
         \A i \in Call : logs'[i].lines \subseteq 1..issued,
         FirstEmpty', Fresh(p)', Private(p)', Current(p)', Effective(p)'
  PROVE  RegInv'
<1>1. /\ issued \in Nat /\ call[p].id <= issued /\ Issued /\ 0 <= issued
  BY StoreConstantsOK DEF RegInv, Issued, Before, Shapes
<1>2. Issued'
  <2>1. ptr' <= issued'
    BY <1>1 DEF Issued, Main
  <2>2. \A g \in DOMAIN gen' : gen'[g].log <= issued'
    BY <1>1 DEF Issued
  <2>3. \A q \in Process : call'[q].id = call[q].id
    BY DEF Alone
  <2>4. QED
    BY <1>1, <2>1, <2>2, <2>3 DEF Issued
<1>3. Sound(p)'
  <2>1. (Busy(p)' <=> Busy(p)) /\ (Register!Open(p)' <=> Register!Open(p))
    BY DEF Busy, Releases, At, Register!Open, lockVars
  <2>2. QED
    BY <2>1 DEF Sound, RegInv
<1>4. ASSUME NEW q \in Process, q # p PROVE Sound(q)'
  <2>1. ~At(q, "held") /\ Waits(q) /\ WorksIn(q) /\ Sound(q)
    BY <1>4, Held DEF Before, OneHolder, StoreInv, RegInv
  <2>2. /\ at'[q] = at[q] /\ call'[q] = call[q] /\ work'[q] = work[q]
        /\ work[q].step \in {"none", "stage", "resolve"}
        /\ (work[q].step = "resolve" => call[q].kind # "tx")
    BY <1>4, <2>1 DEF Alone, Waits
  <2>3. Busy(q)' <=> Register!Open(q)'
    BY <2>1, <2>2 DEF Sound, Busy, Register!Open, Releases, At
  <2>4. Fresh(q)'
    <3>1. SUFFICES ASSUME call[q].kind = "tx", work[q].step = "stage" PROVE Fresh(q)'
      BY <2>2 DEF Fresh
    <3>2. call[q].id \in Id /\ call[q].id # call[p].id /\ call[q].id # 0
      BY <1>1, <1>4, <2>1, <3>1 DEF WorksIn, Issued, Id
    <3>3. ptr # call[q].id /\ \A g \in DOMAIN gen : gen[g].log # call[q].id
      BY <2>1, <3>1 DEF Sound, Fresh
    <3>4. QED
      BY <2>2, <3>2, <3>3 DEF Fresh, Main
  <2>5. QED
    BY <2>2, <2>3, <2>4 DEF Sound, Private, Current, Effective
<1>5. QED
  BY <1>2, <1>3, <1>4 DEF RegInv

-----------------------------------------------------------------------------
(* The steps outside the lock, and the answer *)

RegStep == [Register!Next]_<<Value, call>>

LEMMA RequestReg ==
  ASSUME LockInv, StoreInv, RegInv, NEW p \in Process, Request(p)
  PROVE  RegInv' /\ RegStep
<1> DEFINE i == issued + 1
<1>1. PICK k \in Kinds :
        /\ call' = [call EXCEPT ![p] = [NoCall EXCEPT !.kind = k, !.id = i]]
        /\ work' = [work EXCEPT ![p] =
                      [NoWork EXCEPT !.step = IF k = "tx" THEN "stage" ELSE "resolve"]]
  BY DEF Request
<1>2. /\ UNCHANGED storeVars /\ issued' = i /\ i \in Id /\ issued \in Nat
      /\ Shapes /\ LockTypeOK /\ Goto(p, "look") /\ At(p, "idle")
  BY StoreConstantsOK DEF Request, StoreInv, StoreTypeOK, Shapes, Id, Enter
<1>3. /\ call'[p] = [NoCall EXCEPT !.kind = k, !.id = i]
      /\ \A q \in Process : q # p => call'[q] = call[q] /\ work'[q] = work[q]
      /\ work'[p] = [NoWork EXCEPT !.step = IF k = "tx" THEN "stage" ELSE "resolve"]
  BY <1>1, <1>2 DEF Shapes
<1>4. /\ call'[p].kind = k /\ call'[p].id = i /\ call'[p].answer = "none" /\ k # "none"
      /\ work'[p].step \in {"stage", "resolve"}
  <2>1. k # "none"
    BY KindsAre
  <2>2. call'[p].kind = k /\ call'[p].id = i /\ call'[p].answer = "none"
    BY <1>3 DEF NoCall
  <2>3. work'[p].step \in {"stage", "resolve"}
    BY <1>3 DEF NoWork
  <2>4. QED
    BY <2>1, <2>2, <2>3
<1>5. Alone(p) /\ at'[p].pc = "look"
  BY <1>2, <1>3, GotoPlace DEF Alone, Elsewhere
<1>6. Issued
  BY DEF RegInv
<1>7. Issued'
  <2>1. /\ \A q \in Process : q # p => call'[q].id = call[q].id
        /\ \A q \in Process : call[q].id \in Call
    BY <1>2, <1>3 DEF Shapes, Requested
  <2>2. \A q \in Process : call[q].id \in Int
    BY <2>1 DEF Call, Main, Id
  <2>3. /\ \A q \in Process : call'[q].id <= issued'
        /\ \A q, r \in Process : q # r /\ call'[q].id = call'[r].id => call'[q].id = 0
    BY <1>2, <1>4, <1>6, <2>1, <2>2 DEF Issued
  <2>4. /\ ptr' <= issued' /\ \A g \in DOMAIN gen' : gen'[g].log <= issued'
    <3>1. ptr \in Int /\ \A g \in DOMAIN gen : gen[g].log \in Int
      BY <1>2 DEF Shapes, Version, Call, Main, Id, Unnamed
    <3>2. QED
      BY <1>2, <1>6, <3>1 DEF Issued, storeVars
  <2>5. /\ \A g \in DOMAIN gen' : gen'[g].doc \subseteq 1..issued'
        /\ \A j \in Call : logs'[j].lines \subseteq 1..issued'
    <3>1. 1..issued \subseteq 1..issued'
      BY <1>2
    <3>2. QED
      BY <1>2, <1>6, <3>1 DEF Issued, storeVars
  <2>6. QED
    BY <2>3, <2>4, <2>5 DEF Issued
<1>8. Sound(p)'
  <2>1. Busy(p)' /\ Register!Open(p)'
    BY <1>4, <1>5 DEF Busy, Releases, At, Register!Open
  <2>2. Fresh(p)'
    <3>1. /\ ptr # i /\ \A g \in DOMAIN gen : gen[g].log # i
      <4>1. ptr \in Int /\ \A g \in DOMAIN gen : gen[g].log \in Int
        BY <1>2 DEF Shapes, Version, Call, Main, Id, Unnamed
      <4>2. QED
        BY <1>2, <1>6, <4>1 DEF Issued
    <3>2. QED
      BY <1>2, <1>4, <3>1 DEF Fresh, storeVars
  <2>3. Private(p)' /\ Current(p)' /\ Effective(p)'
    BY <1>4 DEF Private, Current, Effective
  <2>4. QED
    BY <2>1, <2>2, <2>3 DEF Sound
<1>9. RegInv' /\ Value' = Value
  BY <1>2, <1>5, <1>7, <1>8, OutsideSound
<1>10. Register!Begin(p)
  <2>1. ~Register!Open(p)
    BY <1>2 DEF RegInv, Sound, Busy
  <2>2. /\ i \notin Value.log.lines /\ i \notin Value.doc
    <3>1. Value.log.lines \subseteq 1..issued /\ Value.doc \subseteq 1..issued
      <4>1. ptr # Unnamed => ptr \in DOMAIN gen /\ gen[ptr].log \in Call
        BY <1>2 DEF StoreInv, PointerNamesGeneration, Shapes, Version
      <4>2. QED
        BY <1>6, <4>1 DEF Value, Issued, NoLines
    <3>2. i \notin 1..issued
      BY <1>2
    <3>3. QED
      BY <3>1, <3>2
  <2>3. \A q \in Process : call[q].id # i
    <3>1. \A q \in Process : call[q].id \in Int
      BY <1>2 DEF Shapes, Requested, Call, Main, Id
    <3>2. QED
      BY <1>2, <1>6, <3>1 DEF Issued
  <2>4. call' = [call EXCEPT ![p] = [Register!NoRequest EXCEPT !.kind = k, !.id = i]]
    BY <1>1 DEF Register!NoRequest, NoCall
  <2>5. k \in Register!Kinds
    BY DEF Register!Kinds, Kinds
  <2>6. QED
    BY <1>2, <1>9, <2>1, <2>2, <2>3, <2>4, <2>5 DEF Register!Begin
<1>11. QED
  BY <1>9, <1>10 DEF RegStep, Register!Next

LEMMA AnswerReg ==
  ASSUME LockInv, StoreInv, RegInv, NEW p \in Process, NEW a \in {"ok", "failed"},
         Answer(p, a), Elsewhere(p), ~Busy(p)', Busy(p)
  PROVE  /\ RegInv' /\ Value' = Value /\ Register!Open(p)
         /\ call' = [call EXCEPT ![p].answer = a]
<1>1. Shapes /\ Issued /\ Sound(p)
  BY DEF StoreInv, StoreTypeOK, RegInv
<1>2. /\ UNCHANGED storeVars /\ issued' = issued /\ work'[p].step = "none"
      /\ call' = [call EXCEPT ![p].answer = a]
      /\ \A q \in Process : q # p => call'[q] = call[q] /\ work'[q] = work[q]
  BY <1>1, AnswerShapes DEF Answer
<1>3. Alone(p)
  BY <1>2 DEF Alone, Elsewhere
<1>4. call'[p].answer = a /\ \A q \in Process : call'[q].id = call[q].id
  BY <1>1, <1>2 DEF Shapes, Requested
<1>5. Issued'
  BY <1>1, <1>2, <1>4 DEF Issued, storeVars
<1>6. Sound(p)'
  BY <1>2, <1>4 DEF Sound, Register!Open, Fresh, Private, Current, Effective
<1>7. QED
  BY <1>1, <1>2, <1>3, <1>5, <1>6, OutsideSound DEF Sound

LEMMA TimeOutReg ==
  ASSUME LockInv, StoreInv, RegInv, NEW p \in Process, TimeOut(p)
  PROVE  RegInv' /\ RegStep
<1>1. /\ LockTypeOK /\ At(p, "look") /\ Goto(p, "idle") /\ Answer(p, "failed")
  BY DEF TimeOut, GiveUp, LockInv
<1>2. Elsewhere(p) /\ ~Busy(p)' /\ Busy(p)
  BY <1>1, GotoPlace DEF Busy, At, Releases
<1>3. RegInv' /\ Register!Fail(p)
  BY <1>1, <1>2, AnswerReg DEF Register!Fail
<1>4. QED
  BY <1>3 DEF RegStep, Register!Next

LEMMA ReplyReg ==
  ASSUME LockInv, StoreInv, RegInv, NEW p \in Process, Reply(p)
  PROVE  RegInv' /\ RegStep
<1>1. /\ LockTypeOK /\ At(p, "held") /\ ReleaseFile(p, "lock", Me(p), "idle")
  BY DEF Reply, Unlock, LockInv
<1>2. Elsewhere(p) /\ ~Busy(p)' /\ Busy(p)
  BY <1>1, MeOwner, ReleasePlace DEF Busy, At, Releases
<1>3. CASE work[p].step = "failed" /\ Answer(p, "failed")
  <2>1. RegInv' /\ Register!Fail(p)
    BY <1>2, <1>3, AnswerReg DEF Register!Fail
  <2>2. QED
    BY <2>1 DEF RegStep, Register!Next
<1>4. CASE work[p].step = "done" /\ Answer(p, "ok")
  <2>1. RegInv' /\ Value' = Value /\ Register!Open(p) /\ call' = [call EXCEPT ![p].answer = "ok"]
    BY <1>2, <1>4, AnswerReg
  <2>2. Effective(p)
    BY DEF RegInv, Sound
  <2>3. Register!Succeed(p)
    BY <1>4, <2>1, <2>2 DEF Effective, Register!Succeed
  <2>4. QED
    BY <2>1, <2>3 DEF RegStep, Register!Next
<1>5. QED
  BY <1>3, <1>4 DEF Reply

LEMMA StoreCrashReg ==
  ASSUME LockInv, StoreInv, RegInv, NEW p \in Process, StoreCrash(p)
  PROVE  RegInv' /\ RegStep
<1>1. /\ Shapes /\ LockTypeOK /\ at' = [at EXCEPT ![p] = Idle] /\ UNCHANGED <<storeVars, issued>>
      /\ call' = [call EXCEPT ![p] = NoCall] /\ work' = [work EXCEPT ![p] = NoWork] /\ Issued
  BY DEF StoreInv, StoreTypeOK, StoreCrash, Crash, Die, RegInv
<1>2. /\ call'[p] = NoCall /\ work'[p].step = "none" /\ at'[p].pc = "idle"
      /\ \A q \in Process : q # p => call'[q] = call[q] /\ work'[q] = work[q] /\ at'[q] = at[q]
  BY <1>1 DEF Shapes, LockTypeOK, Idle, NoWork
<1>3. Issued'
  <2>1. call'[p].id = 0 /\ 0 <= issued /\ \A q \in Process : q # p => call'[q].id = call[q].id
    BY <1>1, <1>2 DEF NoCall, Shapes
  <2>2. QED
    BY <1>1, <2>1 DEF Issued, storeVars
<1>4. Sound(p)'
  BY <1>2 DEF Sound, Busy, At, Register!Open, NoCall, Fresh, Private, Current, Effective
<1>5. RegInv' /\ Value' = Value
  BY <1>1, <1>2, <1>3, <1>4, OutsideSound DEF Alone
<1>6. Register!Die(p)
  BY <1>1, <1>5 DEF Register!Die, Register!NoRequest, NoCall
<1>7. QED
  BY <1>5, <1>6 DEF RegStep, Register!Next

\* A step of the lock neither opens nor ends a call.
LEMMA LockingBusy ==
  ASSUME LockInv, NEW p \in Process, LockStep(p)
  PROVE  Busy(p)' <=> Busy(p)
<1> USE DEF Busy, Releases, At
<1>1. LockTypeOK /\ at[p] \in Place /\ Remembers(p)
  BY DEF LockInv, LockTypeOK
<1>2. CASE CheckOwner(p)
  BY <1>1, <1>2 DEF CheckOwner, Goto, Idle, LockTypeOK, Place, Remembers
<1>3. CASE RemoveFile(p)
  BY <1>1, <1>3 DEF RemoveFile, Goto, Idle, LockTypeOK, Place, Remembers
<1>4. CASE Look(p)
  BY <1>1, <1>4 DEF Look, Goto, ReleaseFile, Idle, LockTypeOK
<1>5. CASE Publish(p) \/ Observe(p) \/ Mark(p)
  BY <1>1, <1>5 DEF Publish, Observe, Mark, Goto, Remember, Idle, LockTypeOK
<1>6. CASE Confirm(p)
  BY <1>1, <1>6 DEF Confirm, Goto, ReleaseFile, Idle, LockTypeOK
<1>7. CASE Verify(p)
  <2>1. CASE Remember(p, "reap", at[p].owner)
    BY <1>1, <1>7, <2>1 DEF Verify, Remember, Idle, LockTypeOK
  <2>2. CASE ReleaseFile(p, "reaping", Me(p), "look")
    BY <1>1, <1>7, <2>2 DEF Verify, ReleaseFile, LockTypeOK
  <2>3. QED
    BY <1>7, <2>1, <2>2 DEF Verify
<1>8. CASE Reap(p)
  BY <1>1, <1>8 DEF Reap, ReleaseFile, LockTypeOK
<1>9. QED
  BY <1>2, <1>3, <1>4, <1>5, <1>6, <1>7, <1>8 DEF LockStep

LEMMA LockingReg ==
  ASSUME LockInv, StoreInv, RegInv, NEW p \in Process, Locking(p)
  PROVE  RegInv' /\ RegStep
<1>1. Elsewhere(p) /\ UNCHANGED <<storeVars, call, work, issued>> /\ (Busy(p)' <=> Busy(p))
  BY LockingMoves, LockingBusy DEF Locking
<1>2. Alone(p) /\ Issued'
  BY <1>1 DEF Alone, Elsewhere, RegInv, Issued, storeVars
<1>3. Sound(p)'
  <2>1. Sound(p) /\ Value' = Value
    BY <1>1 DEF RegInv, Value, storeVars
  <2>2. (Busy(p)' <=> Register!Open(p)') /\ Fresh(p)' /\ Private(p)'
    BY <1>1, <2>1 DEF Sound, Register!Open, Fresh, Private, Contents, Plus, Written, storeVars
  <2>3. Current(p)' /\ Effective(p)'
    BY <1>1, <2>1 DEF Sound, Current, Effective, storeVars
  <2>4. QED
    BY <2>2, <2>3 DEF Sound
<1>4. QED
  BY <1>1, <1>2, <1>3, OutsideSound DEF RegStep

-----------------------------------------------------------------------------
(* The steps under the lock *)

\* What a step of a holder may use.
Starts(p) == Before(p) /\ RegInv

LEMMA Stutters == Value' = Value /\ UNCHANGED call => RegStep
  BY DEF RegStep

LEMMA Applies ==
  ASSUME NEW p \in Process, Starts(p), call[p].kind \in DOMAIN Write, UNCHANGED call,
         Value' = Plus(Value, Write[call[p].kind], call[p].id)
  PROVE  RegStep
<1>1. Register!Open(p)
  BY DEF Starts, Before, RegInv, Sound, Busy, At, Releases
<1>3. Value' = [log |-> IF "log" \in Write[call[p].kind]
                        THEN Register!Extended(Value.log, call[p].id) ELSE Value.log,
                doc |-> IF "doc" \in Write[call[p].kind]
                        THEN Value.doc \cup {call[p].id} ELSE Value.doc]
  BY DEF Plus, Extended, Register!Extended
<1>4. Register!Apply(p)
  BY <1>1, <1>3 DEF Register!Apply
<1>5. QED
  BY <1>4 DEF RegStep, Register!Next

\* What is known of the store when a call holds it.
LEMMA StoreIs ==
  ASSUME NEW p \in Process, Starts(p)
  PROVE  /\ issued \in Nat /\ Sound(p) /\ FirstEmpty
         /\ \A g \in DOMAIN gen : /\ gen[g].log \in Call /\ gen[g].doc \subseteq 1..issued
                                  /\ gen[g] = [log |-> gen[g].log, doc |-> gen[g].doc]
         /\ \A i \in Call : logs[i].lines \subseteq 1..issued
         /\ ptr # Unnamed => ptr \in DOMAIN gen
         /\ work[p].step # "none" =>
              call[p].id \in Id /\ call[p].id \in 1..issued /\ call[p].id \in Call
              /\ call[p].id # 0
<1>1. /\ issued \in Nat /\ Issued /\ Sound(p) /\ FirstEmpty
      /\ ptr # Unnamed => ptr \in DOMAIN gen
  BY StoreConstantsOK DEF Starts, Before, Shapes, RegInv, PointerNamesGeneration
<1>2. \A g \in DOMAIN gen : gen[g] \in Version
  BY DEF Starts, Before, Shapes
<1>3. \A g \in DOMAIN gen : /\ gen[g].log \in Call
                            /\ gen[g] = [log |-> gen[g].log, doc |-> gen[g].doc]
  BY <1>2 DEF Version
<1>4. ASSUME work[p].step # "none"
      PROVE  call[p].id \in Id /\ call[p].id \in 1..issued /\ call[p].id \in Call
             /\ call[p].id # 0
  <2>1. call[p].id \in Id /\ call[p].id <= issued
    BY <1>1, <1>4 DEF Starts, Before, Settles, WorksIn, Issued
  <2>2. QED
    BY <1>1, <2>1 DEF Id, Call
<1>5. QED
  BY <1>1, <1>3, <1>4 DEF Issued

LEMMA WithIs ==
  ASSUME NEW g
  PROVE  /\ DOMAIN With(g) = DOMAIN gen \cup {g}
         /\ \A h \in DOMAIN gen : With(g)[h] = gen[h]
         /\ g \notin DOMAIN gen => With(g)[g].log = 0 /\ With(g)[g].doc = {}
  BY DEF With, Empty

LEMMA StageReg ==
  ASSUME NEW p \in Process, Starts(p), StoreInv', Stage(p) PROVE RegInv' /\ RegStep
<1> DEFINE i == call[p].id
<1>1. /\ gen' = With(i) /\ Then(p, "resolve")
      /\ UNCHANGED <<lockVars, ptr, logs, call, issued>>
      /\ work[p].step = "stage" /\ call[p].kind = "tx" /\ Before(p) /\ Shapes
  BY DEF Stage, Does, Starts, Before, Settles, WorksIn
<1>2. /\ \A q \in Process : q # p => work'[q] = work[q]
      /\ work'[p].step = "resolve"
  BY <1>1, WorkThen
<1>3. /\ Sound(p) /\ FirstEmpty /\ i \in Id /\ i # 0
      /\ ptr # Unnamed => ptr \in DOMAIN gen
      /\ \A g \in DOMAIN gen : gen[g].doc \subseteq 1..issued
      /\ \A j \in Call : logs[j].lines \subseteq 1..issued
  BY <1>1, StoreIs
<1>4. /\ DOMAIN gen' = DOMAIN gen \cup {i} /\ \A h \in DOMAIN gen : gen'[h] = gen[h]
      /\ i \notin DOMAIN gen => gen'[i].log = 0 /\ gen'[i].doc = {}
  BY <1>1, WithIs
<1>5. Value' = Value
  BY <1>1, <1>3, <1>4, SameValue
<1>6. Fresh(p)'
  BY <1>1, <1>3, <1>4 DEF Sound, Fresh
<1>7. Private(p)' /\ Current(p)' /\ Effective(p)'
  BY <1>1, <1>2 DEF Private, Current, Effective
<1>8. FirstEmpty'
  BY <1>1, <1>3, <1>4 DEF FirstEmpty, Main
<1>9. Alone(p)
  BY <1>1, <1>2 DEF Alone, lockVars
<1>10. \A g \in DOMAIN gen' :
         /\ gen'[g].log \in {0, i} \/ \E h \in DOMAIN gen : gen'[g].log = gen[h].log
         /\ gen'[g].doc \subseteq 1..issued
  BY <1>3, <1>4
<1>11. RegInv'
  BY <1>1, <1>3, <1>6, <1>7, <1>8, <1>9, <1>10, HolderSound DEF Starts
<1>12. QED
  BY <1>1, <1>5, <1>11, Stutters

LEMMA ResolveReg ==
  ASSUME NEW p \in Process, Starts(p), StoreInv', Resolve(p) PROVE RegInv' /\ RegStep
<1> DEFINE i == call[p].id
           first == IF call[p].kind = "tx" THEN "link"
                    ELSE IF call[p].kind = "put" THEN "doc" ELSE "log"
<1>1. /\ UNCHANGED <<lockVars, logs, call, issued>> /\ work[p].step = "resolve"
      /\ work' = [work EXCEPT ![p].step = first, ![p].dir = ptr'] /\ Before(p) /\ Shapes
  BY DEF Resolve, Does, Starts, Before
<1>2. /\ \A q \in Process : q # p => work'[q] = work[q]
      /\ work'[p].step = first /\ work'[p].dir = ptr'
  BY <1>1 DEF Shapes, Task
<1>3. /\ Sound(p) /\ FirstEmpty /\ i \in Id /\ i # 0
      /\ ptr # Unnamed => ptr \in DOMAIN gen
      /\ \A g \in DOMAIN gen : gen[g].doc \subseteq 1..issued
      /\ \A j \in Call : logs[j].lines \subseteq 1..issued
  BY <1>1, StoreIs
<1>4. /\ Value' = Value /\ ptr' \in {ptr, Main} /\ ptr' # Unnamed
      /\ \A g \in DOMAIN gen' :
           /\ gen'[g].log = 0 \/ \E h \in DOMAIN gen : gen'[g].log = gen[h].log
           /\ gen'[g].doc \subseteq 1..issued
  <2>1. CASE ptr # Unnamed /\ UNCHANGED <<ptr, gen>>
    BY <1>1, <1>3, <2>1, SameValue
  <2>2. CASE ptr = Unnamed /\ ptr' = Main /\ gen' = With(Main)
    <3>1. /\ DOMAIN gen' = DOMAIN gen \cup {Main} /\ \A h \in DOMAIN gen : gen'[h] = gen[h]
          /\ gen'[Main].log = 0 /\ gen'[Main].doc = {}
      BY <1>3, <2>2, WithIs DEF FirstEmpty
    <3>2. Value' = Value
      BY <1>1, <1>3, <2>2, <3>1 DEF Value, FirstEmpty, Main, Unnamed
    <3>3. QED
      BY <1>3, <2>2, <3>1, <3>2 DEF Main, Unnamed
  <2>3. QED
    BY <2>1, <2>2 DEF Resolve
<1>5. Fresh(p)'
  <2>1. SUFFICES ASSUME call[p].kind = "tx" PROVE Fresh(p)'
    BY <1>1 DEF Fresh
  <2>2. ptr # i /\ \A g \in DOMAIN gen : gen[g].log # i
    BY <1>1, <1>3, <2>1 DEF Sound, Fresh
  <2>3. QED
    BY <1>1, <1>3, <1>4, <2>2 DEF Fresh, Main
<1>6. Private(p)' /\ Current(p)' /\ Effective(p)'
  BY <1>1, <1>2 DEF Private, Current, Effective
<1>7. FirstEmpty'
  BY <1>1, <1>3, <1>4 DEF FirstEmpty
<1>8. Alone(p)
  BY <1>1, <1>2 DEF Alone, lockVars
<1>9. RegInv'
  BY <1>1, <1>3, <1>4, <1>5, <1>6, <1>7, <1>8, HolderSound DEF Starts
<1>10. QED
  BY <1>1, <1>4, <1>9, Stutters

LEMMA LinkReg ==
  ASSUME NEW p \in Process, Starts(p), StoreInv', Link(p) PROVE RegInv' /\ RegStep
<1> DEFINE i == call[p].id
           source == gen[ptr]
<1>1. /\ work' = [work EXCEPT ![p].step = "log", ![p].dir = i] /\ UNCHANGED <<lockVars, ptr, call, issued>>
      /\ work[p].step = "link" /\ call[p].kind = "tx" /\ i \in DOMAIN gen /\ work[p].dir # Unnamed
      /\ Before(p) /\ Shapes
  BY DEF Link, Does, Starts, Before, Settles, WorksIn
<1>2. /\ \A q \in Process : q # p => work'[q] = work[q]
      /\ work'[p].step = "log" /\ work'[p].dir = i
  BY <1>1 DEF Shapes, Task
<1>3. /\ Sound(p) /\ FirstEmpty /\ i \in Id /\ i \in Call /\ i # 0
      /\ ptr # Unnamed => ptr \in DOMAIN gen
      /\ \A g \in DOMAIN gen :
           /\ gen[g].log \in Call /\ gen[g].doc \subseteq 1..issued
           /\ gen[g] = [log |-> gen[g].log, doc |-> gen[g].doc]
      /\ \A j \in Call : logs[j].lines \subseteq 1..issued
  BY <1>1, StoreIs
<1>4. /\ work[p].dir = ptr /\ ptr # Unnamed /\ ptr \in DOMAIN gen /\ ptr # i
      /\ \A g \in DOMAIN gen : gen[g].log # i
  BY <1>1, <1>3 DEF Sound, Fresh, Current
<1>5. /\ DOMAIN gen' = DOMAIN gen /\ \A g \in DOMAIN gen \ {i} : gen'[g] = gen[g]
      /\ gen'[i].log \in {source.log, i} /\ gen'[i].doc = source.doc
      /\ logs'[gen'[i].log] = logs[source.log]
      /\ \A j \in Call : j # i => logs'[j] = logs[j]
      /\ \A j \in Call : logs'[j].lines \subseteq 1..issued
  <2>1. CASE gen' = [gen EXCEPT ![i] = source] /\ UNCHANGED logs
    BY <1>1, <1>3, <2>1
  <2>2. CASE /\ gen' = [gen EXCEPT ![i] = [source EXCEPT !.log = i]]
             /\ logs' = [logs EXCEPT ![i] = logs[source.log]]
    <3>1. gen'[i] = [log |-> i, doc |-> source.doc]
      BY <1>1, <1>3, <1>4, <2>2
    <3>2. logs'[i] = logs[source.log] /\ \A j \in Call : j # i => logs'[j] = logs[j]
      BY <1>3, <2>2, <1>1 DEF Shapes
    <3>3. QED
      BY <1>1, <1>3, <1>4, <2>2, <3>1, <3>2
  <2>3. QED
    BY <1>4, <2>1, <2>2 DEF Link
<1>6. Value' = Value
  BY <1>1, <1>3, <1>4, <1>5, SameValue
<1>7. Private(p)'
  <2>1. Contents(i)' = Value'
    BY <1>1, <1>4, <1>5, <1>6, ValueIs DEF Contents
  <2>2. Value' = Plus(Value', {}, i)
    BY <1>6, ValueIs DEF Plus
  <2>3. Written(p)' = {}
    BY <1>2 DEF Written
  <2>4. Contents(call[p].id)' = Plus(Value, Written(p), call[p].id)'
    BY <1>1, <2>1, <2>2, <2>3
  <2>5. QED
    BY <1>1, <1>2, <1>4, <1>5, <2>4 DEF Private
<1>8. Fresh(p)' /\ Current(p)' /\ Effective(p)'
  BY <1>1, <1>2 DEF Fresh, Current, Effective
<1>9. FirstEmpty'
  BY <1>1, <1>3, <1>4, <1>5, KindsAre DEF FirstEmpty
<1>10. Alone(p)
  BY <1>1, <1>2 DEF Alone, lockVars
<1>11. \A g \in DOMAIN gen' :
         /\ gen'[g].log \in {0, i} \/ \E h \in DOMAIN gen : gen'[g].log = gen[h].log
         /\ gen'[g].doc \subseteq 1..issued
  BY <1>3, <1>4, <1>5
<1>12. RegInv'
  BY <1>1, <1>3, <1>5, <1>7, <1>8, <1>9, <1>10, <1>11, HolderSound DEF Starts
<1>13. QED
  BY <1>1, <1>6, <1>12, Stutters

\* A log with one link is linked by one generation.
LEMMA OneLink ==
  ASSUME Shapes, NEW g \in DOMAIN gen, NEW h \in DOMAIN gen, g # h, Links(gen[g].log) = 1
  PROVE  gen[h].log # gen[g].log
<1> DEFINE S == {x \in DOMAIN gen : gen[x].log = gen[g].log}
<1>1. S \subseteq 0..MaxCalls /\ IsFiniteSet(0..MaxCalls)
  <2>1. IsFiniteSet(0..MaxCalls)
    BY StoreConstantsOK, FS_Interval, 0 \in Int, MaxCalls \in Int
  <2>2. DOMAIN gen \subseteq 0..MaxCalls
    BY StoreConstantsOK DEF Shapes, Call, Main, Id
  <2>3. QED
    BY <2>1, <2>2
<1>2. IsFiniteSet(S)
  BY <1>1, FS_Subset
<1>3. Cardinality(S) = 1
  BY DEF Links
<1>4. PICK x : S = {x}
  BY <1>2, <1>3, FS_Singleton
<1>5. QED
  BY <1>4

\* The log of one generation is set, in place or not, and no other sees it.
LEMMA SetLogIs ==
  ASSUME Shapes, NEW g \in DOMAIN gen, NEW i \in Id, NEW j \in {gen[g].log, i}, NEW log,
         SetLog(g, j, log), j = gen[g].log /\ j # i => j # 0 /\ Links(j) = 1,
         log.lines \subseteq logs[gen[g].log].lines \cup {i},
         \A h \in DOMAIN gen : /\ gen[h].log \in Call
                               /\ gen[h] = [log |-> gen[h].log, doc |-> gen[h].doc]
  PROVE  /\ DOMAIN gen' = DOMAIN gen /\ \A h \in DOMAIN gen \ {g} : gen'[h] = gen[h]
         /\ gen'[g].log \in {gen[g].log, i} /\ gen'[g].doc = gen[g].doc
         /\ logs'[gen'[g].log] = log
         /\ \A h \in DOMAIN gen \ {g} : gen[h].log # i => logs'[gen[h].log] = logs[gen[h].log]
         /\ logs'[0] = logs[0]
         /\ \A k \in Call :
              logs'[k].lines \subseteq logs[k].lines \cup logs[gen[g].log].lines \cup {i}
<1>1. /\ j \in Call /\ i \in Call /\ 0 \in Call /\ i # 0 /\ j # 0
  BY KindsAre DEF Id
<1>2. /\ logs'[j] = log /\ \A k \in Call : k # j => logs'[k] = logs[k]
  BY <1>1 DEF Shapes, SetLog
<1>3. /\ DOMAIN gen' = DOMAIN gen /\ \A h \in DOMAIN gen \ {g} : gen'[h] = gen[h]
      /\ gen'[g].log = j /\ gen'[g].doc = gen[g].doc
  BY DEF SetLog
<1>4. ASSUME NEW h \in DOMAIN gen \ {g}, gen[h].log # i PROVE gen[h].log # j
  BY <1>4, OneLink
<1>5. QED
  BY <1>1, <1>2, <1>3, <1>4

\* A line is added to the log of one generation and seen in no other.
LEMMA AppendIs ==
  ASSUME Shapes, NEW g \in DOMAIN gen, NEW i \in Id, AppendLine(g, i),
         \A h \in DOMAIN gen : /\ gen[h].log \in Call
                               /\ gen[h] = [log |-> gen[h].log, doc |-> gen[h].doc]
  PROVE  /\ DOMAIN gen' = DOMAIN gen /\ \A h \in DOMAIN gen \ {g} : gen'[h] = gen[h]
         /\ gen'[g].log \in {gen[g].log, i} /\ gen'[g].doc = gen[g].doc
         /\ logs'[gen'[g].log] = Extended(logs[gen[g].log], i)
         /\ \A h \in DOMAIN gen \ {g} : gen[h].log # i => logs'[gen[h].log] = logs[gen[h].log]
         /\ logs'[0] = logs[0]
         /\ \A k \in Call :
              logs'[k].lines \subseteq logs[k].lines \cup logs[gen[g].log].lines \cup {i}
<1> DEFINE l == gen[g].log
           j == IF InPlace(g) THEN Target(g, i) ELSE i
<1>1. SetLog(g, j, Extended(logs[l], i))
  BY DEF AppendLine
<1>2. j \in {l, i} /\ (j = l /\ j # i => j # 0 /\ Links(j) = 1)
  BY DEF InPlace, Target, Id
<1>3. Extended(logs[l], i).lines \subseteq logs[l].lines \cup {i}
  BY DEF Extended
<1>4. QED
  BY <1>1, <1>2, <1>3, SetLogIs

\* So is a part of it.
LEMMA PartIs ==
  ASSUME Shapes, NEW g \in DOMAIN gen, NEW i \in Id, AppendPart(g, i),
         \A h \in DOMAIN gen : /\ gen[h].log \in Call
                               /\ gen[h] = [log |-> gen[h].log, doc |-> gen[h].doc]
  PROVE  /\ DOMAIN gen' = DOMAIN gen /\ \A h \in DOMAIN gen \ {g} : gen'[h] = gen[h]
         /\ gen'[g].log \in {gen[g].log, i} /\ gen'[g].doc = gen[g].doc
         /\ logs'[gen'[g].log] \in Stopped(logs[gen[g].log], i)
         /\ logs'[0] = logs[0]
         /\ \A k \in Call :
              logs'[k].lines \subseteq logs[k].lines \cup logs[gen[g].log].lines \cup {i}
<1> DEFINE l == gen[g].log
           j == Target(g, i)
<1>1. PICK log \in Stopped(logs[l], i) : SetLog(g, j, log)
  BY DEF AppendPart
<1>2. j \in {l, i} /\ (j = l /\ j # i => j # 0 /\ Links(j) = 1)
  BY DEF AppendPart, InPlace, Target, Id
<1>3. log.lines \subseteq logs[l].lines \cup {i}
  <2>1. logs[l] \in Log
    BY DEF Shapes
  <2>2. QED
    BY <2>1 DEF Stopped, Extended, Log
<1>4. QED
  BY <1>1, <1>2, <1>3, SetLogIs

LEMMA WriteLogReg ==
  ASSUME NEW p \in Process, Starts(p), StoreInv', WriteLog(p) PROVE RegInv' /\ RegStep
<1> DEFINE i == call[p].id
           g == work[p].dir
           s == IF call[p].kind = "tx" THEN "doc" ELSE "done"
<1>1. /\ AppendLine(g, i) /\ UNCHANGED <<lockVars, ptr, call, issued>> /\ Then(p, s)
      /\ work[p].step = "log" /\ call[p].kind # "read" /\ g \in DOMAIN gen /\ g # Unnamed
      /\ Before(p) /\ Shapes
  BY DEF WriteLog, Does, Starts, Before, Settles, WorksIn
<1>2. /\ \A q \in Process : q # p => work'[q] = work[q]
      /\ work'[p].step = s /\ work'[p].dir = g
  BY <1>1, WorkThen
<1>3. /\ Sound(p) /\ FirstEmpty /\ i \in Id /\ i \in Call /\ i # 0 /\ i \in 1..issued
      /\ ptr # Unnamed => ptr \in DOMAIN gen
      /\ \A h \in DOMAIN gen :
           /\ gen[h].log \in Call /\ gen[h].doc \subseteq 1..issued
           /\ gen[h] = [log |-> gen[h].log, doc |-> gen[h].doc]
      /\ \A j \in Call : logs[j].lines \subseteq 1..issued
  BY <1>1, StoreIs
<1>4. /\ DOMAIN gen' = DOMAIN gen /\ \A h \in DOMAIN gen \ {g} : gen'[h] = gen[h]
      /\ gen'[g].log \in {gen[g].log, i} /\ gen'[g].doc = gen[g].doc
      /\ logs'[gen'[g].log] = Extended(logs[gen[g].log], i)
      /\ \A h \in DOMAIN gen \ {g} : gen[h].log # i => logs'[gen[h].log] = logs[gen[h].log]
      /\ logs'[0] = logs[0]
      /\ \A k \in Call :
           logs'[k].lines \subseteq logs[k].lines \cup logs[gen[g].log].lines \cup {i}
  BY <1>1, <1>3, AppendIs
<1>5. FirstEmpty'
  BY <1>1, <1>3, <1>4 DEF FirstEmpty
<1>6. Alone(p)
  BY <1>1, <1>2 DEF Alone, lockVars
<1>7. /\ \A h \in DOMAIN gen' :
           /\ gen'[h].log \in {0, i} \/ \E k \in DOMAIN gen : gen'[h].log = gen[k].log
           /\ gen'[h].doc \subseteq 1..issued
      /\ \A j \in Call : logs'[j].lines \subseteq 1..issued
  <2>1. \A h \in DOMAIN gen' :
          /\ gen'[h].log \in {0, i} \/ \E k \in DOMAIN gen : gen'[h].log = gen[k].log
          /\ gen'[h].doc \subseteq 1..issued
    BY <1>1, <1>3, <1>4
  <2>2. logs[gen[g].log].lines \subseteq 1..issued
    BY <1>1, <1>3
  <2>3. QED
    BY <1>3, <1>4, <2>1, <2>2
<1>8. ASSUME Private(p)', Effective(p)' PROVE RegInv'
  <2>1. Fresh(p)' /\ Current(p)'
    BY <1>1, <1>2 DEF Fresh, Current
  <2>2. QED
    BY <1>1, <1>3, <1>5, <1>6, <1>7, <1>8, <2>1, HolderSound DEF Starts
<1>9. CASE call[p].kind = "tx"
  <2>1. /\ g = i /\ ptr # i /\ Contents(i) = Plus(Value, {}, i)
        /\ \A h \in DOMAIN gen \ {i} : gen[h].log # i
    BY <1>1, <1>3, <1>9 DEF Sound, Private, Written
  <2>2. Value' = Value
    BY <1>1, <1>3, <1>4, <2>1, SameValue
  <2>3. Contents(i)' = [log |-> Extended(logs[gen[i].log], i), doc |-> gen[i].doc]
    BY <1>1, <1>4, <2>1 DEF Contents
  <2>4. logs[gen[i].log] = Value.log /\ gen[i].doc = Value.doc
    BY <2>1 DEF Contents, Plus
  <2>5. Contents(i)' = Plus(Value', {"log"}, i)
    BY <2>2, <2>3, <2>4 DEF Plus
  <2>6. Written(p)' = {"log"}
    BY <1>2, <1>9 DEF Written
  <2>7. Private(p)' /\ Effective(p)'
    <3>1. Contents(call[p].id)' = Plus(Value, Written(p), call[p].id)'
      BY <1>1, <2>5, <2>6
    <3>2. QED
      BY <1>1, <1>2, <1>4, <1>9, <2>1, <3>1 DEF Private, Effective
  <2>8. QED
    BY <1>1, <1>8, <2>2, <2>7, Stutters
<1>10. CASE call[p].kind # "tx"
  <2>1. /\ g = ptr /\ call[p].kind # "put" /\ Register!Open(p)
    BY <1>1, <1>3, <1>10 DEF Sound, Current, Before, Busy, At, Releases
  <2>2. call[p].kind = "append"
    <3>1. call[p].kind \in Kinds
      BY <1>1, <2>1 DEF Shapes, Requested, Register!Open
    <3>2. QED
      BY <1>1, <1>10, <2>1, <3>1, KindsAre
  <2>3. Value' = Plus(Value, {"log"}, i)
    <3>1. Value = [log |-> logs[gen[g].log], doc |-> gen[g].doc]
      BY <1>1, <2>1, ValueIs DEF Contents
    <3>2. Value' = [log |-> Extended(logs[gen[g].log], i), doc |-> gen[g].doc]
      BY <1>1, <1>4, <2>1 DEF Value
    <3>3. QED
      BY <3>1, <3>2 DEF Plus
  <2>4. Write[call[p].kind] = {"log"} /\ call[p].kind \in DOMAIN Write
    BY <2>2 DEF Write
  <2>5. Private(p)' /\ Effective(p)'
    <3>1. i \in Value'.log.lines /\ Value'.log.end # "open"
      BY <2>3 DEF Plus, Extended
    <3>2. QED
      BY <1>1, <1>2, <1>10, <2>4, <3>1 DEF Private, Effective
  <2>6. QED
    BY <1>1, <1>8, <2>3, <2>4, <2>5, Applies
<1>11. QED
  BY <1>9, <1>10

LEMMA WriteDocumentReg ==
  ASSUME NEW p \in Process, Starts(p), StoreInv', WriteDocument(p) PROVE RegInv' /\ RegStep
<1> DEFINE i == call[p].id
           g == work[p].dir
           s == IF call[p].kind = "tx" THEN "switch" ELSE "done"
<1>1. /\ gen' = [gen EXCEPT ![g].doc = @ \cup {i}]
      /\ UNCHANGED <<lockVars, ptr, logs, call, issued>> /\ Then(p, s)
      /\ work[p].step = "doc" /\ call[p].kind # "read" /\ g \in DOMAIN gen /\ g # Unnamed
      /\ Before(p) /\ Shapes
  BY DEF WriteDocument, ReplaceDocument, Does, Starts, Before, Settles, WorksIn
<1>2. /\ \A q \in Process : q # p => work'[q] = work[q]
      /\ work'[p].step = s /\ work'[p].dir = g
  BY <1>1, WorkThen
<1>3. /\ Sound(p) /\ FirstEmpty /\ i \in Id /\ i \in Call /\ i # 0 /\ i \in 1..issued
      /\ ptr # Unnamed => ptr \in DOMAIN gen
      /\ \A h \in DOMAIN gen :
           /\ gen[h].log \in Call /\ gen[h].doc \subseteq 1..issued
           /\ gen[h] = [log |-> gen[h].log, doc |-> gen[h].doc]
      /\ \A j \in Call : logs[j].lines \subseteq 1..issued
  BY <1>1, StoreIs
<1>4. /\ DOMAIN gen' = DOMAIN gen /\ \A h \in DOMAIN gen \ {g} : gen'[h] = gen[h]
      /\ gen'[g].log = gen[g].log /\ gen'[g].doc = gen[g].doc \cup {i}
  BY <1>1, <1>3
<1>5. FirstEmpty'
  BY <1>1, <1>3, <1>4 DEF FirstEmpty
<1>6. Alone(p)
  BY <1>1, <1>2 DEF Alone, lockVars
<1>7. \A h \in DOMAIN gen' :
        /\ gen'[h].log \in {0, i} \/ \E k \in DOMAIN gen : gen'[h].log = gen[k].log
        /\ gen'[h].doc \subseteq 1..issued
  BY <1>1, <1>3, <1>4
<1>8. ASSUME Private(p)', Effective(p)' PROVE RegInv'
  <2>1. Fresh(p)' /\ Current(p)'
    BY <1>1, <1>2 DEF Fresh, Current
  <2>2. QED
    BY <1>1, <1>3, <1>5, <1>6, <1>7, <1>8, <2>1, HolderSound DEF Starts
<1>9. CASE call[p].kind = "tx"
  <2>1. /\ g = i /\ ptr # i /\ Contents(i) = Plus(Value, {"log"}, i)
        /\ \A h \in DOMAIN gen \ {i} : gen[h].log # i
    BY <1>1, <1>3, <1>9 DEF Sound, Private, Written
  <2>2. Value' = Value
    BY <1>1, <1>3, <1>4, <2>1, SameValue
  <2>3. Contents(i)' = [log |-> logs[gen[i].log], doc |-> gen[i].doc \cup {i}]
    BY <1>1, <1>4, <2>1 DEF Contents
  <2>4. logs[gen[i].log] = Extended(Value.log, i) /\ gen[i].doc = Value.doc
    BY <2>1 DEF Contents, Plus
  <2>5. Contents(i)' = Plus(Value', {"log", "doc"}, i)
    BY <2>2, <2>3, <2>4 DEF Plus
  <2>6. Written(p)' = {"log", "doc"}
    BY <1>2, <1>9 DEF Written
  <2>7. Private(p)' /\ Effective(p)'
    <3>1. Contents(call[p].id)' = Plus(Value, Written(p), call[p].id)'
      BY <1>1, <2>5, <2>6
    <3>2. QED
      BY <1>1, <1>2, <1>4, <1>9, <2>1, <3>1 DEF Private, Effective
  <2>8. QED
    BY <1>1, <1>8, <2>2, <2>7, Stutters
<1>10. CASE call[p].kind # "tx"
  <2>1. /\ g = ptr /\ call[p].kind # "append" /\ Register!Open(p)
    BY <1>1, <1>3, <1>10 DEF Sound, Current, Before, Busy, At, Releases
  <2>2. call[p].kind = "put"
    <3>1. call[p].kind \in Kinds
      BY <1>1, <2>1 DEF Shapes, Requested, Register!Open
    <3>2. QED
      BY <1>1, <1>10, <2>1, <3>1, KindsAre
  <2>3. Value' = Plus(Value, {"doc"}, i)
    <3>1. Value = [log |-> logs[gen[g].log], doc |-> gen[g].doc]
      BY <1>1, <2>1, ValueIs DEF Contents
    <3>2. Value' = [log |-> logs[gen[g].log], doc |-> gen[g].doc \cup {i}]
      BY <1>1, <1>4, <2>1 DEF Value
    <3>3. QED
      BY <3>1, <3>2 DEF Plus
  <2>4. Write[call[p].kind] = {"doc"} /\ call[p].kind \in DOMAIN Write
    BY <2>2 DEF Write
  <2>5. Private(p)' /\ Effective(p)'
    <3>1. i \in Value'.doc
      BY <2>3 DEF Plus
    <3>2. QED
      BY <1>1, <1>2, <1>10, <2>4, <3>1 DEF Private, Effective
  <2>6. QED
    BY <1>1, <1>8, <2>3, <2>4, <2>5, Applies
<1>11. QED
  BY <1>9, <1>10

LEMMA ReadLogReg ==
  ASSUME NEW p \in Process, Starts(p), StoreInv', ReadLog(p) PROVE RegInv' /\ RegStep
<1> DEFINE content == logs[gen[work[p].dir].log]
<1>1. /\ UNCHANGED <<lockVars, storeVars, call, issued>> /\ call[p].kind = "read"
      /\ work[p].step = "log" /\ work[p].dir # Unnamed /\ Before(p) /\ Shapes
  BY DEF ReadLog, Does, Starts, Before, Settles, WorksIn
<1>2. /\ \A q \in Process : q # p => work'[q] = work[q]
      /\ work'[p].dir = work[p].dir
      /\ \/ work'[p].step = "failed"
         \/ work'[p].step = "doc" /\ work'[p].log = content /\ content.end # "torn"
  <2>1. CASE Then(p, "failed")
    BY <1>1, <2>1, WorkThen
  <2>2. CASE content.end # "torn" /\ work' = [work EXCEPT ![p].step = "doc", ![p].log = content]
    BY <1>1, <2>2 DEF Shapes, Task
  <2>3. QED
    BY <2>1, <2>2 DEF ReadLog
<1>3. Sound(p) /\ Issued
  BY DEF Starts, RegInv
<1>4. Value' = Value
  BY <1>1, <1>3 DEF Value, storeVars
<1>5. Current(p)'
  <2>1. work[p].dir = ptr
    BY <1>1, <1>3 DEF Sound, Current
  <2>2. content = Value.log
    BY <1>1, <2>1, ValueIs DEF Contents
  <2>3. QED
    BY <1>1, <1>2, <1>4, <2>1, <2>2 DEF Current, storeVars
<1>6. Fresh(p)' /\ Private(p)' /\ Effective(p)'
  BY <1>1, <1>2 DEF Fresh, Private, Effective
<1>7. Alone(p) /\ Issued'
  BY <1>1, <1>2, <1>3 DEF Alone, Issued, lockVars, storeVars
<1>8. (Busy(p) <=> Register!Open(p))'
  BY <1>1, <1>3 DEF Sound, Busy, Releases, At, Register!Open, lockVars
<1>9. RegInv'
  BY <1>1, <1>5, <1>6, <1>7, <1>8, OutsideSound DEF Sound, Starts
<1>10. QED
  BY <1>1, <1>4, <1>9, Stutters

LEMMA ReadDocumentReg ==
  ASSUME NEW p \in Process, Starts(p), StoreInv', ReadDocument(p) PROVE RegInv' /\ RegStep
<1> DEFINE seen == [log |-> work[p].log, doc |-> gen[work[p].dir].doc]
<1>1. /\ call' = [call EXCEPT ![p].view = seen] /\ Then(p, "done")
      /\ UNCHANGED <<lockVars, storeVars, issued>> /\ call[p].kind = "read"
      /\ work[p].step = "doc" /\ work[p].dir # Unnamed /\ Before(p) /\ Shapes
  BY DEF ReadDocument, Does, Starts, Before, Settles, WorksIn
<1>2. /\ \A q \in Process : q # p => work'[q] = work[q] /\ call'[q] = call[q]
      /\ work'[p].step = "done"
      /\ call'[p].view = seen /\ call'[p].id = call[p].id /\ call'[p].kind = call[p].kind
      /\ call'[p].answer = call[p].answer
  BY <1>1, WorkThen DEF Shapes, Requested
<1>3. Sound(p) /\ Issued
  BY DEF Starts, RegInv
<1>4. seen = Value
  <2>1. work[p].dir = ptr /\ work[p].log = Value.log
    BY <1>1, <1>3 DEF Sound, Current
  <2>2. gen[ptr].doc = Value.doc
    BY <1>1, <2>1, ValueIs DEF Contents
  <2>3. QED
    BY <2>1, <2>2, ValueIs
<1>5. Value' = Value
  BY <1>1 DEF Value, storeVars
<1>6. seen # Nothing
  <2>1. work[p].log \in Log /\ gen[work[p].dir].doc \in SUBSET Id
    BY <1>1 DEF Before, Settles, Shapes, Task, Version
  <2>2. seen \in [log : [lines : SUBSET (1..MaxCalls), end : End], doc : SUBSET (1..MaxCalls)]
    BY <2>1 DEF Id, Log
  <2>3. QED
    BY <2>2, StoreConstantsOK
<1>7. Fresh(p)' /\ Private(p)' /\ Current(p)' /\ Effective(p)'
  BY <1>1, <1>2, <1>6 DEF Fresh, Private, Current, Effective
<1>8. Alone(p)
  BY <1>1, <1>2 DEF Alone, lockVars
<1>9. Issued'
  <2>1. \A q \in Process : call'[q].id = call[q].id
    BY <1>2
  <2>2. QED
    BY <1>1, <1>3, <2>1 DEF Issued, storeVars
<1>10. (Busy(p) <=> Register!Open(p))'
  BY <1>1, <1>2, <1>3 DEF Sound, Busy, Releases, At, Register!Open, lockVars
<1>11. RegInv'
  BY <1>1, <1>7, <1>8, <1>9, <1>10, OutsideSound DEF Sound, Starts
<1>12. Register!View(p)
  <2>1. Register!Open(p)
    BY <1>3, <1>1 DEF Sound, Before, Busy, At, Releases
  <2>2. Value.log.end # "torn"
    BY <1>1, <1>3 DEF Sound, Current
  <2>3. QED
    BY <1>1, <1>4, <1>5, <2>1, <2>2 DEF Register!View
<1>13. QED
  BY <1>11, <1>12 DEF RegStep, Register!Next

LEMMA SwitchReg ==
  ASSUME NEW p \in Process, Starts(p), StoreInv', Switch(p) PROVE RegInv' /\ RegStep
<1> DEFINE i == call[p].id
<1>1. PICK s \in {"prune", "undo"} : work' = [work EXCEPT ![p].step = s, ![p].dir = Unnamed]
  BY DEF Switch
<1>2. /\ ptr' = i /\ UNCHANGED <<lockVars, gen, logs, call, issued>>
      /\ work[p].step = "switch" /\ call[p].kind = "tx" /\ Before(p) /\ Shapes
  BY DEF Switch, Does, Starts, Before, Settles, WorksIn
<1>3. /\ \A q \in Process : q # p => work'[q] = work[q]
      /\ work'[p].step = s
  BY <1>1, <1>2 DEF Shapes, Task
<1>4. /\ Sound(p) /\ FirstEmpty /\ i \in Id /\ i # 0
      /\ \A g \in DOMAIN gen : gen[g].doc \subseteq 1..issued
      /\ \A j \in Call : logs[j].lines \subseteq 1..issued
  BY <1>2, StoreIs
<1>5. Contents(i) = Plus(Value, {"log", "doc"}, i)
  BY <1>2, <1>4 DEF Sound, Private, Written
<1>6. Value' = Plus(Value, {"log", "doc"}, i)
  <2>1. i # Unnamed
    BY <1>4 DEF Id, Unnamed
  <2>2. Value' = Contents(i)
    BY <1>2, <2>1 DEF Value, Contents
  <2>3. QED
    BY <1>5, <2>2
<1>7. Write[call[p].kind] = {"log", "doc"} /\ call[p].kind \in DOMAIN Write
  BY <1>2 DEF Write
<1>8. Effective(p)'
  <2>1. i \in Value'.log.lines /\ Value'.log.end # "open" /\ i \in Value'.doc
    BY <1>6 DEF Plus, Extended
  <2>2. QED
    BY <1>2, <1>7, <2>1 DEF Effective
<1>9. Fresh(p)' /\ Private(p)' /\ Current(p)'
  BY <1>2, <1>3 DEF Fresh, Private, Current
<1>10. FirstEmpty'
  BY <1>2, <1>4 DEF FirstEmpty, Id, Unnamed
<1>11. Alone(p)
  BY <1>2, <1>3 DEF Alone, lockVars
<1>12. RegInv'
  BY <1>2, <1>4, <1>8, <1>9, <1>10, <1>11, HolderSound DEF Starts
<1>13. QED
  BY <1>2, <1>6, <1>7, <1>12, Applies

\* A sweep that keeps the current generation is not seen.
LEMMA KeepIs ==
  ASSUME NEW gs \in SUBSET DOMAIN gen, Keep(gs), Shapes, UNCHANGED ptr,
         ptr # Unnamed => ptr \in gs, FirstEmpty
  PROVE  /\ Value' = Value /\ FirstEmpty' /\ DOMAIN gen' = gs
         /\ \A g \in gs : gen'[g] = gen[g]
         /\ \A j \in Call : logs'[j].lines \subseteq logs[j].lines
<1>1. DOMAIN gen' = gs /\ \A g \in gs : gen'[g] = gen[g]
  BY DEF Keep, Restrict
<1>2. \A j \in Call : /\ logs'[j] \in {logs[j], NoLines}
                      /\ (\E g \in gs : gen[g].log = j) => logs'[j] = logs[j]
  BY DEF Keep
<1>3. \A g \in gs : gen[g].log \in Call
  BY DEF Shapes, Version
<1>4. Value' = Value
  <2>1. ASSUME ptr # Unnamed
        PROVE  logs'[gen'[ptr].log] = logs[gen[ptr].log] /\ gen'[ptr].doc = gen[ptr].doc
    <3>1. ptr \in gs /\ gen'[ptr] = gen[ptr] /\ gen[ptr].log \in Call
      BY <1>1, <1>3, <2>1
    <3>2. logs'[gen[ptr].log] = logs[gen[ptr].log]
      BY <1>2, <3>1
    <3>3. QED
      BY <3>1, <3>2
  <2>2. QED
    BY <2>1, SameValue
<1>5. FirstEmpty'
  <2>1. logs'[0] = NoLines
    BY <1>2, KindsAre DEF FirstEmpty
  <2>2. ptr' = Unnamed => Main \notin DOMAIN gen'
    BY <1>1 DEF FirstEmpty
  <2>3. QED
    BY <2>1, <2>2 DEF FirstEmpty
<1>6. QED
  BY <1>1, <1>2, <1>4, <1>5 DEF NoLines

LEMMA SweepReg ==
  ASSUME NEW p \in Process, Starts(p), StoreInv', NEW gs \in SUBSET DOMAIN gen, Keep(gs),
         NEW s \in {"done", "failed"}, Then(p, s), UNCHANGED <<lockVars, ptr, call, issued>>,
         work[p].step # "none", call[p].kind = "tx", ptr # Unnamed => ptr \in gs,
         s = "done" => work[p].step = "prune"
  PROVE  RegInv' /\ RegStep
<1>1. Before(p) /\ Shapes
  BY DEF Starts, Before
<1>2. /\ \A q \in Process : q # p => work'[q] = work[q]
      /\ work'[p].step = s
  BY <1>1, WorkThen
<1>3. /\ Sound(p) /\ FirstEmpty /\ call[p].id \in Id
      /\ \A g \in DOMAIN gen : gen[g].doc \subseteq 1..issued
      /\ \A j \in Call : logs[j].lines \subseteq 1..issued
  BY StoreIs
<1>4. /\ Value' = Value /\ FirstEmpty' /\ DOMAIN gen' = gs
      /\ \A g \in gs : gen'[g] = gen[g]
      /\ \A j \in Call : logs'[j].lines \subseteq logs[j].lines
  BY <1>1, <1>3, KeepIs
<1>5. Fresh(p)' /\ Private(p)' /\ Current(p)'
  BY <1>2 DEF Fresh, Private, Current
<1>6. Effective(p)'
  BY <1>2, <1>3, <1>4 DEF Sound, Effective
<1>7. Alone(p)
  BY <1>2 DEF Alone, lockVars
<1>8. /\ \A g \in DOMAIN gen' :
           /\ \E h \in DOMAIN gen : gen'[g].log = gen[h].log
           /\ gen'[g].doc \subseteq 1..issued
      /\ \A j \in Call : logs'[j].lines \subseteq 1..issued
  BY <1>3, <1>4
<1>9. RegInv'
  BY <1>1, <1>3, <1>4, <1>5, <1>6, <1>7, <1>8, HolderSound DEF Starts
<1>10. QED
  BY <1>4, <1>9, Stutters

LEMMA PruneReg ==
  ASSUME NEW p \in Process, Starts(p), StoreInv', Prune(p) PROVE RegInv' /\ RegStep
<1>1. PICK gs \in SUBSET DOMAIN gen : call[p].id \in gs /\ Keep(gs)
  BY DEF Prune
<1>2. /\ Then(p, "done") /\ UNCHANGED <<lockVars, ptr, call, issued>>
      /\ work[p].step = "prune" /\ ptr = call[p].id /\ call[p].kind = "tx"
  BY DEF Prune, Does, Starts, Before, Settles, WorksIn
<1>3. QED
  BY <1>1, <1>2, SweepReg

LEMMA UndoReg ==
  ASSUME NEW p \in Process, Starts(p), StoreInv', Undo(p) PROVE RegInv' /\ RegStep
<1> DEFINE gs == DOMAIN gen \ ({call[p].id} \ {ptr})
<1>1. /\ Keep(gs) /\ Then(p, "failed") /\ UNCHANGED <<lockVars, ptr, call, issued>>
      /\ work[p].step = "undo" /\ call[p].kind = "tx" /\ gs \in SUBSET DOMAIN gen
      /\ ptr # Unnamed => ptr \in gs
  BY DEF Undo, Does, Starts, Before, Settles, WorksIn, PointerNamesGeneration
<1>2. QED
  BY <1>1, SweepReg

\* A step that fails the call of p and leaves the store alone.
LEMMA FailReg ==
  ASSUME NEW p \in Process, Starts(p), StoreInv', UNCHANGED <<lockVars, storeVars, call, issued>>,
         Throw(p) \/ Then(p, "failed")
  PROVE  RegInv' /\ RegStep
<1>1. Before(p) /\ Shapes
  BY DEF Starts, Before
<1>2. /\ \A q \in Process : q # p => work'[q] = work[q]
      /\ work'[p].step \in {"undo", "failed"}
  BY <1>1 DEF Throw, Then, Shapes, Task
<1>3. Value' = Value /\ Sound(p) /\ Issued
  BY <1>1 DEF Value, storeVars, Starts, RegInv
<1>4. Fresh(p)' /\ Private(p)' /\ Current(p)' /\ Effective(p)'
  BY <1>2 DEF Fresh, Private, Current, Effective
<1>5. (Busy(p) <=> Register!Open(p))'
  BY <1>1, <1>3 DEF Sound, Busy, Releases, At, Register!Open, lockVars
<1>6. Alone(p) /\ Issued'
  BY <1>1, <1>2, <1>3 DEF Alone, Issued, lockVars, storeVars
<1>7. RegInv'
  BY <1>1, <1>4, <1>5, <1>6, OutsideSound DEF Sound, Starts
<1>8. QED
  BY <1>1, <1>3, <1>7, Stutters

\* An append that stops inside its line.
LEMMA PartReg ==
  ASSUME NEW p \in Process, Starts(p), StoreInv', call[p].kind = "append", work[p].step = "log",
         AppendPart(work[p].dir, call[p].id), Then(p, "failed"),
         UNCHANGED <<lockVars, ptr, call, issued>>
  PROVE  RegInv' /\ RegStep
<1> DEFINE i == call[p].id
           g == work[p].dir
<1>1. /\ g \in DOMAIN gen /\ g # Unnamed /\ Before(p) /\ Shapes
  BY DEF Starts, Before, Settles, WorksIn
<1>2. /\ \A q \in Process : q # p => work'[q] = work[q]
      /\ work'[p].step = "failed"
  BY <1>1, WorkThen
<1>3. /\ Sound(p) /\ FirstEmpty /\ i \in Id /\ i \in Call /\ i # 0 /\ i \in 1..issued
      /\ ptr # Unnamed => ptr \in DOMAIN gen
      /\ \A h \in DOMAIN gen :
           /\ gen[h].log \in Call /\ gen[h].doc \subseteq 1..issued
           /\ gen[h] = [log |-> gen[h].log, doc |-> gen[h].doc]
      /\ \A j \in Call : logs[j].lines \subseteq 1..issued
  BY <1>1, StoreIs
<1>4. /\ DOMAIN gen' = DOMAIN gen /\ \A h \in DOMAIN gen \ {g} : gen'[h] = gen[h]
      /\ gen'[g].log \in {gen[g].log, i} /\ gen'[g].doc = gen[g].doc
      /\ logs'[gen'[g].log] \in Stopped(logs[gen[g].log], i)
      /\ logs'[0] = logs[0]
      /\ \A k \in Call :
           logs'[k].lines \subseteq logs[k].lines \cup logs[gen[g].log].lines \cup {i}
  BY <1>1, <1>3, PartIs
<1>5. FirstEmpty'
  BY <1>1, <1>3, <1>4 DEF FirstEmpty
<1>6. Alone(p)
  BY <1>1, <1>2 DEF Alone, lockVars
<1>7. /\ \A h \in DOMAIN gen' :
           /\ gen'[h].log \in {0, i} \/ \E k \in DOMAIN gen : gen'[h].log = gen[k].log
           /\ gen'[h].doc \subseteq 1..issued
      /\ \A j \in Call : logs'[j].lines \subseteq 1..issued
  <2>1. \A h \in DOMAIN gen' :
          /\ gen'[h].log \in {0, i} \/ \E k \in DOMAIN gen : gen'[h].log = gen[k].log
          /\ gen'[h].doc \subseteq 1..issued
    BY <1>1, <1>3, <1>4
  <2>2. logs[gen[g].log].lines \subseteq 1..issued
    BY <1>1, <1>3
  <2>3. QED
    BY <1>3, <1>4, <2>1, <2>2
<1>8. Fresh(p)' /\ Private(p)' /\ Current(p)' /\ Effective(p)'
  BY <1>2 DEF Fresh, Private, Current, Effective
<1>9. RegInv'
  BY <1>1, <1>3, <1>5, <1>6, <1>7, <1>8, HolderSound DEF Starts
<1>10. Register!Stop(p)
  <2>1. g = ptr /\ Register!Open(p)
    BY <1>1, <1>3 DEF Sound, Current, Before, Busy, At, Releases
  <2>2. Value = [log |-> logs[gen[g].log], doc |-> gen[g].doc]
    BY <1>1, <2>1, ValueIs DEF Contents
  <2>3. Value' = [log |-> logs'[gen'[g].log], doc |-> gen[g].doc]
    BY <1>1, <1>4, <2>1 DEF Value
  <2>4. Value' = [Value EXCEPT !.log = logs'[gen'[g].log]]
    BY <2>2, <2>3
  <2>5. logs'[gen'[g].log] \in Register!Stopped(Value.log, i)
    BY <1>4, <2>2 DEF Stopped, Extended, Register!Stopped, Register!Extended
  <2>6. call[p].kind \in DOMAIN Write /\ Write[call[p].kind] = {"log"}
    BY DEF Write
  <2>7. QED
    BY <2>1, <2>4, <2>5, <2>6 DEF Register!Stop
<1>11. QED
  BY <1>9, <1>10 DEF RegStep, Register!Next

LEMMA ThrowReg ==
  ASSUME NEW p \in Process, Starts(p), StoreInv', Throw(p) PROVE RegInv' /\ RegStep
  BY FailReg DEF Throw

LEMMA FailSingleReg ==
  ASSUME NEW p \in Process, Starts(p), StoreInv', FailSingle(p)
  PROVE  RegInv' /\ RegStep
  BY FailReg, PartReg DEF FailSingle, storeVars

LEMMA RegStepInv ==
  ASSUME LockInv, StoreInv, RegInv, LockInv', StoreInv', [Next]_vars
  PROVE  RegInv' /\ RegStep
<1>1. CASE UNCHANGED vars
  <2>1. UNCHANGED <<ptr, gen, logs, call, work, issued, at>>
    BY <1>1 DEF vars, storeVars, lockVars
  <2>2. Value' = Value /\ Issued' /\ FirstEmpty'
    BY <2>1 DEF Value, RegInv, Issued, FirstEmpty
  <2>3. ASSUME NEW p \in Process PROVE Sound(p)'
    <3>1. Sound(p)
      BY DEF RegInv
    <3>2. (Busy(p) <=> Register!Open(p))' /\ Fresh(p)' /\ Private(p)'
      BY <2>1, <2>2, <3>1 DEF Sound, Busy, Releases, At, Register!Open, Fresh, Private,
         Contents, Plus, Written
    <3>3. Current(p)' /\ Effective(p)'
      BY <2>1, <2>2, <3>1 DEF Sound, Current, Effective
    <3>4. QED
      BY <3>2, <3>3 DEF Sound
  <2>4. QED
    BY <2>1, <2>2, <2>3, Stutters DEF RegInv
<1>2. ASSUME NEW p \in Process,
             Request(p) \/ TimeOut(p) \/ StoreCrash(p) \/ Locking(p) \/ Reply(p)
      PROVE  RegInv' /\ RegStep
  BY <1>2, RequestReg, TimeOutReg, StoreCrashReg, LockingReg, ReplyReg
<1>3. ASSUME ~stale, NEW p \in Process,
             Throw(p) \/ FailSingle(p) \/ (Working(p) /\ ~Reply(p))
      PROVE  RegInv' /\ RegStep
  <2>1. At(p, "held")
    BY <1>3 DEF Throw, FailSingle, Working, Stage, Resolve, Link, WriteLog, WriteDocument,
       ReadLog, ReadDocument, Switch, Prune, Undo, Does
  <2>2. Starts(p)
    BY <1>3, <2>1 DEF Starts, Before, StoreInv, StoreTypeOK, Settles, LockInv
  <2>3. QED
    BY <1>3, <2>2, ThrowReg, FailSingleReg, StageReg, ResolveReg, LinkReg, WriteLogReg, WriteDocumentReg,
       ReadLogReg, ReadDocumentReg, SwitchReg, PruneReg, UndoReg DEF Working
<1>4. QED
  BY <1>1, <1>2, <1>3 DEF Next

\* Seen through the pointer, whatever fails or dies, the store is a register: a
\* call takes effect at once, or not at all, before it is answered and never
\* after its process died; nothing it wrote is lost, and a read sees the store
\* as it is at one moment.  An append that stops inside its line may leave a log
\* that no call reads from then on, but no read sees less than was written.
THEOREM StoreIsRegister == Spec => ImplementsRegister
<1>1. Init => LockInv /\ StoreInv /\ RegInv /\ Register!Init
  BY InitStoreInv, Init_LockInv, InitReg DEF Init
<1>2. LockInv /\ StoreInv /\ RegInv /\ [Next]_vars => LockInv' /\ StoreInv' /\ RegInv' /\ RegStep
  BY StoreUsesLock, LockStepInv, StoreStepInv, RegStepInv
<1>3. QED
  BY <1>1, <1>2, PTL DEF Spec, ImplementsRegister, Register!Spec, RegStep
=============================================================================

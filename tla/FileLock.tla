------------------------------ MODULE FileLock ------------------------------
(***************************************************************************)
(* The lock file of the fallback session store (_fileAcquireLock in        *)
(* session.ts): created with O_EXCL and written in a second step, judged   *)
(* by the age of its stamp and by whether its pid lives, taken over by     *)
(* unlinking and creating it again, kept fresh by a heartbeat that opens   *)
(* (and truncates) it by name, and unlinked by name on release.            *)
(*                                                                         *)
(* The model keeps the file that the lock's name refers to, and who has    *)
(* created, judged or opened that very file: once it is unlinked, what is  *)
(* written to it is seen by nobody.  Ages replace timestamps; the stamp in *)
(* the file and its mtime are written together, so the smaller of the two  *)
(* ages that the code computes is the age of the last writing.             *)
(***************************************************************************)
EXTENDS Integers, FiniteSets

CONSTANTS Procs,      \* processes that want to resume the session
          NoFile,     \* stamp: the name does not exist
          NoPid,      \* stamp: the file is empty
          FileStale,  \* LOCK_STALE_MS, in ticks
          MaxTries    \* maxAttempts of acquireSessionLock

ASSUME FileLockAssumption ==
  /\ {NoFile, NoPid} \cap Procs = {} /\ NoFile # NoPid
  /\ FileStale \in Nat \ {0}
  /\ MaxTries \in Nat \ {0}

VARIABLES stamp,      \* the pid in the lock file
          age,        \* Date.now() - at, up to FileStale
          at,         \* where each process is
          tries,      \* attempts left
          spare,      \* processes that may create the file once more if that fails
          beat,       \* the heartbeat of a process: "none", "due" (it has seen
                      \* released = false), "open" (the file is truncated)
          creators,   \* processes that created the file the name refers to,
          judges,     \* found it stale,
          beaters,    \* or have it open in their heartbeat
          gap         \* a step fell into one of the gaps named below

fileVars == <<stamp, age>>
handles == <<creators, judges, beaters>>
flVars == <<fileVars, at, tries, spare, beat, handles, gap>>

Stages == {"idle", "trying", "created", "found", "stale", "recreate",
           "holding", "unlocked", "dead"}

LockTypeOK ==
  /\ stamp \in Procs \cup {NoFile, NoPid}
  /\ age \in 0..FileStale
  /\ at \in [Procs -> Stages]
  /\ tries \in [Procs -> 1..MaxTries] /\ spare \subseteq Procs
  /\ beat \in [Procs -> {"none", "due", "open"}]
  /\ creators \subseteq Procs /\ judges \subseteq Procs /\ beaters \subseteq Procs
  /\ gap \in BOOLEAN

LockInit ==
  /\ stamp = NoFile
  /\ age = 0
  /\ at = [p \in Procs |-> "idle"]
  /\ tries = [p \in Procs |-> MaxTries] /\ spare = {}
  /\ beat = [p \in Procs |-> "none"]
  /\ creators = {} /\ judges = {} /\ beaters = {}
  /\ gap = FALSE

LockHolders == {p \in Procs : at[p] = "holding"}
Live == {p \in Procs : at[p] # "dead"}
Exists == stamp # NoFile

\* A process that created or truncated the file has yet to write it.
HalfWritten ==
  /\ stamp = NoPid
  /\ \/ \E q \in creators : at[q] = "created"
     \/ beaters # {}

Goes(p, stage) == at' = [at EXCEPT ![p] = stage]

-----------------------------------------------------------------------------
(***************************************************************************)
(* acquireSessionLock and _fileAcquireLock                                 *)
(***************************************************************************)
BeginAcquire(p) ==
  /\ at[p] = "idle"
  /\ beat[p] = "none"
  /\ Goes(p, "trying")
  /\ UNCHANGED <<fileVars, tries, spare, beat, handles, gap>>

\* fs.open(lp, "wx") succeeds: the name refers to a new, empty file.
CreateFile(p) ==
  /\ ~Exists
  /\ stamp' = NoPid
  /\ age' = 0
  /\ creators' = {p}
  /\ UNCHANGED <<judges, beaters>>

Unlink ==
  /\ stamp' = NoFile
  /\ age' = 0
  /\ creators' = {} /\ judges' = {} /\ beaters' = {}

\* Another attempt after the backoff, or the last error: locked by another run.
TryAgain(p) ==
  /\ spare' = spare \ {p}
  /\ IF tries[p] > 1
       THEN Goes(p, "trying") /\ tries' = [tries EXCEPT ![p] = @ - 1]
       ELSE Goes(p, "idle") /\ tries' = [tries EXCEPT ![p] = MaxTries]

\* An error that is not "already being resumed" (a full disk).  In the first
\* take-over of a stale file it leads to a second; else it surfaces, and the
\* run goes on without the lock.
Falters(p) ==
  IF p \in spare
    THEN Goes(p, "stale") /\ spare' = spare \ {p} /\ UNCHANGED tries
    ELSE Goes(p, "unlocked") /\ tries' = [tries EXCEPT ![p] = MaxTries] /\ UNCHANGED spare

OpenExclusive(p) ==
  /\ at[p] = "trying"
  /\ \/ CreateFile(p) /\ Goes(p, "created")
     \/ Exists /\ Goes(p, "found") /\ UNCHANGED <<fileVars, handles>>
  /\ UNCHANGED <<tries, spare, beat, gap>>

\* The file cannot be created; a name that exists is refused as such.
OpenFails(p) ==
  /\ at[p] \in {"trying", "recreate"}
  /\ ~Exists
  /\ Falters(p)
  /\ UNCHANGED <<fileVars, beat, handles, gap>>

WriteStamp(p) ==
  /\ at[p] = "created"
  /\ IF p \in creators THEN stamp' = p /\ age' = 0 ELSE UNCHANGED fileVars
  /\ Goes(p, "holding")
  /\ tries' = [tries EXCEPT ![p] = MaxTries] /\ spare' = spare \ {p}
  /\ UNCHANGED <<beat, handles, gap>>

\* The empty file stays, or is unlinked by the second take-over as one that
\* it knows.
WriteFails(p) ==
  /\ at[p] = "created"
  /\ creators' = creators \ {p}
  /\ judges' = IF p \in spare \cap creators THEN judges \cup {p} ELSE judges
  /\ Falters(p)
  /\ UNCHANGED <<fileVars, beat, beaters, gap>>

\* Corrupted (empty or gone by now), of a dead process, or too old.
IsStale == stamp \notin Live \/ age = FileStale

JudgeFresh(p) ==
  /\ at[p] = "found"
  /\ ~IsStale
  /\ TryAgain(p)
  /\ UNCHANGED <<fileVars, beat, handles, gap>>

\* A file that has just been created or truncated looks corrupted, and so
\* stale "regardless of mtime".
JudgeStale(p) ==
  /\ at[p] = "found"
  /\ IsStale
  /\ judges' = IF Exists THEN judges \cup {p} ELSE judges
  /\ gap' = (gap \/ HalfWritten)
  /\ spare' = spare \cup {p}
  /\ Goes(p, "stale")
  /\ UNCHANGED <<fileVars, tries, beat, creators, beaters>>

\* fs.unlink(lp): whatever file has the name now.
UnlinkStale(p) ==
  /\ at[p] = "stale"
  /\ Unlink
  /\ gap' = (gap \/ (Exists /\ p \notin judges))
  /\ Goes(p, "recreate")
  /\ UNCHANGED <<tries, spare, beat>>

\* Mutant: the file is created again without O_EXCL.
RecreateShared(p) ==
  /\ at[p] = "recreate"
  /\ \/ CreateFile(p)
     \/ /\ Exists
        /\ stamp' = NoPid
        /\ age' = 0
        /\ creators' = creators \cup {p}
        /\ UNCHANGED <<judges, beaters>>
  /\ Goes(p, "created")
  /\ UNCHANGED <<tries, spare, beat, gap>>

Recreate(p) ==
  /\ at[p] = "recreate"
  /\ \/ CreateFile(p) /\ Goes(p, "created") /\ UNCHANGED <<tries, spare>>
     \/ Exists /\ TryAgain(p) /\ UNCHANGED <<fileVars, handles>>
  /\ UNCHANGED <<beat, gap>>

-----------------------------------------------------------------------------
(***************************************************************************)
(* The heartbeat                                                           *)
(***************************************************************************)
BeatDue(p) ==
  /\ at[p] = "holding"
  /\ beat[p] = "none"
  /\ beat' = [beat EXCEPT ![p] = "due"]
  /\ UNCHANGED <<fileVars, at, tries, spare, handles, gap>>

\* fs.writeFile opens the name, truncating the file or creating a new one.
\* After a release it is another's file that is truncated, or nobody's that
\* is created.
BeatOpens(p) ==
  /\ beat[p] = "due"
  /\ beat' = [beat EXCEPT ![p] = "open"]
  /\ stamp' = NoPid
  /\ age' = IF Exists THEN age ELSE 0
  /\ beaters' = beaters \cup {p}
  /\ gap' = (gap \/ (Exists /\ p \notin creators))
  /\ UNCHANGED <<at, tries, spare, creators, judges>>

BeatWrites(p) ==
  /\ beat[p] = "open"
  /\ IF p \in beaters THEN stamp' = p /\ age' = 0 ELSE UNCHANGED fileVars
  /\ beat' = [beat EXCEPT ![p] = "none"]
  /\ beaters' = beaters \ {p}
  /\ UNCHANGED <<at, tries, spare, creators, judges, gap>>

-----------------------------------------------------------------------------
\* release(): the timer is cleared, a beat under way goes on.
ReleaseFile(p) ==
  /\ at[p] = "holding"
  /\ Unlink
  /\ Goes(p, "idle")
  /\ UNCHANGED <<tries, spare, beat, gap>>

EndWithoutLock(p) ==
  /\ at[p] = "unlocked"
  /\ Goes(p, "idle")
  /\ UNCHANGED <<fileVars, tries, spare, beat, handles, gap>>

\* The process dies, or exits.  One lives on (bound: pids are not reused).
Dies(p) ==
  /\ at[p] # "dead"
  /\ Cardinality(Live) > 1
  /\ Goes(p, "dead")
  /\ tries' = [tries EXCEPT ![p] = MaxTries] /\ spare' = spare \ {p}
  /\ beat' = [beat EXCEPT ![p] = "none"]
  /\ creators' = creators \ {p}
  /\ judges' = judges \ {p}
  /\ beaters' = beaters \ {p}
  /\ UNCHANGED <<fileVars, gap>>

\* Time passes.  A holder's heartbeat, due every 30 seconds, is not delayed
\* until its lock is five minutes old.
TimePasses ==
  /\ Exists
  /\ age < FileStale
  /\ age + 1 = FileStale => creators \cap LockHolders = {}
  /\ age' = age + 1
  /\ UNCHANGED <<stamp, at, tries, spare, beat, handles, gap>>

-----------------------------------------------------------------------------
TakeLock(p) ==
  \/ OpenExclusive(p) \/ OpenFails(p) \/ WriteStamp(p) \/ WriteFails(p)
  \/ JudgeFresh(p) \/ JudgeStale(p) \/ UnlinkStale(p) \/ Recreate(p)
DropLock(p) == ReleaseFile(p) \/ EndWithoutLock(p)
Heartbeat(p) == BeatOpens(p) \/ BeatWrites(p)

LockNext ==
  \/ \E p \in Procs : BeginAcquire(p) \/ TakeLock(p) \/ BeatDue(p)
                        \/ Heartbeat(p) \/ DropLock(p) \/ Dies(p)
  \/ TimePasses

\* A live process executes its next statement, its timers fire, runs end, and
\* sessions are resumed again.
LockFairness ==
  /\ \A p \in Procs : WF_flVars(TakeLock(p)) /\ WF_flVars(Heartbeat(p))
                        /\ WF_flVars(DropLock(p)) /\ WF_flVars(BeginAcquire(p))
  /\ WF_flVars(TimePasses)

LockSpec == LockInit /\ [][LockNext]_flVars
FairLockSpec == LockSpec /\ LockFairness

-----------------------------------------------------------------------------
(***************************************************************************)
(* Properties                                                              *)
(***************************************************************************)

\* Two processes hold the lock only if one of them fell into a gap of the
\* protocol: it read a file between its creation (or the truncation by a
\* heartbeat) and its writing, it unlinked another file than the one it had
\* judged, or its heartbeat came after its release.
ExclusiveButForGaps == gap \/ \A p, q \in LockHolders : p = q

\* A lock file that no run holds, left by a death, a failed write or a late
\* heartbeat, does not keep the session locked for ever.
LeftoverLockYields == (Exists /\ LockHolders = {}) ~> (~Exists \/ LockHolders # {})
=============================================================================

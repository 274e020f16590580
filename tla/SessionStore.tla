---------------------------- MODULE SessionStore ----------------------------
(***************************************************************************)
(* One session in the default store (session-jsonl-store.ts): the JSONL    *)
(* file, of which the last line is the session, and its row in             *)
(* index.sqlite, by which it is listed, pruned and deleted.  Processes run *)
(* the session (loop.ts), trash, restore and delete it (session.ts), prune *)
(* the store and empty its trash, each step by step; they may die at any   *)
(* step, and a step may fail.  Runs exclude each other by the lock of      *)
(* SessionLock; nothing excludes the rest.                                 *)
(*                                                                         *)
(* A line is the version of the session's content, its trashed flag and    *)
(* its updatedAt.  Dates are counted in retention periods: what was        *)
(* updated in an earlier one is old enough to be pruned.                   *)
(***************************************************************************)
EXTENDS Integers

CONSTANTS Procs,        \* processes that use the store
          None,         \* no file, no row, nothing in hand
          Unreadable,   \* a last line that is not JSON
          Maintenance,  \* commands that may be given
          Faults,       \* what may go wrong: "crash", "torn", "io"
          MaxVersions,  \* bound: saves of the runs
          MaxNow        \* bound: retention periods

Commands == {"trash", "restore", "delete", "prune", "emptyTrash"}

\* A line of the file; the file, by its last line and whether a newline ends it; a row.
Line == [ver : 0..MaxVersions, trashed : BOOLEAN, at : 0..MaxNow]
File == [last : Line \cup {Unreadable}, ended : BOOLEAN]
Row == [trashed : BOOLEAN, at : 0..MaxNow]

ASSUME StoreAssumption ==
  /\ None \notin Line \cup File \cup Row
  /\ Unreadable \notin Line
  /\ Maintenance \subseteq Commands
  /\ Faults \subseteq {"crash", "torn", "io"}
  /\ MaxVersions \in Nat /\ MaxNow \in Nat

VARIABLES file,      \* the session's JSONL file, or None
          row,       \* the session's row in the index, or None
          now,       \* the date
          versions,  \* versions that the runs have made of the session
          pc,        \* where each process is
          op,        \* what it does
          data,      \* the SessionData it has in hand
          acked,     \* history: the latest version whose save returned
          ackedAt,   \* history: when the index last heard of a change
          wanted,    \* history: the state that was last asked for
          stale,     \* history: a command that had changed one of file and row was cut off,
                     \* or failed at the other
          raced,     \* history: a command overlapped another, or a run
          torn       \* history: a line was written in part

store == <<file, row>>
procs == <<pc, op, data>>
history == <<acked, ackedAt, wanted, stale, raced, torn>>
vars == <<store, now, versions, procs, history>>

TypeOK ==
  /\ file \in File \cup {None}
  /\ row \in Row \cup {None}
  /\ now \in 0..MaxNow
  /\ versions \in 0..MaxVersions
  /\ pc \in [Procs -> {"idle", "running", "marked", "loaded", "appended", "selected", "unindexed"}]
  /\ op \in [Procs -> Commands \cup {"run", "none"}]
  /\ data \in [Procs -> Line \cup {None}]
  /\ acked \in 0..MaxVersions /\ ackedAt \in 0..MaxNow
  /\ wanted \in {"live", "trashed", "either", "unmarked"}
  /\ stale \in BOOLEAN /\ raced \in BOOLEAN /\ torn \in BOOLEAN

Init ==
  /\ file = None /\ row = None
  /\ now = 0 /\ versions = 0
  /\ pc = [p \in Procs |-> "idle"]
  /\ op = [p \in Procs |-> "none"]
  /\ data = [p \in Procs |-> None]
  /\ acked = 0 /\ ackedAt = 0 /\ wanted = "live"
  /\ stale = FALSE /\ raced = FALSE /\ torn = FALSE

-----------------------------------------------------------------------------
(***************************************************************************)
(* The file and the row                                                    *)
(***************************************************************************)

\* fs.appendFile: a line after an unfinished one becomes part of it.
Appended(line) ==
  [last |-> IF file = None \/ file.ended THEN line ELSE Unreadable, ended |-> TRUE]

\* What is there when the append is cut short: a piece of the line, or all of it but the
\* newline.
CutShort(line) == {[last |-> Unreadable, ended |-> FALSE],
                   [last |-> Appended(line).last, ended |-> FALSE]}

\* _readLastLine succeeds.
Readable == file # None /\ file.last # Unreadable

RowOf(line) == [trashed |-> line.trashed, at |-> line.at]

\* The row after the upsert of save().
Upserted(line) == RowOf(line)

-----------------------------------------------------------------------------
(***************************************************************************)
(* Processes                                                               *)
(***************************************************************************)
Busy(p) == pc[p] # "idle"

\* A process starts to do something; only runs exclude each other.
Starts(p, what, where, line) ==
  /\ ~Busy(p)
  /\ pc' = [pc EXCEPT ![p] = where]
  /\ op' = [op EXCEPT ![p] = what]
  /\ data' = [data EXCEPT ![p] = line]
  /\ raced' = (raced \/ \E q \in Procs : Busy(q))

Goes(p, where) ==
  /\ pc' = [pc EXCEPT ![p] = where]
  /\ UNCHANGED <<op, data>>

Ends(p) ==
  /\ pc' = [pc EXCEPT ![p] = "idle"]
  /\ op' = [op EXCEPT ![p] = "none"]
  /\ data' = [data EXCEPT ![p] = None]

\* Back to its turns, or done.
Returns(p) == IF op[p] = "run" THEN Goes(p, "running") ELSE Ends(p)

Unlocked == \A p \in Procs : op[p] # "run"

\* A run begins the session ...
StartRun(p) ==
  /\ versions = 0 /\ file = None /\ Unlocked
  /\ Starts(p, "run", "running", [ver |-> 0, trashed |-> FALSE, at |-> now])
  /\ UNCHANGED <<store, now, versions, acked, ackedAt, wanted, stale, torn>>

\* ... or resumes it: load() finds a session that is not trashed.  (Otherwise the run
\* reports session_lost and begins another session.)
ResumeRun(p) ==
  /\ Unlocked /\ Readable /\ ~file.last.trashed
  /\ Starts(p, "run", "running", file.last)
  /\ UNCHANGED <<store, now, versions, acked, ackedAt, wanted, stale, torn>>

\* What the run saves next.
NextVersion == [ver |-> versions + 1, trashed |-> FALSE, at |-> now]

\* Mutant: the append is not awaited, and may fail unnoticed.
SaveRunUnawaited(p) ==
  /\ pc[p] = "running" /\ versions < MaxVersions
  /\ versions' = versions + 1
  /\ file' \in {file, Appended(NextVersion)}
  /\ pc' = [pc EXCEPT ![p] = "appended"]
  /\ data' = [data EXCEPT ![p] = NextVersion]
  /\ UNCHANGED <<row, now, op, history>>

\* save(), its first step, by a run.
SaveRun(p) ==
  /\ pc[p] = "running" /\ versions < MaxVersions
  /\ versions' = versions + 1
  /\ file' = Appended(NextVersion)
  /\ pc' = [pc EXCEPT ![p] = "appended"]
  /\ data' = [data EXCEPT ![p] = NextVersion]
  /\ UNCHANGED <<row, now, op, history>>

EndRun(p) ==
  /\ pc[p] = "running"
  /\ Ends(p)
  /\ UNCHANGED <<store, now, versions, history>>

\* Mutant: the line is loaded without its flag being changed.
LoadForgetsFlag(p, what) ==
  /\ what \in Maintenance \cap {"trash", "restore"}
  /\ Readable
  /\ Starts(p, what, "loaded", file.last)
  /\ wanted' = "either"
  /\ UNCHANGED <<store, now, versions, acked, ackedAt, stale, torn>>

\* trashSession and restoreSession: loadRaw.
Load(p, what) ==
  /\ what \in Maintenance \cap {"trash", "restore"}
  /\ Readable
  /\ Starts(p, what, "loaded", [file.last EXCEPT !.trashed = (what = "trash")])
  /\ wanted' = "either"
  /\ UNCHANGED <<store, now, versions, acked, ackedAt, stale, torn>>

\* delete(), of a session that has been there: the row is marked ...
MarkRow(p) ==
  /\ "delete" \in Maintenance /\ versions > 0
  /\ Starts(p, "delete", "marked", None)
  /\ row' = IF row = None THEN None ELSE [trashed |-> TRUE, at |-> now]
  /\ ackedAt' = IF row = None THEN ackedAt ELSE now
  /\ wanted' = "either"
  /\ UNCHANGED <<file, now, versions, acked, stale, torn>>

\* ... and the last line read, to be written again ...
ReadMarked(p) ==
  /\ pc[p] = "marked"
  /\ \/ /\ Readable
        /\ pc' = [pc EXCEPT ![p] = "loaded"]
        /\ data' = [data EXCEPT ![p] = [file.last EXCEPT !.trashed = TRUE]]
        /\ UNCHANGED <<op, wanted>>
     \/ /\ ~Readable
        /\ Ends(p)
        /\ wanted' = "trashed"
  /\ UNCHANGED <<store, now, versions, acked, ackedAt, stale, raced, torn>>

\* ... which ends it; trashSession and restoreSession have the row to write.
AppendLine(p) ==
  /\ pc[p] = "loaded"
  /\ file' = Appended(data[p])
  /\ IF op[p] = "delete" THEN Ends(p) /\ wanted' = "trashed"
                         ELSE Goes(p, "appended") /\ UNCHANGED wanted
  /\ UNCHANGED <<row, now, versions, acked, ackedAt, stale, raced, torn>>

\* save(), its second step: the row.
Upsert(p) ==
  /\ pc[p] = "appended"
  /\ row' = Upserted(data[p])
  /\ acked' = IF op[p] = "run" THEN data[p].ver ELSE acked
  /\ ackedAt' = data[p].at
  /\ wanted' = CASE op[p] = "trash" -> "trashed"
                 [] op[p] = "restore" -> "live"
                 [] OTHER -> wanted
  /\ stale' = FALSE
  /\ Returns(p)
  /\ UNCHANGED <<file, now, versions, raced, torn>>

-----------------------------------------------------------------------------
(***************************************************************************)
(* prune and deleteTrash                                                   *)
(***************************************************************************)

\* The row's updated_at is before the cutoff.
Old == row # None /\ row.at < now

\* The session is selected as a victim.
Select(p, what) ==
  /\ what \in Maintenance
  /\ \/ what = "prune" /\ Old
     \/ what = "emptyTrash" /\ row # None /\ row.trashed
  /\ Starts(p, what, "selected", None)
  /\ UNCHANGED <<store, now, versions, acked, ackedAt, wanted, stale, torn>>

\* DELETE of the victim's row, or of the rows that are trashed by now.
DropRow(p) ==
  /\ pc[p] = "selected"
  /\ row' = IF op[p] = "emptyTrash" /\ row # None /\ ~row.trashed THEN row ELSE None
  /\ Goes(p, "unindexed")
  /\ UNCHANGED <<file, now, versions, history>>

Unlink(p) ==
  /\ pc[p] = "unindexed"
  /\ file' = None
  /\ stale' = FALSE
  /\ Ends(p)
  /\ UNCHANGED <<row, now, versions, acked, ackedAt, wanted, raced, torn>>

-----------------------------------------------------------------------------
(***************************************************************************)
(* What goes wrong, and time                                               *)
(***************************************************************************)

\* The process is killed between two steps.
Crash(p) ==
  /\ "crash" \in Faults /\ Busy(p)
  /\ stale' = (stale \/ pc[p] \in {"marked", "appended", "unindexed"}
                     \/ (op[p] = "delete" /\ pc[p] = "loaded"))
  /\ Ends(p)
  /\ UNCHANGED <<store, now, versions, acked, ackedAt, wanted, raced, torn>>

\* delete() cannot read the file, or append to it: it swallows the error and returns as
\* if the file said that the session is trashed, which only the index does.
DeleteUnmarked(p) ==
  /\ "io" \in Faults
  /\ (pc[p] = "marked" /\ file # None) \/ (pc[p] = "loaded" /\ op[p] = "delete")
  /\ wanted' = "unmarked" /\ stale' = TRUE
  /\ Ends(p)
  /\ UNCHANGED <<store, now, versions, acked, ackedAt, raced, torn>>

\* save() of trashSession or restoreSession throws, nothing being written.  (So may that
\* of a run, which changes nothing.)
AppendFails(p) ==
  /\ "io" \in Faults
  /\ pc[p] = "loaded" /\ op[p] # "delete"
  /\ Ends(p)
  /\ UNCHANGED <<store, now, versions, history>>

\* save() throws when the line is written: the command ends, a run only logs it.
UpsertFails(p) ==
  /\ "io" \in Faults
  /\ pc[p] = "appended"
  /\ stale' = TRUE
  /\ Returns(p)
  /\ UNCHANGED <<store, now, versions, acked, ackedAt, wanted, raced, torn>>

\* prune and deleteTrash count an error and leave the victim's file alone.
DropFails(p) ==
  /\ "io" \in Faults
  /\ pc[p] = "selected"
  /\ Ends(p)
  /\ UNCHANGED <<store, now, versions, history>>

\* They swallow it: the file stays, without a row.
UnlinkFails(p) ==
  /\ "io" \in Faults
  /\ pc[p] = "unindexed"
  /\ stale' = TRUE
  /\ Ends(p)
  /\ UNCHANGED <<store, now, versions, acked, ackedAt, wanted, raced, torn>>

StepFails(p) ==
  DeleteUnmarked(p) \/ AppendFails(p) \/ UpsertFails(p) \/ DropFails(p) \/ UnlinkFails(p)

\* A crash, or a full disk, cuts an append short; a run may survive it.
Tear(p) ==
  /\ "torn" \in Faults
  /\ \/ /\ pc[p] = "running" /\ versions < MaxVersions
        /\ versions' = versions + 1
        /\ file' \in CutShort(NextVersion)
        /\ \/ Goes(p, "running")
           \/ Ends(p)
     \/ /\ pc[p] = "loaded"
        /\ file' \in CutShort(data[p])
        /\ Ends(p)
        /\ UNCHANGED versions
  /\ torn' = TRUE
  /\ UNCHANGED <<row, now, acked, ackedAt, wanted, stale, raced>>

Tick ==
  /\ now < MaxNow
  /\ now' = now + 1
  /\ UNCHANGED <<store, versions, procs, history>>

Next ==
  \/ \E p \in Procs :
       \/ StartRun(p) \/ ResumeRun(p) \/ SaveRun(p) \/ EndRun(p)
       \/ (\E what \in Commands : Load(p, what) \/ Select(p, what))
       \/ MarkRow(p) \/ ReadMarked(p) \/ AppendLine(p) \/ Upsert(p)
       \/ DropRow(p) \/ Unlink(p)
       \/ StepFails(p) \/ Crash(p) \/ Tear(p)
  \/ Tick

Spec == Init /\ [][Next]_vars

-----------------------------------------------------------------------------
(***************************************************************************)
(* Properties                                                              *)
(***************************************************************************)
Undisturbed == ~raced /\ ~torn

\* What a save has reported is not lost, whoever dies when and whatever commands are given
\* between the runs: the session that a load finds is that version or a later one.
SavesSurvive ==
  Undisturbed /\ file # None => file.last # Unreadable /\ file.last.ver >= acked

\* A session that was trashed or deleted is not resumed, one that was restored is, even
\* if the index, which is written second or first, says otherwise after a crash or a
\* failure.  One thing is excepted, because delete() does not tell it from success: it
\* could not mark the file ("unmarked"), and the session stays resumable.
LoadFollowsRequests ==
  Undisturbed /\ Readable =>
    /\ wanted = "trashed" => file.last.trashed
    /\ wanted = "live" => ~file.last.trashed

\* Outside an operation the index and the file agree, or a command was cut off or failed
\* and nothing completed since: a complete save or removal repairs what that left.
IndexAgrees ==
  Undisturbed /\ ~stale /\ (\A p \in Procs : pc[p] \in {"idle", "running", "selected"}) =>
    /\ row = None <=> file = None
    /\ row # None => row.trashed = file.last.trashed

\* The file of a session is removed only if somebody asked for it, or the index was last
\* told of a change a retention period ago.
RemovalIsJustified ==
  [][file # None /\ file' = None /\ Undisturbed => wanted # "live" \/ ackedAt < now]_vars

\* "JSONL sessions lose at most one incomplete line" (ADR-0008): a crash during a save
\* leaves the session as it was saved before.
CrashLosesOneLine == acked > 0 /\ file # None => file.last # Unreadable /\ file.last.ver >= acked
=============================================================================

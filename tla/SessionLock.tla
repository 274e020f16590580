---------------------------- MODULE SessionLock ----------------------------
(***************************************************************************)
(* The advisory lock of one session in the default (JSONL + SQLite) store: *)
(*   - JsonlSessionStore.acquireLock and the release() it returns          *)
(*     (session-jsonl-store.ts), a row of the table session_locks;         *)
(*   - acquireSessionLock, the bounded retry around it (session.ts);       *)
(*   - what runAgentLoop does with each outcome (loop.ts): run under the   *)
(*     lock, report "Cannot start concurrent runs", or, on ANY other       *)
(*     error, run on without a lock.                                       *)
(*                                                                         *)
(* The acquisition is a transaction.  SqliteDb maps .exclusive() to a      *)
(* deferred transaction, so it is two steps: the SELECT takes a snapshot,  *)
(* and the INSERT/UPDATE succeeds only if nobody has committed to          *)
(* index.sqlite since then, otherwise SQLite answers SQLITE_BUSY at once   *)
(* ("database is locked": not an "already being resumed" error).           *)
(*                                                                         *)
(* Each run is a process that resumes the session once.  Time is a clock   *)
(* of coarse ticks; MaxRun is how long a run may keep the lock.  Nothing   *)
(* in the code bounds a run, so MaxRun is an assumption of the results     *)
(* that need it and is lifted in the run that shows what happens then.     *)
(***************************************************************************)
EXTENDS Integers

CONSTANTS Runs,         \* the runs that want to resume the session
          NoRow,        \* session_locks has no row for the session
          StaleAfter,   \* LOCK_STALE_MS, in ticks
          MaxAttempts,  \* maxAttempts of acquireSessionLock
          MaxRun,       \* bound: ticks a run keeps the lock (or is in its transaction)
          MaxClock      \* bound: the clock stops here

ASSUME ConstantsAssumption ==
  /\ NoRow \notin Runs
  /\ StaleAfter \in Nat \ {0}
  /\ MaxAttempts \in Nat \ {0}
  /\ MaxRun \in Nat
  /\ MaxClock \in Nat

VARIABLES clock,     \* Date.now()
          rowOwner,  \* session_locks.pid, or NoRow
          rowAt,     \* session_locks.locked_at
          overtaken, \* open transactions whose snapshot is no longer current
          pc,        \* where each run is
          attempt,   \* acquireSessionLock's loop variable
          lockedAt   \* nowMs of the run's acquireLock call

dbVars == <<rowOwner, rowAt, overtaken>>
runVars == <<pc, attempt, lockedAt>>
vars == <<clock, dbVars, runVars>>

\* "waiting": about to call store.acquireLock; "inTx": has read the row and is
\* about to write it; "holding": runs with the lock; "unlocked": runs although
\* acquireSessionLock failed; "refused": reported a concurrent run.
Active == {"waiting", "inTx", "holding", "unlocked"}
Over == {"refused", "done", "crashed"}
InTx == {r \in Runs : pc[r] = "inTx"}
Holders == {r \in Runs : pc[r] = "holding"}

TypeOK ==
  /\ clock \in 0..MaxClock
  /\ rowOwner \in Runs \cup {NoRow}
  /\ rowAt \in 0..MaxClock
  /\ overtaken \subseteq Runs
  /\ pc \in [Runs -> Active \cup Over]
  /\ attempt \in [Runs -> 0..MaxAttempts]
  /\ lockedAt \in [Runs -> 0..MaxClock]

Init ==
  /\ clock = 0
  /\ rowOwner = NoRow
  /\ rowAt = 0
  /\ overtaken = {}
  /\ pc = [r \in Runs |-> "waiting"]
  /\ attempt = [r \in Runs |-> 0]
  /\ lockedAt = [r \in Runs |-> 0]

-----------------------------------------------------------------------------
(***************************************************************************)
(* acquireLock                                                             *)
(***************************************************************************)

\* The row belongs to a run that is presumed to be alive.
Fresh == rowOwner # NoRow /\ clock - rowAt < StaleAfter

\* The SELECT: no row, or a stale one, so the transaction will write its own.
ReadFree(r) ==
  /\ pc[r] = "waiting"
  /\ ~Fresh
  /\ pc' = [pc EXCEPT ![r] = "inTx"]
  /\ lockedAt' = [lockedAt EXCEPT ![r] = clock]
  /\ UNCHANGED <<clock, dbVars, attempt>>

\* Mutant: the retry loop has neither attempts nor deadline.
ReadFreshForever(r) ==
  /\ pc[r] = "waiting"
  /\ Fresh
  /\ UNCHANGED vars

\* The SELECT: a fresh row, "already being resumed".  acquireSessionLock sleeps
\* and tries again, unless the attempts or the deadline (which may pass at any
\* attempt) are used up: then the loop reports the concurrent run and returns.
ReadFresh(r) ==
  /\ pc[r] = "waiting"
  /\ Fresh
  /\ attempt' = [attempt EXCEPT ![r] = @ + 1]
  /\ \/ attempt[r] + 1 < MaxAttempts /\ UNCHANGED pc
     \/ pc' = [pc EXCEPT ![r] = "refused"]
  /\ UNCHANGED <<clock, dbVars, lockedAt>>

\* Mutant: the takeover's UPDATE sets the pid and forgets locked_at.
CommitKeepsTime(r) ==
  /\ pc[r] = "inTx"
  /\ r \notin overtaken
  /\ rowOwner' = r
  /\ rowAt' = IF rowOwner = NoRow THEN lockedAt[r] ELSE rowAt
  /\ overtaken' = InTx \ {r}
  /\ pc' = [pc EXCEPT ![r] = "holding"]
  /\ UNCHANGED <<clock, attempt, lockedAt>>

\* The INSERT or UPDATE and the COMMIT, with the snapshot still current.
Commit(r) ==
  /\ pc[r] = "inTx"
  /\ r \notin overtaken
  /\ rowOwner' = r
  /\ rowAt' = lockedAt[r]
  /\ overtaken' = InTx \ {r}
  /\ pc' = [pc EXCEPT ![r] = "holding"]
  /\ UNCHANGED <<clock, attempt, lockedAt>>

\* Mutant: the busy error is taken for a success.
BusyIgnored(r) ==
  /\ pc[r] = "inTx"
  /\ r \in overtaken
  /\ overtaken' = overtaken \ {r}
  /\ pc' = [pc EXCEPT ![r] = "holding"]
  /\ UNCHANGED <<clock, rowOwner, rowAt, attempt, lockedAt>>

\* The INSERT or UPDATE meets SQLITE_BUSY: acquireSessionLock rethrows, and the
\* loop logs "could not acquire session lock" and proceeds without it.
Busy(r) ==
  /\ pc[r] = "inTx"
  /\ r \in overtaken
  /\ overtaken' = overtaken \ {r}
  /\ pc' = [pc EXCEPT ![r] = "unlocked"]
  /\ UNCHANGED <<clock, rowOwner, rowAt, attempt, lockedAt>>

-----------------------------------------------------------------------------
(***************************************************************************)
(* The end of a run                                                        *)
(***************************************************************************)

\* The loop's finally block: release() deletes the session's row, whoever owns
\* it.  A DELETE that finds no row commits nothing.
Release(r) ==
  /\ pc[r] = "holding"
  /\ pc' = [pc EXCEPT ![r] = "done"]
  /\ rowOwner' = NoRow
  /\ overtaken' = IF rowOwner = NoRow THEN overtaken ELSE InTx
  /\ UNCHANGED <<clock, rowAt, attempt, lockedAt>>

\* The exits before the loop's try block (a required MCP server is missing, a
\* SessionStart hook fails): the run ends and release() is never called.
ExitWithoutRelease(r) ==
  /\ pc[r] = "holding"
  /\ pc' = [pc EXCEPT ![r] = "done"]
  /\ UNCHANGED <<clock, dbVars, attempt, lockedAt>>

\* A run that has no lock has nothing to release.
EndUnlocked(r) ==
  /\ pc[r] = "unlocked"
  /\ pc' = [pc EXCEPT ![r] = "done"]
  /\ UNCHANGED <<clock, dbVars, attempt, lockedAt>>

\* The process dies.  An open transaction is rolled back, the row stays.
Crash(r) ==
  /\ pc[r] \in Active
  /\ pc' = [pc EXCEPT ![r] = "crashed"]
  /\ overtaken' = overtaken \ {r}
  /\ UNCHANGED <<clock, rowOwner, rowAt, attempt, lockedAt>>

-----------------------------------------------------------------------------
(***************************************************************************)
(* The environment                                                         *)
(***************************************************************************)

\* Any other commit to index.sqlite: the upsert of a save, of this session or
\* of another, by whatever process.
IndexWrite ==
  /\ InTx # {}
  /\ overtaken' = InTx
  /\ UNCHANGED <<clock, rowOwner, rowAt, runVars>>

Tick ==
  /\ clock < MaxClock
  /\ \A r \in InTx \cup Holders : clock + 1 - lockedAt[r] <= MaxRun
  /\ clock' = clock + 1
  /\ UNCHANGED <<dbVars, runVars>>

AcquireLock(r) == ReadFree(r) \/ ReadFresh(r) \/ Commit(r) \/ Busy(r)
EndRun(r) == Release(r) \/ ExitWithoutRelease(r) \/ EndUnlocked(r)

Next ==
  \/ \E r \in Runs : AcquireLock(r) \/ EndRun(r) \/ Crash(r)
  \/ IndexWrite
  \/ Tick

\* A process that lives keeps executing: its calls return, its retries fire.
Fairness == \A r \in Runs : WF_vars(AcquireLock(r)) /\ WF_vars(EndRun(r))

Spec == Init /\ [][Next]_vars
FairSpec == Spec /\ Fairness

-----------------------------------------------------------------------------
(***************************************************************************)
(* Properties                                                              *)
(***************************************************************************)

\* At most one run is between its acquireLock and its release.  It needs
\* MaxRun < StaleAfter: then no live holder is taken for dead.
HoldersExclusive == \A r, q \in Holders : r = q

\* A fresh row is never overwritten by another run's: between the SELECT and
\* the UPDATE of acquireLock nobody else's lock can slip in.
FreshRowNeverStolen ==
  [][(Fresh /\ rowOwner' # NoRow) => rowOwner' = rowOwner]_vars

\* The row in the table is the lock of the run that holds it, so that its
\* release deletes its own lock and nobody else's.
HolderOwnsRow == \A r \in Holders : rowOwner = r /\ rowAt = lockedAt[r]

\* Nobody waits for the lock for ever: every run ends, gives up or dies, even
\* when the lock was left behind by a crash or an early exit.
EveryRunEnds == \A r \in Runs : <>(pc[r] \in Over)

-----------------------------------------------------------------------------
(***************************************************************************)
(* Refinement: the runs that got the lock use it as SessionMutex says.     *)
(***************************************************************************)
Ended == {r \in Runs : pc[r] \in Over \cup {"unlocked"}}

Mutex == INSTANCE SessionMutex WITH holders <- Holders, ended <- Ended
ImplementsMutex == Mutex!Spec
=============================================================================

----------------------------- MODULE LocksProofs -----------------------------
(***************************************************************************)
(* Theorems about the session locks of both stores, for any number of runs *)
(* and processes and any bounds.                                           *)
(*                                                                         *)
(* SessionLock: an open transaction whose snapshot is still current has    *)
(* read a row that is absent or stale (SnapshotFree).  So a commit never   *)
(* replaces a fresh row.  If no run keeps its lock for StaleAfter ticks,   *)
(* the row of a holder is fresh, hence is the holder's own until it is     *)
(* released, and two holders are one.                                      *)
(*                                                                         *)
(* FileLock: outside the gaps a holder has created the file that is there  *)
(* (OwnFile), and no other process unlinks it.                             *)
(***************************************************************************)
EXTENDS MCLocks, TLAPS

-----------------------------------------------------------------------------
(***************************************************************************)
(* The lock rows of the JSONL store (SessionLock).                         *)
(***************************************************************************)

\* What the SELECT found still holds while the snapshot is current.
SnapshotFree == \A r \in InTx \ overtaken : ~Fresh

\* What Tick guarantees: no transaction or lock is older than MaxRun.
WithinMaxRun == \A r \in InTx \cup Holders : clock - lockedAt[r] <= MaxRun

\* A run that still tries has an attempt left: TypeOK is not inductive without it.
AttemptsLeft == \A r \in Runs : pc[r] = "waiting" => attempt[r] < MaxAttempts

IInv == SnapshotFree /\ WithinMaxRun /\ HolderOwnsRow

\* Type correctness: in particular the retry counter of acquireSessionLock
\* stays within maxAttempts and the lock times never run ahead of the clock's
\* range.
THEOREM TypeCorrect == Spec => []TypeOK
<1> USE ConstantsAssumption
<1>1. Init => TypeOK /\ AttemptsLeft
  BY DEF Init, TypeOK, AttemptsLeft, Active, Over
<1>2. TypeOK /\ AttemptsLeft /\ [Next]_vars => (TypeOK /\ AttemptsLeft)'
  <2> SUFFICES ASSUME TypeOK, AttemptsLeft, [Next]_vars
               PROVE  TypeOK' /\ AttemptsLeft'
    OBVIOUS
  <2> USE DEF TypeOK, AttemptsLeft, Active, Over, dbVars, runVars, InTx
  <2>1. ASSUME NEW r \in Runs, ReadFree(r) PROVE TypeOK' /\ AttemptsLeft'
    BY <2>1 DEF ReadFree
  <2>2. ASSUME NEW r \in Runs, ReadFresh(r) PROVE TypeOK' /\ AttemptsLeft'
    BY <2>2 DEF ReadFresh
  <2>3. ASSUME NEW r \in Runs, Commit(r) PROVE TypeOK' /\ AttemptsLeft'
    BY <2>3 DEF Commit
  <2>4. ASSUME NEW r \in Runs, Busy(r) PROVE TypeOK' /\ AttemptsLeft'
    BY <2>4 DEF Busy
  <2>5. ASSUME NEW r \in Runs, Release(r) PROVE TypeOK' /\ AttemptsLeft'
    BY <2>5 DEF Release
  <2>6. ASSUME NEW r \in Runs, ExitWithoutRelease(r) PROVE TypeOK' /\ AttemptsLeft'
    BY <2>6 DEF ExitWithoutRelease
  <2>7. ASSUME NEW r \in Runs, EndUnlocked(r) PROVE TypeOK' /\ AttemptsLeft'
    BY <2>7 DEF EndUnlocked
  <2>8. ASSUME NEW r \in Runs, Crash(r) PROVE TypeOK' /\ AttemptsLeft'
    BY <2>8 DEF Crash
  <2>9. CASE IndexWrite
    BY <2>9 DEF IndexWrite
  <2>10. CASE Tick
    BY <2>10 DEF Tick
  <2>11. CASE UNCHANGED vars
    BY <2>11 DEF vars
  <2> QED
    BY <2>1, <2>2, <2>3, <2>4, <2>5, <2>6, <2>7, <2>8, <2>9, <2>10, <2>11
    DEF Next, AcquireLock, EndRun
<1> QED
  BY <1>1, <1>2, PTL DEF Spec

\* A current snapshot shows a row that is absent or stale: the commits that
\* could have changed it are the ones that overtake the transaction.
LEMMA SnapshotFreeStep ==
  ASSUME TypeOK, SnapshotFree, [Next]_vars
  PROVE  SnapshotFree'
<1> USE ConstantsAssumption
    DEF TypeOK, SnapshotFree, Fresh, InTx, dbVars, runVars, Active, Over
<1>1. ASSUME NEW r \in Runs, ReadFree(r) PROVE SnapshotFree'
  BY <1>1 DEF ReadFree
<1>2. ASSUME NEW r \in Runs, ReadFresh(r) PROVE SnapshotFree'
  BY <1>2 DEF ReadFresh
<1>3. ASSUME NEW r \in Runs, Commit(r) PROVE SnapshotFree'
  BY <1>3 DEF Commit
<1>4. ASSUME NEW r \in Runs, Busy(r) PROVE SnapshotFree'
  BY <1>4 DEF Busy
<1>5. ASSUME NEW r \in Runs, Release(r) PROVE SnapshotFree'
  BY <1>5 DEF Release
<1>6. ASSUME NEW r \in Runs, ExitWithoutRelease(r) PROVE SnapshotFree'
  BY <1>6 DEF ExitWithoutRelease
<1>7. ASSUME NEW r \in Runs, EndUnlocked(r) PROVE SnapshotFree'
  BY <1>7 DEF EndUnlocked
<1>8. ASSUME NEW r \in Runs, Crash(r) PROVE SnapshotFree'
  BY <1>8 DEF Crash
<1>9. CASE IndexWrite
  BY <1>9 DEF IndexWrite
<1>10. CASE Tick
  BY <1>10 DEF Tick
<1>11. CASE UNCHANGED vars
  BY <1>11 DEF vars
<1> QED
  BY <1>1, <1>2, <1>3, <1>4, <1>5, <1>6, <1>7, <1>8, <1>9, <1>10, <1>11
  DEF Next, AcquireLock, EndRun

\* A lock that is not stale is never replaced by another run's, whatever the
\* runs, crashes, slow transactions and other writers do: it needs no bound on
\* how long a run keeps its lock.
THEOREM NeverStolen == Spec => FreshRowNeverStolen
<1>1. Init => SnapshotFree
  BY DEF Init, SnapshotFree, InTx
<1>2. TypeOK /\ SnapshotFree /\ [Next]_vars
        => (Fresh /\ rowOwner' # NoRow => rowOwner' = rowOwner)
  <2> SUFFICES ASSUME TypeOK, SnapshotFree, [Next]_vars, Fresh, rowOwner' # NoRow
               PROVE  rowOwner' = rowOwner
    OBVIOUS
  <2>1. ASSUME NEW r \in Runs, Commit(r) PROVE FALSE
    BY <2>1 DEF Commit, SnapshotFree, InTx
  <2>2. ASSUME NEW r \in Runs, Release(r) PROVE FALSE
    BY <2>2 DEF Release
  <2>3. ASSUME NEW r \in Runs, ReadFree(r) \/ ReadFresh(r) \/ Busy(r)
        PROVE  rowOwner' = rowOwner
    BY <2>3 DEF ReadFree, ReadFresh, Busy, dbVars
  <2>4. ASSUME NEW r \in Runs, ExitWithoutRelease(r) \/ EndUnlocked(r) \/ Crash(r)
        PROVE  rowOwner' = rowOwner
    BY <2>4 DEF ExitWithoutRelease, EndUnlocked, Crash, dbVars
  <2>5. CASE IndexWrite \/ Tick \/ UNCHANGED vars
    BY <2>5 DEF IndexWrite, Tick, vars, dbVars
  <2> QED
    BY <2>1, <2>2, <2>3, <2>4, <2>5 DEF Next, AcquireLock, EndRun
<1>3. TypeOK /\ SnapshotFree /\ [Next]_vars => SnapshotFree'
  BY SnapshotFreeStep
<1> QED
  BY <1>1, <1>2, <1>3, TypeCorrect, PTL DEF Spec, FreshRowNeverStolen

\* No transaction or lock outlives MaxRun ticks: the clock waits for it.
LEMMA WithinMaxRunStep ==
  ASSUME TypeOK, WithinMaxRun, [Next]_vars
  PROVE  WithinMaxRun'
<1> USE ConstantsAssumption
    DEF TypeOK, WithinMaxRun, InTx, Holders, dbVars, runVars, Active, Over
<1>1. ASSUME NEW r \in Runs, ReadFree(r) PROVE WithinMaxRun'
  BY <1>1 DEF ReadFree
<1>2. ASSUME NEW r \in Runs, ReadFresh(r) PROVE WithinMaxRun'
  BY <1>2 DEF ReadFresh
<1>3. ASSUME NEW r \in Runs, Commit(r) PROVE WithinMaxRun'
  BY <1>3 DEF Commit
<1>4. ASSUME NEW r \in Runs, Busy(r) PROVE WithinMaxRun'
  BY <1>4 DEF Busy
<1>5. ASSUME NEW r \in Runs, EndRun(r) PROVE WithinMaxRun'
  BY <1>5 DEF EndRun, Release, ExitWithoutRelease, EndUnlocked
<1>6. ASSUME NEW r \in Runs, Crash(r) PROVE WithinMaxRun'
  BY <1>6 DEF Crash
<1>7. CASE IndexWrite
  BY <1>7 DEF IndexWrite
<1>8. CASE Tick
  BY <1>8 DEF Tick
<1>9. CASE UNCHANGED vars
  BY <1>9 DEF vars
<1> QED
  BY <1>1, <1>2, <1>3, <1>4, <1>5, <1>6, <1>7, <1>8, <1>9 DEF Next, AcquireLock

\* If a lock cannot outlive the staleness limit, the row stays its holder's: a
\* holder's row is fresh, so the only transactions that could replace or delete
\* it are the holder's own.
LEMMA HolderOwnsRowStep ==
  ASSUME MaxRun < StaleAfter, TypeOK, IInv, [Next]_vars
  PROVE  HolderOwnsRow'
<1> USE ConstantsAssumption
    DEF TypeOK, IInv, HolderOwnsRow, Holders, InTx, dbVars, runVars, Active, Over
<1>1. ASSUME NEW r \in Holders PROVE Fresh
  BY <1>1 DEF WithinMaxRun, Fresh
<1>2. ASSUME NEW r \in Runs, ReadFree(r) PROVE HolderOwnsRow'
  BY <1>2 DEF ReadFree, Fresh, WithinMaxRun
<1>3. ASSUME NEW r \in Runs, ReadFresh(r) PROVE HolderOwnsRow'
  BY <1>3 DEF ReadFresh
<1>4. ASSUME NEW r \in Runs, Commit(r) PROVE HolderOwnsRow'
  <2>1. Holders = {}
    BY <1>1, <1>4 DEF Commit, SnapshotFree
  <2> QED
    BY <1>4, <2>1 DEF Commit
<1>5. ASSUME NEW r \in Runs, Busy(r) PROVE HolderOwnsRow'
  BY <1>5 DEF Busy
<1>6. ASSUME NEW r \in Runs, Release(r) PROVE HolderOwnsRow'
  BY <1>6 DEF Release
<1>7. ASSUME NEW r \in Runs, ExitWithoutRelease(r) PROVE HolderOwnsRow'
  BY <1>7 DEF ExitWithoutRelease
<1>8. ASSUME NEW r \in Runs, EndUnlocked(r) \/ Crash(r) PROVE HolderOwnsRow'
  BY <1>8 DEF EndUnlocked, Crash
<1>9. CASE IndexWrite \/ Tick
  BY <1>9 DEF IndexWrite, Tick
<1>10. CASE UNCHANGED vars
  BY <1>10 DEF vars
<1> QED
  BY <1>2, <1>3, <1>4, <1>5, <1>6, <1>7, <1>8, <1>9, <1>10
  DEF Next, AcquireLock, EndRun

\* The inductive invariant of the bounded-run case.
LEMMA Invariance ==
  ASSUME MaxRun < StaleAfter
  PROVE  Spec => []IInv
<1>1. Init => IInv
  BY DEF Init, IInv, SnapshotFree, WithinMaxRun, HolderOwnsRow, InTx, Holders
<1>2. TypeOK /\ IInv /\ [Next]_vars => IInv'
  <2> SUFFICES ASSUME TypeOK, IInv, [Next]_vars PROVE IInv'
    OBVIOUS
  <2>1. SnapshotFree'
    BY SnapshotFreeStep DEF IInv
  <2>2. WithinMaxRun'
    BY WithinMaxRunStep DEF IInv
  <2>3. HolderOwnsRow'
    BY HolderOwnsRowStep
  <2> QED
    BY <2>1, <2>2, <2>3 DEF IInv
<1> QED
  BY <1>1, <1>2, TypeCorrect, PTL DEF Spec

\* The holder's row is its own for as long as it holds the lock, so release()
\* deletes no other run's lock, provided no run outlives LOCK_STALE_MS.
THEOREM OwnRow ==
  ASSUME MaxRun < StaleAfter
  PROVE  Spec => []HolderOwnsRow
<1>1. IInv => HolderOwnsRow
  BY DEF IInv
<1> QED
  BY <1>1, Invariance, PTL

\* Mutual exclusion of the runs that got the lock, for any number of runs,
\* crashes, early exits and other writers, provided no run outlives
\* LOCK_STALE_MS.
THEOREM Exclusive ==
  ASSUME MaxRun < StaleAfter
  PROVE  Spec => []HoldersExclusive
<1>1. IInv => HoldersExclusive
  BY DEF IInv, HolderOwnsRow, HoldersExclusive
<1> QED
  BY <1>1, Invariance, PTL

\* The lock implements SessionMutex under the same proviso: every step of the
\* lock protocol, of its retries, of a crash or of an early exit is a step of
\* the abstract mutex or a stutter.
THEOREM Implements ==
  ASSUME MaxRun < StaleAfter
  PROVE  Spec => ImplementsMutex
<1> USE DEF Holders, Ended, Active, Over, InTx, dbVars, runVars
<1>1. Init => Mutex!Init
  BY DEF Init, Mutex!Init
<1>2. TypeOK /\ IInv /\ [Next]_vars => [Mutex!Next]_(Mutex!vars)
  <2> SUFFICES ASSUME TypeOK, IInv, [Next]_vars
               PROVE  Mutex!Next \/ UNCHANGED Mutex!vars
    OBVIOUS
  <2> USE DEF TypeOK, Mutex!vars
  <2>1. ASSUME NEW r \in Runs, ReadFree(r) PROVE UNCHANGED Mutex!vars
    BY <2>1 DEF ReadFree
  <2>2. ASSUME NEW r \in Runs, ReadFresh(r)
        PROVE  Mutex!GiveUp(r) \/ UNCHANGED Mutex!vars
    BY <2>2 DEF ReadFresh, Mutex!GiveUp
  <2>3. ASSUME NEW r \in Runs, Commit(r) PROVE Mutex!Enter(r)
    <3>1. Holders = {}
      <4>1. ASSUME NEW q \in Holders PROVE Fresh
        BY <4>1, ConstantsAssumption DEF IInv, HolderOwnsRow, WithinMaxRun, Fresh
      <4> QED
        BY <2>3, <4>1 DEF Commit, IInv, SnapshotFree
    <3> QED
      BY <2>3, <3>1 DEF Commit, Mutex!Enter
  <2>4. ASSUME NEW r \in Runs, Busy(r) PROVE Mutex!GiveUp(r)
    BY <2>4 DEF Busy, Mutex!GiveUp
  <2>5. ASSUME NEW r \in Runs, Release(r) PROVE Mutex!Leave(r)
    BY <2>5 DEF Release, Mutex!Leave
  <2>6. ASSUME NEW r \in Runs, ExitWithoutRelease(r) PROVE Mutex!Leave(r)
    BY <2>6 DEF ExitWithoutRelease, Mutex!Leave
  <2>7. ASSUME NEW r \in Runs, EndUnlocked(r) PROVE UNCHANGED Mutex!vars
    BY <2>7 DEF EndUnlocked
  <2>8. ASSUME NEW r \in Runs, Crash(r)
        PROVE  Mutex!Leave(r) \/ Mutex!GiveUp(r)
    BY <2>8 DEF Crash, Mutex!Leave, Mutex!GiveUp
  <2>9. CASE IndexWrite \/ Tick \/ UNCHANGED vars
    BY <2>9 DEF IndexWrite, Tick, vars
  <2> QED
    BY <2>1, <2>2, <2>3, <2>4, <2>5, <2>6, <2>7, <2>8, <2>9
    DEF Next, AcquireLock, EndRun, Mutex!Next
<1> QED
  BY <1>1, <1>2, TypeCorrect, Invariance, PTL
  DEF Spec, ImplementsMutex, Mutex!Spec

-----------------------------------------------------------------------------
(***************************************************************************)
(* The lock file of the fallback store (FileLock), and both together       *)
(* (MCLocks).                                                              *)
(***************************************************************************)

\* Who has a hand on the file: a creator is between its creation and its release, a
\* heartbeat was begun by a holder, and a file that is gone is in nobody's hand.
HandsOnFile ==
  /\ \A p \in Procs : beat[p] # "none" => at[p] \in {"holding", "idle"}
  /\ \A p \in beaters : beat[p] = "open"
  /\ \A p \in creators : at[p] \in {"created", "holding"}
  /\ ~Exists => creators = {} /\ judges = {} /\ beaters = {}

\* Outside the gaps: whoever is about to hold the lock, or holds it, has created the file
\* that is there, and so there is one; nobody has judged it stale, or has it open but its
\* own heartbeat; it is empty while it is written and has its pid else, never too old.
OwnFile ==
  /\ \A p \in Procs : at[p] \in {"created", "holding"} => p \in creators
  /\ \A p, q \in creators : p = q
  /\ \A p \in creators :
       /\ judges = {} /\ \A q \in beaters : q = p
       /\ at[p] = "created" \/ p \in beaters => stamp = NoPid
       /\ at[p] = "holding" /\ p \notin beaters => stamp = p
       /\ at[p] = "holding" => age < FileStale

FileLockInv == LockTypeOK /\ HandsOnFile /\ (gap \/ OwnFile)

\* There is no lock file at first.
LEMMA FileLockInitInv == LockInit => FileLockInv
<1> SUFFICES ASSUME LockInit PROVE FileLockInv
  OBVIOUS
<1> USE FileLockAssumption DEF LockInit
<1>1. LockTypeOK
  <2>1. tries \in [Procs -> 1..MaxTries] /\ spare \subseteq Procs /\ age \in 0..FileStale
    OBVIOUS
  <2>2. at \in [Procs -> Stages] /\ beat \in [Procs -> {"none", "due", "open"}]
    BY DEF Stages
  <2> QED
    BY <2>1, <2>2 DEF LockTypeOK
<1>2. HandsOnFile /\ OwnFile
  BY DEF HandsOnFile, OwnFile
<1> QED
  BY <1>1, <1>2 DEF FileLockInv

\* The types, and the hands on the file, are kept by every step.
LEMMA FileLockTypeStep ==
  ASSUME LockTypeOK, HandsOnFile, [LockNext]_flVars
  PROVE  LockTypeOK' /\ HandsOnFile'
<1> USE FileLockAssumption DEF LockTypeOK, HandsOnFile, Stages, Exists, Goes, fileVars, handles, Unlink
<1> DEFINE Good == LockTypeOK' /\ HandsOnFile'
<1>1. ASSUME NEW p \in Procs, BeginAcquire(p) PROVE Good
  BY <1>1 DEF BeginAcquire
<1>2. ASSUME NEW p \in Procs, OpenExclusive(p) PROVE Good
  BY <1>2 DEF OpenExclusive, CreateFile
<1>3. ASSUME NEW p \in Procs, WriteStamp(p) PROVE Good
  BY <1>3 DEF WriteStamp
<1>4. ASSUME NEW p \in Procs, WriteFails(p) PROVE Good
  BY <1>4 DEF WriteFails, Falters
<1>5. ASSUME NEW p \in Procs, JudgeFresh(p) PROVE Good
  BY <1>5 DEF JudgeFresh, TryAgain
<1>6. ASSUME NEW p \in Procs, JudgeStale(p) PROVE Good
  <2>1. (gap \/ HalfWritten) \in BOOLEAN
    BY DEF HalfWritten
  <2> QED
    BY <1>6, <2>1 DEF JudgeStale
<1>7. ASSUME NEW p \in Procs, UnlinkStale(p) PROVE Good
  BY <1>7 DEF UnlinkStale
<1>8. ASSUME NEW p \in Procs, Recreate(p) PROVE Good
  BY <1>8 DEF Recreate, CreateFile, TryAgain
<1>9. ASSUME NEW p \in Procs, BeatDue(p) PROVE Good
  BY <1>9 DEF BeatDue
<1>10. ASSUME NEW p \in Procs, BeatOpens(p) PROVE Good
  BY <1>10 DEF BeatOpens
<1>11. ASSUME NEW p \in Procs, BeatWrites(p) PROVE Good
  BY <1>11 DEF BeatWrites
<1>12. ASSUME NEW p \in Procs, ReleaseFile(p) PROVE Good
  BY <1>12 DEF ReleaseFile
<1>13. ASSUME NEW p \in Procs, EndWithoutLock(p) PROVE Good
  BY <1>13 DEF EndWithoutLock
<1>14. ASSUME NEW p \in Procs, Dies(p) PROVE Good
  BY <1>14 DEF Dies
<1>15. CASE TimePasses
  BY <1>15 DEF TimePasses
<1>16. CASE UNCHANGED flVars
  BY <1>16 DEF flVars
<1>17. ASSUME NEW p \in Procs, OpenFails(p) PROVE Good
  BY <1>17 DEF OpenFails, Falters
<1> QED
  BY <1>1, <1>2, <1>3, <1>4, <1>5, <1>6, <1>7, <1>8, <1>9, <1>10, <1>11, <1>12, <1>13, <1>14,
     <1>15, <1>16, <1>17 DEF LockNext, TakeLock, DropLock, Heartbeat

\* Outside the gaps the file of a holder is unlinked by none but itself: it is judged stale
\* neither while it is half written nor while its heartbeat keeps it young.
LEMMA FileLockStep == FileLockInv /\ [LockNext]_flVars => FileLockInv'
<1> SUFFICES ASSUME FileLockInv, [LockNext]_flVars, ~gap' PROVE OwnFile'
  BY FileLockTypeStep DEF FileLockInv
<1> USE FileLockAssumption DEF FileLockInv, LockTypeOK, HandsOnFile, OwnFile, Exists, Goes, fileVars, handles, Unlink
<1>1. ASSUME NEW p \in Procs, BeginAcquire(p) PROVE OwnFile'
  BY <1>1 DEF BeginAcquire
<1>2. ASSUME NEW p \in Procs, OpenExclusive(p) PROVE OwnFile'
  BY <1>2 DEF OpenExclusive, CreateFile
<1>3. ASSUME NEW p \in Procs, WriteStamp(p) PROVE OwnFile'
  BY <1>3 DEF WriteStamp
<1>4. ASSUME NEW p \in Procs, WriteFails(p) PROVE OwnFile'
  BY <1>4 DEF WriteFails, Falters
<1>5. ASSUME NEW p \in Procs, JudgeFresh(p) PROVE OwnFile'
  BY <1>5 DEF JudgeFresh, TryAgain
<1>6. ASSUME NEW p \in Procs, JudgeStale(p) PROVE OwnFile'
  <2>1. ~gap /\ ~HalfWritten /\ IsStale
    BY <1>6 DEF JudgeStale
  <2>2. creators = {}
    <3>1. SUFFICES ASSUME NEW q \in creators PROVE FALSE
      OBVIOUS
    <3>2. stamp # NoPid
      BY <2>1, <3>1 DEF HalfWritten
    <3>3. q \in Procs /\ at[q] = "holding" /\ stamp = q /\ age < FileStale
      BY <2>1, <3>2
    <3>4. q \in Live /\ age # FileStale
      BY <3>3 DEF Live
    <3> QED
      BY <2>1, <3>3, <3>4 DEF IsStale
  <2> QED
    BY <1>6, <2>1, <2>2 DEF JudgeStale
<1>7. ASSUME NEW p \in Procs, UnlinkStale(p) PROVE OwnFile'
  BY <1>7 DEF UnlinkStale
<1>8. ASSUME NEW p \in Procs, Recreate(p) PROVE OwnFile'
  BY <1>8 DEF Recreate, CreateFile, TryAgain
<1>9. ASSUME NEW p \in Procs, BeatDue(p) PROVE OwnFile'
  BY <1>9 DEF BeatDue
<1>10. ASSUME NEW p \in Procs, BeatOpens(p) PROVE OwnFile'
  BY <1>10 DEF BeatOpens
<1>11. ASSUME NEW p \in Procs, BeatWrites(p) PROVE OwnFile'
  BY <1>11 DEF BeatWrites
<1>12. ASSUME NEW p \in Procs, ReleaseFile(p) PROVE OwnFile'
  BY <1>12 DEF ReleaseFile
<1>13. ASSUME NEW p \in Procs, EndWithoutLock(p) PROVE OwnFile'
  BY <1>13 DEF EndWithoutLock
<1>14. ASSUME NEW p \in Procs, Dies(p) PROVE OwnFile'
  BY <1>14 DEF Dies
<1>15. CASE TimePasses
  BY <1>15 DEF TimePasses, LockHolders
<1>16. CASE UNCHANGED flVars
  BY <1>16 DEF flVars
<1>17. ASSUME NEW p \in Procs, OpenFails(p) PROVE OwnFile'
  BY <1>17 DEF OpenFails, Falters
<1> QED
  BY <1>1, <1>2, <1>3, <1>4, <1>5, <1>6, <1>7, <1>8, <1>9, <1>10, <1>11, <1>12, <1>13, <1>14,
     <1>15, <1>16, <1>17 DEF LockNext, TakeLock, DropLock, Heartbeat

\* For any number of processes, attempts and any staleness limit: outside the named gaps
\* the holder of the lock file has created the very file that is there.
THEOREM FileLockInvariance == LockSpec => []FileLockInv
  BY FileLockInitInv, FileLockStep, PTL DEF LockSpec

\* So two holders have created the same file, and are one.
LEMMA FileLockInvExcludes == FileLockInv => LockTypeOK /\ ExclusiveButForGaps
  BY DEF FileLockInv, LockTypeOK, OwnFile, ExclusiveButForGaps, LockHolders

\* Every step of the whole is a step of the file lock or a stutter.
LEMMA LockSteps == [LocksNext]_allVars => [LockNext]_flVars
  BY DEF LocksNext, allVars, flVars

\* Two processes hold the lock file at once only if one of them fell into a gap of the
\* protocol, for any number of processes and attempts and any staleness limit.
THEOREM FileLockIsExclusive == LocksSpec => []FileLockExcludes
<1>1. LocksInit => LockInit
  BY DEF LocksInit
<1>2. LocksSpec => []FileLockInv
  BY <1>1, LockSteps, FileLockInitInv, FileLockStep, PTL DEF LocksSpec
<1>3. FileLockInv => FileLockExcludes
  BY FileLockInvExcludes DEF FileLockExcludes
<1> QED
  BY <1>2, <1>3, PTL
==============================================================================

------------------------------ MODULE MCLocks -------------------------------
(* The session locks of the two stores, of which a process uses the one     *)
(* that getStore() (session.ts) chose: SessionLock with its runs, or        *)
(* FileLock with its processes.                                             *)
EXTENDS SessionLock, FileLock

VARIABLE chosen

allVars == <<vars, flVars, chosen>>
Jsonl == chosen = "jsonl"
File == chosen = "file"

LocksInit == chosen \in {"jsonl", "file"} /\ Init /\ LockInit

LocksNext ==
  \/ Jsonl /\ Next /\ UNCHANGED <<flVars, chosen>>
  \/ File /\ LockNext /\ UNCHANGED <<vars, chosen>>

\* The fairness of each module, for the lock that is in use.
LocksFairness ==
  /\ \A r \in Runs : /\ WF_allVars(Jsonl /\ AcquireLock(r) /\ UNCHANGED <<flVars, chosen>>)
                     /\ WF_allVars(Jsonl /\ EndRun(r) /\ UNCHANGED <<flVars, chosen>>)
  /\ \A p \in Procs :
       /\ WF_allVars(File /\ TakeLock(p) /\ UNCHANGED <<vars, chosen>>)
       /\ WF_allVars(File /\ Heartbeat(p) /\ UNCHANGED <<vars, chosen>>)
       /\ WF_allVars(File /\ DropLock(p) /\ UNCHANGED <<vars, chosen>>)
       /\ WF_allVars(File /\ BeginAcquire(p) /\ UNCHANGED <<vars, chosen>>)
  /\ WF_allVars(File /\ TimePasses /\ UNCHANGED <<vars, chosen>>)

LocksSpec == LocksInit /\ [][LocksNext]_allVars /\ LocksFairness

\* Outside the gaps of the file lock it has one holder (ExclusiveButForGaps, FileLock).
FileLockExcludes == LockTypeOK /\ ExclusiveButForGaps

\* Every run of the JSONL store ends (EveryRunEnds, SessionLock); under the file store, a
\* lock left behind does not keep the others out for ever (LeftoverLockYields, FileLock).
EveryLockWaitEnds == /\ Jsonl => EveryRunEnds
                     /\ LeftoverLockYields
=============================================================================

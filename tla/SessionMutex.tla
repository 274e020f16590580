---------------------------- MODULE SessionMutex ----------------------------
(***************************************************************************)
(* What the session lock promises its callers, whatever store backs it:   *)
(* of the runs that want to resume one session, at most one at a time is   *)
(* between a successful acquireSessionLock and the release it returned,    *)
(* and a run that has given up or ended never comes back.                  *)
(* SessionLock (the default JSONL/SQLite store) implements this module     *)
(* under the assumption that its header names.                             *)
(***************************************************************************)
CONSTANT Runs      \* the runs that want to resume the session

VARIABLES holders, \* the runs inside: their lock is acquired, not released
          ended    \* the runs that will not enter (again)

vars == <<holders, ended>>

TypeOK ==
  /\ holders \subseteq Runs
  /\ ended \subseteq Runs

Init ==
  /\ holders = {}
  /\ ended = {}

\* A run gets the lock: nobody has it.
Enter(r) ==
  /\ holders = {}
  /\ r \notin ended
  /\ holders' = {r}
  /\ UNCHANGED ended

\* The holder is done with the lock, by releasing it or by dying.
Leave(r) ==
  /\ r \in holders
  /\ holders' = holders \ {r}
  /\ ended' = ended \cup {r}

\* A run that never got the lock stops trying.
GiveUp(r) ==
  /\ r \notin holders
  /\ ended' = ended \cup {r}
  /\ UNCHANGED holders

Next == \E r \in Runs : Enter(r) \/ Leave(r) \/ GiveUp(r)

Spec == Init /\ [][Next]_vars
=============================================================================

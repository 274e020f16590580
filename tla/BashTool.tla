------------------------------ MODULE BashTool ------------------------------
(***************************************************************************)
(* The processes behind one call of a tool that runs a shell: the bash     *)
(* tool (bash.ts), which starts a process group of its own, and the tools  *)
(* declared by a file (load-tools.ts), which do not.  Processes of the     *)
(* command fork, leave the group, drop the pipe and ignore signals as they *)
(* like; the call is answered when the shell has ended and nobody holds    *)
(* the pipe any more.                                                      *)
(***************************************************************************)
EXTENDS Naturals

CONSTANTS Procs, Shell  \* what a command may start, the first of them

ASSUME BashAssumption == Shell \in Procs

VARIABLES procs,     \* each process: alive?, in the group?, holds the pipe?, ignores SIGTERM?
          bashCall   \* the call: its tool, where it is, timed out?, in the OS sandbox?

bashVars == <<procs, bashCall>>

BashStages == {"asked", "refused", "running", "terminated", "killed", "answered"}

BashTypeOK ==
  /\ procs \in [Procs -> [at : {"none", "alive", "dead"}, group : BOOLEAN, pipe : BOOLEAN, deaf : BOOLEAN]]
  /\ bashCall \in [tool : {"bash", "declared"}, at : BashStages, overdue : BOOLEAN, boxed : BOOLEAN]

BashInit ==
  /\ procs = [p \in Procs |-> [at |-> "none", group |-> TRUE, pipe |-> TRUE, deaf |-> FALSE]]
  /\ bashCall \in [tool : {"bash", "declared"}, at : {"asked"}, overdue : {FALSE}, boxed : {FALSE}]

IsAlive(p) == procs[p].at = "alive"
Group == {p \in Procs : IsAlive(p) /\ procs[p].group}
PipeHolders == {p \in Procs : IsAlive(p) /\ procs[p].pipe}
Ended(gone) == [p \in Procs |-> IF p \in gone THEN [procs[p] EXCEPT !.at = "dead"] ELSE procs[p]]

-----------------------------------------------------------------------------
\* The platform has no shell, the input or its timeout is not valid, the
\* policy blocks the command, or spawn fails.
Refuse ==
  /\ bashCall.at = "asked"
  /\ bashCall' = [bashCall EXCEPT !.at = "refused"]
  /\ UNCHANGED procs

\* The bash tool asks for the sandbox unless the policy says otherwise.  With
\* a root that exists and no sandbox program it refuses; a root that does not
\* exist yet means no sandbox.
StartShell(wanted, root, program) ==
  /\ bashCall.at = "asked"
  /\ LET box == bashCall.tool = "bash" /\ wanted /\ root = "exists"
     IN  IF box /\ ~program
           THEN bashCall' = [bashCall EXCEPT !.at = "refused"] /\ UNCHANGED procs
           ELSE /\ bashCall' = [bashCall EXCEPT !.at = "running", !.boxed = box]
                /\ procs' = [procs EXCEPT ![Shell].at = "alive"]

\* Signals that are ignored are ignored by the children too.
Fork(p, q, group, pipe) ==
  /\ IsAlive(p) /\ procs[q].at = "none"
  /\ procs' = [procs EXCEPT ![q] = [at |-> "alive", group |-> procs[p].group /\ group,
                                    pipe |-> procs[p].pipe /\ pipe, deaf |-> procs[p].deaf]]
  /\ UNCHANGED bashCall

IgnoreTerm(p) ==
  /\ IsAlive(p)
  /\ procs' = [procs EXCEPT ![p].deaf = TRUE]
  /\ UNCHANGED bashCall

EndProc(p) ==
  /\ IsAlive(p)
  /\ procs' = Ended({p})
  /\ UNCHANGED bashCall

\* SIGTERM to the group that the shell leads, or to the shell alone.
Terminated(tool) == {p \in IF tool = "bash" THEN Group ELSE {Shell} : ~procs[p].deaf}

\* Mutant: proc.kill for both tools.
ShellTimesOutAlone ==
  /\ bashCall.at = "running"
  /\ procs' = Ended({p \in {Shell} : ~procs[p].deaf})
  /\ bashCall' = [bashCall EXCEPT !.overdue = TRUE,
                    !.at = IF bashCall.tool = "bash" THEN "terminated" ELSE "answered"]

\* A declared tool is answered at once.
ShellTimesOut ==
  /\ bashCall.at = "running"
  /\ procs' = Ended(Terminated(bashCall.tool))
  /\ bashCall' = [bashCall EXCEPT !.overdue = TRUE,
                    !.at = IF bashCall.tool = "bash" THEN "terminated" ELSE "answered"]

\* Two seconds later SIGKILL to the group.
KillGroup ==
  /\ bashCall.at = "terminated"
  /\ procs' = Ended(Group)
  /\ bashCall' = [bashCall EXCEPT !.at = "killed"]

\* "close" clears both timers.
ShellCloses ==
  /\ bashCall.at \in {"running", "terminated", "killed"}
  /\ ~IsAlive(Shell) /\ PipeHolders = {}
  /\ bashCall' = [bashCall EXCEPT !.at = "answered"]
  /\ UNCHANGED procs

BashNext ==
  \/ Refuse \/ ShellTimesOut \/ KillGroup \/ ShellCloses
  \/ \E wanted, program \in BOOLEAN, root \in {"none", "missing", "exists"} :
       StartShell(wanted, root, program)
  \/ \E p, q \in Procs, group, pipe \in BOOLEAN : Fork(p, q, group, pipe)
  \/ \E p \in Procs : IgnoreTerm(p) \/ EndProc(p)

\* Timers fire and events arrive; processes may run for ever.
BashFairness == WF_bashVars(ShellTimesOut) /\ WF_bashVars(KillGroup) /\ WF_bashVars(ShellCloses)

BashSpec == BashInit /\ [][BashNext]_bashVars /\ BashFairness

-----------------------------------------------------------------------------
(***************************************************************************)
(* Properties                                                              *)
(***************************************************************************)

\* A command that runs over its time leaves nothing of its group behind but
\* what ignores SIGTERM and has dropped the pipe: for this a call that is
\* answered cancels the SIGKILL.
OnlyTheDeafRemain ==
  bashCall.tool = "bash" /\ bashCall.overdue =>
    \A p \in Group : procs[p].deaf /\ (bashCall.at = "answered" => ~procs[p].pipe)

\* A command that hangs and ignores SIGTERM, itself or in what it has started,
\* does not keep the call open, unless a process that has left the group
\* holds the pipe.
BashCallEnds ==
  [](PipeHolders \subseteq Group) /\ bashCall.at = "running" ~> bashCall.at = "answered"
=============================================================================

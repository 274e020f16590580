----------------------------- MODULE Subprocess -----------------------------
(***************************************************************************)
(* A run in a child process (subprocess.ts): the caller's promise, which   *)
(* the child's answer, its end, an error of spawn or of its stdin, and the *)
(* timeout race to settle; the child, which reads one request, streams     *)
(* events and answers; the lines under way from one to the other.          *)
(*                                                                         *)
(* The child has the signal handlers of index.ts, which prints a result of *)
(* its own and asks the loop to stop, and of tools/browser.ts, which exits *)
(* with code 0 once no browser is open, after five seconds at the latest.  *)
(***************************************************************************)
EXTENDS Naturals, Sequences

CONSTANT MaxLines  \* bound: lines in the pipe

ASSUME SubprocessAssumption == MaxLines \in Nat \ {0}

VARIABLES method,   \* of the request: runAgentLoopSubprocess or runCompareSubprocess
          deadline, \* opts.timeoutMs: "none", "armed", "cleared" or "fired"
          promise,  \* "pending", "resolved" or "rejected"
          cause,    \* what settled it
          caller,   \* the parent process lives
          child,    \* where the child is
          code,     \* its exit code, 0 or not
          grace,    \* killChild's timer runs
          ran,      \* the request: "unread", "taken", then "done" or "failed"
          lines,    \* on their way from the child
          late      \* history: an event was forwarded after the promise settled

parentVars == <<deadline, promise, cause, caller, grace, late>>
childVars == <<child, code, ran>>
spVars == <<method, parentVars, childVars, lines>>

Methods == {"agent/run", "compare/run"}
\* "plain": the result that handleInterrupt prints, which is not JSON-RPC;
\* "oversized": a line beyond MAX_LINE_BYTES.
Lines == {"event", "plain", "result", "error", "oversized"}
Causes == {"none", "answer", "close", "spawn", "stdin", "timeout"}

ChildLives == child \notin {"exited", "unspawned"}

ChannelTypeOK ==
  /\ method \in Methods
  /\ deadline \in {"none", "armed", "cleared", "fired"}
  /\ promise \in {"pending", "resolved", "rejected"}
  /\ cause \in Causes
  /\ child \in {"starting", "reading", "running", "asked", "leaving", "exited", "unspawned"}
  /\ code \in {0, 1}
  /\ ran \in {"unread", "taken", "done", "failed"}
  /\ lines \in Seq(Lines) /\ Len(lines) <= MaxLines + 2
  /\ {caller, grace, late} \subseteq BOOLEAN

ChannelInit ==
  /\ method \in Methods
  /\ deadline \in {"none", "armed"}
  /\ promise = "pending" /\ cause = "none" /\ caller = TRUE
  /\ child = "starting" /\ code = 0 /\ ran = "unread"
  /\ grace = FALSE /\ late = FALSE
  /\ lines = <<>>

-----------------------------------------------------------------------------
(***************************************************************************)
(* The parent                                                              *)
(***************************************************************************)

\* if (!settled) { settled = true; ... }
Settles(how, why) ==
  IF promise = "pending" THEN promise' = how /\ cause' = why
                         ELSE UNCHANGED <<promise, cause>>

Cleanup == deadline' = IF deadline = "armed" THEN "cleared" ELSE deadline

\* rl.on("line"): events are forwarded, settled or not; what is not JSON-RPC
\* or too long is dropped; the answer settles the promise.
ReadsLine ==
  /\ caller /\ lines # <<>>
  /\ lines' = Tail(lines)
  /\ late' = (late \/ (Head(lines) = "event" /\ promise # "pending"))
  /\ IF Head(lines) \in {"result", "error"}
       THEN Cleanup /\ Settles(IF Head(lines) = "error" THEN "rejected" ELSE "resolved", "answer")
       ELSE UNCHANGED <<deadline, promise, cause>>
  /\ UNCHANGED <<method, caller, grace, childVars>>

\* Mutant: a child that exits with code 0 has succeeded.
SeesCloseTrusting ==
  /\ caller /\ child = "exited" /\ lines = <<>>
  /\ deadline = "armed" \/ promise = "pending"
  /\ Cleanup
  /\ Settles(IF code = 0 THEN "resolved" ELSE "rejected", "close")
  /\ UNCHANGED <<method, caller, grace, late, childVars, lines>>

\* child.on("close"): it has exited and its lines are read.  No answer was
\* among them, or the promise would be settled: whatever its code, it failed.
SeesClose ==
  /\ caller /\ child = "exited" /\ lines = <<>>
  /\ deadline = "armed" \/ promise = "pending"
  /\ Cleanup
  /\ Settles("rejected", "close")
  /\ UNCHANGED <<method, caller, grace, late, childVars, lines>>

\* child.on("error"): there is no such binary.
SpawnFails ==
  /\ caller /\ child = "starting"
  /\ child' = "unspawned"
  /\ Cleanup
  /\ Settles("rejected", "spawn")
  /\ UNCHANGED <<method, caller, grace, late, code, ran, lines>>

\* stdin.on("error"): the child was gone before it had read the request.
StdinFails ==
  /\ caller /\ child = "exited" /\ ran = "unread" /\ promise = "pending"
  /\ Cleanup
  /\ Settles("rejected", "stdin")
  /\ UNCHANGED <<method, caller, grace, late, childVars, lines>>

\* What SIGTERM does: it kills a child that has no handler yet; later, the
\* handlers print a result and end it, at once if it has no browser open.  A
\* second signal ends it with code 1.
TerminatedChild ==
  CASE child \in {"starting", "asked"} ->
         child' = "exited" /\ code' = 1 /\ UNCHANGED lines
    [] child \in {"reading", "running", "leaving"} ->
         /\ child' \in {"exited"} \cup (IF child = "reading" THEN {} ELSE {"asked"})
         /\ code' = 0 /\ lines' = Append(lines, "plain")
    [] OTHER -> UNCHANGED <<child, code, lines>>

TimesOut ==
  /\ caller /\ deadline = "armed" /\ promise = "pending"
  /\ deadline' = "fired"
  /\ Settles("rejected", "timeout")
  /\ TerminatedChild
  /\ grace' = TRUE
  /\ UNCHANGED <<method, caller, late, ran>>

\* SIGKILL after SIGKILL_GRACE_MS; the timer is unref'd, so that the parent
\* need not live to see it.
KillsChild ==
  /\ caller /\ grace
  /\ grace' = FALSE
  /\ child' = IF ChildLives THEN "exited" ELSE child
  /\ code' = IF ChildLives THEN 1 ELSE code
  /\ UNCHANGED <<method, deadline, promise, cause, caller, late, ran, lines>>

CallerExits ==
  /\ caller /\ promise # "pending"
  /\ caller' = FALSE
  /\ grace' = FALSE
  /\ UNCHANGED <<method, deadline, promise, cause, late, childVars, lines>>

-----------------------------------------------------------------------------
(***************************************************************************)
(* The child                                                               *)
(***************************************************************************)
Starts ==
  /\ child = "starting"
  /\ child' = "reading"
  /\ UNCHANGED <<method, parentVars, code, ran, lines>>

\* startSubprocessServer: the first line is the request.
TakesRequest ==
  /\ child = "reading"
  /\ child' = "running" /\ ran' = "taken"
  /\ UNCHANGED <<method, parentVars, code, lines>>

\* It is too long, or stdin closes before it: main() catches the error.
RefusesRequest ==
  /\ child = "reading"
  /\ child' = "exited" /\ code' = 1
  /\ UNCHANGED <<method, parentVars, ran, lines>>

EmitsEvent ==
  /\ child \in {"running", "asked"} /\ ran = "taken"
  /\ Len(lines) < MaxLines
  /\ lines' = Append(lines, "event")
  /\ UNCHANGED <<method, parentVars, childVars>>

\* handleAgentRun, handleCompareRun: the run returns.  A comparison's result
\* may be too long for the parent.
ResponseKinds ==
  /\ child \in {"running", "asked"} /\ ran = "taken"
  /\ Len(lines) < MaxLines
  /\ ran' = "done"
  /\ \E line \in {"result"} \cup (IF method = "compare/run" THEN {"oversized"} ELSE {}) :
       lines' = Append(lines, line)
  /\ child' = "leaving"
  /\ UNCHANGED <<method, parentVars, code>>

\* It throws: the error is written, and process.exit(1) may cut it off.
Fails ==
  /\ child \in {"running", "asked"} /\ ran = "taken"
  /\ ran' = "failed"
  /\ lines' \in {lines, Append(lines, "error")}
  /\ child' = "exited" /\ code' = 1
  /\ UNCHANGED <<method, parentVars>>

\* main() returns, and nothing keeps the process alive.
Leaves ==
  /\ child = "leaving"
  /\ child' = "exited" /\ code' = 0
  /\ UNCHANGED <<method, parentVars, ran, lines>>

\* The browsers are closed, or their five seconds are over.
BrowsersClose ==
  /\ child = "asked"
  /\ child' = "exited" /\ code' = 0
  /\ UNCHANGED <<method, parentVars, ran, lines>>

\* Somebody else sends SIGTERM.
ChildTerminated ==
  /\ ChildLives
  /\ TerminatedChild
  /\ UNCHANGED <<method, parentVars, ran>>

\* It is killed from outside, or runs out of memory.
ChildDies ==
  /\ ChildLives
  /\ child' = "exited" /\ code' = 1
  /\ UNCHANGED <<method, parentVars, ran, lines>>

ChannelNext ==
  \/ ReadsLine \/ SeesClose \/ SpawnFails \/ StdinFails \/ TimesOut \/ KillsChild
  \/ CallerExits \/ Starts \/ TakesRequest \/ RefusesRequest \/ EmitsEvent \/ ResponseKinds
  \/ Fails \/ Leaves \/ BrowsersClose \/ ChildTerminated \/ ChildDies

\* The event loop of the parent runs, and so do both processes' timers; a
\* process that starts or that has nothing left to do goes on.  Nothing is
\* assumed of how long the child's run takes.
ChannelFairness ==
  /\ WF_spVars(ReadsLine) /\ WF_spVars(SeesClose)
  /\ WF_spVars(TimesOut) /\ WF_spVars(KillsChild)
  /\ WF_spVars(Starts) /\ WF_spVars(Leaves) /\ WF_spVars(BrowsersClose)

ChannelSpec == ChannelInit /\ [][ChannelNext]_spVars /\ ChannelFairness

-----------------------------------------------------------------------------
(***************************************************************************)
(* Properties                                                              *)
(***************************************************************************)

\* The caller is told that the run succeeded only if it did, whatever is
\* lost, killed or dropped on the way.
ResolvedOnlyIfDone == promise = "resolved" => (ran = "done" /\ cause = "answer")

\* The caller's onEmit is called after its promise settled only when a
\* timeout settled it (or a broken stdin): an answer and an end are read last.
LateEventsOnlyAfterTimeout == late => cause \in {"timeout", "stdin"}

\* The promise settles once the child is gone, or the deadline is set.
CallSettles == (~ChildLives \/ deadline = "armed") ~> promise # "pending"

\* A child whose caller gave up on it ends, even if the caller is gone before
\* its SIGKILL is due.
GivenUpChildEnds == (cause = "timeout") ~> ~ChildLives
=============================================================================

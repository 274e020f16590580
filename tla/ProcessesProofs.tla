--------------------------- MODULE ProcessesProofs ---------------------------
(***************************************************************************)
(* Proofs about what waits for something else, for any number of           *)
(* processes, calls and trainings: child processes, the lock of a command  *)
(* line, clients of tool servers, memory files, trainings, commands of     *)
(* bash, the server of tools and downloads.  Each part has an invariant of *)
(* its own; the last section brings them together, with the loop of a run, *)
(* for the specification that the run checks.                              *)
(***************************************************************************)
EXTENDS MCProcesses, AgentLoopProofs, SequenceTheorems, WellFoundedInduction

-----------------------------------------------------------------------------
(***************************************************************************)
(* A child process (Subprocess).                                           *)
(***************************************************************************)

\* The lines that settle the promise.
ChildAnswers == {"result", "error"}

\* The pipe has room for what a child may still print: one line when a signal
\* arrives, one for an error.
PipeRoom ==
  CASE child = "asked" -> MaxLines + 1
    [] child \in {"exited", "unspawned"} -> MaxLines + 2
    [] OTHER -> MaxLines

\* A child that has not taken a request has printed nothing, and one that was
\* never started never does.
Untaken ==
  /\ child \in {"starting", "reading"} => ran = "unread"
  /\ child \in {"starting", "reading", "unspawned"} => lines = <<>>

\* An answer under way is that of a run which has ended, and no event follows it.
Truthful ==
  /\ \A i \in 1..Len(lines) : lines[i] = "result" => ran = "done"
  /\ \A i \in 1..Len(lines) : lines[i] \in ChildAnswers => ran \in {"done", "failed"}
  /\ \A i, j \in 1..Len(lines) : i < j /\ lines[i] \in ChildAnswers => lines[j] # "event"

\* What has settled the promise, and that no event is left to be read after an
\* answer or the end.
Settled ==
  /\ promise = "pending" <=> cause = "none"
  /\ promise = "resolved" => ran = "done" /\ cause = "answer"
  /\ cause = "answer" => /\ ran \in {"done", "failed"}
                         /\ \A i \in 1..Len(lines) : lines[i] # "event"
  /\ cause = "close" => child = "exited" /\ lines = <<>>
  /\ cause = "spawn" => child = "unspawned"
  /\ late => cause \in {"timeout", "stdin"}

\* The inductive invariant of the parts above.
ChildInv == ChannelTypeOK /\ Len(lines) <= PipeRoom /\ Untaken /\ Truthful /\ Settled

\* Nothing has been sent at first.
LEMMA ChildInit == ChannelInit => ChildInv
<1> SUFFICES ASSUME ChannelInit PROVE ChildInv
  OBVIOUS
<1>1. MaxLines \in Nat
  BY SubprocessAssumption
<1>2. lines = <<>> /\ Len(lines) = 0 /\ lines \in Seq(Lines)
  BY DEF ChannelInit
<1>3. {caller, grace, late} \subseteq BOOLEAN
  BY Zenon DEF ChannelInit
<1>4. ChannelTypeOK
  BY <1>1, <1>2, <1>3 DEF ChannelInit, ChannelTypeOK, Methods, Causes
<1> QED
  BY <1>1, <1>2, <1>4 DEF ChannelInit, ChildInv, PipeRoom, Untaken, Truthful, Settled

\* A line that is appended comes last.
LEMMA LineAppended ==
  ASSUME ChannelTypeOK, NEW line \in Lines
  PROVE  LET more == Append(lines, line)
         IN  /\ more \in Seq(Lines) /\ Len(more) = Len(lines) + 1 /\ Len(lines) \in Nat
             /\ more[Len(lines) + 1] = line
             /\ \A i \in 1..Len(lines) : more[i] = lines[i]
  BY DEF ChannelTypeOK

\* The parent reads a line: only the first answer settles the promise.
LEMMA ReadsLineStep == ASSUME ChildInv, ReadsLine PROVE ChildInv'
<1> USE SubprocessAssumption
<1> DEFINE l == Head(lines)
<1>1. /\ lines # <<>> /\ lines \in Seq(Lines) /\ Len(lines) \in Nat \ {0}
      /\ l = lines[1] /\ l \in Lines
  BY DEF ChildInv, ChannelTypeOK, ReadsLine
<1>2. /\ lines' \in Seq(Lines) /\ Len(lines') = Len(lines) - 1
      /\ \A i \in 1..Len(lines') : lines'[i] = lines[i + 1] /\ i + 1 \in 1..Len(lines)
  BY <1>1 DEF ReadsLine
<1>3. UNCHANGED <<method, caller, grace, child, code, ran>>
  BY DEF ReadsLine, childVars
<1>4. Truthful'
  BY <1>1, <1>2, <1>3 DEF ChildInv, Truthful, ChildAnswers
<1>5. Untaken' /\ Len(lines') <= PipeRoom'
  BY <1>1, <1>2, <1>3 DEF ChildInv, Untaken, PipeRoom, ChannelTypeOK
<1>6. ChannelTypeOK' /\ Settled'
  <2>1. CASE l \notin ChildAnswers
    <3>1. UNCHANGED <<deadline, promise, cause>>
      BY <2>1 DEF ReadsLine, ChildAnswers
    <3>2. late' = (late \/ (l = "event" /\ promise # "pending"))
      BY DEF ReadsLine
    <3>3. ChannelTypeOK'
      BY <1>1, <1>2, <1>3, <3>1, <3>2 DEF ChildInv, ChannelTypeOK
    <3>4. l = "event" /\ promise # "pending" => cause \in {"timeout", "stdin"}
      BY <1>1 DEF ChildInv, Settled, ChannelTypeOK, Untaken, Causes
    <3> QED
      BY <1>1, <1>2, <1>3, <3>1, <3>2, <3>3, <3>4 DEF ChildInv, Settled
  <2>2. CASE l \in ChildAnswers
    <3>1. late' = late /\ Cleanup
          /\ Settles(IF l = "error" THEN "rejected" ELSE "resolved", "answer")
      BY <2>2 DEF ReadsLine, ChildAnswers, ChildInv, ChannelTypeOK
    <3>2. ran \in {"done", "failed"} /\ (l = "result" => ran = "done")
      BY <1>1, <2>2 DEF ChildInv, Truthful
    <3>3. \A i \in 1..Len(lines') : lines'[i] # "event"
      BY <1>1, <1>2, <2>2 DEF ChildInv, Truthful
    <3>4. CASE promise = "pending"
      <4>1. /\ promise' = (IF l = "error" THEN "rejected" ELSE "resolved") /\ cause' = "answer"
            /\ ~late
        BY <3>1, <3>4 DEF Settles, ChildInv, Settled
      <4> QED
        BY <1>1, <1>2, <1>3, <2>2, <3>1, <3>2, <3>3, <4>1
           DEF ChildInv, Settled, ChannelTypeOK, ChildAnswers, Cleanup, Causes
    <3>5. CASE promise # "pending"
      <4>1. UNCHANGED <<promise, cause>>
        BY <3>1, <3>5 DEF Settles
      <4> QED
        BY <1>1, <1>2, <1>3, <3>1, <3>3, <4>1 DEF ChildInv, Settled, ChannelTypeOK, Cleanup
    <3> QED
      BY <3>4, <3>5
  <2> QED
    BY <2>1, <2>2
<1> QED
  BY <1>4, <1>5, <1>6 DEF ChildInv

\* The other events of the parent leave the pipe alone.
LEMMA ParentStep ==
  ASSUME ChildInv, SeesClose \/ SpawnFails \/ StdinFails \/ KillsChild \/ CallerExits
  PROVE  ChildInv'
<1> USE SubprocessAssumption
<1>1. lines' = lines /\ ran' = ran /\ late' = late /\ method' = method
  BY DEF SeesClose, SpawnFails, StdinFails, KillsChild, CallerExits, childVars
<1>2. Truthful'
  BY <1>1 DEF ChildInv, Truthful
<1>3. CASE SeesClose
  BY <1>1, <1>2, <1>3 DEF ChildInv, SeesClose, Settles, Cleanup, childVars, ChannelTypeOK, PipeRoom, Untaken, Settled, Causes
<1>4. CASE SpawnFails
  BY <1>1, <1>2, <1>4 DEF ChildInv, SpawnFails, Settles, Cleanup, ChannelTypeOK, PipeRoom, Untaken, Settled, Causes
<1>5. CASE StdinFails
  BY <1>1, <1>2, <1>5 DEF ChildInv, StdinFails, Settles, Cleanup, childVars, ChannelTypeOK, PipeRoom, Untaken, Settled, Causes
<1>6. CASE KillsChild
  <2>1. {caller, grace, late}' \subseteq BOOLEAN
    <3>1. caller' \in {caller, FALSE} /\ grace' = FALSE /\ late' = late
      BY <1>1, <1>6 DEF KillsChild
    <3>2. {caller, late} \subseteq BOOLEAN
      BY DEF ChildInv, ChannelTypeOK
    <3> QED
      BY <3>1, <3>2, Zenon
  <2> QED
    BY <1>1, <1>2, <1>6, <2>1 DEF ChildInv, KillsChild, ChildLives, ChannelTypeOK, PipeRoom, Untaken, Settled
<1>7. CASE CallerExits
  <2>1. {caller, grace, late}' \subseteq BOOLEAN
    <3>1. caller' \in {caller, FALSE} /\ grace' = FALSE /\ late' = late
      BY <1>1, <1>7 DEF CallerExits
    <3>2. {caller, late} \subseteq BOOLEAN
      BY DEF ChildInv, ChannelTypeOK
    <3> QED
      BY <3>1, <3>2, Zenon
  <2> QED
    BY <1>1, <1>2, <1>7, <2>1 DEF ChildInv, CallerExits, childVars, ChannelTypeOK, PipeRoom, Untaken, Settled
<1> QED
  BY <1>3, <1>4, <1>5, <1>6, <1>7

\* SIGTERM, after a timeout or from elsewhere.
LEMMA TerminatedStep == ASSUME ChildInv, TimesOut \/ ChildTerminated PROVE ChildInv'
<1> USE SubprocessAssumption
<1>1. /\ TerminatedChild /\ method' = method /\ ran' = ran /\ late' = late /\ caller' = caller
      /\ grace' \in {grace, TRUE}
  BY DEF TimesOut, ChildTerminated, parentVars, ChildInv, ChannelTypeOK
<1>2. \/ UNCHANGED <<promise, cause, deadline>>
      \/ /\ promise = "pending" /\ promise' = "rejected" /\ cause' = "timeout"
         /\ deadline' = "fired"
  BY DEF TimesOut, ChildTerminated, parentVars, Settles
<1>3. CASE child \in {"starting", "asked"}
  <2>1. child' = "exited" /\ code' = 1 /\ lines' = lines
    BY <1>1, <1>3 DEF TerminatedChild
  <2>2. Truthful'
    BY <1>1, <2>1 DEF ChildInv, Truthful
  <2> QED
    BY <1>1, <1>2, <1>3, <2>1, <2>2 DEF ChildInv, ChannelTypeOK, PipeRoom, Untaken, Settled, Causes
<1>4. CASE child \in {"reading", "running", "leaving"}
  <2>1. /\ child' \in {"exited"} \cup (IF child = "reading" THEN {} ELSE {"asked"})
        /\ code' = 0 /\ lines' = Append(lines, "plain")
    BY <1>1, <1>4 DEF TerminatedChild
  <2>2. "plain" \in Lines
    BY DEF Lines
  <2>3. /\ lines' \in Seq(Lines) /\ Len(lines') = Len(lines) + 1 /\ Len(lines) \in Nat
        /\ lines'[Len(lines) + 1] = "plain"
        /\ \A i \in 1..Len(lines) : lines'[i] = lines[i]
    BY <2>1, <2>2, LineAppended DEF ChildInv
  <2>4. Truthful'
    <3>1. \A i \in 1..Len(lines') : i \in 1..Len(lines) \/ i = Len(lines) + 1
      BY <2>3
    <3> QED
      BY <1>1, <2>3, <3>1 DEF ChildInv, Truthful, ChildAnswers
  <2>5. Len(lines') <= PipeRoom'
    BY <1>4, <2>1, <2>3 DEF ChildInv, PipeRoom
  <2>6. Len(lines') <= MaxLines + 2
    BY <2>1, <2>5 DEF PipeRoom
  <2>7. ChannelTypeOK'
    BY <1>1, <1>2, <2>1, <2>3, <2>6 DEF ChildInv, ChannelTypeOK, Causes
  <2>8. cause' = "answer" => \A i \in 1..Len(lines') : lines'[i] # "event"
    <3>1. \A i \in 1..Len(lines') : i \in 1..Len(lines) \/ i = Len(lines) + 1
      BY <2>3
    <3> QED
      BY <1>2, <2>3, <3>1 DEF ChildInv, Settled
  <2>9. Settled'
    BY <1>1, <1>2, <1>4, <2>8 DEF ChildInv, Settled
  <2>10. Untaken'
    BY <1>1, <2>1 DEF Untaken
  <2> QED
    BY <2>4, <2>5, <2>7, <2>9, <2>10 DEF ChildInv
<1>5. CASE ~ChildLives
  <2>1. UNCHANGED <<child, code, lines>>
    BY <1>1, <1>5 DEF TerminatedChild, ChildLives, ChildInv, ChannelTypeOK
  <2>2. Truthful'
    BY <1>1, <2>1 DEF ChildInv, Truthful
  <2> QED
    BY <1>1, <1>2, <2>1, <2>2 DEF ChildInv, ChannelTypeOK, PipeRoom, Untaken, Settled, Causes
<1> QED
  BY <1>3, <1>4, <1>5 DEF ChildInv, ChannelTypeOK, ChildLives

\* A line of the running child: an event, the response, or an error.
LEMMA PrintsStep == ASSUME ChildInv, EmitsEvent \/ ResponseKinds \/ Fails PROVE ChildInv'
<1> USE SubprocessAssumption
<1>1. /\ UNCHANGED <<method, deadline, promise, cause, caller, grace, late>>
      /\ child \in {"running", "asked"} /\ ran = "taken"
      /\ cause \notin {"answer", "close", "spawn"}
  BY DEF EmitsEvent, ResponseKinds, Fails, parentVars, ChildInv, Settled
<1>2. \A i \in 1..Len(lines) : lines[i] \notin ChildAnswers
  BY <1>1 DEF ChildInv, Truthful
<1>3. promise # "resolved"
  BY <1>1 DEF ChildInv, Settled
<1>4. CASE lines' = lines
  <2>1. Fails
    <3>1. ASSUME NEW line, lines' = Append(lines, line) PROVE FALSE
      <4>1. Len(lines') = Len(lines) + 1 /\ Len(lines) \in Nat
        BY <3>1 DEF ChildInv, ChannelTypeOK
      <4> QED
        BY <1>4, <4>1
    <3> QED
      BY <3>1 DEF EmitsEvent, ResponseKinds
  <2>2. ran' = "failed" /\ child' = "exited" /\ code' = 1
    BY <2>1 DEF Fails
  <2>3. Truthful'
    BY <1>2, <1>4 DEF Truthful, ChildAnswers
  <2> QED
    BY <1>1, <1>3, <1>4, <2>2, <2>3 DEF ChildInv, ChannelTypeOK, PipeRoom, Untaken, Settled
<1>5. ASSUME NEW line \in Lines, lines' = Append(lines, line),
             line = "event" => ran' = "taken",
             line = "result" => ran' = "done",
             line = "error" => ran' = "failed",
             ran' \in {"taken", "done", "failed"}, code' \in {0, 1},
             \/ child' \in {child, "leaving"} /\ Len(lines) < MaxLines
             \/ child' = "exited"
      PROVE  ChildInv'
  <2>1. /\ lines' \in Seq(Lines) /\ Len(lines') = Len(lines) + 1 /\ Len(lines) \in Nat
        /\ lines'[Len(lines) + 1] = line
        /\ \A i \in 1..Len(lines) : lines'[i] = lines[i]
    BY <1>5, LineAppended DEF ChildInv
  <2>2. \A i \in 1..Len(lines') : i \in 1..Len(lines) \/ i = Len(lines) + 1
    BY <2>1
  <2>3. Truthful'
    BY <1>2, <1>5, <2>1, <2>2 DEF Truthful, ChildAnswers
  <2>4. Len(lines') <= PipeRoom'
    BY <1>1, <1>5, <2>1 DEF ChildInv, PipeRoom
  <2>5. Len(lines') <= MaxLines + 2
    BY <2>4 DEF PipeRoom
  <2>6. ChannelTypeOK'
    BY <1>1, <1>5, <2>1, <2>5 DEF ChildInv, ChannelTypeOK
  <2>7. Settled' /\ Untaken'
    BY <1>1, <1>3, <1>5 DEF ChildInv, Settled, Untaken
  <2> QED
    BY <2>3, <2>4, <2>6, <2>7 DEF ChildInv
<1>6. CASE EmitsEvent
  <2>1. UNCHANGED <<child, code, ran>> /\ lines' = Append(lines, "event") /\ Len(lines) < MaxLines
    BY <1>6 DEF EmitsEvent, childVars
  <2> QED
    BY <1>1, <1>5, <2>1 DEF Lines, ChildInv, ChannelTypeOK
<1>7. CASE ResponseKinds
  <2>1. PICK line \in {"result", "oversized"} : lines' = Append(lines, line)
    BY <1>7 DEF ResponseKinds
  <2>2. ran' = "done" /\ child' = "leaving" /\ code' = code /\ Len(lines) < MaxLines
    BY <1>7 DEF ResponseKinds
  <2> QED
    BY <1>5, <2>1, <2>2 DEF Lines, ChildInv, ChannelTypeOK
<1>8. CASE Fails
  <2>1. CASE lines' = Append(lines, "error")
    BY <1>5, <1>8, <2>1 DEF Fails, Lines
  <2> QED
    BY <1>4, <1>8, <2>1 DEF Fails
<1> QED
  BY <1>6, <1>7, <1>8

\* The other steps of the child print nothing.
LEMMA ChildMoves ==
  ASSUME ChildInv,
         Starts \/ TakesRequest \/ RefusesRequest \/ Leaves \/ BrowsersClose \/ ChildDies
  PROVE  ChildInv'
<1> USE SubprocessAssumption
<1>1. UNCHANGED <<method, deadline, promise, cause, caller, grace, late, lines>>
  BY DEF Starts, TakesRequest, RefusesRequest, Leaves, BrowsersClose, ChildDies, parentVars
<1>2. CASE TakesRequest
  BY <1>1, <1>2 DEF TakesRequest, ChildInv, ChannelTypeOK, PipeRoom, Untaken, Truthful, Settled
<1>3. CASE ~TakesRequest
  <2>1. ran' = ran /\ child' \in {"reading", "exited"} /\ code' \in {0, 1}
        /\ child \in {"starting", "reading", "running", "asked", "leaving"}
        /\ (child' = "reading" => child = "starting")
    BY <1>3 DEF Starts, RefusesRequest, Leaves, BrowsersClose, ChildDies, ChildLives,
                ChildInv, ChannelTypeOK
  <2>2. Truthful'
    BY <1>1, <2>1 DEF ChildInv, Truthful
  <2> QED
    BY <1>1, <2>1, <2>2 DEF ChildInv, ChannelTypeOK, PipeRoom, Untaken, Settled
<1> QED
  BY <1>2, <1>3

\* All steps of the parent and of the child.
LEMMA ChildStep == ChildInv /\ [ChannelNext]_spVars => ChildInv'
<1> SUFFICES ASSUME ChildInv, [ChannelNext]_spVars PROVE ChildInv'
  OBVIOUS
<1>1. CASE UNCHANGED spVars
  BY <1>1 DEF spVars, parentVars, childVars, ChildInv, ChannelTypeOK, PipeRoom, Untaken, Truthful, Settled
<1> QED
  BY <1>1, ReadsLineStep, ParentStep, TerminatedStep, PrintsStep, ChildMoves DEF ChannelNext

\* For any number of lines: a promise is resolved only if the run has ended with a result,
\* and events reach the caller late only after a timeout or a broken stdin. No event
\* follows an answer in the pipe, and what settled the promise says what is left there.
THEOREM ChildInvariance == ChannelInit /\ [][ChannelNext]_spVars => []ChildInv
  BY ChildInit, ChildStep, PTL

-----------------------------------------------------------------------------
(***************************************************************************)
(* The lock of the command line (Cli).                                     *)
(***************************************************************************)

\* Who has the flag, or is about to unlink the file, made the file and wrote its
\* pid into it; who has opened it made it.
FileIsTheirs ==
  \A p \in Clis :
    /\ held[p] \/ where[p] \in {"unlinking", "killed"} => pidFile = p /\ maker = p
    /\ where[p] = "opened" => pidFile = Blank /\ maker = p

\* A file that was judged stale is that of no living process, and stays so.
JudgedStays == sawStale # {} => pidFile # Absent /\ ~Running(pidFile) /\ ~BeingWritten

\* The inductive invariant: a process with the flag is where it may have it, and the two
\* facts above hold until a step slips.
CliInv ==
  /\ CliTypeOK
  /\ \A p \in Clis : held[p] => where[p] \in {"checks", "loop", "ending"}
  /\ slip \/ (FileIsTheirs /\ JudgedStays)

\* There may be a file of a process that is gone.
LEMMA CliInvInit == CliInit => CliInv
<1> SUFFICES ASSUME CliInit PROVE CliInv
  OBVIOUS
<1> USE CliAssumption DEF CliInit
<1>1. CliTypeOK
  <2>1. left \in [Clis -> 1..Retries] /\ where \in [Clis -> CliStages]
    BY DEF CliStages
  <2>2. held \in [Clis -> BOOLEAN] /\ asked \in [Clis -> {"no", "int", "term"}] /\ slip \in BOOLEAN
    OBVIOUS
  <2> QED
    BY <2>1, <2>2 DEF CliTypeOK
<1> QED
  BY <1>1 DEF CliInv, FileIsTheirs, JudgedStays

\* Ending a process keeps the invariant.
LEMMA GoneStep ==
  ASSUME CliInv, NEW p \in Clis, NEW stage \in {"exited", "terminated"},
         Gone(p, stage), UNCHANGED pidFileVars, slip' \in BOOLEAN, slip => slip'
  PROVE  CliInv'
<1> USE CliAssumption
<1>1. /\ where' = [where EXCEPT ![p] = stage] /\ left' = [left EXCEPT ![p] = Retries]
      /\ held' = [held EXCEPT ![p] = FALSE] /\ asked' = [asked EXCEPT ![p] = "no"]
      /\ pidFile' = pidFile /\ maker' = maker /\ sawStale' = sawStale
  BY DEF Gone, To, pidFileVars
<1>2. /\ where \in [Clis -> CliStages] /\ held \in [Clis -> BOOLEAN]
      /\ left \in [Clis -> 1..Retries] /\ asked \in [Clis -> {"no", "int", "term"}]
      /\ stage \in CliStages
  BY DEF CliInv, CliTypeOK, CliStages
<1>3. /\ where' \in [Clis -> CliStages] /\ held' \in [Clis -> BOOLEAN]
      /\ left' \in [Clis -> 1..Retries] /\ asked' \in [Clis -> {"no", "int", "term"}]
  BY <1>1, <1>2
<1>4. CliTypeOK'
  BY <1>1, <1>3 DEF CliInv, CliTypeOK
<1>5. /\ where'[p] = stage /\ ~held'[p]
      /\ \A q \in Clis \ {p} : where'[q] = where[q] /\ held'[q] = held[q]
  BY <1>1, <1>2
<1>6. \A q \in Clis : held'[q] => where'[q] \in {"checks", "loop", "ending"}
  BY <1>5 DEF CliInv
<1>7. ASSUME ~slip' PROVE FileIsTheirs' /\ JudgedStays'
  BY <1>1, <1>5, <1>7 DEF CliInv, FileIsTheirs, JudgedStays, Running, BeingWritten, Alive, At
<1> QED
  BY <1>4, <1>6, <1>7 DEF CliInv

\* A process goes from one stage to another, neither of which says anything of the
\* file, or from holding it to holding it.
LEMMA StageStep ==
  ASSUME CliInv, NEW p \in Clis, NEW stage \in CliStages, To(p, stage),
         UNCHANGED <<pidFile, maker, held>>,
         \/ sawStale' = sawStale
         \/ sawStale' = sawStale \cup {p} /\ pidFile # Absent /\ ~Running(pidFile)
            /\ (slip' \/ ~BeingWritten),
         left' \in [Clis -> 1..Retries], asked' \in [Clis -> {"no", "int", "term"}],
         slip' \in BOOLEAN, slip => slip',
         where[p] \notin {"opened"}, stage # "opened",
         held[p] => stage \in {"checks", "loop", "ending"},
         stage \in {"unlinking", "killed"} => held[p],
         ~Alive(p) => pidFile # p
  PROVE  CliInv'
<1> USE CliAssumption
<1>1. where' = [where EXCEPT ![p] = stage] /\ pidFile' = pidFile /\ maker' = maker /\ held' = held
  BY DEF To
<1>2. where \in [Clis -> CliStages] /\ held \in [Clis -> BOOLEAN]
  BY DEF CliInv, CliTypeOK
<1>3. where' \in [Clis -> CliStages]
  BY <1>1, <1>2
<1>4. CliTypeOK'
  BY <1>1, <1>3 DEF CliInv, CliTypeOK
<1>5. where'[p] = stage /\ \A q \in Clis \ {p} : where'[q] = where[q]
  BY <1>1, <1>2
<1>6. \A q \in Clis : held'[q] => where'[q] \in {"checks", "loop", "ending"}
  BY <1>1, <1>5 DEF CliInv
<1>7. ASSUME ~slip' PROVE FileIsTheirs' /\ JudgedStays'
  <2>1. FileIsTheirs /\ JudgedStays
    BY <1>7 DEF CliInv
  <2>2. FileIsTheirs'
    BY <1>1, <1>5, <2>1 DEF FileIsTheirs
  <2>3. ~Running(pidFile) => ~Running(pidFile)'
    <3>1. ASSUME pidFile \in Clis, ~Alive(pidFile) PROVE ~Alive(pidFile)'
      BY <1>1, <1>5, <3>1 DEF Alive
    <3> QED
      BY <1>1, <3>1 DEF Running
  <2>4. ~BeingWritten => ~BeingWritten'
    BY <1>1, <1>5 DEF BeingWritten, At
  <2> QED
    BY <1>1, <1>7, <2>1, <2>2, <2>3, <2>4 DEF JudgedStays
<1> QED
  BY <1>4, <1>6, <1>7 DEF CliInv

\* The exclusive creation of the file.
LEMMA CreateStep ==
  ASSUME CliInv, NEW p \in Clis, NEW otherwise \in {"reading", "rereading"},
         where[p] \in {"acquire", "recreate"},
         CreatePidFile(p, otherwise), UNCHANGED <<left, held, asked, slip>>
  PROVE  CliInv'
<1> USE CliAssumption
<1>0. /\ where \in [Clis -> CliStages] /\ held \in [Clis -> BOOLEAN] /\ slip \in BOOLEAN
      /\ left \in [Clis -> 1..Retries] /\ asked \in [Clis -> {"no", "int", "term"}]
      /\ otherwise \in CliStages /\ "opened" \in CliStages
      /\ ~held[p] /\ Alive(p)
  BY DEF CliInv, CliTypeOK, CliStages, Alive
<1>1. CASE pidFile = Absent
  <2>1. pidFile' = Blank /\ maker' = p /\ sawStale' = {} /\ where' = [where EXCEPT ![p] = "opened"]
    BY <1>1 DEF CreatePidFile, To
  <2>2. where' \in [Clis -> CliStages]
    BY <1>0, <2>1
  <2>3. CliTypeOK'
    BY <1>0, <2>1, <2>2 DEF CliInv, CliTypeOK
  <2>4. where'[p] = "opened" /\ \A q \in Clis \ {p} : where'[q] = where[q]
    BY <1>0, <2>1
  <2>5. \A q \in Clis : held'[q] => where'[q] \in {"checks", "loop", "ending"}
    BY <1>0, <2>4 DEF CliInv
  <2>6. ASSUME ~slip' PROVE FileIsTheirs' /\ JudgedStays'
    BY <1>0, <1>1, <2>1, <2>4, <2>6 DEF CliInv, FileIsTheirs, JudgedStays
  <2> QED
    BY <2>3, <2>5, <2>6 DEF CliInv
<1>2. CASE pidFile # Absent
  <2>1. To(p, otherwise) /\ UNCHANGED <<pidFile, maker, sawStale>>
    BY <1>2 DEF CreatePidFile, pidFileVars
  <2> QED
    BY <1>0, <2>1, StageStep
<1> QED
  BY <1>1, <1>2

\* The maker of the file writes its pid into it.
LEMMA WritePidStep == ASSUME CliInv, NEW p \in Clis, WritePid(p) PROVE CliInv'
<1> USE CliAssumption
<1>1. /\ where[p] = "opened" /\ where' = [where EXCEPT ![p] = "checks"]
      /\ pidFile' = (IF maker = p THEN p ELSE pidFile) /\ held' = [held EXCEPT ![p] = TRUE]
      /\ left' = [left EXCEPT ![p] = Retries]
      /\ maker' = maker /\ sawStale' = sawStale /\ asked' = asked /\ slip' = slip
  BY DEF WritePid, At, To
<1>2. /\ where \in [Clis -> CliStages] /\ held \in [Clis -> BOOLEAN] /\ slip \in BOOLEAN
      /\ left \in [Clis -> 1..Retries] /\ "checks" \in CliStages
      /\ pidFile \in Clis \cup {Absent, Blank, Ghost}
  BY DEF CliInv, CliTypeOK, CliStages
<1>3. /\ where' \in [Clis -> CliStages] /\ held' \in [Clis -> BOOLEAN]
      /\ left' \in [Clis -> 1..Retries] /\ pidFile' \in Clis \cup {Absent, Blank, Ghost}
  BY <1>1, <1>2
<1>4. CliTypeOK'
  BY <1>1, <1>3 DEF CliInv, CliTypeOK
<1>5. /\ where'[p] = "checks" /\ \A q \in Clis \ {p} : where'[q] = where[q] /\ held'[q] = held[q]
  BY <1>1, <1>2
<1>6. \A q \in Clis : held'[q] => where'[q] \in {"checks", "loop", "ending"}
  BY <1>5 DEF CliInv
<1>7. ASSUME ~slip' PROVE FileIsTheirs' /\ JudgedStays'
  <2>1. FileIsTheirs /\ JudgedStays
    BY <1>1, <1>7 DEF CliInv
  <2>2. pidFile = Blank /\ maker = p /\ pidFile' = p
    BY <1>1, <2>1 DEF FileIsTheirs
  <2>3. sawStale' = {}
    BY <1>1, <2>1, <2>2 DEF JudgedStays, BeingWritten, At
  <2>4. \A q \in Clis \ {p} : ~held[q] /\ where[q] \notin {"unlinking", "killed", "opened"}
    BY <2>1, <2>2 DEF FileIsTheirs
  <2> QED
    BY <1>1, <1>5, <2>2, <2>3, <2>4 DEF FileIsTheirs, JudgedStays
<1> QED
  BY <1>4, <1>6, <1>7 DEF CliInv

\* The file goes, and it was its own or a stale one, unless a step slipped.
LEMMA UnlinkedStep ==
  ASSUME CliInv, NEW p \in Clis, NEW stage \in {"recreate", "leaving", "exited"},
         To(p, stage), Unlinked,
         held' \in [Clis -> BOOLEAN], \A q \in Clis : held'[q] = held[q],
         left' \in [Clis -> 1..Retries], asked' \in [Clis -> {"no", "int", "term"}],
         slip' \in BOOLEAN, slip => slip', ~held[p],
         \/ slip' \/ where[p] \in {"unlinking", "killed"}
         \/ where[p] # "opened" /\ (pidFile = Absent \/ p \in sawStale)
  PROVE  CliInv'
<1> USE CliAssumption
<1>1. /\ where' = [where EXCEPT ![p] = stage] /\ pidFile' = Absent /\ maker' = Absent
      /\ sawStale' = {}
  BY DEF To, Unlinked
<1>2. where \in [Clis -> CliStages] /\ stage \in CliStages
  BY DEF CliInv, CliTypeOK, CliStages
<1>3. where' \in [Clis -> CliStages]
  BY <1>1, <1>2
<1>4. CliTypeOK'
  BY <1>1, <1>3 DEF CliInv, CliTypeOK
<1>5. where'[p] = stage /\ \A q \in Clis \ {p} : where'[q] = where[q]
  BY <1>1, <1>2
<1>6. \A q \in Clis : held'[q] => where'[q] \in {"checks", "loop", "ending"}
  BY <1>1, <1>5 DEF CliInv
<1>7. ASSUME ~slip' PROVE FileIsTheirs' /\ JudgedStays'
  <2>1. FileIsTheirs /\ JudgedStays
    BY <1>7 DEF CliInv
  <2>2. \A q \in Clis \ {p} : ~held[q] /\ where[q] \notin {"unlinking", "killed", "opened"}
    <3>1. CASE where[p] \in {"unlinking", "killed"}
      <4>1. pidFile = p /\ maker = p
        BY <2>1, <3>1 DEF FileIsTheirs
      <4> QED
        BY <2>1, <4>1 DEF FileIsTheirs
    <3>2. CASE pidFile = Absent
      BY <2>1, <3>2 DEF FileIsTheirs
    <3>3. CASE p \in sawStale
      <4>1. ~Running(pidFile) /\ ~BeingWritten
        BY <2>1, <3>3 DEF JudgedStays
      <4> QED
        BY <2>1, <4>1 DEF FileIsTheirs, Running, BeingWritten, Alive, At, CliInv
    <3> QED
      BY <1>7, <3>1, <3>2, <3>3
  <2> QED
    BY <1>1, <1>5, <2>2 DEF FileIsTheirs, JudgedStays
<1> QED
  BY <1>4, <1>6, <1>7 DEF CliInv

\* A signal is noted.
LEMMA AskedStep ==
  ASSUME CliInv, UNCHANGED <<pidFileVars, where, left, held, slip>>,
         asked' \in [Clis -> {"no", "int", "term"}]
  PROVE  CliInv'
  BY DEF CliInv, CliTypeOK, pidFileVars, FileIsTheirs, JudgedStays, Running, BeingWritten, Alive, At

\* The flag is cleared by the process that is about to unlink the file.
LEMMA ReleaseFlagStep ==
  ASSUME CliInv, NEW p \in Clis, NEW stage \in {"unlinking", "leaving", "killed"},
         To(p, stage), held' = [held EXCEPT ![p] = FALSE],
         stage \in {"unlinking", "killed"} => held[p],
         where[p] # "opened", Alive(p),
         UNCHANGED <<pidFileVars, left, asked, slip>>
  PROVE  CliInv'
<1> USE CliAssumption
<1>1. /\ where' = [where EXCEPT ![p] = stage] /\ pidFile' = pidFile /\ maker' = maker
      /\ sawStale' = sawStale /\ left' = left /\ asked' = asked /\ slip' = slip
  BY DEF To, pidFileVars
<1>2. where \in [Clis -> CliStages] /\ held \in [Clis -> BOOLEAN] /\ stage \in CliStages
  BY DEF CliInv, CliTypeOK, CliStages
<1>3. where' \in [Clis -> CliStages] /\ held' \in [Clis -> BOOLEAN]
  BY <1>1, <1>2
<1>4. CliTypeOK'
  BY <1>1, <1>3 DEF CliInv, CliTypeOK
<1>5. /\ where'[p] = stage /\ ~held'[p]
      /\ \A q \in Clis \ {p} : where'[q] = where[q] /\ held'[q] = held[q]
  BY <1>1, <1>2
<1>6. \A q \in Clis : held'[q] => where'[q] \in {"checks", "loop", "ending"}
  BY <1>5 DEF CliInv
<1>7. ASSUME ~slip' PROVE FileIsTheirs' /\ JudgedStays'
  <2>1. FileIsTheirs /\ JudgedStays
    BY <1>1, <1>7 DEF CliInv
  <2>2. FileIsTheirs'
    BY <1>1, <1>5, <2>1 DEF FileIsTheirs
  <2>3. ~Running(pidFile) => ~Running(pidFile)'
    BY <1>1, <1>5 DEF Running, Alive
  <2>4. ~BeingWritten => ~BeingWritten'
    BY <1>1, <1>5 DEF BeingWritten, At
  <2> QED
    BY <1>1, <2>1, <2>2, <2>3, <2>4 DEF JudgedStays
<1> QED
  BY <1>4, <1>6, <1>7 DEF CliInv

\* All steps of the processes.
LEMMA CliStep == CliInv /\ [CliNext]_cliVars => CliInv'
<1> USE CliAssumption
<1> SUFFICES ASSUME CliInv, [CliNext]_cliVars PROVE CliInv'
  OBVIOUS
<1>1. CASE UNCHANGED cliVars
  BY <1>1, AskedStep DEF cliVars, CliInv, CliTypeOK
<1>2. ASSUME NEW p \in Clis,
             \/ Launch(p) \/ DispatchCommand(p) \/ TryCreate(p) \/ WritePid(p) \/ PidWriteFails(p)
             \/ JudgePid(p) \/ UnlinkStalePid(p) \/ RecreatePidFile(p) \/ JudgeWinner(p)
             \/ RetryReclaim(p) \/ ChecksFail(p) \/ ChecksPass(p) \/ LoopEnds(p) \/ ReleasePidLock(p)
             \/ UnlinkPid(p) \/ Drains(p) \/ Interrupt(p) \/ Terminate(p) \/ CliBrowsersClosed(p)
             \/ HardKill(p) \/ Killed(p)
      PROVE  CliInv'
  <2>a. /\ slip \in BOOLEAN /\ left \in [Clis -> 1..Retries]
        /\ asked \in [Clis -> {"no", "int", "term"}] /\ held \in [Clis -> BOOLEAN]
        /\ where \in [Clis -> CliStages] /\ left[p] \in 1..Retries
        /\ Retries \in 1..Retries
    BY DEF CliInv, CliTypeOK
  <2>b. /\ {"dispatch", "loop", "checks", "acquire", "reclaim", "recreate", "leaving", "ending"}
             \subseteq CliStages
        /\ held[p] => where[p] \in {"checks", "loop", "ending"}
    BY DEF CliStages, CliInv
  <2>c. ASSUME Exits(p), UNCHANGED <<pidFileVars, slip>> PROVE CliInv'
    BY <2>a, <2>c, GoneStep DEF Exits
  <2>d. ASSUME NEW stage \in {"dispatch", "loop", "checks", "acquire", "reclaim", "ending"},
               To(p, stage), UNCHANGED <<pidFileVars, left, held, asked, slip>>,
               where[p] # "opened", held[p] => stage \in {"checks", "loop", "ending"},
               ~Alive(p) => pidFile # p
        PROVE  CliInv'
    BY <2>a, <2>b, <2>d, StageStep DEF pidFileVars
  <2>1. CASE Launch(p)
    BY <2>b, <2>d, <2>1 DEF Launch, Alive
  <2>2. CASE DispatchCommand(p)
    <3>1. where[p] = "dispatch" /\ Alive(p) /\ UNCHANGED <<pidFileVars, slip>>
      BY <2>2 DEF DispatchCommand, At, Alive
    <3>2. CASE Exits(p)
      BY <2>c, <3>1, <3>2
    <3>3. ASSUME NEW stage \in {"loop", "checks", "acquire"}, To(p, stage), UNCHANGED <<left, held, asked>>
          PROVE  CliInv'
      BY <2>b, <2>d, <3>1, <3>3
    <3> QED
      BY <2>2, <3>2, <3>3 DEF DispatchCommand
  <2>3. CASE TryCreate(p) \/ RecreatePidFile(p)
    BY <2>3, CreateStep DEF TryCreate, RecreatePidFile, At
  <2>4. CASE WritePid(p)
    BY <2>4, WritePidStep
  <2>5. CASE PidWriteFails(p) \/ JudgeWinner(p) \/ ChecksFail(p) \/ Drains(p) \/ Killed(p)
    BY <2>c, <2>5 DEF PidWriteFails, JudgeWinner, ChecksFail, Drains, Killed
  <2>6. CASE JudgePid(p)
    <3>1. /\ where[p] = "reading" /\ Alive(p)
          /\ sawStale' = IF pidFile = Absent \/ Running(pidFile) THEN sawStale ELSE sawStale \cup {p}
          /\ slip' = (slip \/ BeingWritten) /\ pidFile' = pidFile /\ maker' = maker
      BY <2>6 DEF JudgePid, At, Alive
    <3>2. slip' \in BOOLEAN /\ (slip => slip')
      BY <2>a, <3>1 DEF BeingWritten
    <3>3. CASE Running(pidFile)
      BY <2>6, <3>1, <3>2, <3>3, GoneStep DEF JudgePid, Exits, pidFileVars
    <3>4. CASE ~Running(pidFile)
      <4>1. To(p, "reclaim") /\ UNCHANGED <<left, held, asked>>
        BY <2>6, <3>4 DEF JudgePid
      <4>2. slip' \/ ~BeingWritten
        BY <3>1
      <4> QED
        BY <2>a, <2>b, <3>1, <3>2, <3>4, <4>1, <4>2, StageStep
    <3> QED
      BY <3>3, <3>4
  <2>7. CASE UnlinkStalePid(p)
    <3>1. /\ where[p] = "reclaim" /\ Unlinked /\ To(p, "recreate") /\ UNCHANGED <<left, held, asked>>
          /\ slip' = (slip \/ (pidFile # Absent /\ p \notin sawStale))
      BY <2>7 DEF UnlinkStalePid, At
    <3>2. slip' \in BOOLEAN /\ (slip => slip')
      BY <2>a, <3>1
    <3>3. slip' \/ pidFile = Absent \/ p \in sawStale
      BY <3>1
    <3> QED
      BY <2>a, <2>b, <3>1, <3>2, <3>3, UnlinkedStep
  <2>8. CASE RetryReclaim(p)
    <3>1. /\ where[p] = "rereading" /\ Alive(p) /\ pidFile # Blank /\ ~Running(pidFile)
          /\ sawStale' = IF pidFile = Absent THEN sawStale ELSE sawStale \cup {p}
          /\ UNCHANGED <<pidFile, maker, held, asked, slip>>
      BY <2>8 DEF RetryReclaim, At, Alive
    <3>2. PICK stage \in {"reclaim", "checks"} :
            /\ To(p, stage)
            /\ \/ left[p] > 1 /\ left' = [left EXCEPT ![p] = @ - 1]
               \/ left' = [left EXCEPT ![p] = Retries]
      BY <2>8 DEF RetryReclaim
    <3>3. left' \in [Clis -> 1..Retries]
      BY <2>a, <3>2
    <3>4. ~BeingWritten
      BY <3>1 DEF BeingWritten
    <3> QED
      BY <2>a, <2>b, <3>1, <3>2, <3>3, <3>4, StageStep
  <2>9. CASE ChecksPass(p) \/ LoopEnds(p)
    BY <2>d, <2>9 DEF ChecksPass, LoopEnds, At, Alive
  <2>10. CASE ReleasePidLock(p)
    BY <2>10, ReleaseFlagStep DEF ReleasePidLock, At, Alive
  <2>11. CASE UnlinkPid(p)
    <3>1. where[p] \in {"unlinking", "killed"} /\ Unlinked /\ slip' = slip /\ ~held[p]
      BY <2>b, <2>11 DEF UnlinkPid
    <3>2. CASE where[p] = "killed"
      <4>1. /\ To(p, "exited") /\ left' = [left EXCEPT ![p] = Retries]
            /\ held' = [held EXCEPT ![p] = FALSE] /\ asked' = [asked EXCEPT ![p] = "no"]
        BY <2>11, <3>2 DEF UnlinkPid, At, Exits, Gone
      <4>2. /\ held' \in [Clis -> BOOLEAN] /\ \A q \in Clis : held'[q] = held[q]
            /\ left' \in [Clis -> 1..Retries] /\ asked' \in [Clis -> {"no", "int", "term"}]
        BY <2>a, <3>1, <4>1
      <4> QED
        BY <2>a, <3>1, <4>1, <4>2, UnlinkedStep
    <3>3. CASE where[p] # "killed"
      <4>1. To(p, "leaving") /\ UNCHANGED <<left, held, asked>>
        BY <2>11, <3>3 DEF UnlinkPid, At
      <4> QED
        BY <2>a, <3>1, <4>1, UnlinkedStep
    <3> QED
      BY <3>2, <3>3
  <2>12. CASE Interrupt(p)
    <3>1. CASE asked[p] # "no"
      BY <2>c, <2>12, <3>1 DEF Interrupt
    <3>2. CASE asked[p] = "no"
      <4>1. asked' = [asked EXCEPT ![p] = "int"] /\ UNCHANGED <<pidFileVars, slip, where, left, held>>
        BY <2>12, <3>2 DEF Interrupt
      <4>2. asked' \in [Clis -> {"no", "int", "term"}]
        BY <2>a, <4>1
      <4> QED
        BY <4>1, <4>2, AskedStep
    <3> QED
      BY <3>1, <3>2
  <2>13. CASE Terminate(p) \/ CliBrowsersClosed(p)
    <3>1. UNCHANGED <<pidFileVars, slip>>
      BY <2>13 DEF Terminate, CliBrowsersClosed
    <3>2. CASE Gone(p, "terminated")
      BY <2>a, <3>1, <3>2, GoneStep
    <3>3. CASE asked' = [asked EXCEPT ![p] = "term"] /\ UNCHANGED <<where, left, held>>
      <4>1. asked' \in [Clis -> {"no", "int", "term"}]
        BY <2>a, <3>3
      <4> QED
        BY <3>1, <3>3, <4>1, AskedStep
    <3> QED
      BY <2>13, <3>2, <3>3 DEF Terminate, CliBrowsersClosed
  <2>14. CASE HardKill(p)
    <3>1. CASE held[p]
      <4>1. To(p, "killed") /\ held' = [held EXCEPT ![p] = FALSE] /\ UNCHANGED <<pidFileVars, left, asked, slip>>
        BY <2>14, <3>1 DEF HardKill
      <4>2. where[p] # "opened" /\ Alive(p)
        BY <2>14, <2>b, <3>1 DEF HardKill
      <4> QED
        BY <3>1, <4>1, <4>2, ReleaseFlagStep
    <3>2. CASE ~held[p]
      BY <2>c, <2>14, <3>2 DEF HardKill
    <3> QED
      BY <3>1, <3>2
  <2> QED
    BY <1>2, <2>1, <2>2, <2>3, <2>4, <2>5, <2>6, <2>7, <2>8, <2>9, <2>10, <2>11, <2>12, <2>13, <2>14
<1> QED
  BY <1>1, <1>2 DEF CliNext

\* The invariant is stronger than the property.
LEMMA CliSafe == CliInv => CliTypeOK /\ OneInstanceButForGaps
  BY DEF CliInv, OneInstanceButForGaps, PidHolders, FileIsTheirs

\* For any number of processes: unless a step fell into one of the gaps between a check and
\* its use, at most one process has the lock. Who has it, or is about to unlink it, made
\* it.
THEOREM CliInvariance == CliInit /\ [][CliNext]_cliVars => []CliInv
  BY CliInvInit, CliStep, PTL

\* A release removes the process's own file.
THEOREM OwnFileIsReleased == CliInit /\ [][CliNext]_cliVars => ReleasesOwnPidFile
<1>1. CliInv /\ [CliNext]_cliVars => [\A p \in Clis : UnlinkPid(p) => (slip \/ maker \in {p, Absent})]_cliVars
  BY DEF CliInv, FileIsTheirs, UnlinkPid
<1> QED
  BY <1>1, CliInvariance, PTL DEF ReleasesOwnPidFile

-----------------------------------------------------------------------------
(***************************************************************************)
(* A client of a tool server (McpClient).                                  *)
(***************************************************************************)

\* What each call has made the server do, for the retries it has used.
DoneFits ==
  \A c \in Calls :
    /\ Stage(c) \in {"idle", "calling", "backoff"} => done[c] <= limited[c]
    /\ Stage(c) \in {"closing", "opening", "recalling"} => done[c] <= limited[c] + 1
    /\ done[c] <= limited[c] + 2

\* Before the tools are listed, and after a failure, there are no calls and no
\* client but the first.
Unready ==
  /\ handle # "ready" => /\ current = 0 /\ ~closed
                         /\ \A c \in Calls : Stage(c) = "idle"
                         /\ \A k \in Clients0 : k # 0 => conn[k] = "unmade"
  /\ handle = "connecting" => conn[0] = "opening"

\* Without overlaps: one reconnection at a time, of the present client; no client
\* is open but the present one, and that one not after close() or a failure.
OneAtATime ==
  /\ \A c, d \in Reconnecting : c = d
  /\ \A c \in Reconnecting : Over(c) = current
  /\ closed => Reconnecting = {} /\ conn[current] # "open"
  /\ handle = "failed" => conn[0] # "open"
  /\ \A k \in Clients0 : conn[k] = "open" => k = current

\* The inductive invariant: one reconnection at a time is what overlaps break.
McpInv == McpTypeOK /\ DoneFits /\ Unready /\ (overlap \/ OneAtATime)

\* No call is made and one client is connecting at first.
LEMMA McpInvInit == McpInit => McpInv
<1> SUFFICES ASSUME McpInit PROVE McpInv
  OBVIOUS
<1> USE McpAssumption DEF McpInit
<1>1. 0 \in Clients0 /\ \A c \in Calls : call[c] = [at |-> "idle", over |-> 0]
  BY DEF Clients0
<1>2. McpTypeOK
  <2>1. conn \in [Clients0 -> {"unmade", "opening", "open", "closed"}]
    OBVIOUS
  <2>2. call \in [Calls -> [at : CallStages, over : Clients0]]
    BY <1>1 DEF CallStages
  <2>3. limited \in [Calls -> 0..CallRetries] /\ done \in [Calls -> 0..(CallRetries + 2)]
    OBVIOUS
  <2>4. attempt \in 1..ConnectAttempts /\ reconnects \in 0..MaxReconnects
    <3>1. ConnectAttempts \in Nat \ {0} /\ MaxReconnects \in Nat \ {0}
      BY McpAssumption
    <3> QED
      BY <3>1
  <2> QED
    BY <1>1, <2>1, <2>2, <2>3, <2>4 DEF McpTypeOK
<1>3. conn[0] = "opening" /\ \A k \in Clients0 : conn[k] # "open" /\ (k # 0 => conn[k] = "unmade")
  BY <1>1
<1> QED
  BY <1>1, <1>2, <1>3 DEF McpInv, DoneFits, Unready, OneAtATime, Reconnecting, Stage, Over

\* The fields that are not the calls'.
LEMMA ConnectStep ==
  ASSUME McpInv,
         ServerConnects \/ ConnectFails \/ LateConnect \/ ToolsListed \/ ListFails \/ CloseHandle
  PROVE  McpInv'
<1> USE McpAssumption
<1>1. UNCHANGED <<current, call, limited, done, reconnects>>
  BY DEF ServerConnects, ConnectFails, LateConnect, ToolsListed, ListFails, CloseHandle, clientVars, callVars
<1>2. /\ 0 \in Clients0 /\ current \in Clients0 /\ conn \in [Clients0 -> {"unmade", "opening", "open", "closed"}]
      /\ closed \in BOOLEAN /\ overlap \in BOOLEAN
  BY DEF McpInv, McpTypeOK, Clients0
<1>3. DoneFits'
  BY <1>1 DEF McpInv, DoneFits, Stage
<1>4. CASE ServerConnects
  <2>1. conn' = [conn EXCEPT ![0] = "open"] /\ handle = "connecting" /\ handle' = "listing"
        /\ UNCHANGED <<attempt, closed, overlap>>
    BY <1>4 DEF ServerConnects
  <2>2. conn' \in [Clients0 -> {"unmade", "opening", "open", "closed"}]
    BY <1>2, <2>1
  <2> QED
    BY <1>1, <1>2, <1>3, <2>1, <2>2 DEF McpInv, McpTypeOK, Unready, OneAtATime, Reconnecting, Stage, Over
<1>5. CASE ConnectFails
  <2>1. handle = "connecting" /\ UNCHANGED <<conn, closed, overlap>>
        /\ attempt' \in 1..ConnectAttempts /\ handle' \in {"connecting", "failed"}
    BY <1>5 DEF ConnectFails, clientVars, McpInv, McpTypeOK
  <2> QED
    BY <1>1, <1>2, <1>3, <2>1 DEF McpInv, McpTypeOK, Unready, OneAtATime, Reconnecting, Stage, Over
<1>6. CASE LateConnect
  <2>1. conn' = [conn EXCEPT ![0] = "open"] /\ handle = "failed" /\ overlap' = TRUE
        /\ UNCHANGED <<handle, attempt, closed>>
    BY <1>6 DEF LateConnect, connectVars
  <2>2. conn' \in [Clients0 -> {"unmade", "opening", "open", "closed"}]
    BY <1>2, <2>1
  <2> QED
    BY <1>1, <1>2, <1>3, <2>1, <2>2 DEF McpInv, McpTypeOK, Unready, Stage
<1>7. CASE ToolsListed
  BY <1>1, <1>2, <1>3, <1>7 DEF ToolsListed, clientVars, McpInv, McpTypeOK, Unready, OneAtATime, Reconnecting, Stage, Over
<1>8. CASE ListFails
  BY <1>1, <1>2, <1>3, <1>8 DEF ListFails, McpInv, McpTypeOK, Unready, Stage
<1>9. CASE CloseHandle
  <2>1. conn' = [conn EXCEPT ![current] = "closed"] /\ handle = "ready" /\ closed' = TRUE
        /\ UNCHANGED <<handle, attempt>> /\ overlap' = (overlap \/ Reconnecting # {})
    BY <1>9 DEF CloseHandle, Closing, connectVars
  <2>2. conn' \in [Clients0 -> {"unmade", "opening", "open", "closed"}] /\ conn'[current] = "closed"
        /\ \A k \in Clients0 : conn'[k] = "open" => conn[k] = "open"
    BY <1>2, <2>1
  <2>3. overlap' \in BOOLEAN /\ (~overlap' => ~overlap /\ Reconnecting = {})
    BY <1>2, <2>1
  <2>4. Reconnecting' = Reconnecting
    BY <1>1 DEF Reconnecting, Stage
  <2>5. ~overlap' => OneAtATime'
    BY <1>1, <2>1, <2>2, <2>3, <2>4 DEF McpInv, OneAtATime, Over
  <2> QED
    BY <1>1, <1>2, <1>3, <2>1, <2>2, <2>3, <2>5 DEF McpInv, McpTypeOK, Unready
<1> QED
  BY <1>4, <1>5, <1>6, <1>7, <1>8, <1>9

\* A call moves on, with what it has made the server do, and is not reconnecting.
LEMMA CallStep ==
  ASSUME McpInv, NEW c \in Calls, NEW stage \in CallStages \ {"closing", "opening"}, NEW k \in Clients0,
         handle = "ready", CallGoes(c, stage, k), UNCHANGED <<handle, attempt, closed, overlap, current>>,
         reconnects' \in 0..MaxReconnects,
         conn' \in [Clients0 -> {"unmade", "opening", "open", "closed"}],
         overlap \/ \A i \in Clients0 : conn'[i] = "open" => i = current /\ (closed => conn[i] = "open"),
         limited' \in [Calls -> 0..CallRetries], done' \in [Calls -> Nat],
         \A d \in Calls \ {c} : limited'[d] = limited[d] /\ done'[d] = done[d],
         stage \in {"idle", "calling", "backoff"} => done'[c] <= limited'[c],
         stage = "recalling" => done'[c] <= limited'[c] + 1,
         done'[c] <= limited'[c] + 2
  PROVE  McpInv'
<1> USE McpAssumption
<1>1. call' = [call EXCEPT ![c] = [at |-> stage, over |-> k]]
  BY DEF CallGoes
<1>2. call \in [Calls -> [at : CallStages, over : Clients0]]
  BY DEF McpInv, McpTypeOK
<1>3. call' \in [Calls -> [at : CallStages, over : Clients0]]
  <2>1. [at |-> stage, over |-> k] \in [at : CallStages, over : Clients0]
    OBVIOUS
  <2> QED
    BY <1>1, <1>2, <2>1
<1>4. call'[c].at = stage /\ \A d \in Calls \ {c} : call'[d] = call[d]
  BY <1>1, <1>2
<1>5. DoneFits'
  BY <1>4 DEF McpInv, DoneFits, Stage
<1>6. done' \in [Calls -> 0..(CallRetries + 2)]
  <2>1. \A d \in Calls : limited'[d] <= CallRetries /\ limited'[d] \in Nat /\ done'[d] \in Nat
    OBVIOUS
  <2>2. \A d \in Calls : done'[d] <= limited'[d] + 2
    BY <1>5 DEF DoneFits
  <2>3. \A d \in Calls : done'[d] \in 0..(CallRetries + 2)
    BY <2>1, <2>2
  <2> QED
    BY <2>3
<1>7. McpTypeOK'
  BY <1>3, <1>6 DEF McpInv, McpTypeOK
<1>8. Reconnecting' \subseteq Reconnecting /\ \A d \in Reconnecting' : Over(d)' = Over(d)
  BY <1>4 DEF Reconnecting, Stage, Over
<1>9. ASSUME ~overlap PROVE OneAtATime'
  BY <1>8, <1>9 DEF McpInv, McpTypeOK, OneAtATime
<1> QED
  BY <1>5, <1>7, <1>9 DEF McpInv, Unready

\* One request more is carried out, or none.
LEMMA CarriedOut ==
  ASSUME McpInv, NEW c \in Calls,
         done' = [done EXCEPT ![c] = @ + 1] \/ done' = done
  PROVE  /\ done' \in [Calls -> Nat] /\ \A d \in Calls \ {c} : done'[d] = done[d]
         /\ done'[c] \in {done[c], done[c] + 1} /\ done[c] \in Nat /\ limited[c] \in 0..CallRetries
         /\ limited \in [Calls -> 0..CallRetries]
<1> USE McpAssumption
<1>1. done \in [Calls -> Nat] /\ limited \in [Calls -> 0..CallRetries]
  BY DEF McpInv, McpTypeOK
<1>2. CASE done' = done
  BY <1>1, <1>2
<1>3. CASE done' = [done EXCEPT ![c] = @ + 1]
  BY <1>1, <1>3
<1> QED
  BY <1>2, <1>3

\* The steps of a call that leave the clients alone.
LEMMA CallsStep ==
  ASSUME McpInv, NEW c \in Calls,
         \/ StartCall(c) \/ Answered(c) \/ ToolCallFails(c) \/ RateLimited(c) \/ BackoffEnds(c)
         \/ Reconnects(c) \/ ReconnectFails(c) \/ NoClientLeft(c)
  PROVE  McpInv'
<1> USE McpAssumption
<1>1. /\ current \in Clients0 /\ conn \in [Clients0 -> {"unmade", "opening", "open", "closed"}]
      /\ closed \in BOOLEAN /\ overlap \in BOOLEAN /\ reconnects \in 0..MaxReconnects
      /\ call[c] \in [at : CallStages, over : Clients0]
      /\ done \in [Calls -> 0..(CallRetries + 2)] /\ limited \in [Calls -> 0..CallRetries]
  BY DEF McpInv, McpTypeOK
<1>2. Over(c) \in Clients0 /\ done[c] \in Nat /\ limited[c] \in 0..CallRetries
      /\ done \in [Calls -> Nat]
  BY <1>1 DEF Over
<1>3. /\ Stage(c) \in {"idle", "calling", "backoff"} => done[c] <= limited[c]
      /\ Stage(c) \in {"closing", "opening", "recalling"} => done[c] <= limited[c] + 1
      /\ done[c] <= limited[c] + 2
  BY DEF McpInv, DoneFits
<1>4. Stage(c) # "idle" => handle = "ready"
  BY DEF McpInv, Unready
<1>5. overlap \/ \A i \in Clients0 : conn[i] = "open" => i = current
  BY DEF McpInv, OneAtATime
<1>6. {"calling", "recalling", "answered", "failed", "backoff"} \subseteq CallStages \ {"closing", "opening"}
  BY DEF CallStages
<1>7. CASE StartCall(c)
  <2>1. /\ handle = "ready" /\ Stage(c) = "idle" /\ CallGoes(c, "calling", current)
        /\ UNCHANGED <<handle, attempt, conn, current, closed, reconnects, overlap, limited, done>>
    BY <1>7 DEF StartCall, connectVars, clientVars
  <2> QED
    BY <1>1, <1>2, <1>3, <1>5, <1>6, <2>1, CallStep
<1>8. CASE Answered(c) \/ ToolCallFails(c)
  <2>1. /\ Stage(c) \in {"calling", "recalling"}
        /\ done' = [done EXCEPT ![c] = @ + 1] \/ done' = done
        /\ UNCHANGED <<handle, attempt, conn, current, closed, reconnects, overlap, limited>>
        /\ CallGoes(c, "answered", Over(c)) \/ CallGoes(c, "failed", Over(c))
    BY <1>8 DEF Answered, ToolCallFails, connectVars, clientVars
  <2>2. /\ done' \in [Calls -> Nat] /\ \A d \in Calls \ {c} : done'[d] = done[d]
        /\ done'[c] \in {done[c], done[c] + 1}
    BY <2>1, CarriedOut
  <2>3. done'[c] <= limited'[c] + 2
    BY <1>2, <1>3, <2>1, <2>2
  <2>4. PICK stage \in {"answered", "failed"} : CallGoes(c, stage, Over(c))
    BY <2>1
  <2> QED
    BY <1>1, <1>2, <1>4, <1>5, <1>6, <2>1, <2>2, <2>3, <2>4, CallStep
<1>9. CASE RateLimited(c)
  <2>1. /\ Stage(c) \in {"calling", "recalling"}
        /\ UNCHANGED <<handle, attempt, conn, current, closed, reconnects, overlap, done>>
    BY <1>9 DEF RateLimited, connectVars, clientVars
  <2>2. CASE ~closed /\ limited[c] < CallRetries
    <3>1. CallGoes(c, "backoff", Over(c)) /\ limited' = [limited EXCEPT ![c] = @ + 1]
      BY <1>9, <2>2 DEF RateLimited, WaitsOrFails
    <3>2. limited[c] + 1 \in 0..CallRetries
      BY <1>2, <2>2
    <3>3. limited' \in [Calls -> 0..CallRetries] /\ limited'[c] = limited[c] + 1
          /\ \A d \in Calls \ {c} : limited'[d] = limited[d]
      BY <1>1, <3>1, <3>2
    <3>4. done'[c] <= limited'[c]
      BY <1>2, <1>3, <2>1, <3>3
    <3> QED
      BY <1>1, <1>2, <1>4, <1>5, <1>6, <2>1, <3>1, <3>3, <3>4, CallStep
  <2>3. CASE ~(~closed /\ limited[c] < CallRetries)
    <3>1. CallGoes(c, "failed", Over(c)) /\ UNCHANGED limited
      BY <1>9, <2>3 DEF RateLimited, WaitsOrFails
    <3> QED
      BY <1>1, <1>2, <1>3, <1>4, <1>5, <1>6, <2>1, <3>1, CallStep
  <2> QED
    BY <2>2, <2>3
<1>10. CASE BackoffEnds(c)
  <2>1. /\ Stage(c) = "backoff" /\ CallGoes(c, "calling", current)
        /\ UNCHANGED <<handle, attempt, conn, current, closed, reconnects, overlap, limited, done>>
    BY <1>10 DEF BackoffEnds, connectVars, clientVars
  <2> QED
    BY <1>1, <1>2, <1>3, <1>4, <1>5, <1>6, <2>1, CallStep
<1>11. CASE Reconnects(c)
  <2>1. /\ Stage(c) = "opening" /\ conn' = [conn EXCEPT ![Over(c)] = "open"] /\ reconnects' = 0
        /\ CallGoes(c, "recalling", current)
        /\ UNCHANGED <<handle, attempt, current, closed, overlap, limited, done>>
    BY <1>11 DEF Reconnects, connectVars
  <2>2. conn' \in [Clients0 -> {"unmade", "opening", "open", "closed"}]
        /\ \A i \in Clients0 : i # Over(c) => conn'[i] = conn[i]
    BY <1>1, <1>2, <2>1
  <2>3. c \in Reconnecting
    BY <2>1 DEF Reconnecting
  <2>4. overlap \/ (Over(c) = current /\ ~closed)
    BY <2>3 DEF McpInv, OneAtATime
  <2>5. overlap \/ \A i \in Clients0 : conn'[i] = "open" => i = current /\ (closed => conn[i] = "open")
    BY <1>5, <2>2, <2>4
  <2> QED
    BY <1>1, <1>2, <1>3, <1>4, <1>6, <2>1, <2>2, <2>5, CallStep
<1>12. CASE NoClientLeft(c) \/ (ReconnectFails(c) /\ CallGoes(c, "failed", Over(c)) /\ UNCHANGED limited)
  <2>1. /\ Stage(c) \in {"opening", "closing"} /\ conn' = [conn EXCEPT ![Over(c)] = "closed"]
        /\ CallGoes(c, "failed", Over(c))
        /\ UNCHANGED <<handle, attempt, current, closed, reconnects, overlap, limited, done>>
    BY <1>12 DEF ReconnectFails, NoClientLeft, connectVars, Closing
  <2>2. conn' \in [Clients0 -> {"unmade", "opening", "open", "closed"}]
        /\ \A i \in Clients0 : conn'[i] = "open" => conn[i] = "open"
    BY <1>1, <1>2, <2>1
  <2>3. overlap \/ \A i \in Clients0 : conn'[i] = "open" => i = current /\ (closed => conn[i] = "open")
    BY <1>5, <2>2
  <2> QED
    BY <1>1, <1>2, <1>3, <1>4, <1>6, <2>1, <2>2, <2>3, CallStep
<1>13. CASE ReconnectFails(c) /\ WaitsOrFails(c)
  <2>1. /\ Stage(c) = "opening" /\ conn' = [conn EXCEPT ![Over(c)] = "closed"]
        /\ UNCHANGED <<handle, attempt, current, closed, reconnects, overlap, done>>
    BY <1>13 DEF ReconnectFails, connectVars, Closing
  <2>2. conn' \in [Clients0 -> {"unmade", "opening", "open", "closed"}]
        /\ \A i \in Clients0 : conn'[i] = "open" => conn[i] = "open"
    BY <1>1, <1>2, <2>1
  <2>3. overlap \/ \A i \in Clients0 : conn'[i] = "open" => i = current /\ (closed => conn[i] = "open")
    BY <1>5, <2>2
  <2>4. CASE ~closed /\ limited[c] < CallRetries
    <3>1. CallGoes(c, "backoff", Over(c)) /\ limited' = [limited EXCEPT ![c] = @ + 1]
      BY <1>13, <2>4 DEF WaitsOrFails
    <3>2. limited[c] + 1 \in 0..CallRetries
      BY <1>2, <2>4
    <3>3. limited' \in [Calls -> 0..CallRetries] /\ limited'[c] = limited[c] + 1
          /\ \A d \in Calls \ {c} : limited'[d] = limited[d]
      BY <1>1, <3>1, <3>2
    <3>4. done'[c] <= limited'[c]
      BY <1>2, <1>3, <2>1, <3>3
    <3> QED
      BY <1>1, <1>2, <1>4, <1>6, <2>1, <2>2, <2>3, <3>1, <3>3, <3>4, CallStep
  <2>5. CASE ~(~closed /\ limited[c] < CallRetries)
    <3>1. CallGoes(c, "failed", Over(c)) /\ UNCHANGED limited
      BY <1>13, <2>5 DEF WaitsOrFails
    <3> QED
      BY <1>1, <1>2, <1>3, <1>4, <1>6, <2>1, <2>2, <2>3, <3>1, CallStep
  <2> QED
    BY <2>4, <2>5
<1>14. CASE ReconnectFails(c)
  BY <1>12, <1>13, <1>14 DEF ReconnectFails
<1> QED
  BY <1>7, <1>8, <1>9, <1>10, <1>11, <1>12, <1>14

\* The connection is lost: the call begins to reconnect, or fails.
LEMMA LossStep == ASSUME McpInv, NEW c \in Calls, LosesConnection(c) PROVE McpInv'
<1> USE McpAssumption
<1>1. /\ current \in Clients0 /\ conn \in [Clients0 -> {"unmade", "opening", "open", "closed"}]
      /\ closed \in BOOLEAN /\ overlap \in BOOLEAN /\ reconnects \in 0..MaxReconnects
      /\ call \in [Calls -> [at : CallStages, over : Clients0]] /\ Over(c) \in Clients0
  BY DEF McpInv, McpTypeOK, Over
<1>2. /\ Stage(c) \in {"calling", "recalling"} /\ handle = "ready"
      /\ done' = [done EXCEPT ![c] = @ + 1] \/ done' = done
      /\ UNCHANGED <<handle, attempt, conn, current, closed, limited>>
  BY DEF LosesConnection, connectVars, McpInv, Unready
<1>3. /\ done' \in [Calls -> Nat] /\ \A d \in Calls \ {c} : done'[d] = done[d]
      /\ done'[c] \in {done[c], done[c] + 1} /\ done[c] \in Nat /\ limited[c] \in 0..CallRetries
      /\ limited \in [Calls -> 0..CallRetries]
  BY <1>2, CarriedOut
<1>4. /\ Stage(c) = "calling" => done[c] <= limited[c]
      /\ Stage(c) = "recalling" => done[c] <= limited[c] + 1
  BY DEF McpInv, DoneFits
<1>5. done'[c] <= limited[c] + 2 /\ (Stage(c) = "calling" => done'[c] <= limited[c] + 1)
  BY <1>2, <1>3, <1>4
<1>6. CASE Stage(c) = "calling" /\ ~closed /\ reconnects < MaxReconnects /\ current < MaxClients
  <2>1. /\ call' = [call EXCEPT ![c] = [at |-> "closing", over |-> current]]
        /\ reconnects' = reconnects + 1 /\ overlap' = (overlap \/ Reconnecting # {})
    BY <1>6 DEF LosesConnection, CallGoes
  <2>2. [at |-> "closing", over |-> current] \in [at : CallStages, over : Clients0]
    BY <1>1 DEF CallStages
  <2>3. call' \in [Calls -> [at : CallStages, over : Clients0]]
    BY <1>1, <2>1, <2>2
  <2>4. /\ call'[c].at = "closing" /\ call'[c].over = current
        /\ \A d \in Calls \ {c} : call'[d] = call[d]
    BY <1>1, <2>1
  <2>5. DoneFits'
    BY <1>2, <1>3, <1>5, <1>6, <2>4 DEF McpInv, DoneFits, Stage
  <2>6. done' \in [Calls -> 0..(CallRetries + 2)]
    <3>1. \A d \in Calls : limited[d] <= CallRetries /\ limited[d] \in Nat /\ done'[d] \in Nat
      BY <1>3
    <3>2. \A d \in Calls : done'[d] <= limited[d] + 2
      BY <1>2, <2>5 DEF DoneFits
    <3>3. \A d \in Calls : done'[d] \in 0..(CallRetries + 2)
      BY <3>1, <3>2
    <3> QED
      BY <1>3, <3>3
  <2>7. reconnects' \in 0..MaxReconnects /\ overlap' \in BOOLEAN
    BY <1>1, <1>6, <2>1
  <2>8. McpTypeOK'
    BY <1>2, <2>3, <2>6, <2>7 DEF McpInv, McpTypeOK
  <2>9. ASSUME ~overlap' PROVE OneAtATime'
    <3>1. ~overlap /\ Reconnecting = {}
      BY <2>1, <2>9
    <3>2. Reconnecting' = {c}
      BY <2>4, <3>1 DEF Reconnecting, Stage
    <3>3. Over(c)' = current
      BY <2>4 DEF Over
    <3> QED
      BY <1>2, <1>6, <3>1, <3>2, <3>3 DEF McpInv, OneAtATime
  <2> QED
    BY <1>2, <2>5, <2>8, <2>9 DEF McpInv, Unready
<1>7. CASE ~(Stage(c) = "calling" /\ ~closed /\ reconnects < MaxReconnects /\ current < MaxClients)
  <2>1. CallGoes(c, "failed", Over(c)) /\ UNCHANGED <<reconnects, overlap>>
    BY <1>7 DEF LosesConnection
  <2>2. "failed" \in CallStages \ {"closing", "opening"}
    BY DEF CallStages
  <2>3. overlap \/ \A i \in Clients0 : conn'[i] = "open" => i = current /\ (closed => conn[i] = "open")
    BY <1>2 DEF McpInv, OneAtATime
  <2> QED
    BY <1>1, <1>2, <1>3, <1>5, <2>1, <2>2, <2>3, CallStep
<1> QED
  BY <1>6, <1>7

\* A new client takes the place of the one that is closed.
LEMMA ClientStep == ASSUME McpInv, NEW c \in Calls, MakesClient(c) PROVE McpInv'
<1> USE McpAssumption
<1>1. /\ current \in Clients0 /\ conn \in [Clients0 -> {"unmade", "opening", "open", "closed"}]
      /\ call \in [Calls -> [at : CallStages, over : Clients0]] /\ Over(c) \in Clients0
      /\ MaxClients \in Nat
  BY DEF McpInv, McpTypeOK, Over
<1>2. /\ Stage(c) = "closing" /\ current < MaxClients /\ current' = current + 1 /\ handle = "ready"
      /\ conn' = [conn EXCEPT ![Over(c)] = "closed", ![current + 1] = "opening"]
      /\ call' = [call EXCEPT ![c] = [at |-> "opening", over |-> current + 1]]
      /\ UNCHANGED <<handle, attempt, closed, reconnects, limited, done, overlap>>
  BY DEF MakesClient, connectVars, CallGoes, McpInv, Unready
<1>3. current' \in Clients0
  BY <1>1, <1>2 DEF Clients0
<1>4. [at |-> "opening", over |-> current'] \in [at : CallStages, over : Clients0]
  BY <1>3 DEF CallStages
<1>5. call' \in [Calls -> [at : CallStages, over : Clients0]]
  BY <1>1, <1>2, <1>4
<1>6. /\ call'[c].at = "opening" /\ call'[c].over = current'
      /\ \A d \in Calls \ {c} : call'[d] = call[d]
  BY <1>1, <1>2
<1>7. /\ conn' \in [Clients0 -> {"unmade", "opening", "open", "closed"}]
      /\ \A k \in Clients0 : conn'[k] = "open" => conn[k] = "open" /\ k # Over(c) /\ k # current'
      /\ conn'[current'] = "opening"
  BY <1>1, <1>2, <1>3
<1>8. DoneFits'
  BY <1>2, <1>6 DEF McpInv, DoneFits, Stage
<1>9. McpTypeOK'
  BY <1>2, <1>3, <1>5, <1>7 DEF McpInv, McpTypeOK
<1>10. ASSUME ~overlap PROVE OneAtATime'
  <2>1. OneAtATime /\ c \in Reconnecting
    BY <1>2, <1>10 DEF McpInv, Reconnecting
  <2>2. Over(c) = current /\ ~closed /\ \A d \in Reconnecting : d = c
    BY <2>1 DEF OneAtATime
  <2>3. Reconnecting' = {c}
    BY <1>6, <2>2 DEF Reconnecting, Stage
  <2>4. Over(c)' = current'
    BY <1>6 DEF Over
  <2>5. \A k \in Clients0 : conn'[k] # "open"
    BY <1>7, <2>1, <2>2 DEF OneAtATime
  <2> QED
    BY <1>2, <2>2, <2>3, <2>4, <2>5 DEF OneAtATime
<1> QED
  BY <1>2, <1>8, <1>9, <1>10 DEF McpInv, Unready

\* All steps of the client and of its calls.
LEMMA McpStep == McpInv /\ [McpNext]_mcpVars => McpInv'
<1> SUFFICES ASSUME McpInv, [McpNext]_mcpVars PROVE McpInv'
  OBVIOUS
<1>1. CASE UNCHANGED mcpVars
  BY <1>1 DEF mcpVars, McpInv, McpTypeOK, DoneFits, Unready, OneAtATime, Reconnecting, Stage, Over
<1> QED
  BY <1>1, ConnectStep, CallsStep, LossStep, ClientStep DEF McpNext

\* The invariant is stronger than the two properties.
LEMMA McpSafe == McpInv => McpTypeOK /\ ConnectionsAreClosed /\ RepeatedCallsBounded
<1>1. McpInv => ConnectionsAreClosed
  BY DEF McpInv, McpTypeOK, Unready, OneAtATime, ConnectionsAreClosed, Useless, Clients0
<1> QED
  BY <1>1 DEF McpInv, DoneFits, RepeatedCallsBounded

\* For any number of calls and clients: without overlapping reconnections no client but the
\* present one is open, and a call is carried out at most as often as its retries allow.
THEOREM McpInvariance == McpInit /\ [][McpNext]_mcpVars => []McpInv
  BY McpInvInit, McpStep, PTL

-----------------------------------------------------------------------------
(***************************************************************************)
(* A memory file and its writers (MemoryFile).                             *)
(***************************************************************************)

\* Every set of numbers has a least one.
LEMMA LeastNumber ==
  ASSUME NEW S, S \subseteq Nat, S # {}
  PROVE  \E n \in S : \A m \in S : n <= m
<1>1. IsWellFoundedOn(OpToRel(<,Nat), Nat)
  BY NatLessThanWellFounded
<1>2. PICK n \in S : \A m \in S : <<m, n>> \notin OpToRel(<,Nat)
  BY <1>1, WFMin
<1>3. ASSUME NEW m \in S PROVE n <= m
  <2>1. n \in Nat /\ m \in Nat
    OBVIOUS
  <2>2. ~(m < n)
    <3>1. <<m, n>> \in Nat \X Nat
      BY <2>1
    <3> QED
      BY <1>2, <2>1, <3>1 DEF OpToRel
  <2> QED
    BY <2>1, <2>2
<1> QED
  BY <1>3

\* What a memory file holds.
StoredEntries == {entries \in Seq(Entry) : Len(entries) <= MaxEntries}

\* Of entries there is a victim.
LEMMA VictimExists ==
  ASSUME NEW entries \in Seq(Entry), entries # <<>>
  PROVE  Victim(entries) \in DOMAIN entries
<1> DEFINE Worst(i) == \A j \in DOMAIN entries :
                         \/ entries[i].importance < entries[j].importance
                         \/ entries[i].importance = entries[j].importance /\ i <= j
<1>1. /\ DOMAIN entries = 1..Len(entries) /\ Len(entries) \in Nat \ {0}
      /\ \A i \in DOMAIN entries : entries[i].importance \in Nat
  <2>1. DOMAIN entries = 1..Len(entries) /\ Len(entries) \in Nat \ {0}
    OBVIOUS
  <2>2. ASSUME NEW i \in DOMAIN entries PROVE entries[i].importance \in Nat
    <3>1. entries[i] \in Entry
      BY <2>1
    <3> QED
      BY <3>1 DEF Entry, Importances
  <2> QED
    BY <2>1, <2>2
<1> DEFINE marks == {entries[i].importance : i \in DOMAIN entries}
<1>2. PICK mark \in marks : \A m \in marks : mark <= m
  <2>1. marks \subseteq Nat /\ marks # {}
    BY <1>1
  <2> HIDE DEF marks
  <2> QED
    BY <2>1, LeastNumber
<1> DEFINE oldest == {i \in DOMAIN entries : entries[i].importance = mark}
<1>3. PICK i \in oldest : \A j \in oldest : i <= j
  <2>1. oldest \subseteq Nat /\ oldest # {}
    BY <1>1
  <2> HIDE DEF oldest
  <2> QED
    BY <2>1, LeastNumber
<1>4. i \in DOMAIN entries /\ Worst(i)
  <2>1. i \in DOMAIN entries /\ entries[i].importance = mark /\ mark \in Nat
    BY <1>1
  <2>2. ASSUME NEW j \in DOMAIN entries
        PROVE  \/ entries[i].importance < entries[j].importance
               \/ entries[i].importance = entries[j].importance /\ i <= j
    <3>1. entries[j].importance \in Nat /\ mark <= entries[j].importance
      BY <1>1, <1>2
    <3>2. entries[j].importance = mark => i <= j
      BY <1>3
    <3> QED
      BY <2>1, <3>1, <3>2
  <2> QED
    BY <2>1, <2>2
<1>5. Victim(entries) = CHOOSE k \in DOMAIN entries : Worst(k)
  BY DEF Victim
<1> HIDE DEF Worst
<1> QED
  BY <1>4, <1>5

\* An entry is removed from a store.
LEMMA OneRemoved ==
  ASSUME NEW entries \in Seq(Entry), NEW i \in DOMAIN entries
  PROVE  RemoveAt(entries, i) \in Seq(Entry) /\ Len(RemoveAt(entries, i)) = Len(entries) - 1
<1>1. i \in 1..Len(entries) /\ Len(entries) \in Nat
  OBVIOUS
<1>2. /\ SubSeq(entries, 1, i - 1) \in Seq(Entry) /\ Len(SubSeq(entries, 1, i - 1)) = i - 1
  BY <1>1
<1>3. /\ SubSeq(entries, i + 1, Len(entries)) \in Seq(Entry)
      /\ Len(SubSeq(entries, i + 1, Len(entries))) = Len(entries) - i
  BY <1>1
<1> DEFINE before == SubSeq(entries, 1, i - 1)
           after == SubSeq(entries, i + 1, Len(entries))
<1>4. RemoveAt(entries, i) = before \o after
  BY DEF RemoveAt
<1> HIDE DEF before, after
<1>5. before \in Seq(Entry) /\ after \in Seq(Entry) /\ Len(before) = i - 1 /\ Len(after) = Len(entries) - i
  BY <1>2, <1>3 DEF before, after
<1>6. before \o after \in Seq(Entry) /\ Len(before \o after) = Len(before) + Len(after)
  BY <1>5, ConcatProperties
<1> QED
  BY <1>1, <1>4, <1>5, <1>6

\* What is added to a store fits, as something else is evicted.
LEMMA AddedFits ==
  ASSUME NEW entries \in StoredEntries, NEW e \in Entry
  PROVE  Evicted(Append(entries, e)) \in StoredEntries
<1> USE MemoryFileAssumption
<1> DEFINE more == Append(entries, e)
<1>1. more \in Seq(Entry) /\ Len(more) = Len(entries) + 1 /\ Len(entries) <= MaxEntries
      /\ Len(entries) \in Nat
  BY DEF StoredEntries
<1>2. CASE Len(more) <= MaxEntries
  BY <1>1, <1>2 DEF Evicted, StoredEntries
<1>3. CASE ~(Len(more) <= MaxEntries)
  <2>1. more # <<>>
    BY <1>1
  <2>2. Victim(more) \in DOMAIN more
    BY <1>1, <2>1, VictimExists
  <2>3. RemoveAt(more, Victim(more)) \in Seq(Entry) /\ Len(RemoveAt(more, Victim(more))) = Len(entries)
    <3> HIDE DEF more
    <3>1. Len(RemoveAt(more, Victim(more))) = Len(more) - 1 /\ RemoveAt(more, Victim(more)) \in Seq(Entry)
      BY <1>1, <2>2, OneRemoved
    <3> QED
      BY <1>1, <3>1
  <2>4. Evicted(more) = RemoveAt(more, Victim(more))
    BY <1>3 DEF Evicted
  <2> QED
    BY <1>1, <2>3, <2>4 DEF StoredEntries
<1> QED
  BY <1>2, <1>3

\* Who is inside has the lock of its process, and without a crossing no one else is
\* inside anywhere.
Locked ==
  /\ \A w \in Writers : Inside(w) => HasLock(w)
  /\ crossed \/ \A v, w \in Writers : Inside(v) /\ Inside(w) => v = w

\* What was loaded is the file, if it could be read.
Loaded == crossed \/ \A w \in Writers \ blind : phase[w] = "loaded" => store[w] = file

\* The inductive invariant, with the stores in a form that provers can use.
MfInv ==
  /\ MfTypeOK /\ file \in StoredEntries /\ temp \in StoredEntries /\ store \in [Writers -> StoredEntries]
  /\ Locked /\ Loaded /\ ChangesAreOfTheFile

\* The file is any store at first.
LEMMA MfInvInit == MfInit => MfInv
<1> SUFFICES ASSUME MfInit PROVE MfInv
  OBVIOUS
<1> USE MemoryFileAssumption DEF MfInit
<1>1. Empty \in StoredEntries
  BY DEF Empty, StoredEntries
<1>2. chain \in [Processes -> Seq(Writers)] /\ phase \in [Writers -> {"idle"}]
      /\ reported \in [Writers -> {"none"}] /\ store \in [Writers -> StoredEntries]
  BY <1>1
<1>3. \A w \in Writers : ~Inside(w) /\ phase[w] = "idle"
  BY DEF Inside
<1>4. MfTypeOK
  BY <1>1, <1>2 DEF MfTypeOK, StoredEntries
<1> QED
  BY <1>1, <1>2, <1>3, <1>4 DEF MfInv, Locked, Loaded, ChangesAreOfTheFile

\* A writer inside goes on, with the store it has or a changed one.
LEMMA InsideStep ==
  ASSUME MfInv, NEW w \in Writers, Inside(w),
         NEW stage \in {"changed", "writing", "written"}, PhaseTo(w, stage),
         UNCHANGED <<file, chain, reported, crossed, blind>>,
         temp' \in StoredEntries,
         NEW mine \in StoredEntries, store' = [store EXCEPT ![w] = mine],
         crossed \/ w \in blind \/ mine = store[w] \/ (phase[w] = "loaded" /\
           (\/ \E importance \in Importances :
                 mine = Evicted(Append(file, [by |-> w, importance |-> importance]))
            \/ \E i \in DOMAIN file : mine = RemoveAt(file, i)))
  PROVE  MfInv'
<1>1. phase' = [phase EXCEPT ![w] = stage]
  BY DEF PhaseTo
<1>2. /\ phase \in [Writers -> {"idle", "waiting", "loaded", "changed", "writing", "written", "done"}]
      /\ store \in [Writers -> StoredEntries]
  BY DEF MfInv, MfTypeOK
<1>3. /\ phase' \in [Writers -> {"idle", "waiting", "loaded", "changed", "writing", "written", "done"}]
      /\ store' \in [Writers -> StoredEntries]
  BY <1>1, <1>2
<1>4. /\ phase'[w] = stage /\ store'[w] = mine
      /\ \A v \in Writers \ {w} : phase'[v] = phase[v] /\ store'[v] = store[v]
  BY <1>1, <1>2
<1>5. \A v \in Writers : Inside(v)' <=> Inside(v)
  BY <1>4 DEF Inside
<1>6. Locked'
  BY <1>5 DEF MfInv, Locked, HasLock, Chain
<1>7. Loaded'
  BY <1>4 DEF MfInv, Loaded
<1>8. ChangesAreOfTheFile'
  <2> SUFFICES ASSUME ~crossed, NEW v \in Writers \ blind, Inside(v)
               PROVE \/ store'[v] = file
                     \/ \E importance \in Importances :
                          store'[v] = Evicted(Append(file, [by |-> v, importance |-> importance]))
                     \/ \E i \in DOMAIN file : store'[v] = RemoveAt(file, i)
    BY <1>5 DEF ChangesAreOfTheFile
  <2>1. \/ store[v] = file
        \/ \E importance \in Importances :
             store[v] = Evicted(Append(file, [by |-> v, importance |-> importance]))
        \/ \E i \in DOMAIN file : store[v] = RemoveAt(file, i)
    BY DEF MfInv, ChangesAreOfTheFile
  <2>2. v = w
    BY DEF MfInv, Locked
  <2> QED
    BY <1>4, <2>1, <2>2
<1> QED
  BY <1>3, <1>6, <1>7, <1>8 DEF MfInv, MfTypeOK

\* A writer comes out, and the next of its process has the lock.
LEMMA OutStep ==
  ASSUME MfInv, NEW w \in Writers, Inside(w), PhaseTo(w, "done"), Release(w),
         reported' \in [Writers -> {"none", "saved", "failed"}],
         file' \in StoredEntries, UNCHANGED <<temp, store, crossed, blind>>
  PROVE  MfInv'
<1>1. phase' = [phase EXCEPT ![w] = "done"] /\ chain' = [chain EXCEPT ![ProcessOf[w]] = Tail(@)]
  BY DEF PhaseTo, Release
<1>2. /\ phase \in [Writers -> {"idle", "waiting", "loaded", "changed", "writing", "written", "done"}]
      /\ chain \in [Processes -> Seq(Writers)] /\ ProcessOf[w] \in Processes
  BY DEF MfInv, MfTypeOK, Processes
<1>3. HasLock(w)
  BY DEF MfInv, Locked
<1>4. Tail(chain[ProcessOf[w]]) \in Seq(Writers)
  BY <1>2, <1>3 DEF HasLock, Chain
<1>5. /\ phase' \in [Writers -> {"idle", "waiting", "loaded", "changed", "writing", "written", "done"}]
      /\ chain' \in [Processes -> Seq(Writers)]
  BY <1>1, <1>2, <1>4
<1>6. /\ phase'[w] = "done" /\ \A v \in Writers \ {w} : phase'[v] = phase[v]
      /\ \A p \in Processes \ {ProcessOf[w]} : chain'[p] = chain[p]
  BY <1>1, <1>2
<1>7. \A v \in Writers : Inside(v)' => Inside(v) /\ v # w
  BY <1>6 DEF Inside
<1>8. Locked'
  <2>1. ASSUME NEW v \in Writers, Inside(v)' PROVE HasLock(v)'
    <3>1. Inside(v) /\ v # w /\ HasLock(v) /\ ProcessOf[v] \in Processes
      BY <1>7, <2>1 DEF MfInv, Locked, Processes
    <3>2. ProcessOf[v] # ProcessOf[w]
      BY <1>3, <3>1 DEF HasLock, Chain
    <3> QED
      BY <1>6, <3>1, <3>2 DEF HasLock, Chain
  <2> QED
    BY <1>7, <2>1 DEF MfInv, Locked
<1>9. crossed \/ \A v \in Writers : ~Inside(v)'
  BY <1>7 DEF MfInv, Locked
<1>10. Loaded' /\ ChangesAreOfTheFile'
  BY <1>9 DEF Loaded, ChangesAreOfTheFile, Inside
<1>11. Len(file') <= MaxEntries /\ file' \in Seq(Entry)
  BY DEF StoredEntries
<1> QED
  BY <1>5, <1>8, <1>10, <1>11 DEF MfInv, MfTypeOK

\* A writer queues, and has the lock if its process is free.
LEMMA QueueStep == ASSUME MfInv, NEW w \in Writers, Queue(w) PROVE MfInv'
<1>1. /\ phase[w] = "idle" /\ phase' = [phase EXCEPT ![w] = "waiting"]
      /\ chain' = [chain EXCEPT ![ProcessOf[w]] = Append(@, w)]
      /\ UNCHANGED <<file, temp, store, reported, crossed, blind>>
  BY DEF Queue, PhaseTo
<1>2. /\ phase \in [Writers -> {"idle", "waiting", "loaded", "changed", "writing", "written", "done"}]
      /\ chain \in [Processes -> Seq(Writers)] /\ ProcessOf[w] \in Processes
      /\ chain[ProcessOf[w]] \in Seq(Writers)
  BY DEF MfInv, MfTypeOK, Processes
<1>3. Append(chain[ProcessOf[w]], w) \in Seq(Writers)
  BY <1>2
<1>4. /\ phase' \in [Writers -> {"idle", "waiting", "loaded", "changed", "writing", "written", "done"}]
      /\ chain' \in [Processes -> Seq(Writers)]
  BY <1>1, <1>2, <1>3
<1>5. /\ phase'[w] = "waiting" /\ \A v \in Writers \ {w} : phase'[v] = phase[v]
      /\ \A p \in Processes \ {ProcessOf[w]} : chain'[p] = chain[p]
      /\ chain'[ProcessOf[w]] = Append(chain[ProcessOf[w]], w)
  BY <1>1, <1>2
<1>6. \A v \in Writers : Inside(v)' <=> Inside(v)
  BY <1>1, <1>5 DEF Inside
<1>7. ASSUME NEW v \in Writers, HasLock(v) PROVE HasLock(v)'
  <2>1. chain[ProcessOf[v]] # <<>> /\ Head(chain[ProcessOf[v]]) = v /\ ProcessOf[v] \in Processes
    BY <1>7 DEF HasLock, Chain, Processes
  <2>2. CASE ProcessOf[v] # ProcessOf[w]
    BY <1>5, <2>1, <2>2 DEF HasLock, Chain
  <2>3. CASE ProcessOf[v] = ProcessOf[w]
    <3>1. Append(chain[ProcessOf[w]], w) # <<>> /\ Head(Append(chain[ProcessOf[w]], w)) = v
      BY <1>2, <2>1, <2>3
    <3> QED
      BY <1>5, <2>3, <3>1 DEF HasLock, Chain
  <2> QED
    BY <2>2, <2>3
<1>8. Locked'
  BY <1>1, <1>6, <1>7 DEF MfInv, Locked
<1>9. Loaded' /\ ChangesAreOfTheFile'
  BY <1>1, <1>5, <1>6 DEF MfInv, Loaded, ChangesAreOfTheFile
<1> QED
  BY <1>1, <1>4, <1>8, <1>9 DEF MfInv, MfTypeOK

\* A writer with the lock loads the file.
LEMMA LoadFileStep == ASSUME MfInv, NEW w \in Writers, LoadFile(w) PROVE MfInv'
<1>1. /\ phase[w] = "waiting" /\ HasLock(w) /\ phase' = [phase EXCEPT ![w] = "loaded"]
      /\ \/ store' = [store EXCEPT ![w] = file] /\ blind' = blind
         \/ store' = [store EXCEPT ![w] = Empty] /\ blind' = blind \cup {w}
      /\ crossed' = (crossed \/ \E v \in Writers : Inside(v) /\ ProcessOf[v] # ProcessOf[w])
      /\ UNCHANGED <<file, temp, chain, reported>>
  BY DEF LoadFile, PhaseTo
<1>2. /\ phase \in [Writers -> {"idle", "waiting", "loaded", "changed", "writing", "written", "done"}]
      /\ store \in [Writers -> StoredEntries] /\ file \in StoredEntries /\ crossed \in BOOLEAN
      /\ Empty \in StoredEntries /\ blind \subseteq Writers
  BY MemoryFileAssumption DEF MfInv, MfTypeOK, Empty, StoredEntries
<1>3. /\ phase' \in [Writers -> {"idle", "waiting", "loaded", "changed", "writing", "written", "done"}]
      /\ store' \in [Writers -> StoredEntries] /\ crossed' \in BOOLEAN /\ blind' \subseteq Writers
  BY <1>1, <1>2
<1>4. /\ phase'[w] = "loaded" /\ (w \in blind' \/ store'[w] = file)
      /\ \A v \in Writers \ {w} : phase'[v] = phase[v] /\ store'[v] = store[v]
  BY <1>1, <1>2
<1>5. \A v \in Writers : Inside(v)' => Inside(v) \/ v = w
  BY <1>4 DEF Inside
<1>6. crossed' \/ \A v \in Writers : Inside(v)' => v = w
  <2> SUFFICES ASSUME ~crossed', NEW v \in Writers, Inside(v) PROVE FALSE
    BY <1>5
  <2>1. ProcessOf[v] = ProcessOf[w] /\ HasLock(v)
    BY <1>1 DEF MfInv, Locked
  <2>2. v = w
    BY <1>1, <2>1 DEF HasLock, Chain
  <2> QED
    BY <1>1, <2>2 DEF Inside
<1>7. Locked'
  <2>1. \A v \in Writers : HasLock(v)' <=> HasLock(v)
    BY <1>1 DEF HasLock, Chain
  <2> QED
    BY <1>1, <1>5, <1>6, <2>1 DEF MfInv, Locked
<1>8. Loaded' /\ ChangesAreOfTheFile'
  BY <1>1, <1>4, <1>6 DEF Loaded, ChangesAreOfTheFile, Inside
<1> QED
  BY <1>1, <1>3, <1>7, <1>8 DEF MfInv, MfTypeOK

\* The writers of a process that dies are gone.
LEMMA DiesStep == ASSUME MfInv, NEW p \in Processes, Dies(p) PROVE MfInv'
<1>1. /\ phase' = [w \in Writers |-> IF ProcessOf[w] = p THEN "done" ELSE phase[w]]
      /\ chain' = [chain EXCEPT ![p] = <<>>] /\ UNCHANGED <<file, temp, store, reported, crossed, blind>>
  BY DEF Dies
<1>2. /\ phase \in [Writers -> {"idle", "waiting", "loaded", "changed", "writing", "written", "done"}]
      /\ chain \in [Processes -> Seq(Writers)]
  BY DEF MfInv, MfTypeOK
<1>3. /\ phase' \in [Writers -> {"idle", "waiting", "loaded", "changed", "writing", "written", "done"}]
      /\ chain' \in [Processes -> Seq(Writers)]
  BY <1>1, <1>2
<1>4. \A w \in Writers : Inside(w)' => Inside(w) /\ ProcessOf[w] # p /\ phase'[w] = phase[w]
  BY <1>1 DEF Inside
<1>5. \A w \in Writers : ProcessOf[w] # p => (HasLock(w)' <=> HasLock(w))
  BY <1>1, <1>2 DEF HasLock, Chain, Processes
<1>6. Locked'
  BY <1>1, <1>4, <1>5 DEF MfInv, Locked
<1>7. \A w \in Writers : phase'[w] = "loaded" => phase[w] = "loaded"
  BY <1>1
<1>8. Loaded' /\ ChangesAreOfTheFile'
  BY <1>1, <1>4, <1>7 DEF MfInv, Loaded, ChangesAreOfTheFile
<1> QED
  BY <1>1, <1>3, <1>6, <1>8 DEF MfInv, MfTypeOK

\* addMemoryEntry, removeMemoryEntry and saveMemoryStore, inside the lock.
LEMMA ChangeStep ==
  ASSUME MfInv, NEW w \in Writers,
         \/ OpenTemp(w) \/ WriteTemp(w) \/ Rename(w) \/ Throws(w)
         \/ \E importance \in Importances : Add(w, importance)
         \/ \E i \in 1..MaxEntries : TakeOut(w, i)
  PROVE  MfInv'
<1> USE MemoryFileAssumption
<1>1. /\ store \in [Writers -> StoredEntries] /\ store[w] \in StoredEntries /\ file \in StoredEntries /\ temp \in StoredEntries
      /\ Empty \in StoredEntries /\ reported \in [Writers -> {"none", "saved", "failed"}]
      /\ store = [store EXCEPT ![w] = store[w]]
  <2>1. store \in [Writers -> StoredEntries] /\ file \in StoredEntries /\ temp \in StoredEntries
        /\ reported \in [Writers -> {"none", "saved", "failed"}]
    BY DEF MfInv, MfTypeOK
  <2>2. Empty \in StoredEntries
    BY DEF Empty, StoredEntries
  <2> QED
    BY <2>1, <2>2
<1>2. crossed \/ w \in blind \/ (phase[w] = "loaded" => store[w] = file)
  BY DEF MfInv, Loaded
<1>3. CASE OpenTemp(w)
  BY <1>1, <1>3, InsideStep DEF OpenTemp, Inside
<1>4. CASE WriteTemp(w)
  BY <1>1, <1>4, InsideStep DEF WriteTemp, Inside
<1>5. CASE Rename(w)
  <2>1. reported' \in [Writers -> {"none", "saved", "failed"}] /\ Inside(w)
    BY <1>1, <1>5 DEF Rename, Inside
  <2> QED
    BY <1>1, <1>5, <2>1, OutStep DEF Rename
<1>6. CASE Throws(w)
  <2>1. reported' \in [Writers -> {"none", "saved", "failed"}] /\ Inside(w)
    BY <1>1, <1>6 DEF Throws, Inside
  <2> QED
    BY <1>1, <1>6, <2>1, OutStep DEF Throws
<1>7. ASSUME NEW importance \in Importances, Add(w, importance) PROVE MfInv'
  <2> DEFINE mine == Evicted(Append(store[w], [by |-> w, importance |-> importance]))
  <2>1. [by |-> w, importance |-> importance] \in Entry
    BY DEF Entry
  <2>2. mine \in StoredEntries
    BY <1>1, <2>1, AddedFits
  <2>3. /\ phase[w] = "loaded" /\ PhaseTo(w, "changed") /\ store' = [store EXCEPT ![w] = mine]
        /\ UNCHANGED <<file, temp, chain, reported, crossed, blind>>
    BY <1>7 DEF Add
  <2>4. crossed \/ w \in blind \/ \E imp \in Importances :
                     mine = Evicted(Append(file, [by |-> w, importance |-> imp]))
    BY <1>2, <2>3
  <2> HIDE DEF mine
  <2> QED
    BY <1>1, <2>2, <2>3, <2>4, InsideStep DEF Inside
<1>8. ASSUME NEW i \in 1..MaxEntries, TakeOut(w, i) PROVE MfInv'
  <2>1. phase[w] = "loaded" /\ UNCHANGED <<file, temp, crossed, blind>>
    BY <1>8 DEF TakeOut
  <2>2. CASE i \in DOMAIN store[w]
    <3> DEFINE mine == RemoveAt(store[w], i)
    <3>1. store' = [store EXCEPT ![w] = mine] /\ PhaseTo(w, "changed") /\ UNCHANGED <<chain, reported>>
      BY <1>8, <2>2 DEF TakeOut
    <3>2. store[w] \in Seq(Entry) /\ Len(store[w]) <= MaxEntries /\ Len(store[w]) \in Nat
      BY <1>1 DEF StoredEntries
    <3>3. mine \in Seq(Entry) /\ Len(mine) = Len(store[w]) - 1
      BY <2>2, <3>2, OneRemoved
    <3>4. mine \in StoredEntries
      BY <3>2, <3>3 DEF StoredEntries
    <3>5. crossed \/ w \in blind \/ \E j \in DOMAIN file : mine = RemoveAt(file, j)
      BY <1>2, <2>1, <2>2
    <3> HIDE DEF mine
    <3> QED
      BY <1>1, <2>1, <3>1, <3>4, <3>5, InsideStep DEF Inside
  <2>3. CASE i \notin DOMAIN store[w]
    <3>1. /\ PhaseTo(w, "done") /\ Release(w) /\ reported' = [reported EXCEPT ![w] = "failed"]
          /\ UNCHANGED store
      BY <1>8, <2>3 DEF TakeOut
    <3>2. reported' \in [Writers -> {"none", "saved", "failed"}] /\ Inside(w)
      BY <1>1, <2>1, <3>1 DEF Inside
    <3> QED
      BY <1>1, <2>1, <3>1, <3>2, OutStep
  <2> QED
    BY <2>2, <2>3
<1> QED
  BY <1>3, <1>4, <1>5, <1>6, <1>7, <1>8

\* All steps of the writers.
LEMMA MfStep == MfInv /\ [MfNext]_mfVars => MfInv'
<1> SUFFICES ASSUME MfInv, [MfNext]_mfVars PROVE MfInv'
  OBVIOUS
<1>1. CASE UNCHANGED mfVars
  BY <1>1 DEF mfVars, MfInv, MfTypeOK, Locked, Loaded, ChangesAreOfTheFile, Inside, HasLock, Chain
<1> QED
  BY <1>1, QueueStep, LoadFileStep, ChangeStep, DiesStep DEF MfNext

\* For any number of processes, writers and entries: a writer changes the file it loaded,
\* unless writers of two processes crossed or it could not read it. Who is inside has the lock, and nobody saves
\* between its load and its save.
THEOREM MfInvariance == MfInit /\ [][MfNext]_mfVars => []MfInv
  BY MfInvInit, MfStep, PTL

-----------------------------------------------------------------------------
(***************************************************************************)
(* Trainings on rented machines (Training).                                *)
(***************************************************************************)

\* Where a machine is rented, and where an adapter has been hosted.
WithMachine == {"launching", "renting", "downloading"}
AfterHosting == {"hosted", "swapping", "marking"}

\* The inductive invariant: who may have a machine, and that what is hosted has a version.
TrainingInv ==
  /\ TrainingTypeOK
  /\ rollback # Nothing => Len(rollback.versions) >= 2
  /\ \A t \in rented : \/ training[t].at \in WithMachine
                       \/ TrainingAt(t, "ended") /\ training[t].result \in {"unlaunched", "unterminated", "died"}
  /\ \A t \in Trainings : training[t].at \in AfterHosting => training[t].version > 0

\* The state of one training.
TrainingRecord == [at : TrainingStages, result : TrainingResults, version : Nat,
          batch : SUBSET Trajectories, read : Registries]

\* The empty registry is one.
LEMMA NothingIsRegistry == Nothing \in Registries
  BY DEF Nothing, Registries

\* No training has begun at first.
LEMMA TrainingInvInit == TrainingInit => TrainingInv
<1> SUFFICES ASSUME TrainingInit PROVE TrainingInv
  OBVIOUS
<1> USE TrainingAssumption DEF TrainingInit
<1>1. [at |-> "new", result |-> "none", version |-> 0, batch |-> {}, read |-> Nothing] \in TrainingRecord
  BY NothingIsRegistry DEF TrainingRecord, TrainingStages, TrainingResults
<1>2. training \in [Trainings -> TrainingRecord] /\ \A t \in Trainings : training[t].at = "new"
  BY <1>1
<1>3. [i \in 1..Deployed |-> i] \in Seq(Nat)
  OBVIOUS
<1>4. registry \in Registries
  BY <1>3 DEF Registries
<1> QED
  BY <1>2, <1>4, NothingIsRegistry DEF TrainingInv, TrainingTypeOK, TrainingRecord, AfterHosting

\* A training goes on, and nothing is wrong with its machine or its version.
LEMMA GoesOn ==
  ASSUME TrainingInv, NEW t \in Trainings, NEW new \in TrainingRecord, training' = [training EXCEPT ![t] = new],
         rented' \subseteq rented \cup {t},
         t \in rented' => \/ new.at \in WithMachine
                          \/ new.at = "ended" /\ new.result \in {"unlaunched", "unterminated", "died"},
         new.at \in AfterHosting => new.version > 0,
         logged' = logged, rollback' = rollback, tagged' \subseteq Trajectories, registry' \in Registries
  PROVE  TrainingInv'
<1>1. training \in [Trainings -> TrainingRecord] /\ rented \subseteq Trainings
  BY DEF TrainingInv, TrainingTypeOK, TrainingRecord
<1>2. training' \in [Trainings -> TrainingRecord] /\ training'[t] = new
      /\ \A u \in Trainings \ {t} : training'[u] = training[u]
  BY <1>1
<1>3. rented' \subseteq Trainings /\ \A u \in rented' : u # t => u \in rented
  BY <1>1
<1>4. TrainingTypeOK'
  BY <1>2, <1>3 DEF TrainingInv, TrainingTypeOK, TrainingRecord
<1>5. ASSUME NEW u \in rented'
      PROVE  \/ training'[u].at \in WithMachine
             \/ training'[u].at = "ended" /\ training'[u].result \in {"unlaunched", "unterminated", "died"}
  BY <1>1, <1>2, <1>3, <1>5 DEF TrainingInv, TrainingAt
<1>6. ASSUME NEW u \in Trainings, training'[u].at \in AfterHosting PROVE training'[u].version > 0
  BY <1>2, <1>6 DEF TrainingInv
<1> QED
  BY <1>4, <1>5, <1>6 DEF TrainingInv, TrainingAt

\* The registry and the training that has read it.
LEMMA StateIs ==
  ASSUME TrainingInv, NEW t \in Trainings
  PROVE  /\ training[t] \in TrainingRecord /\ training \in [Trainings -> TrainingRecord]
         /\ training[t].read \in Registries /\ training[t].version \in Nat
         /\ training[t].batch \subseteq Trajectories
         /\ registry \in Registries /\ tagged \subseteq Trajectories /\ rented \subseteq Trainings
<1>1. training \in [Trainings -> TrainingRecord]
  BY DEF TrainingInv, TrainingTypeOK, TrainingRecord
<1>2. training[t] \in TrainingRecord
  BY <1>1
<1>3. /\ training[t].read \in Registries /\ training[t].version \in Nat
      /\ training[t].batch \subseteq Trajectories
  BY <1>2 DEF TrainingRecord
<1> QED
  BY <1>1, <1>2, <1>3 DEF TrainingInv, TrainingTypeOK

\* It only changes its place.
LEMMA GoesTo ==
  ASSUME TrainingInv, NEW t \in Trainings, NEW at \in TrainingStages \ AfterHosting, GoTo(t, at),
         rented' \subseteq rented \cup {t},
         t \in rented' => at \in WithMachine,
         UNCHANGED <<logged, tagged, registry, rollback>>
  PROVE  TrainingInv'
<1> DEFINE new == [training[t] EXCEPT !.at = at]
<1>1. training[t] \in TrainingRecord
  BY StateIs
<1>2. new \in TrainingRecord /\ new.at = at
  BY <1>1 DEF TrainingRecord
<1>3. training' = [training EXCEPT ![t] = new]
  BY DEF GoTo
<1> HIDE DEF new
<1> QED
  BY <1>2, <1>3, GoesOn, StateIs

\* It ends, with its machine or without.
LEMMA EndsWell ==
  ASSUME TrainingInv, NEW t \in Trainings, NEW result \in TrainingResults, EndAs(t, result),
         rented' \subseteq rented,
         t \in rented' => result \in {"unlaunched", "unterminated", "died"},
         UNCHANGED <<logged, tagged, registry, rollback>>
  PROVE  TrainingInv'
<1> DEFINE new == [training[t] EXCEPT !.at = "ended", !.result = result, !.batch = {}, !.read = Nothing]
<1>1. training[t] \in TrainingRecord
  BY StateIs
<1>2. new \in TrainingRecord /\ new.at = "ended" /\ new.result = result
  BY <1>1, NothingIsRegistry DEF TrainingRecord, TrainingStages
<1>3. training' = [training EXCEPT ![t] = new]
  BY DEF EndAs
<1> HIDE DEF new
<1> QED
  BY <1>2, <1>3, GoesOn, StateIs DEF AfterHosting

\* Each step of a training, and its death.
LEMMA PipelineStep == ASSUME TrainingInv, NEW t \in Trainings, TrainingMoves(t) \/ TrainingDies(t) PROVE TrainingInv'
<1> USE TrainingAssumption
<1>a. /\ training[t] \in TrainingRecord /\ training \in [Trainings -> TrainingRecord]
      /\ training[t].read \in Registries /\ training[t].version \in Nat
      /\ training[t].batch \subseteq Trajectories
      /\ registry \in Registries /\ tagged \subseteq Trajectories /\ rented \subseteq Trainings
  BY StateIs
<1>b. t \in rented => \/ training[t].at \in WithMachine
                      \/ TrainingAt(t, "ended") /\ training[t].result \in {"unlaunched", "unterminated", "died"}
  BY DEF TrainingInv
<1>c. /\ {"passed", "scored", "launching", "renting", "downloading"} \subseteq TrainingStages \ AfterHosting
      /\ {"refused", "failed", "ok", "unlaunched", "unterminated", "died"} \subseteq TrainingResults
      /\ {"packed", "uploading", "hosted", "swapping", "marking"} \subseteq TrainingStages
  BY DEF TrainingStages, TrainingResults, AfterHosting
<1>1. CASE CheckConditions(t)
  BY <1>a, <1>b, <1>c, <1>1, GoesTo, EndsWell DEF CheckConditions, TrainingAt, WithMachine
<1>2. CASE PackBatch(t)
  <2>1. CASE Cardinality(Buffer) < MinBatch
    BY <1>a, <1>b, <1>c, <1>2, <2>1, EndsWell DEF PackBatch, TrainingAt, WithMachine
  <2>2. CASE ~(Cardinality(Buffer) < MinBatch)
    <3> DEFINE new == [training[t] EXCEPT !.at = "packed", !.batch = Buffer]
    <3>1. Buffer \subseteq Trajectories
      BY DEF Buffer, TrainingInv, TrainingTypeOK
    <3>2. new \in TrainingRecord /\ new.at = "packed"
      BY <1>a, <1>c, <3>1 DEF TrainingRecord
    <3>3. training' = [training EXCEPT ![t] = new] /\ UNCHANGED <<logged, tagged, rented, registry, rollback>>
      BY <1>2, <2>2 DEF PackBatch
    <3>4. t \notin rented
      BY <1>b, <1>2 DEF PackBatch, TrainingAt, WithMachine
    <3> HIDE DEF new
    <3> QED
      BY <1>a, <3>2, <3>3, <3>4, GoesOn DEF AfterHosting
  <2> QED
    BY <2>1, <2>2
<1>3. CASE ScoreBatch(t)
  BY <1>a, <1>b, <1>c, <1>3, GoesTo DEF ScoreBatch, TrainingAt, WithMachine
<1>4. CASE CreateInstance(t)
  BY <1>a, <1>b, <1>c, <1>4, GoesTo DEF CreateInstance, TrainingAt, WithMachine
<1>5. CASE InstanceRuns(t) \/ TrainOnInstance(t)
  BY <1>a, <1>b, <1>c, <1>5, GoesTo DEF InstanceRuns, TrainOnInstance, TrainingAt, WithMachine
<1>6. CASE LaunchFails(t)
  BY <1>a, <1>b, <1>c, <1>6, EndsWell DEF LaunchFails
<1>7. CASE TerminateAfterError(t)
  BY <1>a, <1>b, <1>c, <1>7, EndsWell DEF TerminateAfterError
<1>8. CASE DownloadAdapter(t)
  <2> DEFINE new == [training[t] EXCEPT !.at = "uploading", !.read = registry]
  <2>1. new \in TrainingRecord /\ new.at = "uploading"
    BY <1>a, <1>c DEF TrainingRecord
  <2>2. /\ training' = [training EXCEPT ![t] = new] /\ rented' = rented \ {t}
        /\ UNCHANGED <<logged, tagged, registry, rollback>>
    BY <1>8 DEF DownloadAdapter
  <2> HIDE DEF new
  <2> QED
    BY <1>a, <2>1, <2>2, GoesOn DEF AfterHosting
<1>9. CASE AdapterHosted(t)
  <2> DEFINE next == Len(training[t].read.versions) + 1
             new == [training[t] EXCEPT !.at = "hosted", !.version = next, !.read = Nothing]
  <2>1. /\ training[t].read.versions \in Seq(Nat) /\ next \in Nat /\ next > 0
    BY <1>a DEF Registries
  <2>2. /\ registry' = [versions |-> Append(training[t].read.versions, next), current |-> next]
        /\ training' = [training EXCEPT ![t] = new] /\ TrainingAt(t, "uploading")
        /\ UNCHANGED <<logged, tagged, rented, rollback>>
    BY <1>9 DEF AdapterHosted
  <2> HIDE DEF next
  <2>3. Append(training[t].read.versions, next) \in Seq(Nat)
    BY <2>1
  <2>4. registry' \in Registries
    BY <2>1, <2>2, <2>3 DEF Registries
  <2>5. new \in TrainingRecord /\ new.at = "hosted" /\ new.version = next
    BY <1>a, <1>c, <2>1, NothingIsRegistry DEF TrainingRecord
  <2>6. t \notin rented
    BY <1>b, <2>2 DEF TrainingAt, WithMachine
  <2> HIDE DEF new
  <2> QED
    BY <1>a, <2>1, <2>2, <2>4, <2>5, <2>6, GoesOn
<1>10. CASE SwapReads(t)
  <2> DEFINE new == [training[t] EXCEPT !.at = "swapping", !.read = registry]
  <2>1. new \in TrainingRecord /\ new.at = "swapping" /\ new.version = training[t].version
    BY <1>a, <1>c DEF TrainingRecord
  <2>2. /\ training' = [training EXCEPT ![t] = new] /\ TrainingAt(t, "hosted")
        /\ UNCHANGED <<logged, tagged, rented, registry, rollback>>
    BY <1>10 DEF SwapReads
  <2>3. t \notin rented /\ training[t].version > 0
    BY <1>b, <2>2 DEF TrainingAt, WithMachine, TrainingInv, AfterHosting
  <2> HIDE DEF new
  <2> QED
    BY <1>a, <2>1, <2>2, <2>3, GoesOn
<1>11. CASE SwapWrites(t)
  <2> DEFINE new == [training[t] EXCEPT !.at = "marking", !.read = Nothing]
  <2>1. new \in TrainingRecord /\ new.at = "marking" /\ new.version = training[t].version
    BY <1>a, <1>c, NothingIsRegistry DEF TrainingRecord
  <2>2. /\ training' = [training EXCEPT ![t] = new] /\ TrainingAt(t, "swapping")
        /\ registry' = [training[t].read EXCEPT !.current = training[t].version]
        /\ UNCHANGED <<logged, tagged, rented, rollback>>
    BY <1>11 DEF SwapWrites
  <2>3. registry' \in Registries
    BY <1>a, <2>2 DEF Registries
  <2>4. t \notin rented /\ training[t].version > 0
    BY <1>b, <2>2 DEF TrainingAt, WithMachine, TrainingInv, AfterHosting
  <2> HIDE DEF new
  <2> QED
    BY <1>a, <2>1, <2>2, <2>3, <2>4, GoesOn
<1>12. CASE MarkTrained(t)
  <2>1. PICK s \in training[t].batch :
          /\ training' = [training EXCEPT ![t].batch = @ \ {s}]
          /\ tagged' = tagged \cup {s} \/ UNCHANGED tagged
    BY <1>12 DEF MarkTrained
  <2> DEFINE new == [training[t] EXCEPT !.batch = training[t].batch \ {s}]
  <2>2. new \in TrainingRecord /\ new.at = training[t].at /\ new.version = training[t].version
    BY <1>a DEF TrainingRecord
  <2>3. /\ training' = [training EXCEPT ![t] = new] /\ tagged' \subseteq Trajectories
        /\ UNCHANGED <<logged, rented, registry, rollback>> /\ training[t].at = "marking"
    BY <1>a, <1>12, <2>1 DEF MarkTrained, TrainingAt
  <2>4. t \notin rented /\ training[t].version > 0
    BY <1>b, <2>3 DEF TrainingAt, WithMachine, TrainingInv, AfterHosting
  <2> HIDE DEF new
  <2> QED
    BY <1>a, <2>2, <2>3, <2>4, GoesOn
<1>13. CASE FinishTraining(t) \/ FailUnrented(t)
  BY <1>a, <1>b, <1>c, <1>13, EndsWell DEF FinishTraining, FailUnrented, TrainingAt, WithMachine
<1>14. CASE TrainingDies(t)
  BY <1>a, <1>c, <1>14, EndsWell DEF TrainingDies
<1> QED
  BY <1>1, <1>2, <1>3, <1>4, <1>5, <1>6, <1>7, <1>8, <1>9, <1>10, <1>11, <1>12, <1>13, <1>14
     DEF TrainingMoves

\* All steps, those of the registry and of the user too.
LEMMA TrainingStep == TrainingInv /\ [TrainingNext]_trainingVars => TrainingInv'
<1> SUFFICES ASSUME TrainingInv, [TrainingNext]_trainingVars PROVE TrainingInv'
  OBVIOUS
<1>1. CASE UNCHANGED trainingVars
  BY <1>1 DEF trainingVars, TrainingInv, TrainingTypeOK, TrainingAt
<1>2. ASSUME NEW s \in Trajectories, LogTrajectory(s) \/ PruneTrajectory(s) PROVE TrainingInv'
  <2>1. logged' \subseteq Trajectories /\ UNCHANGED <<tagged, training, rented, registry, rollback>>
    BY <1>2 DEF LogTrajectory, PruneTrajectory, TrainingInv, TrainingTypeOK
  <2> QED
    BY <2>1 DEF TrainingInv, TrainingTypeOK, TrainingAt
<1>3. CASE RollbackReads
  BY <1>3 DEF RollbackReads, TrainingInv, TrainingTypeOK, TrainingAt
<1>4. CASE RollbackWrites
  <2>1. /\ rollback # Nothing /\ rollback' = Nothing
        /\ registry' = [rollback EXCEPT !.current = rollback.versions[Len(rollback.versions) - 1]]
        /\ UNCHANGED <<logged, tagged, training, rented>>
    BY <1>4 DEF RollbackWrites
  <2>2. rollback \in Registries /\ Len(rollback.versions) >= 2
    BY <2>1 DEF TrainingInv, TrainingTypeOK
  <2>3. rollback.versions \in Seq(Nat)
    BY <2>2 DEF Registries
  <2>4. rollback.versions[Len(rollback.versions) - 1] \in Nat
    BY <2>2, <2>3
  <2>5. registry' \in Registries
    BY <2>1, <2>2, <2>4 DEF Registries
  <2> QED
    BY <2>1, <2>5, NothingIsRegistry DEF TrainingInv, TrainingTypeOK, TrainingAt
<1> QED
  BY <1>1, <1>2, <1>3, <1>4, PipelineStep DEF TrainingNext

\* For any number of trainings: a training that has ended leaves its machine rented only if
\* its launch was given up, terminating it failed, or the process died. A rented machine
\* belongs to a training that is at work on it, or to one that ended in one of these ways.
THEOREM TrainingInvariance == TrainingInit /\ [][TrainingNext]_trainingVars => []TrainingInv
  BY TrainingInvInit, TrainingStep, PTL

\* The invariant is stronger than the property.
LEMMA TrainingSafe == TrainingInv => TrainingTypeOK /\ BilledOnlyIfUnreachable
  BY DEF TrainingInv, BilledOnlyIfUnreachable, TrainingAt, WithMachine

\* Only a training with a hosted adapter tags, and only what is in its batch.
THEOREM TagsFollowHosting == TrainingInit /\ [][TrainingNext]_trainingVars => TaggedOnlyAfterHosting
<1>1. ASSUME TrainingInv, [TrainingNext]_trainingVars
      PROVE  [tagged' # tagged => \E t \in Trainings :
                training[t].version > 0 /\ tagged' \ tagged \subseteq training[t].batch]_trainingVars
  <2> SUFFICES ASSUME TrainingNext, tagged' # tagged
               PROVE  \E t \in Trainings :
                        training[t].version > 0 /\ tagged' \ tagged \subseteq training[t].batch
    BY <1>1
  <2>1. PICK t \in Trainings : MarkTrained(t)
    BY DEF TrainingNext, LogTrajectory, PruneTrajectory, RollbackReads, RollbackWrites, TrainingMoves,
           TrainingDies, CheckConditions, PackBatch, ScoreBatch, CreateInstance, InstanceRuns, LaunchFails,
           TerminateAfterError, TrainOnInstance, DownloadAdapter, AdapterHosted, SwapReads, SwapWrites,
           FinishTraining, FailUnrented
  <2>2. training[t].version > 0
    BY <1>1, <2>1 DEF MarkTrained, TrainingAt, TrainingInv, AfterHosting
  <2>3. tagged' \ tagged \subseteq training[t].batch
    BY <2>1 DEF MarkTrained
  <2> QED
    BY <2>2, <2>3
<1> QED
  BY <1>1, TrainingInvariance, PTL DEF TaggedOnlyAfterHosting

-----------------------------------------------------------------------------
(***************************************************************************)
(* A command of bash and its processes (BashTool).                         *)
(***************************************************************************)

\* A command that has run over its time has been sent SIGTERM, and only the
\* processes that ignore it are left in its group; after SIGKILL none are, and
\* once the call is answered nobody holds the pipe.
BashInv ==
  /\ BashTypeOK
  /\ bashCall.overdue => bashCall.at \in {"terminated", "killed", "answered"}
  /\ bashCall.tool = "bash" /\ bashCall.overdue =>
       /\ \A p \in Group : procs[p].deaf
       /\ bashCall.at = "answered" => PipeHolders = {}

\* No process runs at first.
LEMMA BashInvInit == BashInit => BashInv
<1> SUFFICES ASSUME BashInit PROVE BashInv
  OBVIOUS
<1>1. \A p \in Procs : procs[p].at = "none"
  BY DEF BashInit
<1>2. procs \in [Procs -> [at : {"none", "alive", "dead"}, group : BOOLEAN, pipe : BOOLEAN, deaf : BOOLEAN]]
  BY DEF BashInit
<1>3. /\ bashCall \in [tool : {"bash", "declared"}, at : BashStages, overdue : BOOLEAN, boxed : BOOLEAN]
      /\ ~bashCall.overdue
  BY DEF BashInit, BashStages
<1> QED
  BY <1>2, <1>3 DEF BashInv, BashTypeOK

\* A process of a command.
ShellProcess == [at : {"none", "alive", "dead"}, group : BOOLEAN, pipe : BOOLEAN, deaf : BOOLEAN]

\* The processes that a signal ends, of those in some set.
LEMMA EndedAre ==
  ASSUME BashInv, NEW gone \in SUBSET Procs, procs' = Ended(gone)
  PROVE  /\ procs' \in [Procs -> ShellProcess]
         /\ \A p \in Procs : p \notin gone => procs'[p] = procs[p]
         /\ \A p \in gone : procs'[p].at = "dead"
<1>1. procs \in [Procs -> ShellProcess]
  BY DEF BashInv, BashTypeOK, ShellProcess
<1>2. ASSUME NEW p \in Procs
      PROVE  /\ procs'[p] \in ShellProcess /\ (p \notin gone => procs'[p] = procs[p])
             /\ (p \in gone => procs'[p].at = "dead")
  <2>1. procs[p] \in ShellProcess
    BY <1>1
  <2>2. [procs[p] EXCEPT !.at = "dead"] \in ShellProcess /\ [procs[p] EXCEPT !.at = "dead"].at = "dead"
    BY <2>1 DEF ShellProcess
  <2> QED
    BY <2>1, <2>2 DEF Ended
<1>3. procs' = [p \in Procs |-> procs'[p]]
  BY DEF Ended
<1> QED
  BY <1>2, <1>3

\* All steps of a command and of its processes.
LEMMA BashStep == BashInv /\ [BashNext]_bashVars => BashInv'
<1> SUFFICES ASSUME BashInv, [BashNext]_bashVars PROVE BashInv'
  OBVIOUS
<1>a. procs \in [Procs -> ShellProcess]
  BY DEF BashInv, BashTypeOK, ShellProcess
<1>b. bashCall \in [tool : {"bash", "declared"}, at : BashStages, overdue : BOOLEAN, boxed : BOOLEAN]
  BY DEF BashInv, BashTypeOK
<1>c. ASSUME UNCHANGED bashCall, procs' \in [Procs -> ShellProcess],
             bashCall.tool = "bash" /\ bashCall.overdue =>
               /\ \A p \in Group' : procs'[p].deaf
               /\ bashCall.at = "answered" => PipeHolders' = {}
      PROVE  BashInv'
  BY <1>c DEF BashInv, BashTypeOK, ShellProcess
<1>1. CASE UNCHANGED bashVars
  BY <1>1 DEF bashVars, BashInv, BashTypeOK, Group, PipeHolders, IsAlive
<1>2. CASE Refuse
  <2>1. bashCall' = [bashCall EXCEPT !.at = "refused"] /\ procs' = procs /\ bashCall.at = "asked"
    BY <1>2 DEF Refuse
  <2>2. bashCall' \in [tool : {"bash", "declared"}, at : BashStages, overdue : BOOLEAN, boxed : BOOLEAN]
        /\ ~bashCall'.overdue
    BY <1>b, <2>1 DEF BashStages, BashInv
  <2> QED
    BY <1>a, <2>1, <2>2 DEF BashInv, BashTypeOK, ShellProcess
<1>3. CASE ShellTimesOut
  <2> DEFINE gone == Terminated(bashCall.tool)
  <2>1. gone \subseteq Procs
    BY BashAssumption DEF Terminated, Group
  <2>2. /\ procs' \in [Procs -> ShellProcess]
        /\ \A p \in Procs : p \notin gone => procs'[p] = procs[p]
        /\ \A p \in gone : procs'[p].at = "dead"
    BY <1>3, <2>1, EndedAre DEF ShellTimesOut
  <2>3. bashCall' = [bashCall EXCEPT !.overdue = TRUE,
                      !.at = IF bashCall.tool = "bash" THEN "terminated" ELSE "answered"]
    BY <1>3 DEF ShellTimesOut
  <2>4. /\ bashCall' \in [tool : {"bash", "declared"}, at : BashStages, overdue : BOOLEAN, boxed : BOOLEAN]
        /\ bashCall'.tool = bashCall.tool
        /\ bashCall'.at = IF bashCall.tool = "bash" THEN "terminated" ELSE "answered"
    BY <1>b, <2>3 DEF BashStages
  <2>5. ASSUME bashCall.tool = "bash", NEW p \in Procs, p \in Group' PROVE procs'[p].deaf
    <3>1. p \notin gone
      BY <2>2, <2>5 DEF Group, IsAlive
    <3> QED
      BY <2>2, <2>5, <3>1 DEF Terminated, Group, IsAlive
  <2>6. \A p \in Group' : p \in Procs
    BY DEF Group
  <2> QED
    BY <2>2, <2>4, <2>5, <2>6 DEF BashInv, BashTypeOK, ShellProcess
<1>4. CASE KillGroup
  <2>1. /\ procs' \in [Procs -> ShellProcess]
        /\ \A p \in Procs : p \notin Group => procs'[p] = procs[p]
        /\ \A p \in Group : procs'[p].at = "dead"
    BY <1>4, EndedAre DEF KillGroup, Group
  <2>2. bashCall' = [bashCall EXCEPT !.at = "killed"]
    BY <1>4 DEF KillGroup
  <2>3. /\ bashCall' \in [tool : {"bash", "declared"}, at : BashStages, overdue : BOOLEAN, boxed : BOOLEAN]
        /\ bashCall'.at = "killed"
    BY <1>b, <2>2 DEF BashStages
  <2>4. Group' = {}
    BY <2>1 DEF Group, IsAlive
  <2> QED
    BY <2>1, <2>3, <2>4 DEF BashInv, BashTypeOK, ShellProcess
<1>5. CASE ShellCloses
  <2>1. bashCall' = [bashCall EXCEPT !.at = "answered"] /\ procs' = procs /\ PipeHolders = {}
    BY <1>5 DEF ShellCloses
  <2>2. /\ bashCall' \in [tool : {"bash", "declared"}, at : BashStages, overdue : BOOLEAN, boxed : BOOLEAN]
        /\ bashCall'.at = "answered" /\ bashCall'.tool = bashCall.tool
        /\ bashCall'.overdue = bashCall.overdue
    BY <1>b, <2>1 DEF BashStages
  <2>3. Group' = Group /\ PipeHolders' = PipeHolders
    BY <2>1 DEF Group, PipeHolders, IsAlive
  <2> QED
    BY <1>a, <2>1, <2>2, <2>3 DEF BashInv, BashTypeOK, ShellProcess
<1>6. ASSUME NEW wanted \in BOOLEAN, NEW program \in BOOLEAN, NEW root,
             StartShell(wanted, root, program)
      PROVE  BashInv'
  <2> DEFINE box == bashCall.tool = "bash" /\ wanted /\ root = "exists"
  <2>1. CASE box /\ ~program
    <3>1. bashCall' = [bashCall EXCEPT !.at = "refused"] /\ procs' = procs /\ bashCall.at = "asked"
      BY <1>6, <2>1 DEF StartShell
    <3>2. bashCall' \in [tool : {"bash", "declared"}, at : BashStages, overdue : BOOLEAN, boxed : BOOLEAN]
          /\ ~bashCall'.overdue
      BY <1>b, <3>1 DEF BashStages, BashInv
    <3> QED
      BY <1>a, <3>1, <3>2 DEF BashInv, BashTypeOK, ShellProcess
  <2>2. CASE ~(box /\ ~program)
    <3>1. /\ bashCall' = [bashCall EXCEPT !.at = "running", !.boxed = box]
          /\ procs' = [procs EXCEPT ![Shell].at = "alive"] /\ bashCall.at = "asked"
      BY <1>6, <2>2 DEF StartShell
    <3>2. box \in BOOLEAN
      OBVIOUS
    <3> HIDE DEF box
    <3>3. bashCall' \in [tool : {"bash", "declared"}, at : BashStages, overdue : BOOLEAN, boxed : BOOLEAN]
          /\ ~bashCall'.overdue
      BY <1>b, <3>1, <3>2 DEF BashStages, BashInv
    <3>4. procs' \in [Procs -> ShellProcess]
      <4>1. procs[Shell] \in ShellProcess
        BY <1>a, BashAssumption
      <4>2. [procs[Shell] EXCEPT !.at = "alive"] \in ShellProcess
        BY <4>1 DEF ShellProcess
      <4>3. procs' = [procs EXCEPT ![Shell] = [procs[Shell] EXCEPT !.at = "alive"]]
        BY <3>1
      <4> QED
        BY <1>a, <4>2, <4>3
    <3> QED
      BY <3>3, <3>4 DEF BashInv, BashTypeOK, ShellProcess
  <2> QED
    BY <2>1, <2>2
<1>7. ASSUME NEW p \in Procs, NEW q \in Procs, NEW group \in BOOLEAN, NEW pipe \in BOOLEAN,
             Fork(p, q, group, pipe)
      PROVE  BashInv'
  <2> DEFINE new == [at |-> "alive", group |-> procs[p].group /\ group,
                     pipe |-> procs[p].pipe /\ pipe, deaf |-> procs[p].deaf]
  <2>1. /\ IsAlive(p) /\ bashCall' = bashCall /\ procs' = [procs EXCEPT ![q] = new]
    BY <1>7 DEF Fork
  <2>2. new \in ShellProcess /\ new.deaf = procs[p].deaf /\ (new.group => procs[p].group) /\ (new.pipe => procs[p].pipe)
    <3>1. procs[p] \in ShellProcess
      BY <1>a
    <3>2. procs[p].deaf \in BOOLEAN
      BY <3>1 DEF ShellProcess
    <3>3. (procs[p].group /\ group) \in BOOLEAN /\ (procs[p].pipe /\ pipe) \in BOOLEAN
      OBVIOUS
    <3> QED
      BY <3>2, <3>3 DEF ShellProcess
  <2> HIDE DEF new
  <2>3. procs' \in [Procs -> ShellProcess] /\ procs'[q] = new /\ \A r \in Procs \ {q} : procs'[r] = procs[r]
    BY <1>a, <2>1, <2>2
  <2>4. ASSUME bashCall.tool = "bash", bashCall.overdue
        PROVE  /\ \A r \in Group' : procs'[r].deaf
               /\ bashCall.at = "answered" => PipeHolders' = {}
    BY <2>1, <2>2, <2>3, <2>4 DEF BashInv, Group, PipeHolders, IsAlive
  <2> QED
    BY <1>c, <2>1, <2>3, <2>4
<1>8. ASSUME NEW p \in Procs, IgnoreTerm(p) PROVE BashInv'
  <2>1. procs' = [procs EXCEPT ![p] = [procs[p] EXCEPT !.deaf = TRUE]] /\ bashCall' = bashCall
    BY <1>8 DEF IgnoreTerm
  <2>2. LET new == [procs[p] EXCEPT !.deaf = TRUE]
        IN  new \in ShellProcess /\ new.deaf /\ new.at = procs[p].at /\ new.pipe = procs[p].pipe
    <3>1. procs[p] \in ShellProcess
      BY <1>a
    <3> QED
      BY <3>1 DEF ShellProcess
  <2>3. /\ procs' \in [Procs -> ShellProcess] /\ \A r \in Procs \ {p} : procs'[r] = procs[r]
        /\ procs'[p].deaf /\ procs'[p].at = procs[p].at /\ procs'[p].pipe = procs[p].pipe
    BY <1>a, <2>1, <2>2
  <2>4. ASSUME bashCall.tool = "bash", bashCall.overdue
        PROVE  /\ \A r \in Group' : procs'[r].deaf
               /\ bashCall.at = "answered" => PipeHolders' = {}
    BY <2>3, <2>4 DEF BashInv, Group, PipeHolders, IsAlive
  <2> QED
    BY <1>c, <2>1, <2>3, <2>4
<1>9. ASSUME NEW p \in Procs, EndProc(p) PROVE BashInv'
  <2>1. /\ bashCall' = bashCall /\ procs' \in [Procs -> ShellProcess]
        /\ \A r \in Procs : r # p => procs'[r] = procs[r]
        /\ procs'[p].at = "dead"
    BY <1>9, EndedAre DEF EndProc
  <2>2. ASSUME bashCall.tool = "bash", bashCall.overdue
        PROVE  /\ \A r \in Group' : procs'[r].deaf
               /\ bashCall.at = "answered" => PipeHolders' = {}
    BY <2>1, <2>2 DEF BashInv, Group, PipeHolders, IsAlive
  <2> QED
    BY <1>c, <2>1, <2>2
<1> QED
  BY <1>1, <1>2, <1>3, <1>4, <1>5, <1>6, <1>7, <1>8, <1>9 DEF BashNext

\* The invariant is stronger than the property.
LEMMA BashSafe == BashInv => BashTypeOK /\ OnlyTheDeafRemain
  BY DEF BashInv, OnlyTheDeafRemain, Group, PipeHolders

\* For any set of processes: of a command that ran over its time, only processes that
\* ignore SIGTERM and have dropped the pipe remain in its group.
THEOREM BashInvariance == BashInit /\ [][BashNext]_bashVars => []BashInv
  BY BashInvInit, BashStep, PTL

-----------------------------------------------------------------------------
(***************************************************************************)
(* The server of tools (McpServer).                                        *)
(***************************************************************************)

\* The calls that are counted.
CountedNow == {c \in AgentCalls : agentCalls[c] = "counted"}

\* The count is that of the calls that are counted, until the process exits.
ServerInv ==
  /\ McpServerTypeOK
  /\ stopping # "exited" => activeCallCount = Cardinality(CountedNow)
  /\ stopping = "exited" => \A c \in AgentCalls : agentCalls[c] \in {"answered", "refused", "cut"}

\* Nothing is called at first.
LEMMA ServerInvInit == McpServerInit => ServerInv
<1> SUFFICES ASSUME McpServerInit PROVE ServerInv
  OBVIOUS
<1> USE McpServerAssumption DEF McpServerInit
<1>1. Cardinality(AgentCalls) \in Nat
  BY FS_CardinalityType
<1>2. CountedNow = {} /\ Cardinality({}) = 0
  BY FS_EmptySet DEF CountedNow
<1>3. agentCalls \in [AgentCalls -> {"new", "checking", "counted", "answered", "refused", "cut"}]
  OBVIOUS
<1> QED
  BY <1>1, <1>2, <1>3 DEF ServerInv, McpServerTypeOK

\* One call goes on, without being counted or with its count.
LEMMA CallGoesStep ==
  ASSUME ServerInv, NEW c \in AgentCalls, NEW at \in {"checking", "counted", "answered", "refused"},
         CallTo(c, at), UNCHANGED <<stopping, received>>, stopping # "exited",
         activeCallCount' = activeCallCount + (IF at = "counted" THEN 1 ELSE 0)
                                            - (IF agentCalls[c] = "counted" THEN 1 ELSE 0)
  PROVE  ServerInv'
<1> USE McpServerAssumption
<1>1. agentCalls' = [agentCalls EXCEPT ![c] = at]
      /\ agentCalls \in [AgentCalls -> {"new", "checking", "counted", "answered", "refused", "cut"}]
  BY DEF CallTo, ServerInv, McpServerTypeOK
<1>2. agentCalls' \in [AgentCalls -> {"new", "checking", "counted", "answered", "refused", "cut"}]
      /\ agentCalls'[c] = at /\ \A d \in AgentCalls \ {c} : agentCalls'[d] = agentCalls[d]
  BY <1>1
<1>3. IsFiniteSet(CountedNow) /\ IsFiniteSet(CountedNow') /\ Cardinality(AgentCalls) \in Nat
  BY FS_Subset, FS_CardinalityType DEF CountedNow
<1>4. Cardinality(CountedNow) \in Nat /\ Cardinality(CountedNow') \in 0..Cardinality(AgentCalls)
  <2>1. CountedNow' \subseteq AgentCalls
    BY DEF CountedNow
  <2> QED
    BY <1>3, <2>1, FS_Subset, FS_CardinalityType
<1>5. activeCallCount = Cardinality(CountedNow)
  BY DEF ServerInv
<1>6. activeCallCount' = Cardinality(CountedNow')
  <2>1. CASE at = "counted" /\ agentCalls[c] # "counted"
    <3>1. CountedNow' = CountedNow \cup {c} /\ c \notin CountedNow
      BY <1>2, <2>1 DEF CountedNow
    <3>2. Cardinality(CountedNow') = Cardinality(CountedNow) + 1
      BY <1>3, <3>1, FS_AddElement
    <3> QED
      BY <1>4, <1>5, <2>1, <3>2
  <2>2. CASE at # "counted" /\ agentCalls[c] = "counted"
    <3>1. CountedNow' = CountedNow \ {c} /\ c \in CountedNow
      BY <1>2, <2>2 DEF CountedNow
    <3>2. Cardinality(CountedNow') = Cardinality(CountedNow) - 1
      BY <1>3, <3>1, FS_RemoveElement
    <3> QED
      BY <1>4, <1>5, <2>2, <3>2
  <2>3. CASE (at = "counted") <=> (agentCalls[c] = "counted")
    <3>1. CountedNow' = CountedNow
      BY <1>2, <2>3 DEF CountedNow
    <3> QED
      BY <1>4, <1>5, <2>3, <3>1
  <2> QED
    BY <2>1, <2>2, <2>3
<1> QED
  BY <1>2, <1>4, <1>6 DEF ServerInv, McpServerTypeOK

\* The exit cuts off what is not answered.
LEMMA ServerExitStep ==
  ASSUME ServerInv, Exit, received' \subseteq {"TERM", "INT"}
  PROVE  ServerInv'
<1>1. ASSUME NEW c \in AgentCalls
      PROVE  agentCalls'[c] \in {"answered", "refused", "cut"}
  BY DEF Exit, ServerInv, McpServerTypeOK
<1>2. agentCalls' \in [AgentCalls -> {"new", "checking", "counted", "answered", "refused", "cut"}]
  BY DEF Exit, ServerInv, McpServerTypeOK
<1> QED
  BY <1>1, <1>2 DEF Exit, ServerInv, McpServerTypeOK

\* All steps of the server and of its calls.
LEMMA ServerStep == ServerInv /\ [McpServerNext]_serverVars => ServerInv'
<1> SUFFICES ASSUME ServerInv, [McpServerNext]_serverVars PROVE ServerInv'
  OBVIOUS
<1>0. received \subseteq {"TERM", "INT"} /\ activeCallCount \in Nat
      /\ \A c \in AgentCalls : agentCalls[c] \in {"new", "checking", "counted"} => stopping # "exited"
  BY FS_CardinalityType, McpServerAssumption DEF ServerInv, McpServerTypeOK
<1>1. CASE UNCHANGED serverVars
  BY <1>1 DEF serverVars, ServerInv, McpServerTypeOK, CountedNow
<1>2. ASSUME NEW c \in AgentCalls, RefuseCall(c) \/ AdmitCall(c) \/ CountCall(c) \/ EndCall(c)
      PROVE  ServerInv'
  <2>1. CASE RefuseCall(c)
    BY <1>0, <2>1, CallGoesStep DEF RefuseCall
  <2>2. CASE AdmitCall(c)
    BY <1>0, <2>2, CallGoesStep DEF AdmitCall
  <2>3. CASE CountCall(c)
    BY <1>0, <2>3, CallGoesStep DEF CountCall
  <2>4. CASE EndCall(c)
    BY <1>0, <2>4, CallGoesStep DEF EndCall
  <2> QED
    BY <1>2, <2>1, <2>2, <2>3, <2>4
<1>3. ASSUME NEW s \in {"TERM", "INT"}, Signal(s) PROVE ServerInv'
  <2>1. received' \subseteq {"TERM", "INT"}
    BY <1>0, <1>3 DEF Signal
  <2>2. CASE Exit
    BY <2>1, <2>2, ServerExitStep
  <2>3. CASE ~Exit
    <3>1. /\ stopping # "exited" /\ UNCHANGED <<agentCalls, activeCallCount>>
          /\ stopping' = IF stopping = "no" THEN "draining" ELSE stopping
      BY <1>3, <2>3 DEF Signal
    <3> QED
      BY <2>1, <3>1 DEF ServerInv, McpServerTypeOK, CountedNow
  <2> QED
    BY <2>2, <2>3
<1>4. CASE PollCalls \/ BrowsersClosed
  BY <1>0, <1>4, ServerExitStep DEF PollCalls, BrowsersClosed
<1>5. CASE MinutePasses
  BY <1>5 DEF MinutePasses, ServerInv, McpServerTypeOK, CountedNow
<1> QED
  BY <1>1, <1>2, <1>3, <1>4, <1>5 DEF McpServerNext

\* For any finite set of calls: the count is that of the calls that are counted.
THEOREM ServerInvariance == McpServerInit /\ [][McpServerNext]_serverVars => []ServerInv
  BY ServerInvInit, ServerStep, PTL

\* A counted call is not cut off by SIGINT.
THEOREM CallsAreDrained == McpServerInit /\ [][McpServerNext]_serverVars => CountedCallsAreDrained
<1>1. ASSUME ServerInv, [McpServerNext]_serverVars
      PROVE  [stopping = "draining" /\ "TERM" \notin received' /\ stopping' = "exited" =>
                \A c \in AgentCalls : agentCalls[c] # "counted"]_serverVars
  <2> SUFFICES ASSUME McpServerNext, stopping = "draining", "TERM" \notin received', stopping' = "exited",
                      NEW c \in AgentCalls, agentCalls[c] = "counted"
               PROVE  FALSE
    BY <1>1
  <2>1. PollCalls
    BY DEF McpServerNext, RefuseCall, AdmitCall, CountCall, EndCall, Signal, MinutePasses, BrowsersClosed
  <2>2. activeCallCount = 0 /\ activeCallCount = Cardinality(CountedNow)
    BY <1>1, <2>1 DEF PollCalls, ServerInv
  <2>3. IsFiniteSet(CountedNow) /\ c \in CountedNow
    BY FS_Subset, McpServerAssumption DEF CountedNow
  <2> QED
    BY <2>2, <2>3, FS_EmptySet
<1> QED
  BY <1>1, ServerInvariance, PTL DEF CountedCallsAreDrained

-----------------------------------------------------------------------------
(***************************************************************************)
(* A download (WebFetch).                                                  *)
(***************************************************************************)

\* A redirect is followed only below the limit.
FetchInv == WebFetchTypeOK /\ (fetch.at = "checking" => fetch.hop < MaxRedirects)

\* No download has begun at first.
LEMMA FetchInvInit == WebFetchInit => FetchInv
  BY WebFetchAssumption DEF WebFetchInit, FetchInv, WebFetchTypeOK

\* All steps of a download.
LEMMA FetchStep == FetchInv /\ [WebFetchNext]_fetchVars => FetchInv'
<1> USE WebFetchAssumption
<1> SUFFICES ASSUME FetchInv, [WebFetchNext]_fetchVars PROVE FetchInv'
  OBVIOUS
<1> DEFINE States == {"idle", "resolving", "waiting", "checking", "reading", "ok", "error"}
<1>0. /\ fetch \in [at : States, hop : 0..MaxRedirects, method : {"GET", "POST"}]
      /\ alarms \subseteq {"dns", "headers", "body"}
  BY DEF FetchInv, WebFetchTypeOK
<1>a. ASSUME NEW at \in States, fetch' = [fetch EXCEPT !.at = at],
             at = "checking" => fetch.hop < MaxRedirects,
             alarms' \subseteq {"dns", "headers", "body"}
      PROVE  FetchInv'
  <2>1. /\ fetch' \in [at : States, hop : 0..MaxRedirects, method : {"GET", "POST"}]
        /\ fetch'.at = at /\ fetch'.hop = fetch.hop
    BY <1>0, <1>a
  <2> QED
    BY <1>a, <2>1 DEF FetchInv, WebFetchTypeOK
<1>b. ASSUME NEW hop \in 0..MaxRedirects, NEW verb \in {"GET", "POST"}, Request(hop, verb),
             alarms' \subseteq {"dns", "headers", "body"}
      PROVE  FetchInv'
  <2>1. fetch' = [at |-> "waiting", hop |-> hop, method |-> verb]
    BY <1>b DEF Request
  <2> QED
    BY <1>b, <2>1 DEF FetchInv, WebFetchTypeOK
<1>1. CASE UNCHANGED fetchVars
  BY <1>1 DEF fetchVars, FetchInv, WebFetchTypeOK
<1>2. ASSUME NEW m \in {"GET", "POST"}, NEW b \in BOOLEAN, CallFetch(m, b) PROVE FetchInv'
  BY <1>0, <1>2 DEF CallFetch, FetchInv, WebFetchTypeOK
<1>3. ASSUME NEW b \in BOOLEAN, HostResolved(b) PROVE FetchInv'
  BY <1>0, <1>3, <1>a, <1>b DEF HostResolved, FetchTo
<1>4. ASSUME NEW b \in BOOLEAN, HeadersArrive(b) PROVE FetchInv'
  <2>1. PICK at \in {"reading", "error"} : fetch' = [fetch EXCEPT !.at = at]
    BY <1>4 DEF HeadersArrive, FetchTo
  <2> QED
    BY <1>4, <1>a, <2>1 DEF HeadersArrive
<1>5. ASSUME NEW b \in BOOLEAN, BodyArrives(b) PROVE FetchInv'
  <2>1. PICK at \in {"ok", "error"} : fetch' = [fetch EXCEPT !.at = at]
    BY <1>5 DEF BodyArrives, FetchTo
  <2> QED
    BY <1>5, <1>a, <2>1 DEF BodyArrives
<1>6. CASE Redirected
  <2>1. CASE fetch.hop = MaxRedirects
    BY <1>6, <1>a, <2>1 DEF Redirected, FetchTo
  <2>2. CASE fetch.hop # MaxRedirects
    BY <1>0, <1>6, <1>a, <2>2 DEF Redirected, FetchTo
  <2> QED
    BY <2>1, <2>2
<1>7. ASSUME NEW b \in BOOLEAN, NEW keeps \in BOOLEAN, RedirectResolved(b, keeps) PROVE FetchInv'
  <2>1. CASE b \/ "headers" \notin alarms
    BY <1>7, <1>a, <2>1 DEF RedirectResolved, FetchTo
  <2>2. CASE ~(b \/ "headers" \notin alarms)
    <3>1. fetch.hop + 1 \in 0..MaxRedirects
      BY <1>0, <1>7 DEF RedirectResolved, FetchAt, FetchInv
    <3>2. (IF keeps THEN fetch.method ELSE "GET") \in {"GET", "POST"}
      BY <1>0
    <3> QED
      BY <1>0, <1>7, <1>b, <2>2, <3>1, <3>2 DEF RedirectResolved
  <2> QED
    BY <2>1, <2>2
<1>8. ASSUME NEW a \in {"dns", "headers", "body"}, AlarmRings(a) PROVE FetchInv'
  <2>1. alarms' \subseteq {"dns", "headers", "body"}
    BY <1>0, <1>8 DEF AlarmRings
  <2>2. CASE UNCHANGED fetch
    BY <2>1, <2>2 DEF FetchInv, WebFetchTypeOK
  <2>3. CASE FetchTo("error")
    BY <1>a, <2>1, <2>3 DEF FetchTo
  <2> QED
    BY <1>8, <2>2, <2>3 DEF AlarmRings
<1> QED
  BY <1>1, <1>2, <1>3, <1>4, <1>5, <1>6, <1>7, <1>8 DEF WebFetchNext

\* For any limit of redirects: the types, since the limit is tested before the next
\* redirect.
THEOREM FetchInvariance == WebFetchInit /\ [][WebFetchNext]_fetchVars => []FetchInv
  BY FetchInvInit, FetchStep, PTL

-----------------------------------------------------------------------------
(***************************************************************************)
(* All parts together, with the loop of a run (MCProcesses).               *)
(***************************************************************************)

\* Every step of the whole is a step, or a stutter, of each part.
LEMMA StepsOfTheProcesses ==
  [ProcessesNext]_processVars =>
    /\ [Next]_vars /\ [ChannelNext]_spVars /\ [CliNext]_cliVars /\ [McpNext]_mcpVars
    /\ [MfNext]_mfVars /\ [TrainingNext]_trainingVars /\ [BashNext]_bashVars
    /\ [McpServerNext]_serverVars /\ [WebFetchNext]_fetchVars
<1> SUFFICES ASSUME [ProcessesNext]_processVars
             PROVE  /\ [Next]_vars /\ [ChannelNext]_spVars /\ [CliNext]_cliVars /\ [McpNext]_mcpVars
                    /\ [MfNext]_mfVars /\ [TrainingNext]_trainingVars /\ [BashNext]_bashVars
                    /\ [McpServerNext]_serverVars /\ [WebFetchNext]_fetchVars
  OBVIOUS
<1>1. CASE UNCHANGED processVars
  BY <1>1 DEF processVars
<1>2. CASE ProcessesNext
  BY <1>2 DEF ProcessesNext, Others
<1> QED
  BY <1>1, <1>2

\* The whole starts where the parts do.
LEMMA StartsOfTheProcesses ==
  ProcessesInit =>
    /\ Init /\ ChannelInit /\ CliInit /\ McpInit /\ MfInit /\ TrainingInit /\ BashInit
    /\ McpServerInit /\ WebFetchInit
  BY DEF ProcessesInit

\* A caller is told of its child what is so, and in time.
THEOREM ChildrenAreBelieved == ProcessesSpec => []ChildIsBelieved
<1>1. ProcessesSpec => []ChildInv
  BY StartsOfTheProcesses, StepsOfTheProcesses, ChildInit, ChildStep, PTL DEF ProcessesSpec
<1>2. ChildInv => ChildIsBelieved
  BY DEF ChildInv, Settled, ChildIsBelieved, ResolvedOnlyIfDone, LateEventsOnlyAfterTimeout
<1> QED
  BY <1>1, <1>2, PTL

\* Two processes have the lock of the command line only through one of its gaps.
THEOREM InstancesAreSingle == ProcessesSpec => []OneInstanceButForGaps
<1>1. ProcessesSpec => []CliInv
  BY StartsOfTheProcesses, StepsOfTheProcesses, CliInvInit, CliStep, PTL DEF ProcessesSpec
<1> QED
  BY <1>1, CliSafe, PTL

\* A server of tools has no connection that nobody uses, and no more requests than
\* the retries allow.
THEOREM ToolServersAreSpared == ProcessesSpec => []ServersAreSpared
<1>1. ProcessesSpec => []McpInv
  BY StartsOfTheProcesses, StepsOfTheProcesses, McpInvInit, McpStep, PTL DEF ProcessesSpec
<1>2. McpInv => ServersAreSpared
  BY McpSafe DEF ServersAreSpared
<1> QED
  BY <1>1, <1>2, PTL

\* A memory file is changed by writers that have loaded it.
THEOREM MemoryIsChangedInTurn == ProcessesSpec => []ChangesAreOfTheFile
<1>1. ProcessesSpec => []MfInv
  BY StartsOfTheProcesses, StepsOfTheProcesses, MfInvInit, MfStep, PTL DEF ProcessesSpec
<1>2. MfInv => ChangesAreOfTheFile
  BY DEF MfInv
<1> QED
  BY <1>1, <1>2, PTL

\* A machine that nobody needs is billed only if it could not be reached.
THEOREM MachinesAreReturned == ProcessesSpec => []BilledOnlyIfUnreachable
<1>1. ProcessesSpec => []TrainingInv
  BY StartsOfTheProcesses, StepsOfTheProcesses, TrainingInvInit, TrainingStep, PTL DEF ProcessesSpec
<1> QED
  BY <1>1, TrainingSafe, PTL

\* Of a command of bash that ran over its time only deaf processes remain.
THEOREM CommandsAreCleared == ProcessesSpec => []OnlyTheDeafRemain
<1>1. ProcessesSpec => []BashInv
  BY StartsOfTheProcesses, StepsOfTheProcesses, BashInvInit, BashStep, PTL DEF ProcessesSpec
<1> QED
  BY <1>1, BashSafe, PTL

\* The state of the part that is looked at has its types.
THEOREM ProcessesAreTyped == ProcessesSpec => []ProcessTypesOK
<1> DEFINE AllTypes == /\ TypeOK /\ ChannelTypeOK /\ CliTypeOK /\ McpTypeOK /\ MfTypeOK
                       /\ TrainingTypeOK /\ BashTypeOK /\ McpServerTypeOK /\ WebFetchTypeOK
           AllInv == /\ IInv /\ ChildInv /\ CliInv /\ McpInv /\ MfInv /\ TrainingInv /\ BashInv
                     /\ ServerInv /\ FetchInv
<1>1. ProcessesInit => AllInv /\ part \in Parts
  BY StartsOfTheProcesses, InitInv, ChildInit, CliInvInit, McpInvInit, MfInvInit, TrainingInvInit,
     BashInvInit, ServerInvInit, FetchInvInit DEF ProcessesInit
<1>2. AllInv /\ [ProcessesNext]_processVars => AllInv'
  BY StepsOfTheProcesses, InvStep, ChildStep, CliStep, McpStep, MfStep, TrainingStep, BashStep,
     ServerStep, FetchStep
<1>3. part \in Parts /\ [ProcessesNext]_processVars => (part \in Parts)'
  BY DEF ProcessesNext, Others, processVars
<1>4. AllInv => AllTypes
  BY CliSafe, McpSafe, TrainingSafe, BashSafe
     DEF IInv, ChildInv, MfInv, ServerInv, FetchInv
<1>5. AllTypes /\ part \in Parts => ProcessTypesOK
  BY DEF Parts, ProcessTypesOK
<1>6. ProcessesSpec => [](AllInv /\ part \in Parts)
  <2> HIDE DEF AllInv
  <2> QED
    BY <1>1, <1>2, <1>3, PTL DEF ProcessesSpec
<1>7. AllInv /\ part \in Parts => ProcessTypesOK
  <2> HIDE DEF AllInv, AllTypes
  <2> QED
    BY <1>4, <1>5
<1> QED
  <2> HIDE DEF AllInv
  <2> QED
    BY <1>6, <1>7, PTL

\* A server exits when its calls are done, a process unlinks its own file, and
\* trajectories are used up by a training that was hosted.
THEOREM EndsAreTimely == ProcessesSpec => NothingEndsTooSoon
<1>1. ProcessesSpec => /\ McpServerInit /\ [][McpServerNext]_serverVars
                       /\ CliInit /\ [][CliNext]_cliVars
                       /\ TrainingInit /\ [][TrainingNext]_trainingVars
  BY StartsOfTheProcesses, StepsOfTheProcesses, PTL DEF ProcessesSpec
<1> QED
  BY <1>1, CallsAreDrained, OwnFileIsReleased, TagsFollowHosting, PTL DEF NothingEndsTooSoon
=============================================================================

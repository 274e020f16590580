---------------------------- MODULE MCProcesses -----------------------------
(* What waits for something else, one part at a time: the loop of a run, a  *)
(* caller for its child process, a command-line process for its lock and    *)
(* its exit, a call for a server of tools, the writers of a memory file, a  *)
(* training for its machine, a call of bash for its processes, the server   *)
(* of tools for its calls, and a download for its timers.  The parts that   *)
(* are not looked at stay in one of their initial states.                   *)
EXTENDS AgentLoop, Subprocess, Cli, McpClient, MemoryFile, Training, BashTool, McpServer, WebFetch, TLC

CONSTANTS w1, w2, w3,      \* writers of the memory file
          c1, c2, k1, k2   \* processes and calls; trainings

VARIABLE part

\* The first two are of one process.
McProcessOf == w1 :> "p" @@ w2 :> "p" @@ w3 :> "q"

processVars == <<vars, spVars, cliVars, mcpVars, mfVars, trainingVars, bashVars, serverVars,
                 fetchVars, part>>

Parts == {"run", "child", "cli", "client", "memory", "training", "bash", "server", "fetch"}

\* The variables of the parts but one.
Others(p) ==
  /\ part = p /\ part' = part
  /\ p # "run" => UNCHANGED vars
  /\ p # "child" => UNCHANGED spVars
  /\ p # "cli" => UNCHANGED cliVars
  /\ p # "client" => UNCHANGED mcpVars
  /\ p # "memory" => UNCHANGED mfVars
  /\ p # "training" => UNCHANGED trainingVars
  /\ p # "bash" => UNCHANGED bashVars
  /\ p # "server" => UNCHANGED serverVars
  /\ p # "fetch" => UNCHANGED fetchVars

ProcessesInit ==
  /\ part \in Parts
  /\ Init /\ ChannelInit /\ CliInit /\ McpInit /\ MfInit /\ TrainingInit /\ BashInit
  /\ McpServerInit /\ WebFetchInit
  /\ part # "run" => ~ancestor
  /\ part # "child" => method = "agent/run" /\ deadline = "none"
  /\ part # "cli" => pidFile = Absent
  /\ part # "bash" => bashCall.tool = "bash"

ProcessesNext ==
  \/ part = "run" /\ Next /\ Others("run")
  \/ part = "child" /\ ChannelNext /\ Others("child")
  \/ part = "cli" /\ CliNext /\ Others("cli")
  \/ part = "client" /\ McpNext /\ Others("client")
  \/ part = "memory" /\ MfNext /\ Others("memory")
  \/ part = "training" /\ TrainingNext /\ Others("training")
  \/ part = "bash" /\ BashNext /\ Others("bash")
  \/ part = "server" /\ McpServerNext /\ Others("server")
  \/ part = "fetch" /\ WebFetchNext /\ Others("fetch")

\* The fair steps of each part, numbered: one formula asks fairness for the
\* steps of that number of all parts, of which only one can be looked at.
FairStep(i) ==
  \/ /\ part = "run"
     /\ CASE i = 1 -> RunStep [] i = 2 -> MetaArrives [] OTHER -> FALSE
     /\ Others("run")
  \/ /\ part = "child"
     /\ CASE i = 1 -> ReadsLine [] i = 2 -> SeesClose [] i = 3 -> TimesOut
          [] i = 4 -> KillsChild [] i = 5 -> Starts [] i = 6 -> Leaves [] i = 7 -> BrowsersClose
     /\ Others("child")
  \/ /\ part = "cli" /\ i \in 1..6
     /\ LET p == IF i > 3 THEN c2 ELSE c1
        IN  CASE i % 3 = 0 -> HardKill(p) [] i % 3 = 1 -> UnlinkPid(p)
              [] OTHER -> CliBrowsersClosed(p)
     /\ Others("cli")
  \/ /\ part = "client" /\ i \in 1..2 /\ CallMoves(<<c1, c2>>[i])
     /\ Others("client")
  \/ /\ part = "memory" /\ i \in 1..3 /\ WriterMoves(<<w1, w2, w3>>[i])
     /\ Others("memory")
  \/ /\ part = "training" /\ i \in 1..2 /\ TrainingMoves(<<k1, k2>>[i])
     /\ Others("training")
  \/ /\ part = "bash"
     /\ CASE i = 1 -> ShellTimesOut [] i = 2 -> KillGroup [] i = 3 -> ShellCloses
          [] OTHER -> FALSE
     /\ Others("bash")
  \/ /\ part = "server"
     /\ CASE i = 1 -> PollCalls [] i = 2 -> MinutePasses [] OTHER -> FALSE
     /\ Others("server")
  \/ /\ part = "fetch" /\ i \in 1..4
     /\ IF i = 4 THEN LookupGivenUp ELSE AlarmRings(<<"dns", "headers", "body">>[i])
     /\ Others("fetch")

ProcessesSpec ==
  ProcessesInit /\ [][ProcessesNext]_processVars /\ \A i \in 1..7 : WF_processVars(FairStep(i))

-----------------------------------------------------------------------------
\* A wait of the part that is looked at has begun, and is over.
WaitBegun(i) ==
  \/ part = "run" /\ pc = "setup"
  \/ part = "child" /\ IF i = 1 THEN ~ChildLives \/ deadline = "armed" ELSE cause = "timeout"
  \/ part = "cli" /\ asked[<<c1, c2>>[i]] # "no"
  \/ part = "client" /\ Stage(<<c1, c2>>[i]) = "calling"
  \/ part = "memory" /\ phase[<<w1, w3>>[i]] = "waiting"
  \/ part = "training"
  \/ part = "bash" /\ bashCall.at = "running"
  \/ part = "server" /\ stopping = "draining"
  \/ part = "fetch" /\ fetch.at # "idle"

WaitOver(i) ==
  \/ part = "run" /\ pc = "done"
  \/ part = "child" /\ IF i = 1 THEN promise # "pending" ELSE ~ChildLives
  \/ part = "cli" /\ ~Alive(<<c1, c2>>[i])
  \/ part = "client" /\ Stage(<<c1, c2>>[i]) \in {"answered", "failed"}
  \/ part = "memory" /\ phase[<<w1, w3>>[i]] = "done"
  \/ part = "training" /\ TrainingAt(<<k1, k2>>[i], "ended")
  \/ part = "bash" /\ (bashCall.at = "answered" \/ ~(PipeHolders \subseteq Group))
  \/ part = "server" /\ stopping = "exited"
  \/ part = "fetch" /\ fetch.at \in {"ok", "error"}

\* Every wait ends: EveryRunEnds, CallSettles, GivenUpChildEnds, ToolCallEnds,
\* EveryWriterEnds, EveryTrainingEnds, BashCallEnds, ShutdownEnds, FetchEnds and
\* InterruptedProcessEnds, each for the part of its module.
EveryWaitEnds == \A i \in 1..2 : WaitBegun(i) ~> WaitOver(i)

\* The types of the part that is looked at.
ProcessTypesOK ==
  CASE part = "run" -> TypeOK
    [] part = "child" -> ChannelTypeOK
    [] part = "cli" -> CliTypeOK
    [] part = "client" -> McpTypeOK
    [] part = "memory" -> MfTypeOK
    [] part = "training" -> TrainingTypeOK
    [] part = "bash" -> BashTypeOK
    [] part = "server" -> McpServerTypeOK
    [] part = "fetch" -> WebFetchTypeOK

\* What the caller of a child process is told is so, and told in time
\* (ResolvedOnlyIfDone, LateEventsOnlyAfterTimeout, Subprocess).
ChildIsBelieved == ResolvedOnlyIfDone /\ LateEventsOnlyAfterTimeout

\* A server of tools is not left with connections nobody uses, nor asked more often
\* than the retries allow (ConnectionsAreClosed, RepeatedCallsBounded, McpClient).
ServersAreSpared == ConnectionsAreClosed /\ RepeatedCallsBounded

\* Nothing is cleaned up too soon: a server of tools exits when its calls are done, a
\* process unlinks its own pid file, and trajectories are used up by a training that
\* was hosted (CountedCallsAreDrained, McpServer; ReleasesOwnPidFile, Cli;
\* TaggedOnlyAfterHosting, Training).
NothingEndsTooSoon == CountedCallsAreDrained /\ ReleasesOwnPidFile /\ TaggedOnlyAfterHosting
=============================================================================

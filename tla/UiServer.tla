------------------------------ MODULE UiServer ------------------------------
(***************************************************************************)
(* The server of the browser interface (ui-server.ts) and the setup wizard *)
(* that looks for it or starts one (setup.ts).  A server takes ui.pid,     *)
(* binds its port and writes ui.port; stopped, it removes both files.      *)
(*                                                                         *)
(* Files are created and filled in two steps, and each await lets other    *)
(* processes in.  A file is known by the process that has created it.      *)
(***************************************************************************)
EXTENDS Naturals

CONSTANTS Servers,    \* processes "orager ui"
          Ports, DefaultPort,
          Ghost,      \* a process that died before
          NoServer

ASSUME UiAssumption ==
  /\ DefaultPort \in Ports /\ 0 \notin Ports
  /\ Ghost \notin Servers /\ NoServer \notin Servers /\ Ghost # NoServer

VARIABLES serving,   \* each server: where it is, its port, whether another has disturbed it,
                     \* whether it was killed
          pidFile,   \* ui.pid: who has created it, whether it is filled
          portFile,  \* ui.port: who has written it, and the port
          wizard     \* the setup: where it is and the server it has started

uiVars == <<serving, pidFile, portFile, wizard>>

NoPidFile == [by |-> NoServer, full |-> FALSE]
NoPortFile == [by |-> NoServer, port |-> 0]
ServerStages == {"off", "locking", "filling", "judging", "unlinking", "retaking", "rereading",
                 "binding", "listening", "published", "releasing", "exiting", "gone"}
ServerState == [at : ServerStages, port : Ports, disturbed : BOOLEAN, killed : BOOLEAN]

UiTypeOK ==
  /\ serving \in [Servers -> ServerState]
  /\ pidFile \in [by : Servers \cup {Ghost, NoServer}, full : BOOLEAN]
  /\ portFile \in [by : Servers \cup {Ghost, NoServer}, port : Ports \cup {0}]
  /\ wizard \in [at : {"start", "spawning", "waiting", "open", "late", "done"},
                 server : Servers \cup {NoServer}]

UiInit ==
  /\ serving = [s \in Servers |-> [at |-> "off", port |-> DefaultPort,
                                   disturbed |-> FALSE, killed |-> FALSE]]
  /\ \/ pidFile = NoPidFile /\ portFile = NoPortFile
     \/ /\ pidFile = [by |-> Ghost, full |-> TRUE]
        /\ portFile \in [by : {Ghost}, port : Ports] \cup {NoPortFile}
  /\ wizard = [at |-> "start", server |-> NoServer]

ServerAt(s, at) == serving[s].at = at
ServerTo(s, at) == serving' = [serving EXCEPT ![s].at = at]
Runs(s) == s \in Servers /\ serving[s].at \notin {"off", "gone"}
Listens(s) == serving[s].at \in {"listening", "published", "releasing", "exiting"}
ListenersOn(p) == {s \in Servers : Listens(s) /\ serving[s].port = p}

\* A server that went through the check of ui.pid, or found no file to check.
PastCheck(s) == serving[s].at \notin {"off", "locking", "judging", "gone"}

\* What a server writes or removes beside another that has passed the check
\* of ui.pid disturbs it.
Disturbs(s, at) ==
  serving' = [r \in Servers |->
    IF r = s THEN [serving[r] EXCEPT !.at = at]
    ELSE [serving[r] EXCEPT !.disturbed = @ \/ PastCheck(r)]]

\* It ends without having removed its files.
Dies(s) == serving' = [serving EXCEPT ![s].at = "gone", ![s].killed = TRUE]
Killed(s) == s = Ghost \/ (s \in Servers /\ serving[s].killed)

-----------------------------------------------------------------------------
(***************************************************************************)
(* acquireUiPidLock                                                        *)
(***************************************************************************)
StartServer(s, p) ==
  /\ ServerAt(s, "off")
  /\ serving' = [serving EXCEPT ![s].at = "locking", ![s].port = p]
  /\ UNCHANGED <<pidFile, portFile, wizard>>

\* Exclusive creation; the second attempt reads the file once more if it fails.
CreatePid(s) ==
  /\ serving[s].at \in {"locking", "retaking"}
  /\ IF pidFile = NoPidFile
       THEN pidFile' = [by |-> s, full |-> FALSE] /\ ServerTo(s, "filling")
       ELSE /\ ServerTo(s, IF ServerAt(s, "locking") THEN "judging" ELSE "rereading")
            /\ UNCHANGED pidFile
  /\ UNCHANGED <<portFile, wizard>>

\* Into the file it has created, which another may have removed.
FillPid(s) ==
  /\ ServerAt(s, "filling")
  /\ pidFile' = IF pidFile.by = s THEN [pidFile EXCEPT !.full = TRUE] ELSE pidFile
  /\ ServerTo(s, "binding")
  /\ UNCHANGED <<portFile, wizard>>

\* Mutant: the handlers that remove the files are there from the start, for
\* a server that is refused as well.
JudgePidAndClean(s) ==
  /\ ServerAt(s, "judging")
  /\ IF pidFile.full /\ Runs(pidFile.by)
       THEN ServerTo(s, "gone") /\ pidFile' = NoPidFile /\ portFile' = NoPortFile
       ELSE ServerTo(s, "unlinking") /\ UNCHANGED <<pidFile, portFile>>
  /\ UNCHANGED wizard

\* Refused if the process is there; a file that is empty or gone is stale.
JudgePid(s) ==
  /\ ServerAt(s, "judging")
  /\ ServerTo(s, IF pidFile.full /\ Runs(pidFile.by) THEN "gone" ELSE "unlinking")
  /\ UNCHANGED <<pidFile, portFile, wizard>>

UnlinkPid(s) ==
  /\ ServerAt(s, "unlinking")
  /\ pidFile' = NoPidFile
  /\ IF pidFile.by \in Servers THEN Disturbs(s, "retaking") ELSE ServerTo(s, "retaking")
  /\ UNCHANGED <<portFile, wizard>>

\* A file that has vanished since counts as its own; any other, half-written
\* ones included, ends the start.
RereadPid(s) ==
  /\ ServerAt(s, "rereading")
  /\ ServerTo(s, IF pidFile = NoPidFile THEN "binding" ELSE "gone")
  /\ UNCHANGED <<pidFile, portFile, wizard>>

-----------------------------------------------------------------------------
(***************************************************************************)
(* startUiServer                                                           *)
(***************************************************************************)

\* If the port is taken ui.pid is removed, whosever it is.
BindPort(s) ==
  /\ ServerAt(s, "binding")
  /\ IF ListenersOn(serving[s].port) = {}
       THEN ServerTo(s, "listening") /\ UNCHANGED pidFile
       ELSE Disturbs(s, "gone") /\ pidFile' = NoPidFile
  /\ UNCHANGED <<portFile, wizard>>

\* From here on signals are handled.
Publish(s) ==
  /\ ServerAt(s, "listening")
  /\ portFile' = [by |-> s, port |-> serving[s].port]
  /\ Disturbs(s, "published")
  /\ UNCHANGED <<pidFile, wizard>>

\* SIGINT or SIGTERM: cleanup removes one file and then the other.
StopServer(s) ==
  /\ ServerAt(s, "published")
  /\ portFile' = NoPortFile
  /\ Disturbs(s, "releasing")
  /\ UNCHANGED <<pidFile, wizard>>

ReleasePid(s) ==
  /\ ServerAt(s, "releasing")
  /\ pidFile' = NoPidFile
  /\ Disturbs(s, "exiting")
  /\ UNCHANGED <<portFile, wizard>>

\* The exit handler removes both once more.
ExitServer(s) ==
  /\ ServerAt(s, "exiting")
  /\ pidFile' = NoPidFile /\ portFile' = NoPortFile
  /\ Disturbs(s, "gone")
  /\ UNCHANGED wizard

ServerDies(s) ==
  /\ Runs(s)
  /\ Dies(s)
  /\ UNCHANGED <<pidFile, portFile, wizard>>

-----------------------------------------------------------------------------
(***************************************************************************)
(* setupViaUiServer                                                        *)
(***************************************************************************)

\* checkUiAuth: the interface itself is open, its API asks for the token.
Answer(token) == IF token THEN 200 ELSE 401

\* probeUiServer asks for /api/config and sends no token.
Probe(p) == ListenersOn(p) # {} /\ Answer(FALSE) = 200

\* findRunningUiPort: ui.port is read and its port asked.
FindServer ==
  /\ wizard.at = "start"
  /\ wizard' = [wizard EXCEPT !.at = IF portFile # NoPortFile /\ Probe(portFile.port)
                                THEN "open" ELSE "spawning"]
  /\ UNCHANGED <<serving, pidFile, portFile>>

\* The port that ui.pid names, that of a process that is gone as well, or the default.
SpawnPorts ==
  IF ~pidFile.full THEN {DefaultPort}
  ELSE IF pidFile.by = Ghost THEN Ports ELSE {serving[pidFile.by].port}

SpawnServer(s) ==
  /\ wizard.at = "spawning" /\ ServerAt(s, "off")
  /\ \E p \in SpawnPorts : serving' = [serving EXCEPT ![s].at = "locking", ![s].port = p]
  /\ wizard' = [at |-> "waiting", server |-> s]
  /\ UNCHANGED <<pidFile, portFile>>

\* After 900 ms.
CheckSpawned ==
  /\ wizard.at = "waiting"
  /\ wizard' = [wizard EXCEPT !.at = IF Probe(serving[wizard.server].port) THEN "open" ELSE "late"]
  /\ UNCHANGED <<serving, pidFile, portFile>>

\* Enter, or the warning that the server has not responded: the server that
\* was started is sent SIGTERM, which stops it if it handles signals yet.
EndSetup ==
  /\ wizard.at \in {"open", "late"}
  /\ wizard' = [wizard EXCEPT !.at = "done"]
  /\ IF wizard.server = NoServer \/ serving[wizard.server].at \in {"releasing", "exiting", "gone"}
       THEN UNCHANGED <<serving, portFile>>
       ELSE IF ServerAt(wizard.server, "published")
       THEN portFile' = NoPortFile /\ Disturbs(wizard.server, "releasing")
       ELSE Dies(wizard.server) /\ UNCHANGED portFile
  /\ UNCHANGED pidFile

-----------------------------------------------------------------------------
UiNext ==
  \/ \E s \in Servers :
       \/ \E p \in Ports : StartServer(s, p)
       \/ CreatePid(s) \/ FillPid(s) \/ JudgePid(s) \/ UnlinkPid(s) \/ RereadPid(s)
       \/ BindPort(s) \/ Publish(s) \/ StopServer(s) \/ ReleasePid(s) \/ ExitServer(s)
       \/ ServerDies(s) \/ SpawnServer(s)
  \/ FindServer \/ CheckSpawned \/ EndSetup

UiSpec == UiInit /\ [][UiNext]_uiVars

-----------------------------------------------------------------------------
(***************************************************************************)
(* Properties                                                              *)
(***************************************************************************)

\* The process that created ui.pid is there, and the one that wrote ui.port
\* serves, or it was killed: no start, refused or failed, and no end of a
\* server, an orderly one or by the wizard, leaves a file behind that names
\* nobody.
FilesNameRunningServers ==
  /\ pidFile.by # NoServer => Runs(pidFile.by) \/ Killed(pidFile.by)
  /\ portFile.by # NoServer =>
       (portFile.by \in Servers /\ ServerAt(portFile.by, "published")) \/ Killed(portFile.by)

\* And a server that runs is named by both files, so that a later start is
\* refused and tools find it, although refused starts and the wizard go on
\* beside it; but for a server that had come past the check of ui.pid too.
FilesNameTheServer ==
  \A s \in Servers : ServerAt(s, "published") /\ ~serving[s].disturbed =>
    pidFile = [by |-> s, full |-> TRUE] /\ portFile = [by |-> s, port |-> serving[s].port]
=============================================================================

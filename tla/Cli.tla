-------------------------------- MODULE Cli ---------------------------------
(***************************************************************************)
(* The command line's processes (index.ts): the lock file orager.pid, that *)
(* keeps a second instance from starting a run; signals, of which the      *)
(* first asks the loop to stop and arms a forced exit, and the second      *)
(* exits at once; and the ways out, with and without a release.            *)
(*                                                                         *)
(* Creating the file and writing the pid are two steps, and so are judging *)
(* the file and unlinking it: the model keeps who created the file that    *)
(* the name refers to, and who has judged that very file.                  *)
(*                                                                         *)
(* SIGTERM has a second handler, of tools/browser.ts, which index.ts       *)
(* imports by way of loop.ts and tools/index.ts: it exits with code 0 once *)
(* the tool's browsers are closed, at once if there are none.              *)
(***************************************************************************)
EXTENDS Naturals

CONSTANTS Clis,     \* processes
          Absent,   \* there is no pid file, or nobody's
          Blank,    \* the pid file is empty
          Ghost,    \* the pid of a process that is long gone
          Retries   \* of the loop that reclaims a stale file

ASSUME CliAssumption ==
  /\ {Absent, Blank, Ghost} \cap Clis = {}
  /\ Absent # Blank /\ Absent # Ghost /\ Blank # Ghost
  /\ Retries \in Nat \ {0}

VARIABLES pidFile,  \* the pid in it
          maker,    \* who created it
          sawStale, \* who has found it stale
          where,    \* where each process is
          left,     \* retries left
          held,     \* _cliLockHeld
          asked,    \* _shutdownInProgress: "no", or the first signal, "int" or "term"
          slip      \* a step fell into one of the gaps named below

pidFileVars == <<pidFile, maker, sawStale>>
cliVars == <<pidFileVars, where, left, held, asked, slip>>

CliStages == {"exited", "terminated", "dispatch", "acquire", "opened", "reading", "reclaim", "recreate",
           "rereading", "checks", "loop", "ending", "unlinking", "leaving", "killed"}

CliTypeOK ==
  /\ pidFile \in Clis \cup {Absent, Blank, Ghost}
  /\ maker \in Clis \cup {Absent}
  /\ sawStale \subseteq Clis
  /\ where \in [Clis -> CliStages]
  /\ left \in [Clis -> 1..Retries]
  /\ held \in [Clis -> BOOLEAN] /\ asked \in [Clis -> {"no", "int", "term"}]
  /\ slip \in BOOLEAN

CliInit ==
  /\ pidFile \in {Absent, Blank, Ghost} /\ maker = Absent /\ sawStale = {}
  /\ where = [p \in Clis |-> "exited"]
  /\ left = [p \in Clis |-> Retries]
  /\ held = [p \in Clis |-> FALSE] /\ asked = [p \in Clis |-> "no"]
  /\ slip = FALSE

Alive(p) == where[p] \notin {"exited", "terminated"}
At(p, stage) == where[p] = stage
To(p, stage) == where' = [where EXCEPT ![p] = stage]

\* The process is gone, and with it all that it had in memory.
Gone(p, stage) ==
  /\ To(p, stage)
  /\ left' = [left EXCEPT ![p] = Retries]
  /\ held' = [held EXCEPT ![p] = FALSE]
  /\ asked' = [asked EXCEPT ![p] = "no"]

Exits(p) == Gone(p, "exited")

Unlinked == pidFile' = Absent /\ maker' = Absent /\ sawStale' = {}

-----------------------------------------------------------------------------
(***************************************************************************)
(* main: what the arguments ask for                                        *)
(***************************************************************************)

\* (Bound: a pid is not used again while the file has it.)
Launch(p) ==
  /\ ~Alive(p)
  /\ pidFile # p
  /\ To(p, "dispatch")
  /\ UNCHANGED <<pidFileVars, left, held, asked, slip>>

\* Commands that need no run are done at once; run, chat and --subprocess run
\* without the lock, and so does what has --config-file or an environment
\* variable that skips it.
DispatchCommand(p) ==
  /\ At(p, "dispatch")
  /\ \/ Exits(p)
     \/ \E stage \in {"loop", "checks", "acquire"} : To(p, stage) /\ UNCHANGED <<left, held, asked>>
  /\ UNCHANGED <<pidFileVars, slip>>

-----------------------------------------------------------------------------
(***************************************************************************)
(* acquireCliPidLock                                                       *)
(***************************************************************************)
CreatePidFile(p, otherwise) ==
  IF pidFile = Absent
    THEN pidFile' = Blank /\ maker' = p /\ sawStale' = {} /\ To(p, "opened")
    ELSE To(p, otherwise) /\ UNCHANGED pidFileVars

TryCreate(p) ==
  /\ At(p, "acquire")
  /\ CreatePidFile(p, "reading")
  /\ UNCHANGED <<left, held, asked, slip>>

WritePid(p) ==
  /\ At(p, "opened")
  /\ pidFile' = IF maker = p THEN p ELSE pidFile
  /\ held' = [held EXCEPT ![p] = TRUE]
  /\ left' = [left EXCEPT ![p] = Retries]
  /\ To(p, "checks")
  /\ UNCHANGED <<maker, sawStale, asked, slip>>

\* The disk is full: the error ends the process, the file stays as it is.
PidWriteFails(p) ==
  /\ At(p, "opened")
  /\ Exits(p)
  /\ UNCHANGED <<pidFileVars, slip>>

Running(file) == file \in Clis /\ Alive(file)

\* Whose creator has yet to write it.
BeingWritten == pidFile = Blank /\ maker \in Clis /\ At(maker, "opened")

\* Mutant: process.kill is not asked, an existing file is taken over.
JudgePidUnasked(p) ==
  /\ At(p, "reading")
  /\ To(p, "reclaim") /\ UNCHANGED <<left, held, asked>>
  /\ sawStale' = IF pidFile = Absent THEN sawStale ELSE sawStale \cup {p}
  /\ slip' = (slip \/ BeingWritten)
  /\ UNCHANGED <<pidFile, maker>>

\* A process that lives has it: this one exits.  Otherwise, and if the file
\* is empty or gone, it counts as stale.
JudgePid(p) ==
  /\ At(p, "reading")
  /\ IF Running(pidFile) THEN Exits(p)
                         ELSE To(p, "reclaim") /\ UNCHANGED <<left, held, asked>>
  /\ sawStale' = IF pidFile = Absent \/ Running(pidFile) THEN sawStale ELSE sawStale \cup {p}
  /\ slip' = (slip \/ BeingWritten)
  /\ UNCHANGED <<pidFile, maker>>

UnlinkStalePid(p) ==
  /\ At(p, "reclaim")
  /\ slip' = (slip \/ (pidFile # Absent /\ p \notin sawStale))
  /\ Unlinked
  /\ To(p, "recreate")
  /\ UNCHANGED <<left, held, asked>>

RecreatePidFile(p) ==
  /\ At(p, "recreate")
  /\ CreatePidFile(p, "rereading")
  /\ UNCHANGED <<left, held, asked, slip>>

\* Another came first.  If it lives, or if it has not written its pid yet
\* (JSON.parse throws), this one exits.
JudgeWinner(p) ==
  /\ At(p, "rereading")
  /\ pidFile = Blank \/ Running(pidFile)
  /\ Exits(p)
  /\ UNCHANGED <<pidFileVars, slip>>

\* It is gone again: another try, and after the last one on without the lock.
RetryReclaim(p) ==
  /\ At(p, "rereading")
  /\ pidFile # Blank /\ ~Running(pidFile)
  /\ IF left[p] > 1 THEN To(p, "reclaim") /\ left' = [left EXCEPT ![p] = @ - 1]
                    ELSE To(p, "checks") /\ left' = [left EXCEPT ![p] = Retries]
  /\ sawStale' = IF pidFile = Absent THEN sawStale ELSE sawStale \cup {p}
  /\ UNCHANGED <<pidFile, maker, held, asked, slip>>

-----------------------------------------------------------------------------
(***************************************************************************)
(* The run and its end                                                     *)
(***************************************************************************)

\* No API key, no prompt, a tools file that cannot be read: process.exit(1)
\* with the lock held.
ChecksFail(p) ==
  /\ At(p, "checks")
  /\ Exits(p)
  /\ UNCHANGED <<pidFileVars, slip>>

ChecksPass(p) ==
  /\ At(p, "checks")
  /\ To(p, "loop")
  /\ UNCHANGED <<pidFileVars, left, held, asked, slip>>

\* The run returns or throws; a chat ends at the end of its input, so that
\* its run may have been stopped and the process go on.
LoopEnds(p) ==
  /\ At(p, "loop")
  /\ To(p, "ending")
  /\ UNCHANGED <<pidFileVars, left, held, asked, slip>>

\* Mutant: the flag is cleared when the file is gone.
ReleaseFlagLate(p) ==
  /\ At(p, "ending")
  /\ To(p, IF held[p] THEN "unlinking" ELSE "leaving")
  /\ UNCHANGED <<pidFileVars, left, held, asked, slip>>

\* releaseCliPidLock: _cliLockHeld is cleared first.
ReleasePidLock(p) ==
  /\ At(p, "ending")
  /\ To(p, IF held[p] THEN "unlinking" ELSE "leaving")
  /\ held' = [held EXCEPT ![p] = FALSE]
  /\ UNCHANGED <<pidFileVars, left, asked, slip>>

UnlinkPid(p) ==
  /\ where[p] \in {"unlinking", "killed"}
  /\ Unlinked
  /\ IF At(p, "killed") THEN Exits(p) ELSE To(p, "leaving") /\ UNCHANGED <<left, held, asked>>
  /\ UNCHANGED slip

\* The event loop has nothing left.
Drains(p) ==
  /\ At(p, "leaving")
  /\ Exits(p)
  /\ UNCHANGED <<pidFileVars, slip>>

\* handleInterrupt by Ctrl-C; a second signal exits without any cleanup.
Interrupt(p) ==
  /\ Alive(p)
  /\ IF asked[p] # "no" THEN Exits(p)
       ELSE asked' = [asked EXCEPT ![p] = "int"] /\ UNCHANGED <<where, left, held>>
  /\ UNCHANGED <<pidFileVars, slip>>

\* SIGTERM: both handlers run.  With a browser open the process goes on until
\* it is closed.
Terminate(p) ==
  /\ Alive(p) /\ asked[p] = "no"
  /\ \/ Gone(p, "terminated")
     \/ asked' = [asked EXCEPT ![p] = "term"] /\ UNCHANGED <<where, left, held>>
  /\ UNCHANGED <<pidFileVars, slip>>

CliBrowsersClosed(p) ==
  /\ Alive(p) /\ asked[p] = "term"
  /\ Gone(p, "terminated")
  /\ UNCHANGED <<pidFileVars, slip>>

\* The five seconds are over: the lock is released, if it is still held, and
\* the process exits, whatever it is doing.
HardKill(p) ==
  /\ Alive(p) /\ asked[p] = "int" /\ ~At(p, "killed")
  /\ IF held[p]
       THEN To(p, "killed") /\ held' = [held EXCEPT ![p] = FALSE] /\ UNCHANGED <<left, asked>>
       ELSE Exits(p)
  /\ UNCHANGED <<pidFileVars, slip>>

\* SIGKILL, or a power cut.
Killed(p) ==
  /\ Alive(p)
  /\ Exits(p)
  /\ UNCHANGED <<pidFileVars, slip>>

CliNext ==
  \E p \in Clis :
    \/ Launch(p) \/ DispatchCommand(p) \/ TryCreate(p) \/ WritePid(p) \/ PidWriteFails(p)
    \/ JudgePid(p) \/ UnlinkStalePid(p) \/ RecreatePidFile(p) \/ JudgeWinner(p)
    \/ RetryReclaim(p) \/ ChecksFail(p) \/ ChecksPass(p) \/ LoopEnds(p) \/ ReleasePidLock(p)
    \/ UnlinkPid(p) \/ Drains(p) \/ Interrupt(p) \/ Terminate(p) \/ CliBrowsersClosed(p)
    \/ HardKill(p) \/ Killed(p)

\* The timers fire and an unlink under way is carried out; a run may take for ever.
CliFairness ==
  \A p \in Clis :
    WF_cliVars(HardKill(p)) /\ WF_cliVars(UnlinkPid(p)) /\ WF_cliVars(CliBrowsersClosed(p))

CliSpec == CliInit /\ [][CliNext]_cliVars /\ CliFairness

-----------------------------------------------------------------------------
(***************************************************************************)
(* Properties                                                              *)
(***************************************************************************)
PidHolders == {p \in Clis : held[p] /\ where[p] \in {"checks", "loop", "ending"}}

\* Two processes have the lock only if one of them read the pid file between
\* its creation and its writing, or unlinked another one than it had judged.
OneInstanceButForGaps == slip \/ \A p, q \in PidHolders : p = q

\* A release, by the end of the run or by the forced exit, removes the
\* process's own pid file and nobody else's, even if both release.
ReleasesOwnPidFile ==
  [][\A p \in Clis : UnlinkPid(p) => (slip \/ maker \in {p, Absent})]_cliVars

\* A process that was asked to stop is gone in the end, however long its run
\* takes and whether or not it has the lock.
InterruptedProcessEnds == \A p \in Clis : asked[p] # "no" ~> ~Alive(p)

\* "Set the flag -- the agent loop checks this at the top of each turn and
\* breaks cleanly, allowing the finally block to save sessions + release
\* locks" (index.ts): the first signal does not end a run that is going on.
FirstSignalLetsTheRunEnd ==
  [][\A p \in Clis : (At(p, "loop") /\ asked[p] = "no") => where'[p] # "terminated"]_cliVars
=============================================================================

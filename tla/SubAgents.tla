----------------------------- MODULE SubAgents ------------------------------
(***************************************************************************)
(* The tree of agent runs that one run starts (loop.ts, tools/agent.ts):   *)
(* the Agent tool starts a run from a catalogue of definitions and with    *)
(* options of its own, spawn_agent one with the options of its caller.     *)
(*                                                                         *)
(* The events of a run pass through the handler of the call that started   *)
(* it, and on through the handlers of all the runs above it.               *)
(***************************************************************************)
EXTENDS Naturals, FiniteSets

CONSTANTS SubRuns,   \* runs that may be started
          RootRun,   \* the run the user started
          MaxDepth   \* maxSpawnDepth

ASSUME SubAgentsAssumption == RootRun \notin SubRuns /\ MaxDepth \in Nat

VARIABLE team   \* what is known of each run

Members == SubRuns \cup {RootRun}

SubAgentsTypeOK ==
  team \in [Members ->
    [at : {"unused", "running", "ended"},
     depth : 0..MaxDepth,                         \* _spawnDepth
     above : SUBSET Members,                      \* the runs its events pass through
     tool : {"none", "Agent", "spawn_agent"},     \* what started it
     catalogue : BOOLEAN,                         \* agents is given: it has the Agent tool
     limited : BOOLEAN,                           \* _allowedTools is given
     muted : BOOLEAN,                             \* _suppressMemoryWrite
     awaited : BOOLEAN,                           \* the call that started it still waits
     ok : BOOLEAN,                                \* its own result is a success
     failure : BOOLEAN,                           \* subError, in the handler of that call
     told : {"none", "ok", "error", "timeout"}]]  \* the result of that call

Unstarted == [at |-> "unused", depth |-> 0, above |-> {}, tool |-> "none", catalogue |-> FALSE,
              limited |-> FALSE, muted |-> FALSE, awaited |-> FALSE, ok |-> TRUE,
              failure |-> FALSE, told |-> "none"]

SubAgentsInit ==
  \E catalogue \in BOOLEAN :
    team = [r \in Members |->
              IF r = RootRun THEN [Unstarted EXCEPT !.at = "running", !.catalogue = catalogue]
                             ELSE Unstarted]

RunsNow(r) == team[r].at = "running"
CallerOf(c) == CHOOSE p \in team[c].above : \A q \in team[c].above : team[q].depth <= team[p].depth
AwaitedBy(p) == {c \in SubRuns : RunsNow(c) /\ team[c].awaited /\ CallerOf(c) = p}

\* Mutant: the depth is checked after it was counted.
MaySpawnOneMore(p) == RunsNow(p) /\ team[p].depth <= MaxDepth

MaySpawn(p) == RunsNow(p) /\ team[p].depth < MaxDepth

SubRunStarts(p, c, tool, options) ==
  /\ team[c].at = "unused"
  /\ team' = [team EXCEPT ![c] =
       [options EXCEPT !.at = "running", !.depth = team[p].depth + 1, !.tool = tool,
                       !.above = team[p].above \cup {p}, !.awaited = TRUE, !.ok = TRUE,
                       !.failure = FALSE, !.told = "none"]]

-----------------------------------------------------------------------------
\* The Agent tool: options from scratch, with the limits of the definition
\* and without the catalogue.
AgentTool(p, c, limited, muted) ==
  /\ MaySpawn(p) /\ team[p].catalogue
  /\ SubRunStarts(p, c, "Agent", [Unstarted EXCEPT !.limited = limited, !.muted = muted])

\* Mutant: the options are chosen one by one, without _suppressMemoryWrite.
SpawnToolUnmuted(p, c) ==
  /\ MaySpawn(p)
  /\ SubRunStarts(p, c, "spawn_agent", [team[p] EXCEPT !.muted = FALSE])

\* spawn_agent, which is added behind the allow-list: the caller's options.
SpawnTool(p, c) ==
  /\ MaySpawn(p)
  /\ SubRunStarts(p, c, "spawn_agent", team[p])

\* The call's own limit or what is left of the caller's time: the tool
\* executor stops waiting, the run goes on.
CallTimesOut(c) ==
  /\ RunsNow(c) /\ team[c].awaited
  /\ team' = [team EXCEPT ![c].awaited = FALSE, ![c].told = "timeout"]

\* The result event of a run passes through every handler above it: each
\* spawn_agent call on the way takes a failure for that of its own run.  The
\* Agent tool reports no failure at all.
MemberEnds(r, ok) ==
  LET hears == {x \in team[r].above \cup {r} : team[x].tool = "spawn_agent"}
      failed == team[r].failure \/ (~ok /\ r \in hears)
  IN  /\ RunsNow(r) /\ AwaitedBy(r) = {}
      /\ team' = [x \in Members |->
           IF x = r
             THEN [team[r] EXCEPT
                     !.at = "ended", !.ok = ok, !.failure = failed, !.awaited = FALSE,
                     !.told = IF ~team[r].awaited THEN @ ELSE IF failed THEN "error" ELSE "ok"]
             ELSE [team[x] EXCEPT !.failure = @ \/ (~ok /\ x \in hears)]]

SubAgentsNext ==
  \/ \E p \in Members, c \in SubRuns :
       \/ \E limited, muted \in BOOLEAN : AgentTool(p, c, limited, muted)
       \/ SpawnTool(p, c)
  \/ \E c \in SubRuns : CallTimesOut(c)
  \/ \E r \in Members, ok \in BOOLEAN : MemberEnds(r, ok)

SubAgentsSpec == SubAgentsInit /\ [][SubAgentsNext]_team

-----------------------------------------------------------------------------
\* Whichever of the two tools starts the runs between them, a run is as deep
\* as there are runs above it and never deeper than maxSpawnDepth; below a run
\* that was started from the catalogue there is none; and what a run may not
\* do, its tools and its memory updates, no run below it may.
LimitsAreInherited ==
  \A r \in SubRuns : team[r].at # "unused" =>
    /\ team[r].depth = Cardinality(team[r].above) /\ team[r].depth <= MaxDepth
    /\ \A x \in team[r].above :
         /\ team[x].tool = "Agent" => ~team[r].catalogue
         /\ team[x].limited => team[r].limited
         /\ team[x].muted => team[r].muted
=============================================================================

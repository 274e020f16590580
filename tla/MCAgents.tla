----------------------------- MODULE MCAgents ------------------------------
(* What the turns of a session add up to, one part at a time: runs with a   *)
(* cost limit whose metadata comes late, the streams of answers, memory,    *)
(* the skill bank, the files and browsers of tools, runs within runs, and   *)
(* the summaries that later runs start from.  The parts that are not looked *)
(* at stay in one of their initial states.                                  *)
EXTENDS AgentLoop, ChatStream, MemoryDb, SkillBank, SubAgents, FileTools, BrowserPool,
        Checkpoint, TLC

CONSTANTS t1, t2, fa, fb, e1, e2, e3  \* topics; files and edits of them

VARIABLE part

McAreaOf == (t1 :> 1) @@ (t2 :> 1)
McEditedFile == (e1 :> fa) @@ (e2 :> fa) @@ (e3 :> fb)

Line(kind, index, opens) == [kind |-> kind, index |-> index, opens |-> opens]
McLines == {Line("text", 1, FALSE), Line("call", 1, TRUE), Line("call", 1, FALSE),
            Line("call", 2, TRUE), Line("finish", 1, FALSE), Line("error", 1, FALSE)}

agentVars == <<vars, streamVars, memVars, bankVars, ratingVars, team, toolVars, poolVars,
               checkpointVars, part>>

Parts == {"loop", "stream", "memory", "bank", "rating", "team", "files", "pool", "checkpoint"}

\* The variables of the parts but one.
Others(p) ==
  /\ part = p /\ part' = part
  /\ p # "loop" => UNCHANGED vars
  /\ p # "stream" => UNCHANGED streamVars
  /\ p # "memory" => UNCHANGED memVars
  /\ p # "bank" => UNCHANGED bankVars
  /\ p # "rating" => UNCHANGED ratingVars
  /\ p # "team" => UNCHANGED team
  /\ p # "files" => UNCHANGED toolVars
  /\ p # "pool" => UNCHANGED poolVars
  /\ p # "checkpoint" => UNCHANGED checkpointVars

AgentsInit ==
  /\ part \in Parts
  /\ Init /\ MemInit /\ BankInit /\ RatingInit /\ PoolInit /\ CheckpointInit
  /\ StreamInit /\ SubAgentsInit /\ FilesInit
  /\ part # "loop" => ~ancestor
  /\ part # "stream" => wire = <<>> /\ family = "other" /\ keys = {} /\ ~local
  /\ part # "team" => team[RootRun].catalogue
  /\ part # "files" => content = [f \in Files |-> {}]

AgentsNext ==
  \/ part = "loop" /\ Next /\ Others("loop")
  \/ part = "stream" /\ StreamNext /\ Others("stream")
  \/ part = "memory" /\ MemNext /\ Others("memory")
  \/ part = "bank" /\ BankNext /\ Others("bank")
  \/ part = "rating" /\ RatingNext /\ Others("rating")
  \/ part = "team" /\ SubAgentsNext /\ Others("team")
  \/ part = "files" /\ FilesNext /\ Others("files")
  \/ part = "pool" /\ PoolNext /\ Others("pool")
  \/ part = "checkpoint" /\ CheckpointNext /\ Others("checkpoint")

AgentsSpec == AgentsInit /\ [][AgentsNext]_agentVars

\* The cost of a session is exact, and its limit holds (CostIsExact, NoTurnOverLimit,
\* AgentLoop).
MoneyIsCounted == CostIsExact /\ NoTurnOverLimit

\* The skill bank as a whole: NoTwins, ArchivedPointToTheirMerger (SkillBank) and the
\* success rates that decide which skills are pruned (RateIsTheShare, SkillBank).
SkillsAreKept == NoTwins /\ ArchivedPointToTheirMerger /\ RateIsTheShare

\* What tools leave behind: a failed edit nothing, the pool open browsers
\* (FailedEditsLeaveNothing, FileTools; PooledBrowsersAreOpen, BrowserPool).
ToolsLeaveOrder == FailedEditsLeaveNothing /\ PooledBrowsersAreOpen

\* The types of the part that is looked at.
AgentTypesOK ==
  CASE part = "loop" -> TypeOK
    [] part = "stream" -> StreamTypeOK
    [] part = "memory" -> MemTypeOK
    [] part = "bank" -> BankTypeOK
    [] part = "rating" -> RatingTypeOK
    [] part = "team" -> SubAgentsTypeOK
    [] part = "files" -> FilesTypeOK
    [] part = "pool" -> PoolTypeOK
    [] part = "checkpoint" -> CheckpointTypeOK
=============================================================================

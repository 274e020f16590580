------------------------------ MODULE MCTurns -------------------------------
(* What a turn of a run does, one part at a time: the model it asks, the    *)
(* tool calls it executes, and the history it leaves.  The parts that are   *)
(* not looked at stay in one of their initial states.                       *)
EXTENDS ToolExec, Conversation, Router, TLC

CONSTANTS base, local, teacher,  \* models
          Parts                  \* the parts that are looked at

VARIABLE part

partVars == <<vars, conversationVars, routerVars, part>>

InTools == part = "tools" /\ UNCHANGED <<conversationVars, routerVars, part>>
InHistory == part = "history" /\ UNCHANGED <<vars, routerVars, part>>
InRouting == part = "routing" /\ UNCHANGED <<vars, conversationVars, part>>

TurnsInit ==
  /\ part \in Parts /\ Init /\ ConversationInit /\ RouterInit
  /\ part # "tools" => ~plan /\ mode = [parallel |-> FALSE, ask |-> "answer"]
  /\ part # "routing" => ~setup.vision /\ ~setup.sees

TurnsNext ==
  \/ Next /\ InTools
  \/ ConversationNext /\ InHistory
  \/ RouterNext /\ InRouting

\* Weaker than the fairness of ToolExec: some call of the turn goes on, or its end does.
ToolsGoOn == EndTurn \/ TurnThrows \/ \E i \in Slots : TakeOne(i) \/ CallStep(i)
TurnsFairness == WF_partVars(ToolsGoOn /\ InTools)

TurnsSpec == TurnsInit /\ [][TurnsNext]_partVars /\ TurnsFairness

\* A sticky rule below one that applies once.
McRules == <<[model |-> teacher, once |-> TRUE, afterTurn |-> 2, costAbove |-> 0],
             [model |-> teacher, once |-> FALSE, afterTurn |-> 0, costAbove |-> 1]>>
McPrices == [m \in RoutedModels |-> IF m = base THEN 1 ELSE IF m = local THEN 0 ELSE 2]

\* The history is not followed once it may be broken.
Undamaged == ~damaged

\* The history is well formed, in order, and holds the turns it should
\* (HistoryOrdered, TurnsRemembered, Conversation).
HistoryIsKept == ConversationTypeOK /\ HistoryOrdered /\ TurnsRemembered

\* Rules for turns stick, and every model asked is one of the run's (RulesStick, Router).
TurnRulesStick == RouterTypeOK /\ RulesStick

\* The calls of a turn end, and after an error no further one begins (TurnEnds,
\* StopsAfterFailure, ToolExec: M-08 of loop-helpers.ts).
ToolTurnsEnd == StopsAfterFailure /\ (part = "tools" => TurnEnds)
=============================================================================

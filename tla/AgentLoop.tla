----------------------------- MODULE AgentLoop -----------------------------
(***************************************************************************)
(* runAgentLoop (loop.ts): the life of the runs of one session, from their *)
(* setup to their result event.  A run takes turns: it consults the limits *)
(* at the head of its loop, calls the model, executes the tool calls of    *)
(* the answer and judges what came back.  Every await is a point where the *)
(* abort signal, a shutdown or the metadata of an earlier call may arrive. *)
(*                                                                         *)
(* The history is reduced to whether it differs from the session file, a   *)
(* tool call to its tool and its arguments, a cost to a number.  The       *)
(* messages are modelled in Conversation, the breaker in CircuitBreaker.   *)
(***************************************************************************)
EXTENDS Integers, Sequences, FiniteSets, FiniteSetsExt

CONSTANTS None,
          Tools, Args,     \* names of tools, and arguments to call them with
          MaxCalls,        \* bound: tool calls in one answer
          FinishTool,      \* FINISH_TOOL_NAME if opts.useFinishTool, or None
          QuestionMode,    \* opts.approvalMode = "question", some tool needs approval
          JsonMode,        \* opts.response_format.type = "json_object"
          MaxTurns,        \* opts.maxTurns; 0 is unlimited
          TurnBound,       \* bound: an unlimited run stops counting its turns here
          MaxIdentical,    \* opts.maxIdenticalToolCallTurns
          StuckLimit,      \* warnings before the loop is aborted
          ErrorBudget,     \* TOOL_ERROR_BUDGET
          BudgetHardStop,  \* opts.toolErrorBudgetHardStop
          SoftLimit,       \* opts.maxCostUsdSoft, or None
          HardLimit,       \* opts.maxCostUsd, or None
          TurnCosts,       \* estimated costs of a call
          ActualCosts,     \* costs that the generation metadata may report
          PromptMeta,      \* metadata arrives before the loop's next step
          Interrupts,      \* subset of {"abort", "shutdown"}: what may happen to a run
          Failures,        \* subset of Faults: what may go wrong
          MaxRuns          \* bound: runs of the session

Faults == {"setup", "call", "callback", "save", "emit", "circuit", "cycle"}

ASSUME LoopAssumption ==
  /\ None \notin Tools
  /\ FinishTool \in Tools \cup {None}
  /\ {MaxCalls, StuckLimit, ErrorBudget, MaxRuns} \subseteq Nat \ {0}
  /\ {MaxTurns, TurnBound, MaxIdentical} \subseteq Nat
  /\ {SoftLimit, HardLimit} \subseteq Nat \cup {None}
  /\ TurnCosts \subseteq Nat /\ ActualCosts \subseteq Nat \ {0}
  /\ {QuestionMode, JsonMode, BudgetHardStop, PromptMeta} \subseteq BOOLEAN
  /\ Failures \subseteq Faults
  /\ Interrupts \subseteq {"abort", "shutdown"}

VARIABLES pc,             \* where the run is
          runs,           \* runs started so far
          turn,           \* turn
          healed,         \* jsonHealingUsed
          calls,          \* response.toolCalls of the current turn
          lastSig,        \* lastToolCallSig
          streak,         \* identicalTurnStreak
          stuck,          \* stuckAttempt
          loopAborted,    \* loopAborted
          toolErrors,     \* consecutiveToolErrors
          totalCost,      \* totalCostUsd
          meta,           \* fetchGenerationMeta requests in flight
          aborted,        \* _effectiveAbortSignal.aborted
          shutdown,       \* isShutdownRequested()
          ancestor,       \* opts._parentSessionIds holds opts.sessionId
          unsaved,        \* messages differ from those of the session file
          savedCost,      \* cumulativeCostUsd of the session file
          resultEmitted,  \* _resultEmitted
          results,        \* subtypes of the result events the caller got
          rejected,       \* the run's promise was rejected
          modelCalls,     \* history: model calls of the run
          repeats,        \* history: turns in a row with the same tool calls
          billed          \* history: what the calls of the session cost, as far as is known

control == <<pc, runs, turn, healed, calls>>
detection == <<lastSig, streak, stuck, loopAborted, toolErrors>>
money == <<totalCost, meta>>
signals == <<aborted, shutdown, ancestor>>
session == <<unsaved, savedCost>>
outcome == <<resultEmitted, results, rejected>>
history == <<modelCalls, repeats, billed>>
vars == <<control, detection, money, signals, session, outcome, history>>

Call == [tool : Tools, args : Args]
Answers == UNION {[1..n -> Call] : n \in 1..MaxCalls}
Smaller(m, n) == IF m < n THEN m ELSE n
RepeatBound == MaxIdentical + StuckLimit  \* bound: the history counts no further
CallBound == IF MaxTurns = 0 THEN TurnBound ELSE MaxTurns + 2  \* bound: likewise
\* The sorted, joined calls of an answer: a bag.
Signature(answer) == [c \in Call |-> Cardinality({i \in DOMAIN answer : answer[i] = c})]

Phases == {"setup", "start", "top", "waiting", "calling", "tools", "turnEnd", "after",
           "emit", "catch", "finally", "done"}
Subtypes == {"success", "error", "error_max_turns", "error_max_cost", "error_circuit_open",
             "error_cancelled", "error_tool_budget", "error_loop_abort"}

TypeOK ==
  /\ pc \in Phases
  /\ runs \in 1..MaxRuns
  /\ turn \in Nat /\ (MaxTurns > 0 => turn <= MaxTurns)
  /\ healed \in BOOLEAN
  /\ calls \in Answers \cup {<<>>}
  /\ lastSig \in {Signature(a) : a \in Answers} \cup {None}
  /\ streak \in 0..MaxIdentical
  /\ stuck \in 0..StuckLimit
  /\ loopAborted \in BOOLEAN
  /\ toolErrors \in [Tools -> Nat]
  /\ totalCost \in Nat
  /\ meta \subseteq [before : Nat, estimate : TurnCosts, cost : ActualCosts, call : Nat]
  /\ {aborted, shutdown, ancestor, unsaved, resultEmitted, rejected} \subseteq BOOLEAN
  /\ savedCost \in Nat
  /\ results \in Seq(Subtypes)
  /\ {modelCalls, repeats} \subseteq Nat
  /\ billed \in Int

\* Whether a run may be given its own session among those it descends from.
Ancestry == {FALSE} \cup (IF "cycle" \in Failures THEN {TRUE} ELSE {})

\* The state of a run as its function is entered.
FreshRun ==
  /\ pc = "setup"
  /\ turn = 0 /\ healed = FALSE /\ calls = <<>>
  /\ lastSig = None /\ streak = 0 /\ stuck = 0 /\ loopAborted = FALSE
  /\ toolErrors = [t \in Tools |-> 0]
  /\ meta = {}
  /\ aborted = FALSE /\ shutdown = FALSE /\ ancestor \in Ancestry
  /\ unsaved = FALSE
  /\ resultEmitted = FALSE /\ results = <<>> /\ rejected = FALSE
  /\ modelCalls = 0 /\ repeats = 0

Init ==
  /\ FreshRun
  /\ runs = 1
  /\ savedCost = 0 /\ totalCost = 0 /\ billed = 0

-----------------------------------------------------------------------------
(***************************************************************************)
(* What several steps share                                                *)
(***************************************************************************)

\* saveSession; callers ignore its failure.
Save ==
  \/ unsaved' = FALSE /\ savedCost' = totalCost
  \/ "save" \in Failures /\ UNCHANGED session

\* emitResult.  The event is delivered; the webhook warning or the handler itself
\* may throw after that.
EmitResult(subtype) ==
  /\ resultEmitted' = TRUE
  /\ results' = Append(results, subtype)
  /\ pc' \in {"finally"} \cup (IF "emit" \in Failures THEN {"catch"} ELSE {})
  /\ UNCHANGED rejected

-----------------------------------------------------------------------------
(***************************************************************************)
(* Before the loop                                                         *)
(***************************************************************************)

\* Missing variables, a busy session, a missing MCP server: a result, and return.
SetupReturns ==
  /\ pc = "setup" /\ "setup" \in Failures
  /\ pc' = "done"
  /\ resultEmitted' = TRUE
  /\ results' = Append(results, "error")
  /\ UNCHANGED <<runs, turn, healed, calls, detection, money, signals, session, rejected, history>>

\* A SessionStart hook fails, or anything else throws before the try block.
SetupThrows ==
  /\ pc = "setup" /\ "setup" \in Failures
  /\ pc' = "done"
  /\ rejected' = TRUE
  /\ UNCHANGED <<runs, turn, healed, calls, detection, money, signals, session,
                 resultEmitted, results, history>>

\* The session is among its own ancestors: the run ends at once, with no result event
\* and no rejection, before it takes the session's lock.
SpawnCycle ==
  /\ pc = "setup" /\ ancestor
  /\ pc' = "done"
  /\ UNCHANGED <<runs, turn, healed, calls, detection, money, signals, session, outcome, history>>

\* Mutant: the session's cost starts at zero.
SetupDoneForgetsCost ==
  /\ pc = "setup" /\ ~ancestor
  /\ pc' = "start"
  /\ totalCost' = 0
  /\ unsaved' = TRUE
  /\ UNCHANGED <<runs, turn, healed, calls, detection, meta, signals, savedCost, outcome, history>>

\* The session's cost is taken over and the prompt becomes part of the history.
SetupDone ==
  /\ pc = "setup" /\ ~ancestor
  /\ pc' = "start"
  /\ totalCost' = savedCost
  /\ unsaved' = TRUE
  /\ UNCHANGED <<runs, turn, healed, calls, detection, meta, signals, savedCost, outcome, history>>

\* A pending approval is resolved: its tools run and the session is saved.
ResolveApproval ==
  /\ pc = "start" /\ QuestionMode /\ runs > 1
  /\ Save
  /\ pc' = "top"
  /\ UNCHANGED <<runs, turn, healed, calls, detection, money, signals, outcome, history>>

StartTurns ==
  /\ pc = "start"
  /\ pc' = "top"
  /\ UNCHANGED <<runs, turn, healed, calls, detection, money, signals, session, outcome, history>>

-----------------------------------------------------------------------------
(***************************************************************************)
(* A turn                                                                  *)
(***************************************************************************)
TurnsLeft == MaxTurns = 0 \/ turn < MaxTurns

\* The loop's condition fails, or a shutdown was requested.
LeaveLoop ==
  /\ pc = "top"
  /\ ~TurnsLeft \/ shutdown
  /\ pc' = "after"
  /\ UNCHANGED <<runs, turn, healed, calls, detection, money, signals, session, outcome, history>>

\* Mutant: the run goes on after reporting its cancellation.
CancelWithoutReturn ==
  /\ pc = "top"
  /\ TurnsLeft /\ ~shutdown /\ aborted
  /\ Save
  /\ resultEmitted' = TRUE
  /\ results' = Append(results, "error_cancelled")
  /\ pc' = "waiting"
  /\ UNCHANGED <<runs, turn, healed, calls, detection, money, signals, rejected, history>>

\* The abort signal has fired.
Cancel ==
  /\ pc = "top"
  /\ TurnsLeft /\ ~shutdown /\ aborted
  /\ Save
  /\ EmitResult("error_cancelled")
  /\ UNCHANGED <<runs, turn, healed, calls, detection, money, signals, history>>

\* The turn begins: onTurnStart, and a wait of up to a minute near the rate limit.
BeginTurn ==
  /\ pc = "top"
  /\ TurnsLeft /\ ~shutdown /\ ~aborted
  /\ pc' = "waiting"
  /\ UNCHANGED <<runs, turn, healed, calls, detection, money, signals, session, outcome, history>>

\* The breaker is open: the run returns without saving.
CircuitOpen ==
  /\ pc = "waiting" /\ "circuit" \in Failures
  /\ EmitResult("error_circuit_open")
  /\ UNCHANGED <<runs, turn, healed, calls, detection, money, signals, session, history>>

\* callWithRetry, with the signal.  If it has fired by now the request is rejected.
CallModel ==
  /\ pc = "waiting"
  /\ pc' = IF aborted THEN "catch" ELSE "calling"
  /\ modelCalls' = Smaller(modelCalls + 1, CallBound)
  /\ UNCHANGED <<runs, turn, healed, calls, detection, money, signals, session, outcome,
                 repeats, billed>>

\* The call fails for good, or the signal cancels it.
CallFails ==
  /\ pc = "calling"
  /\ aborted \/ "call" \in Failures
  /\ pc' = "catch"
  /\ UNCHANGED <<runs, turn, healed, calls, detection, money, signals, session, outcome, history>>

\* An answer: its estimated cost is added, and if it has a generation id its actual
\* cost is asked for, to replace the estimate.
Account ==
  \E c \in TurnCosts :
    /\ totalCost' = totalCost + c
    /\ billed' = billed + c
    /\ \/ meta' = meta
       \/ \E a \in ActualCosts : meta' = meta \cup {[before |-> totalCost, estimate |-> c, cost |-> a,
                                                     call |-> modelCalls]}

\* The metadata of a call arrives, maybe in a later turn.
MetaArrives ==
  /\ pc # "done"
  /\ \E m \in meta :
       /\ totalCost' = m.before + m.cost
       /\ billed' = billed + m.cost - m.estimate
       /\ meta' = meta \ {m}
  /\ UNCHANGED <<control, detection, signals, session, outcome, modelCalls, repeats>>

\* An answer that should be JSON and is not: one more request, in the same turn.
HealJson ==
  /\ pc = "calling" /\ JsonMode /\ ~healed
  /\ Account
  /\ unsaved' = TRUE
  /\ healed' = TRUE
  /\ pc' = "top"
  /\ UNCHANGED <<runs, turn, calls, detection, signals, savedCost, outcome, modelCalls, repeats>>

\* An answer without tool calls ends the loop.
FinalAnswer ==
  /\ pc = "calling"
  /\ Account
  /\ unsaved' = TRUE
  /\ pc' = "after"
  /\ UNCHANGED <<runs, turn, healed, calls, detection, signals, savedCost, outcome,
                 modelCalls, repeats>>

\* An answer with tool calls.
ToolAnswer ==
  /\ pc = "calling"
  /\ \E answer \in Answers :
       /\ calls' = answer
       /\ repeats' = IF calls # <<>> /\ Signature(answer) = Signature(calls)
                     THEN Smaller(repeats + 1, RepeatBound) ELSE 1
  /\ Account
  /\ unsaved' = TRUE
  /\ pc' = "tools"
  /\ UNCHANGED <<runs, turn, healed, detection, signals, savedCost, outcome, modelCalls>>

\* onTurnStart, a tool or an event handler throws.
CallbackThrows ==
  /\ pc \in {"waiting", "tools"} /\ "callback" \in Failures
  /\ pc' = "catch"
  /\ UNCHANGED <<runs, turn, healed, calls, detection, money, signals, session, outcome, history>>

-----------------------------------------------------------------------------
(***************************************************************************)
(* What the tool results lead to.  err[i] says whether calls[i] failed.    *)
(***************************************************************************)
Results == [DOMAIN calls -> BOOLEAN]

\* consecutiveToolErrors after the results, in the order of the calls.
ErrorsAfter(err) ==
  [t \in Tools |->
    LET mine == {i \in DOMAIN calls : calls[i].tool = t}
        successes == {i \in mine : ~err[i]}
        since == IF successes = {} THEN 0 ELSE Max(successes)
    IN Cardinality({i \in mine : i > since}) + (IF successes = {} THEN toolErrors[t] ELSE 0)]

OverBudget(err) == {t \in Tools : ErrorsAfter(err)[t] >= ErrorBudget}

\* Without a hard stop a tool that is over its budget gets a new one.
ErrorsKept(err) ==
  [t \in Tools |-> IF t \in OverBudget(err) /\ ~BudgetHardStop THEN 0 ELSE ErrorsAfter(err)[t]]

\* The run stops because a tool keeps failing.
BudgetStop(err) ==
  /\ BudgetHardStop /\ OverBudget(err) # {}
  /\ toolErrors' = ErrorsAfter(err)
  /\ Save
  /\ EmitResult("error_tool_budget")
  /\ UNCHANGED <<runs, turn, healed, calls, lastSig, streak, stuck, loopAborted, money,
                 signals, history>>

InBudget(err) ==
  /\ ~BudgetHardStop \/ OverBudget(err) = {}
  /\ toolErrors' = ErrorsKept(err)

Same == Signature(calls) = lastSig
Streak == IF Same THEN streak + 1 ELSE 1
Warned == MaxIdentical > 0 /\ Streak >= MaxIdentical
Warnings == (IF Same THEN stuck ELSE 0) + (IF Warned THEN 1 ELSE 0)

\* Mutant: the streak starts over after a warning.
DetectRepetitionResets ==
  /\ lastSig' = Signature(calls)
  /\ streak' = IF Warned THEN 0 ELSE Streak
  /\ stuck' = Warnings
  /\ loopAborted' = (Warnings >= StuckLimit)

\* Mutant: the streak is not capped.
DetectRepetitionUncapped ==
  IF MaxIdentical = 0 THEN UNCHANGED <<lastSig, streak, stuck, loopAborted>>
  ELSE /\ lastSig' = Signature(calls)
       /\ streak' = Streak
       /\ stuck' = Warnings
       /\ loopAborted' = (Warnings >= StuckLimit)

\* A warning at each turn that repeats the same calls, until the limit of warnings.
DetectRepetition ==
  IF MaxIdentical = 0 THEN UNCHANGED <<lastSig, streak, stuck, loopAborted>>
  ELSE /\ lastSig' = Signature(calls)
       /\ streak' = IF Warned THEN MaxIdentical ELSE Streak
       /\ stuck' = Warnings
       /\ loopAborted' = (Warnings >= StuckLimit)

\* The third warning: the loop is left.
LoopAbort(err) ==
  /\ InBudget(err)
  /\ DetectRepetition
  /\ loopAborted'
  /\ pc' = "after"
  /\ UNCHANGED <<runs, turn, healed, calls, money, signals, session, outcome, history>>

\* A tool needs approval: the question is saved with the session and ends the run.
AskApproval(err) ==
  /\ QuestionMode
  /\ InBudget(err)
  /\ DetectRepetition /\ ~loopAborted'
  /\ Save
  /\ EmitResult("success")
  /\ UNCHANGED <<runs, turn, healed, calls, money, signals, history>>

Finishes == \E i \in DOMAIN calls : calls[i].tool = FinishTool

\* The finish tool was called, whatever its result.
Finish(err) ==
  /\ InBudget(err)
  /\ DetectRepetition /\ ~loopAborted'
  /\ Finishes
  /\ pc' = "after"
  /\ UNCHANGED <<runs, turn, healed, calls, money, signals, session, outcome, history>>

GoOn(err) ==
  /\ InBudget(err)
  /\ DetectRepetition /\ ~loopAborted'
  /\ ~Finishes
  /\ pc' = "turnEnd"
  /\ UNCHANGED <<runs, turn, healed, calls, money, signals, session, outcome, history>>

JudgeResults ==
  /\ pc = "tools"
  /\ \E err \in Results :
       BudgetStop(err) \/ LoopAbort(err) \/ AskApproval(err) \/ Finish(err) \/ GoOn(err)

-----------------------------------------------------------------------------
(***************************************************************************)
(* The end of a turn: summarization, then the limits of cost               *)
(***************************************************************************)
\* The session may have been summarized, and saved.
Summarized == UNCHANGED session \/ Save

HardReached == HardLimit # None /\ totalCost >= HardLimit
SoftReached == SoftLimit # None /\ totalCost >= SoftLimit

SoftStop ==
  /\ pc = "turnEnd"
  /\ SoftReached /\ ~HardReached
  /\ Summarized
  /\ pc' = "after"
  /\ UNCHANGED <<runs, turn, healed, calls, detection, money, signals, outcome, history>>

CostStop ==
  /\ pc = "turnEnd"
  /\ HardReached
  /\ Save
  /\ EmitResult("error_max_cost")
  /\ UNCHANGED <<runs, turn, healed, calls, detection, money, signals, history>>

NextTurn ==
  /\ pc = "turnEnd"
  /\ ~SoftReached /\ ~HardReached
  /\ Summarized
  /\ turn' = IF MaxTurns = 0 THEN Smaller(turn + 1, TurnBound) ELSE turn + 1
  /\ pc' = "top"
  /\ UNCHANGED <<runs, healed, calls, detection, money, signals, outcome, history>>

-----------------------------------------------------------------------------
(***************************************************************************)
(* The end of a run                                                        *)
(***************************************************************************)

LastSubtype ==
  IF loopAborted THEN "error_loop_abort"
  ELSE IF MaxTurns > 0 /\ turn >= MaxTurns THEN "error_max_turns"
  ELSE "success"

\* After the loop: the session is saved, then memory is distilled.
AfterLoop ==
  /\ pc = "after"
  /\ Save
  /\ pc' = "emit"
  /\ UNCHANGED <<runs, turn, healed, calls, detection, money, signals, outcome, history>>

EmitLast ==
  /\ pc = "emit"
  /\ EmitResult(LastSubtype)
  /\ UNCHANGED <<runs, turn, healed, calls, detection, money, signals, session, history>>

\* Mutant: the error is recorded without saving the session.
CatchWithoutSave ==
  /\ pc = "catch"
  /\ results' = Append(results, "error")
  /\ resultEmitted' = TRUE
  /\ \/ rejected' = rejected
     \/ "emit" \in Failures /\ rejected' = TRUE
  /\ pc' = "finally"
  /\ UNCHANGED <<runs, turn, healed, calls, detection, money, signals, session, history>>

\* Anything thrown inside the try block ends here; emitting may throw again.
Catch ==
  /\ pc = "catch"
  /\ Save
  /\ results' = Append(results, "error")
  /\ resultEmitted' = TRUE
  /\ \/ rejected' = rejected
     \/ "emit" \in Failures /\ rejected' = TRUE
  /\ pc' = "finally"
  /\ UNCHANGED <<runs, turn, healed, calls, detection, money, signals, history>>

\* The finally block.  Its own save and result are for runs without a result event;
\* NoSafetyNet says that there are none.
Finally ==
  /\ pc = "finally"
  /\ pc' = "done"
  /\ UNCHANGED <<runs, turn, healed, calls, detection, money, signals, session, outcome, history>>

\* The session is resumed by another run.
NextRun ==
  /\ pc = "done" /\ runs < MaxRuns
  /\ runs' = runs + 1
  /\ pc' = "setup"
  /\ turn' = 0 /\ healed' = FALSE /\ calls' = <<>>
  /\ lastSig' = None /\ streak' = 0 /\ stuck' = 0 /\ loopAborted' = FALSE
  /\ toolErrors' = [t \in Tools |-> 0]
  /\ meta' = {}
  /\ aborted' = FALSE /\ shutdown' = FALSE /\ ancestor' \in Ancestry
  /\ unsaved' = FALSE
  /\ resultEmitted' = FALSE /\ results' = <<>> /\ rejected' = FALSE
  /\ modelCalls' = 0 /\ repeats' = 0
  /\ UNCHANGED <<totalCost, savedCost, billed>>

\* The caller aborts the run, or its timeout does.
Abort ==
  /\ pc # "done" /\ ~aborted /\ "abort" \in Interrupts
  /\ aborted' = TRUE
  /\ UNCHANGED <<control, detection, money, shutdown, ancestor, session, outcome, history>>

\* SIGINT or SIGTERM.
RequestShutdown ==
  /\ pc # "done" /\ ~shutdown /\ "shutdown" \in Interrupts
  /\ shutdown' = TRUE
  /\ UNCHANGED <<control, detection, money, aborted, ancestor, session, outcome, history>>

Finished == pc = "done" /\ runs = MaxRuns /\ UNCHANGED vars

Setup == SetupReturns \/ SetupThrows \/ SpawnCycle \/ SetupDone
LoopHead == LeaveLoop \/ Cancel \/ BeginTurn
ModelCall == CircuitOpen \/ CallModel
ModelAnswer == CallFails \/ HealJson \/ FinalAnswer \/ ToolAnswer
TurnEnd == SoftStop \/ CostStop \/ NextTurn

RunStep ==
  /\ PromptMeta => meta = {}
  /\ \/ Setup \/ ResolveApproval \/ StartTurns
     \/ LoopHead \/ ModelCall \/ ModelAnswer \/ CallbackThrows \/ JudgeResults \/ TurnEnd
     \/ AfterLoop \/ EmitLast \/ Catch \/ Finally

Environment == MetaArrives \/ Abort \/ RequestShutdown

Next == RunStep \/ Environment \/ NextRun \/ Finished

\* The loop is sequential code: a step it can take is taken.  Calls and tools end,
\* both have timeouts.
Fairness == WF_vars(RunStep) /\ WF_vars(MetaArrives)

Spec == Init /\ [][Next]_vars
FairSpec == Spec /\ Fairness

-----------------------------------------------------------------------------
(***************************************************************************)
(* Properties                                                              *)
(***************************************************************************)
LastResult == results[Len(results)]

\* A run that got through its setup has exactly one result event for its caller,
\* whichever of its exits it takes and whatever throws.  One without a result event has
\* called no model: its setup threw, its promise is rejected and the caller knows, or
\* its session is its own ancestor; and such a session never calls a model.
OneOutcome ==
  /\ Len(results) <= 1
  /\ pc = "done" /\ results = <<>> => (rejected \/ ancestor) /\ modelCalls = 0
  /\ pc = "done" /\ rejected => results = <<>>
  /\ ancestor => modelCalls = 0 /\ pc \in {"setup", "done"}

\* No way through the try block leaves the safety net of the finally block anything
\* to do (loop.ts: "The individual paths ... all call saveSession and emit a result").
NoSafetyNet == pc = "finally" => resultEmitted

\* What the run added to the session is in the session file when it ends, unless the
\* breaker stopped it or it never got through its setup.
SavedAtExit ==
  pc = "done" /\ unsaved => LastResult = "error_circuit_open"

\* The model cannot repeat the same tool calls for ever: the run is cut off at the
\* third warning, MaxIdentical + 2 turns into the series.
RepetitionIsCut == MaxIdentical > 0 /\ pc \in {"top", "waiting"} => repeats < MaxIdentical + StuckLimit - 1

\* A run is aborted for repeating itself only if it did so for all of that time.
AbortsOnlyWhenStuck ==
  pc = "done" /\ results # <<>> /\ LastResult = "error_loop_abort"
    => repeats >= MaxIdentical + StuckLimit - 1

\* opts.maxTurns bounds the calls of the model, with one more for an answer that was
\* not JSON; a run that reports the limit has used it up.
TurnsBounded ==
  /\ MaxTurns > 0 => modelCalls <= MaxTurns + (IF healed THEN 1 ELSE 0)
  /\ results # <<>> /\ LastResult = "error_max_turns" => modelCalls >= MaxTurns

\* The loop's total is what the calls of the session have cost, as far as is known,
\* across resumes, and the session file keeps it.
CostIsExact ==
  /\ pc \notin {"setup", "done"} => totalCost = billed
  /\ pc = "done" /\ ~unsaved /\ ~rejected => savedCost = billed

\* The cost limit holds for the session: no turn but the first of a run begins with
\* the limit reached, whatever earlier runs spent.  (The retry of an answer that is
\* not JSON does.)
NoTurnOverLimit ==
  HardLimit # None /\ pc = "top" /\ turn > 0 /\ ~healed => billed < HardLimit

\* Every run ends, in whatever it fails.
EveryRunEnds == (pc = "setup") ~> (pc = "done")
=============================================================================

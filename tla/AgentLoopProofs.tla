-------------------------- MODULE AgentLoopProofs --------------------------
(***************************************************************************)
(* Theorems about AgentLoop, for any limits, tools, costs and faults.      *)
(***************************************************************************)
EXTENDS AgentLoop, FiniteSetTheorems, TLAPS

InLoop == {"waiting", "calling", "tools", "turnEnd"}
BeforeEnd == {"setup", "start", "top"} \cup InLoop

\* A run inside the loop has a turn left and has not been aborted as stuck.
Going ==
  /\ pc \in InLoop => TurnsLeft
  /\ pc = "tools" => calls \in Answers
  /\ pc \in BeforeEnd => ~loopAborted /\ stuck < StuckLimit

IInv == TypeOK /\ Going

\* The tools' failures are counted by natural numbers.
LEMMA ErrorsType ==
  ASSUME TypeOK, NEW err
  PROVE  ErrorsAfter(err) \in [Tools -> Nat]
<1> DEFINE mine(t) == {i \in DOMAIN calls : calls[i].tool = t}
<1>1. IsFiniteSet(DOMAIN calls)
  <2>1. CASE calls = <<>>
    BY <2>1, FS_EmptySet
  <2>2. CASE calls \in Answers
    <3>1. PICK n \in 1..MaxCalls : calls \in [1..n -> Call]
      BY <2>2 DEF Answers
    <3>2. DOMAIN calls = 1..n
      BY <3>1
    <3>3. n \in Nat
      BY LoopAssumption
    <3> QED
      BY <3>2, <3>3, FS_Interval
  <2> QED
    BY <2>1, <2>2 DEF TypeOK
<1> DEFINE successes(t) == {i \in mine(t) : ~err[i]}
           since(t) == IF successes(t) = {} THEN 0 ELSE Max(successes(t))
           fresh(t) == Cardinality({i \in mine(t) : i > since(t)})
           old(t) == IF successes(t) = {} THEN toolErrors[t] ELSE 0
<1>2. ASSUME NEW t \in Tools PROVE fresh(t) \in Nat
  <2>1. IsFiniteSet({i \in mine(t) : i > since(t)})
    BY <1>1, FS_Subset
  <2> QED
    BY <2>1, FS_CardinalityType
<1>3. ASSUME NEW t \in Tools PROVE old(t) \in Nat
  BY DEF TypeOK
<1>4. ErrorsAfter(err) = [t \in Tools |-> fresh(t) + old(t)]
  BY DEF ErrorsAfter
<1> HIDE DEF fresh, old
<1>5. ASSUME NEW t \in Tools PROVE fresh(t) + old(t) \in Nat
  BY <1>2, <1>3
<1> QED
  BY <1>4, <1>5

\* What emitResult leaves behind is typed, and the loop is over.
LEMMA EmitType ==
  ASSUME TypeOK, NEW s \in Subtypes, EmitResult(s)
  PROVE  /\ pc' \in {"finally", "catch"}
         /\ resultEmitted' \in BOOLEAN /\ rejected' \in BOOLEAN
         /\ results' \in Seq(Subtypes)
  BY DEF EmitResult, TypeOK

LEMMA SaveType ==
  ASSUME TypeOK, Save
  PROVE  unsaved' \in BOOLEAN /\ savedCost' \in Nat
  BY DEF Save, TypeOK, session

\* What LoopAssumption says of the constants that are numbers.
LEMMA Numbers ==
  /\ MaxCalls \in Nat /\ MaxCalls > 0
  /\ StuckLimit \in Nat /\ StuckLimit > 0
  /\ ErrorBudget \in Nat /\ ErrorBudget > 0
  /\ MaxRuns \in Nat /\ MaxRuns > 0
  /\ MaxTurns \in Nat /\ TurnBound \in Nat /\ MaxIdentical \in Nat
  BY LoopAssumption

\* The repetition counters stay within their limits.
LEMMA DetectType ==
  ASSUME TypeOK, pc = "tools", Going, DetectRepetition
  PROVE  /\ lastSig' \in {Signature(a) : a \in Answers} \cup {None}
         /\ streak' \in 0..MaxIdentical /\ stuck' \in 0..StuckLimit
         /\ loopAborted' \in BOOLEAN
         /\ ~loopAborted' => stuck' < StuckLimit
<1>1. streak \in 0..MaxIdentical /\ stuck \in 0..StuckLimit /\ stuck < StuckLimit /\ ~loopAborted
  BY DEF TypeOK, Going, BeforeEnd, InLoop
<1>2. calls \in Answers
  BY DEF Going
<1>3. CASE MaxIdentical = 0
  BY <1>1, <1>3, Numbers DEF DetectRepetition, TypeOK
<1>4. CASE MaxIdentical # 0
  <2>1. lastSig' = Signature(calls) /\ streak' = (IF Warned THEN MaxIdentical ELSE Streak)
        /\ stuck' = Warnings /\ loopAborted' = (Warnings >= StuckLimit)
    BY <1>4 DEF DetectRepetition
  <2>2. Streak \in Nat /\ Streak > 0
    BY <1>1, Numbers DEF Streak
  <2>3. streak' \in 0..MaxIdentical
    BY <1>4, <2>1, <2>2, Numbers DEF Warned
  <2>4. Warnings \in 0..StuckLimit
    BY <1>1, Numbers DEF Warnings
  <2>5. lastSig' \in {Signature(a) : a \in Answers}
    BY <1>2, <2>1, Zenon
  <2>6. loopAborted' \in BOOLEAN
    BY <2>1
  <2>7. ~loopAborted' => stuck' < StuckLimit
    <3>1. ~loopAborted' => ~(Warnings >= StuckLimit)
      BY <2>1, Zenon
    <3> QED
      BY <2>1, <2>4, <3>1, Numbers
  <2>8. stuck' \in 0..StuckLimit
    BY <2>1, <2>4
  <2> QED
    BY <2>3, <2>5, <2>6, <2>7, <2>8
<1> QED
  BY <1>3, <1>4

LEMMA InitInv == Init => IInv
<1> SUFFICES ASSUME Init PROVE IInv
  OBVIOUS
<1> USE DEF Init, FreshRun
<1>1. TypeOK
  <2>1. /\ results \in Seq(Subtypes) /\ toolErrors \in [Tools -> Nat]
        /\ meta \subseteq [before : Nat, estimate : TurnCosts, cost : ActualCosts, call : Nat]
    OBVIOUS
  <2>2. /\ runs \in 1..MaxRuns /\ turn \in Nat /\ (MaxTurns > 0 => turn <= MaxTurns)
        /\ streak \in 0..MaxIdentical /\ stuck \in 0..StuckLimit
    BY Numbers
  <2>3. healed \in BOOLEAN /\ loopAborted \in BOOLEAN
        /\ {aborted, shutdown, ancestor, unsaved, resultEmitted, rejected} \subseteq BOOLEAN
    BY DEF Ancestry
  <2> QED
    BY <2>1, <2>2, <2>3 DEF TypeOK, Phases
<1>2. Going
  BY Numbers DEF Going, BeforeEnd, InLoop
<1> QED
  BY <1>1, <1>2 DEF IInv

\* The steps before the loop.
LEMMA SetupStep ==
  ASSUME IInv, Setup \/ ResolveApproval \/ StartTurns
  PROVE  IInv'
<1> USE DEF IInv, TypeOK, Going, BeforeEnd, InLoop, Phases
<1>1. CASE SetupReturns
  BY <1>1 DEF SetupReturns, Subtypes, detection, money, signals, session, history
<1>2. CASE SetupThrows
  BY <1>2 DEF SetupThrows, detection, money, signals, session, history
<1>c. CASE SpawnCycle
  BY <1>c DEF SpawnCycle, detection, money, signals, session, outcome, history
<1>3. CASE SetupDone
  BY <1>3 DEF SetupDone, detection, signals, outcome, history
<1>4. CASE ResolveApproval
  BY <1>4, SaveType DEF ResolveApproval, detection, money, signals, outcome, history
<1>5. CASE StartTurns
  BY <1>5 DEF StartTurns, detection, money, signals, session, outcome, history
<1> QED
  BY <1>1, <1>2, <1>3, <1>4, <1>5, <1>c DEF Setup

\* The steps at the head of the loop.
LEMMA HeadStep ==
  ASSUME IInv, LoopHead \/ ModelCall
  PROVE  IInv'
<1> USE DEF IInv, TypeOK, Going, BeforeEnd, InLoop, Phases, TurnsLeft
<1>1. CASE LeaveLoop
  BY <1>1 DEF LeaveLoop, detection, money, signals, session, outcome, history
<1>2. CASE Cancel
  <2>1. "error_cancelled" \in Subtypes
    BY DEF Subtypes
  <2> QED
    BY <1>2, <2>1, SaveType, EmitType DEF Cancel, detection, money, signals, history
<1>3. CASE BeginTurn
  BY <1>3 DEF BeginTurn, detection, money, signals, session, outcome, history
<1>4. CASE CircuitOpen
  <2>1. "error_circuit_open" \in Subtypes
    BY DEF Subtypes
  <2> QED
    BY <1>4, <2>1, EmitType DEF CircuitOpen, detection, money, signals, session, history
<1>5. CASE CallModel
  BY <1>5, Numbers DEF CallModel, CallBound, Smaller, detection, money, signals, session, outcome
<1> QED
  BY <1>1, <1>2, <1>3, <1>4, <1>5 DEF LoopHead, ModelCall

\* An answer's cost leaves the totals numbers.
LEMMA AccountType ==
  ASSUME TypeOK, Account
  PROVE  /\ totalCost' \in Nat /\ billed' \in Int
         /\ meta' \subseteq [before : Nat, estimate : TurnCosts, cost : ActualCosts, call : Nat]
<1>1. totalCost \in Nat /\ billed \in Int /\ modelCalls \in Nat
  BY DEF TypeOK
<1>2. meta \subseteq [before : Nat, estimate : TurnCosts, cost : ActualCosts, call : Nat]
  BY DEF TypeOK
<1>3. TurnCosts \subseteq Nat
  BY LoopAssumption
<1> QED
  BY <1>1, <1>2, <1>3 DEF Account

\* The steps after a model call.
LEMMA AnswerStep ==
  ASSUME IInv, ModelAnswer \/ CallbackThrows
  PROVE  IInv'
<1> USE DEF IInv, TypeOK, Going, BeforeEnd, InLoop, Phases, TurnsLeft
<1>1. CASE CallFails
  BY <1>1 DEF CallFails, detection, money, signals, session, outcome, history
<1>2. CASE HealJson
  BY <1>2, AccountType DEF HealJson, detection, signals, outcome
<1>3. CASE FinalAnswer
  BY <1>3, AccountType DEF FinalAnswer, detection, signals, outcome
<1>4. CASE ToolAnswer
  BY <1>4, AccountType, Numbers DEF ToolAnswer, Smaller, RepeatBound, detection, signals, outcome
<1>5. CASE CallbackThrows
  BY <1>5 DEF CallbackThrows, detection, money, signals, session, outcome, history
<1> QED
  BY <1>1, <1>2, <1>3, <1>4, <1>5 DEF ModelAnswer

\* The failures of the tools are still counted by numbers, whatever is reset.
LEMMA BudgetType ==
  ASSUME TypeOK, NEW err, InBudget(err)
  PROVE  toolErrors' \in [Tools -> Nat]
<1>1. ErrorsAfter(err) \in [Tools -> Nat]
  BY ErrorsType
<1>2. toolErrors' = [t \in Tools |-> IF t \in OverBudget(err) /\ ~BudgetHardStop THEN 0
                                     ELSE ErrorsAfter(err)[t]]
  BY DEF InBudget, ErrorsKept
<1> QED
  BY <1>1, <1>2

\* Judging the tool results.
LEMMA JudgeStep ==
  ASSUME IInv, JudgeResults
  PROVE  IInv'
<1> PICK err \in Results :
      BudgetStop(err) \/ LoopAbort(err) \/ AskApproval(err) \/ Finish(err) \/ GoOn(err)
  BY DEF JudgeResults
<1>0. pc = "tools" /\ TypeOK /\ Going
  BY DEF JudgeResults, IInv
<1>a. {"error_tool_budget", "success"} \subseteq Subtypes
  BY DEF Subtypes
<1>1. CASE BudgetStop(err)
  <2>1. toolErrors' \in [Tools -> Nat]
    BY <1>0, <1>1, ErrorsType DEF BudgetStop
  <2> QED
    BY <1>0, <1>a, <1>1, <2>1, SaveType, EmitType
    DEF IInv, TypeOK, Going, BeforeEnd, InLoop, Phases, BudgetStop, money, signals, history
<1>2. CASE LoopAbort(err)
  <2>1. toolErrors' \in [Tools -> Nat]
    BY <1>0, <1>2, BudgetType DEF LoopAbort
  <2> QED
    BY <1>0, <1>2, <2>1, DetectType
    DEF IInv, TypeOK, Going, BeforeEnd, InLoop, Phases, LoopAbort, money, signals, session,
        outcome, history
<1>3. CASE AskApproval(err)
  <2>1. toolErrors' \in [Tools -> Nat]
    BY <1>0, <1>3, BudgetType DEF AskApproval
  <2> QED
    BY <1>0, <1>a, <1>3, <2>1, DetectType, SaveType, EmitType
    DEF IInv, TypeOK, Going, BeforeEnd, InLoop, Phases, AskApproval, money, signals, history
<1>4. CASE Finish(err)
  <2>1. toolErrors' \in [Tools -> Nat]
    BY <1>0, <1>4, BudgetType DEF Finish
  <2> QED
    BY <1>0, <1>4, <2>1, DetectType
    DEF IInv, TypeOK, Going, BeforeEnd, InLoop, Phases, Finish, money, signals, session,
        outcome, history
<1>5. CASE GoOn(err)
  <2>1. toolErrors' \in [Tools -> Nat]
    BY <1>0, <1>5, BudgetType DEF GoOn
  <2> QED
    BY <1>0, <1>5, <2>1, DetectType
    DEF IInv, TypeOK, Going, BeforeEnd, InLoop, Phases, TurnsLeft, GoOn, money, signals, session,
        outcome, history
<1> QED
  BY <1>1, <1>2, <1>3, <1>4, <1>5

\* The steps that end a turn.
LEMMA TurnEndStep ==
  ASSUME IInv, TurnEnd
  PROVE  IInv'
<1> USE DEF IInv, TypeOK, Going, BeforeEnd, InLoop, Phases, TurnsLeft
<1>1. CASE SoftStop
  BY <1>1, SaveType DEF SoftStop, Summarized, detection, money, signals, session, outcome, history
<1>2. CASE CostStop
  <2>1. "error_max_cost" \in Subtypes
    BY DEF Subtypes
  <2> QED
    BY <1>2, <2>1, SaveType, EmitType DEF CostStop, detection, money, signals, history
<1>3. CASE NextTurn
  BY <1>3, SaveType, Numbers
  DEF NextTurn, Summarized, Smaller, detection, money, signals, session, outcome, history
<1> QED
  BY <1>1, <1>2, <1>3 DEF TurnEnd

\* The steps that end a run.
LEMMA RunEndStep ==
  ASSUME IInv, AfterLoop \/ EmitLast \/ Catch \/ Finally
  PROVE  IInv'
<1> USE DEF IInv, TypeOK, Going, BeforeEnd, InLoop, Phases
<1>1. CASE AfterLoop
  BY <1>1, SaveType DEF AfterLoop, detection, money, signals, outcome, history
<1>2. CASE EmitLast
  <2>1. LastSubtype \in Subtypes
    BY DEF LastSubtype, Subtypes
  <2> QED
    BY <1>2, <2>1, EmitType DEF EmitLast, detection, money, signals, session, history
<1>3. CASE Catch
  <2>1. results' \in Seq(Subtypes)
    BY <1>3 DEF Catch, Subtypes
  <2> QED
    BY <1>3, <2>1, SaveType DEF Catch, detection, money, signals, history
<1>4. CASE Finally
  BY <1>4 DEF Finally, detection, money, signals, session, outcome, history
<1> QED
  BY <1>1, <1>2, <1>3, <1>4

\* What happens to a run from outside, and the next run of the session.
LEMMA OtherStep ==
  ASSUME IInv, Environment \/ NextRun \/ Finished \/ UNCHANGED vars
  PROVE  IInv'
<1> USE DEF IInv, TypeOK, Going, BeforeEnd, InLoop, Phases, TurnsLeft
<1>1. CASE MetaArrives
  <2>1. PICK m \in meta : /\ totalCost' = m.before + m.cost
                          /\ billed' = billed + m.cost - m.estimate
                          /\ meta' = meta \ {m}
    BY <1>1 DEF MetaArrives
  <2>2. m.before \in Nat /\ m.cost \in Nat /\ m.estimate \in Nat
    <3>1. m \in [before : Nat, estimate : TurnCosts, cost : ActualCosts, call : Nat]
      OBVIOUS
    <3> QED
      BY <3>1, LoopAssumption
  <2>3. totalCost' \in Nat /\ billed' \in Int
    BY <2>1, <2>2
  <2> QED
    BY <1>1, <2>1, <2>3 DEF MetaArrives, control, detection, signals, session, outcome
<1>2. CASE Abort
  BY <1>2 DEF Abort, control, detection, money, session, outcome, history
<1>3. CASE RequestShutdown
  BY <1>3 DEF RequestShutdown, control, detection, money, session, outcome, history
<1>4. CASE NextRun
  <2>1. /\ results' \in Seq(Subtypes) /\ toolErrors' \in [Tools -> Nat]
        /\ meta' \subseteq [before : Nat, estimate : TurnCosts, cost : ActualCosts, call : Nat]
        /\ lastSig' = None
    BY <1>4 DEF NextRun
  <2>2. /\ runs' \in 1..MaxRuns /\ turn' \in Nat /\ (MaxTurns > 0 => turn' <= MaxTurns)
        /\ streak' \in 0..MaxIdentical /\ stuck' \in 0..StuckLimit /\ stuck' < StuckLimit
    BY <1>4, Numbers DEF NextRun
  <2>3. healed' \in BOOLEAN /\ loopAborted' \in BOOLEAN /\ ~loopAborted'
        /\ {aborted', shutdown', ancestor', unsaved', resultEmitted', rejected'} \subseteq BOOLEAN
    BY <1>4 DEF NextRun, Ancestry
  <2> QED
    BY <1>4, <2>1, <2>2, <2>3 DEF NextRun
<1>5. CASE UNCHANGED vars
  BY <1>5 DEF vars, control, detection, money, signals, session, outcome, history
<1> QED
  BY <1>1, <1>2, <1>3, <1>4, <1>5 DEF Environment, Finished

LEMMA InvStep == IInv /\ [Next]_vars => IInv'
  BY SetupStep, HeadStep, AnswerStep, JudgeStep, TurnEndStep, RunEndStep, OtherStep
  DEF Next, RunStep

\* Every variable of the loop keeps to its type: no run goes on beyond its last turn,
\* and no counter of the repetition check passes its limit.
THEOREM TypeCorrect == Spec => []TypeOK
<1>1. IInv => TypeOK
  BY DEF IInv
<1> QED
  BY <1>1, InitInv, InvStep, PTL DEF Spec

-----------------------------------------------------------------------------
(***************************************************************************)
(* The outcome of a run.                                                   *)
(***************************************************************************)

\* Where nothing has been reported yet.
Unreported == {"setup", "start", "top", "waiting", "calling", "tools", "turnEnd", "after",
               "emit", "catch"}

\* No way through the try block reaches the finally block without a result.
THEOREM SafetyNetIsIdle == Spec => []NoSafetyNet
<1>1. Init => NoSafetyNet
  BY DEF Init, FreshRun, NoSafetyNet
<1>2. NoSafetyNet /\ [Next]_vars => NoSafetyNet'
  BY DEF NoSafetyNet, Next, RunStep, Environment, Setup, LoopHead, ModelCall, ModelAnswer, TurnEnd,
         SetupReturns, SetupThrows, SpawnCycle, SetupDone, ResolveApproval, StartTurns, LeaveLoop, Cancel,
         BeginTurn, CircuitOpen, CallModel, CallFails, HealJson, FinalAnswer, ToolAnswer,
         CallbackThrows, JudgeResults, BudgetStop, LoopAbort, AskApproval, Finish, GoOn, SoftStop,
         CostStop, NextTurn, AfterLoop, EmitLast, Catch, Finally, MetaArrives, Abort,
         RequestShutdown, NextRun, Finished, EmitResult, vars, control, outcome
<1> QED
  BY <1>1, <1>2, PTL DEF Spec

\* The result and the rejection of a run are decided in its last steps only.
Reported ==
  /\ pc \in Unreported => results = <<>> /\ ~rejected
  /\ pc = "finally" => Len(results) = 1 /\ ~rejected
  /\ pc = "setup" \/ ancestor => modelCalls = 0
  /\ ancestor => pc \in {"setup", "done"}
  /\ pc = "done" => IF results = <<>> THEN (rejected \/ ancestor) /\ modelCalls = 0
                   ELSE ~rejected /\ Len(results) = 1

LEMMA FirstResult ==
  ASSUME results = <<>>, NEW s, results' = Append(results, s)
  PROVE  Len(results') = 1
  OBVIOUS

\* emitResult, where it does not throw, reports once.
LEMMA EmitOnce ==
  ASSUME "emit" \notin Failures, Reported, pc \in Unreported, NEW s, EmitResult(s)
  PROVE  pc' = "finally" /\ Len(results') = 1 /\ ~rejected'
  BY DEF Reported, EmitResult

\* If event handlers do not throw, a run has exactly one outcome: a rejection, if its
\* setup threw, or one result event; only a session that is its own ancestor has none,
\* and it has called no model.
THEOREM OneOutcomeEach == "emit" \notin Failures => (Spec => []OneOutcome)
<1> SUFFICES ASSUME "emit" \notin Failures PROVE Spec => []OneOutcome
  OBVIOUS
<1>1. Init => Reported
  BY DEF Init, FreshRun, Reported
<1>2. TypeOK /\ Reported /\ [Next]_vars => Reported'
  <2> SUFFICES ASSUME TypeOK, Reported, [Next]_vars PROVE Reported'
    OBVIOUS
  <2> USE DEF Unreported
  <2>1. CASE Setup \/ ResolveApproval \/ StartTurns
    <3>1. CASE SetupReturns
      BY <3>1, FirstResult DEF Reported, SetupReturns, signals, history
    <3>2. CASE SetupThrows
      <4>1. /\ pc = "setup" /\ pc' = "done" /\ results = <<>> /\ modelCalls = 0
            /\ UNCHANGED <<results, modelCalls, ancestor>> /\ rejected'
        BY <3>2 DEF Reported, SetupThrows, signals, history
      <4> QED
        BY <4>1 DEF Reported
    <3>4. CASE SpawnCycle
      BY <3>4 DEF Reported, SpawnCycle, signals, outcome, history
    <3>3. CASE SetupDone \/ ResolveApproval \/ StartTurns
      BY <3>3 DEF Reported, SetupDone, ResolveApproval, StartTurns, signals, outcome, history
    <3> QED
      BY <2>1, <3>1, <3>2, <3>3, <3>4 DEF Setup
  <2>2. CASE LoopHead \/ ModelCall
    BY <2>2, EmitOnce DEF Reported, LoopHead, ModelCall, LeaveLoop, Cancel, BeginTurn, CircuitOpen,
                CallModel, signals, outcome, history
  <2>3. CASE ModelAnswer \/ CallbackThrows
    BY <2>3 DEF Reported, ModelAnswer, CallFails, HealJson, FinalAnswer, ToolAnswer,
                CallbackThrows, signals, outcome, history
  <2>4. CASE JudgeResults
    BY <2>4, EmitOnce DEF Reported, JudgeResults, BudgetStop, LoopAbort, AskApproval, Finish, GoOn,
                signals, outcome, history
  <2>5. CASE TurnEnd
    BY <2>5, EmitOnce DEF Reported, TurnEnd, SoftStop, CostStop, NextTurn, signals, outcome, history
  <2>6. CASE AfterLoop \/ EmitLast \/ Catch \/ Finally
    <3>1. CASE Catch
      BY <3>1, FirstResult DEF Reported, Catch, signals, history
    <3>2. CASE AfterLoop \/ EmitLast \/ Finally
      BY <3>2, EmitOnce DEF Reported, AfterLoop, EmitLast, Finally, signals, outcome, history
    <3> QED
      BY <2>6, <3>1, <3>2
  <2>7. CASE Environment \/ NextRun \/ Finished \/ UNCHANGED vars
    BY <2>7 DEF Reported, Environment, MetaArrives, Abort, RequestShutdown, NextRun, Finished,
                vars, control, signals, outcome, history
  <2> QED
    BY <2>1, <2>2, <2>3, <2>4, <2>5, <2>6, <2>7 DEF Next, RunStep
<1>3. TypeOK /\ Reported => OneOutcome
  <2> SUFFICES ASSUME TypeOK, Reported PROVE OneOutcome
    OBVIOUS
  <2>1. CASE pc \in Unreported
    BY <2>1 DEF Reported, Unreported, OneOutcome
  <2>2. CASE pc = "finally"
    <3>1. Len(results) = 1
      BY <2>2 DEF Reported
    <3>2. Len(results) <= 1
      BY <3>1
    <3> QED
      BY <2>2, <3>1, <3>2 DEF OneOutcome, Reported
  <2>3. CASE pc = "done"
    <3>1. /\ results = <<>> => (rejected \/ ancestor) /\ modelCalls = 0
          /\ rejected => results = <<>>
          /\ ancestor => modelCalls = 0
      BY <2>3 DEF Reported
    <3>2. Len(results) <= 1
      <4>1. results = <<>> \/ Len(results) = 1
        BY <2>3 DEF Reported
      <4>2. results = <<>> => Len(results) <= 1
        OBVIOUS
      <4>3. Len(results) = 1 => Len(results) <= 1
        OBVIOUS
      <4> QED
        BY <4>1, <4>2, <4>3
    <3> QED
      BY <2>3, <3>1, <3>2 DEF OneOutcome
  <2> QED
    BY <2>1, <2>2, <2>3 DEF TypeOK, Phases, Unreported
<1> QED
  BY <1>1, <1>2, <1>3, TypeCorrect, PTL DEF Spec

\* From the final save on, only the breaker leaves something unsaved.
Saved ==
  /\ pc \in {"setup", "emit"} => ~unsaved
  /\ pc \in {"finally", "done"} /\ unsaved
       => results # <<>> /\ LastResult = "error_circuit_open"

\* The last result is the one that was emitted last.
LEMMA LastEmitted ==
  ASSUME TypeOK, NEW s \in Subtypes, results' = Append(results, s)
  PROVE  results' # <<>> /\ results'[Len(results')] = s
  BY DEF TypeOK

\* If the session file can be written, a run leaves nothing unsaved, except when the
\* breaker stopped it.
THEOREM EndedRunsAreSaved == "save" \notin Failures => (Spec => []SavedAtExit)
<1> SUFFICES ASSUME "save" \notin Failures PROVE Spec => []SavedAtExit
  OBVIOUS
<1>1. Init => Saved
  BY DEF Init, FreshRun, Saved
<1>2. TypeOK /\ Saved /\ [Next]_vars => Saved'
  <2> SUFFICES ASSUME TypeOK, Saved, [Next]_vars PROVE Saved'
    OBVIOUS
  <2> USE DEF Saved, LastResult
  <2>1. CASE Setup \/ ResolveApproval \/ StartTurns
    BY <2>1 DEF Setup, SetupReturns, SetupThrows, SpawnCycle, SetupDone, ResolveApproval, StartTurns, session
  <2>2. CASE LoopHead \/ CallModel
    BY <2>2 DEF LoopHead, LeaveLoop, Cancel, BeginTurn, CallModel, Save, EmitResult
  <2>3. CASE CircuitOpen
    <3>1. "error_circuit_open" \in Subtypes
      BY DEF Subtypes
    <3> QED
      BY <2>3, <3>1, LastEmitted DEF CircuitOpen, EmitResult
  <2>4. CASE ModelAnswer \/ CallbackThrows
    BY <2>4 DEF ModelAnswer, CallFails, HealJson, FinalAnswer, ToolAnswer, CallbackThrows
  <2>5. CASE JudgeResults
    BY <2>5 DEF JudgeResults, BudgetStop, LoopAbort, AskApproval, Finish, GoOn, Save, EmitResult
  <2>6. CASE TurnEnd
    BY <2>6 DEF TurnEnd, SoftStop, CostStop, NextTurn, Save, EmitResult
  <2>7. CASE AfterLoop \/ EmitLast \/ Catch \/ Finally
    BY <2>7 DEF AfterLoop, EmitLast, Catch, Finally, Save, EmitResult, session, outcome
  <2>8. CASE Environment \/ NextRun \/ Finished \/ UNCHANGED vars
    BY <2>8 DEF Environment, MetaArrives, Abort, RequestShutdown, NextRun, Finished, vars, control,
                session, outcome
  <2> QED
    BY <2>1, <2>2, <2>3, <2>4, <2>5, <2>6, <2>7, <2>8 DEF Next, RunStep, ModelCall
<1>3. Saved => SavedAtExit
  BY DEF Saved, SavedAtExit
<1> QED
  BY <1>1, <1>2, <1>3, TypeCorrect, PTL DEF Spec

-----------------------------------------------------------------------------
(***************************************************************************)
(* How often the same tool calls can be repeated.                          *)
(***************************************************************************)

\* The length of a series that is cut off.
Limit == MaxIdentical + StuckLimit - 1

\* What the counters of the loop say about a series of r turns.
Counted(r) ==
  /\ r < MaxIdentical => streak = r /\ stuck = 0
  /\ r >= MaxIdentical => streak = MaxIdentical /\ stuck = r - MaxIdentical + 1

Between == {"setup", "start", "top", "waiting", "calling", "turnEnd"}

\* The series the loop remembers is the one that really happened.
Remembered ==
  /\ pc \in Between => /\ repeats < Limit /\ Counted(repeats)
                       /\ IF calls = <<>> THEN repeats = 0 ELSE lastSig = Signature(calls)
  /\ pc = "tools" => IF Same THEN repeats - 1 < Limit /\ repeats > 0 /\ Counted(repeats - 1)
                     ELSE repeats = 1

RInv ==
  /\ MaxIdentical = 0 => ~loopAborted
  /\ MaxIdentical > 0 => Remembered /\ (loopAborted => repeats >= Limit)
  /\ results # <<>> /\ LastResult = "error_loop_abort" => loopAborted

\* Once a turn's calls were judged, the counters count that turn too.
LEMMA DetectCounts ==
  ASSUME TypeOK, pc = "tools", MaxIdentical > 0, Remembered, DetectRepetition
  PROVE  /\ lastSig' = Signature(calls)
         /\ loopAborted' => repeats >= Limit
         /\ ~loopAborted' => /\ repeats < Limit
                             /\ repeats < MaxIdentical => streak' = repeats /\ stuck' = 0
                             /\ repeats >= MaxIdentical =>
                                  streak' = MaxIdentical /\ stuck' = repeats - MaxIdentical + 1
<1>1. /\ lastSig' = Signature(calls) /\ streak' = (IF Warned THEN MaxIdentical ELSE Streak)
      /\ stuck' = Warnings /\ loopAborted' = (Warnings >= StuckLimit)
  BY DEF DetectRepetition
<1>2. repeats \in Nat /\ streak \in Nat /\ stuck \in Nat
  BY Numbers DEF TypeOK
<1>3. /\ ~Warned => repeats < MaxIdentical /\ Streak = repeats /\ Warnings = 0
      /\ Warned => repeats >= MaxIdentical /\ Warnings = repeats - MaxIdentical + 1
  <2>1. CASE Same
    BY <1>2, <2>1, Numbers DEF Remembered, Counted, Warned, Streak, Warnings
  <2>2. CASE ~Same
    BY <1>2, <2>2, Numbers DEF Remembered, Warned, Streak, Warnings
  <2> QED
    BY <2>1, <2>2
<1>4. Warnings >= StuckLimit <=> repeats >= Limit
  BY <1>2, <1>3, Numbers DEF Limit
<1>5. loopAborted' <=> Warnings >= StuckLimit
  BY <1>1, Zenon
<1>6. loopAborted' <=> repeats >= Limit
  BY <1>4, <1>5
<1>7. repeats < MaxIdentical <=> ~Warned
  BY <1>2, <1>3, Numbers
<1>8. ~(repeats >= Limit) => repeats < Limit
  BY <1>2, Numbers DEF Limit
<1>9. repeats >= MaxIdentical <=> Warned
  BY <1>2, <1>7, Numbers
<1> QED
  BY <1>1, <1>3, <1>6, <1>7, <1>8, <1>9

\* The three parts of RInv, for a step that leaves the counters and the calls alone.
LEMMA SeriesKept ==
  ASSUME RInv, UNCHANGED <<calls, lastSig, streak, stuck, loopAborted, repeats>>,
         pc' \in Between => pc \in Between, pc' = "tools" => pc = "tools",
         results' # <<>> /\ results'[Len(results')] = "error_loop_abort" => loopAborted
  PROVE  RInv'
<1>1. Same' <=> Same
  BY DEF Same, Signature
<1> QED
  BY <1>1 DEF RInv, Remembered, Counted, LastResult, Limit, Signature

\* Only the last result event of a run reports the abort, and only of an aborted loop.
LEMMA AbortReported ==
  ASSUME TypeOK, RInv, NEW s \in Subtypes, s = "error_loop_abort" => loopAborted,
         results' = Append(results, s) \/ UNCHANGED results
  PROVE  results' # <<>> /\ results'[Len(results')] = "error_loop_abort" => loopAborted
  BY LastEmitted DEF RInv, LastResult

LEMMA SeriesStep == IInv /\ RInv /\ [Next]_vars => RInv'
<1> SUFFICES ASSUME TypeOK, Going, RInv, [Next]_vars PROVE RInv'
  BY DEF IInv
<1>a. {"error", "error_cancelled", "error_circuit_open", "error_tool_budget", "success",
       "error_max_cost"} \subseteq Subtypes /\ LastSubtype \in Subtypes
  BY DEF Subtypes, LastSubtype
<1>b. results # <<>> /\ results[Len(results)] = "error_loop_abort" => loopAborted
  BY DEF RInv, LastResult
<1>1. CASE Setup \/ ResolveApproval \/ StartTurns
  <2>1. results' = Append(results, "error") \/ UNCHANGED results
    BY <1>1 DEF Setup, SetupReturns, SetupThrows, SpawnCycle, SetupDone, ResolveApproval, StartTurns, outcome
  <2> QED
    BY <1>1, <1>a, <2>1, SeriesKept, AbortReported
    DEF Between, Setup, SetupReturns, SetupThrows, SpawnCycle, SetupDone, ResolveApproval, StartTurns,
        detection, history
<1>2. CASE Cancel
  <2>1. results' = Append(results, "error_cancelled")
    BY <1>2 DEF Cancel, EmitResult
  <2> QED
    BY <1>2, <1>a, <2>1, SeriesKept, AbortReported
    DEF Between, Cancel, EmitResult, detection, history
<1>3. CASE CircuitOpen
  <2>1. results' = Append(results, "error_circuit_open")
    BY <1>3 DEF CircuitOpen, EmitResult
  <2> QED
    BY <1>3, <1>a, <2>1, SeriesKept, AbortReported
    DEF Between, CircuitOpen, EmitResult, detection, history
<1>4. CASE LeaveLoop \/ BeginTurn \/ CallModel \/ CallFails \/ HealJson \/ FinalAnswer \/ CallbackThrows
  BY <1>4, <1>b, SeriesKept
  DEF Between, LeaveLoop, BeginTurn, CallModel, CallFails, HealJson, FinalAnswer, CallbackThrows,
      detection, outcome, history
<1>5. CASE ToolAnswer
  <2>1. PICK answer \in Answers :
          /\ calls' = answer
          /\ repeats' = IF calls # <<>> /\ Signature(answer) = Signature(calls)
                        THEN Smaller(repeats + 1, RepeatBound) ELSE 1
    BY <1>5 DEF ToolAnswer
  <2>2. pc = "calling" /\ pc' = "tools" /\ UNCHANGED <<lastSig, streak, stuck, loopAborted, results>>
    BY <1>5 DEF ToolAnswer, detection, outcome
  <2>3. Same' <=> Signature(answer) = lastSig
    BY <2>1, <2>2 DEF Same, Signature
  <2>4. ASSUME MaxIdentical > 0 PROVE Remembered'
    <3>0. Remembered /\ repeats \in Nat
      BY <2>4 DEF RInv, TypeOK
    <3>1. CASE calls = <<>>
      <4>1. repeats' = 1 /\ repeats = 0 /\ Counted(0)
        BY <2>1, <2>2, <3>0, <3>1 DEF Remembered, Between
      <4> QED
        BY <2>2, <2>4, <4>1, Numbers DEF Remembered, Between, Counted, Limit
    <3>2. CASE calls # <<>>
      <4>1. lastSig = Signature(calls) /\ repeats < Limit /\ Counted(repeats)
        BY <2>2, <3>0, <3>2 DEF Remembered, Between
      <4>2. CASE Signature(answer) = Signature(calls)
        <5>1. repeats' = repeats + 1
          BY <2>1, <3>0, <3>2, <4>1, <4>2, Numbers DEF Smaller, RepeatBound, Limit
        <5> QED
          BY <2>2, <2>3, <3>0, <4>1, <4>2, <5>1, Numbers DEF Remembered, Between, Counted, Limit
      <4>3. CASE Signature(answer) # Signature(calls)
        BY <2>1, <2>2, <2>3, <4>1, <4>3 DEF Remembered, Between
      <4> QED
        BY <4>2, <4>3
    <3> QED
      BY <3>1, <3>2
  <2>5. MaxIdentical > 0 => ~loopAborted
    <3> SUFFICES ASSUME MaxIdentical > 0, loopAborted PROVE FALSE
      OBVIOUS
    <3>1. repeats \in Nat /\ repeats >= Limit /\ repeats < Limit
      BY <2>2 DEF RInv, Remembered, Between, TypeOK
    <3> QED
      BY <3>1, Numbers DEF Limit
  <2> QED
    BY <2>2, <2>4, <2>5, <1>b DEF RInv, LastResult
<1>6. CASE JudgeResults
  <2>1. PICK err \in Results :
          BudgetStop(err) \/ LoopAbort(err) \/ AskApproval(err) \/ Finish(err) \/ GoOn(err)
    BY <1>6 DEF JudgeResults
  <2>2. CASE BudgetStop(err)
    <3>1. results' = Append(results, "error_tool_budget")
      BY <2>2 DEF BudgetStop, EmitResult
    <3> QED
      BY <1>a, <2>2, <3>1, SeriesKept, AbortReported
      DEF Between, BudgetStop, EmitResult, history
  <2>3. CASE LoopAbort(err) \/ AskApproval(err) \/ Finish(err) \/ GoOn(err)
    <3>1. /\ pc = "tools" /\ DetectRepetition /\ UNCHANGED <<calls, repeats>>
          /\ pc' # "tools" /\ (pc' \in Between => ~loopAborted')
      BY <1>6, <2>3 DEF JudgeResults, LoopAbort, AskApproval, Finish, GoOn, EmitResult, Between, history
    <3>2. results' # <<>> /\ results'[Len(results')] = "error_loop_abort" => loopAborted
      <4>1. CASE AskApproval(err)
        <5>1. results' = Append(results, "success")
          BY <4>1 DEF AskApproval, EmitResult
        <5> QED
          BY <1>a, <5>1, AbortReported
      <4>2. CASE LoopAbort(err) \/ Finish(err) \/ GoOn(err)
        BY <1>b, <4>2 DEF LoopAbort, Finish, GoOn, outcome
      <4> QED
        BY <2>3, <4>1, <4>2
    <3>3. CASE MaxIdentical = 0
      <4>1. ~loopAborted /\ UNCHANGED loopAborted
        BY <3>1, <3>3 DEF DetectRepetition, RInv
      <4> QED
        BY <3>2, <3>3, <4>1 DEF RInv, LastResult
    <3>4. CASE MaxIdentical > 0
      <4>1. Remembered
        BY <3>4 DEF RInv
      <4>2. ~loopAborted
        BY <3>1 DEF Going, BeforeEnd, InLoop
      <4>3. /\ lastSig' = Signature(calls)
            /\ loopAborted' => repeats >= Limit
            /\ ~loopAborted' => /\ repeats < Limit
                                /\ repeats < MaxIdentical => streak' = repeats /\ stuck' = 0
                                /\ repeats >= MaxIdentical =>
                                     streak' = MaxIdentical /\ stuck' = repeats - MaxIdentical + 1
        BY <3>1, <3>4, <4>1, DetectCounts
      <4>4. pc' \in Between => repeats' < Limit /\ Counted(repeats)'
        BY <3>1, <4>3 DEF Counted, Limit
      <4>5. calls # <<>>
        <5>1. PICK n \in 1..MaxCalls : calls \in [1..n -> Call]
          BY <3>1 DEF Going, Answers
        <5>2. 1 \in DOMAIN calls
          BY <5>1, Numbers
        <5> QED
          BY <5>2
      <4>6. lastSig' = Signature(calls')
        BY <3>1, <4>3 DEF Signature
      <4>7. Remembered'
        BY <3>1, <4>4, <4>5, <4>6 DEF Remembered
      <4>8. loopAborted' => repeats' >= Limit
        BY <3>1, <4>3 DEF Limit
      <4> QED
        BY <3>2, <3>4, <4>2, <4>7, <4>8 DEF RInv, LastResult, Limit
    <3> QED
      BY <3>3, <3>4, Numbers
  <2> QED
    BY <2>1, <2>2, <2>3
<1>7. CASE CostStop
  <2>1. results' = Append(results, "error_max_cost")
    BY <1>7 DEF CostStop, EmitResult
  <2> QED
    BY <1>7, <1>a, <2>1, SeriesKept, AbortReported
    DEF Between, CostStop, EmitResult, detection, history
<1>8. CASE SoftStop \/ NextTurn
  BY <1>8, <1>b, SeriesKept DEF Between, SoftStop, NextTurn, detection, outcome, history
<1>9. CASE EmitLast
  <2>1. results' = Append(results, LastSubtype)
    BY <1>9 DEF EmitLast, EmitResult
  <2>2. LastSubtype = "error_loop_abort" => loopAborted
    BY DEF LastSubtype
  <2> QED
    BY <1>9, <1>a, <2>1, <2>2, SeriesKept, AbortReported
    DEF Between, EmitLast, EmitResult, detection, history
<1>10. CASE Catch
  <2>1. results' = Append(results, "error")
    BY <1>10 DEF Catch
  <2> QED
    BY <1>10, <1>a, <2>1, SeriesKept, AbortReported DEF Between, Catch, detection, history
<1>11. CASE AfterLoop \/ Finally
  BY <1>11, <1>b, SeriesKept DEF Between, AfterLoop, Finally, detection, outcome, history
<1>12. CASE Environment \/ Finished \/ UNCHANGED vars
  BY <1>12, <1>b, SeriesKept
  DEF Between, Environment, MetaArrives, Abort, RequestShutdown, Finished, vars, control, detection,
      outcome, history
<1>13. CASE NextRun
  BY <1>13, Numbers DEF NextRun, RInv, Remembered, Counted, Between, Limit
<1> QED
  BY <1>1, <1>2, <1>3, <1>4, <1>5, <1>6, <1>7, <1>8, <1>9, <1>10, <1>11, <1>12, <1>13
  DEF Next, RunStep, LoopHead, ModelCall, ModelAnswer, TurnEnd

THEOREM SeriesCounted == Spec => [](IInv /\ RInv)
<1>1. Init => RInv
  <2> SUFFICES ASSUME Init PROVE RInv
    OBVIOUS
  <2>1. /\ pc = "setup" /\ repeats = 0 /\ streak = 0 /\ stuck = 0 /\ ~loopAborted /\ calls = <<>>
        /\ results = <<>>
    BY DEF Init, FreshRun
  <2> QED
    BY <2>1, Numbers DEF RInv, Remembered, Counted, Between, Limit
<1> QED
  BY <1>1, InitInv, InvStep, SeriesStep, PTL DEF Spec

\* However the model mixes its calls, a series of identical ones is cut off.
THEOREM SeriesAreCut == Spec => []RepetitionIsCut
<1>1. IInv /\ RInv => RepetitionIsCut
  BY DEF IInv, RInv, Remembered, Between, RepetitionIsCut, Limit
<1> QED
  BY <1>1, SeriesCounted, PTL

\* No run is aborted for a series that did not happen.
THEOREM AbortsAreDeserved == Spec => []AbortsOnlyWhenStuck
<1>1. IInv /\ RInv => AbortsOnlyWhenStuck
  BY Numbers DEF IInv, TypeOK, RInv, AbortsOnlyWhenStuck, Limit
<1> QED
  BY <1>1, SeriesCounted, PTL

-----------------------------------------------------------------------------
(***************************************************************************)
(* How many model calls a run can make.                                    *)
(***************************************************************************)
Healed == IF healed THEN 1 ELSE 0

Answering == {"calling", "tools", "turnEnd"}

\* With a limit of turns, the calls are the turns that were begun, and the extra one.
Begun ==
  MaxTurns > 0 =>
    /\ modelCalls >= turn /\ modelCalls <= MaxTurns + Healed
    /\ pc \in {"setup", "start", "top", "waiting"} => modelCalls <= turn + Healed
    /\ pc = "calling" => modelCalls <= turn + 1 + Healed
    /\ pc \in {"tools", "turnEnd"} => modelCalls <= turn + 1 + Healed
    /\ pc \in Answering => modelCalls >= turn + 1

TInv ==
  /\ Begun
  /\ results # <<>> /\ LastResult = "error_max_turns" => modelCalls >= MaxTurns
\* A step that leaves the counts alone and does not move the run into a turn.
LEMMA CountsKept ==
  ASSUME IInv, TInv, UNCHANGED <<modelCalls, turn, healed>>,
         \/ pc' = pc
         \/ pc' \notin Answering \cup {"setup", "start", "top", "waiting"}
         \/ pc \in {"setup", "start", "top"} /\ pc' \in {"setup", "start", "top", "waiting"}
         \/ pc = "calling" /\ pc' = "tools"
         \/ pc = "tools" /\ pc' = "turnEnd",
         \/ UNCHANGED results
         \/ \E s \in Subtypes : /\ results' = Append(results, s)
                                /\ s = "error_max_turns" => modelCalls >= MaxTurns
  PROVE  TInv'
<1>1. Begun'
  BY Numbers DEF IInv, TypeOK, TInv, Begun, Healed, Answering
<1>2. (results # <<>> /\ LastResult = "error_max_turns" => modelCalls >= MaxTurns)'
  <2>1. CASE UNCHANGED results
    BY <2>1 DEF TInv, LastResult
  <2>2. CASE ~UNCHANGED results
    <3>1. PICK s \in Subtypes : /\ results' = Append(results, s)
                                /\ s = "error_max_turns" => modelCalls >= MaxTurns
      BY <2>2
    <3>2. results' # <<>> /\ results'[Len(results')] = s
      BY <3>1, LastEmitted DEF IInv
    <3> QED
      BY <3>1, <3>2 DEF LastResult
  <2> QED
    BY <2>1, <2>2
<1> QED
  BY <1>1, <1>2 DEF TInv

\* Reports other than that of the turn limit.
OtherSubtypes == Subtypes \ {"error_max_turns"}

LEMMA TurnsStep == IInv /\ TInv /\ [Next]_vars => TInv'
<1> SUFFICES ASSUME IInv, TInv, [Next]_vars PROVE TInv'
  OBVIOUS
<1> USE DEF Answering
<1>a. /\ {"error", "error_cancelled", "error_circuit_open", "error_tool_budget", "success",
          "error_max_cost"} \subseteq OtherSubtypes
      /\ LastSubtype \in Subtypes
  BY DEF OtherSubtypes, Subtypes, LastSubtype
<1>b. \A s \in OtherSubtypes : s \in Subtypes /\ s # "error_max_turns"
  BY DEF OtherSubtypes
<1>1. CASE Setup \/ ResolveApproval \/ StartTurns \/ LeaveLoop \/ BeginTurn
  <2>1. UNCHANGED results \/ \E s \in OtherSubtypes : results' = Append(results, s)
    BY <1>1, <1>a DEF Setup, SetupReturns, SetupThrows, SpawnCycle, SetupDone, ResolveApproval, StartTurns,
                      LeaveLoop, BeginTurn, outcome
  <2> QED
    BY <1>1, <1>b, <2>1, CountsKept
    DEF Setup, SetupReturns, SetupThrows, SpawnCycle, SetupDone, ResolveApproval, StartTurns, LeaveLoop,
        BeginTurn, history
<1>2. CASE Cancel \/ CircuitOpen \/ CostStop
  <2>1. \E s \in OtherSubtypes : results' = Append(results, s)
    BY <1>2, <1>a DEF Cancel, CircuitOpen, CostStop, EmitResult
  <2> QED
    BY <1>2, <1>b, <2>1, CountsKept DEF Cancel, CircuitOpen, CostStop, EmitResult, history
<1>3. CASE CallModel
  <2>1. /\ pc = "waiting" /\ pc' \in {"calling", "catch"} /\ UNCHANGED <<turn, healed, results>>
        /\ modelCalls' = Smaller(modelCalls + 1, CallBound)
    BY <1>3 DEF CallModel, outcome
  <2>2. Begun'
    <3> SUFFICES ASSUME MaxTurns > 0 PROVE Begun'
      BY DEF Begun
    <3>1. modelCalls >= turn /\ modelCalls <= turn + Healed /\ turn < MaxTurns
      BY <2>1, Numbers DEF TInv, Begun, IInv, Going, InLoop, TurnsLeft
    <3>2. modelCalls' = modelCalls + 1
      BY <2>1, <3>1, Numbers DEF Smaller, CallBound, Healed, IInv, TypeOK
    <3> QED
      BY <2>1, <3>1, <3>2, Numbers DEF Begun, Healed, IInv, TypeOK
  <2>3. modelCalls' >= modelCalls \/ MaxTurns = 0
    <3> SUFFICES ASSUME MaxTurns > 0 PROVE modelCalls' >= modelCalls
      BY Numbers
    <3>1. modelCalls <= MaxTurns + 1
      BY Numbers DEF TInv, Begun, Healed, IInv, TypeOK
    <3> QED
      BY <2>1, <3>1, Numbers DEF Smaller, CallBound, IInv, TypeOK
  <2>4. modelCalls' \in Nat
    BY <2>1, Numbers DEF Smaller, CallBound, IInv, TypeOK
  <2>5. results # <<>> /\ LastResult = "error_max_turns" => modelCalls' >= MaxTurns
    BY <2>3, <2>4, Numbers DEF TInv, IInv, TypeOK
  <2> QED
    BY <2>1, <2>2, <2>5 DEF TInv, LastResult
<1>4. CASE CallFails \/ FinalAnswer \/ ToolAnswer \/ CallbackThrows \/ SoftStop
  BY <1>4, CountsKept DEF CallFails, FinalAnswer, ToolAnswer, CallbackThrows, SoftStop, outcome, history
<1>5. CASE HealJson
  <2>1. Begun'
    BY <1>5, Numbers DEF HealJson, TInv, Begun, Healed, IInv, TypeOK
  <2> QED
    BY <1>5, <2>1 DEF HealJson, TInv, LastResult, outcome
<1>6. CASE JudgeResults
  <2>1. PICK err \in Results :
          BudgetStop(err) \/ LoopAbort(err) \/ AskApproval(err) \/ Finish(err) \/ GoOn(err)
    BY <1>6 DEF JudgeResults
  <2>2. UNCHANGED results \/ \E s \in OtherSubtypes : results' = Append(results, s)
    BY <1>a, <2>1 DEF BudgetStop, LoopAbort, AskApproval, Finish, GoOn, EmitResult, outcome
  <2> QED
    BY <1>6, <1>b, <2>1, <2>2, CountsKept
    DEF JudgeResults, BudgetStop, LoopAbort, AskApproval, Finish, GoOn, EmitResult, history
<1>7. CASE NextTurn
  <2>1. Begun'
    BY <1>7, Numbers DEF NextTurn, TInv, Begun, Healed, IInv, TypeOK, Going, InLoop, TurnsLeft, history
  <2> QED
    BY <1>7, <2>1 DEF NextTurn, TInv, LastResult, outcome, history
<1>8. CASE EmitLast
  <2>1. LastSubtype = "error_max_turns" => modelCalls >= MaxTurns
    BY Numbers DEF LastSubtype, TInv, Begun, IInv, TypeOK
  <2>2. results' = Append(results, LastSubtype)
    BY <1>8 DEF EmitLast, EmitResult
  <2> QED
    BY <1>8, <1>a, <2>1, <2>2, CountsKept DEF EmitLast, EmitResult, history
<1>9. CASE AfterLoop \/ Catch \/ Finally
  <2>1. UNCHANGED results \/ \E s \in OtherSubtypes : results' = Append(results, s)
    BY <1>9, <1>a DEF AfterLoop, Catch, Finally, outcome
  <2> QED
    BY <1>9, <1>b, <2>1, CountsKept DEF AfterLoop, Catch, Finally, history
<1>10. CASE Environment \/ Finished \/ UNCHANGED vars
  BY <1>10, CountsKept
  DEF Environment, MetaArrives, Abort, RequestShutdown, Finished, vars, control, outcome, history
<1>11. CASE NextRun
  BY <1>11, Numbers DEF NextRun, TInv, Begun, Healed
<1> QED
  BY <1>1, <1>2, <1>3, <1>4, <1>5, <1>6, <1>7, <1>8, <1>9, <1>10, <1>11
  DEF Next, RunStep, LoopHead, ModelCall, ModelAnswer, TurnEnd

\* maxTurns bounds the calls of the model, and is not reported before it is used up.
THEOREM TurnsAreBounded == Spec => []TurnsBounded
<1>1. Init => TInv
  <2> SUFFICES ASSUME Init PROVE TInv
    OBVIOUS
  <2>1. pc = "setup" /\ modelCalls = 0 /\ turn = 0 /\ ~healed /\ results = <<>>
    BY DEF Init, FreshRun
  <2> QED
    BY <2>1, Numbers DEF TInv, Begun, Healed, Answering
<1>2. IInv /\ TInv => TurnsBounded
  BY DEF TInv, Begun, Healed, TurnsBounded
<1> QED
  BY <1>1, <1>2, InitInv, InvStep, TurnsStep, PTL DEF Spec
=============================================================================

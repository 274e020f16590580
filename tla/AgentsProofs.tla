---------------------------- MODULE AgentsProofs -----------------------------
(***************************************************************************)
(* Proofs about what the turns of a session add up to, for any number of   *)
(* threads, runs, processes, browsers, files and lines of a stream: what   *)
(* is spent, what arrives, what is remembered, the skill bank, runs within *)
(* runs, the files and browsers of tools and the summaries that later runs *)
(* start from.  Each part has an invariant of its own; the last section    *)
(* brings them together for the specification that the run checks.         *)
(***************************************************************************)
EXTENDS MCAgents, AgentLoopProofs, WellFoundedInduction

-----------------------------------------------------------------------------
(***************************************************************************)
(* What a session costs (AgentLoop).                                       *)
(***************************************************************************)

\* With metadata that is prompt, one request for it at most is in flight, right after
\* the call it is about; the session file has what the session has cost whenever the run
\* is not at work.
MoneyInv ==
  /\ IInv
  /\ pc \in {"setup", "start"} => turn = 0
  /\ pc \notin {"setup", "done"} => totalCost = billed
  /\ pc \in {"setup", "emit", "finally", "done"} => savedCost = billed
  /\ meta # {} => pc \in {"top", "after", "tools"} /\ (pc = "top" => healed)
  /\ \A m \in meta : totalCost = m.before + m.estimate
  /\ \A m, n \in meta : m = n
  /\ NoTurnOverLimit

\* Failures and metadata under which the loop counts what it spends.
CanCount == PromptMeta /\ "save" \notin Failures /\ "circuit" \notin Failures

\* Nothing is spent at first.
LEMMA MoneyInitInv == Init => MoneyInv
<1> SUFFICES ASSUME Init PROVE MoneyInv
  OBVIOUS
<1>1. IInv
  BY InitInv
<1> QED
  BY <1>1 DEF Init, FreshRun, MoneyInv, NoTurnOverLimit

\* An answer of the model costs something, and its metadata is asked for.
LEMMA AccountStep ==
  ASSUME MoneyInv, meta = {}, pc \notin {"setup", "done"}, Account
  PROVE  /\ totalCost' = billed'
         /\ \A m \in meta' : totalCost' = m.before + m.estimate
         /\ \A m, n \in meta' : m = n
<1>1. totalCost \in Nat /\ totalCost = billed /\ TurnCosts \subseteq Nat
  BY LoopAssumption DEF MoneyInv, IInv, TypeOK
<1>2. PICK c \in TurnCosts :
        /\ totalCost' = totalCost + c /\ billed' = billed + c
        /\ \/ meta' = meta
           \/ \E a \in ActualCosts : meta' = meta \cup {[before |-> totalCost, estimate |-> c, cost |-> a,
                                                         call |-> modelCalls]}
  BY DEF Account
<1>3. CASE meta' = meta
  BY <1>1, <1>2, <1>3
<1>4. ASSUME NEW a \in ActualCosts,
             meta' = meta \cup {[before |-> totalCost, estimate |-> c, cost |-> a, call |-> modelCalls]}
      PROVE  /\ \A m \in meta' : totalCost' = m.before + m.estimate
             /\ \A m, n \in meta' : m = n
  <2> DEFINE new == [before |-> totalCost, estimate |-> c, cost |-> a, call |-> modelCalls]
  <2>1. new.before = totalCost /\ new.estimate = c
    OBVIOUS
  <2>2. \A m \in meta' : m = new
    BY <1>4
  <2> HIDE DEF new
  <2> QED
    BY <1>2, <2>1, <2>2
<1> QED
  BY <1>1, <1>2, <1>3, <1>4

\* The session is saved, with what it has cost so far.
LEMMA SaveStep ==
  ASSUME CanCount, Save
  PROVE  savedCost' = totalCost
BY DEF CanCount, Save

\* All steps of a run, of the metadata that arrives and of the user.
LEMMA MoneyStep ==
  ASSUME CanCount, MoneyInv, [Next]_vars
  PROVE  MoneyInv'
<1>a. IInv'
  BY InvStep DEF MoneyInv
<1>b. PromptMeta
  BY DEF CanCount
<1> USE DEF MoneyInv, NoTurnOverLimit
<1>1. CASE RunStep
  <2>1. meta = {}
    BY <1>1, <1>b DEF RunStep
  <2>2. CASE Setup
    BY <1>a, <2>1, <2>2
    DEF Setup, SetupReturns, SetupThrows, SpawnCycle, SetupDone, detection, money, signals, session, outcome, history
  <2>3. CASE ResolveApproval \/ StartTurns
    BY <1>a, <2>1, <2>3
    DEF ResolveApproval, StartTurns, detection, money, signals, session, outcome, history
  <2>4. CASE LoopHead
    BY <1>a, <2>1, <2>4, SaveStep
    DEF LoopHead, LeaveLoop, Cancel, BeginTurn, EmitResult, detection, money, signals, session, outcome, history
  <2>5. CASE ModelCall \/ CallbackThrows
    BY <1>a, <2>1, <2>5
    DEF ModelCall, CircuitOpen, CallModel, CallbackThrows, CanCount, detection, money, signals, session,
        outcome, history
  <2>6. CASE CallFails
    BY <1>a, <2>1, <2>6 DEF CallFails, detection, money, signals, session, outcome, history
  <2>7. CASE HealJson
    BY <1>a, <2>1, <2>7, AccountStep DEF HealJson, detection, signals, outcome
  <2>8. CASE FinalAnswer
    BY <1>a, <2>1, <2>8, AccountStep DEF FinalAnswer, detection, signals, outcome
  <2>9. CASE ToolAnswer
    BY <1>a, <2>1, <2>9, AccountStep DEF ToolAnswer, detection, signals, outcome
  <2>10. CASE JudgeResults
    <3>1. PICK err \in Results :
            BudgetStop(err) \/ LoopAbort(err) \/ AskApproval(err) \/ Finish(err) \/ GoOn(err)
      BY <2>10 DEF JudgeResults
    <3>2. pc = "tools"
      BY <2>10 DEF JudgeResults
    <3>3. CASE BudgetStop(err) \/ AskApproval(err)
      BY <1>a, <2>1, <3>2, <3>3, SaveStep DEF BudgetStop, AskApproval, EmitResult, money, signals, history
    <3>4. CASE LoopAbort(err) \/ Finish(err) \/ GoOn(err)
      BY <1>a, <2>1, <3>2, <3>4 DEF LoopAbort, Finish, GoOn, money, signals, session, outcome, history
    <3> QED
      BY <3>1, <3>3, <3>4
  <2>11. CASE SoftStop
    BY <1>a, <2>1, <2>11 DEF SoftStop, detection, money, signals, outcome, history
  <2>12. CASE CostStop
    BY <1>a, <2>1, <2>12, SaveStep DEF CostStop, EmitResult, detection, money, signals, outcome, history
  <2>13. CASE NextTurn
    <3>1. HardLimit # None => totalCost < HardLimit
      BY <2>13, LoopAssumption DEF NextTurn, HardReached, IInv, TypeOK
    <3> QED
      BY <1>a, <2>1, <2>13, <3>1 DEF NextTurn, detection, money, signals, outcome, history
  <2>14. CASE AfterLoop
    BY <1>a, <2>1, <2>14, SaveStep DEF AfterLoop, detection, money, signals, outcome, history
  <2>15. CASE EmitLast
    BY <1>a, <2>1, <2>15 DEF EmitLast, EmitResult, detection, money, signals, session, history
  <2>16. CASE Catch
    BY <1>a, <2>1, <2>16, SaveStep DEF Catch, detection, money, signals, history
  <2>17. CASE Finally
    BY <1>a, <2>1, <2>17 DEF Finally, detection, money, signals, session, outcome, history
  <2> QED
    BY <1>1, <2>2, <2>3, <2>4, <2>5, <2>6, <2>7, <2>8, <2>9, <2>10, <2>11, <2>12, <2>13, <2>14,
       <2>15, <2>16, <2>17
    DEF RunStep, ModelAnswer, TurnEnd
<1>2. CASE MetaArrives
  <2>1. PICK m \in meta : /\ totalCost' = m.before + m.cost
                          /\ billed' = billed + m.cost - m.estimate
                          /\ meta' = meta \ {m}
    BY <1>2 DEF MetaArrives
  <2>2. m.before \in Nat /\ m.cost \in Nat /\ m.estimate \in Nat
    <3>1. m \in [before : Nat, estimate : TurnCosts, cost : ActualCosts, call : Nat]
      BY DEF IInv, TypeOK
    <3> QED
      BY <3>1, LoopAssumption
  <2>3. billed = m.before + m.estimate /\ meta' = {}
    BY <2>1
  <2>4. totalCost' = billed'
    BY <2>1, <2>2, <2>3
  <2> QED
    BY <1>a, <1>2, <2>3, <2>4 DEF MetaArrives, control, detection, signals, session, outcome
<1>3. CASE Abort
  BY <1>a, <1>3 DEF Abort, control, detection, money, session, outcome, history
<1>4. CASE RequestShutdown
  BY <1>a, <1>4 DEF RequestShutdown, control, detection, money, session, outcome, history
<1>5. CASE NextRun
  BY <1>a, <1>5 DEF NextRun
<1>6. CASE Finished \/ UNCHANGED vars
  BY <1>a, <1>6 DEF Finished, vars, control, detection, money, signals, session, outcome, history
<1> QED
  BY <1>1, <1>2, <1>3, <1>4, <1>5, <1>6 DEF Next, Environment

\* The invariant is stronger than the two properties.
LEMMA MoneySafe ==
  ASSUME MoneyInv
  PROVE  CostIsExact /\ NoTurnOverLimit
BY DEF MoneyInv, CostIsExact

-----------------------------------------------------------------------------
(***************************************************************************)
(* The summaries that runs start from (Checkpoint).                        *)
(***************************************************************************)

\* Every set of numbers has a least one.
LEMMA LeastNumber ==
  ASSUME NEW S, S \subseteq Nat, S # {}
  PROVE  \E n \in S : \A m \in S : n <= m
<1>1. IsWellFoundedOn(OpToRel(<,Nat), Nat)
  BY NatLessThanWellFounded
<1>2. PICK n \in S : \A m \in S : <<m, n>> \notin OpToRel(<,Nat)
  BY <1>1, WFMin
<1>3. ASSUME NEW m \in S PROVE n <= m
  <2>1. n \in Nat /\ m \in Nat
    OBVIOUS
  <2>2. ~(m < n)
    <3>1. <<m, n>> \in Nat \X Nat
      BY <2>1
    <3> QED
      BY <1>2, <2>1, <3>1 DEF OpToRel
  <2> QED
    BY <2>1, <2>2
<1> QED
  BY <1>3

\* Every set of numbers with a bound has a greatest one.
LEMMA GreatestNumber ==
  ASSUME NEW S, NEW bound \in Nat, S \subseteq 0..bound, S # {}
  PROVE  \E n \in S : \A m \in S : m <= n
<1> DEFINE R == {bound - n : n \in S}
<1>1. R \subseteq Nat /\ R # {}
  <2>1. \A n \in S : bound - n \in Nat
    OBVIOUS
  <2> QED
    BY <2>1
<1> HIDE DEF R
<1>2. PICK r \in R : \A m \in R : r <= m
  BY <1>1, LeastNumber
<1>3. PICK n \in S : r = bound - n
  BY DEF R
<1>4. ASSUME NEW m \in S PROVE m <= n
  <2>1. bound - m \in R
    BY DEF R
  <2>2. bound - n <= bound - m /\ m \in 0..bound /\ n \in 0..bound
    BY <1>2, <1>3, <2>1
  <2> QED
    BY <2>2
<1> QED
  BY <1>4

\* The threads that have rows, and what a row holds.
ThreadRows == {u \in Threads : HasRow(u)}
RowOf == [context : Contexts \cup {Nowhere}, summary : ThreadSummaries, second : 0..MaxSecond]

\* ThreadRows are numbered one after the other, and without a row nothing is saved; a
\* session that works has a context; and a context for which a summary was saved
\* has one, until a session that has one leaves the context.
CheckpointInv ==
  /\ CheckpointTypeOK
  /\ \A t \in Threads : rowids[t] <= Cardinality(ThreadRows)
  /\ \A t, u \in Threads : HasRow(t) /\ rowids[t] = rowids[u] => t = u
  /\ \A t \in Threads : row[t].summary # NoSummary => HasRow(t)
  /\ \A t \in Threads : working[t].at # "none" => working[t].context \in Contexts
  /\ \A k \in stored \ moved : \E t \in Threads : row[t].context = k /\ row[t].summary # NoSummary

\* No summary is a summary, with a number that is less than any other.
LEMMA NoSummaryIs == NoSummary \in ThreadSummaries /\ NoSummary.number = 0
  BY CheckpointAssumption DEF NoSummary, ThreadSummaries

\* There are no rows at first.
LEMMA CheckpointInitInv == CheckpointInit => CheckpointInv
<1> SUFFICES ASSUME CheckpointInit PROVE CheckpointInv
  OBVIOUS
<1> USE CheckpointAssumption, NoSummaryIs DEF CheckpointInit
<1>1. Cardinality(Threads) \in Nat /\ Cardinality({}) = 0
  BY FS_CardinalityType, FS_EmptySet
<1>2. ThreadRows = {}
  BY DEF ThreadRows, HasRow
<1>3. CheckpointTypeOK
  BY <1>1 DEF CheckpointTypeOK
<1> QED
  BY <1>1, <1>2, <1>3 DEF CheckpointInv, HasRow

\* A thread goes on, without a checkpoint.
LEMMA WorkStep ==
  ASSUME CheckpointInv, NoCheckpoint, second' \in 0..MaxSecond, made' = made,
         working' \in [Threads -> [at : {"none", "turns", "summarizing", "ending", "done"},
                                   context : Contexts \cup {Nowhere}]],
         \A t \in Threads : working'[t].at # "none" => working'[t].context \in Contexts
  PROVE  CheckpointInv'
<1>1. CheckpointTypeOK'
  BY DEF CheckpointInv, CheckpointTypeOK, NoCheckpoint
<1>2. ThreadRows' = ThreadRows /\ \A t \in Threads : HasRow(t)' <=> HasRow(t)
  BY DEF ThreadRows, HasRow, NoCheckpoint
<1> QED
  BY <1>1, <1>2 DEF CheckpointInv, NoCheckpoint

\* A checkpoint of a thread, with a new summary or none.
LEMMA CheckpointStep ==
  ASSUME CheckpointInv, NEW t \in Threads, NEW digest \in ThreadSummaries,
         working[t].at # "none", SaveCheckpoint(t, digest),
         second' = second, made' \in 0..MaxSummaries,
         working' \in [Threads -> [at : {"none", "turns", "summarizing", "ending", "done"},
                                   context : Contexts \cup {Nowhere}]],
         \A u \in Threads : working'[u].at # "none" => working'[u].context \in Contexts
  PROVE  CheckpointInv'
<1> USE CheckpointAssumption
<1> DEFINE k == working[t].context
           s == IF digest = NoSummary THEN row[t].summary ELSE digest
           new == [context |-> k, second |-> second, summary |-> s]
           n == Cardinality(ThreadRows)
<1>1. k \in Contexts /\ row \in [Threads -> RowOf]
  BY DEF CheckpointInv, CheckpointTypeOK, RowOf
<1>2. s \in ThreadSummaries
  BY <1>1 DEF RowOf
<1>3. new \in RowOf /\ new.context = k /\ new.summary = s
  BY <1>1, <1>2 DEF RowOf, CheckpointInv, CheckpointTypeOK
<1>4. row' = [row EXCEPT ![t] = new]
  BY <1>1 DEF SaveCheckpoint
<1>5. s = NoSummary => digest = NoSummary
  OBVIOUS
<1>6. digest = NoSummary => s = row[t].summary
  OBVIOUS
<1> HIDE DEF new, s
<1>7. /\ row' \in [Threads -> RowOf] /\ row'[t] = new
      /\ \A u \in Threads \ {t} : row'[u] = row[u]
  BY <1>1, <1>3, <1>4
<1>8. /\ rowids \in [Threads -> 0..Cardinality(Threads)]
      /\ rowids' = IF HasRow(t) THEN rowids ELSE [rowids EXCEPT ![t] = n + 1]
      /\ moved' = IF row[t].context \in Contexts \ {k} THEN moved \cup {row[t].context} ELSE moved
      /\ stored' = IF digest = NoSummary THEN stored ELSE stored \cup {k}
  BY DEF CheckpointInv, CheckpointTypeOK, SaveCheckpoint, ThreadRows
<1>9. IsFiniteSet(ThreadRows) /\ n \in Nat /\ Cardinality(Threads) \in Nat
  BY FS_Subset, FS_CardinalityType DEF ThreadRows
<1> HIDE DEF n
<1>10. /\ rowids' \in [Threads -> 0..Cardinality(Threads)]
       /\ \A u \in Threads : rowids'[u] <= Cardinality(ThreadRows)'
       /\ \A u, v \in Threads : HasRow(u)' /\ rowids'[u] = rowids'[v] => u = v
       /\ \A u \in Threads : HasRow(u) => HasRow(u)'
       /\ HasRow(t)'
  <2>1. CASE HasRow(t)
    <3>1. rowids' = rowids
      BY <1>8, <2>1
    <3>2. ThreadRows' = ThreadRows
      BY <3>1 DEF ThreadRows, HasRow
    <3> QED
      BY <1>8, <2>1, <3>1, <3>2 DEF HasRow, CheckpointInv
  <2>2. CASE ~HasRow(t)
    <3>1. rowids' = [rowids EXCEPT ![t] = n + 1]
      BY <1>8, <2>2
    <3>2. rowids'[t] = n + 1 /\ \A u \in Threads \ {t} : rowids'[u] = rowids[u]
      BY <1>8, <3>1
    <3>3. ThreadRows' = ThreadRows \cup {t} /\ t \notin ThreadRows
      BY <1>9, <2>2, <3>2 DEF ThreadRows, HasRow
    <3>4. Cardinality(ThreadRows') = n + 1
      BY <1>9, <3>3, FS_AddElement DEF n
    <3>5. n + 1 <= Cardinality(Threads)
      <4>1. ThreadRows' \subseteq Threads
        BY <3>3 DEF ThreadRows
      <4> QED
        BY <3>4, <4>1, FS_Subset
    <3>6. \A u \in Threads : rowids[u] \in 0..n
      BY <1>8 DEF CheckpointInv, n
    <3>7. rowids' \in [Threads -> 0..Cardinality(Threads)]
      BY <1>8, <1>9, <3>1, <3>5
    <3>8. \A u \in Threads : rowids'[u] <= n + 1
      BY <1>9, <3>2, <3>6
    <3>9. ASSUME NEW u \in Threads, NEW v \in Threads, HasRow(u)', rowids'[u] = rowids'[v]
          PROVE  u = v
      <4>1. CASE u = t
        BY <1>9, <3>2, <3>6, <3>9, <4>1
      <4>2. CASE v = t
        BY <1>9, <3>2, <3>6, <3>9, <4>2
      <4>3. CASE u # t /\ v # t
        BY <3>2, <3>9, <4>3 DEF CheckpointInv, HasRow
      <4> QED
        BY <4>1, <4>2, <4>3
    <3>10. /\ \A u \in Threads : HasRow(u) => HasRow(u)'
           /\ HasRow(t)'
      BY <1>9, <2>2, <3>2 DEF HasRow
    <3> QED
      BY <3>4, <3>7, <3>8, <3>9, <3>10
  <2> QED
    BY <2>1, <2>2
<1>11. /\ stored' \subseteq Contexts /\ moved' \subseteq Contexts
       /\ stored' \subseteq stored \cup {k}
       /\ digest = NoSummary => stored' = stored
       /\ moved \subseteq moved'
       /\ row[t].context \in Contexts \ {k} => row[t].context \in moved'
  BY <1>1, <1>8 DEF CheckpointInv, CheckpointTypeOK
<1>12. CheckpointTypeOK'
  BY <1>7, <1>10, <1>11 DEF CheckpointInv, CheckpointTypeOK, RowOf
<1>13. \A u \in Threads : row'[u].summary # NoSummary => HasRow(u)'
  BY <1>7, <1>10 DEF CheckpointInv
<1>14. ASSUME NEW c \in stored' \ moved'
       PROVE  \E u \in Threads : row'[u].context = c /\ row'[u].summary # NoSummary
  <2>1. CASE digest # NoSummary /\ c = k
    BY <1>3, <1>5, <1>7, <2>1
  <2>2. CASE ~(digest # NoSummary /\ c = k)
    <3>1. c \in stored \ moved
      BY <1>11, <2>2
    <3>2. PICK u \in Threads : row[u].context = c /\ row[u].summary # NoSummary
      BY <3>1 DEF CheckpointInv
    <3>3. CASE u # t
      BY <1>7, <3>2, <3>3
    <3>4. CASE u = t
      <4>1. c = k
        BY <1>11, <3>2, <3>4 DEF CheckpointInv, CheckpointTypeOK
      <4>2. s # NoSummary
        BY <1>6, <2>2, <3>2, <3>4, <4>1
      <4> QED
        BY <1>3, <1>7, <4>1, <4>2
    <3> QED
      BY <3>3, <3>4
  <2> QED
    BY <2>1, <2>2
<1> QED
  BY <1>10, <1>12, <1>13, <1>14 DEF CheckpointInv

\* All steps of the threads.
LEMMA CheckpointsStep == CheckpointInv /\ [CheckpointNext]_checkpointVars => CheckpointInv'
<1> SUFFICES ASSUME CheckpointInv, [CheckpointNext]_checkpointVars PROVE CheckpointInv'
  OBVIOUS
<1> USE CheckpointAssumption
<1> DEFINE Working == [at : {"none", "turns", "summarizing", "ending", "done"},
                       context : Contexts \cup {Nowhere}]
<1>0. /\ working \in [Threads -> Working] /\ made \in 0..MaxSummaries /\ second \in 0..MaxSecond
      /\ \A t \in Threads : working[t].at # "none" => working[t].context \in Contexts
  BY DEF CheckpointInv, CheckpointTypeOK
<1>a. ASSUME NEW t \in Threads, NEW at \in {"turns", "summarizing", "ending", "done"},
             WorkTo(t, at), working[t].at # "none"
      PROVE  /\ working' \in [Threads -> Working]
             /\ \A u \in Threads : working'[u].at # "none" => working'[u].context \in Contexts
  <2> DEFINE w == [working[t] EXCEPT !.at = at]
  <2>1. w \in Working /\ w.at = at /\ w.context = working[t].context
    BY <1>0
  <2>2. working' = [working EXCEPT ![t] = w]
    BY <1>0, <1>a DEF WorkTo
  <2> HIDE DEF w
  <2>3. working' \in [Threads -> Working]
    BY <1>0, <2>1, <2>2
  <2>4. working'[t] = w /\ \A u \in Threads \ {t} : working'[u] = working[u]
    BY <1>0, <2>2
  <2> QED
    BY <1>0, <1>a, <2>1, <2>3, <2>4
<1>b. ASSUME NEW t \in Threads, working[t].at # "none", made < MaxSummaries
      PROVE  /\ made + 1 \in 0..MaxSummaries
             /\ [context |-> working[t].context, number |-> made + 1] \in ThreadSummaries
  BY <1>0, <1>b DEF ThreadSummaries
<1>1. CASE UNCHANGED checkpointVars
  BY <1>0, <1>1, WorkStep DEF checkpointVars, NoCheckpoint
<1>2. ASSUME NEW t \in Threads, NEW k \in Contexts, NEW resumed \in BOOLEAN, BeginWork(t, k, resumed)
      PROVE  CheckpointInv'
  <2> DEFINE w == [at |-> "turns", context |-> k]
  <2>1. w \in Working /\ w.context = k
    OBVIOUS
  <2>2. working' = [working EXCEPT ![t] = w]
    BY <1>2 DEF BeginWork
  <2> HIDE DEF w
  <2>3. working' \in [Threads -> Working]
    BY <1>0, <2>1, <2>2
  <2>4. working'[t] = w /\ \A u \in Threads \ {t} : working'[u] = working[u]
    BY <1>0, <2>2
  <2> QED
    BY <1>0, <1>2, <2>1, <2>3, <2>4, WorkStep DEF BeginWork
<1>3. ASSUME NEW t \in Threads, IngestUpdates(t) PROVE CheckpointInv'
  BY <1>0, <1>3, NoSummaryIs, CheckpointStep DEF IngestUpdates, WorkAt
<1>4. ASSUME NEW t \in Threads, BeginSummary(t) PROVE CheckpointInv'
  <2>1. working[t].at # "none" /\ WorkTo(t, "summarizing") /\ SaveCheckpoint(t, NoSummary)
        /\ second' = second /\ made' = made
    BY <1>4 DEF BeginSummary, WorkAt
  <2> QED
    BY <1>0, <1>a, <2>1, NoSummaryIs, CheckpointStep
<1>5. ASSUME NEW t \in Threads, WorkStops(t) PROVE CheckpointInv'
  <2>1. working[t].at # "none" /\ WorkTo(t, "done") /\ NoCheckpoint /\ second' = second /\ made' = made
    BY <1>5 DEF WorkStops, WorkAt
  <2> QED
    BY <1>0, <1>a, <2>1, WorkStep
<1>6. ASSUME NEW t \in Threads, NEW b \in BOOLEAN, SummaryArrives(t, b) PROVE CheckpointInv'
  <2>1. working[t].at # "none" /\ WorkTo(t, "turns") /\ second' = second
    BY <1>6 DEF SummaryArrives, WorkAt
  <2>2. CASE b
    BY <1>0, <1>6, <1>a, <2>1, <2>2, WorkStep DEF SummaryArrives
  <2>3. CASE ~b
    BY <1>0, <1>6, <1>a, <1>b, <2>1, <2>3, CheckpointStep DEF SummaryArrives
  <2> QED
    BY <2>2, <2>3
<1>7. ASSUME NEW t \in Threads, NEW b \in BOOLEAN, EndTurns(t, b) PROVE CheckpointInv'
  <2>1. PICK at \in {"ending", "done"} : WorkTo(t, at)
    BY <1>7 DEF EndTurns
  <2> QED
    BY <1>0, <1>7, <1>a, <2>1, WorkStep DEF EndTurns, WorkAt
<1>8. ASSUME NEW t \in Threads, NEW b \in BOOLEAN, LastSummaryArrives(t, b) PROVE CheckpointInv'
  <2>1. working[t].at # "none" /\ WorkTo(t, "done") /\ second' = second
    BY <1>8 DEF LastSummaryArrives, WorkAt
  <2>2. CASE ~b
    BY <1>0, <1>8, <1>a, <2>1, <2>2, WorkStep DEF LastSummaryArrives
  <2>3. CASE b
    BY <1>0, <1>8, <1>a, <1>b, <2>1, <2>3, CheckpointStep DEF LastSummaryArrives
  <2> QED
    BY <2>2, <2>3
<1>9. ASSUME CheckpointSecond PROVE CheckpointInv'
  BY <1>0, <1>9, WorkStep DEF CheckpointSecond, NoCheckpoint
<1> QED
  BY <1>1, <1>2, <1>3, <1>4, <1>5, <1>6, <1>7, <1>8, <1>9 DEF CheckpointNext

\* Of threads with rows one has saved last.
LEMMA LatestExists ==
  ASSUME CheckpointInv, NEW S, S \subseteq ThreadRows, S # {}
  PROVE  \E t \in S : \A u \in S \ {t} : MadeAfter(t, u)
<1> USE CheckpointAssumption
<1>1. /\ S \subseteq Threads /\ \A t \in S : HasRow(t)
      /\ \A t \in S : row[t].second \in 0..MaxSecond /\ rowids[t] \in 0..Cardinality(Threads)
      /\ Cardinality(Threads) \in Nat
  BY FS_CardinalityType DEF ThreadRows, CheckpointInv, CheckpointTypeOK
<1> DEFINE Seconds == {row[t].second : t \in S}
<1>2. Seconds \subseteq 0..MaxSecond /\ Seconds # {}
  BY <1>1
<1>3. PICK last \in Seconds : \A x \in Seconds : x <= last
  <2> HIDE DEF Seconds
  <2> QED
    BY <1>2, GreatestNumber
<1> DEFINE L == {t \in S : row[t].second = last}
           Ids == {rowids[t] : t \in L}
<1>4. Ids \subseteq 0..Cardinality(Threads) /\ Ids # {}
  BY <1>1
<1>5. PICK id \in Ids : \A x \in Ids : x <= id
  <2> HIDE DEF Ids
  <2> QED
    BY <1>1, <1>4, GreatestNumber
<1>6. PICK t \in L : rowids[t] = id
  OBVIOUS
<1>7. ASSUME NEW u \in S \ {t} PROVE MadeAfter(t, u)
  <2>1. row[u].second \in Seconds /\ row[u].second <= last /\ row[t].second = last
    BY <1>3
  <2>2. rowids[u] # rowids[t]
    BY <1>1 DEF CheckpointInv
  <2>3. CASE row[u].second = last
    <3>1. rowids[u] <= rowids[t]
      BY <1>5, <1>6, <2>3
    <3>2. rowids[u] \in Nat /\ rowids[t] \in Nat
      BY <1>1
    <3>3. rowids[t] > rowids[u]
      BY <2>2, <3>1, <3>2
    <3> QED
      BY <2>1, <2>3, <3>3 DEF MadeAfter
  <2>4. CASE row[u].second # last
    <3>1. row[u].second \in Nat /\ last \in Nat
      BY <1>1, <1>2
    <3>2. row[t].second > row[u].second
      BY <2>1, <2>4, <3>1
    <3> QED
      BY <3>2 DEF MadeAfter
  <2> QED
    BY <2>3, <2>4
<1> QED
  BY <1>7

\* The invariant is stronger than the types and the property.
LEMMA CheckpointSafe == CheckpointInv => CheckpointTypeOK /\ WarmStartsStay
<1> SUFFICES ASSUME CheckpointInv, NEW k \in stored \ moved PROVE LatestOf(k) # NoSummary
  BY DEF CheckpointInv, WarmStartsStay
<1>1. Synthesised(k) # {} /\ Synthesised(k) \subseteq ThreadRows
  BY DEF CheckpointInv, Synthesised, ThreadRows
<1> DEFINE t == CHOOSE t \in Synthesised(k) : \A u \in Synthesised(k) \ {t} : MadeAfter(t, u)
<1>2. t \in Synthesised(k)
  <2>1. \E x \in Synthesised(k) : \A u \in Synthesised(k) \ {x} : MadeAfter(x, u)
    BY <1>1, LatestExists
  <2> QED
    BY <2>1
<1>3. LatestOf(k) = row[t].summary
  BY <1>1 DEF LatestOf
<1> QED
  BY <1>2, <1>3 DEF Synthesised

-----------------------------------------------------------------------------
(***************************************************************************)
(* The stream of an answer (ChatStream).                                   *)
(***************************************************************************)

\* What a parser knows of a stream.
ParseState == [text : Seq(Nat), calls : [Indices -> Seq(Nat)], named : SUBSET Indices,
               finish : BOOLEAN, error : BOOLEAN]

\* The lines up to the k-th: those of text, those of call i, and the calls they name.
TextTo(k) == {n \in 1..k : wire[n].kind = "text"}
CallsTo(k, i) == {n \in 1..k : wire[n].kind = "call" /\ wire[n].index = i}
NamedTo(k) == {i \in Indices : \E n \in CallsTo(k, i) : wire[n].opens}

\* The parse state is that of the first k lines.
ReadTo(q, k) ==
  /\ q \in ParseState
  /\ InOrder(q.text, TextTo(k))
  /\ Parser # "gemini" => /\ \A i \in Indices : InOrder(q.calls[i], CallsTo(k, i))
                          /\ q.named = NamedTo(k)

\* A line that is later than all others is the last one.
LEMMA Appended ==
  ASSUME NEW k \in Nat, NEW s \in Seq(Nat), NEW S, S \subseteq 1..k, InOrder(s, S)
  PROVE  Append(s, k + 1) \in Seq(Nat) /\ InOrder(Append(s, k + 1), S \cup {k + 1})
<1> DEFINE t == Append(s, k + 1)
           l == Len(s)
<1>1. /\ t \in Seq(Nat) /\ l \in Nat /\ DOMAIN s = 1..l /\ DOMAIN t = 1..l + 1
      /\ \A i \in 1..l : t[i] = s[i]
      /\ t[l + 1] = k + 1
  OBVIOUS
<1>2. ToSet(s) = S /\ \A i, j \in 1..l : i < j => s[i] < s[j]
  BY <1>1 DEF InOrder
<1>3. \A i \in 1..l : s[i] \in S
  BY <1>1, <1>2 DEF ToSet
<1> HIDE DEF t, l
<1>4. ToSet(t) = S \cup {k + 1}
  <2>1. ASSUME NEW x \in ToSet(t) PROVE x \in S \cup {k + 1}
    <3>1. PICK i \in 1..l + 1 : x = t[i]
      BY <1>1 DEF ToSet
    <3>2. i \in 1..l \/ i = l + 1
      BY <1>1
    <3> QED
      BY <1>1, <1>3, <3>1, <3>2
  <2>2. ASSUME NEW x \in S PROVE x \in ToSet(t)
    <3>1. PICK i \in 1..l : x = s[i]
      BY <1>1, <1>2, <2>2 DEF ToSet
    <3>2. i \in 1..l + 1 /\ x = t[i]
      BY <1>1, <3>1
    <3> QED
      BY <1>1, <3>2 DEF ToSet
  <2>3. k + 1 \in ToSet(t)
    <3>1. l + 1 \in 1..l + 1
      BY <1>1
    <3> QED
      BY <1>1, <3>1 DEF ToSet
  <2> QED
    BY <2>1, <2>2, <2>3
<1>5. ASSUME NEW i \in 1..l + 1, NEW j \in 1..l + 1, i < j PROVE t[i] < t[j]
  <2>1. i \in 1..l /\ t[i] = s[i] /\ s[i] \in 1..k
    BY <1>1, <1>3, <1>5
  <2>2. CASE j \in 1..l
    BY <1>1, <1>2, <1>5, <2>1, <2>2
  <2>3. CASE j = l + 1
    BY <1>1, <2>1, <2>3
  <2> QED
    BY <1>1, <2>2, <2>3
<1> QED
  BY <1>1, <1>4, <1>5 DEF InOrder, t

\* What one more line adds.
LEMMA OneMoreLine ==
  ASSUME wire \in Seq(Lines), NEW k \in Nat, k + 1 \in 1..Len(wire)
  PROVE  /\ wire[k + 1] \in Lines /\ wire[k + 1].index \in Indices /\ wire[k + 1].opens \in BOOLEAN
         /\ TextTo(k + 1) = IF wire[k + 1].kind = "text" THEN TextTo(k) \cup {k + 1} ELSE TextTo(k)
         /\ \A i \in Indices :
              CallsTo(k + 1, i) = IF wire[k + 1].kind = "call" /\ wire[k + 1].index = i
                                  THEN CallsTo(k, i) \cup {k + 1} ELSE CallsTo(k, i)
         /\ NamedTo(k + 1) = IF wire[k + 1].kind = "call" /\ wire[k + 1].opens
                             THEN NamedTo(k) \cup {wire[k + 1].index} ELSE NamedTo(k)
         /\ TextTo(k) \subseteq 1..k /\ \A i \in Indices : CallsTo(k, i) \subseteq 1..k
<1>1. wire[k + 1] \in Lines
  OBVIOUS
<1>2. wire[k + 1].index \in Indices /\ wire[k + 1].opens \in BOOLEAN
  BY <1>1, ChatStreamAssumption DEF Indices
<1>3. \A n : n \in 1..k + 1 <=> n \in 1..k \/ n = k + 1
  OBVIOUS
<1>4. TextTo(k + 1) = IF wire[k + 1].kind = "text" THEN TextTo(k) \cup {k + 1} ELSE TextTo(k)
  BY <1>3 DEF TextTo
<1>5. ASSUME NEW i \in Indices
      PROVE  CallsTo(k + 1, i) = IF wire[k + 1].kind = "call" /\ wire[k + 1].index = i
                                 THEN CallsTo(k, i) \cup {k + 1} ELSE CallsTo(k, i)
  BY <1>3 DEF CallsTo
<1>6. NamedTo(k + 1) = IF wire[k + 1].kind = "call" /\ wire[k + 1].opens
                       THEN NamedTo(k) \cup {wire[k + 1].index} ELSE NamedTo(k)
  <2>1. CASE wire[k + 1].kind = "call" /\ wire[k + 1].opens
    BY <1>2, <1>5, <2>1 DEF NamedTo
  <2>2. CASE ~(wire[k + 1].kind = "call" /\ wire[k + 1].opens)
    BY <1>2, <1>5, <2>2 DEF NamedTo
  <2> QED
    BY <2>1, <2>2
<1>7. TextTo(k) \subseteq 1..k /\ \A i \in Indices : CallsTo(k, i) \subseteq 1..k
  BY DEF TextTo, CallsTo
<1> QED
  BY <1>1, <1>2, <1>4, <1>5, <1>6, <1>7

\* The fields of a parse state.
LEMMA ParseStateIs ==
  ASSUME NEW q \in ParseState
  PROVE  /\ q.text \in Seq(Nat) /\ q.calls \in [Indices -> Seq(Nat)] /\ q.named \in SUBSET Indices
         /\ \A i \in Indices : q.calls[i] \in Seq(Nat)
         /\ \A t \in Seq(Nat) : /\ [q EXCEPT !.text = t] \in ParseState
                                /\ [q EXCEPT !.text = t].text = t
                                /\ [q EXCEPT !.text = t].calls = q.calls
                                /\ [q EXCEPT !.text = t].named = q.named
         /\ \A b \in BOOLEAN : /\ [q EXCEPT !.finish = b] \in ParseState
                               /\ [q EXCEPT !.finish = b].text = q.text
                               /\ [q EXCEPT !.finish = b].calls = q.calls
                               /\ [q EXCEPT !.finish = b].named = q.named
                               /\ [q EXCEPT !.error = b] \in ParseState
                               /\ [q EXCEPT !.error = b].text = q.text
                               /\ [q EXCEPT !.error = b].calls = q.calls
                               /\ [q EXCEPT !.error = b].named = q.named
BY DEF ParseState

\* What r has more than q is line n, of a call.
HasCall(r, q, x, n) ==
  /\ r \in ParseState /\ r.text = q.text
  /\ Parser # "gemini" =>
       /\ r.calls[x.index] = Append(q.calls[x.index], n)
       /\ \A i \in Indices : i # x.index => r.calls[i] = q.calls[i]
       /\ r.named = IF x.opens THEN q.named \cup {x.index} ELSE q.named

\* A call is added to its own, and may be named.
LEMMA AddCallIs ==
  ASSUME NEW q \in ParseState, NEW x \in Lines, NEW n \in Nat
  PROVE  HasCall(IF Parser = "gemini" THEN GeminiCall(q, x, n) ELSE AddCall(q, x, n), q, x, n)
<1> DEFINE j == x.index
           c == IF Parser = "gemini" /\ q.calls[j] # <<>> THEN q.calls[j] ELSE Append(q.calls[j], n)
           m == IF x.opens \/ Parser = "gemini" THEN q.named \cup {j} ELSE q.named
           d == [q.calls EXCEPT ![j] = c]
           s == [q EXCEPT !.calls = d, !.named = m]
           r == IF Parser = "gemini" THEN GeminiCall(q, x, n) ELSE AddCall(q, x, n)
<1>1. j \in Indices
  BY DEF Indices
<1>2. q.calls[j] \in Seq(Nat) /\ q.calls \in [Indices -> Seq(Nat)] /\ q.named \in SUBSET Indices
  BY <1>1, ParseStateIs
<1>3. c \in Seq(Nat)
  BY <1>2
<1>4. m \in SUBSET Indices
  BY <1>1, <1>2
<1>5. r = s
  <2>1. CASE Parser = "gemini"
    BY <2>1 DEF GeminiCall
  <2>2. CASE Parser # "gemini"
    BY <2>2 DEF AddCall
  <2> QED
    BY <2>1, <2>2
<1>6. Parser # "gemini" => c = Append(q.calls[j], n)
  OBVIOUS
<1>7. Parser # "gemini" => m = IF x.opens THEN q.named \cup {j} ELSE q.named
  OBVIOUS
<1> HIDE DEF c, m
<1>8. d \in [Indices -> Seq(Nat)] /\ d[j] = c /\ \A i \in Indices : i # j => d[i] = q.calls[i]
  BY <1>1, <1>2, <1>3
<1> HIDE DEF d
<1>9. s \in ParseState /\ s.text = q.text /\ s.calls = d /\ s.named = m
  BY <1>4, <1>8 DEF ParseState
<1> HIDE DEF s, r
<1>10. HasCall(r, q, x, n)
  BY <1>5, <1>6, <1>7, <1>8, <1>9 DEF HasCall
<1> QED
  BY <1>10 DEF r

\* Parsing a line adds what it carries.
LEMMA ParseLineReads ==
  ASSUME wire \in Seq(Lines), NEW k \in Nat, k + 1 \in 1..Len(wire), NEW q, ReadTo(q, k)
  PROVE  ReadTo(Parse(q, k + 1), k + 1)
<1> DEFINE n == k + 1
           x == wire[n]
           r == Parse(q, n)
<1>1. /\ x \in Lines /\ x.index \in Indices /\ x.opens \in BOOLEAN
      /\ TextTo(n) = IF x.kind = "text" THEN TextTo(k) \cup {n} ELSE TextTo(k)
      /\ \A i \in Indices : CallsTo(n, i) = IF x.kind = "call" /\ x.index = i
                                            THEN CallsTo(k, i) \cup {n} ELSE CallsTo(k, i)
      /\ NamedTo(n) = IF x.kind = "call" /\ x.opens THEN NamedTo(k) \cup {x.index} ELSE NamedTo(k)
      /\ TextTo(k) \subseteq 1..k /\ \A i \in Indices : CallsTo(k, i) \subseteq 1..k
  BY OneMoreLine
<1>2. /\ q \in ParseState /\ InOrder(q.text, TextTo(k))
      /\ Parser # "gemini" => /\ \A i \in Indices : InOrder(q.calls[i], CallsTo(k, i))
                              /\ q.named = NamedTo(k)
  BY DEF ReadTo
<1>3. \A s \in Seq(Nat) : \A S : S \subseteq 1..k /\ InOrder(s, S) =>
        Append(s, n) \in Seq(Nat) /\ InOrder(Append(s, n), S \cup {n})
  BY Appended
<1>4. n \in Nat
  OBVIOUS
<1>5. r = CASE x.kind = "text"   -> [q EXCEPT !.text = Append(q.text, n)]
            [] x.kind = "call"   -> IF Parser = "gemini" THEN GeminiCall(q, x, n) ELSE AddCall(q, x, n)
            [] x.kind = "finish" -> [q EXCEPT !.finish = TRUE]
            [] x.kind = "error"  -> IF Parser = "openai" THEN q ELSE [q EXCEPT !.error = TRUE]
            [] OTHER -> q
  <2>1. CASE Parser = "openai"
    BY <2>1 DEF Parse, ParseOpenAI, ParseLine
  <2>2. CASE Parser = "gemini"
    BY <2>2 DEF Parse, ParseGemini, ParseLine
  <2>3. CASE Parser \notin {"openai", "gemini"}
    BY <2>3 DEF Parse, ParseLine
  <2> QED
    BY <2>1, <2>2, <2>3
<1> HIDE DEF n, x, r
<1>6. ASSUME x.kind = "text" PROVE ReadTo(r, n)
  <2>1. q.text \in Seq(Nat)
    BY <1>2, ParseStateIs
  <2>2. PICK t : t = Append(q.text, n)
    OBVIOUS
  <2>3. t \in Seq(Nat) /\ InOrder(t, TextTo(n))
    BY <1>1, <1>2, <1>3, <1>6, <2>1, <2>2
  <2>4. r = [q EXCEPT !.text = t]
    BY <1>5, <1>6, <2>2
  <2>5. r \in ParseState /\ r.text = t /\ r.calls = q.calls /\ r.named = q.named
    BY <1>2, <2>3, <2>4, ParseStateIs
  <2> QED
    BY <1>1, <1>2, <1>6, <2>3, <2>5 DEF ReadTo
<1>7. ASSUME x.kind = "call" PROVE ReadTo(r, n)
  <2>1. r = IF Parser = "gemini" THEN GeminiCall(q, x, n) ELSE AddCall(q, x, n)
    BY <1>5, <1>7
  <2>2. /\ r \in ParseState /\ r.text = q.text
        /\ Parser # "gemini" =>
             /\ r.calls[x.index] = Append(q.calls[x.index], n)
             /\ \A i \in Indices : i # x.index => r.calls[i] = q.calls[i]
             /\ r.named = IF x.opens THEN q.named \cup {x.index} ELSE q.named
    <3>1. HasCall(r, q, x, n)
      BY <1>1, <1>2, <1>4, <2>1, AddCallIs
    <3> QED
      BY <3>1 DEF HasCall
  <2>3. ASSUME Parser # "gemini", NEW i \in Indices PROVE InOrder(r.calls[i], CallsTo(n, i))
    <3>1. CASE i = x.index
      <4>1. q.calls[i] \in Seq(Nat)
        BY <1>2, ParseStateIs
      <4> QED
        BY <1>1, <1>2, <1>3, <1>7, <2>2, <2>3, <3>1, <4>1
    <3>2. CASE i # x.index
      BY <1>1, <1>2, <2>2, <2>3, <3>2
    <3> QED
      BY <3>1, <3>2
  <2>4. Parser # "gemini" => r.named = NamedTo(n)
    BY <1>1, <1>2, <1>7, <2>2
  <2>5. TextTo(n) = TextTo(k)
    BY <1>1, <1>7
  <2> QED
    BY <1>2, <2>2, <2>3, <2>4, <2>5 DEF ReadTo
<1>8. ASSUME x.kind \notin {"text", "call"} PROVE ReadTo(r, n)
  <2>1. r = q \/ \E b \in BOOLEAN : r = [q EXCEPT !.finish = b] \/ r = [q EXCEPT !.error = b]
    <3>1. CASE x.kind = "finish"
      <4>1. r = [q EXCEPT !.finish = TRUE]
        BY <1>5, <3>1
      <4> QED
        BY <4>1
    <3>2. CASE x.kind = "error"
      <4>1. r = q \/ r = [q EXCEPT !.error = TRUE]
        BY <1>5, <3>2
      <4> QED
        BY <4>1
    <3>3. CASE x.kind \notin {"finish", "error"}
      BY <1>5, <1>8, <3>3
    <3> QED
      BY <3>1, <3>2, <3>3
  <2>2. r \in ParseState /\ r.text = q.text /\ r.calls = q.calls /\ r.named = q.named
    <3>1. ASSUME NEW b \in BOOLEAN, r = [q EXCEPT !.finish = b] \/ r = [q EXCEPT !.error = b]
          PROVE  r \in ParseState /\ r.text = q.text /\ r.calls = q.calls /\ r.named = q.named
      BY <1>2, <3>1 DEF ParseState
    <3> QED
      BY <1>2, <2>1, <3>1
  <2> QED
    BY <1>1, <1>2, <1>8, <2>2 DEF ReadTo
<1>9. ReadTo(r, n)
  BY <1>6, <1>7, <1>8
<1> QED
  BY <1>9 DEF n, r

\* f has the parse state after each of the first m lines of those to parse.
AfterLine(lines, f, m) ==
  f = [n \in 0..m |-> IF n = 0 THEN parsed
                      ELSE IF n \in lines THEN Parse(f[n - 1], n) ELSE f[n - 1]]

\* There is such a function, for any number of lines.
LEMMA AfterLinesExists ==
  ASSUME NEW lines, NEW l \in Nat
  PROVE  \E f : AfterLine(lines, f, l)
<1> DEFINE St(q, n) == IF n \in lines THEN Parse(q, n) ELSE q
           Is(f, m) == f = [n \in 0..m |-> IF n = 0 THEN parsed ELSE St(f[n - 1], n)]
           Bad == {m \in Nat : ~\E f : Is(f, m)}
<1>1. \A f, m : AfterLine(lines, f, m) <=> Is(f, m)
  BY DEF AfterLine
<1> HIDE DEF St
<1>2. Bad = {}
  <2> SUFFICES ASSUME Bad # {} PROVE FALSE
    OBVIOUS
  <2>1. PICK m \in Bad : \A k \in Bad : m <= k
    <3>1. Bad \subseteq Nat
      OBVIOUS
    <3> HIDE DEF Bad
    <3> QED
      BY <3>1, LeastNumber
  <2>2. CASE m = 0
    <3>1. Is([n \in 0..0 |-> parsed], 0)
      OBVIOUS
    <3> QED
      BY <2>1, <2>2, <3>1
  <2>3. CASE m # 0
    <3>1. m \in Nat /\ m - 1 \in Nat /\ ~(m <= m - 1)
      BY <2>1, <2>3
    <3>2. m - 1 \notin Bad
      BY <2>1, <3>1
    <3>3. PICK f : Is(f, m - 1)
      BY <3>1, <3>2
    <3> DEFINE g == [n \in 0..m |-> IF n = m THEN St(f[m - 1], m) ELSE f[n]]
    <3>4. ASSUME NEW n \in 0..m PROVE g[n] = IF n = 0 THEN parsed ELSE St(g[n - 1], n)
      <4>1. CASE n = m
        <5>1. g[n] = St(f[m - 1], m) /\ m - 1 \in 0..m /\ m - 1 # m
          BY <3>1, <4>1
        <5>2. g[m - 1] = f[m - 1]
          BY <5>1
        <5> QED
          BY <2>3, <4>1, <5>1, <5>2
      <4>2. CASE n # m /\ n # 0
        <5>1. n \in 0..m - 1 /\ n - 1 \in 0..m /\ n - 1 # m
          BY <3>1, <4>2
        <5>2. g[n] = f[n] /\ g[n - 1] = f[n - 1]
          BY <4>2, <5>1
        <5>3. f[n] = St(f[n - 1], n)
          BY <3>3, <4>2, <5>1
        <5> QED
          BY <4>2, <5>2, <5>3
      <4>3. CASE n # m /\ n = 0
        <5>1. 0 \in 0..m - 1
          BY <3>1
        <5>2. f[0] = parsed
          BY <3>3, <5>1
        <5> QED
          BY <4>3, <5>2
      <4> QED
        BY <4>1, <4>2, <4>3
    <3>5. Is(g, m)
      <4>1. g = [n \in 0..m |-> g[n]]
        OBVIOUS
      <4> HIDE DEF g
      <4> QED
        BY <3>4, <4>1
    <3> QED
      BY <2>1, <3>5
  <2> QED
    BY <2>2, <2>3
<1> QED
  BY <1>1, <1>2

\* One of them is what the lines are parsed with.
LEMMA AllParsedIs ==
  ASSUME NEW lines, wire \in Seq(Lines)
  PROVE  \E f : AfterLine(lines, f, Len(wire)) /\ AllParsed(lines) = f[Len(wire)]
<1> DEFINE l == Len(wire)
           g == CHOOSE f : AfterLine(lines, f, l)
<1>1. l \in Nat
  OBVIOUS
<1>2. AfterLine(lines, g, l)
  <2> HIDE DEF l
  <2> QED
    BY <1>1, AfterLinesExists
<1>3. AllParsed(lines) = g[l]
  BY DEF AllParsed, AfterLine
<1> QED
  BY <1>2, <1>3

\* The number of whole lines among m marks.
LEMMA WholeLines ==
  ASSUME NEW m \in Nat
  PROVE  m \div 3 \in Nat /\ 3 * (m \div 3) <= m /\ m < 3 * (m \div 3) + 3
OBVIOUS

\* A chunk is parsed line by line: what is complete is added, in order.
LEMMA ChunkReads ==
  ASSUME wire \in Seq(Lines), NEW m \in Nat, NEW to \in Nat, m < to, to <= 3 * Len(wire),
         ReadTo(parsed, m \div 3)
  PROVE  ReadTo(AllParsed(CompleteIn(m, to)), to \div 3)
<1> DEFINE done == CompleteIn(m, to)
<1>1. PICK l : l = Len(wire) /\ l \in Nat
  OBVIOUS
<1>2. PICK k : k = m \div 3 /\ k \in Nat /\ 3 * k <= m /\ m < 3 * k + 3
  BY WholeLines
<1>3. PICK t : t = to \div 3 /\ t \in Nat /\ 3 * t <= to /\ to < 3 * t + 3
  BY WholeLines
<1>4. k <= t /\ t <= l
  BY <1>1, <1>2, <1>3
<1>5. \A n \in 1..l : n \in done <=> k < n /\ n <= t
  BY <1>1, <1>2, <1>3 DEF CompleteIn
<1>6. PICK f : AfterLine(done, f, l) /\ AllParsed(done) = f[l]
  BY <1>1, AllParsedIs
<1>7. f[0] = parsed /\ \A n \in 1..l : f[n] = IF n \in done THEN Parse(f[n - 1], n) ELSE f[n - 1]
  BY <1>1, <1>6 DEF AfterLine
<1>8. ReadTo(parsed, k)
  BY <1>2
<1> HIDE DEF done
<1> DEFINE Up(n) == IF n < k THEN k ELSE IF n > t THEN t ELSE n
           Bad == {n \in 0..l : ~ReadTo(f[n], Up(n))}
<1>9. Bad = {}
  <2> SUFFICES ASSUME Bad # {} PROVE FALSE
    OBVIOUS
  <2>1. PICK n \in Bad : \A j \in Bad : n <= j
    <3>1. Bad \subseteq Nat
      BY <1>1
    <3> HIDE DEF Bad
    <3> QED
      BY <3>1, LeastNumber
  <2>2. n \in 0..l /\ ~ReadTo(f[n], Up(n))
    BY <2>1
  <2>3. CASE n = 0
    <3>1. Up(0) = k
      <4>1. ~(0 > t) /\ (0 < k \/ k = 0)
        BY <1>2, <1>3
      <4> QED
        BY <1>2, <4>1
    <3> QED
      BY <1>7, <1>8, <2>2, <2>3, <3>1
  <2>4. CASE n # 0
    <3>1. n \in 1..l /\ n - 1 \in 0..l /\ ~(n <= n - 1)
      BY <1>1, <2>2, <2>4
    <3>2. ReadTo(f[n - 1], Up(n - 1))
      BY <2>1, <3>1
    <3>3. CASE k < n /\ n <= t
      <4>1. Up(n) = n /\ Up(n - 1) = n - 1 /\ n - 1 \in Nat /\ n - 1 + 1 = n
        BY <1>1, <1>2, <1>3, <3>1, <3>3
      <4>2. f[n] = Parse(f[n - 1], n)
        BY <1>5, <1>7, <3>1, <3>3
      <4>3. ReadTo(f[n - 1], n - 1)
        BY <3>2, <4>1
      <4>4. ReadTo(Parse(f[n - 1], n - 1 + 1), n - 1 + 1)
        <5>1. n - 1 + 1 \in 1..Len(wire)
          BY <1>1, <3>1, <4>1
        <5> QED
          BY <4>1, <4>3, <5>1, ParseLineReads
      <4> QED
        BY <2>2, <4>1, <4>2, <4>4
    <3>4. CASE ~(k < n /\ n <= t)
      <4>1. Up(n) = Up(n - 1)
        BY <1>1, <1>2, <1>3, <1>4, <3>1, <3>4
      <4>2. f[n] = f[n - 1]
        BY <1>5, <1>7, <3>1, <3>4
      <4> QED
        BY <2>2, <3>2, <4>1, <4>2
    <3> QED
      BY <3>3, <3>4
  <2> QED
    BY <2>3, <2>4
<1>10. l \in 0..l /\ Up(l) = t
  BY <1>1, <1>2, <1>3, <1>4
<1>11. ReadTo(f[l], t)
  BY <1>9, <1>10
<1> QED
  BY <1>3, <1>6, <1>11 DEF done

\* The inductive invariant: while the stream is read, the parse state is that of the lines
\* that are complete.
StreamInv ==
  /\ StreamTypeOK
  /\ ending = "reading" => ReadTo(parsed, marks \div 3)
  /\ ResultIsWhatArrived

\* Nothing is read at first.
LEMMA StreamInitInv == StreamInit => StreamInv
<1> SUFFICES ASSUME StreamInit PROVE StreamInv
  OBVIOUS
<1>1. family \in Families /\ keys \subseteq Direct /\ local \in BOOLEAN
  BY DEF StreamInit
<1>2. wire \in Seq(Lines)
  BY ChatStreamAssumption DEF StreamInit
<1>3. marks = 0 /\ parsed = Fresh /\ ending = "reading" /\ marks \div 3 = 0
  BY DEF StreamInit
<1>4. Fresh \in ParseState /\ Fresh.text = <<>> /\ Fresh.named = {} /\ \A i \in Indices : Fresh.calls[i] = <<>>
  BY DEF Fresh, ParseState
<1>5. TextTo(0) = {} /\ (\A i \in Indices : CallsTo(0, i) = {}) /\ NamedTo(0) = {}
  BY DEF TextTo, CallsTo, NamedTo
<1>6. InOrder(<<>>, {})
  BY DEF InOrder, ToSet
<1>7. ReadTo(Fresh, 0)
  BY <1>4, <1>5, <1>6 DEF ReadTo
<1>8. marks \in 0..(3 * Len(wire))
  BY <1>2, <1>3
<1>9. StreamTypeOK
  BY <1>1, <1>2, <1>3, <1>4, <1>8 DEF StreamTypeOK, ParseState
<1> QED
  BY <1>3, <1>7, <1>9 DEF StreamInv, ResultIsWhatArrived

\* A result of the lines up to the k-th.
Delivered(q, k) ==
  /\ q \in ParseState
  /\ InOrder(q.text, TextTo(k))
  /\ \A i \in Indices :
       CASE Parser = "gemini" -> TRUE
         [] Parser = "openrouter" /\ ~(\E n \in CallsTo(k, i) : wire[n].opens) -> q.calls[i] = <<>>
         [] OTHER -> InOrder(q.calls[i], CallsTo(k, i))

\* What the parser of openrouter.ts drains from its buffer is the line whose newline is missing.
LEMMA DrainedReads ==
  ASSUME wire \in Seq(Lines), marks \in 0..(3 * Len(wire)), ReadTo(parsed, marks \div 3)
  PROVE  ReadTo(Drained, Arrived)
<1>1. PICK m : m = marks /\ m \in Nat /\ m <= 3 * Len(wire)
  OBVIOUS
<1>2. PICK k : k = m \div 3 /\ k \in Nat /\ 3 * k <= m /\ m < 3 * k + 3
  BY <1>1, WholeLines
<1>3. m % 3 = m - 3 * k
  BY <1>1, <1>2
<1>4. PICK a : a = (m + 1) \div 3 /\ a \in Nat /\ 3 * a <= m + 1 /\ m + 1 < 3 * a + 3
  <2>1. m + 1 \in Nat
    BY <1>1
  <2> QED
    BY <2>1, WholeLines
<1>5. CASE Parser = "openrouter" /\ m % 3 = 2
  <2>1. a = k + 1 /\ k + 1 \in 1..Len(wire)
    BY <1>1, <1>2, <1>3, <1>4, <1>5
  <2>2. ReadTo(Parse(parsed, k + 1), k + 1)
    BY <1>1, <1>2, <2>1, ParseLineReads
  <2> QED
    BY <1>1, <1>2, <1>4, <1>5, <2>1, <2>2 DEF Drained, Arrived
<1>6. CASE Parser = "openrouter" /\ m % 3 # 2
  <2>1. a = k
    BY <1>1, <1>2, <1>3, <1>4, <1>6
  <2> QED
    BY <1>1, <1>2, <1>4, <1>6, <2>1 DEF Drained, Arrived
<1>7. CASE Parser # "openrouter"
  BY <1>7 DEF Drained, Arrived
<1> QED
  BY <1>5, <1>6, <1>7

\* The calls of a result are those that the lines name.
LEMMA NamedDelivers ==
  ASSUME NEW q, NEW k, ReadTo(q, k)
  PROVE  Delivered(Named(q), k)
<1>1. /\ q \in ParseState /\ InOrder(q.text, TextTo(k))
      /\ Parser # "gemini" => /\ \A i \in Indices : InOrder(q.calls[i], CallsTo(k, i))
                              /\ q.named = NamedTo(k)
  BY DEF ReadTo
<1>2. CASE Parser = "openrouter"
  <2> DEFINE c == [i \in Indices |-> IF i \in q.named THEN q.calls[i] ELSE <<>>]
             r == [q EXCEPT !.calls = c]
  <2>1. Named(q) = r
    BY <1>2 DEF Named
  <2>2. c \in [Indices -> Seq(Nat)]
    BY <1>1, ParseStateIs
  <2>3. \A i \in Indices : c[i] = IF i \in NamedTo(k) THEN q.calls[i] ELSE <<>>
    BY <1>1, <1>2
  <2> HIDE DEF c
  <2>4. r \in ParseState /\ r.text = q.text /\ r.calls = c
    BY <1>1, <2>2 DEF ParseState
  <2> HIDE DEF r
  <2>5. ASSUME NEW i \in Indices
        PROVE  IF \E n \in CallsTo(k, i) : wire[n].opens THEN InOrder(c[i], CallsTo(k, i)) ELSE c[i] = <<>>
    <3>1. i \in NamedTo(k) <=> \E n \in CallsTo(k, i) : wire[n].opens
      BY DEF NamedTo
    <3> QED
      BY <1>1, <1>2, <2>3, <3>1
  <2> QED
    BY <1>1, <1>2, <2>1, <2>4, <2>5 DEF Delivered
<1>3. CASE Parser # "openrouter"
  BY <1>1, <1>3 DEF Named, Delivered
<1> QED
  BY <1>2, <1>3

\* The invariant, of the variables that the other actions leave alone.
SameStream == family' = family /\ keys' = keys /\ local' = local /\ wire' = wire

\* The same lines are read in the same way.
LEMMA SameParser ==
  ASSUME SameStream
  PROVE  /\ Parser' = Parser
         /\ \A q, k : (ReadTo(q, k) <=> ReadTo(q, k)') /\ (Delivered(q, k) <=> Delivered(q, k)')
<1>1. Parser' = Parser
  BY DEF SameStream, Parser, Provider
<1>2. wire' = wire
  BY DEF SameStream
<1>3. ASSUME NEW q, NEW k
      PROVE  (ReadTo(q, k) <=> ReadTo(q, k)') /\ (Delivered(q, k) <=> Delivered(q, k)')
  BY <1>1, <1>2 DEF ReadTo, Delivered, TextTo, CallsTo, NamedTo
<1> QED
  BY <1>1, <1>3

\* What is delivered of the lines that arrived is a result.
LEMMA DeliveredResult ==
  ASSUME Delivered(parsed, Arrived)
  PROVE  ResultIsWhatArrived
<1>1. TextLines = TextTo(Arrived) /\ \A i : CallLines(i) = CallsTo(Arrived, i)
  BY DEF TextLines, CallLines, TextTo, CallsTo
<1>2. /\ InOrder(parsed.text, TextTo(Arrived))
      /\ \A i \in Indices :
           CASE Parser = "gemini" -> TRUE
             [] Parser = "openrouter" /\ ~(\E n \in CallsTo(Arrived, i) : wire[n].opens) -> parsed.calls[i] = <<>>
             [] OTHER -> InOrder(parsed.calls[i], CallsTo(Arrived, i))
  BY DEF Delivered
<1> QED
  BY <1>1, <1>2 DEF ResultIsWhatArrived

\* All steps of a request.
LEMMA StreamStep == StreamInv /\ [StreamNext]_streamVars => StreamInv'
<1> SUFFICES ASSUME StreamInv, [StreamNext]_streamVars PROVE StreamInv'
  OBVIOUS
<1>1. /\ family \in Families /\ keys \subseteq Direct /\ local \in BOOLEAN
      /\ wire \in Seq(Lines) /\ marks \in 0..(3 * Len(wire))
      /\ parsed \in ParseState
      /\ ending \in {"reading", "result", "error", "thrown"}
      /\ ending = "reading" => ReadTo(parsed, marks \div 3)
  BY DEF StreamInv, StreamTypeOK, ParseState
<1>2. ASSUME SameStream, marks' \in 0..(3 * Len(wire)), parsed' \in ParseState,
             ending' \in {"reading", "result", "error", "thrown"}
      PROVE  StreamTypeOK'
  BY <1>1, <1>2 DEF SameStream, StreamTypeOK, ParseState
<1>3. ASSUME NEW to \in 1..(3 * Len(wire)), ReadChunk(to) PROVE StreamInv'
  <2>1. /\ ending = "reading" /\ to > marks /\ marks' = to /\ SameStream /\ ending' = ending
        /\ parsed' = AllParsed(CompleteIn(marks, to))
    BY <1>3 DEF ReadChunk, SameStream
  <2>2. PICK m \in Nat : m = marks
    BY <1>1
  <2>3. to \in Nat /\ m < to /\ to <= 3 * Len(wire)
    BY <1>1, <2>1, <2>2
  <2>4. ReadTo(AllParsed(CompleteIn(m, to)), to \div 3)
    BY <1>1, <2>1, <2>2, <2>3, ChunkReads
  <2>5. PICK q : q = parsed' /\ ReadTo(q, to \div 3) /\ q \in ParseState
    BY <2>1, <2>2, <2>4 DEF ReadTo
  <2>6. ReadTo(q, to \div 3)'
    BY <2>1, <2>5, SameParser
  <2>7. ReadTo(parsed, marks \div 3)'
    BY <2>1, <2>5, <2>6
  <2>8. StreamTypeOK'
    BY <1>1, <1>2, <2>1, <2>3, <2>5
  <2> QED
    BY <2>1, <2>7, <2>8 DEF StreamInv, ResultIsWhatArrived
<1>4. ASSUME EndStream PROVE StreamInv'
  <2>1. /\ ending = "reading" /\ SameStream /\ marks' = marks /\ parsed' = Named(Drained)
        /\ ending' = IF Drained.error THEN "error" ELSE "result"
    BY <1>4 DEF EndStream, SameStream
  <2>2. ReadTo(Drained, Arrived)
    BY <1>1, <2>1, DrainedReads
  <2>3. PICK q, a : q = parsed' /\ a = Arrived /\ Delivered(q, a) /\ q \in ParseState
    BY <2>1, <2>2, NamedDelivers DEF Delivered
  <2>4. Delivered(q, a)' /\ Parser' = Parser
    BY <2>1, <2>3, SameParser
  <2>5. Arrived' = Arrived
    BY <2>1, <2>4 DEF Arrived
  <2>6. Delivered(parsed, Arrived)'
    BY <2>3, <2>4, <2>5
  <2>7. ResultIsWhatArrived'
    BY <2>6, DeliveredResult, PTL
  <2>8. StreamTypeOK'
    BY <1>1, <1>2, <2>1, <2>3
  <2> QED
    BY <2>1, <2>7, <2>8 DEF StreamInv
<1>5. ASSUME AbortStream PROVE StreamInv'
  <2>1. /\ ending = "reading" /\ SameStream /\ marks' = marks /\ parsed' = parsed
        /\ ending' \in {"thrown", "error", "result"}
        /\ Parser = "openrouter" => ending' = "thrown"
    BY <1>5 DEF AbortStream, SameStream
  <2>2. StreamTypeOK'
    BY <1>1, <1>2, <2>1
  <2>3. CASE Parser = "openrouter"
    BY <2>1, <2>2, <2>3 DEF StreamInv, ResultIsWhatArrived
  <2>4. CASE Parser # "openrouter"
    <3>1. PICK q, a : q = parsed /\ a = Arrived /\ ReadTo(q, a)
      BY <1>1, <2>1, <2>4 DEF Arrived
    <3>2. Named(q) = q
      BY <2>4 DEF Named
    <3>3. Delivered(q, a)
      BY <3>1, <3>2, NamedDelivers
    <3>4. Delivered(q, a)' /\ Parser' = Parser
      BY <2>1, <3>3, SameParser
    <3>5. Arrived' = Arrived
      BY <2>1, <3>4 DEF Arrived
    <3>6. Delivered(parsed, Arrived)'
      BY <2>1, <3>1, <3>4, <3>5
    <3>7. ResultIsWhatArrived'
      BY <3>6, DeliveredResult, PTL
    <3> QED
      BY <2>1, <2>2, <3>7 DEF StreamInv
  <2> QED
    BY <2>3, <2>4
<1>6. ASSUME BreakStream PROVE StreamInv'
  <2>1. /\ SameStream /\ marks' = marks /\ parsed' = parsed /\ ending' \in {"thrown", "error"}
    BY <1>6 DEF BreakStream, SameStream
  <2>2. StreamTypeOK'
    BY <1>1, <1>2, <2>1
  <2> QED
    BY <2>1, <2>2 DEF StreamInv, ResultIsWhatArrived
<1>7. ASSUME UNCHANGED streamVars PROVE StreamInv'
  <2>1. SameStream /\ marks' = marks /\ parsed' = parsed /\ ending' = ending
    BY <1>7 DEF streamVars, SameStream
  <2>2. StreamTypeOK'
    BY <1>1, <1>2, <2>1
  <2>3. ResultIsWhatArrived'
    BY <2>1 DEF SameStream, StreamInv, ResultIsWhatArrived, TextLines, CallLines, Arrived, Parser, Provider
  <2>4. (ending = "reading" => ReadTo(parsed, marks \div 3))'
    <3>1. PICK q, k : q = parsed /\ k = marks \div 3
      OBVIOUS
    <3>2. ending = "reading" => ReadTo(q, k)'
      BY <1>1, <2>1, <3>1, SameParser
    <3> QED
      BY <2>1, <3>1, <3>2
  <2> QED
    BY <2>2, <2>3, <2>4 DEF StreamInv
<1> QED
  BY <1>3, <1>4, <1>5, <1>6, <1>7 DEF StreamNext

-----------------------------------------------------------------------------
(***************************************************************************)
(* The memory (MemoryDb).                                                  *)
(***************************************************************************)

\* A distillation that has a batch has rows for it, and what they state is what its
\* summary is of; the master instruction states no fact.
MemInv ==
  /\ MemTypeOK
  /\ rows = [i \in DOMAIN rows |-> rows[i]]
  /\ \A i \in DOMAIN rows : rows[i].master => rows[i].facts = {}
  /\ \A r \in Runs : /\ batch[r] \subseteq DOMAIN rows
                     /\ stage[r] \in {"idle", "adding"} => batch[r] = {}
                     /\ stage[r] = "idle" => summary[r] = {}
                     /\ stage[r] = "asking" => \E item \in Item : summary[r] = {item}
                     /\ \A i \in batch[r] : rows[i].life # "expired" =>
                          \A f \in rows[i].facts : \E e \in summary[r] : f \in e.facts
  /\ NothingForgotten

\* What an entry that lives states, or a summary that has still to be added.
Stated(f) == \/ \E i \in DOMAIN rows : rows[i].life # "expired" /\ f \in rows[i].facts
             \/ \E r \in Runs : stage[r] = "adding" /\ \E e \in summary[r] : f \in e.facts

\* The property in terms of what is stated.
LEMMA NothingForgottenIs == NothingForgotten <=> \A f \in known : Stated(f)
  BY DEF NothingForgotten, Stating, Unsaved, Stated

\* Rows that are removed leave the others as they were.
LEMMA RowsWithout ==
  ASSUME NEW f, NEW ids
  PROVE  /\ DOMAIN Without(f, ids) = DOMAIN f \ ids
         /\ \A i \in DOMAIN f \ ids : Without(f, ids)[i] = f[i]
         /\ Without(f, ids) = [i \in DOMAIN f \ ids |-> f[i]]
  BY DEF Without, Restrict

\* A new row has a rowid of its own.
LEMMA NextIsNew ==
  ASSUME NEW S, S \subseteq Rowids
  PROVE  (IF S = {} THEN 1 ELSE Max(S) + 1) \notin S
<1>1. CASE S = {}
  BY <1>1
<1>2. CASE S # {}
  <2>1. S \subseteq 0..MaxRows /\ MaxRows \in Nat /\ S \subseteq Int
    BY MemoryDbAssumption DEF Rowids
  <2>2. \E n \in S : \A m \in S : m <= n
    BY <1>2, <2>1, GreatestNumber
  <2>3. \E n \in S : \A m \in S : n >= m
    BY <2>1, <2>2
  <2>4. Max(S) \in S /\ \A m \in S : Max(S) >= m
    BY <2>3 DEF Max
  <2>5. PICK m \in S : m = Max(S) /\ \A n \in S : m >= n
    BY <2>4
  <2>6. m + 1 \notin S
    <3>1. m \in Int /\ ~(m >= m + 1)
      BY <2>1
    <3> QED
      BY <2>5, <3>1
  <2> QED
    BY <1>2, <2>5, <2>6
<1> QED
  BY <1>1, <1>2

\* Nothing is known at first.
LEMMA MemInitInv == MemInit => MemInv
<1> SUFFICES ASSUME MemInit PROVE MemInv
  OBVIOUS
<1>1. DOMAIN rows = {}
  BY DEF MemInit
<1>2. rows = [i \in DOMAIN rows |-> rows[i]]
  BY DEF MemInit
<1>3. MemTypeOK
  BY <1>1 DEF MemInit, MemTypeOK
<1> QED
  BY <1>1, <1>2, <1>3 DEF MemInit, MemInv, NothingForgotten

\* Rows are removed, and with them at most what is no longer known.
LEMMA RemovalStep ==
  ASSUME MemInv, NEW ids,
         rows' = Without(rows, ids), batch' = [r \in Runs |-> batch[r] \ ids],
         UNCHANGED <<stage, summary>>, known' \subseteq known,
         \A i \in DOMAIN rows \cap ids : rows[i].life # "expired" => \A f \in rows[i].facts : f \notin known'
  PROVE  MemInv'
<1>1. /\ DOMAIN rows' = DOMAIN rows \ ids
      /\ \A i \in DOMAIN rows' : rows'[i] = rows[i]
      /\ rows' = [i \in DOMAIN rows' |-> rows'[i]]
  <2>1. DOMAIN rows' = DOMAIN rows \ ids /\ rows' = [i \in DOMAIN rows \ ids |-> rows[i]]
    BY RowsWithout
  <2> QED
    BY <2>1
<1>2. batch' \in [Runs -> SUBSET Rowids] /\ \A r \in Runs : batch'[r] = batch[r] \ ids
  BY DEF MemInv, MemTypeOK
<1>3. MemTypeOK'
  BY <1>1, <1>2 DEF MemInv, MemTypeOK
<1>4. ASSUME NEW f \in known' PROVE Stated(f)'
  <2>1. Stated(f)
    BY NothingForgottenIs DEF MemInv
  <2> QED
    BY <1>1, <2>1 DEF Stated
<1>5. NothingForgotten'
  BY <1>4 DEF NothingForgotten, Stating, Unsaved, Stated
<1>6. \A r \in Runs : /\ batch'[r] \subseteq DOMAIN rows'
                      /\ stage'[r] \in {"idle", "adding"} => batch'[r] = {}
                      /\ stage'[r] = "idle" => summary'[r] = {}
                      /\ stage'[r] = "asking" => \E item \in Item : summary'[r] = {item}
                      /\ \A i \in batch'[r] : rows'[i].life # "expired" =>
                           \A f \in rows'[i].facts : \E e \in summary'[r] : f \in e.facts
  BY <1>1, <1>2 DEF MemInv
<1> QED
  BY <1>1, <1>3, <1>5, <1>6 DEF MemInv

\* An entry is added, by the tool or from a summary.
LEMMA InsertionStep ==
  ASSUME MemInv, NEW entry \in Row, Insert(entry), ~entry.master, entry.life # "expired", batch' = batch,
         known' \subseteq known \cup entry.facts,
         \/ UNCHANGED <<stage, summary>>
         \/ \E r \in Runs : \E e \in summary[r] :
              /\ stage[r] = "adding" /\ e.facts = entry.facts
              /\ summary' = [summary EXCEPT ![r] = summary[r] \ {e}]
              /\ stage' = [stage EXCEPT ![r] = IF summary[r] = {e} THEN "idle" ELSE "adding"]
  PROVE  MemInv'
<1> DEFINE new == NextRowid
<1>1. /\ new \in Rowids /\ new \notin DOMAIN rows
      /\ DOMAIN rows' = DOMAIN rows \cup {new} /\ rows'[new] = entry
      /\ \A i \in DOMAIN rows : rows'[i] = rows[i]
      /\ rows' = [i \in DOMAIN rows' |-> rows'[i]]
  <2>1. new \in Rowids /\ rows' = With(rows, new, entry)
    BY DEF Insert
  <2>2. new \notin DOMAIN rows
    BY NextIsNew DEF NextRowid, MemInv, MemTypeOK
  <2>3. rows' = [i \in DOMAIN rows \cup {new} |-> IF i = new THEN entry ELSE rows[i]]
    BY <2>1 DEF With
  <2> HIDE DEF new
  <2>4. DOMAIN rows' = DOMAIN rows \cup {new} /\ rows'[new] = entry
    BY <2>3
  <2>5. \A i \in DOMAIN rows : rows'[i] = rows[i]
    BY <2>2, <2>3
  <2>6. rows' = [i \in DOMAIN rows' |-> rows'[i]]
    BY <2>3
  <2> QED
    BY <2>1, <2>2, <2>4, <2>5, <2>6
<1> HIDE DEF new
<1>2. /\ stage' \in [Runs -> {"idle", "asking", "deleting", "adding"}]
      /\ summary' \in [Runs -> SUBSET Item]
      /\ \A r \in Runs : \/ stage'[r] = stage[r] /\ summary'[r] = summary[r]
                         \/ /\ stage[r] = "adding" /\ stage'[r] \in {"idle", "adding"}
                            /\ summary'[r] \subseteq summary[r]
                            /\ stage'[r] = "idle" => summary'[r] = {}
                            /\ \A e \in summary[r] \ summary'[r] : e.facts = entry.facts
  <2>1. CASE UNCHANGED <<stage, summary>>
    BY <2>1 DEF MemInv, MemTypeOK
  <2>2. ASSUME NEW r \in Runs, NEW e \in summary[r],
               stage[r] = "adding", e.facts = entry.facts,
               summary' = [summary EXCEPT ![r] = summary[r] \ {e}],
               stage' = [stage EXCEPT ![r] = IF summary[r] = {e} THEN "idle" ELSE "adding"]
        PROVE  /\ stage' \in [Runs -> {"idle", "asking", "deleting", "adding"}]
               /\ summary' \in [Runs -> SUBSET Item]
               /\ \A q \in Runs : \/ stage'[q] = stage[q] /\ summary'[q] = summary[q]
                                  \/ /\ stage[q] = "adding" /\ stage'[q] \in {"idle", "adding"}
                                     /\ summary'[q] \subseteq summary[q]
                                     /\ stage'[q] = "idle" => summary'[q] = {}
                                     /\ \A d \in summary[q] \ summary'[q] : d.facts = entry.facts
    <3>1. /\ stage \in [Runs -> {"idle", "asking", "deleting", "adding"}]
          /\ summary \in [Runs -> SUBSET Item]
      BY DEF MemInv, MemTypeOK
    <3>2. /\ summary'[r] = summary[r] \ {e} /\ \A q \in Runs \ {r} : summary'[q] = summary[q]
          /\ stage'[r] = IF summary[r] = {e} THEN "idle" ELSE "adding"
          /\ \A q \in Runs \ {r} : stage'[q] = stage[q]
      BY <2>2, <3>1
    <3>3. /\ stage' \in [Runs -> {"idle", "asking", "deleting", "adding"}]
          /\ summary' \in [Runs -> SUBSET Item]
      BY <2>2, <3>1
    <3>4. stage'[r] = "idle" => summary'[r] = {}
      BY <3>2
    <3> QED
      BY <2>2, <3>2, <3>3, <3>4
  <2> QED
    BY <2>1, <2>2
<1>3. MemTypeOK'
  BY <1>1, <1>2 DEF MemInv, MemTypeOK, Row
<1>4. ASSUME NEW f \in known' PROVE Stated(f)'
  <2>1. CASE f \in entry.facts
    BY <1>1, <2>1 DEF Stated
  <2>2. CASE f \notin entry.facts
    <3>1. Stated(f)
      BY <2>2, NothingForgottenIs DEF MemInv
    <3>2. CASE \E i \in DOMAIN rows : rows[i].life # "expired" /\ f \in rows[i].facts
      BY <1>1, <3>2 DEF Stated
    <3>3. ASSUME NEW r \in Runs, stage[r] = "adding", NEW e \in summary[r], f \in e.facts
          PROVE  Stated(f)'
      <4>1. e \in summary'[r]
        BY <1>2, <2>2, <3>3
      <4>2. stage'[r] = "adding"
        BY <1>2, <3>3, <4>1
      <4> QED
        BY <3>3, <4>1, <4>2 DEF Stated
    <3> QED
      BY <3>1, <3>2, <3>3 DEF Stated
  <2> QED
    BY <2>1, <2>2
<1>5. NothingForgotten'
  BY <1>4 DEF NothingForgotten, Stating, Unsaved, Stated
<1>6. \A i \in DOMAIN rows' : rows'[i].master => rows'[i].facts = {}
  BY <1>1 DEF MemInv
<1>7. ASSUME NEW r \in Runs
      PROVE  /\ batch'[r] \subseteq DOMAIN rows'
             /\ stage'[r] \in {"idle", "adding"} => batch'[r] = {}
             /\ stage'[r] = "idle" => summary'[r] = {}
             /\ stage'[r] = "asking" => \E item \in Item : summary'[r] = {item}
             /\ \A i \in batch'[r] : rows'[i].life # "expired" =>
                  \A f \in rows'[i].facts : \E e \in summary'[r] : f \in e.facts
  <2>1. CASE stage'[r] = stage[r] /\ summary'[r] = summary[r]
    BY <1>1, <2>1 DEF MemInv
  <2>2. CASE ~(stage'[r] = stage[r] /\ summary'[r] = summary[r])
    <3>1. batch[r] = {} /\ stage'[r] \in {"idle", "adding"} /\ (stage'[r] = "idle" => summary'[r] = {})
      BY <1>2, <2>2 DEF MemInv
    <3> QED
      BY <3>1
  <2> QED
    BY <2>1, <2>2
<1> QED
  BY <1>1, <1>3, <1>5, <1>6, <1>7 DEF MemInv

\* A distillation goes on to another stage, with a batch that its summary covers.
LEMMA StageStep ==
  ASSUME MemInv, NEW r \in Runs, rows' = rows, known' \subseteq known,
         stage' \in [Runs -> {"idle", "asking", "deleting", "adding"}],
         batch' \in [Runs -> SUBSET Rowids], summary' \in [Runs -> SUBSET Item],
         \A q \in Runs \ {r} : stage'[q] = stage[q] /\ batch'[q] = batch[q] /\ summary'[q] = summary[q],
         batch'[r] \subseteq DOMAIN rows,
         stage'[r] \in {"idle", "adding"} => batch'[r] = {},
         stage'[r] = "idle" => summary'[r] = {},
         stage'[r] = "asking" => \E item \in Item : summary'[r] = {item},
         \A i \in batch'[r] : rows[i].life # "expired" =>
           \A f \in rows[i].facts : \E e \in summary'[r] : f \in e.facts,
         stage[r] = "adding" => \A e \in summary[r] : \A f \in e.facts :
            f \in known' => \/ \E i \in DOMAIN rows : rows[i].life # "expired" /\ f \in rows[i].facts
                            \/ \E q \in Runs \ {r} : stage[q] = "adding" /\ \E d \in summary[q] : f \in d.facts
  PROVE  MemInv'
<1>2. MemTypeOK'
  BY DEF MemInv, MemTypeOK
<1>3. ASSUME NEW f \in known' PROVE Stated(f)'
  <2>1. Stated(f)
    BY NothingForgottenIs DEF MemInv
  <2>2. CASE \E i \in DOMAIN rows : rows[i].life # "expired" /\ f \in rows[i].facts
    BY <2>2 DEF Stated
  <2>3. CASE \E q \in Runs \ {r} : stage[q] = "adding" /\ \E d \in summary[q] : f \in d.facts
    BY <2>3 DEF Stated
  <2>4. CASE stage[r] = "adding" /\ \E e \in summary[r] : f \in e.facts
    BY <2>2, <2>3, <2>4
  <2> QED
    BY <2>1, <2>2, <2>3, <2>4 DEF Stated
<1>4. NothingForgotten'
  BY <1>3 DEF NothingForgotten, Stating, Unsaved, Stated
<1>5. ASSUME NEW q \in Runs
      PROVE  /\ batch'[q] \subseteq DOMAIN rows
             /\ stage'[q] \in {"idle", "adding"} => batch'[q] = {}
             /\ stage'[q] = "idle" => summary'[q] = {}
             /\ stage'[q] = "asking" => \E item \in Item : summary'[q] = {item}
             /\ \A i \in batch'[q] : rows[i].life # "expired" =>
                  \A f \in rows[i].facts : \E e \in summary'[q] : f \in e.facts
  <2>1. CASE q = r
    BY <2>1
  <2>2. CASE q # r
    BY <2>2 DEF MemInv
  <2> QED
    BY <2>1, <2>2
<1> QED
  BY <1>2, <1>4, <1>5 DEF MemInv

\* A new master instruction takes the place of the one there was.
LEMMA MasterStep ==
  ASSUME MemInv, SetMaster
  PROVE  MemInv'
<1> DEFINE old == {i \in DOMAIN rows : rows[i].master}
           rest == Without(rows, old)
           new == IF DOMAIN rest = {} THEN 1 ELSE Max(DOMAIN rest) + 1
           entry == [facts |-> {}, importance |-> 3, life |-> "forever", master |-> TRUE]
<1>1. /\ new \in Rowids /\ rows' = With(rest, new, entry)
      /\ batch' = [r \in Runs |-> batch[r] \ old]
      /\ UNCHANGED <<stage, summary, known>>
  BY DEF SetMaster, BatchesWithout
<1> HIDE DEF old
<1>2. DOMAIN rest = DOMAIN rows \ old /\ \A i \in DOMAIN rest : rest[i] = rows[i]
  BY DEF Without, Restrict
<1> HIDE DEF rest
<1>3. new \notin DOMAIN rest
  BY <1>2, NextIsNew DEF MemInv, MemTypeOK
<1> HIDE DEF new
<1>4. entry \in Row /\ entry.facts = {} /\ entry.master
  BY DEF Row, Importance, Lives
<1> HIDE DEF entry
<1>5. rows' = [i \in DOMAIN rest \cup {new} |-> IF i = new THEN entry ELSE rest[i]]
  BY <1>1 DEF With
<1>6. DOMAIN rows' = DOMAIN rest \cup {new} /\ rows'[new] = entry
  BY <1>5
<1>7. \A i \in DOMAIN rest : rows'[i] = rows[i]
  BY <1>2, <1>3, <1>5
<1>8. rows' = [i \in DOMAIN rows' |-> rows'[i]]
  BY <1>5
<1>9. /\ batch' \in [Runs -> SUBSET Rowids]
      /\ \A r \in Runs : batch'[r] = batch[r] \ old
  BY <1>1 DEF MemInv, MemTypeOK
<1>10. MemTypeOK'
  BY <1>1, <1>2, <1>4, <1>6, <1>7, <1>9 DEF MemInv, MemTypeOK
<1>11. ASSUME NEW f \in known' PROVE Stated(f)'
  <2>1. Stated(f)
    BY <1>1, NothingForgottenIs DEF MemInv
  <2>2. \A i \in DOMAIN rows : f \in rows[i].facts => i \in DOMAIN rest
    BY <1>2 DEF MemInv, old
  <2> QED
    BY <1>1, <1>6, <1>7, <2>1, <2>2 DEF Stated
<1>12. NothingForgotten'
  BY <1>11 DEF NothingForgotten, Stating, Unsaved, Stated
<1>13. \A i \in DOMAIN rows' : rows'[i].master => rows'[i].facts = {}
  BY <1>2, <1>4, <1>6, <1>7 DEF MemInv
<1>14. \A r \in Runs : /\ batch'[r] \subseteq DOMAIN rest /\ batch'[r] \subseteq batch[r]
                       /\ stage'[r] = stage[r] /\ summary'[r] = summary[r]
  BY <1>1, <1>2, <1>9 DEF MemInv
<1>15. \A r \in Runs : /\ batch'[r] \subseteq DOMAIN rows'
                       /\ stage'[r] \in {"idle", "adding"} => batch'[r] = {}
                       /\ stage'[r] = "idle" => summary'[r] = {}
                       /\ stage'[r] = "asking" => \E item \in Item : summary'[r] = {item}
                       /\ \A i \in batch'[r] : rows'[i].life # "expired" =>
                            \A f \in rows'[i].facts : \E e \in summary'[r] : f \in e.facts
  BY <1>6, <1>7, <1>14 DEF MemInv
<1> QED
  BY <1>8, <1>10, <1>12, <1>13, <1>15 DEF MemInv

\* The time to live of an entry is over; what only it states is not known any more.
LEMMA ExpiryStep ==
  ASSUME MemInv, NEW i, TimePasses(i)
  PROVE  MemInv'
<1> DEFINE entry == [rows[i] EXCEPT !.life = "expired"]
           others == Without(rows, {i})
<1>1. i \in DOMAIN rows /\ rows[i] \in Row
  BY DEF TimePasses, MemInv, MemTypeOK
<1>2. /\ entry \in Row /\ entry.facts = rows[i].facts /\ entry.life = "expired"
      /\ entry.master = rows[i].master
  BY <1>1 DEF Row, Lives
<1>3. /\ rows' = [rows EXCEPT ![i] = entry]
      /\ known' = known \ (rows[i].facts \ (Stating(others) \cup UNION {Unsaved(r) : r \in Runs}))
      /\ UNCHANGED <<stage, batch, summary>>
  BY DEF TimePasses
<1> HIDE DEF entry
<1>4. /\ DOMAIN rows' = DOMAIN rows /\ rows'[i] = entry
      /\ \A j \in DOMAIN rows \ {i} : rows'[j] = rows[j]
      /\ rows' = [j \in DOMAIN rows' |-> rows'[j]]
  BY <1>1, <1>3
<1>5. DOMAIN others = DOMAIN rows \ {i} /\ \A j \in DOMAIN others : others[j] = rows[j]
  BY DEF Without, Restrict
<1> HIDE DEF others
<1>6. MemTypeOK'
  BY <1>2, <1>3, <1>4 DEF MemInv, MemTypeOK
<1>7. ASSUME NEW f \in known' PROVE Stated(f)'
  <2>1. Stated(f)
    BY <1>3, NothingForgottenIs DEF MemInv
  <2>2. CASE \E r \in Runs : stage[r] = "adding" /\ \E e \in summary[r] : f \in e.facts
    BY <1>3, <2>2 DEF Stated
  <2>3. CASE \E j \in DOMAIN rows \ {i} : rows[j].life # "expired" /\ f \in rows[j].facts
    BY <1>4, <2>3 DEF Stated
  <2>4. CASE f \in rows[i].facts
    <3>1. f \in Stating(others) \/ \E r \in Runs : f \in Unsaved(r)
      BY <1>3, <2>4
    <3>2. CASE f \in Stating(others)
      BY <1>5, <2>3, <3>2 DEF Stating
    <3>3. CASE \E r \in Runs : f \in Unsaved(r)
      BY <2>2, <3>3 DEF Unsaved
    <3> QED
      BY <3>1, <3>2, <3>3
  <2> QED
    BY <2>1, <2>2, <2>3, <2>4 DEF Stated
<1>8. NothingForgotten'
  BY <1>7 DEF NothingForgotten, Stating, Unsaved, Stated
<1>9. \A j \in DOMAIN rows' : /\ rows'[j].master => rows'[j].facts = {}
                              /\ rows'[j].facts = rows[j].facts
                              /\ rows'[j].life # "expired" => rows[j].life # "expired"
  BY <1>2, <1>4 DEF MemInv
<1>10. \A j \in DOMAIN rows' : rows'[j].master => rows'[j].facts = {}
  BY <1>9
<1>11. ASSUME NEW r \in Runs
       PROVE  /\ batch'[r] \subseteq DOMAIN rows'
              /\ stage'[r] \in {"idle", "adding"} => batch'[r] = {}
              /\ stage'[r] = "idle" => summary'[r] = {}
              /\ stage'[r] = "asking" => \E item \in Item : summary'[r] = {item}
              /\ \A j \in batch'[r] : rows'[j].life # "expired" =>
                   \A f \in rows'[j].facts : \E e \in summary'[r] : f \in e.facts
  <2>1. /\ batch[r] \subseteq DOMAIN rows
        /\ stage[r] \in {"idle", "adding"} => batch[r] = {}
        /\ stage[r] = "idle" => summary[r] = {}
        /\ stage[r] = "asking" => \E item \in Item : summary[r] = {item}
        /\ \A j \in batch[r] : rows[j].life # "expired" =>
             \A f \in rows[j].facts : \E e \in summary[r] : f \in e.facts
    BY DEF MemInv
  <2>2. \A j \in batch[r] : rows'[j].life # "expired" =>
          \A f \in rows'[j].facts : \E e \in summary[r] : f \in e.facts
    BY <1>4, <1>9, <2>1
  <2> QED
    BY <1>3, <1>4, <2>1, <2>2
<1> QED
  BY <1>4, <1>6, <1>8, <1>10, <1>11 DEF MemInv

\* A batch is deleted; what it states, the summary that is added next states too.
LEMMA DeletionStep ==
  ASSUME MemInv, NEW r \in Runs, stage[r] = "deleting",
         stage' = [stage EXCEPT ![r] = "adding"], rows' = Without(rows, batch[r]),
         batch' = [q \in Runs |-> IF q = r THEN {} ELSE batch[q] \ batch[r]],
         UNCHANGED <<summary, known>>
  PROVE  MemInv'
<1>1. /\ DOMAIN rows' = DOMAIN rows \ batch[r]
      /\ \A i \in DOMAIN rows' : rows'[i] = rows[i]
      /\ rows' = [i \in DOMAIN rows' |-> rows'[i]]
  <2>1. DOMAIN rows' = DOMAIN rows \ batch[r] /\ rows' = [i \in DOMAIN rows \ batch[r] |-> rows[i]]
    BY RowsWithout
  <2> QED
    BY <2>1
<1>2. /\ stage' \in [Runs -> {"idle", "asking", "deleting", "adding"}] /\ stage'[r] = "adding"
      /\ batch' \in [Runs -> SUBSET Rowids] /\ batch'[r] = {}
      /\ \A q \in Runs \ {r} : stage'[q] = stage[q] /\ batch'[q] = batch[q] \ batch[r]
  BY DEF MemInv, MemTypeOK
<1>3. MemTypeOK'
  BY <1>1, <1>2 DEF MemInv, MemTypeOK
<1>4. ASSUME NEW f \in known' PROVE Stated(f)'
  <2>1. Stated(f)
    BY NothingForgottenIs DEF MemInv
  <2>2. CASE \E i \in batch[r] : rows[i].life # "expired" /\ f \in rows[i].facts
    BY <1>2, <2>2 DEF Stated, MemInv
  <2>3. CASE \E i \in DOMAIN rows \ batch[r] : rows[i].life # "expired" /\ f \in rows[i].facts
    BY <1>1, <2>3 DEF Stated
  <2>4. CASE \E q \in Runs : stage[q] = "adding" /\ \E e \in summary[q] : f \in e.facts
    BY <1>2, <2>4 DEF Stated
  <2> QED
    BY <2>1, <2>2, <2>3, <2>4 DEF Stated
<1>5. NothingForgotten'
  BY <1>4 DEF NothingForgotten, Stating, Unsaved, Stated
<1>6. ASSUME NEW q \in Runs
      PROVE  /\ batch'[q] \subseteq DOMAIN rows'
             /\ stage'[q] \in {"idle", "adding"} => batch'[q] = {}
             /\ stage'[q] = "idle" => summary'[q] = {}
             /\ stage'[q] = "asking" => \E item \in Item : summary'[q] = {item}
             /\ \A i \in batch'[q] : rows'[i].life # "expired" =>
                  \A f \in rows'[i].facts : \E e \in summary'[q] : f \in e.facts
  <2>1. CASE q = r
    BY <1>2, <2>1
  <2>2. CASE q # r
    BY <1>1, <1>2, <2>2 DEF MemInv
  <2> QED
    BY <2>1, <2>2
<1> QED
  BY <1>1, <1>3, <1>5, <1>6 DEF MemInv

\* All steps of the tool and of the distillations.
LEMMA MemStep == MemInv /\ [MemNext]_memVars => MemInv'
<1> SUFFICES ASSUME MemInv, [MemNext]_memVars PROVE MemInv'
  OBVIOUS
<1>1. ASSUME NEW f \in Facts, NEW importance \in Levels, NEW life \in {"forever", "ttl"},
             AddEntry(f, importance, life)
      PROVE  MemInv'
  <2> DEFINE entry == [facts |-> {f}, importance |-> importance, life |-> life, master |-> FALSE]
  <2>1. entry \in Row /\ entry.facts = {f} /\ ~entry.master /\ entry.life # "expired"
    BY MemoryDbAssumption DEF Row, Importance, Lives
  <2>2. Insert(entry) /\ known' = known \cup {f} /\ UNCHANGED <<stage, batch, summary>>
    BY <1>1 DEF AddEntry
  <2> HIDE DEF entry
  <2> QED
    BY <2>1, <2>2, InsertionStep
<1>2. ASSUME NEW i \in Rowids, RemoveEntry(i) PROVE MemInv'
  <2>1. /\ i \in DOMAIN rows /\ rows' = Without(rows, {i})
        /\ batch' = [r \in Runs |-> batch[r] \ {i}]
        /\ known' = known \ rows[i].facts /\ UNCHANGED <<stage, summary>>
    BY <1>2 DEF RemoveEntry, RemoveRows, BatchesWithout
  <2> QED
    BY <2>1, RemovalStep
<1>3. ASSUME NEW i \in Rowids, TimePasses(i) PROVE MemInv'
  BY <1>3, ExpiryStep
<1>4. CASE SetMaster
  BY <1>4, MasterStep
<1>5. CASE ClearMemory
  <2>1. /\ rows' = Without(rows, DOMAIN rows)
        /\ batch' = [r \in Runs |-> batch[r] \ DOMAIN rows]
        /\ known' = {} /\ UNCHANGED <<stage, summary>>
    BY <1>5 DEF ClearMemory, RemoveRows, BatchesWithout
  <2> QED
    BY <2>1, RemovalStep
<1>6. CASE LoadStore
  <2> DEFINE ids == {i \in DOMAIN rows : rows[i].life = "expired"}
  <2>1. /\ rows' = Without(rows, ids)
        /\ batch' = [r \in Runs |-> batch[r] \ ids]
        /\ UNCHANGED <<stage, summary, known>>
    BY <1>6 DEF LoadStore, RemoveRows, BatchesWithout
  <2>2. \A i \in DOMAIN rows \cap ids : rows[i].life = "expired"
    OBVIOUS
  <2> HIDE DEF ids
  <2> QED
    BY <2>1, <2>2, RemovalStep
<1>7. ASSUME NEW r \in Runs, StartDistillation(r) PROVE MemInv'
  <2> DEFINE facts == Stating(Restrict(rows, ToDistill))
             item == [facts |-> facts, importance |-> 2]
  <2>1. ToDistill \subseteq DOMAIN rows
    BY DEF ToDistill, Candidates
  <2>2. \A i \in ToDistill : rows[i].life # "expired" => rows[i].facts \subseteq facts
    BY <2>1 DEF Stating, Restrict
  <2>3. facts \subseteq Facts
    <3>1. \A i \in ToDistill : rows[i] \in Row
      BY <2>1 DEF MemInv, MemTypeOK
    <3>2. \A i \in ToDistill : rows[i].facts \subseteq Facts
      BY <3>1 DEF Row
    <3> QED
      BY <3>2 DEF Stating, Restrict
  <2>4. /\ rows' = rows /\ known' = known /\ stage[r] = "idle"
        /\ stage' = [stage EXCEPT ![r] = "asking"]
        /\ batch' = [batch EXCEPT ![r] = ToDistill]
        /\ summary' = [summary EXCEPT ![r] = {item}]
    BY <1>7 DEF StartDistillation
  <2> HIDE DEF facts
  <2>5. item \in Item /\ item.facts = facts
    BY <2>3 DEF Item, Importance
  <2> HIDE DEF item
  <2>6. ToDistill \in SUBSET Rowids /\ {item} \in SUBSET Item
    BY <2>1, <2>5 DEF MemInv, MemTypeOK
  <2>7. \A i \in ToDistill : rows[i].life # "expired" =>
          \A f \in rows[i].facts : \E e \in {item} : f \in e.facts
    BY <2>2, <2>5
  <2>8. /\ stage' \in [Runs -> {"idle", "asking", "deleting", "adding"}] /\ stage'[r] = "asking"
        /\ batch' \in [Runs -> SUBSET Rowids] /\ batch'[r] = ToDistill
        /\ summary' \in [Runs -> SUBSET Item] /\ summary'[r] = {item}
        /\ \A q \in Runs \ {r} : stage'[q] = stage[q] /\ batch'[q] = batch[q] /\ summary'[q] = summary[q]
    BY <2>4, <2>6 DEF MemInv, MemTypeOK
  <2> QED
    BY <2>1, <2>4, <2>5, <2>7, <2>8, StageStep
<1>8. ASSUME NEW r \in Runs, DistillationFails(r) PROVE MemInv'
  <2>1. /\ rows' = rows /\ known' = known /\ stage[r] = "asking"
        /\ stage' = [stage EXCEPT ![r] = "idle"]
        /\ batch' = [batch EXCEPT ![r] = {}]
        /\ summary' = [summary EXCEPT ![r] = {}]
    BY <1>8 DEF DistillationFails
  <2>2. /\ stage' \in [Runs -> {"idle", "asking", "deleting", "adding"}] /\ stage'[r] = "idle"
        /\ batch' \in [Runs -> SUBSET Rowids] /\ batch'[r] = {}
        /\ summary' \in [Runs -> SUBSET Item] /\ summary'[r] = {}
        /\ \A q \in Runs \ {r} : stage'[q] = stage[q] /\ batch'[q] = batch[q] /\ summary'[q] = summary[q]
    BY <2>1 DEF MemInv, MemTypeOK
  <2> QED
    BY <2>1, <2>2, StageStep
<1>9. ASSUME NEW r \in Runs, DistillationAnswered(r) PROVE MemInv'
  <2>1. PICK item \in summary[r] : \E s \in Summaries(item.facts) : summary' = [summary EXCEPT ![r] = s]
    BY <1>9 DEF DistillationAnswered
  <2>2. PICK s \in Summaries(item.facts) : summary' = [summary EXCEPT ![r] = s]
    BY <2>1
  <2>3. item \in Item
    BY DEF MemInv, MemTypeOK
  <2>4. s \in SUBSET Item
    BY <2>3, MemoryDbAssumption DEF Summaries, Item, Importance
  <2>5. \A f \in item.facts : \E e \in s : f \in e.facts
    BY DEF Summaries
  <2>6. /\ rows' = rows /\ known' = known /\ stage[r] = "asking"
        /\ stage' = [stage EXCEPT ![r] = "deleting"]
        /\ batch[r] \in SUBSET Rowids /\ batch' = [batch EXCEPT ![r] = batch[r]]
    BY <1>9 DEF DistillationAnswered, MemInv, MemTypeOK
  <2>7. summary[r] = {item}
    BY <2>6 DEF MemInv
  <2>8. /\ batch[r] \subseteq DOMAIN rows
        /\ \A i \in batch[r] : rows[i].life # "expired" => \A f \in rows[i].facts : \E e \in s : f \in e.facts
    BY <2>5, <2>7 DEF MemInv
  <2>9. /\ stage' \in [Runs -> {"idle", "asking", "deleting", "adding"}] /\ stage'[r] = "deleting"
        /\ batch' \in [Runs -> SUBSET Rowids] /\ batch'[r] = batch[r]
        /\ summary' \in [Runs -> SUBSET Item] /\ summary'[r] = s
        /\ \A q \in Runs \ {r} : stage'[q] = stage[q] /\ batch'[q] = batch[q] /\ summary'[q] = summary[q]
    BY <2>2, <2>4, <2>6 DEF MemInv, MemTypeOK
  <2> QED
    BY <2>6, <2>8, <2>9, StageStep
<1>10. ASSUME NEW r \in Runs, DeleteBatch(r) PROVE MemInv'
  <2>1. CASE batch' = [batch EXCEPT ![r] = {}] /\ UNCHANGED rows
    <3>1. /\ rows' = rows /\ known' = known /\ stage[r] = "deleting"
          /\ stage' = [stage EXCEPT ![r] = "adding"]
          /\ summary[r] \in SUBSET Item /\ summary' = [summary EXCEPT ![r] = summary[r]]
      BY <1>10, <2>1 DEF DeleteBatch, MemInv, MemTypeOK
    <3>2. /\ stage' \in [Runs -> {"idle", "asking", "deleting", "adding"}] /\ stage'[r] = "adding"
          /\ batch' \in [Runs -> SUBSET Rowids] /\ batch'[r] = {}
          /\ summary' \in [Runs -> SUBSET Item] /\ summary'[r] = summary[r]
          /\ \A q \in Runs \ {r} : stage'[q] = stage[q] /\ batch'[q] = batch[q] /\ summary'[q] = summary[q]
      BY <2>1, <3>1 DEF MemInv, MemTypeOK
    <3> QED
      BY <3>1, <3>2, StageStep
  <2>2. CASE /\ rows' = Without(rows, batch[r])
             /\ batch' = [q \in Runs |-> IF q = r THEN {} ELSE batch[q] \ batch[r]]
    BY <1>10, <2>2, DeletionStep DEF DeleteBatch
  <2> QED
    BY <1>10, <2>1, <2>2 DEF DeleteBatch
<1>11. ASSUME NEW r \in Runs, AddSummary(r) PROVE MemInv'
  <2>1. PICK e \in summary[r] :
          /\ Insert([facts |-> e.facts, importance |-> e.importance, life |-> "forever", master |-> FALSE])
          /\ summary' = [summary EXCEPT ![r] = summary[r] \ {e}]
          /\ stage' = [stage EXCEPT ![r] = IF summary[r] = {e} THEN "idle" ELSE "adding"]
    BY <1>11 DEF AddSummary
  <2> DEFINE entry == [facts |-> e.facts, importance |-> e.importance, life |-> "forever", master |-> FALSE]
  <2>2. e \in Item
    BY DEF MemInv, MemTypeOK
  <2>3. entry \in Row /\ entry.facts = e.facts /\ ~entry.master /\ entry.life # "expired"
    BY <2>2 DEF Row, Item, Lives
  <2>4. Insert(entry) /\ stage[r] = "adding" /\ batch' = batch /\ known' = known
    BY <1>11, <2>1 DEF AddSummary
  <2> HIDE DEF entry
  <2>5. \E q \in Runs : \E d \in summary[q] :
          /\ stage[q] = "adding" /\ d.facts = entry.facts
          /\ summary' = [summary EXCEPT ![q] = summary[q] \ {d}]
          /\ stage' = [stage EXCEPT ![q] = IF summary[q] = {d} THEN "idle" ELSE "adding"]
    BY <2>1, <2>3, <2>4
  <2> QED
    BY <2>3, <2>4, <2>5, InsertionStep
<1>12. ASSUME NEW r \in Runs, DistillationCut(r) PROVE MemInv'
  <2>1. /\ rows' = rows /\ stage[r] # "idle" /\ known' = known \ (Unsaved(r) \ Kept(r))
        /\ stage' = [stage EXCEPT ![r] = "idle"]
        /\ batch' = [batch EXCEPT ![r] = {}]
        /\ summary' = [summary EXCEPT ![r] = {}]
    BY <1>12 DEF DistillationCut
  <2>2. ASSUME stage[r] = "adding", NEW e \in summary[r], NEW f \in e.facts, f \in known'
        PROVE  \/ \E i \in DOMAIN rows : rows[i].life # "expired" /\ f \in rows[i].facts
               \/ \E q \in Runs \ {r} : stage[q] = "adding" /\ \E d \in summary[q] : f \in d.facts
    <3>1. f \in Unsaved(r)
      BY <2>2 DEF Unsaved
    <3>2. f \in Kept(r)
      BY <2>1, <2>2, <3>1
    <3>3. f \in Stating(rows) \/ \E q \in Runs \ {r} : f \in Unsaved(q)
      BY <3>2 DEF Kept
    <3> QED
      BY <3>3 DEF Stating, Unsaved
  <2>3. /\ stage' \in [Runs -> {"idle", "asking", "deleting", "adding"}] /\ stage'[r] = "idle"
        /\ batch' \in [Runs -> SUBSET Rowids] /\ batch'[r] = {}
        /\ summary' \in [Runs -> SUBSET Item] /\ summary'[r] = {}
        /\ \A q \in Runs \ {r} : stage'[q] = stage[q] /\ batch'[q] = batch[q] /\ summary'[q] = summary[q]
    BY <2>1 DEF MemInv, MemTypeOK
  <2> QED
    BY <2>1, <2>2, <2>3, StageStep
<1>13. CASE UNCHANGED memVars
  <2>1. UNCHANGED <<rows, stage, batch, summary, known>>
    BY <1>13 DEF memVars
  <2>2. NothingForgotten'
    BY <2>1 DEF MemInv, NothingForgotten, Stating, Unsaved
  <2> QED
    BY <2>1, <2>2 DEF MemInv, MemTypeOK
<1> QED
  BY <1>1, <1>2, <1>3, <1>4, <1>5, <1>6, <1>7, <1>8, <1>9, <1>10, <1>11, <1>12, <1>13 DEF MemNext

-----------------------------------------------------------------------------
(***************************************************************************)
(* The skill bank (SkillBank).                                             *)
(***************************************************************************)

\* What is known of a skill.
Skill == [topic : Topics \cup {Vague}, state : States, sources : SUBSET (1..MaxIds), into : 0..MaxIds]

\* A cluster is a set of skills, and not an empty one; and unless two processes were
\* between their check and their insert at once, one of them at most is, with a topic
\* that no skill that lives was extracted for.
BankInv ==
  /\ BankTypeOK /\ Len(skills) <= MaxIds
  /\ \A p \in Banks : \A c \in clusters[p] : c # {} /\ c \subseteq DOMAIN skills
  /\ \A i \in DOMAIN skills : skills[i].state = "archived" =>
       /\ skills[i].into \in DOMAIN skills /\ skills[i].into > i
       /\ i \in skills[skills[i].into].sources
  /\ raced \/ \A p, q \in Banks : Storing(p) /\ Storing(q) => p = q
  /\ raced \/ \A p \in Banks : Storing(p) => \A i \in Extracted : skills[i].topic # storing[p].topic
  /\ NoTwins

\* There are no skills at first.
LEMMA BankInitInv == BankInit => BankInv
<1> SUFFICES ASSUME BankInit PROVE BankInv
  OBVIOUS
<1> USE SkillBankAssumption DEF BankInit
<1>1. /\ DOMAIN skills = {} /\ Len(skills) = 0 /\ skills \in Seq(Skill)
      /\ NoStep \in [at : Steps, topic : Topics \cup {Vague}] /\ NoStep.at = "idle"
  BY DEF NoStep, Steps
<1>2. storing \in [Banks -> [at : Steps, topic : Topics \cup {Vague}]] /\ \A p \in Banks : ~Storing(p)
  BY <1>1 DEF Storing
<1>3. BankTypeOK
  BY <1>1, <1>2 DEF BankTypeOK, Skill
<1> QED
  BY <1>1, <1>2, <1>3 DEF BankInv, NoTwins, Extracted, Live

\* A process goes on, and the skills stay as they are.
LEMMA BankWorkStep ==
  ASSUME BankInv, skills' = skills, raced' \in BOOLEAN, raced => raced',
         storing' \in [Banks -> [at : Steps, topic : Topics \cup {Vague}]],
         merging' \in [Banks -> {"idle", "due", "asking"}],
         clusters' \in [Banks -> SUBSET SUBSET (1..MaxIds)],
         \A p \in Banks : \A c \in clusters'[p] : c # {} /\ c \subseteq DOMAIN skills,
         raced' \/ \A p, q \in Banks : Storing(p)' /\ Storing(q)' => p = q,
         raced' \/ \A p \in Banks : Storing(p)' => \A i \in Extracted : skills[i].topic # storing'[p].topic
  PROVE  BankInv'
<1>1. Extracted' = Extracted
  BY DEF Extracted, Live
<1>2. BankTypeOK'
  BY DEF BankInv, BankTypeOK
<1>3. NoTwins'
  BY <1>1 DEF BankInv, NoTwins
<1> QED
  BY <1>1, <1>2, <1>3 DEF BankInv

\* What becomes of the skills there are, when no process stores one more.
LEMMA SkillsStep ==
  ASSUME BankInv, UNCHANGED raced, skills' \in Seq(Skill),
         Len(skills') <= MaxIds, Len(skills) <= Len(skills'),
         storing' \in [Banks -> [at : Steps, topic : Topics \cup {Vague}]],
         merging' \in [Banks -> {"idle", "due", "asking"}],
         clusters' \in [Banks -> SUBSET SUBSET (1..MaxIds)],
         \A p \in Banks : clusters'[p] \subseteq clusters[p],
         \A i \in DOMAIN skills : /\ skills'[i].topic = skills[i].topic
                                  /\ skills'[i].sources = skills[i].sources
                                  /\ skills'[i].state = "live" => skills[i].state = "live",
         \A i \in DOMAIN skills' : skills'[i].state = "archived" =>
           /\ skills'[i].into \in DOMAIN skills' /\ skills'[i].into > i
           /\ i \in skills'[skills'[i].into].sources,
         \A p \in Banks : Storing(p)' => Storing(p) /\ storing'[p].topic = storing[p].topic,
         \A i \in DOMAIN skills' \ DOMAIN skills : skills'[i].sources # {}
  PROVE  BankInv'
<1>1. DOMAIN skills \subseteq DOMAIN skills'
  <2>1. DOMAIN skills = 1..Len(skills) /\ DOMAIN skills' = 1..Len(skills') /\ Len(skills) \in Nat /\ Len(skills') \in Nat
    BY DEF BankInv, BankTypeOK, Skill
  <2> QED
    BY <2>1
<1>2. \A i \in Extracted' : i \in Extracted /\ skills'[i].topic = skills[i].topic
  BY DEF Extracted, Live
<1>3. BankTypeOK'
  BY DEF BankInv, BankTypeOK, Skill
<1>4. NoTwins'
  BY <1>2 DEF BankInv, NoTwins
<1>5. \A p \in Banks : \A c \in clusters'[p] : c # {} /\ c \subseteq DOMAIN skills'
  BY <1>1 DEF BankInv
<1>6. raced' \/ \A p, q \in Banks : Storing(p)' /\ Storing(q)' => p = q
  BY DEF BankInv
<1>7. raced' \/ \A p \in Banks : Storing(p)' => \A i \in Extracted' : skills'[i].topic # storing'[p].topic
  BY <1>2 DEF BankInv
<1> QED
  BY <1>3, <1>4, <1>5, <1>6, <1>7 DEF BankInv

\* Skills that live are pruned or deleted.
LEMMA GoneStep ==
  ASSUME BankInv, NEW ids \in SUBSET Live, skills' = Marked(ids, "gone"),
         UNCHANGED <<merging, clusters, raced>>,
         storing' \in [Banks -> [at : Steps, topic : Topics \cup {Vague}]],
         \A p \in Banks : Storing(p)' => Storing(p) /\ storing'[p].topic = storing[p].topic
  PROVE  BankInv'
<1> DEFINE Gone(i) == [skills[i] EXCEPT !.state = "gone"]
<1>1. skills \in Seq(Skill) /\ DOMAIN skills = 1..Len(skills) /\ Len(skills) \in Nat
  BY DEF BankInv, BankTypeOK, Skill
<1>2. ASSUME NEW i \in DOMAIN skills
      PROVE  /\ skills[i] \in Skill
             /\ Gone(i) \in Skill /\ Gone(i).topic = skills[i].topic /\ Gone(i).into = skills[i].into
             /\ Gone(i).sources = skills[i].sources /\ Gone(i).state = "gone"
  <2>1. skills[i] \in Skill
    BY <1>1
  <2> QED
    BY <2>1 DEF Skill, States
<1>3. skills' = [i \in DOMAIN skills |-> IF i \in ids THEN Gone(i) ELSE skills[i]]
  BY DEF Marked
<1> HIDE DEF Gone
<1>4. /\ DOMAIN skills' = DOMAIN skills
      /\ \A i \in ids : skills'[i] = Gone(i)
      /\ \A i \in DOMAIN skills \ ids : skills'[i] = skills[i]
  BY <1>3 DEF Live
<1>5. skills' \in Seq(Skill) /\ Len(skills') = Len(skills)
  <2>1. skills' \in [1..Len(skills) -> Skill]
    BY <1>1, <1>2, <1>3
  <2> QED
    BY <1>1, <2>1
<1>6. \A i \in DOMAIN skills : /\ skills'[i].topic = skills[i].topic /\ skills'[i].into = skills[i].into
                               /\ skills'[i].sources = skills[i].sources
                               /\ skills'[i].state = "live" => skills[i].state = "live"
                               /\ skills'[i].state = "archived" => skills[i].state = "archived"
  BY <1>2, <1>4
<1>7. \A i \in DOMAIN skills' : skills'[i].state = "archived" =>
        /\ skills'[i].into \in DOMAIN skills' /\ skills'[i].into > i
        /\ i \in skills'[skills'[i].into].sources
  BY <1>4, <1>6 DEF BankInv
<1>8. /\ merging' \in [Banks -> {"idle", "due", "asking"}]
      /\ clusters' \in [Banks -> SUBSET SUBSET (1..MaxIds)]
      /\ Len(skills) <= MaxIds
  BY DEF BankInv, BankTypeOK
<1> QED
  BY <1>1, <1>4, <1>5, <1>6, <1>7, <1>8, SkillsStep

\* A skill that was extracted is stored.
LEMMA StoredStep ==
  ASSUME BankInv, NEW p \in Banks, InsertSkill(p)
  PROVE  BankInv'
<1> USE SkillBankAssumption
<1> DEFINE n == Len(skills) + 1
           new == [topic |-> storing[p].topic, state |-> "live", sources |-> {}, into |-> 0]
<1>1. /\ skills \in Seq(Skill) /\ DOMAIN skills = 1..Len(skills) /\ Len(skills) \in Nat
      /\ storing \in [Banks -> [at : Steps, topic : Topics \cup {Vague}]]
  BY DEF BankInv, BankTypeOK, Skill
<1>2. new \in Skill /\ new.topic = storing[p].topic /\ new.state = "live"
  BY <1>1 DEF Skill, States
<1>3. /\ storing[p].at = "room" /\ Len(skills) < MaxIds /\ skills' = Append(skills, new)
      /\ storing' = [storing EXCEPT ![p] = NoStep]
      /\ UNCHANGED <<merging, clusters, raced>>
  BY DEF InsertSkill
<1> HIDE DEF new
<1>4. /\ skills' \in Seq(Skill) /\ Len(skills') = n /\ DOMAIN skills' = 1..n /\ skills'[n] = new
      /\ \A i \in DOMAIN skills : skills'[i] = skills[i]
  BY <1>1, <1>2, <1>3
<1>5. DOMAIN skills' = DOMAIN skills \cup {n} /\ n \notin DOMAIN skills
  BY <1>1, <1>4
<1>6. /\ NoStep \in [at : Steps, topic : Topics \cup {Vague}] /\ NoStep.at = "idle"
  BY DEF NoStep, Steps
<1>7. /\ storing' \in [Banks -> [at : Steps, topic : Topics \cup {Vague}]]
      /\ ~Storing(p)' /\ Storing(p)
      /\ \A q \in Banks \ {p} : storing'[q] = storing[q]
  BY <1>1, <1>3, <1>6 DEF Storing
<1>8. \A q \in Banks : Storing(q)' => q # p /\ Storing(q) /\ storing'[q] = storing[q]
  BY <1>7 DEF Storing
<1>9. raced \/ \A q \in Banks : ~Storing(q)'
  BY <1>7, <1>8 DEF BankInv
<1>10. \A i \in Extracted' : i = n \/ (i \in Extracted /\ skills'[i] = skills[i])
  <2>1. \A i \in Extracted' : i \in DOMAIN skills' /\ skills'[i].state = "live" /\ skills'[i].sources = {}
    BY DEF Extracted, Live
  <2> HIDE DEF n
  <2>2. ASSUME NEW i \in Extracted' PROVE i = n \/ (i \in DOMAIN skills /\ skills'[i] = skills[i])
    <3>1. i \in DOMAIN skills \cup {n}
      BY <1>5, <2>1
    <3> QED
      BY <1>4, <3>1
  <2> QED
    BY <2>1, <2>2 DEF Extracted, Live
<1>11. raced \/ \A i \in Extracted : skills[i].topic # storing[p].topic
  BY <1>7 DEF BankInv
<1> HIDE DEF n
<1>12. NoTwins'
  <2>1. raced' = raced
    BY <1>3
  <2> QED
    BY <1>2, <1>4, <1>10, <1>11, <2>1 DEF BankInv, NoTwins
<1>13. BankTypeOK'
  BY <1>3, <1>4, <1>7 DEF BankInv, BankTypeOK, Skill
<1>14. \A i \in DOMAIN skills' : skills'[i].state = "archived" =>
         /\ skills'[i].into \in DOMAIN skills' /\ skills'[i].into > i
         /\ i \in skills'[skills'[i].into].sources
  BY <1>2, <1>4, <1>5 DEF BankInv
<1>15. Len(skills') <= MaxIds
  BY <1>1, <1>3, <1>4 DEF n
<1> QED
  BY <1>3, <1>5, <1>9, <1>12, <1>13, <1>14, <1>15 DEF BankInv

\* A cluster is merged into a skill that names it as its sources.
LEMMA MergedStep ==
  ASSUME BankInv, NEW p \in Banks, NEW c \in clusters[p],
         NEW t \in {skills[i].topic : i \in c} \cup {Vague}, MergeCluster(p, c, t)
  PROVE  BankInv'
<1> USE SkillBankAssumption
<1> DEFINE n == Len(skills) + 1
           metaSkill == [topic |-> t, state |-> "live", sources |-> c, into |-> 0]
           Old(i) == [skills[i] EXCEPT !.state = "archived", !.into = n]
           old == Archived(c, n)
<1>1. /\ skills \in Seq(Skill) /\ DOMAIN skills = 1..Len(skills) /\ Len(skills) \in Nat
      /\ c # {} /\ c \subseteq DOMAIN skills /\ c \subseteq 1..MaxIds
  BY DEF BankInv, BankTypeOK, Skill
<1>2. /\ Len(skills) < MaxIds /\ skills' = Append(old, metaSkill)
      /\ UNCHANGED <<storing, raced>>
      /\ clusters' = [clusters EXCEPT ![p] = clusters[p] \ {c}]
      /\ merging' = [merging EXCEPT ![p] = IF clusters[p] = {c} THEN "idle" ELSE "asking"]
  BY DEF MergeCluster, NextCluster
<1>3. t \in Topics \cup {Vague}
  <2>1. \A i \in c : skills[i] \in Skill
    BY <1>1
  <2> QED
    BY <2>1 DEF Skill
<1>4. metaSkill \in Skill /\ metaSkill.state = "live" /\ metaSkill.sources = c
  BY <1>1, <1>3 DEF Skill, States
<1> HIDE DEF metaSkill
<1>5. ASSUME NEW i \in DOMAIN skills
      PROVE  /\ skills[i] \in Skill
             /\ Old(i) \in Skill /\ Old(i).topic = skills[i].topic /\ Old(i).into = n
             /\ Old(i).sources = skills[i].sources /\ Old(i).state = "archived"
  <2>1. n \in 0..MaxIds
    BY <1>1, <1>2
  <2>2. skills[i] \in Skill
    BY <1>1
  <2> HIDE DEF n
  <2> QED
    BY <2>1, <2>2 DEF Skill, States
<1>6. old = [i \in 1..Len(skills) |-> IF i \in c THEN Old(i) ELSE skills[i]]
  BY <1>1 DEF Archived
<1> HIDE DEF Old, old
<1>7. old \in Seq(Skill) /\ Len(old) = Len(skills) /\ DOMAIN old = DOMAIN skills
  <2>1. old \in [1..Len(skills) -> Skill]
    BY <1>1, <1>5, <1>6
  <2> QED
    BY <1>1, <2>1
<1>8. /\ skills' \in Seq(Skill) /\ Len(skills') = n /\ DOMAIN skills' = 1..n /\ skills'[n] = metaSkill
      /\ \A i \in DOMAIN skills : skills'[i] = old[i]
  <2>1. Len(old) \in Nat /\ DOMAIN old = 1..Len(old)
    BY <1>1, <1>7
  <2>2. /\ Append(old, metaSkill) \in Seq(Skill) /\ Len(Append(old, metaSkill)) = Len(old) + 1
        /\ Append(old, metaSkill)[Len(old) + 1] = metaSkill
        /\ \A i \in 1..Len(old) : Append(old, metaSkill)[i] = old[i]
    BY <1>4, <1>7, <2>1
  <2>3. DOMAIN skills' = 1..Len(skills')
    BY <1>2, <2>2
  <2> QED
    BY <1>1, <1>2, <1>7, <2>1, <2>2, <2>3
<1>9. /\ DOMAIN skills' = DOMAIN skills \cup {n} /\ n \notin DOMAIN skills
      /\ \A i \in DOMAIN skills : i < n
  BY <1>1, <1>8
<1>10. Len(skills') <= MaxIds /\ Len(skills) <= Len(skills')
  BY <1>1, <1>2, <1>8
<1> HIDE DEF n
<1>11. /\ \A i \in c : skills'[i] = Old(i)
       /\ \A i \in DOMAIN skills \ c : skills'[i] = skills[i]
  BY <1>1, <1>6, <1>8
<1>12. \A i \in DOMAIN skills : /\ skills'[i].topic = skills[i].topic
                                /\ skills'[i].sources = skills[i].sources
                                /\ skills'[i].state = "live" => skills[i].state = "live"
  BY <1>5, <1>11
<1>13. ASSUME NEW i \in DOMAIN skills', skills'[i].state = "archived"
       PROVE  /\ skills'[i].into \in DOMAIN skills' /\ skills'[i].into > i
              /\ i \in skills'[skills'[i].into].sources
  <2>1. i \in DOMAIN skills
    BY <1>4, <1>8, <1>9, <1>13
  <2>2. CASE i \in c
    <3>1. skills'[i].into = n
      BY <1>5, <1>11, <2>1, <2>2
    <3>2. skills'[n].sources = c
      BY <1>4, <1>8
    <3>3. n > i
      BY <1>1, <1>9, <2>1 DEF n
    <3> QED
      BY <1>9, <2>2, <3>1, <3>2, <3>3
  <2>3. CASE i \notin c
    <3>1. skills'[i] = skills[i]
      BY <1>11, <2>1, <2>3
    <3>2. /\ skills[i].into \in DOMAIN skills /\ skills[i].into > i
          /\ i \in skills[skills[i].into].sources
      BY <1>13, <2>1, <3>1 DEF BankInv
    <3> QED
      BY <1>9, <1>12, <3>1, <3>2
  <2> QED
    BY <2>2, <2>3
<1>14. /\ storing' \in [Banks -> [at : Steps, topic : Topics \cup {Vague}]]
       /\ merging' \in [Banks -> {"idle", "due", "asking"}]
       /\ clusters' \in [Banks -> SUBSET SUBSET (1..MaxIds)]
       /\ \A q \in Banks : clusters'[q] \subseteq clusters[q]
  BY <1>2 DEF BankInv, BankTypeOK
<1>15. \A q \in Banks : Storing(q)' => Storing(q) /\ storing'[q].topic = storing[q].topic
  BY <1>2 DEF Storing
<1>16. \A i \in DOMAIN skills' \ DOMAIN skills : skills'[i].sources # {}
  BY <1>1, <1>4, <1>8, <1>9
<1> QED
  BY <1>2, <1>8, <1>10, <1>12, <1>13, <1>14, <1>15, <1>16, SkillsStep

\* All steps of the processes.
LEMMA BankStep == BankInv /\ [BankNext]_bankVars => BankInv'
<1> SUFFICES ASSUME BankInv, [BankNext]_bankVars PROVE BankInv'
  OBVIOUS
<1> USE SkillBankAssumption
<1>1. /\ storing \in [Banks -> [at : Steps, topic : Topics \cup {Vague}]]
      /\ merging \in [Banks -> {"idle", "due", "asking"}]
      /\ clusters \in [Banks -> SUBSET SUBSET (1..MaxIds)] /\ raced \in BOOLEAN
      /\ \A p \in Banks : \A c \in clusters[p] : c # {} /\ c \subseteq DOMAIN skills
      /\ NoStep \in [at : Steps, topic : Topics \cup {Vague}] /\ NoStep.at = "idle"
  BY DEF BankInv, BankTypeOK, NoStep, Steps
<1>2. /\ raced \/ \A p, q \in Banks : Storing(p) /\ Storing(q) => p = q
      /\ raced \/ \A p \in Banks : Storing(p) => \A i \in Extracted : skills[i].topic # storing[p].topic
  BY DEF BankInv
\* Steps of an extraction that change its place only.
<1>3. ASSUME NEW p \in Banks, NEW at \in Steps, at \in {"checked", "full", "room"} => Storing(p), StepTo(p, at)
      PROVE  /\ storing' \in [Banks -> [at : Steps, topic : Topics \cup {Vague}]]
             /\ \A q \in Banks : Storing(q)' => Storing(q) /\ storing'[q].topic = storing[q].topic
  <2> DEFINE new == [storing[p] EXCEPT !.at = at]
  <2>1. /\ new \in [at : Steps, topic : Topics \cup {Vague}] /\ new.at = at
        /\ new.topic = storing[p].topic
    BY <1>1
  <2>2. storing' = [storing EXCEPT ![p] = new]
    BY <1>3 DEF StepTo
  <2> HIDE DEF new
  <2>3. storing'[p] = new /\ \A q \in Banks \ {p} : storing'[q] = storing[q]
    BY <1>1, <2>2
  <2> QED
    BY <1>1, <1>3, <2>1, <2>2, <2>3 DEF Storing
<1>4. ASSUME NEW p \in Banks, NEW t \in Topics, Extract(p, t) PROVE BankInv'
  <2> DEFINE new == [at |-> "embedded", topic |-> t]
  <2>1. new \in [at : Steps, topic : Topics \cup {Vague}] /\ new.at = "embedded"
    BY DEF Steps
  <2>2. storing' = [storing EXCEPT ![p] = new] /\ UNCHANGED <<skills, merging, clusters, raced>>
    BY <1>4 DEF Extract
  <2> HIDE DEF new
  <2>3. /\ storing' \in [Banks -> [at : Steps, topic : Topics \cup {Vague}]]
        /\ \A q \in Banks : Storing(q)' => Storing(q) /\ storing'[q].topic = storing[q].topic
    BY <1>1, <2>1, <2>2 DEF Storing
  <2> QED
    BY <1>1, <1>2, <2>2, <2>3, BankWorkStep
<1>5. ASSUME NEW p \in Banks, CheckDuplicate(p) PROVE BankInv'
  <2>1. /\ storing[p].at = "embedded" /\ ~Storing(p) /\ UNCHANGED <<skills, merging, clusters>>
        /\ raced' = (raced \/ \E q \in Banks \ {p} : Storing(q))
    BY <1>5 DEF CheckDuplicate, Storing
  <2>2. raced' \in BOOLEAN /\ (raced => raced') /\ (~raced' => \A q \in Banks : ~Storing(q))
    BY <2>1
  <2>3. CASE LiveOf(storing[p].topic) # {}
    <3>1. storing' = [storing EXCEPT ![p] = NoStep]
      BY <1>5, <2>3 DEF CheckDuplicate
    <3>2. /\ storing' \in [Banks -> [at : Steps, topic : Topics \cup {Vague}]]
          /\ \A q \in Banks : Storing(q)' => Storing(q) /\ storing'[q].topic = storing[q].topic
      BY <1>1, <3>1 DEF Storing
    <3> QED
      BY <1>1, <1>2, <2>1, <2>2, <3>2, BankWorkStep
  <2>4. CASE LiveOf(storing[p].topic) = {}
    <3> DEFINE new == [storing[p] EXCEPT !.at = "checked"]
    <3>1. /\ new \in [at : Steps, topic : Topics \cup {Vague}]
          /\ new.topic = storing[p].topic
      BY <1>1 DEF Steps
    <3>2. storing' = [storing EXCEPT ![p] = new]
      BY <1>5, <2>4 DEF CheckDuplicate, StepTo
    <3> HIDE DEF new
    <3>3. /\ storing' \in [Banks -> [at : Steps, topic : Topics \cup {Vague}]]
          /\ storing'[p].topic = storing[p].topic
          /\ \A q \in Banks \ {p} : storing'[q] = storing[q]
      BY <1>1, <3>1, <3>2
    <3>4. \A q \in Banks : Storing(q)' => q = p \/ Storing(q)
      BY <3>3 DEF Storing
    <3>5. raced' \/ \A q, s \in Banks : Storing(q)' /\ Storing(s)' => q = s
      BY <2>2, <3>4
    <3>6. \A i \in Extracted : skills[i].topic # storing[p].topic
      BY <2>4 DEF LiveOf, Extracted
    <3>7. raced' \/ \A q \in Banks : Storing(q)' => \A i \in Extracted : skills[i].topic # storing'[q].topic
      BY <2>2, <3>3, <3>4, <3>6
    <3> QED
      BY <1>1, <2>1, <2>2, <3>3, <3>5, <3>7, BankWorkStep
  <2> QED
    BY <2>3, <2>4
<1>6. ASSUME NEW p \in Banks, CountSkills(p) PROVE BankInv'
  <2>1. PICK at \in {"full", "room"} : StepTo(p, at)
    BY <1>6 DEF CountSkills
  <2>2. Storing(p) /\ UNCHANGED <<skills, clusters, raced>>
    BY <1>6 DEF CountSkills, Storing
  <2>3. merging' \in [Banks -> {"idle", "due", "asking"}]
    BY <1>1, <1>6 DEF CountSkills
  <2>4. /\ storing' \in [Banks -> [at : Steps, topic : Topics \cup {Vague}]]
        /\ \A q \in Banks : Storing(q)' => Storing(q) /\ storing'[q].topic = storing[q].topic
    BY <1>3, <2>1, <2>2 DEF Steps
  <2> QED
    BY <1>1, <1>2, <2>2, <2>3, <2>4, BankWorkStep
<1>7. ASSUME NEW p \in Banks, PruneWorst(p) PROVE BankInv'
  <2>1. StepTo(p, "room") /\ Storing(p) /\ UNCHANGED <<merging, clusters, raced>>
    BY <1>7 DEF PruneWorst, Storing
  <2>2. /\ storing' \in [Banks -> [at : Steps, topic : Topics \cup {Vague}]]
        /\ \A q \in Banks : Storing(q)' => Storing(q) /\ storing'[q].topic = storing[q].topic
    BY <1>3, <2>1 DEF Steps
  <2>3. CASE UNCHANGED skills
    BY <1>1, <1>2, <2>1, <2>2, <2>3, BankWorkStep
  <2>4. ASSUME NEW i \in Live, skills' = Marked({i}, "gone") PROVE BankInv'
    BY <2>1, <2>2, <2>4, GoneStep
  <2> QED
    BY <1>7, <2>3, <2>4 DEF PruneWorst
<1>8. ASSUME NEW p \in Banks, InsertSkill(p) PROVE BankInv'
  BY <1>8, StoredStep
<1>9. ASSUME NEW p \in Banks, ExtractionEnds(p) PROVE BankInv'
  <2>1. storing' = [storing EXCEPT ![p] = NoStep] /\ UNCHANGED <<skills, merging, clusters, raced>>
    BY <1>9 DEF ExtractionEnds
  <2>2. /\ storing' \in [Banks -> [at : Steps, topic : Topics \cup {Vague}]]
        /\ \A q \in Banks : Storing(q)' => Storing(q) /\ storing'[q].topic = storing[q].topic
    BY <1>1, <2>1 DEF Storing
  <2> QED
    BY <1>1, <1>2, <2>1, <2>2, BankWorkStep
<1>10. ASSUME NEW p \in Banks, LoadClusters(p) PROVE BankInv'
  <2> DEFINE cs == ClustersOf(Live)
  <2>1. /\ UNCHANGED <<skills, storing, raced>> /\ clusters' = [clusters EXCEPT ![p] = cs]
        /\ merging' = [merging EXCEPT ![p] = IF cs = {} THEN "idle" ELSE "asking"]
    BY <1>10 DEF LoadClusters
  <2>2. \A c \in cs : c \subseteq DOMAIN skills /\ c # {}
    BY FS_EmptySet DEF ClustersOf, Live
  <2>3. DOMAIN skills \subseteq 1..MaxIds
    BY DEF BankInv, BankTypeOK
  <2> HIDE DEF cs
  <2>4. cs \in SUBSET SUBSET (1..MaxIds)
    BY <2>2, <2>3
  <2>5. /\ clusters' \in [Banks -> SUBSET SUBSET (1..MaxIds)]
        /\ merging' \in [Banks -> {"idle", "due", "asking"}]
        /\ clusters'[p] = cs /\ \A q \in Banks \ {p} : clusters'[q] = clusters[q]
    BY <1>1, <2>1, <2>4
  <2>6. \A q \in Banks : \A c \in clusters'[q] : c # {} /\ c \subseteq DOMAIN skills
    BY <1>1, <2>2, <2>5
  <2>7. \A q \in Banks : Storing(q)' <=> Storing(q)
    BY <2>1 DEF Storing
  <2> QED
    BY <1>1, <1>2, <2>1, <2>5, <2>6, <2>7, BankWorkStep
<1>11. ASSUME NEW p \in Banks, MergeEnds(p) PROVE BankInv'
  <2>1. /\ UNCHANGED <<skills, storing, raced>> /\ clusters' = [clusters EXCEPT ![p] = {}]
        /\ merging' = [merging EXCEPT ![p] = "idle"]
    BY <1>11 DEF MergeEnds
  <2>2. /\ clusters' \in [Banks -> SUBSET SUBSET (1..MaxIds)]
        /\ merging' \in [Banks -> {"idle", "due", "asking"}]
        /\ clusters'[p] = {} /\ \A q \in Banks \ {p} : clusters'[q] = clusters[q]
    BY <1>1, <2>1
  <2>3. \A q \in Banks : Storing(q)' <=> Storing(q)
    BY <2>1 DEF Storing
  <2> QED
    BY <1>1, <1>2, <2>1, <2>2, <2>3, BankWorkStep
<1>12. ASSUME NEW p \in Banks, NEW c \in clusters[p], KeepCluster(p, c) PROVE BankInv'
  <2>1. /\ UNCHANGED <<skills, storing, raced>>
        /\ clusters' = [clusters EXCEPT ![p] = clusters[p] \ {c}]
        /\ merging' = [merging EXCEPT ![p] = IF clusters[p] = {c} THEN "idle" ELSE "asking"]
    BY <1>12 DEF KeepCluster, NextCluster
  <2>2. /\ clusters' \in [Banks -> SUBSET SUBSET (1..MaxIds)]
        /\ merging' \in [Banks -> {"idle", "due", "asking"}]
        /\ \A q \in Banks : clusters'[q] \subseteq clusters[q]
    BY <1>1, <2>1
  <2>3. \A q \in Banks : Storing(q)' <=> Storing(q)
    BY <2>1 DEF Storing
  <2> QED
    BY <1>1, <1>2, <2>1, <2>2, <2>3, BankWorkStep
<1>13. ASSUME NEW p \in Banks, NEW c \in clusters[p],
              NEW t \in {skills[i].topic : i \in c} \cup {Vague}, MergeCluster(p, c, t)
       PROVE  BankInv'
  BY <1>13, MergedStep
<1>14. ASSUME NEW i \in DOMAIN skills, Drop(i) PROVE BankInv'
  <2>1. i \in Live /\ skills' = Marked({i}, "gone") /\ UNCHANGED <<storing, merging, clusters, raced>>
    BY <1>14 DEF Drop
  <2>2. \A q \in Banks : Storing(q)' <=> Storing(q)
    BY <2>1 DEF Storing
  <2> QED
    BY <1>1, <2>1, <2>2, GoneStep
<1>15. CASE UNCHANGED bankVars
  <2>1. UNCHANGED <<skills, storing, merging, clusters, raced>>
    BY <1>15 DEF bankVars
  <2>2. \A q \in Banks : Storing(q)' <=> Storing(q)
    BY <2>1 DEF Storing
  <2> QED
    BY <1>1, <1>2, <2>1, <2>2, BankWorkStep
<1> QED
  BY <1>4, <1>5, <1>6, <1>7, <1>8, <1>9, <1>10, <1>11, <1>12, <1>13, <1>14, <1>15 DEF BankNext

-----------------------------------------------------------------------------
(***************************************************************************)
(* The success rate of a skill (SkillBank).                                *)
(***************************************************************************)

\* Rounding to the nearest.
LEMMA Nearest ==
  ASSUME NEW x \in Int, NEW n \in Nat \ {0}
  PROVE  /\ Rounded(x, n) \in Int
         /\ 2 * (Rounded(x, n) * n) <= 2 * x + n
         /\ 2 * x < 2 * (Rounded(x, n) * n) + n
<1> DEFINE y == 2 * x + n
           m == 2 * n
           q == y \div m
<1>1. y \in Int /\ m \in Int /\ m > 0
  OBVIOUS
<1>2. q \in Int /\ m * q <= y /\ y < m * q + m
  <2> HIDE DEF y, m
  <2> QED
    BY <1>1
<1>3. q \in Int /\ m * q = 2 * (q * n)
  <2>1. q \in Int
    BY <1>2
  <2> HIDE DEF q
  <2> QED
    BY <2>1
<1>4. Rounded(x, n) = q
  BY DEF Rounded
<1> HIDE DEF q
<1> QED
  BY <1>2, <1>3, <1>4

\* Halves of consecutive numbers add up to a quarter of the square.
LEMMA Quarters ==
  ASSUME NEW n \in Nat
  PROVE  /\ (n * n) \div 4 \in Nat
         /\ ((n + 1) * (n + 1)) \div 4 = (n * n) \div 4 + (n + 1) \div 2
<1>1. PICK k \in Nat : n = 2 * k \/ n = 2 * k + 1
  <2>1. n \div 2 \in Nat /\ (n = 2 * (n \div 2) \/ n = 2 * (n \div 2) + 1)
    OBVIOUS
  <2> QED
    BY <2>1
<1>2. CASE n = 2 * k
  <2>1. k * k \in Nat /\ n * n = 4 * (k * k) /\ (n + 1) * (n + 1) = 4 * (k * k + k) + 1
    BY <1>2
  <2>2. (n + 1) \div 2 = k
    BY <1>2
  <2> DEFINE s == k * k
  <2>3. s \in Nat
    BY <2>1
  <2> HIDE DEF s
  <2>4. (4 * s) \div 4 = s /\ (4 * (s + k) + 1) \div 4 = s + k
    BY <2>3
  <2> QED
    BY <2>1, <2>2, <2>3, <2>4 DEF s
<1>3. CASE n = 2 * k + 1
  <2>1. k * k \in Nat /\ n * n = 4 * (k * k + k) + 1 /\ (n + 1) * (n + 1) = 4 * (k * k + 2 * k + 1)
    BY <1>3
  <2>2. (n + 1) \div 2 = k + 1
    BY <1>3
  <2> DEFINE s == k * k
  <2>3. s \in Nat
    BY <2>1
  <2> HIDE DEF s
  <2>4. (4 * (s + k) + 1) \div 4 = s + k /\ (4 * (s + 2 * k + 1)) \div 4 = s + 2 * k + 1
    BY <2>3
  <2> QED
    BY <2>1, <2>2, <2>3, <2>4 DEF s
<1> QED
  BY <1>1, <1>2, <1>3

\* What rounding has added up to.
RatingInv ==
  /\ RatingTypeOK
  /\ useCount > 0 =>
       /\ successRate * useCount - succeeded * Unit <= (useCount * useCount) \div 4
       /\ succeeded * Unit - successRate * useCount <= (useCount * useCount) \div 4

\* A skill that was never used has a rate of nothing.
LEMMA RatingInitInv == RatingInit => RatingInv
<1> SUFFICES ASSUME RatingInit PROVE RatingInv
  OBVIOUS
<1>1. useCount \in 0..MaxUses /\ succeeded \in 0..useCount
  BY SkillRatingAssumption DEF RatingInit
<1>4. pruned \in BOOLEAN
  BY Zenon DEF RatingInit
<1>2. successRate = 5000
  BY DEF RatingInit, Unit
<1>3. ~(useCount > 0)
  BY DEF RatingInit
<1> QED
  BY <1>1, <1>2, <1>3, <1>4 DEF RatingInv, RatingTypeOK, Unit

\* An outcome is recorded: the rate moves to the new share, rounded.
LEMMA OutcomeStep == ASSUME RatingInv, NEW success \in BOOLEAN, RecordOutcome(success) PROVE RatingInv'
<1> USE SkillRatingAssumption
<1> DEFINE n == useCount
           r == successRate
           s == succeeded
           v == IF success THEN 1 ELSE 0
           x == r * n + v * Unit
           q == Rounded(x, n + 1)
<1>1. n \in Nat /\ n < MaxUses /\ r \in 0..Unit /\ s \in 0..n /\ v \in 0..1 /\ Unit = 10000
  BY DEF RatingInv, RatingTypeOK, RecordOutcome, Unit
<1>2. r * n \in Nat /\ r * n <= Unit * n /\ x \in Nat
  <2>1. r * n \in Nat /\ r * n <= Unit * n
    <3> HIDE DEF n, r
    <3>1. (Unit - r) * n >= 0
      BY <1>1
    <3>2. (Unit - r) * n = Unit * n - r * n
      BY <1>1
    <3> QED
      BY <1>1, <3>1, <3>2
  <2>2. v * Unit \in {0, Unit}
    BY DEF Unit
  <2>3. r * n + v * Unit \in Nat
    <3> DEFINE a == r * n
               b == v * Unit
    <3>1. a \in Nat /\ b \in Nat
      BY <2>1, <2>2 DEF Unit
    <3> HIDE DEF a, b
    <3>2. a + b \in Nat
      BY <3>1
    <3> QED
      BY <3>2 DEF a, b
  <2> QED
    BY <2>1, <2>3
<1>3. useCount' = n + 1 /\ successRate' = q /\ succeeded' = s + v /\ pruned' \in BOOLEAN
  BY <1>1 DEF RecordOutcome, Averaged
<1>4. /\ q \in Int
      /\ 2 * (q * (n + 1)) <= 2 * x + (n + 1)
      /\ 2 * x < 2 * (q * (n + 1)) + (n + 1)
  <2> HIDE DEF n, x
  <2>1. n + 1 \in Nat \ {0} /\ x \in Int
    BY <1>1, <1>2
  <2> QED
    BY <2>1, Nearest
<1> HIDE DEF n, r, s, v, x, q
<1>5. q \in 0..Unit
  <2>1. x <= Unit * (n + 1)
    <3>1. v * Unit <= Unit
      BY <1>1 DEF Unit
    <3>2. v * Unit \in Int /\ Unit \in Int /\ Unit * (n + 1) = Unit * n + Unit
      BY <1>1 DEF Unit
    <3> DEFINE a == r * n
               b == v * Unit
               c == Unit * n
    <3>3. a <= c /\ b <= Unit /\ x = a + b /\ Unit * (n + 1) = c + Unit
      BY <1>2, <3>1, <3>2 DEF x
    <3>4. a \in Int /\ b \in Int /\ c \in Int /\ Unit \in Int
      BY <1>1, <1>2, <3>2
    <3> HIDE DEF a, b, c
    <3>5. a + b <= c + Unit
      BY <3>3, <3>4
    <3> QED
      BY <3>3, <3>5
  <2>2. ASSUME q < 0 PROVE FALSE
    <3>1. q * (n + 1) <= -(n + 1)
      <4>1. (-1 - q) * (n + 1) >= 0
        BY <1>1, <1>4, <2>2
      <4> QED
        BY <1>1, <1>4, <4>1
    <3> QED
      BY <1>1, <1>2, <1>4, <3>1
  <2>3. ASSUME q > Unit PROVE FALSE
    <3>1. q * (n + 1) >= (Unit + 1) * (n + 1)
      <4>1. (q - Unit - 1) * (n + 1) >= 0
        BY <1>1, <1>4, <2>3
      <4> QED
        BY <1>1, <1>4, <4>1
    <3> QED
      BY <1>1, <1>2, <1>4, <2>1, <3>1
  <2> QED
    BY <1>1, <1>4, <2>2, <2>3
<1>6. RatingTypeOK'
  BY <1>1, <1>3, <1>5 DEF RatingTypeOK
<1> DEFINE d == q * (n + 1) - x
           h == (n + 1) \div 2
<1>7. d \in Int /\ h \in Nat /\ d <= h /\ -d <= h
  <2>1. q * (n + 1) \in Int
    BY <1>1, <1>4
  <2> QED
    BY <1>1, <1>2, <1>4, <2>1
<1>8. /\ (n * n) \div 4 \in Nat
      /\ ((n + 1) * (n + 1)) \div 4 = (n * n) \div 4 + h
  BY <1>1, Quarters
<1> HIDE DEF d, h
<1>9. /\ r * n - s * Unit <= (n * n) \div 4
      /\ s * Unit - r * n <= (n * n) \div 4
  <2>1. CASE n = 0
    BY <1>1, <2>1
  <2>2. CASE n > 0
    BY <1>1, <2>2 DEF RatingInv, n, r, s
  <2> QED
    BY <1>1, <2>1, <2>2
<1>10. q * (n + 1) - (s + v) * Unit = d + (r * n - s * Unit)
  BY <1>1, <1>2, <1>4 DEF d, x
<1>11. /\ q * (n + 1) - (s + v) * Unit <= ((n + 1) * (n + 1)) \div 4
       /\ (s + v) * Unit - q * (n + 1) <= ((n + 1) * (n + 1)) \div 4
  <2> DEFINE a == q * (n + 1)
             b == (s + v) * Unit
             e == r * n - s * Unit
             w == (n * n) \div 4
             z == ((n + 1) * (n + 1)) \div 4
  <2>1. a \in Int /\ b \in Int /\ e \in Int /\ w \in Nat
    BY <1>1, <1>2, <1>4, <1>8
  <2>2. e <= w /\ -e <= w /\ z = w + h /\ a - b = d + e
    BY <1>1, <1>2, <1>8, <1>9, <1>10
  <2> HIDE DEF a, b, e, w, z
  <2>3. a - b <= z /\ b - a <= z
    BY <1>7, <2>1, <2>2
  <2> QED
    BY <2>3 DEF a, b, z
<1> QED
  BY <1>3, <1>6, <1>11 DEF RatingInv

\* All steps of a skill.
LEMMA RatingStep == RatingInv /\ [RatingNext]_ratingVars => RatingInv'
<1>1. RatingInv /\ UNCHANGED ratingVars => RatingInv'
  BY DEF RatingInv, RatingTypeOK, ratingVars
<1> QED
  BY <1>1, OutcomeStep DEF RatingNext

\* The invariant is stronger than the property.
LEMMA RatingSafe == RatingInv => RateIsTheShare
<1> SUFFICES ASSUME RatingInv, useCount > 0 PROVE RateIsTheShare
  BY DEF RateIsTheShare
<1>1. useCount \in Nat /\ successRate * useCount \in Int /\ succeeded * Unit \in Int
  BY SkillRatingAssumption DEF RatingInv, RatingTypeOK, Unit
<1>2. (useCount * useCount) \div 4 \in Nat
  BY <1>1, Quarters
<1> DEFINE a == successRate * useCount
           b == succeeded * Unit
           w == (useCount * useCount) \div 4
<1>3. a - b <= w /\ b - a <= w /\ a \in Int /\ b \in Int /\ w \in Nat
  BY <1>1, <1>2 DEF RatingInv
<1> HIDE DEF a, b, w
<1>4. a - b <= w + 1 /\ b - a <= w + 1
  BY <1>3
<1> QED
  BY <1>4 DEF RateIsTheShare, a, b, w

-----------------------------------------------------------------------------
(***************************************************************************)
(* Runs within runs (SubAgents).                                           *)
(***************************************************************************)

\* Who is above a run is known: a finite set of runs that have started, as many as
\* the depth says, without the run itself.  Only a run without limits of its own
\* has the catalogue.
TeamInv ==
  /\ SubAgentsTypeOK
  /\ \A r \in Members :
       /\ IsFiniteSet(team[r].above) /\ r \notin team[r].above
       /\ team[r].depth = Cardinality(team[r].above)
       /\ \A x \in team[r].above : team[x].at # "unused"
       /\ team[r].catalogue => ~team[r].limited /\ ~team[r].muted
       /\ team[r].catalogue => team[r].tool # "Agent"
       /\ \A x \in team[r].above :
            /\ team[x].tool = "Agent" => ~team[r].catalogue
            /\ team[x].limited => team[r].limited
            /\ team[x].muted => team[r].muted

\* The state of one run.
Member ==
  [at : {"unused", "running", "ended"}, depth : 0..MaxDepth, above : SUBSET Members,
   tool : {"none", "Agent", "spawn_agent"}, catalogue : BOOLEAN, limited : BOOLEAN,
   muted : BOOLEAN, awaited : BOOLEAN, ok : BOOLEAN, failure : BOOLEAN,
   told : {"none", "ok", "error", "timeout"}]

\* The root has nobody above it.
LEMMA TeamInitInv == SubAgentsInit => TeamInv
<1> SUFFICES ASSUME NEW catalogue \in BOOLEAN,
                    team = [r \in Members |->
                      IF r = RootRun THEN [Unstarted EXCEPT !.at = "running", !.catalogue = catalogue]
                                     ELSE Unstarted]
             PROVE  TeamInv
  BY DEF SubAgentsInit
<1>1. Unstarted \in Member
  BY SubAgentsAssumption DEF Unstarted, Member
<1>2. [Unstarted EXCEPT !.at = "running", !.catalogue = catalogue] \in Member
  BY <1>1 DEF Member
<1>3. team \in [Members -> Member]
  BY <1>1, <1>2
<1>4. \A r \in Members : /\ team[r].above = {} /\ team[r].depth = 0 /\ team[r].tool = "none"
                         /\ ~team[r].limited /\ ~team[r].muted
  BY DEF Unstarted
<1>5. IsFiniteSet({}) /\ Cardinality({}) = 0
  BY FS_EmptySet
<1>6. SubAgentsTypeOK
  BY <1>3 DEF SubAgentsTypeOK, Member
<1> QED
  BY <1>4, <1>5, <1>6 DEF TeamInv

\* A run starts below another one, with options that keep the limits.
LEMMA RunStartsStep ==
  ASSUME TeamInv, NEW p \in Members, NEW c \in SubRuns, MaySpawn(p),
         NEW tool \in {"Agent", "spawn_agent"}, NEW options \in Member,
         SubRunStarts(p, c, tool, options),
         options.catalogue => /\ tool # "Agent" /\ team[p].catalogue
                              /\ ~options.limited /\ ~options.muted,
         team[p].limited => options.limited, team[p].muted => options.muted
  PROVE  TeamInv'
<1> DEFINE new == [options EXCEPT !.at = "running", !.depth = team[p].depth + 1, !.tool = tool,
                       !.above = team[p].above \cup {p}, !.awaited = TRUE, !.ok = TRUE,
                       !.failure = FALSE, !.told = "none"]
<1>0. team \in [Members -> Member]
  BY DEF TeamInv, SubAgentsTypeOK, Member
<1>1. c \in Members /\ team' = [team EXCEPT ![c] = new] /\ team[c].at = "unused"
  BY DEF SubRunStarts, Members
<1>2. /\ team[p].at = "running" /\ team[p].depth \in Nat /\ team[p].depth + 1 \in 0..MaxDepth
      /\ team[p].above \subseteq Members
  BY <1>0, SubAgentsAssumption DEF MaySpawn, RunsNow, Member
<1>3. /\ new \in Member
      /\ new.at = "running" /\ new.depth = team[p].depth + 1 /\ new.tool = tool
      /\ new.above = team[p].above \cup {p}
      /\ new.catalogue = options.catalogue /\ new.limited = options.limited
      /\ new.muted = options.muted
  BY <1>2 DEF Member
<1> HIDE DEF new
<1>4. p # c /\ \A r \in Members : c \notin team[r].above
  BY <1>1, <1>2 DEF TeamInv
<1>5. team' \in [Members -> Member]
  BY <1>0, <1>1, <1>3
<1>6. SubAgentsTypeOK'
  BY <1>5 DEF SubAgentsTypeOK, Member
<1>7. team'[c] = new /\ \A r \in Members \ {c} : team'[r] = team[r]
  BY <1>0, <1>1
<1>8. /\ IsFiniteSet(team[p].above \cup {p})
      /\ Cardinality(team[p].above \cup {p}) = Cardinality(team[p].above) + 1
  BY FS_AddElement DEF TeamInv
<1>9. ASSUME NEW r \in Members \ {c}
      PROVE  /\ IsFiniteSet(team'[r].above) /\ r \notin team'[r].above
             /\ team'[r].depth = Cardinality(team'[r].above)
             /\ \A x \in team'[r].above : team'[x].at # "unused"
             /\ team'[r].catalogue => ~team'[r].limited /\ ~team'[r].muted
             /\ team'[r].catalogue => team'[r].tool # "Agent"
             /\ \A x \in team'[r].above :
                  /\ team'[x].tool = "Agent" => ~team'[r].catalogue
                  /\ team'[x].limited => team'[r].limited
                  /\ team'[x].muted => team'[r].muted
  <2>1. \A x \in team[r].above : x \in Members \ {c}
    BY <1>0, <1>4 DEF Member
  <2> QED
    BY <1>7, <2>1 DEF TeamInv
<1>10. /\ IsFiniteSet(new.above) /\ c \notin new.above
       /\ new.depth = Cardinality(new.above)
  BY <1>3, <1>4, <1>8 DEF TeamInv
<1>11. new.catalogue => ~new.limited /\ ~new.muted /\ new.tool # "Agent"
  BY <1>3
<1>12. ASSUME NEW x \in new.above
       PROVE  /\ team'[x].at # "unused"
              /\ team'[x].tool = "Agent" => ~new.catalogue
              /\ team'[x].limited => new.limited
              /\ team'[x].muted => new.muted
  <2>1. x \in Members \ {c} /\ (x = p \/ x \in team[p].above)
    BY <1>2, <1>3, <1>4
  <2>2. team'[x] = team[x]
    BY <1>7, <2>1
  <2> QED
    BY <1>2, <1>3, <2>1, <2>2 DEF TeamInv
<1> QED
  BY <1>6, <1>7, <1>9, <1>10, <1>11, <1>12 DEF TeamInv

\* A run goes on or ends, as deep and as limited as it was.
LEMMA RunGoesOnStep ==
  ASSUME TeamInv, NEW new, new \in [Members -> Member], team' = new,
         \A r \in Members :
           /\ new[r].depth = team[r].depth /\ new[r].above = team[r].above
           /\ new[r].tool = team[r].tool /\ new[r].catalogue = team[r].catalogue
           /\ new[r].limited = team[r].limited /\ new[r].muted = team[r].muted
           /\ team[r].at # "unused" => new[r].at # "unused"
  PROVE  TeamInv'
<1>0. team \in [Members -> Member]
  BY DEF TeamInv, SubAgentsTypeOK, Member
<1>1. SubAgentsTypeOK'
  BY DEF SubAgentsTypeOK, Member
<1>2. ASSUME NEW r \in Members
      PROVE  /\ IsFiniteSet(new[r].above) /\ r \notin new[r].above
             /\ new[r].depth = Cardinality(new[r].above)
             /\ \A x \in new[r].above : new[x].at # "unused"
             /\ new[r].catalogue => ~new[r].limited /\ ~new[r].muted
             /\ new[r].catalogue => new[r].tool # "Agent"
             /\ \A x \in new[r].above :
                  /\ new[x].tool = "Agent" => ~new[r].catalogue
                  /\ new[x].limited => new[r].limited
                  /\ new[x].muted => new[r].muted
  <2>1. \A x \in team[r].above : x \in Members
    BY <1>0 DEF Member
  <2> QED
    BY <2>1 DEF TeamInv
<1> QED
  BY <1>1, <1>2 DEF TeamInv

\* All steps of the runs.
LEMMA TeamStep == TeamInv /\ [SubAgentsNext]_team => TeamInv'
<1> SUFFICES ASSUME TeamInv, [SubAgentsNext]_team PROVE TeamInv'
  OBVIOUS
<1>0. team \in [Members -> Member] /\ Unstarted \in Member
  BY SubAgentsAssumption DEF TeamInv, SubAgentsTypeOK, Member, Unstarted
<1>1. CASE UNCHANGED team
  BY <1>1 DEF TeamInv, SubAgentsTypeOK
<1>2. ASSUME NEW p \in Members, NEW c \in SubRuns, NEW limited \in BOOLEAN, NEW muted \in BOOLEAN,
             AgentTool(p, c, limited, muted)
      PROVE  TeamInv'
  <2> DEFINE options == [Unstarted EXCEPT !.limited = limited, !.muted = muted]
  <2>1. options \in Member
    BY <1>0 DEF Member
  <2>4. ~options.catalogue
    BY DEF Unstarted
  <2>2. MaySpawn(p) /\ team[p].catalogue /\ SubRunStarts(p, c, "Agent", options)
    BY <1>2 DEF AgentTool
  <2>3. ~team[p].limited /\ ~team[p].muted
    BY <2>2 DEF TeamInv
  <2> HIDE DEF options
  <2> QED
    BY <2>1, <2>2, <2>3, <2>4, RunStartsStep
<1>3. ASSUME NEW p \in Members, NEW c \in SubRuns, SpawnTool(p, c) PROVE TeamInv'
  <2>1. MaySpawn(p) /\ SubRunStarts(p, c, "spawn_agent", team[p]) /\ team[p] \in Member
    BY <1>0, <1>3 DEF SpawnTool
  <2>2. team[p].catalogue => ~team[p].limited /\ ~team[p].muted
    BY DEF TeamInv
  <2> QED
    BY <2>1, <2>2, RunStartsStep
<1>4. ASSUME NEW c \in SubRuns, CallTimesOut(c) PROVE TeamInv'
  <2> DEFINE late == [team[c] EXCEPT !.awaited = FALSE, !.told = "timeout"]
             new == [team EXCEPT ![c] = late]
  <2>1. c \in Members /\ team' = new
    BY <1>0, <1>4 DEF CallTimesOut, Members
  <2>2. /\ late \in Member /\ late.depth = team[c].depth /\ late.above = team[c].above
        /\ late.tool = team[c].tool /\ late.catalogue = team[c].catalogue
        /\ late.limited = team[c].limited /\ late.muted = team[c].muted /\ late.at = team[c].at
    BY <1>0, <2>1 DEF Member
  <2> HIDE DEF late
  <2>3. new \in [Members -> Member]
    BY <1>0, <2>2
  <2>4. \A r \in Members : new[r] = IF r = c THEN late ELSE team[r]
    BY <1>0
  <2> HIDE DEF new
  <2>5. \A r \in Members :
           /\ new[r].depth = team[r].depth /\ new[r].above = team[r].above
           /\ new[r].tool = team[r].tool /\ new[r].catalogue = team[r].catalogue
           /\ new[r].limited = team[r].limited /\ new[r].muted = team[r].muted
           /\ team[r].at # "unused" => new[r].at # "unused"
    BY <2>2, <2>4
  <2> QED
    BY <2>1, <2>3, <2>5, RunGoesOnStep
<1>5. ASSUME NEW q \in Members, NEW ok \in BOOLEAN, MemberEnds(q, ok) PROVE TeamInv'
  <2> DEFINE hears == {x \in team[q].above \cup {q} : team[x].tool = "spawn_agent"}
             failed == team[q].failure \/ (~ok /\ q \in hears)
             word == IF ~team[q].awaited THEN team[q].told ELSE IF failed THEN "error" ELSE "ok"
             ended == [team[q] EXCEPT !.at = "ended", !.ok = ok, !.failure = failed,
                                      !.awaited = FALSE, !.told = word]
             other(x) == [team[x] EXCEPT !.failure = team[x].failure \/ (~ok /\ x \in hears)]
             new == [x \in Members |-> IF x = q THEN ended ELSE other(x)]
  <2>1. team' = new
    BY <1>0, <1>5 DEF MemberEnds
  <2>2. failed \in BOOLEAN /\ \A x \in Members : (team[x].failure \/ (~ok /\ x \in hears)) \in BOOLEAN
    BY <1>0 DEF Member
  <2>3. word \in {"none", "ok", "error", "timeout"}
    <3> HIDE DEF failed
    <3> QED
      BY <1>0 DEF Member
  <2> HIDE DEF word, failed, hears
  <2>4. /\ ended \in Member /\ ended.depth = team[q].depth /\ ended.above = team[q].above
        /\ ended.tool = team[q].tool /\ ended.catalogue = team[q].catalogue
        /\ ended.limited = team[q].limited /\ ended.muted = team[q].muted /\ ended.at = "ended"
    BY <1>0, <2>2, <2>3 DEF Member
  <2>5. ASSUME NEW x \in Members
        PROVE  /\ other(x) \in Member /\ other(x).depth = team[x].depth
               /\ other(x).above = team[x].above
               /\ other(x).tool = team[x].tool /\ other(x).catalogue = team[x].catalogue
               /\ other(x).limited = team[x].limited /\ other(x).muted = team[x].muted
               /\ other(x).at = team[x].at
    BY <1>0, <2>2 DEF Member
  <2> HIDE DEF ended, other
  <2>6. new \in [Members -> Member]
    BY <2>4, <2>5
  <2>7. \A r \in Members :
           /\ new[r].depth = team[r].depth /\ new[r].above = team[r].above
           /\ new[r].tool = team[r].tool /\ new[r].catalogue = team[r].catalogue
           /\ new[r].limited = team[r].limited /\ new[r].muted = team[r].muted
           /\ team[r].at # "unused" => new[r].at # "unused"
    BY <2>4, <2>5
  <2> HIDE DEF new
  <2> QED
    BY <2>1, <2>6, <2>7, RunGoesOnStep
<1> QED
  BY <1>1, <1>2, <1>3, <1>4, <1>5 DEF SubAgentsNext

\* The invariant is stronger than the types and the property.
LEMMA TeamSafe == TeamInv => SubAgentsTypeOK /\ LimitsAreInherited
<1> SUFFICES ASSUME TeamInv PROVE SubAgentsTypeOK /\ LimitsAreInherited
  OBVIOUS
<1>1. \A r \in SubRuns : r \in Members /\ team[r].depth <= MaxDepth
  BY DEF TeamInv, SubAgentsTypeOK, Members
<1> QED
  BY <1>1 DEF TeamInv, LimitsAreInherited

-----------------------------------------------------------------------------
(***************************************************************************)
(* The files that tools edit (FileTools).                                  *)
(***************************************************************************)

\* Where a call can be, where it is writing, and what is known of it.
Places == {"idle", "reading", "opening", "filling", "renaming", "restoring", "ok", "error"}
Writing == {"opening", "filling", "renaming"}
CallOf == [at : Places, kind : Kinds, entries : Seq(Edits), seen : Seq(Contents),
           written : Nat, restored : Nat, failed : BOOLEAN]

\* What each entry of a call is about, and the file that is written next.
FileOf(r, i) == EditedFile[r.entries[i]]
WriteNext(r) == CHOOSE i \in WritesOf(r.entries) :
                  /\ i > r.written
                  /\ \A j \in WritesOf(r.entries) : j > r.written => i <= j

\* Where a call is, with what it has read, written and restored.
CallOK(r) ==
  /\ r.restored <= r.written /\ r.written <= Len(r.entries) /\ Len(r.seen) <= Len(r.entries)
  /\ r.kind # "files" /\ r.at # "idle" => Len(r.entries) = 1
  /\ r.at = "reading" => Len(r.seen) < Len(r.entries) /\ r.written = 0 /\ r.restored = 0
  /\ r.at \in Writing => /\ \E i \in WritesOf(r.entries) : i > r.written
                         /\ r.restored = 0
                         /\ r.kind # "write" => Len(r.seen) = Len(r.entries)
  /\ r.at = "restoring" => /\ r.kind = "files" /\ r.restored < r.written
                            /\ Len(r.seen) = Len(r.entries)
  /\ r.at = "error" /\ r.kind = "files" => r.restored = r.written

\* The files of a call are as it has read them, but for those that it has written and
\* not yet restored.
AsRead(files, r) ==
  \A i \in DOMAIN r.seen : \/ files[FileOf(r, i)] = r.seen[i]
                           \/ \E j \in (r.restored + 1)..r.written : FileOf(r, j) = FileOf(r, i)
\* A call has read each file once.
ReadOnce(r) == \A i, j \in DOMAIN r.seen : FileOf(r, i) = FileOf(r, j) => r.seen[i] = r.seen[j]

\* A temporary file is not there, or has one content.
TmpOK(x) == x = {} \/ \E y \in Contents : x = {y}

\* The inductive invariant: unless two calls overlapped, one of them at most is at work,
\* and what it has changed it can restore.
FilesInv ==
  /\ content \in [Files -> Contents]
  /\ tmpOf = [f \in Files |-> tmpOf[f]] /\ \A f \in Files : TmpOK(tmpOf[f])
  /\ call \in [Calls -> CallOf] /\ alone \in [Calls -> BOOLEAN]
  /\ \A c \in Calls : CallOK(call[c])
  /\ \A c \in Calls : alone[c] => \A d \in Calls \ {c} : ~Active(d)
  /\ \A c \in Calls : alone[c] /\ call[c].kind = "files" /\ ~call[c].failed /\ call[c].at # "ok" =>
       /\ AsRead(content, call[c]) /\ ReadOnce(call[c])
       /\ call[c].at \in {"filling", "renaming"} => tmpOf[FileOf(call[c], WriteNext(call[c]))] # {}

\* No call is at work at first.
LEMMA FilesInitInv == FilesInit => FilesInv
<1> SUFFICES ASSUME FilesInit PROVE FilesInv
  OBVIOUS
<1> USE FileToolsAssumption DEF FilesInit
<1>1. /\ NoCall \in CallOf /\ NoCall.at = "idle" /\ DOMAIN NoCall.seen = {}
      /\ NoCall.kind = "edit" /\ CallOK(NoCall)
  <2>1. Len(NoCall.entries) = 0 /\ Len(NoCall.seen) = 0 /\ DOMAIN NoCall.seen = {}
    BY DEF NoCall
  <2>2. NoCall \in CallOf
    BY DEF NoCall, CallOf, Places, Kinds
  <2> QED
    BY <2>1, <2>2 DEF NoCall, CallOK, Writing
<1>2. content \in [Files -> Contents]
  BY DEF Contents
<1>3. tmpOf = [f \in Files |-> tmpOf[f]] /\ \A f \in Files : TmpOK(tmpOf[f])
  BY DEF TmpOK
<1>4. call \in [Calls -> CallOf] /\ \A c \in Calls : call[c] = NoCall
  BY <1>1
<1>5. \A c \in Calls : CallOK(call[c]) /\ ~Active(c)
  BY <1>1, <1>4 DEF Active
<1>6. alone \in [Calls -> BOOLEAN] /\ \A c \in Calls : ~alone[c]
  BY Zenon
<1> QED
  BY <1>2, <1>3, <1>4, <1>5, <1>6 DEF FilesInv

\* A call that is active, or begins, goes on; none of the others is alone then.
LEMMA CallStep ==
  ASSUME FilesInv, NEW c \in Calls, NEW new \in CallOf, call' = [call EXCEPT ![c] = new], CallOK(new),
         content' \in [Files -> Contents],
         tmpOf' = [f \in Files |-> tmpOf'[f]], \A f \in Files : TmpOK(tmpOf'[f]),
         alone' \in [Calls -> BOOLEAN], \A d \in Calls \ {c} : ~alone'[d],
         alone'[c] => \A d \in Calls \ {c} : ~Active(d),
         alone'[c] /\ new.kind = "files" /\ ~new.failed /\ new.at # "ok" =>
           /\ AsRead(content', new) /\ ReadOnce(new)
           /\ new.at \in {"filling", "renaming"} => tmpOf'[FileOf(new, WriteNext(new))] # {}
  PROVE  FilesInv'
<1>1. /\ call' \in [Calls -> CallOf] /\ call'[c] = new
      /\ \A d \in Calls \ {c} : call'[d] = call[d]
  BY DEF FilesInv
<1>2. \A d \in Calls : CallOK(call[d])'
  <2>1. \A d \in Calls \ {c} : CallOK(call[d])
    BY DEF FilesInv
  <2> QED
    BY <1>1, <2>1 DEF CallOK
<1>3. \A d \in Calls : alone'[d] => d = c
  OBVIOUS
<1>4. \A b \in Calls : alone'[b] => \A d \in Calls \ {b} : ~Active(d)'
  BY <1>1, <1>3 DEF Active
<1>5. ASSUME NEW d \in Calls, alone'[d], call'[d].kind = "files", ~call'[d].failed, call'[d].at # "ok"
      PROVE  /\ AsRead(content, call[d])' /\ ReadOnce(call[d])'
             /\ call'[d].at \in {"filling", "renaming"} => tmpOf'[FileOf(call'[d], WriteNext(call'[d]))] # {}
  <2>1. d = c /\ call'[d] = new
    BY <1>1, <1>3, <1>5
  <2> QED
    BY <1>5, <2>1 DEF AsRead, ReadOnce, FileOf
<1> QED
  BY <1>1, <1>2, <1>4, <1>5 DEF FilesInv

\* Whoever is alone is the one that is active.
LEMMA AloneIsActive ==
  ASSUME FilesInv, NEW c \in Calls, Active(c), alone' = alone
  PROVE  /\ alone' \in [Calls -> BOOLEAN] /\ \A d \in Calls \ {c} : ~alone'[d]
         /\ alone'[c] => \A d \in Calls \ {c} : ~Active(d)
BY DEF FilesInv

\* The next write of a call that is writing.
LEMMA WriteNextIs ==
  ASSUME NEW r \in CallOf, CallOK(r), \E i \in WritesOf(r.entries) : i > r.written
  PROVE  /\ WriteNext(r) \in WritesOf(r.entries) /\ WriteNext(r) > r.written
         /\ WriteNext(r) \in DOMAIN r.entries /\ WriteNext(r) \in Nat /\ FileOf(r, WriteNext(r)) \in Files
<1> DEFINE S == {i \in WritesOf(r.entries) : i > r.written}
<1>1. /\ r.entries \in Seq(Edits) /\ DOMAIN r.entries = 1..Len(r.entries) /\ Len(r.entries) \in Nat
      /\ r.written \in Nat
  BY DEF CallOf
<1>2. WritesOf(r.entries) \subseteq DOMAIN r.entries
  BY DEF WritesOf
<1>3. S \subseteq Nat /\ S # {}
  BY <1>1, <1>2
<1>4. \E i \in S : \A j \in S : i <= j
  <2> HIDE DEF S
  <2> QED
    BY <1>3, LeastNumber
<1>5. \E i \in WritesOf(r.entries) : i > r.written /\ \A j \in WritesOf(r.entries) : j > r.written => i <= j
  BY <1>4
<1>6. WriteNext(r) \in WritesOf(r.entries) /\ WriteNext(r) > r.written
  BY <1>5 DEF WriteNext
<1>7. \A i \in DOMAIN r.entries : FileOf(r, i) \in Files
  BY <1>1, FileToolsAssumption DEF FileOf
<1> QED
  BY <1>1, <1>2, <1>6, <1>7

\* A call begins, with files that nobody has read.
LEMMA BeginStep ==
  ASSUME FilesInv, NEW c \in Calls, NEW kind \in Kinds,
         NEW entries \in Seq(Edits), Len(entries) > 0, Begin(c, kind, entries)
  PROVE  FilesInv'
<1> USE FileToolsAssumption
<1> DEFINE at == IF kind = "write" THEN "opening" ELSE "reading"
           new == [NoCall EXCEPT !.kind = kind, !.entries = entries, !.at = at]
<1>1. /\ call' = [call EXCEPT ![c] = new] /\ content' = content /\ tmpOf' = tmpOf
      /\ alone' = [d \in Calls |-> d = c /\ \A b \in Calls \ {c} : ~Active(b)]
      /\ kind = "files" \/ Len(entries) = 1
  BY DEF Begin, Update
<1>2. at \in Places /\ at \in {"opening", "reading"} /\ (at = "opening" => kind = "write")
  BY DEF Places
<1> HIDE DEF at
<1>3. /\ new.at = at /\ new.kind = kind /\ new.entries = entries /\ new.seen = <<>>
      /\ new.written = 0 /\ new.restored = 0 /\ new.failed = FALSE
  BY DEF NoCall
<1>4. new \in CallOf
  <2>1. NoCall \in CallOf
    BY DEF NoCall, CallOf, Places, Kinds
  <2> QED
    BY <1>2, <2>1 DEF CallOf
<1> HIDE DEF new
<1>5. Len(new.seen) = 0 /\ DOMAIN new.seen = {} /\ Len(entries) \in Nat
  BY <1>3
<1>6. 1 \in WritesOf(entries)
  BY DEF WritesOf
<1>7. CallOK(new)
  BY <1>1, <1>2, <1>3, <1>5, <1>6 DEF CallOK, Writing
<1>8. AsRead(content', new) /\ ReadOnce(new)
  BY <1>3, <1>5 DEF AsRead, ReadOnce
<1>9. /\ alone' \in [Calls -> BOOLEAN] /\ \A d \in Calls \ {c} : ~alone'[d]
      /\ alone'[c] => \A d \in Calls \ {c} : ~Active(d)
  BY <1>1, Zenon
<1>10. /\ content' \in [Files -> Contents]
       /\ tmpOf' = [f \in Files |-> tmpOf'[f]] /\ \A f \in Files : TmpOK(tmpOf'[f])
  BY <1>1 DEF FilesInv
<1> QED
  BY <1>1, <1>2, <1>3, <1>4, <1>7, <1>8, <1>9, <1>10, CallStep

\* A call reads the next file that it edits.
LEMMA ReadStep ==
  ASSUME FilesInv, NEW c \in Calls, ReadFile(c)
  PROVE  FilesInv'
<1> USE FileToolsAssumption
<1> DEFINE r == call[c]
           i == Len(r.seen) + 1
           x == content[FileOf(r, i)]
           seen == Append(r.seen, x)
           at == IF i < Len(r.entries) THEN "reading" ELSE IF Accepts(c, seen) THEN "opening" ELSE "error"
           new == [r EXCEPT !.seen = seen, !.at = at]
<1>1. /\ r \in CallOf /\ CallOK(r) /\ r.at = "reading" /\ Active(c)
      /\ call' = [call EXCEPT ![c] = new] /\ UNCHANGED <<content, tmpOf, alone>>
  BY DEF ReadFile, FilesInv, Active, Update, FileAt, FileOf
<1>2. alone[c] /\ r.kind = "files" /\ ~r.failed => AsRead(content, r) /\ ReadOnce(r)
  BY <1>1 DEF FilesInv
<1>3. /\ content \in [Files -> Contents]
      /\ tmpOf = [f \in Files |-> tmpOf[f]] /\ \A f \in Files : TmpOK(tmpOf[f])
  BY DEF FilesInv
<1> HIDE DEF r
<1>4. /\ r.entries \in Seq(Edits) /\ r.seen \in Seq(Contents)
      /\ DOMAIN r.entries = 1..Len(r.entries) /\ DOMAIN r.seen = 1..Len(r.seen)
      /\ Len(r.entries) \in Nat /\ Len(r.seen) \in Nat
  BY <1>1 DEF CallOf
<1>5. /\ Len(r.seen) < Len(r.entries) /\ r.written = 0 /\ r.restored = 0
      /\ r.kind # "files" => Len(r.entries) = 1
  BY <1>1 DEF CallOK
<1>6. i \in DOMAIN r.entries /\ i \in Nat /\ i <= Len(r.entries)
  BY <1>4, <1>5
<1>7. x \in Contents
  <2>1. FileOf(r, i) \in Files
    BY <1>4, <1>6 DEF FileOf
  <2> QED
    BY <1>3, <2>1
<1> HIDE DEF x
<1>8. /\ seen \in Seq(Contents) /\ Len(seen) = i /\ DOMAIN seen = 1..i /\ seen[i] = x
      /\ \A k \in DOMAIN r.seen : seen[k] = r.seen[k]
      /\ \A k \in 1..i : k = i \/ k \in DOMAIN r.seen
  BY <1>4, <1>7
<1> HIDE DEF seen
<1>9. /\ at \in Places /\ at \in {"reading", "opening", "error"}
      /\ at = "reading" => i < Len(r.entries)
      /\ at = "opening" => i = Len(r.entries)
  BY <1>4, <1>6 DEF Places
<1> HIDE DEF at, i
<1>10. /\ new \in CallOf /\ new.at = at /\ new.kind = r.kind /\ new.entries = r.entries
       /\ new.seen = seen /\ new.written = r.written /\ new.restored = r.restored
       /\ new.failed = r.failed
  BY <1>1, <1>8, <1>9 DEF CallOf
<1> HIDE DEF new
<1>11. 1 \in WritesOf(r.entries)
  BY <1>4, <1>5 DEF WritesOf
<1>12. CallOK(new)
  BY <1>4, <1>5, <1>6, <1>8, <1>9, <1>10, <1>11 DEF CallOK, Writing
<1>13. ASSUME alone'[c], new.kind = "files", ~new.failed
       PROVE  AsRead(content', new) /\ ReadOnce(new)
  <2>1. \A k \in DOMAIN r.seen : content[FileOf(r, k)] = r.seen[k]
    BY <1>1, <1>2, <1>5, <1>10, <1>13 DEF AsRead
  <2>2. \A k \in 1..i : content[FileOf(r, k)] = seen[k]
    BY <1>8, <2>1 DEF x
  <2>3. \A k : FileOf(new, k) = FileOf(r, k)
    BY <1>10 DEF FileOf
  <2>4. \A k \in DOMAIN new.seen : content[FileOf(new, k)] = new.seen[k]
    BY <1>8, <1>10, <2>2, <2>3
  <2> QED
    BY <1>1, <2>4 DEF AsRead, ReadOnce, FileOf
<1>14. /\ alone' \in [Calls -> BOOLEAN] /\ \A d \in Calls \ {c} : ~alone'[d]
       /\ alone'[c] => \A d \in Calls \ {c} : ~Active(d)
  BY <1>1, AloneIsActive
<1> QED
  BY <1>1, <1>3, <1>9, <1>10, <1>12, <1>13, <1>14, CallStep

\* A file cannot be read, or the edit does not apply to it.
LEMMA ReadFailsStep ==
  ASSUME FilesInv, NEW c \in Calls, ReadFails(c)
  PROVE  FilesInv'
<1> USE FileToolsAssumption
<1> DEFINE r == call[c]
<1>1. /\ r \in CallOf /\ CallOK(r) /\ r.at = "reading" /\ Active(c)
      /\ UNCHANGED <<content, tmpOf, alone>>
      /\ call' = [call EXCEPT ![c] = IF r.kind = "note"
                      THEN [r EXCEPT !.seen = <<{}>>, !.failed = TRUE, !.at = "opening"]
                      ELSE [r EXCEPT !.at = "error"]]
  BY DEF ReadFails, FilesInv, Active, Update, Ends
<1>2. alone[c] /\ r.kind = "files" /\ ~r.failed => AsRead(content, r) /\ ReadOnce(r)
  BY <1>1 DEF FilesInv
<1>3. /\ content' \in [Files -> Contents]
      /\ tmpOf' = [f \in Files |-> tmpOf'[f]] /\ \A f \in Files : TmpOK(tmpOf'[f])
  BY <1>1 DEF FilesInv
<1>4. /\ alone' \in [Calls -> BOOLEAN] /\ \A d \in Calls \ {c} : ~alone'[d]
      /\ alone'[c] => \A d \in Calls \ {c} : ~Active(d)
  BY <1>1, AloneIsActive
<1> HIDE DEF r
<1>5. /\ Len(r.seen) < Len(r.entries) /\ r.written = 0 /\ r.restored = 0 /\ r.entries \in Seq(Edits)
      /\ Len(r.entries) \in Nat /\ Len(r.seen) \in Nat
      /\ r.kind # "files" => Len(r.entries) = 1
  BY <1>1 DEF CallOK, CallOf
<1>6. CASE r.kind = "note"
  <2> DEFINE one == <<{}>>
             new == [r EXCEPT !.seen = one, !.failed = TRUE, !.at = "opening"]
  <2>1. one \in Seq(Contents) /\ Len(one) = 1
    BY DEF Contents
  <2> HIDE DEF one
  <2>2. /\ new \in CallOf /\ new.at = "opening" /\ new.kind = r.kind /\ new.entries = r.entries
        /\ new.seen = one /\ new.written = r.written /\ new.restored = r.restored
    BY <1>1, <2>1 DEF CallOf, Places
  <2>3. call' = [call EXCEPT ![c] = new]
    BY <1>1, <1>6 DEF one
  <2> HIDE DEF new
  <2>4. 1 \in WritesOf(r.entries)
    BY <1>5, <1>6 DEF WritesOf
  <2>5. CallOK(new)
    BY <1>5, <1>6, <2>1, <2>2, <2>4 DEF CallOK, Writing
  <2>6. new.kind # "files"
    BY <1>6, <2>2
  <2> QED
    BY <1>3, <1>4, <2>2, <2>3, <2>5, <2>6, CallStep
<1>7. CASE r.kind # "note"
  <2> DEFINE new == [r EXCEPT !.at = "error"]
  <2>1. /\ new \in CallOf /\ new.at = "error" /\ new.kind = r.kind /\ new.entries = r.entries
        /\ new.seen = r.seen /\ new.written = r.written /\ new.restored = r.restored
        /\ new.failed = r.failed
    BY <1>1 DEF CallOf, Places
  <2>2. call' = [call EXCEPT ![c] = new]
    BY <1>1, <1>7
  <2> HIDE DEF new
  <2>3. CallOK(new)
    BY <1>5, <2>1 DEF CallOK, Writing
  <2>4. alone'[c] /\ new.kind = "files" /\ ~new.failed => AsRead(content', new) /\ ReadOnce(new)
    BY <1>1, <1>2, <2>1 DEF AsRead, ReadOnce, FileOf
  <2> QED
    BY <1>3, <1>4, <2>1, <2>2, <2>3, <2>4, CallStep
<1> QED
  BY <1>6, <1>7

\* The temporary file of a write is opened.
LEMMA OpenStep ==
  ASSUME FilesInv, NEW c \in Calls, OpenFile(c)
  PROVE  FilesInv'
<1> USE FileToolsAssumption
<1> DEFINE r == call[c]
           new == [r EXCEPT !.at = "filling"]
           f == FileOf(r, WriteNext(r))
<1>1. /\ r \in CallOf /\ CallOK(r) /\ r.at = "opening" /\ Active(c)
      /\ UNCHANGED alone /\ call' = [call EXCEPT ![c] = new]
  BY DEF OpenFile, FilesInv, Active, Update
<1>2. f = Target(c)
  BY DEF Target, WriteAt, FileAt, FileOf, WriteNext
<1>3. /\ r.kind = "files" => tmpOf' = [tmpOf EXCEPT ![f] = {Truncated}] /\ UNCHANGED content
      /\ r.kind # "files" => content' = [content EXCEPT ![f] = Truncated] /\ UNCHANGED tmpOf
  BY <1>2 DEF OpenFile
<1>4. alone[c] /\ r.kind = "files" /\ ~r.failed => AsRead(content, r) /\ ReadOnce(r)
  BY <1>1 DEF FilesInv
<1>5. /\ content \in [Files -> Contents]
      /\ tmpOf = [g \in Files |-> tmpOf[g]] /\ \A g \in Files : TmpOK(tmpOf[g])
  BY DEF FilesInv
<1>6. /\ alone' \in [Calls -> BOOLEAN] /\ \A d \in Calls \ {c} : ~alone'[d]
      /\ alone'[c] => \A d \in Calls \ {c} : ~Active(d)
  BY <1>1, AloneIsActive
<1> HIDE DEF r
<1>7. f \in Files
  BY <1>1, WriteNextIs DEF CallOK, Writing
<1>8. /\ new \in CallOf /\ new.at = "filling" /\ new.kind = r.kind /\ new.entries = r.entries
      /\ new.seen = r.seen /\ new.written = r.written /\ new.restored = r.restored
      /\ new.failed = r.failed
  BY <1>1 DEF CallOf, Places
<1> HIDE DEF new
<1>9. CallOK(new)
  BY <1>1, <1>8 DEF CallOK, Writing
<1>10. f = FileOf(new, WriteNext(new))
  BY <1>8 DEF FileOf, WriteNext
<1> HIDE DEF f
<1>11. Truncated \in Contents
  BY DEF Contents
<1>12. /\ content' \in [Files -> Contents]
       /\ tmpOf' = [g \in Files |-> tmpOf'[g]] /\ \A g \in Files : TmpOK(tmpOf'[g])
       /\ r.kind = "files" => tmpOf'[f] # {} /\ content' = content
  <2>1. CASE r.kind = "files"
    <3>1. /\ tmpOf' = [tmpOf EXCEPT ![f] = {Truncated}] /\ UNCHANGED content
      BY <1>3, <2>1
    <3>2. /\ tmpOf'[f] = {Truncated} /\ \A g \in Files \ {f} : tmpOf'[g] = tmpOf[g]
          /\ tmpOf' = [g \in Files |-> tmpOf'[g]]
      BY <1>5, <1>7, <3>1
    <3> QED
      BY <1>5, <1>11, <3>1, <3>2 DEF TmpOK
  <2>2. CASE r.kind # "files"
    <3>1. content' = [content EXCEPT ![f] = Truncated] /\ tmpOf' = tmpOf
      BY <1>3, <2>2
    <3>2. content' \in [Files -> Contents]
      BY <1>5, <1>7, <1>11, <3>1
    <3> QED
      BY <1>5, <2>2, <3>1, <3>2
  <2> QED
    BY <2>1, <2>2
<1>13. alone'[c] /\ new.kind = "files" /\ ~new.failed =>
         AsRead(content', new) /\ ReadOnce(new) /\ tmpOf'[FileOf(new, WriteNext(new))] # {}
  BY <1>1, <1>4, <1>8, <1>10, <1>12 DEF AsRead, ReadOnce, FileOf
<1> QED
  BY <1>1, <1>6, <1>8, <1>9, <1>12, <1>13, CallStep

\* What a call writes to a file: what it has read there, with its edit.
LEMMA NewContentIs ==
  ASSUME FilesInv, NEW c \in Calls, call[c].at \in Writing
  PROVE  NewContent(c, Target(c)) \in Contents
<1> USE FileToolsAssumption
<1> DEFINE r == call[c]
           f == FileOf(r, WriteNext(r))
           mine == {i \in DOMAIN r.entries : FileOf(r, i) = f}
           last == CHOOSE i \in mine : \A j \in mine : j <= i
           before == IF r.seen[last] = Truncated THEN {} ELSE r.seen[last]
<1>1. r \in CallOf /\ CallOK(r) /\ r.at \in Writing
  BY DEF FilesInv
<1>2. NewContent(c, Target(c)) = IF r.kind = "write" THEN {} ELSE before \cup {r.entries[last]}
  BY DEF NewContent, Target, WriteAt, FileAt, FileOf, WriteNext
<1> HIDE DEF r
<1>3. /\ r.entries \in Seq(Edits) /\ r.seen \in Seq(Contents)
      /\ DOMAIN r.entries = 1..Len(r.entries) /\ DOMAIN r.seen = 1..Len(r.seen)
      /\ Len(r.entries) \in Nat
      /\ r.kind # "write" => Len(r.seen) = Len(r.entries)
  BY <1>1 DEF CallOf, CallOK
<1>4. WriteNext(r) \in mine
  BY <1>1, WriteNextIs DEF CallOK
<1>5. last \in mine
  <2>1. mine \subseteq 0..Len(r.entries) /\ mine # {}
    BY <1>3, <1>4
  <2> HIDE DEF mine
  <2>2. \E i \in mine : \A j \in mine : j <= i
    BY <1>3, <2>1, GreatestNumber
  <2> QED
    BY <2>2
<1> HIDE DEF last
<1>6. CASE r.kind = "write"
  BY <1>2, <1>6 DEF Contents
<1>7. CASE r.kind # "write"
  <2>1. last \in 1..Len(r.entries) /\ r.entries[last] \in Edits /\ r.seen[last] \in Contents
    BY <1>3, <1>5, <1>7
  <2>2. before \in SUBSET Edits
    BY <2>1 DEF Contents
  <2> QED
    BY <1>2, <1>7, <2>1, <2>2 DEF Contents
<1> QED
  BY <1>6, <1>7

\* The new content is written to the temporary file.
LEMMA FillStep ==
  ASSUME FilesInv, NEW c \in Calls, FillFile(c)
  PROVE  FilesInv'
<1> USE FileToolsAssumption
<1> DEFINE r == call[c]
           at == IF r.kind = "files" THEN "renaming" ELSE "ok"
           new == [r EXCEPT !.at = at]
           f == FileOf(r, WriteNext(r))
           x == NewContent(c, Target(c))
<1>1. /\ r \in CallOf /\ CallOK(r) /\ r.at = "filling" /\ Active(c)
      /\ UNCHANGED alone /\ call' = [call EXCEPT ![c] = new]
  BY DEF FillFile, FilesInv, Active, Ends, Update
<1>2. f = Target(c)
  BY DEF Target, WriteAt, FileAt, FileOf, WriteNext
<1>3. \/ r.kind # "files" /\ content' = [content EXCEPT ![f] = x] /\ UNCHANGED tmpOf
      \/ r.kind = "files" /\ tmpOf[f] # {} /\ tmpOf' = [tmpOf EXCEPT ![f] = {x}] /\ UNCHANGED content
      \/ /\ r.kind = "files" /\ tmpOf[f] = {} /\ UNCHANGED tmpOf
         /\ content' = content \/ content' = [content EXCEPT ![f] = x]
  BY <1>2 DEF FillFile
<1>4. alone[c] /\ r.kind = "files" /\ ~r.failed =>
        AsRead(content, r) /\ ReadOnce(r) /\ tmpOf[f] # {}
  BY <1>1 DEF FilesInv
<1>5. /\ content \in [Files -> Contents]
      /\ tmpOf = [g \in Files |-> tmpOf[g]] /\ \A g \in Files : TmpOK(tmpOf[g])
  BY DEF FilesInv
<1>6. /\ alone' \in [Calls -> BOOLEAN] /\ \A d \in Calls \ {c} : ~alone'[d]
      /\ alone'[c] => \A d \in Calls \ {c} : ~Active(d)
  BY <1>1, AloneIsActive
<1>7. x \in Contents
  BY <1>1, NewContentIs DEF Writing
<1> HIDE DEF r, x
<1>8. f \in Files
  BY <1>1, WriteNextIs DEF CallOK, Writing
<1>9. at \in Places /\ at \in {"renaming", "ok"} /\ (at = "renaming" => r.kind = "files")
  BY DEF Places
<1> HIDE DEF at
<1>10. /\ new \in CallOf /\ new.at = at /\ new.kind = r.kind /\ new.entries = r.entries
       /\ new.seen = r.seen /\ new.written = r.written /\ new.restored = r.restored
       /\ new.failed = r.failed
  BY <1>1, <1>9 DEF CallOf
<1> HIDE DEF new
<1>11. CallOK(new)
  BY <1>1, <1>9, <1>10 DEF CallOK, Writing
<1>12. f = FileOf(new, WriteNext(new))
  BY <1>10 DEF FileOf, WriteNext
<1> HIDE DEF f
<1>13. /\ content' \in [Files -> Contents]
       /\ tmpOf' = [g \in Files |-> tmpOf'[g]] /\ \A g \in Files : TmpOK(tmpOf'[g])
       /\ r.kind = "files" /\ tmpOf[f] # {} => tmpOf'[f] # {} /\ content' = content
  <2>1. CASE tmpOf' = [tmpOf EXCEPT ![f] = {x}] /\ UNCHANGED content
    <3>1. /\ tmpOf'[f] = {x} /\ \A g \in Files \ {f} : tmpOf'[g] = tmpOf[g]
          /\ tmpOf' = [g \in Files |-> tmpOf'[g]]
      BY <1>5, <1>8, <2>1
    <3> QED
      BY <1>5, <1>7, <2>1, <3>1 DEF TmpOK
  <2>2. CASE /\ content' = content \/ content' = [content EXCEPT ![f] = x]
             /\ UNCHANGED tmpOf /\ (r.kind # "files" \/ tmpOf[f] = {})
    <3>1. content' \in [Files -> Contents]
      BY <1>5, <1>7, <1>8, <2>2
    <3> QED
      BY <1>5, <2>2, <3>1
  <2> QED
    BY <1>3, <2>1, <2>2
<1>14. alone'[c] /\ new.kind = "files" /\ ~new.failed =>
         AsRead(content', new) /\ ReadOnce(new) /\ tmpOf'[FileOf(new, WriteNext(new))] # {}
  BY <1>1, <1>4, <1>10, <1>12, <1>13 DEF AsRead, ReadOnce, FileOf
<1> QED
  BY <1>1, <1>6, <1>10, <1>11, <1>13, <1>14, CallStep

\* The temporary file takes the place of the file.
LEMMA RenameStep ==
  ASSUME FilesInv, NEW c \in Calls, RenameFile(c)
  PROVE  FilesInv'
<1> USE FileToolsAssumption
<1> DEFINE r == call[c]
           w == WriteNext(r)
           f == FileOf(r, w)
           at == AfterWrite(c)
           new == [r EXCEPT !.written = w, !.at = at]
           x == CHOOSE y \in tmpOf[f] : TRUE
<1>1. /\ r \in CallOf /\ CallOK(r) /\ r.at = "renaming" /\ Active(c)
  BY DEF RenameFile, FilesInv, Active
<1>2. f = Target(c) /\ w = WriteAt(c)
  BY DEF Target, WriteAt, FileAt, FileOf, WriteNext
<1>3. /\ UNCHANGED alone /\ call' = [call EXCEPT ![c] = new]
      /\ tmpOf[f] # {} /\ content' = [content EXCEPT ![f] = x]
      /\ tmpOf' = [tmpOf EXCEPT ![f] = {}]
  BY <1>2 DEF RenameFile, Update
<1>4. alone[c] /\ r.kind = "files" /\ ~r.failed => AsRead(content, r) /\ ReadOnce(r)
  BY <1>1 DEF FilesInv
<1>5. /\ content \in [Files -> Contents]
      /\ tmpOf = [g \in Files |-> tmpOf[g]] /\ \A g \in Files : TmpOK(tmpOf[g])
  BY DEF FilesInv
<1>6. /\ alone' \in [Calls -> BOOLEAN] /\ \A d \in Calls \ {c} : ~alone'[d]
      /\ alone'[c] => \A d \in Calls \ {c} : ~Active(d)
  BY <1>1, <1>3, AloneIsActive
<1>7. /\ at \in {"opening", "ok"}
      /\ at = "opening" => \E i \in WritesOf(r.entries) : i > w
  BY <1>2 DEF AfterWrite
<1> HIDE DEF r, at
<1>8. f \in Files /\ w \in WritesOf(r.entries) /\ w > r.written /\ w \in DOMAIN r.entries /\ w \in Nat
  BY <1>1, WriteNextIs DEF CallOK, Writing
<1> HIDE DEF w
<1>9. w <= Len(r.entries) /\ Len(r.entries) \in Nat /\ r.written \in Nat /\ r.restored \in Nat
  <2>1. r.entries \in Seq(Edits) /\ r.written \in Nat /\ r.restored \in Nat
    BY <1>1 DEF CallOf
  <2>2. DOMAIN r.entries = 1..Len(r.entries) /\ Len(r.entries) \in Nat
    BY <2>1
  <2> QED
    BY <1>8, <2>1, <2>2
<1>10. /\ new \in CallOf /\ new.at = at /\ new.kind = r.kind /\ new.entries = r.entries
       /\ new.seen = r.seen /\ new.written = w /\ new.restored = r.restored
       /\ new.failed = r.failed
  BY <1>1, <1>7, <1>8 DEF CallOf, Places
<1> HIDE DEF new
<1>11. r.restored = 0 /\ CallOK(new)
  BY <1>1, <1>7, <1>8, <1>9, <1>10 DEF CallOK, Writing
<1>12. /\ x \in Contents
  BY <1>3, <1>5, <1>8 DEF TmpOK
<1> HIDE DEF x, f
<1>13. /\ content' \in [Files -> Contents]
       /\ \A g \in Files \ {f} : content'[g] = content[g]
       /\ tmpOf' = [g \in Files |-> tmpOf'[g]] /\ \A g \in Files : TmpOK(tmpOf'[g])
  BY <1>3, <1>5, <1>8, <1>12 DEF TmpOK
<1>14. ASSUME alone'[c], new.kind = "files", ~new.failed
       PROVE  AsRead(content', new) /\ ReadOnce(new)
  <2>1. AsRead(content, r) /\ ReadOnce(r)
    BY <1>3, <1>4, <1>10, <1>14
  <2>2. ASSUME NEW i \in DOMAIN r.seen
        PROVE  \/ content'[FileOf(r, i)] = r.seen[i]
               \/ \E j \in 1..w : FileOf(r, j) = FileOf(r, i)
    <3>1. CASE FileOf(r, i) = f
      <4>1. w \in 1..w /\ FileOf(r, w) = FileOf(r, i)
        BY <1>8, <1>9, <3>1 DEF f
      <4> QED
        BY <4>1
    <3>2. CASE \E j \in 1..r.written : FileOf(r, j) = FileOf(r, i)
      BY <1>8, <1>9, <3>2
    <3>3. CASE FileOf(r, i) # f /\ content[FileOf(r, i)] = r.seen[i]
      <4>1. FileOf(r, i) \in Files
        <5>1. i \in DOMAIN r.entries /\ r.entries \in Seq(Edits)
          BY <1>1 DEF CallOf, CallOK
        <5> QED
          BY <5>1 DEF FileOf
      <4> QED
        BY <1>13, <3>3, <4>1
    <3> QED
      BY <1>11, <2>1, <3>1, <3>2, <3>3 DEF AsRead
  <2>3. \A k : FileOf(new, k) = FileOf(r, k)
    BY <1>10 DEF FileOf
  <2> QED
    BY <1>10, <1>11, <2>1, <2>2, <2>3 DEF AsRead, ReadOnce
<1> QED
  BY <1>3, <1>6, <1>7, <1>10, <1>11, <1>13, <1>14, CallStep

\* A write fails before it changes the file.
LEMMA WriteFailsStep ==
  ASSUME FilesInv, NEW c \in Calls, WriteFails(c)
  PROVE  FilesInv'
<1> USE FileToolsAssumption
<1> DEFINE r == call[c]
           f == FileOf(r, WriteNext(r))
           at == IF r.kind = "files" /\ r.written > 0 THEN "restoring" ELSE "error"
           new == [r EXCEPT !.at = at]
<1>1. /\ r \in CallOf /\ CallOK(r) /\ r.at \in Writing /\ r.at # "ok" /\ Active(c)
      /\ UNCHANGED <<content, alone>> /\ call' = [call EXCEPT ![c] = new]
  BY DEF WriteFails, FilesInv, Active, Ends, Update, Writing
<1>2. f = Target(c)
  BY DEF Target, WriteAt, FileAt, FileOf, WriteNext
<1>3. tmpOf' = [tmpOf EXCEPT ![f] = {}] \/ tmpOf' = tmpOf
  BY <1>2 DEF WriteFails
<1>4. alone[c] /\ r.kind = "files" /\ ~r.failed => AsRead(content, r) /\ ReadOnce(r)
  BY <1>1 DEF FilesInv
<1>5. /\ content \in [Files -> Contents]
      /\ tmpOf = [g \in Files |-> tmpOf[g]] /\ \A g \in Files : TmpOK(tmpOf[g])
  BY DEF FilesInv
<1>6. /\ alone' \in [Calls -> BOOLEAN] /\ \A d \in Calls \ {c} : ~alone'[d]
      /\ alone'[c] => \A d \in Calls \ {c} : ~Active(d)
  BY <1>1, AloneIsActive
<1> HIDE DEF r
<1>7. /\ at \in Places /\ at \in {"restoring", "error"}
      /\ at = "restoring" => r.kind = "files" /\ r.written > 0
      /\ at = "error" /\ r.kind = "files" => ~(r.written > 0)
  BY DEF Places
<1> HIDE DEF at
<1>8. f \in Files
  BY <1>1, WriteNextIs DEF CallOK
<1> HIDE DEF f
<1>9. /\ tmpOf' = [g \in Files |-> tmpOf'[g]] /\ \A g \in Files : TmpOK(tmpOf'[g])
  BY <1>3, <1>5, <1>8 DEF TmpOK
<1>10. /\ new \in CallOf /\ new.at = at /\ new.kind = r.kind /\ new.entries = r.entries
       /\ new.seen = r.seen /\ new.written = r.written /\ new.restored = r.restored
       /\ new.failed = r.failed
  BY <1>1, <1>7 DEF CallOf
<1> HIDE DEF new
<1>11. r.written \in Nat /\ r.restored = 0
  BY <1>1 DEF CallOf, CallOK
<1>12. CallOK(new)
  BY <1>1, <1>7, <1>10, <1>11 DEF CallOK, Writing
<1>13. alone'[c] /\ new.kind = "files" /\ ~new.failed => AsRead(content', new) /\ ReadOnce(new)
  BY <1>1, <1>4, <1>10 DEF AsRead, ReadOnce, FileOf
<1> QED
  BY <1>1, <1>5, <1>6, <1>7, <1>9, <1>10, <1>12, <1>13, CallStep

\* A file that was written is restored.
LEMMA RestoreStep ==
  ASSUME FilesInv, NEW c \in Calls, RestoreFile(c)
  PROVE  FilesInv'
<1> USE FileToolsAssumption
<1> DEFINE r == call[c]
           i == r.restored + 1
           f == FileOf(r, i)
           at == IF i = r.written THEN "error" ELSE "restoring"
           step == [r EXCEPT !.restored = i, !.at = at]
<1>1. /\ r \in CallOf /\ CallOK(r) /\ r.at = "restoring" /\ Active(c)
      /\ UNCHANGED <<tmpOf, alone>>
      /\ \/ content' = [content EXCEPT ![f] = r.seen[i]] /\ call' = [call EXCEPT ![c] = step]
         \/ content' = content /\ call' = [call EXCEPT ![c] = [step EXCEPT !.failed = TRUE]]
  BY DEF RestoreFile, FilesInv, Active, Update, FileAt, FileOf
<1>2. alone[c] /\ r.kind = "files" /\ ~r.failed => AsRead(content, r) /\ ReadOnce(r)
  BY <1>1 DEF FilesInv
<1>3. /\ content \in [Files -> Contents]
      /\ tmpOf' = [g \in Files |-> tmpOf'[g]] /\ \A g \in Files : TmpOK(tmpOf'[g])
  BY <1>1 DEF FilesInv
<1>4. /\ alone' \in [Calls -> BOOLEAN] /\ \A d \in Calls \ {c} : ~alone'[d]
      /\ alone'[c] => \A d \in Calls \ {c} : ~Active(d)
  BY <1>1, AloneIsActive
<1> HIDE DEF r
<1>5. /\ r.kind = "files" /\ r.restored < r.written /\ r.written <= Len(r.entries)
      /\ Len(r.seen) = Len(r.entries) /\ r.restored \in Nat /\ r.written \in Nat
      /\ r.entries \in Seq(Edits) /\ r.seen \in Seq(Contents)
  BY <1>1 DEF CallOf, CallOK
<1>6. /\ DOMAIN r.entries = 1..Len(r.entries) /\ DOMAIN r.seen = 1..Len(r.entries) /\ Len(r.entries) \in Nat
  BY <1>5
<1>7. /\ i \in Nat /\ i <= r.written /\ i \in DOMAIN r.entries /\ i \in DOMAIN r.seen
      /\ \A k \in Nat : k <= r.written /\ k >= i + 1 <=> k <= r.written /\ k >= r.restored + 1 /\ k # i
  BY <1>5, <1>6
<1>8. \A k \in DOMAIN r.entries : FileOf(r, k) \in Files
  BY <1>5, <1>6 DEF FileOf
<1>9. r.seen[i] \in Contents
  BY <1>5, <1>7
<1>10. /\ at \in Places /\ at \in {"restoring", "error"}
       /\ at = "restoring" => i < r.written
       /\ at = "error" => i = r.written
  BY <1>5, <1>7 DEF Places
<1> HIDE DEF at
<1>11. /\ step \in CallOf /\ step.at = at /\ step.kind = r.kind /\ step.entries = r.entries
       /\ step.seen = r.seen /\ step.written = r.written /\ step.restored = i
       /\ step.failed = r.failed
  BY <1>1, <1>7, <1>10 DEF CallOf
<1> HIDE DEF step
<1>12. CallOK(step)
  BY <1>5, <1>7, <1>10, <1>11 DEF CallOK, Writing
<1>13. CASE content' = [content EXCEPT ![f] = r.seen[i]] /\ call' = [call EXCEPT ![c] = step]
  <2>1. f \in Files
    BY <1>7, <1>8
  <2>2. /\ content' \in [Files -> Contents] /\ content'[f] = r.seen[i]
        /\ \A g \in Files \ {f} : content'[g] = content[g]
    BY <1>3, <1>9, <1>13, <2>1
  <2>3. ASSUME alone'[c], ~step.failed PROVE AsRead(content', step) /\ ReadOnce(step)
    <3>1. AsRead(content, r) /\ ReadOnce(r)
      BY <1>1, <1>2, <1>5, <1>11, <2>3
    <3>2. ASSUME NEW k \in DOMAIN r.seen
          PROVE  \/ content'[FileOf(r, k)] = r.seen[k]
                 \/ \E j \in (i + 1)..r.written : FileOf(r, j) = FileOf(r, k)
      <4>1. CASE FileOf(r, k) = f
        BY <1>7, <2>2, <3>1, <4>1 DEF ReadOnce
      <4>2. CASE FileOf(r, k) # f /\ content[FileOf(r, k)] = r.seen[k]
        BY <1>6, <1>8, <2>2, <4>2
      <4>3. ASSUME NEW j \in (r.restored + 1)..r.written, FileOf(r, j) = FileOf(r, k), FileOf(r, k) # f
            PROVE  j \in (i + 1)..r.written
        BY <1>5, <1>7, <4>3
      <4> QED
        BY <3>1, <4>1, <4>2, <4>3 DEF AsRead
    <3>3. \A k : FileOf(step, k) = FileOf(r, k)
      BY <1>11 DEF FileOf
    <3> QED
      BY <1>11, <3>1, <3>2, <3>3 DEF AsRead, ReadOnce
  <2> QED
    BY <1>3, <1>4, <1>10, <1>11, <1>12, <1>13, <2>2, <2>3, CallStep
<1>14. CASE content' = content /\ call' = [call EXCEPT ![c] = [step EXCEPT !.failed = TRUE]]
  <2> DEFINE new == [step EXCEPT !.failed = TRUE]
  <2>1. /\ new \in CallOf /\ new.at = at /\ new.kind = r.kind /\ new.entries = r.entries
        /\ new.seen = r.seen /\ new.written = r.written /\ new.restored = i
        /\ new.failed = TRUE
    BY <1>11 DEF CallOf
  <2>2. call' = [call EXCEPT ![c] = new]
    BY <1>14
  <2> HIDE DEF new
  <2>3. CallOK(new)
    BY <1>5, <1>7, <1>10, <2>1 DEF CallOK, Writing
  <2> QED
    BY <1>3, <1>4, <1>14, <2>1, <2>2, <2>3, CallStep
<1> QED
  BY <1>1, <1>13, <1>14

\* All steps of the calls.
LEMMA FilesStep == FilesInv /\ [FilesNext]_toolVars => FilesInv'
<1> SUFFICES ASSUME FilesInv, [FilesNext]_toolVars PROVE FilesInv'
  OBVIOUS
<1>1. ASSUME NEW c \in Calls, NEW kind \in Kinds,
             NEW entries \in {<<d>> : d \in Edits} \cup {<<d, e>> : d, e \in Edits}, Begin(c, kind, entries)
      PROVE  FilesInv'
  <2>1. CASE \E d \in Edits : entries = <<d>>
    <3>1. PICK d \in Edits : entries = <<d>>
      BY <2>1
    <3>2. entries \in Seq(Edits) /\ Len(entries) > 0
      BY <3>1
    <3> QED
      BY <1>1, <3>2, BeginStep
  <2>2. CASE \E d, e \in Edits : entries = <<d, e>>
    <3>1. PICK d \in Edits, e \in Edits : entries = <<d, e>>
      BY <2>2
    <3>2. entries \in Seq(Edits) /\ Len(entries) > 0
      BY <3>1
    <3> QED
      BY <1>1, <3>2, BeginStep
  <2> QED
    BY <2>1, <2>2
<1>2. ASSUME NEW c \in Calls, ReadFile(c) \/ ReadFails(c) \/ OpenFile(c) \/ FillFile(c)
                               \/ RenameFile(c) \/ WriteFails(c) \/ RestoreFile(c)
      PROVE  FilesInv'
  BY <1>2, ReadStep, ReadFailsStep, OpenStep, FillStep, RenameStep, WriteFailsStep, RestoreStep
<1>3. CASE UNCHANGED toolVars
  <2>1. UNCHANGED <<content, tmpOf, call, alone>>
    BY <1>3 DEF toolVars
  <2> QED
    BY <2>1 DEF FilesInv, Active
<1> QED
  BY <1>1, <1>2, <1>3 DEF FilesNext

\* The invariant is stronger than the types and the property.
LEMMA FilesSafe == FilesInv => FilesTypeOK /\ FailedEditsLeaveNothing
<1> SUFFICES ASSUME FilesInv PROVE FilesTypeOK /\ FailedEditsLeaveNothing
  OBVIOUS
<1>1. tmpOf \in [Files -> {{}} \cup {{x} : x \in Contents}]
  BY DEF FilesInv, TmpOK
<1>2. FilesTypeOK
  BY <1>1 DEF FilesInv, FilesTypeOK, CallOf, Places, CallOK
<1>3. ASSUME NEW c \in Calls, EditsFinished(c), call[c].kind = "files", call[c].at = "error",
             NEW i \in DOMAIN call[c].seen
      PROVE  content[FileAt(c, i)] = call[c].seen[i]
  <2>1. alone[c] /\ ~call[c].failed /\ AsRead(content, call[c]) /\ call[c].restored = call[c].written
    BY <1>3 DEF FilesInv, EditsFinished, CallOK
  <2>2. call[c].written \in Nat
    BY DEF FilesInv, CallOf
  <2>3. (call[c].restored + 1)..call[c].written = {}
    BY <2>1, <2>2
  <2> QED
    BY <2>1, <2>3 DEF AsRead, FileOf, FileAt
<1> QED
  BY <1>2, <1>3 DEF FailedEditsLeaveNothing

-----------------------------------------------------------------------------
(***************************************************************************)
(* The browsers of tools (BrowserPool).                                    *)
(***************************************************************************)

\* A browser is that of one session at most, and while it is closed of none.
PoolInv ==
  /\ PoolTypeOK
  /\ PooledBrowsersAreOpen
  /\ \A j, k \in PoolKeys : pool[j] # NoBrowser /\ pool[j] = pool[k] => j = k
  /\ \A u \in Users : using[u].at = "closing" =>
       /\ using[u].browser \in Browsers /\ browsers[using[u].browser] # "none"
       /\ \A k \in PoolKeys : pool[k] # using[u].browser

\* The use that a call makes of a browser.
UseOfTool == [at : {"idle", "launching", "using", "closing"}, key : PoolKeys,
        browser : Browsers \cup {NoBrowser}]

\* No browser is launched at first.
LEMMA PoolInitInv == PoolInit => PoolInv
<1> SUFFICES ASSUME PoolInit PROVE PoolInv
  OBVIOUS
<1> USE PoolAssumption
<1>1. NotUsing \in UseOfTool /\ NotUsing.at = "idle"
  BY DEF NotUsing, UseOfTool
<1>2. using \in [Users -> UseOfTool] /\ \A u \in Users : using[u].at = "idle"
  BY <1>1 DEF PoolInit
<1>3. PoolTypeOK
  BY <1>2 DEF PoolInit, PoolTypeOK, UseOfTool
<1> QED
  BY <1>2, <1>3 DEF PoolInit, PoolInv, PooledBrowsersAreOpen

\* A call goes on, and is not closing a browser; the pool may gain a browser that
\* was not launched yet.
LEMMA UseStep ==
  ASSUME PoolInv, NEW u \in Users, NEW use \in UseOfTool, use.at # "closing",
         using' = [using EXCEPT ![u] = use], leaving' = leaving,
         \/ pool' = pool /\ browsers' = browsers
         \/ \E b \in Browsers : browsers[b] = "none" /\ Started(b) /\ pool' = pool
         \/ \E b \in Browsers, k \in PoolKeys :
              browsers[b] = "none" /\ Started(b) /\ pool' = [pool EXCEPT ![k] = b]
  PROVE  PoolInv'
<1>1. using' \in [Users -> UseOfTool]
  BY DEF PoolInv, PoolTypeOK, UseOfTool
<1>2. \A v \in Users : using'[v].at = "closing" => v # u /\ using'[v] = using[v]
  BY DEF PoolInv, PoolTypeOK
<1> USE PoolAssumption
<1>3. CASE pool' = pool /\ browsers' = browsers
  <2>1. PoolTypeOK'
    BY <1>1, <1>3 DEF PoolInv, PoolTypeOK, UseOfTool
  <2> QED
    BY <1>2, <1>3, <2>1 DEF PoolInv, PooledBrowsersAreOpen
<1>4. ASSUME NEW b \in Browsers, browsers[b] = "none", Started(b), pool' = pool PROVE PoolInv'
  <2>1. browsers' \in [Browsers -> {"none", "open", "closed"}]
    BY <1>4 DEF PoolInv, PoolTypeOK, Started
  <2>2. PoolTypeOK'
    BY <1>1, <1>4, <2>1 DEF PoolInv, PoolTypeOK, UseOfTool
  <2>3. browsers'[b] = "open" /\ \A x \in Browsers \ {b} : browsers'[x] = browsers[x]
    BY <1>4 DEF PoolInv, PoolTypeOK, Started
  <2>4. \A k \in PoolKeys : pool[k] # NoBrowser => pool[k] \in Browsers \ {b}
    BY <1>4 DEF PoolInv, PoolTypeOK, PooledBrowsersAreOpen
  <2> QED
    BY <1>2, <1>4, <2>2, <2>3, <2>4 DEF PoolInv, PooledBrowsersAreOpen
<1>5. ASSUME NEW b \in Browsers, NEW k \in PoolKeys, browsers[b] = "none", Started(b),
             pool' = [pool EXCEPT ![k] = b]
      PROVE  PoolInv'
  <2>1. /\ browsers' \in [Browsers -> {"none", "open", "closed"}]
        /\ pool' \in [PoolKeys -> Browsers \cup {NoBrowser}]
    BY <1>5 DEF PoolInv, PoolTypeOK, Started
  <2>2. PoolTypeOK'
    BY <1>1, <2>1 DEF PoolInv, PoolTypeOK, UseOfTool
  <2>3. browsers'[b] = "open" /\ \A x \in Browsers \ {b} : browsers'[x] = browsers[x]
    BY <1>5 DEF PoolInv, PoolTypeOK, Started
  <2>4. pool'[k] = b /\ \A j \in PoolKeys \ {k} : pool'[j] = pool[j]
    BY <1>5 DEF PoolInv, PoolTypeOK
  <2>5. \A j \in PoolKeys : pool[j] # NoBrowser => pool[j] \in Browsers \ {b}
    BY <1>5 DEF PoolInv, PoolTypeOK, PooledBrowsersAreOpen
  <2>6. PooledBrowsersAreOpen'
    BY <2>3, <2>4, <2>5 DEF PoolInv, PooledBrowsersAreOpen
  <2>7. \A i, j \in PoolKeys : pool'[i] # NoBrowser /\ pool'[i] = pool'[j] => i = j
    BY <2>4, <2>5 DEF PoolInv
  <2>8. ASSUME NEW v \in Users, using'[v].at = "closing"
        PROVE  /\ using'[v].browser \in Browsers /\ browsers'[using'[v].browser] # "none"
               /\ \A j \in PoolKeys : pool'[j] # using'[v].browser
    <3>1. using'[v] = using[v] /\ using[v].browser \in Browsers \ {b}
      BY <1>2, <1>5, <2>8 DEF PoolInv
    <3> QED
      BY <2>3, <2>4, <2>8, <3>1 DEF PoolInv
  <2> QED
    BY <2>2, <2>6, <2>7, <2>8 DEF PoolInv
<1> QED
  BY <1>3, <1>4, <1>5

\* The tool closes the browser of a session, which leaves the pool first.
LEMMA CloseSessionStep ==
  ASSUME PoolInv, NEW u \in Users, NEW k \in PoolKeys, CloseSession(u, k) PROVE PoolInv'
<1> USE PoolAssumption DEF CloseSession
<1> DEFINE use == [at |-> "closing", key |-> k, browser |-> pool[k]]
<1>1. use \in UseOfTool /\ use.at = "closing" /\ use.browser = pool[k] /\ pool[k] \in Browsers
  BY DEF PoolInv, PoolTypeOK, UseOfTool
<1>2. using' = [using EXCEPT ![u] = use]
  OBVIOUS
<1> HIDE DEF use
<1>3. using' \in [Users -> UseOfTool] /\ using'[u] = use /\ \A v \in Users \ {u} : using'[v] = using[v]
  BY <1>1, <1>2 DEF PoolInv, PoolTypeOK, UseOfTool
<1>4. /\ pool' \in [PoolKeys -> Browsers \cup {NoBrowser}]
      /\ pool'[k] = NoBrowser /\ \A j \in PoolKeys \ {k} : pool'[j] = pool[j]
  BY DEF PoolInv, PoolTypeOK
<1>5. PoolTypeOK'
  BY <1>3, <1>4 DEF PoolInv, PoolTypeOK, UseOfTool
<1>6. PooledBrowsersAreOpen'
  BY <1>4 DEF PoolInv, PooledBrowsersAreOpen
<1>7. \A i, j \in PoolKeys : pool'[i] # NoBrowser /\ pool'[i] = pool'[j] => i = j
  BY <1>4 DEF PoolInv
<1>8. ASSUME NEW v \in Users, using'[v].at = "closing"
      PROVE  /\ using'[v].browser \in Browsers /\ browsers'[using'[v].browser] # "none"
             /\ \A j \in PoolKeys : pool'[j] # using'[v].browser
  <2>1. CASE v = u
    BY <1>1, <1>3, <1>4, <2>1 DEF PoolInv, PooledBrowsersAreOpen
  <2>2. CASE v # u
    BY <1>3, <1>4, <1>8, <2>2 DEF PoolInv
  <2> QED
    BY <2>1, <2>2
<1> QED
  BY <1>5, <1>6, <1>7, <1>8 DEF PoolInv

\* A browser that left the pool is closed.
LEMMA BrowserClosesStep == ASSUME PoolInv, NEW u \in Users, BrowserCloses(u) PROVE PoolInv'
<1> USE PoolAssumption DEF BrowserCloses
<1>1. NotUsing \in UseOfTool /\ NotUsing.at = "idle"
  BY DEF NotUsing, UseOfTool, PoolInv, PoolTypeOK
<1>2. /\ using' \in [Users -> UseOfTool]
      /\ \A v \in Users : using'[v].at = "closing" => using'[v] = using[v]
  BY <1>1 DEF PoolInv, PoolTypeOK, UseOfTool, Rests
<1>3. /\ browsers' \in [Browsers -> {"none", "open", "closed"}]
      /\ browsers'[using[u].browser] = "closed"
      /\ \A x \in Browsers \ {using[u].browser} : browsers'[x] = browsers[x]
  BY DEF PoolInv, PoolTypeOK
<1>4. PoolTypeOK'
  BY <1>2, <1>3 DEF PoolInv, PoolTypeOK, UseOfTool
<1>5. PooledBrowsersAreOpen'
  BY <1>3 DEF PoolInv, PoolTypeOK, PooledBrowsersAreOpen
<1>6. ASSUME NEW v \in Users, using'[v].at = "closing"
      PROVE  /\ using'[v].browser \in Browsers /\ browsers'[using'[v].browser] # "none"
             /\ \A j \in PoolKeys : pool'[j] # using'[v].browser
  BY <1>2, <1>3, <1>6 DEF PoolInv
<1> QED
  BY <1>4, <1>5, <1>6 DEF PoolInv

\* The pool is emptied, and what was in it is closed.
LEMMA EmptiedStep ==
  ASSUME PoolInv, leaving' \in {"closing", "gone"},
         pool' = [k \in PoolKeys |-> NoBrowser],
         browsers' = [b \in Browsers |-> IF \E k \in PoolKeys : pool[k] = b THEN "closed" ELSE browsers[b]],
         \/ using' = using
         \/ using' = [u \in Users |-> NotUsing]
  PROVE  PoolInv'
<1> USE PoolAssumption
<1>1. /\ browsers' \in [Browsers -> {"none", "open", "closed"}]
      /\ pool' \in [PoolKeys -> Browsers \cup {NoBrowser}]
  BY DEF PoolInv, PoolTypeOK
<1>2. CASE using' = using
  <2>1. PoolTypeOK'
    BY <1>1, <1>2 DEF PoolInv, PoolTypeOK
  <2>2. PooledBrowsersAreOpen' /\ \A i, j \in PoolKeys : pool'[i] # NoBrowser /\ pool'[i] = pool'[j] => i = j
    BY DEF PooledBrowsersAreOpen
  <2>3. ASSUME NEW v \in Users, using'[v].at = "closing"
        PROVE  /\ using'[v].browser \in Browsers /\ browsers'[using'[v].browser] # "none"
               /\ \A j \in PoolKeys : pool'[j] # using'[v].browser
    <3>1. using[v].browser \in Browsers /\ browsers[using[v].browser] # "none"
      BY <1>2, <2>3 DEF PoolInv
    <3>2. browsers'[using[v].browser] # "none"
      BY <3>1
    <3> QED
      BY <1>2, <3>1, <3>2
  <2> QED
    BY <2>1, <2>2, <2>3 DEF PoolInv
<1>3. CASE using' = [u \in Users |-> NotUsing]
  <2>1. Users # {} => NotUsing \in UseOfTool /\ NotUsing.at = "idle"
    BY DEF NotUsing, UseOfTool, PoolInv, PoolTypeOK
  <2>2. using' \in [Users -> UseOfTool] /\ \A v \in Users : using'[v].at # "closing"
    BY <1>3, <2>1
  <2>3. PoolTypeOK'
    BY <1>1, <2>2 DEF PoolInv, PoolTypeOK, UseOfTool
  <2> QED
    BY <2>2, <2>3 DEF PoolInv, PooledBrowsersAreOpen
<1> QED
  BY <1>2, <1>3

\* All steps of the pool.
LEMMA PoolStep == PoolInv /\ [PoolNext]_poolVars => PoolInv'
<1> SUFFICES ASSUME PoolInv, [PoolNext]_poolVars PROVE PoolInv'
  OBVIOUS
<1> USE PoolAssumption
<1>0. /\ using \in [Users -> UseOfTool] /\ pool \in [PoolKeys -> Browsers \cup {NoBrowser}]
      /\ \A u \in Users : NotUsing \in UseOfTool /\ NotUsing.at = "idle"
  BY DEF NotUsing, UseOfTool, PoolInv, PoolTypeOK
<1>1. CASE UNCHANGED poolVars
  BY <1>1 DEF PoolInv, PoolTypeOK, PooledBrowsersAreOpen, poolVars
<1>2. ASSUME NEW u \in Users, NEW k \in PoolKeys, GetBrowser(u, k) PROVE PoolInv'
  <2> DEFINE use == [at |-> IF pool[k] = NoBrowser THEN "launching" ELSE "using",
                     key |-> k, browser |-> pool[k]]
  <2>1. use \in UseOfTool /\ use.at # "closing"
    BY <1>0 DEF UseOfTool
  <2>2. using' = [using EXCEPT ![u] = use] /\ leaving' = leaving /\ pool' = pool /\ browsers' = browsers
    BY <1>2 DEF GetBrowser, GetSession
  <2> HIDE DEF use
  <2> QED
    BY <2>1, <2>2, UseStep
<1>3. ASSUME NEW u \in Users, NEW b \in Browsers, Launch(u, b) PROVE PoolInv'
  <2> DEFINE use == [using[u] EXCEPT !.at = "using", !.browser = b]
  <2>1. use \in UseOfTool /\ use.at # "closing" /\ using[u].key \in PoolKeys
    BY <1>0 DEF UseOfTool
  <2>2. using' = [using EXCEPT ![u] = use] /\ leaving' = leaving
    BY <1>0, <1>3 DEF Launch
  <2>3. browsers[b] = "none" /\ Started(b) /\ pool' = [pool EXCEPT ![using[u].key] = b]
    BY <1>3 DEF Launch
  <2> HIDE DEF use
  <2> QED
    BY <2>1, <2>2, <2>3, UseStep
<1>4. ASSUME NEW u \in Users, LaunchFails(u) \/ EndUse(u) PROVE PoolInv'
  <2>1. using' = [using EXCEPT ![u] = NotUsing] /\ leaving' = leaving /\ pool' = pool
    BY <1>4 DEF LaunchFails, EndUse, Rests
  <2>2. browsers' = browsers \/ \E b \in Browsers : browsers[b] = "none" /\ Started(b)
    BY <1>4 DEF LaunchFails, EndUse
  <2>3. NotUsing \in UseOfTool /\ NotUsing.at # "closing"
    BY <1>0
  <2> QED
    BY <2>1, <2>2, <2>3, UseStep
<1>5. ASSUME CloseAll \/ LeaveProcess PROVE PoolInv'
  BY <1>5, EmptiedStep DEF CloseAll, LeaveProcess
<1> QED
  BY <1>1, <1>2, <1>3, <1>4, <1>5, CloseSessionStep, BrowserClosesStep DEF PoolNext

-----------------------------------------------------------------------------
(***************************************************************************)
(* All parts together (MCAgents).                                          *)
(***************************************************************************)

\* Every step of the whole is a step, or a stutter, of each part.
LEMMA StepsOfTheAgents ==
  [AgentsNext]_agentVars =>
    /\ [Next]_vars /\ [MemNext]_memVars /\ [BankNext]_bankVars /\ [RatingNext]_ratingVars
    /\ [SubAgentsNext]_team /\ [FilesNext]_toolVars /\ [PoolNext]_poolVars
    /\ [CheckpointNext]_checkpointVars /\ [StreamNext]_streamVars
<1> SUFFICES ASSUME [AgentsNext]_agentVars
             PROVE  /\ [Next]_vars /\ [MemNext]_memVars /\ [BankNext]_bankVars /\ [RatingNext]_ratingVars
                    /\ [SubAgentsNext]_team /\ [FilesNext]_toolVars /\ [PoolNext]_poolVars
                    /\ [CheckpointNext]_checkpointVars /\ [StreamNext]_streamVars
  OBVIOUS
<1>1. CASE UNCHANGED agentVars
  BY <1>1 DEF agentVars
<1>2. CASE AgentsNext
  BY <1>2 DEF AgentsNext, Others
<1> QED
  BY <1>1, <1>2

\* The whole starts where the parts do.
LEMMA StartsOfTheAgents ==
  AgentsInit =>
    /\ Init /\ MemInit /\ BankInit /\ RatingInit /\ SubAgentsInit /\ FilesInit /\ PoolInit
    /\ CheckpointInit /\ StreamInit
  BY DEF AgentsInit

\* What a session costs is counted to the last cent, and no turn begins at its limit:
\* provided that metadata comes before the next call, that saves succeed and that no
\* run ends at an open circuit.  Each of the three is needed: metadata that comes later
\* takes a cost off the total, and a run that was not saved, or ended without a save,
\* leaves what it has cost out of the next one.
THEOREM SpendingIsCounted == CanCount => (AgentsSpec => []MoneyIsCounted)
<1> SUFFICES ASSUME CanCount PROVE AgentsSpec => []MoneyIsCounted
  OBVIOUS
<1>1. AgentsInit => MoneyInv
  BY StartsOfTheAgents, MoneyInitInv
<1>2. MoneyInv /\ [AgentsNext]_agentVars => MoneyInv'
  BY StepsOfTheAgents, MoneyStep
<1>3. MoneyInv => MoneyIsCounted
  BY MoneySafe DEF MoneyIsCounted
<1> QED
  BY <1>1, <1>2, <1>3, PTL DEF AgentsSpec

\* What the memory knows is stated by an entry, or is about to be.
THEOREM MemoryKeepsWhatItKnows == AgentsSpec => []NothingForgotten
<1>1. AgentsSpec => []MemInv
  BY StartsOfTheAgents, StepsOfTheAgents, MemInitInv, MemStep, PTL DEF AgentsSpec
<1>2. MemInv => NothingForgotten
  BY DEF MemInv
<1> QED
  BY <1>1, <1>2, PTL

\* The skill bank has no twins but from a race, an archived skill points to the one it
\* was merged into, and a rate is the share of successes.
THEOREM TheBankIsKept == AgentsSpec => []SkillsAreKept
<1>1. AgentsSpec => []BankInv
  BY StartsOfTheAgents, StepsOfTheAgents, BankInitInv, BankStep, PTL DEF AgentsSpec
<1>2. AgentsSpec => []RatingInv
  BY StartsOfTheAgents, StepsOfTheAgents, RatingInitInv, RatingStep, PTL DEF AgentsSpec
<1>3. BankInv => NoTwins /\ ArchivedPointToTheirMerger
  BY DEF BankInv, ArchivedPointToTheirMerger
<1>4. BankInv /\ RatingInv => SkillsAreKept
  BY <1>3, RatingSafe DEF SkillsAreKept
<1> QED
  BY <1>1, <1>2, <1>4, PTL

\* A run within a run has no more than the runs above it.
THEOREM SubAgentsAreLimited == AgentsSpec => []LimitsAreInherited
<1>1. AgentsSpec => []TeamInv
  BY StartsOfTheAgents, StepsOfTheAgents, TeamInitInv, TeamStep, PTL DEF AgentsSpec
<1>2. TeamInv => LimitsAreInherited
  BY TeamSafe
<1> QED
  BY <1>1, <1>2, PTL

\* Tools leave no half of an edit and no closed browser in the pool.
THEOREM ToolsTidyUp == AgentsSpec => []ToolsLeaveOrder
<1>1. AgentsSpec => []FilesInv
  BY StartsOfTheAgents, StepsOfTheAgents, FilesInitInv, FilesStep, PTL DEF AgentsSpec
<1>2. AgentsSpec => []PoolInv
  BY StartsOfTheAgents, StepsOfTheAgents, PoolInitInv, PoolStep, PTL DEF AgentsSpec
<1>3. FilesInv /\ PoolInv => ToolsLeaveOrder
  BY FilesSafe DEF PoolInv, ToolsLeaveOrder
<1> QED
  BY <1>1, <1>2, <1>3, PTL

\* A context for which a summary was saved has one that a run can start from.
THEOREM SummariesStay == AgentsSpec => []WarmStartsStay
<1>1. AgentsSpec => []CheckpointInv
  BY StartsOfTheAgents, StepsOfTheAgents, CheckpointInitInv, CheckpointsStep, PTL DEF AgentsSpec
<1>2. CheckpointInv => WarmStartsStay
  BY CheckpointSafe
<1> QED
  BY <1>1, <1>2, PTL

\* The text and the calls of an answer are those of the lines that arrived, however they
\* were cut.
THEOREM ResultsAreWhatArrived == AgentsSpec => []ResultIsWhatArrived
<1>1. AgentsSpec => []StreamInv
  BY StartsOfTheAgents, StepsOfTheAgents, StreamInitInv, StreamStep, PTL DEF AgentsSpec
<1>2. StreamInv => ResultIsWhatArrived
  BY DEF StreamInv
<1> QED
  BY <1>1, <1>2, PTL

\* The state of the part that is looked at has its types.
THEOREM AgentsAreTyped == AgentsSpec => []AgentTypesOK
<1> DEFINE AllTypes == /\ TypeOK /\ MemTypeOK /\ BankTypeOK /\ RatingTypeOK /\ SubAgentsTypeOK
                       /\ FilesTypeOK /\ PoolTypeOK /\ CheckpointTypeOK /\ StreamTypeOK
           AllInv == /\ IInv /\ MemInv /\ BankInv /\ RatingInv /\ TeamInv /\ FilesInv /\ PoolInv
                     /\ CheckpointInv /\ StreamInv
<1>1. AgentsInit => AllInv /\ part \in Parts
  BY StartsOfTheAgents, InitInv, MemInitInv, BankInitInv, RatingInitInv, TeamInitInv, FilesInitInv,
     PoolInitInv, CheckpointInitInv, StreamInitInv DEF AgentsInit
<1>2. AllInv /\ [AgentsNext]_agentVars => AllInv'
  BY StepsOfTheAgents, InvStep, MemStep, BankStep, RatingStep, TeamStep, FilesStep, PoolStep,
     CheckpointsStep, StreamStep
<1>3. part \in Parts /\ [AgentsNext]_agentVars => (part \in Parts)'
  BY DEF AgentsNext, Others, agentVars
<1>4. AllInv => AllTypes
  BY TeamSafe, FilesSafe, CheckpointSafe
     DEF IInv, MemInv, BankInv, RatingInv, PoolInv, StreamInv
<1>5. AllTypes /\ part \in Parts => AgentTypesOK
  BY DEF Parts, AgentTypesOK
<1>6. AgentsSpec => [](AllInv /\ part \in Parts)
  <2> HIDE DEF AllInv
  <2> QED
    BY <1>1, <1>2, <1>3, PTL DEF AgentsSpec
<1>7. AllInv /\ part \in Parts => AgentTypesOK
  <2> HIDE DEF AllInv, AllTypes
  <2> QED
    BY <1>4, <1>5
<1> QED
  <2> HIDE DEF AllInv
  <2> QED
    BY <1>6, <1>7, PTL
=============================================================================

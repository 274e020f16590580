------------------------------- MODULE Router -------------------------------
(***************************************************************************)
(* Which model a turn of a run asks: the rules for turns                   *)
(* (evaluateTurnModelRules), the override of a callback, and the           *)
(* confidence router between the model trained here and a teacher          *)
(* (omls/confidence-router.ts), in the order loop.ts applies them.  The    *)
(* price of an answer is an estimate until its generation metadata comes,  *)
(* in its turn or, because nobody waits for it, in a later one.            *)
(***************************************************************************)
EXTENDS Integers, Sequences

CONSTANTS BaseModel, LocalModel, TeacherModel, RuleModel,
          NoModel,      \* no override, or no trained model
          TurnRules,    \* sequence of the rules of the run; without a limit of its
                        \* own, a rule's costAbove is -1 (tokensAbove is like it)
          PriceOf,      \* estimated price of a turn of each model
          ActualPrices, \* prices that the generation metadata may report
          MaxRouted     \* turns of a run

RoutedModels == {BaseModel, LocalModel, TeacherModel, RuleModel}

ASSUME RouterAssumption ==
  /\ NoModel \notin RoutedModels
  /\ TurnRules \in Seq([model : RoutedModels, once : BOOLEAN, afterTurn : Nat, costAbove : Int])
  /\ PriceOf \in [RoutedModels -> Nat]
  /\ ActualPrices \subseteq Nat \ {0}
  /\ MaxRouted \in Nat \ {0}

VARIABLES setup,    \* the trained model found, and what the input needs
          routing,  \* where the turn is, and its number from 0
          override, \* turnOverrides.model
          asking,   \* _effectiveModel
          verdict,  \* what the router said in this turn
          fired,    \* rules used up
          billed,   \* totalCostUsd
          metaDue,  \* fetchGenerationMeta requests in flight
          asked,    \* the turns so far: rule matched, model asked, model priced, and
                    \* totalCostUsd as the rules saw it
          late      \* history: metadata came when the rules of a later turn had been applied

costs == <<billed, metaDue, late>>
routerVars == <<setup, routing, override, asking, verdict, fired, costs, asked>>

RouterTypeOK ==
  /\ setup \in [endpoint : {LocalModel, NoModel}, vision : BOOLEAN, sees : BOOLEAN]
  /\ routing \in [at : {"setup", "rules", "route", "ask", "done"}, turn : 0..MaxRouted]
  /\ override \in RoutedModels \cup {NoModel}
  /\ asking \in RoutedModels
  /\ verdict \in RoutedModels \cup {NoModel}
  /\ fired \subseteq DOMAIN TurnRules
  /\ billed \in Nat
  /\ metaDue \subseteq [before : Nat, turn : Nat]
  /\ asked \in Seq([rule : Nat, model : RoutedModels, verdict : RoutedModels \cup {NoModel},
                    priced : RoutedModels, spent : Nat])
  /\ late \in BOOLEAN

RouterInit ==
  /\ setup \in [endpoint : {NoModel}, vision : BOOLEAN, sees : BOOLEAN]
  /\ routing = [at |-> "setup", turn |-> 0]
  /\ override = NoModel
  /\ asking = BaseModel
  /\ verdict = NoModel
  /\ fired = {}
  /\ billed = 0 /\ metaDue = {} /\ late = FALSE
  /\ asked = <<>>

RouterAt(at) == routing.at = at
RouterTo(at) == routing' = [routing EXCEPT !.at = at]

\* turnOverrides.model ?? model
OrBase(model) == IF model = NoModel THEN BaseModel ELSE model

-----------------------------------------------------------------------------
\* The local adapter's server, else the hosted endpoint, else neither; an
\* error while looking leaves the run without one.
FindEndpoint(found) ==
  /\ RouterAt("setup")
  /\ setup' = [setup EXCEPT !.endpoint = IF found THEN LocalModel ELSE NoModel]
  /\ RouterTo("rules")
  /\ UNCHANGED <<override, asking, verdict, fired, costs, asked>>

\* Mutant: the price of the last turn stands for the cost of the run.
MatchesLastTurn(i) ==
  LET rule == TurnRules[i]
      last == IF asked = <<>> THEN 0 ELSE PriceOf[asked[Len(asked)].priced]
  IN  ~(rule.once /\ i \in fired) /\ routing.turn >= rule.afterTurn /\ last > rule.costAbove

Matches(i) ==
  LET rule == TurnRules[i]
  IN  ~(rule.once /\ i \in fired) /\ routing.turn >= rule.afterTurn /\ billed > rule.costAbove

\* The first rule that matches, 0 when none does.
FirstMatch ==
  LET hits == {i \in DOMAIN TurnRules : Matches(i)}
  IN  IF hits = {} THEN 0 ELSE CHOOSE i \in hits : \A j \in hits : i <= j

\* The callback's override counts more than a rule's, and the model of the
\* call is settled here, before the router is asked.
BeginTurn(callback) ==
  LET rule == FirstMatch
      overriding == IF callback # NoModel THEN callback
                    ELSE IF rule = 0 THEN NoModel ELSE TurnRules[rule].model
  IN  /\ RouterAt("rules")
      /\ fired' = IF rule # 0 /\ TurnRules[rule].once THEN fired \cup {rule} ELSE fired
      /\ override' = overriding
      /\ asking' = OrBase(overriding)
      /\ asked' = Append(asked, [rule |-> rule, model |-> OrBase(overriding),
                                 verdict |-> NoModel, priced |-> OrBase(overriding),
                                 spent |-> billed])
      /\ RouterTo("route")
      /\ UNCHANGED <<setup, verdict, costs>>

\* routeRequest: a modality the trained model lacks, a prompt like the known
\* hard ones, samples that disagree; an error of any signal counts as "no".
RouteRequest(hard, divergent) ==
  IF \/ setup.vision /\ ~setup.sees
     \/ hard
     \/ setup.endpoint # TeacherModel /\ divergent
  THEN TeacherModel ELSE setup.endpoint

\* The router is asked in turn 1, the second of the run, if at all.
Route(hard, divergent, fails) ==
  LET routed == setup.endpoint # NoModel /\ routing.turn = 1 /\ ~fails
      choice == RouteRequest(hard, divergent)
  IN  /\ RouterAt("route")
      /\ override' = IF routed THEN choice ELSE override
      /\ verdict' = IF routed THEN choice ELSE NoModel
      /\ RouterTo("ask")
      /\ UNCHANGED <<setup, asking, fired, costs, asked>>

\* The answer arrives and is priced by the override of the turn; if it has a generation
\* id, its metadata is asked for.  A low confidence token in it is reported and changes
\* nothing.
AskModel(lastTurn, identified) ==
  LET last == Len(asked)
      priced == OrBase(override)
  IN  /\ RouterAt("ask")
      /\ asked' = [asked EXCEPT ![last] = [@ EXCEPT !.model = asking, !.verdict = verdict,
                                                    !.priced = priced]]
      /\ billed' = billed + PriceOf[priced]
      /\ metaDue' = metaDue \cup (IF identified THEN {[before |-> billed, turn |-> last]} ELSE {})
      /\ routing' = IF lastTurn \/ routing.turn + 1 = MaxRouted
                    THEN [routing EXCEPT !.at = "done"]
                    ELSE [at |-> "rules", turn |-> routing.turn + 1]
      /\ UNCHANGED <<setup, override, asking, verdict, fired, late>>

\* The metadata of an answer arrives, maybe turns later: the total becomes what it was
\* before that answer and the actual price, whatever has been added since.
PriceArrives ==
  /\ routing.at # "done"
  /\ \E m \in metaDue, actual \in ActualPrices :
       /\ billed' = m.before + actual
       /\ metaDue' = metaDue \ {m}
       /\ late' = (late \/ m.turn < Len(asked))
  /\ UNCHANGED <<setup, routing, override, asking, verdict, fired, asked>>

\* The call failed for good, or the run was stopped before it.
AskFails ==
  /\ routing.at \in {"rules", "route", "ask"}
  /\ RouterTo("done")
  /\ UNCHANGED <<setup, override, asking, verdict, fired, costs, asked>>

RouterNext ==
  \/ \E found \in BOOLEAN : FindEndpoint(found)
  \/ \E callback \in {NoModel, RuleModel} : BeginTurn(callback)
  \/ \E hard, divergent, fails \in BOOLEAN : Route(hard, divergent, fails)
  \/ \E lastTurn, identified \in BOOLEAN : AskModel(lastTurn, identified)
  \/ PriceArrives
  \/ AskFails

RouterSpec == RouterInit /\ [][RouterNext]_routerVars

-----------------------------------------------------------------------------
\* A turn the router has decided is asked of the model it chose
\* (src/docs/adr/0007: "serve locally ... or escalate").
CallsFollowTheRouter ==
  \A t \in DOMAIN asked : asked[t].verdict # NoModel => asked[t].model = asked[t].verdict

\* A rule that is not for one turn only applies to every turn once it has
\* matched (types.ts, TurnModelRule.once: "sticky"), unless a rule before it
\* does; a rule for one turn matches in one turn (evaluateTurnModelRules).
\* With a limit of cost it comes unstuck when late metadata, which takes back
\* what later turns have added, has brought the total down to that limit; in
\* time, metadata cannot do that.
RulesStick ==
  \A s, t \in DOMAIN asked :
    s < t /\ asked[s].rule # 0 =>
      LET rule == asked[s].rule
      IN  IF TurnRules[rule].once THEN asked[t].rule # rule
          ELSE \/ asked[t].rule \in 1..rule
               \/ late /\ asked[t].spent <= TurnRules[rule].costAbove
=============================================================================

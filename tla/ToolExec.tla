------------------------------ MODULE ToolExec ------------------------------
(***************************************************************************)
(* The tool calls of a run (loop-executor.ts, executeOne), the worker pool *)
(* that runs the calls of one turn (loop-helpers.ts, runConcurrent, and    *)
(* loop.ts for the sequential mode), the per-run result cache and plan     *)
(* mode.  Tools work on one workspace, of which only a version is kept:    *)
(* the number of changes that have landed in it.  A call that is abandoned *)
(* (timeout) leaves its tool running, and its change may land much later.  *)
(*                                                                         *)
(* A member of Calls is a tool with its arguments: the key of the result   *)
(* cache.  The classes of calls are sets, so that one instance may mix     *)
(* reads, changes, delegated tools and calls that need approval.           *)
(***************************************************************************)
EXTENDS Integers, Sequences, FiniteSets

CONSTANTS Calls,      \* tool calls the model may make: tool and arguments
          Broken,     \* of an unknown tool, with bad JSON, delegated to nobody
          ReadOnly,   \* of a tool whose definition says readonly: true
          Exits,      \* of exit_plan_mode
          Delegated,  \* of a tool with execute: false
          Guarded,    \* requireApproval names the tool (and permissions are not skipped)
          FileTools,  \* of a tool whose path goes to filesChanged
          MaxCalls,   \* bound: calls of one turn
          MaxMade,    \* bound: calls of a run
          Limit,      \* MAX_PARALLEL_TOOLS
          CacheSize   \* MAX_TOOL_CACHE_ENTRIES

ASSUME ToolsAssumption ==
  /\ {Broken, ReadOnly, Exits, Delegated, Guarded, FileTools} \subseteq SUBSET Calls
  /\ ReadOnly \cap (Exits \cup FileTools) = {}
  /\ {MaxCalls, MaxMade, Limit, CacheSize} \subseteq Nat \ {0}

\* Calls that change the workspace.
Changes == Calls \ (ReadOnly \cup Exits)

VARIABLES mode,     \* parallel_tool_calls and approvalMode, as [parallel, ask]
          plan,     \* inPlanMode
          status,   \* "thinking", "acting" or "over"
          made,     \* calls the model has made
          batch,    \* response.toolCalls
          taken,    \* nextIndex: calls that a worker has taken
          failed,   \* the flag of runConcurrent
          phase,    \* where each taken call is
          reply,    \* its result
          began,    \* history: the version of the workspace when it was taken
          seen,     \* of a read: the version its result tells of
          cache,    \* toolResultCache, in insertion order
          version,  \* changes that have landed in the workspace
          ghosts,   \* abandoned calls whose change may still land
          changed,  \* filesChanged
          landed,   \* history: calls whose change has landed, or still may
          granted,  \* history: calls approved by the user
          raced     \* history: a change was abandoned, or ran beside a read

turnVars == <<batch, taken, failed, phase, reply, began, seen>>
workVars == <<version, ghosts, landed>>
vars == <<mode, plan, status, made, turnVars, cache, workVars, changed, granted, raced>>

Slots == 1..MaxCalls
Batches == UNION {[1..n -> Calls] : n \in Slots}

InFlight == {i \in Slots : phase[i] \notin {"waiting", "done"}}

TypeOK ==
  /\ mode \in [parallel : BOOLEAN, ask : {"answer", "question"}]
  /\ plan \in BOOLEAN
  /\ status \in {"thinking", "acting", "over"}
  /\ made \in 0..MaxMade
  /\ batch \in Batches \cup {<<>>}
  /\ taken \in 0..Len(batch)
  /\ failed \in BOOLEAN
  /\ phase \in [Slots -> {"waiting", "asking", "denied", "hook", "running", "landed", "post", "done"}]
  /\ reply \in [Slots -> {"none", "ok", "error", "pending"}]
  /\ {began, seen} \subseteq [Slots -> Nat]
  /\ cache \in Seq([call : ReadOnly, version : Nat, young : BOOLEAN])
  /\ {version, ghosts} \subseteq Nat
  /\ {changed, landed, granted} \subseteq SUBSET Calls
  /\ raced \in BOOLEAN

Blank(x) == [i \in Slots |-> x]

\* The state of a turn goes with it.
ClearTurn ==
  /\ batch' = <<>>
  /\ taken' = 0
  /\ failed' = FALSE
  /\ phase' = Blank("waiting")
  /\ reply' = Blank("none")
  /\ began' = Blank(0)
  /\ seen' = Blank(0)

Init ==
  /\ mode \in [parallel : BOOLEAN, ask : {"answer", "question"}]
  /\ plan \in BOOLEAN
  /\ status = "thinking"
  /\ made = 0
  /\ batch = <<>> /\ taken = 0 /\ failed = FALSE
  /\ phase = Blank("waiting") /\ reply = Blank("none")
  /\ began = Blank(0) /\ seen = Blank(0)
  /\ cache = <<>>
  /\ version = 0 /\ ghosts = 0
  /\ changed = {} /\ landed = {} /\ granted = {}
  /\ raced = FALSE

-----------------------------------------------------------------------------
(***************************************************************************)
(* The result cache                                                        *)
(***************************************************************************)

Cached(c) == {k \in DOMAIN cache : cache[k].call = c}
Hits(c) == {k \in Cached(c) : c \in ReadOnly /\ cache[k].young}

\* setCached: a full map drops its oldest entry, also when the key is in it;
\* a key that is (still) in the map keeps its place.
Evicted == IF Len(cache) >= CacheSize THEN Tail(cache) ELSE cache

SetCached(c, v) ==
  LET kept == Evicted
      new == [call |-> c, version |-> v, young |-> TRUE]
  IN IF \E k \in DOMAIN kept : kept[k].call = c
       THEN cache' = [k \in DOMAIN kept |-> IF kept[k].call = c THEN new ELSE kept[k]]
       ELSE cache' = Append(kept, new)

\* An entry is CACHE_TTL_MS old.
Ages(k) ==
  /\ k \in DOMAIN cache /\ cache[k].young
  /\ cache' = [cache EXCEPT ![k].young = FALSE]
  /\ UNCHANGED <<mode, plan, status, made, turnVars, workVars, changed, granted, raced>>

-----------------------------------------------------------------------------
(***************************************************************************)
(* Turns                                                                   *)
(***************************************************************************)

\* The model answers with tool calls.
StartTurn ==
  /\ status = "thinking"
  /\ status' = "acting"
  /\ batch' \in Batches
  /\ made + Len(batch') <= MaxMade
  /\ made' = made + Len(batch')
  /\ UNCHANGED <<mode, plan, taken, failed, phase, reply, began, seen, cache,
                 workVars, changed, granted, raced>>

\* The model answers without: the run ends.
Finish ==
  /\ status = "thinking"
  /\ status' = "over"
  /\ UNCHANGED <<mode, plan, made, turnVars, cache, workVars, changed, granted, raced>>

Workers ==
  LET limit == IF mode.parallel THEN Limit ELSE 1
  IN IF limit < Len(batch) THEN limit ELSE Len(batch)

\* The workers are started in one go: nothing else happens until each has
\* taken its first call as far as that call goes without waiting.
Launched == failed \/ taken >= Workers

\* The guard of plan mode.
BarredByPlan(i) == plan /\ batch[i] \notin Exits \cup ReadOnly

\* A worker takes the next call.
Take(i) ==
  /\ status = "acting" /\ ~failed
  /\ i = taken + 1 /\ i \in DOMAIN batch
  /\ Cardinality(InFlight) < Workers
  /\ taken' = i

Admitted(i) == Take(i) /\ batch[i] \notin Broken /\ ~BarredByPlan(i)

\* The call enters phase p with the result r.
Enter(i, p, r) ==
  /\ phase' = [phase EXCEPT ![i] = p]
  /\ reply' = [reply EXCEPT ![i] = r]

\* Its file is noted before anything is decided about the call.
TrackFile(i) == changed' = changed \cup ({batch[i]} \cap FileTools)

\* A read and a change overlap.
Races(i) ==
  raced' = (raced \/ \E j \in InFlight :
              \/ batch[i] \in Changes /\ batch[j] \in ReadOnly
              \/ batch[i] \in ReadOnly /\ batch[j] \in Changes)

\* What taking a call leaves alone.
TakeFrame == UNCHANGED <<mode, plan, status, made, batch, failed, cache, workVars, granted>>

\* An unknown tool, bad arguments, or a change in plan mode.
Reject(i) ==
  /\ Take(i)
  /\ batch[i] \in Broken \/ BarredByPlan(i)
  /\ Enter(i, "done", "error")
  /\ UNCHANGED <<began, seen, changed, raced>>
  /\ TakeFrame

\* The result of the same read, less than CACHE_TTL_MS ago.
AnswerFromCache(i) ==
  /\ Admitted(i)
  /\ \E k \in Hits(batch[i]) : seen' = [seen EXCEPT ![i] = cache[k].version]
  /\ began' = [began EXCEPT ![i] = version]
  /\ Enter(i, "done", "ok")
  /\ Races(i)
  /\ UNCHANGED changed
  /\ TakeFrame

Misses(i) ==
  /\ Admitted(i)
  /\ Hits(batch[i]) = {}
  /\ TrackFile(i)
  /\ Races(i)
  /\ began' = [began EXCEPT ![i] = version]
  /\ UNCHANGED seen
  /\ TakeFrame

\* onToolCall: neither approval nor hooks.
Delegate(i) ==
  /\ Misses(i)
  /\ batch[i] \in Delegated
  /\ Enter(i, "running", "none")

\* Approval mode "question": the run will end and ask.
PutOff(i) ==
  /\ Misses(i)
  /\ batch[i] \in Guarded \ Delegated /\ mode.ask = "question"
  /\ Enter(i, "done", "pending")

\* Mutant: the answer is not awaited.
AskNotAwaited(i) ==
  /\ Misses(i)
  /\ batch[i] \in Guarded \ Delegated /\ mode.ask # "question"
  /\ Enter(i, "hook", "none")

\* onApprovalRequest or promptApproval.
Ask(i) ==
  /\ Misses(i)
  /\ batch[i] \in Guarded \ Delegated /\ mode.ask # "question"
  /\ Enter(i, "asking", "none")

\* No approval needed: the PreToolCall hook is next.
Proceed(i) ==
  /\ Misses(i)
  /\ batch[i] \notin Guarded \cup Delegated
  /\ Enter(i, "hook", "none")

-----------------------------------------------------------------------------
(***************************************************************************)
(* A call in flight                                                        *)
(***************************************************************************)

\* What a step of a call in flight leaves alone.
CallFrame == UNCHANGED <<mode, plan, status, made, batch, taken, began, changed>>

Moves(i, from) == Launched /\ phase[i] = from

\* The user approves ...
Approve(i) ==
  /\ Moves(i, "asking")
  /\ Enter(i, "hook", "none")
  /\ granted' = granted \cup {batch[i]}
  /\ CallFrame /\ UNCHANGED <<failed, seen, cache, workVars, raced>>

\* ... or not: no terminal, the time is up, or the answer is no.  The ToolDenied
\* hook runs.
Deny(i) ==
  /\ Moves(i, "asking")
  /\ Enter(i, "denied", "error")
  /\ CallFrame /\ UNCHANGED <<failed, seen, cache, workVars, granted, raced>>

Denied(i) ==
  /\ Moves(i, "denied")
  /\ Enter(i, "done", "error")
  /\ CallFrame /\ UNCHANGED <<failed, seen, cache, workVars, granted, raced>>

\* onApprovalRequest throws (promptApproval does not): runConcurrent starts no other call.
ApprovalThrows(i) ==
  /\ Moves(i, "asking")
  /\ Enter(i, "done", "none")
  /\ failed' = TRUE
  /\ CallFrame /\ UNCHANGED <<seen, cache, workVars, granted, raced>>

\* The PreToolCall hook succeeds, or its failure is only logged ...
PreHookPasses(i) ==
  /\ Moves(i, "hook")
  /\ Enter(i, "running", "none")
  /\ CallFrame /\ UNCHANGED <<failed, seen, cache, workVars, granted, raced>>

\* ... or hookErrorMode is "fail".
PreHookFails(i) ==
  /\ Moves(i, "hook")
  /\ Enter(i, "done", "error")
  /\ CallFrame /\ UNCHANGED <<failed, seen, cache, workVars, granted, raced>>

\* The tool reads, or changes, the workspace.
Works(i) ==
  /\ Moves(i, "running")
  /\ phase' = [phase EXCEPT ![i] = "landed"]
  /\ IF batch[i] \in Changes
       THEN version' = version + 1 /\ landed' = landed \cup {batch[i]} /\ UNCHANGED seen
       ELSE seen' = [seen EXCEPT ![i] = version] /\ UNCHANGED <<version, landed>>
  /\ CallFrame /\ UNCHANGED <<failed, reply, cache, ghosts, granted, raced>>

\* After a local tool its PostToolCall hook runs; a delegated call is over.
After(i) == IF batch[i] \in Delegated THEN "done" ELSE "post"

\* Mutant: the cache is kept.
ReturnsAndKeeps(i) ==
  /\ Moves(i, "landed")
  /\ Enter(i, After(i), "ok")
  /\ IF batch[i] \in ReadOnly THEN SetCached(batch[i], seen[i]) ELSE UNCHANGED cache
  /\ CallFrame /\ UNCHANGED <<failed, seen, workVars, granted, raced>>

\* The tool returns a result: a read's is cached, anything else clears the cache.
Returns(i) ==
  /\ Moves(i, "landed")
  /\ Enter(i, After(i), "ok")
  /\ IF batch[i] \in ReadOnly THEN SetCached(batch[i], seen[i]) ELSE cache' = <<>>
  /\ CallFrame /\ UNCHANGED <<failed, seen, workVars, granted, raced>>

\* The tool returns an error (isError), having done its work or not.
ReturnsError(i) ==
  /\ Launched /\ phase[i] \in {"running", "landed"}
  /\ Enter(i, After(i), "error")
  /\ IF batch[i] \in ReadOnly THEN UNCHANGED cache ELSE cache' = <<>>
  /\ CallFrame /\ UNCHANGED <<failed, seen, workVars, granted, raced>>

\* The tool throws: the cache stays as it is.
Throws(i) ==
  /\ Launched /\ phase[i] \in {"running", "landed"}
  /\ Enter(i, After(i), "error")
  /\ raced' = (raced \/ batch[i] \in Changes)
  /\ CallFrame /\ UNCHANGED <<failed, seen, cache, workVars, granted>>

\* The timeout of the tool wins the race: so it does, and the tool goes on.
TimesOut(i) ==
  /\ Launched /\ phase[i] \in {"running", "landed"}
  /\ Enter(i, After(i), "error")
  /\ raced' = (raced \/ batch[i] \in Changes)
  /\ IF phase[i] = "running" /\ batch[i] \in Changes
       THEN ghosts' = ghosts + 1 /\ landed' = landed \cup {batch[i]}
       ELSE UNCHANGED <<ghosts, landed>>
  /\ CallFrame /\ UNCHANGED <<failed, seen, cache, version, granted>>

\* A tool that timed out does its work after all.
GhostLands ==
  /\ ghosts > 0
  /\ ghosts' = ghosts - 1
  /\ version' = version + 1
  /\ UNCHANGED <<mode, plan, status, made, turnVars, cache, landed, changed, granted, raced>>

PostHookPasses(i) ==
  /\ Moves(i, "post")
  /\ Enter(i, "done", reply[i])
  /\ CallFrame /\ UNCHANGED <<failed, seen, cache, workVars, granted, raced>>

\* hookErrorMode is "fail": a call that was carried out is reported as an error.
PostHookFails(i) ==
  /\ Moves(i, "post")
  /\ Enter(i, "done", "error")
  /\ CallFrame /\ UNCHANGED <<failed, seen, cache, workVars, granted, raced>>

-----------------------------------------------------------------------------
\* Mutant: a failed turn waits for results that nobody will produce.
SettledWithAll ==
  /\ status = "acting"
  /\ taken = Len(batch)
  /\ InFlight = {}

\* All workers are through.
Settled ==
  /\ status = "acting"
  /\ failed \/ taken = Len(batch)
  /\ InFlight = {}

\* The results are in: a call of exit_plan_mode ends plan mode, whatever its
\* result, and a call that needs approval ends the run.
EndTurn ==
  /\ Settled /\ ~failed
  /\ plan' = (plan /\ \A i \in DOMAIN batch : batch[i] \notin Exits)
  /\ status' = IF \E i \in DOMAIN batch : reply[i] = "pending" THEN "over" ELSE "thinking"
  /\ ClearTurn
  /\ UNCHANGED <<mode, made, cache, workVars, changed, granted, raced>>

\* The error is thrown again, and ends the run.
TurnThrows ==
  /\ Settled /\ failed
  /\ status' = "over"
  /\ ClearTurn
  /\ UNCHANGED <<mode, plan, made, cache, workVars, changed, granted, raced>>

TakeOne(i) ==
  Reject(i) \/ AnswerFromCache(i) \/ Delegate(i) \/ PutOff(i) \/ Ask(i) \/ Proceed(i)

CallStep(i) ==
  \/ Approve(i) \/ Deny(i) \/ Denied(i) \/ ApprovalThrows(i)
  \/ PreHookPasses(i) \/ PreHookFails(i)
  \/ Works(i) \/ Returns(i) \/ ReturnsError(i) \/ Throws(i) \/ TimesOut(i)
  \/ PostHookPasses(i) \/ PostHookFails(i)

Next ==
  \/ StartTurn \/ Finish \/ EndTurn \/ TurnThrows
  \/ \E i \in Slots : TakeOne(i) \/ CallStep(i)
  \/ GhostLands
  \/ \E k \in 1..CacheSize : Ages(k)

\* Users answer (a callback may wait for ever only if its user does), hooks and
\* tools return or time out, and a worker whose call is over goes on.
Fairness ==
  /\ WF_vars(EndTurn \/ TurnThrows)
  /\ \A i \in Slots : WF_vars(TakeOne(i)) /\ WF_vars(CallStep(i))

Spec == Init /\ [][Next]_vars
FairSpec == Spec /\ Fairness

-----------------------------------------------------------------------------
(***************************************************************************)
(* Properties                                                              *)
(***************************************************************************)

\* The promise of the result cache, which is cleared by every change: a read is
\* not answered with less than what the workspace held when it was called.  It
\* needs a run in which no change was abandoned by its timeout or threw, and no
\* change ran beside a read of the same turn: a read that ends after the change
\* puts what it saw before it back into the cleared cache.
ReadsAreFresh ==
  ~raced => \A i \in Slots :
    reply[i] = "ok" /\ batch[i] \in ReadOnly => seen[i] >= began[i]

\* requireApproval: the result of a local tool that needs approval only ever comes
\* of a call that the user approved, the cached result of an earlier one included.
GrantedFirst ==
  \A i \in Slots :
    /\ phase[i] \in {"hook", "running", "landed", "post"} \/ reply[i] = "ok"
    /\ batch[i] \in Guarded \ Delegated
    => batch[i] \in granted

\* Plan mode is for reading: nothing has changed, or will change, the workspace
\* before the turn in which exit_plan_mode is called is over.
PlanTouchesNothing == plan => landed = {} /\ version = 0 /\ ghosts = 0

\* filesChanged, reported at the end of the run, has the file of every change that
\* was made, those of calls that were reported as failed included.
ChangesAreTracked == landed \cap FileTools \subseteq changed

\* M-08: after an error no worker takes another call of the turn.
StopsAfterFailure == [][~(failed /\ taken' > taken)]_vars

\* The cache stays within its limit.
CacheBounded == Len(cache) <= CacheSize

\* Every turn gets its results, or its error: no call of a turn is forgotten.
TurnEnds == (status = "acting") ~> (status # "acting")
=============================================================================

# orager, specified

orager is an agent runtime in TypeScript: a run takes a prompt, calls a
language model, executes the tool calls of its answer, feeds the results back
and repeats, until the model is finished or a limit, an error or a user stops
it. Sessions outlive runs: a later process resumes the conversation where an
earlier one left it. This directory holds TLA+ specifications of the parts of
that program whose correctness depends on order, concurrency and failure, the
configurations with which TLC checks them, and theorems about them that TLAPS
checks. Paths below are relative to the repository (`src/loop.ts`); in
PROJECT.json they have the prefix of the checkout (`src/src/loop.ts`).

Contents: 1 the system, 2 the plan, 3 the modules and how they correspond to
the code, 4 what is checked, 5 bounds, 6 fairness, 7 what is proved, 8 what is
only model-checked, 9 what is not modelled, 10 what was observed in the code.

## 1. The system

### 1.1 Parts, state, operations

| Part | State it keeps | Operations that change it |
|---|---|---|
| **Agent loop** (`loop.ts`, `loop-helpers.ts`) | message history, turn number, cost total, stuck detection, error streak, `_resultEmitted` | setup (lock, load, MCP, prompts), a turn (limits, breaker, call, tools, judgement), some twenty exits, catch, finally |
| **Session lock** (`session-jsonl-store.ts`, `session.ts`, `native-sqlite.ts`) | a row of `session_locks` per session | acquire with bounded retry, release, takeover of a stale row |
| **Session store** (`session-jsonl-store.ts`) | a JSONL file per session, of which the last line counts; rows of `index.sqlite`; checkpoints | save, load, trash, restore, delete, prune, deleteTrash, list, search |
| **File session store** (`session.ts`) | one JSON file per session, lock files, a chain of saves per session | the same, the fallback without SQLite |
| **Conversation and maintenance** (`loop.ts`, `session.ts`, `session-summarizer.ts`) | the messages, the pending approval, `summarized`, checkpoints | append a turn, ask, resume, summarize, truncate; compact, rollback, fork |
| **Tool executor** (`loop-executor.ts`, `runConcurrent`) | result cache, plan mode, `filesChanged`, workers of a turn | execute a call: validate, approve, hooks, run with timeout |
| **Built-in tools** (`tools/*`) | files, process groups, a pool of browsers, timers | edit, write, run, launch, close, download |
| **Approvals and hooks** (`approval.ts`, `hooks.ts`) | the terminal's prompt, the pending approval | ask, grant, deny, put off to the next run |
| **Retry, health, rate gate** (`retry.ts`, `provider-health.ts`) | attempt, key and model of a call; the process's health table | call, back off, rotate key or model, skip, give up |
| **Circuit breaker** (`circuit-breaker.ts`) | closed/open/half-open per agent key; the map of breakers | isOpen, recordSuccess, recordFailure, eviction |
| **Providers** (`openrouter.ts`, `providers/*`, `ollama.ts`) | parser state of a stream | choose a provider, parse lines, drain, abort |
| **Model caches, router** (`model-cache.ts`, `openrouter-model-meta.ts`, `omls/confidence-router.ts`) | caches with a time to live, rules used up | fetch once, expire, choose the model of a turn |
| **MCP client and server** (`mcp-client.ts`, `mcp.ts`) | a client per server; the counted calls | connect, call, reconnect, close; admit, drain, exit |
| **Subprocess protocol** (`subprocess.ts`) | the promise of the parent, the child's streams | send, receive, time out, kill |
| **Memory** (`memory.ts`, `memory-sqlite.ts`, `tools/remember.ts`) | entries with importance and expiry, in SQLite or a file | add, remove, load, distil at the end of a run |
| **Skill bank** (`skillbank.ts`, `skillbank-merge.ts`), skill files (`skills.ts`) | skills, outcomes, clusters; a cache by modification time | extract, check for duplicates, rate, prune, merge; load |
| **Training** (`omls/*`), trajectory logger | trajectories and tags, machines, registry, adapters, adapter server | log, batch, rent, train, host, swap, roll back, tag |
| **CLI, signals** (`index.ts`) | pid file, shutdown flag, timers | start, interrupt, terminate, hard exit |
| **Sub-agents** (`tools/agent.ts`, `loop.ts`) | depth, limits handed down | runs that start runs |
| **UI server, setup, settings** (`ui-server.ts`, `setup.ts`, `settings.ts`) | pid and port files, configuration files, a settings cache, clients of the log stream | start, stop, find, save, load, tail |
| **Observers** (`audit.ts`, `logger.ts`, `telemetry.ts`, `webhook.ts`) | log files, backups, counters | write, rotate, prune |

### 1.2 How they interact

A run takes the session's lock, loads the session and looks for a checkpoint
of its context, skills and memory. Before each model call the rules for turns
and the router choose a model, and the agent's breaker is consulted. The call
goes through `callWithRetry`, which chooses a key and a model with the
process's health table and reads a stream. The answer's tool calls go through
`executeOne`, several at a time, which share the result cache and the
workspace and may ask the user, run hooks, start processes, browsers or runs.
The turn is appended to the history, judged (stuck? too many errors? question?
finished?), summarized or truncated, and charged; metadata of the call arrives
later through a promise nobody awaits. At its end the run saves the session,
distils memory, extracts a skill, emits its result and releases the lock.
Meanwhile other processes may resume the same session, compact, roll back,
fork, trash, prune or delete it; train on its trajectory; edit the settings;
or send a signal.

### 1.3 What is hard, and what correct means

Nearly every part is "read, await, write" on something others write too:
files and rows of other processes, maps and caches of other tasks of the same
process. What each part must keep is the list of properties in section 4; the
places where it could go wrong are the hazards of PROJECT.json. In short:

* *Locks and pid files*: holders exclude each other, nobody waits for ever.
* *Stores*: what was acknowledged is found again, nothing live is removed.
* *Loop and conversation*: one result per run, saved, exact cost, limits kept;
  every call followed by its results, no turn lost or twice.
* *Tools*: reads are fresh, nothing runs unapproved, failures leave order.
* *Calls*: bounded and patient retries, a breaker that recovers, results that
  are what arrived, models that were chosen.
* *Processes*: a promise settles with the truth, every wait ends, nothing is
  cleaned up too soon or left behind.
* *What is learned*: no fact, skill, summary or trajectory is lost to an
  overlap, no machine is left running.

## 2. The plan

Written, in this order: SessionMutex and SessionLock (who may run at all);
CircuitBreaker; AgentLoop (the core); Conversation (what AgentLoop abstracts
from its messages); ToolExec; Retry; SessionStore. Then the parts around the
core: FileLock and FileStore (the fallback store), Subprocess, Cli, McpClient,
McpServer (processes), MemoryDb, MemoryFile, SkillBank, SkillFiles, Checkpoint
(what is learned), Router, Training, LocalAdapter (OMLS), ChatStream, ModelCache
(calls), FileTools, BashTool, BrowserPool, WebFetch, SubAgents (tools), UiServer,
ConfigFile, LogTail, AuditLog (interface and logs). Then the proofs, one module
for each MC module and one for AgentLoop, which two of them extend: AgentLoopProofs,
LocksProofs, ProvidersProofs, ProcessesProofs, StoresProofs, AgentsProofs,
TurnsProofs. Every safety property of the passing runs is proved.

To be written:

1. **Abstract specifications** that a proof could show to be implemented: a
   register per session (by SessionStore, for undisturbed histories) and a
   promise that settles once (by Subprocess).
2. **AgentLoop's setup** (`loop.ts` 296-1105, now four actions) as a module
   that composes with it; what matters of it elsewhere is in Router,
   Checkpoint, MemoryDb and SubAgents.

Abstract specifications: SessionMutex is implemented by SessionLock (checked
and proved). FileLock does not implement it, and says where it falls short.

The modules are composed in two ways. AgentLoop is composed with CircuitBreaker
and ToolExec by their interfaces only: its `CircuitOpen` and `RunTools` let those
modules do whatever they may, and a property of either does not depend on which
of the allowed outcomes the other chooses. The MC modules put several modules
beside each other, of which one is looked at in each behaviour ("part"); the
variables of the others keep an initial value. This is a disjoint sum, not an
interleaving: it checks several modules in one run and says nothing of their
interaction.

## 3. The modules and the code

PROJECT.json ("map") names for every definition the lines it stands for. Each
action is a stretch of code between two awaits that others can see, with every
change of state that the stretch makes; helpers have the name of the function
they model. Definitions marked "Mutant:" are broken variants of the definition
that follows them, used to show that the checks would notice. Each module has
a specification of its own (`...Spec`), with the fairness it needs; the MC
modules state the same fairness for the part that is looked at.

### The core

**SessionMutex** is the promise of `acquireSessionLock`: at most one run holds
the session, and one that has ended does not come back.

**SessionLock** is `JsonlSessionStore.acquireLock`/`release`,
`acquireSessionLock` around it and what `runAgentLoop` does with its outcome.
`pc[r]`: `waiting` (about to try), `inTx` (has read the row, has yet to write),
`holding`, `unlocked` (runs although acquiring failed, because any error but
"already being resumed" is swallowed), `refused`, `done`, `crashed`. `overtaken`
is SQLite's snapshot rule: a deferred transaction whose snapshot is outdated
cannot write (`Busy`). `ExitWithoutRelease` is the stretch of `loop.ts`
1016-1065, where exits precede the `try` whose `finally` releases.

**CircuitBreaker** is the class, `getAgentCircuitBreaker`, its eviction of idle
entries and the runs that use a breaker. Ages replace timestamps and saturate
at the limit they are compared with. Breaker objects outlive their map entry
while a run refers to them, as in JavaScript.

**AgentLoop** is `runAgentLoop`. The phases are `setup`, `start`, `top` (head
of the loop), `waiting` (the breaker is asked), `calling`, `tools`, `turnEnd`,
`after`, `emit`, `catch`, `finally`, `done`. An answer is a sequence of calls,
a call its tool and arguments; messages are reduced to `unsaved`. `Save` may
fail silently, as failures of `saveSession` are logged only; `EmitResult` may
throw after the event was delivered. `MetaArrives` is the unawaited
`fetchGenerationMeta`. The setup (lines 223-1131) is reduced to its four
outcomes: a result event and a return (`SetupReturns`), an exception before the
try block (`SetupThrows`), the loop (`SetupDone`), and `SpawnCycle`, the silent
return of lines 335-339: a caller that passes both a session and its ancestors
(`opts._parentSessionIds`), and the session is among them. Whether it is, is the
input `ancestor` of a run. `spawn_agent` passes no session id, so its runs
(SubAgents) never get there.

**Conversation** is the history as a sequence of messages with role, turn,
index and, for a summary, the turns it covers; `AskApproval` cuts a turn off
and saves it as pending, `ResolveApproval` restores it in the next run;
`Summarize`, `SummarizeFails`, `Truncate` are lines 2099-2200; `Load`,
`LockSession`, `GiveUp`, `FinishCompact`, `FinishRollback`, `FinishFork` are the
maintenance functions of `session.ts`, in the order in which they load, lock,
compute and save. `damaged` marks histories that a known defect (section 10)
has spoilt; what is claimed is claimed of the others.

**ToolExec** is `executeOne` and `runConcurrent`. A slot of the turn goes
through validation, plan mode, cache, delegation, approval, hook, execution
and post-hook; `taken` is the shared `nextIndex` of the workers, `failed` their
flag. The workspace is a version number. A call that times out leaves a
*ghost* whose change may land at any later time, since nothing cancels a tool.

**Retry** is `callWithRetry` over the table of `provider-health.ts`. `Choose`
skips degraded models without counting an attempt, `Send` is the call after the
gate's wait, `Fails` classifies the error and rotates, backs off or surfaces.

**SessionStore** is one session in the default store. A line of the file is a
version, a trashed flag and a date counted in retention periods. Runs save in
two steps (`SaveRun`, `Upsert`), `trashSession`/`restoreSession` in three,
`delete` in three in the other order, `prune` and `deleteTrash` in three
(`Select`, `DropRow`, `Unlink`). `Crash` kills a process between steps, `Tear`
cuts an append short. Steps may also fail in a process that lives on
(`StepFails`), with what the code makes of it: `trash` and `restore` report a
failed append (`AppendFails`), a save or command whose row cannot be written
leaves its line behind (`UpsertFails`), `prune` and `deleteTrash` skip a row that
they cannot delete (`DropFails`) and swallow a failed unlink (`UnlinkFails`), and
`delete` swallows a failed read or append and returns as if done
(`DeleteUnmarked`).

### Stores and locks

**FileLock** is `_fileAcquireLock`: the file the lock's name refers to, and who
has created, judged or opened that very file. Creating and writing, judging
and unlinking, opening and writing a heartbeat are separate steps; `gap`
records that a process fell into one of the gaps between them. An error other than
"it exists" (`OpenFails`, `WriteFails`) makes the run go on without the lock, except
in the first take-over of a stale file, where the fallback of `session.ts` 554-570
unlinks and creates once more (`Falters`; `spare` says who still has that try).
**FileStore** is the
rest of the fallback: `Enqueue` and `AfterEviction` are `_saveQueues` with its
cap, `WriteTmp`/`RenameTmpFile` a save, `ListTrash`, `StatSession`, `ReadFlag`,
`Unlinks` the removals page by page.

**Checkpoint** is `session_checkpoints`: `SaveCheckpoint` with its upsert,
`BeginWork` (a cold start reads the latest of its context), the raw checkpoints
of `IngestUpdates` and `BeginSummary`, the summaries that replace them.

**ConfigFile** is a configuration file as the set of what was saved into it:
`ReadDoc`, `OpenTmp`, `FillTmp`, `RenameTmp` are a save of the interface or of
the wizard, which asks its questions in between (`Answered`) or resets to the
defaults (`ResetDoc`); `StatDoc`, `LoadDoc` are the settings cache. **SkillFiles** is
the cache of `loadSkillsFromDirs`: a load lists the directory (`BeginLoad`), looks at
the modification time of each file, compares, and reads; each of these may fail
(`ListFails`, `fails`), which the code takes for a skill that is not there (`missed`).
**LocalAdapter** is local training, its archive and rollback, and the server that
keeps running with the weights it was started with. **UiServer** is the pid and
port file of `ui-server.ts`, servers that end in order or are killed, and the wizard
that looks for a server or starts one, on the port that `ui.pid` names if there is
one (`SpawnPorts`), be its process alive or not. **AuditLog** is rotation and pruning; **LogTail** the log and the polling
stream of its lines.

### Calls and models

**ChatStream** has a stream of lines cut into chunks after any mark, and one
parser per family (`openrouter.ts`; OpenAI and DeepSeek; Gemini; Anthropic), chosen
in `Parse` among `ParseLine`, `ParseOpenAI` and `ParseGemini`.
**ModelCache** is single flight, disk copy and expiry of the two metadata caches.
**Router** is `evaluateTurnModelRules`, the overrides of a turn and
`routeRequest`, in the order in which `loop.ts` uses them. An answer adds its
estimated price; if it has a generation id, its metadata may arrive at any later
step (`PriceArrives`) and sets the total to what it was before that answer plus
the actual price, which may lower it (`loop.ts` 1652-1659). Each turn remembers
the total its rules were applied to (`spent`), and `late` that metadata arrived
after the rules of a later turn had been applied.

### Tools and processes

**BashTool**: the processes of a command, their group and who holds its pipe;
the external processes fork, drop the pipe, ignore SIGTERM. **FileTools**: reads,
writes, renames and the rollback of edits of several files, and a cell set by
`notebook_edit` (kind `cells`). **BrowserPool**:
`getSession` (`GetSession`) and its launch, `closeSession`, the handlers at exit. **WebFetch**:
redirects and timers of one download. **SubAgents**: both tools that start runs
and the options they hand down. **McpClient**: one server over HTTP, its
connection attempts, calls, reconnects, and the wait after any error that speaks of
a rate limit, a reconnect's included (`WaitsOrFails`); **McpServer**: the other side, with the
shutdown that drains counted calls. **Subprocess**: parent and child of one run
over pipes. **Cli**: the pid file, the exits and the signals, including the
second SIGTERM handler of `tools/browser.ts`.

### What is learned

**MemoryDb** is the table of one memory under runs that distil (`ToDistill`,
`DeleteBatch`, `AddSummary` are separate steps), with entries known by the
facts they tell. **MemoryFile** is the JSON file, the promise chain per key and
process and the temporary file; a file that cannot be read counts as an empty store
(`blind` remembers who took it so). **SkillBank** is extraction (`Extract`,
`CheckDuplicate`, `CountSkills`, `PruneWorst`, `InsertSkill`) and merging
(`LoadClusters`, `MergeCluster`) in two processes, and beside them the rounding of
one skill's success rate in `updateSkillOutcomes`, in ten-thousandths. **Training** is
trajectories, batches, machines, hosting, the registry and tags under two
trainings.

## 4. What is checked

| Run | Modules | Distinct states |
|---|---|---|
| `locks` | SessionLock, SessionMutex, FileLock | 0.52 million |
| `providers` | CircuitBreaker, Retry, ModelCache | 0.50 million |
| `processes` | AgentLoop, Subprocess, Cli, McpClient, MemoryFile, Training, BashTool, McpServer, WebFetch | 0.50 million |
| `agents` | AgentLoop (two runs of a session), ChatStream, MemoryDb, SkillBank, SubAgents, FileTools, BrowserPool, Checkpoint | 2.1 million |
| `turns` | ToolExec, Conversation, Router | 1.4 million |
| `stores` | SessionStore, FileStore, ConfigFile, AuditLog, SkillFiles, LocalAdapter, UiServer, LogTail | 2.8 million, up to symmetry |

| Property | What it says |
|---|---|
| `HolderOwnsRow` (locks) | a holder's row is its own, if no run outlives the staleness limit |
| `ImplementsMutex` (locks) | SessionLock implements SessionMutex |
| `FileLockExcludes` (locks) | two hold the lock file only through one of the gaps FileLock names |
| `EveryLockWaitEnds` (locks) | runs end whoever crashes; a lock file left behind yields |
| `ProbeIsInFlight` (providers) | a half-open breaker has a call in flight that will report |
| `RetriedBeforeRotation` (providers) | a rate limit moves a call to the next model only after a second try |
| `FetchesAreShared` (providers) | no request is joined after its end; context lengths are fetched once |
| `RefusalsEnd` (providers) | an open breaker is tested again; every call ends |
| `RepetitionIsCut` (processes) | a stuck run is aborted in time |
| `ChildIsBelieved` (processes) | the parent is told "done" only if it is, and late events come only after a timeout |
| `OneInstanceButForGaps` (processes) | two processes have `orager.pid` only through a named gap |
| `ServersAreSpared` (processes) | no connection is left open unused, no tool call is repeated more often than the retries allow |
| `ChangesAreOfTheFile` (processes) | a writer that could read the file saves the present file with its own change |
| `BilledOnlyIfUnreachable` (processes) | a machine of an ended training is billed only if its launch was given up, its termination failed, or the process died |
| `OnlyTheDeafRemain` (processes) | after a timeout nothing of the group is left but what ignores SIGTERM and dropped the pipe |
| `NothingEndsTooSoon` (processes) | counted calls are drained, a release removes the process's own pid file, trajectories are tagged after hosting only |
| `EveryWaitEnds` (processes) | runs, callers, given-up children, interrupted processes, tool calls, writers, trainings, commands, shutdowns and downloads end |
| `OneOutcome`, `SavedAtExit` (agents) | one result per run, and none only of a run that called no model and was rejected or is its own ancestor; nothing unsaved at its end |
| `MoneyIsCounted` (agents) | the session's cost is exact and its limit holds, across resumes |
| `ResultIsWhatArrived` (agents) | text and calls of a result are those of the lines that arrived |
| `NothingForgotten` (agents) | a fact stays until it is removed or expires; only a cut-off distillation loses its batch |
| `SkillsAreKept` (agents) | no twins but by a race of processes; archived skills point to what merged them; rates are the share of successes |
| `LimitsAreInherited` (agents) | depth, tools and memory limits hold at every level of runs |
| `ToolsLeaveOrder` (agents) | a failed `edit_files` leaves its files as they were; the pool hands out open browsers |
| `WarmStartsStay` (agents) | once summarized, a context always has a summary to start from |
| `ReadsAreFresh`, `GrantedFirst` (turns) | cached reads tell of the present workspace; nothing guarded runs unapproved |
| `HistoryIsKept` (turns) | histories are ordered and complete |
| `TurnRulesStick` (turns) | one-turn rules apply once; sticky rules stay, and one with a limit of cost gives way only when late metadata has brought the total down to that limit |
| `ToolTurnsEnd` (turns) | turns end; after an error no further call starts |
| `SavesSurvive`, `LoadFollowsRequests` (stores) | a load finds the last acknowledged save; a session is resumable as last asked, except after a `delete` that could not mark the file |
| `SessionFilesAreKept` (stores) | saves keep their order, removals spare live sessions, the trash of a listed page is emptied |
| `SavesKeepTheFile` (stores) | configuration files are never torn and lose nothing but by overlap or reset |
| `CachedLoadsAreCurrent` (stores) | settings and skill files are loaded as they were at some time since the load began, except skill files that could not be read |
| `NamedServersRun` (stores) | `ui.pid` and `ui.port` name a server that is there, or one that was killed; a published server is named by both, unless another had passed the check of `ui.pid` too; the adapter server that is named is the only one |
| `LogsAreKept` (stores) | recent backups stay; no client gets a log line twice |
| `ProcessTypesOK`, `AgentTypesOK` | types of the parts (the other runs have them inside one of the above) |

Each property of these runs has a mutant in PROJECT.json: a plausible mistake
in one definition, under which TLC finds the property violated.

Six runs check what a comment or document of the repository claims and find it
violated; their findings are in PROJECT.json:

| Run | Claim | Counterexample |
|---|---|---|
| `loop_meta` | `CostIsExact` | late metadata erases the cost of a turn |
| `conv_approval` | `ApprovedCallRuns` | an approved call is put off again |
| `store_torn` | `CrashLosesOneLine` | a torn line hides the whole session |
| `router_ignored` | `CallsFollowTheRouter` | the router's decision never reaches the call |
| `billing` | `ErrorsEndTheBilling` | a machine that was not ready in time is left running |
| `cli_term` | `FirstSignalLetsTheRunEnd` | the browser tool's handler ends the process in its run |

Conditions that appear in properties are part of what they say:

* `HolderOwnsRow`, `ImplementsMutex` need runs shorter than the staleness limit
  (`MaxRun < StaleAfter`); a longer run is robbed of its lock.
* `OneOutcome`, `SavedAtExit`, `MoneyIsCounted` are checked where event
  handlers and saves work and metadata is on time; `processes` runs AgentLoop
  with all of them failing.
* `HistoryIsKept` needs `~damaged`; states behind a damaged one are cut off by a
  CONSTRAINT, because nothing is said of them.
* `TurnRulesStick` allows for what `loop.ts` 1652-1659 does to rules with a limit
  of cost: metadata that arrives after a later turn has begun takes back what was
  added since. Metadata that arrives in its turn, whatever it reports, excuses
  nothing, and neither does late metadata while the total is above the limit.
* `ReadsAreFresh` needs `~raced`: no change abandoned, no change beside a read.
* The properties of SessionStore need `Undisturbed`: no two commands overlap
  and no append was cut short. Crashes and failing steps are not excluded, with one
  exception: after a `delete` that could not mark the file (`wanted = "unmarked"`)
  `LoadFollowsRequests` says nothing until the session is trashed, restored or
  deleted again.
* History variables `gap`, `slip`, `excused`, `overlap`, `disturbed`, `crossed`, `raced`,
  `blind`, `missed` record that one of the gaps named in a property's comment has been
  entered. In UiServer a server is disturbed only if it was past the check of `ui.pid`
  when another one wrote or removed a file.

## 5. Bounds

* **SessionLock**: three runs are the least with a holder, a thief and a third
  that steals from the thief; two ticks of staleness separate "fresh", "stale"
  and "just stale"; five ticks let three locks go stale in a row. **FileLock**:
  three processes likewise (one that died, one that judged, one that holds),
  two tries.
* **CircuitBreaker**: two runs (a probe and a rejected one), two breaker
  objects (the entry and one that outlives its eviction), a threshold of 2
  (first, last and further failures). **Retry**: a chain of three models (first,
  middle, last) and one of one model, three retries, two keys. **ModelCache**:
  three fetchers, so that two may overlap and a third come after.
* **AgentLoop**: five turns (`processes`) are needed for a series of identical
  calls to reach its third warning (2 + 3 - 1 = 4) and a turn more; `agents` has
  two runs for the carried total and a limit of 4, reached within or across
  them with costs 0-2.
* **Conversation**: two runs (ask and resume), three answers of up to two calls
  (a question among siblings; a summary that keeps two turns and covers one); an
  image stands for any message that follows the results, `warning` adds no case.
  **ToolExec**: a cacheable local read, a cacheable delegated read, a change, the
  exit of plan mode; turns of up to three calls with two workers leave one in
  the queue, three calls in all; a cache of one entry evicts on the second read.
  **Router**: a sticky and a one-turn rule, four turns, actual prices below and
  above the estimates.
* **SessionStore**: two processes, one that dies and one that finds what it
  left; two versions, two retention periods. **FileStore**: two processes, two
  sessions, pages of one (trash is on the page listed, or not), two pending saves,
  a chain map of one entry, so that eviction happens. **Checkpoint**: two threads, two contexts, two summaries.
  **ConfigFile**: two requests, a wizard and two loads. **AuditLog**: two
  loggers, one backup kept, four files. **SkillFiles**: one file, two loads.
  **LogTail**: one client, two days, three lines. **UiServer**: three servers, two
  ports. **LocalAdapter**: three trainings, two servers.
* **Subprocess**: three lines under way. **Cli**: two processes, three retries as
  in the code. **McpClient**: two calls, four clients. **McpServer**: three calls.
  **BashTool**: a shell and two processes it may fork. **WebFetch**: three
  redirects. **SubAgents**: three runs below the root, depth two. **FileTools**: two
  calls, two files, three edits. **BrowserPool**: three users, two sessions,
  three browsers.
* **MemoryDb**: two runs, two facts, three rows. **MemoryFile**: three writers in
  two processes, two entries. **SkillBank**: two processes, two topics of one
  area, four ids; a rate prunes from ten uses as in the code, twenty uses. **Training**: two trainings, two trajectories. **ChatStream**: five
  families, streams of up to three lines out of six kinds.

Counters that only histories need (`modelCalls`, `repeats`, `summaries`) are
capped where no property distinguishes larger values; each cap is commented at
its definition. Bounds that are constants are named there.

## 6. Fairness

* SessionLock: weak fairness of each run's acquisition and end. A process that
  lives executes its next statement and its retry timers fire; crashes and
  other writers get none. FileLock: the same for acquiring, heartbeat, release,
  a new attempt, and time.
* CircuitBreaker: weak fairness of the end of a call (clients have timeouts)
  and of time. `OpenIsTested` also needs demand: runs keep coming (weak) and
  do not all end before they consult the breaker (strong); without callers
  nothing tests a breaker. Retry: each call's next step: waits are timers.
* AgentLoop: the run's next step and the metadata's arrival: sequential code
  with timeouts on calls and tools. Aborts, shutdowns and failures get none.
* ToolExec: in `turns`, that some step of a turn's calls or its end is taken
  (weaker than one condition per worker): tools have timeouts and users answer.
  Ghosts may never land.
* Subprocess: reading a line, seeing the close, the timeout, the kill, and the
  child's start and exit; not its answer: a silent child is what the timeout is
  for. Cli: the forced exit's timer, the unlink of a release, the end of the
  browsers; not the end of a run. McpClient: each call's next step (every
  request has a timeout). MemoryFile: each writer's next step. Training: each
  training's next step: polls are bounded. BashTool: the two timers and the
  close once nobody holds the pipe. McpServer: the poll and the minute's
  timer; calls may hang. WebFetch: the timers only; servers may never answer.
* The other modules make no liveness claim and have none.

`processes` numbers the fair steps of the parts and asks one weak fairness per
number: as only one part is looked at in a behaviour, that is the fairness of
that part's step. Every run says CHECK_DEADLOCK FALSE: runs, calls and
processes end.

## 7. What is proved

The theorems hold for every value of the constants that satisfies the ASSUMEs of
the modules, that is, for any number of runs, processes, calls, models, files,
for any limits, and whatever the bounds. Each rests on an inductive invariant,
because the property alone does not survive a step.

A proof module extends the MC module of its run. Its parts are proved one by one,
about the specification of the component; the last section shows that a step of
the whole is a step or a stutter of every component (`StepsOf...`), so that the
theorems it ends with are about the very specification and property that the run
checks. What a reader should know for each part is the invariant, and why the
property needs it.

**AgentLoopProofs.** `IInv == TypeOK /\ Going` (in the loop a run has a
turn left, its calls are an answer, and it was not aborted as stuck). On top of
it one invariant per theorem: `Unreported` phases for `SafetyNetIsIdle`,
`Reported` (results emitted so far, by phase) for `OneOutcomeEach`, `Saved` for
`EndedRunsAreSaved`, `RInv` (`Counted`: what `streak` and `stuck` say about a
series of that length; `Remembered`: the series the loop remembers is the real
one) for `SeriesAreCut` and `AbortsAreDeserved`, `TInv` (model calls against turn
and healed retry, by phase) for `TurnsAreBounded`. `Reported` also says that a run which is its own ancestor
is in its setup or done, and has called no model. `OneOutcomeEach` assumes event
handlers that do not throw, `EndedRunsAreSaved` saves that do not fail.

**LocksProofs.** *SessionLock*: `IInv == SnapshotFree /\ WithinMaxRun /\ HolderOwnsRow`.
A transaction whose snapshot is current saw no fresh lock, and still sees none
(`SnapshotFree`): whoever commits replaces nobody's fresh lock, which is
`NeverStolen`, without any assumption on run lengths. `WithinMaxRun` bounds the
age of a holder's row; with `MaxRun < StaleAfter` (a hypothesis of the theorems,
not of the module) it is fresh, hence not replaced: `OwnRow`. Two holders would
both own the one row: `Exclusive`. `Implements` maps holders to holders and
shows each step of SessionLock to be one of SessionMutex or a stutter.
*FileLock*: `FileLockInv` says which processes have created, judged or opened the
file that is there (`HandsOnFile`), and that, until a process fell into a gap, who
holds the lock or is about to is the one creator of that file, which nobody has
judged or has open but for its own heartbeat, and which is never too old
(`OwnFile`).

**ProvidersProofs.** *CircuitBreaker*: `BreakerInv` (a run past its start has a
breaker). With it `StreakBelowThreshold` and `ProbeIsInFlight` are inductive
themselves: `StreakCounted` goes through whoever reports successes and failures
in whatever order, `ProbeDecides` through every way a run may end and through
evictions of the map entry of a breaker in use. *Retry*: `Counted` equates
requests and attempts, but for the one in flight; `Marked` says that a call with
`retriedCurrentModel` set asked its current model before. *ModelCache*: a call
that asks waits for its own request, and the request that others join is under
way (`AskersAreJoined`, `JoinedIsAsking`).

**ProcessesProofs.** *Subprocess*: `ChildInv` relates the lines still in the pipe
to what the child has done (`Truthful`: an answer is behind all its events, and
says what became of the run) and to the promise (`Settled`: what settled it is
what is left, or is not left, in the pipe). *Cli*: `CliInv`, until a step slips: the
pid file is that of the process that made it (`FileIsTheirs`), and a file judged
stale stays so (`JudgedStays`). *McpClient*: `McpInv` needs one reconnection at a time
(`OneAtATime`), without which a client is left open, and counts per call what
the server has carried out. *MemoryFile*: `MfInv`: a writer between its
load and its save has the lock of its process, and without a crossing of two
processes is alone (`Locked`), so that what it loaded is what the file holds
(`Loaded`). *Training*: `TrainingInv` says for each rented machine which training
is at work on it, or how that training ended. *BashTool*, *McpServer*, *WebFetch*:
who is left in the group at each stage; the count is that of the calls counted
(a cardinality, hence finitely many calls); redirects within the limit.

**StoresProofs.** *SessionStore*: `IInv == TypeOK /\ Hands /\ Dated /\ Disturbable`.
`Hands` says what a process at each step is doing and has in hand, `Dated` that
the row's date is the last change the index heard of; both hold always.
`Disturbable` says that while nothing overlapped and nothing was torn the state
is `Calm`: one process at most is busy (`Alone`); the file's last line is
whole and between the acknowledged and the newest version (`Kept`); the file's trashed
flag is as last asked, and no row is marked of a session that was restored
(`Followed`); and what a run, a command
or a removal under way has already done (`Running`, `Commanded`, `Removing`,
`Agreed`). *FileStore*: `FilesInv`: a session with a save under way has an entry in
the map of its process (`ChainIsQueued`), so that its next save waits for it
(`LaterSavesWait`); what a removal has judged it may remove, unless the session was
saved since (`Judged`). `deleteTrash` removes what the listing returns, one page
(`session.ts` 444-459), although `docs/guide/cli-reference.md:221` says "Delete all
trashed sessions": the property promises that for sessions on the page. *ConfigFile*: `CfgInv`: a temporary file
is that of one save unless two requests shared it (`TmpIsOwn`), saves that did not
overlap have read what was saved before (`SavesAlone`), and what is cached as
current is what the file holds (`CacheIsDoc`). *SkillFiles*: a load in
progress knows of each file a content it had since the load began, unless the file
was missed (`LoadKnows`).
*AuditLog*: backups are in order, and what was removed is older than what stays.
*LogTail*: what was sent to a client lies before its position, by `MaxLines` per
day at most. *LocalAdapter*: who wrote `server.pid`, and that it is the server that
listens. *UiServer*: a file names a server at a stage at which it has to be there, or a
killed one; what a server that was not disturbed has written is still in the files.

**AgentsProofs.** *Cost* (`MoneyInv`): by phase, the total is what was billed,
the saved cost is what was billed in the runs that ended, and metadata under way
replaces the estimate that is in the total. `CanCount` is the hypothesis that
metadata arrives before the next call, saves succeed and no run ends at an open
circuit. Each is needed: metadata that comes later erases the cost of a turn
(run `loop_meta`), and a run that was not saved, or that the circuit ended, which
saves nothing, leaves its cost out of the next. *ChatStream* (`StreamInv`): while a
stream is read, the parse state is that of its complete lines (`ReadTo`): text and
calls have each of their lines once, in order, and the named calls are those that a
line opened. A chunk is parsed by a recursive function over the lines; that it
exists, and what it has added after each line, are shown by a least counterexample,
since induction with a predicate is out of reach. `ParseLineReads` says what one line
adds in each family (`Parse`), `DrainedReads` that what is drained is the line whose newline is missing. *MemoryDb* (`MemInv`): what a
distillation has taken out, or is about to, its summary tells. *SkillBank*: one
process stores at a time unless they raced, and what it stores has no twin among
what lives (`BankInv`); rounding adds up to half a unit per use at most
(`RatingInv`). *SubAgents* (`TeamInv`): the limits of a run hold for all below it, whose
depth is the number of runs above. *FileTools* (`FilesInv`): a call that was alone
has, of each file it changed, the content it read. *BrowserPool* (`PoolInv`): a
browser is that of one session, and while it is closed of none. *Checkpoint*
(`CheckpointInv`): row ids say which row is the latest of its context, finitely
many threads having one.

**TurnsProofs.** *ToolExec* (`ToolsInv`): `CallsAndCache`, `InTurn`
(untaken calls are waiting, only finished ones have results), `Tracked` (a file
tool in flight has noted its file), `Planned` (no change is in flight in plan
mode), `Granted` (what is cached was granted when it was read), `ReadsFresh`
(without a race no change is in flight beside a read, and cache and reads tell of
the current version unless a change has just landed). *Conversation*
(`ConversationInv`): a history that is `Kept` is in order up to its end, begins with the
system prompt and a message of the user, and tells of the turns it should;
between an answer and its results all but the last message is. The same holds of
the session file and of the copy that maintenance works on, whose pending
question is of a turn that the history lacks, which is why putting it back makes
no turn twice. Most of the proof is about sequences: appending a turn with its
results, cutting at a turn, replacing a beginning by its summary, putting a turn
back, each keep a history in order. *Router* (`RouterInv`): a rule that has matched
once is used up, or matches again whenever the total is above its limit, so that
the first rule that matches is never a later one. As long as no metadata came late,
no turn has seen a total above the present one, and what is due for the last turn
starts from a total that none has seen exceeded (`NoneSaw`): metadata in time
cannot bring the total below a limit that was passed.

Some properties are proved and not checked in a run of their own, because the
theorem says more than an instance would: that holders exclude each other and
fresh rows are never taken (`HoldersExclusive`, `FreshRowNeverStolen`), that a
breaker that lets calls through is below its threshold (`StreakBelowThreshold`),
that the finally block finds a result, turns are bounded and stuck aborts
deserved (`NoSafetyNet`, `TurnsBounded`, `AbortsOnlyWhenStuck`), that plan mode
changes nothing, changed files are tracked and the cache is bounded
(`PlanTouchesNothing`, `ChangesAreTracked`, `CacheBounded`), that requests are
bounded and calls give up late (`RequestsBounded`, `GivesUpLate`), that index and
file agree and removals are justified (`IndexAgrees`, `RemovalIsJustified`).

Assumptions: the ASSUMEs of the modules (constants are of the types their
comments say; no defaults of the code are assumed) and the hypotheses named
above. A few say that a set is finite or not empty: sessions on disk, calls of the
MCP server, threads (they are counted, or have a first one), at least one key of
the browser pool (the code has a default key), at least one turn of a run, a
number of log lines per day. SANY, TLC and TLAPS are trusted; the models are not
compared with the code by any tool.

## 8. What is only model-checked

* Liveness (`EveryLockWaitEnds`, `RefusalsEnd`, `EveryWaitEnds`, `ToolTurnsEnd`):
  fairness and ENABLED are out of the prover's reach.
* `HistoryIsKept` is checked with a CONSTRAINT that cuts off damaged histories;
  the theorem is about all behaviours, since the property claims nothing of them
  but their types.

## 9. What is not modelled

* **Setup of a run** (`loop.ts` 223-1131) other than its outcomes and the parts
  named in section 2.
* **List, search and migration** of the session stores; the longer retention of
  summarized sessions in the default store.
* **Parallel chunks of a summary**, the text of any message, token counts:
  whether a limit is reached is a choice.
* **Latency and error-rate rules of provider health** beyond streak and count,
  the parsing of rate-limit headers. Request bodies and headers of providers.
* **Retrieval**: ranking, embeddings, vector indexes of memory and skills.
* **Scores** of the router and of trajectories are choices; trainers, hosts and
  rented machines are external.
* **Workflow, webhook, input processing, profiles and instructions, todo, search
  and read tools, telemetry and metrics, the pages of the interface**: little or
  no state, or conversions and I/O whose outcomes nothing depends on.
* `session-sqlite.ts` and the provider breakers of `circuit-breaker.ts` are
  never used.

## 10. What was observed in the code

Six observations have a run that shows them (PROJECT.json, "findings"; section
4). The models contain, or deliberately excuse, the following as well.

*Locks and stores.* A run longer than five minutes is robbed of its lock
(`session-jsonl-store.ts:269`). SQLITE_BUSY while locking makes the run go on
without the lock. The exits in `loop.ts` 1016-1065 release neither lock nor MCP
handles. `prune` and `deleteTrash` overlapping a save or restore can unlink a
live file or leave a row without one; `delete()` returns as if done although the
session file could not be read or appended to, and the session stays resumable
(`session-jsonl-store.ts:189`, against "so load() reflects the trashed state" at 184);
a failed unlink of `prune` or `deleteTrash` leaves a resumable file without a row,
which no later one of them selects (232, 252); in the file store `deleteTrash` sees the 200
latest sessions only (`session.ts` 339, 444-459); `trashSession`/`restoreSession` take no
lock, and a concurrent run's next save clears the trashed flag. The header of
`session-jsonl-store.ts` (15-18) names a `_saveQueues` that the class lacks. A raw
checkpoint makes the old summary of its thread the latest of the context, and
a thread that went on in another context takes its summary along
(`session.ts` 178-182); the checkpoint of a deleted session is still used;
`full_state` and `loadSessionCheckpoint` are read by nothing.

*Conversation.* A fork of a summarized session can be empty
(`session.ts:690`, against 656-657). `compactSession` hands only assistant
messages to the summary, so an earlier summary is lost (`session.ts:778`,
against 740-741), as is the first by a second one in the loop. The question
exit cuts the wrong messages if images or a stuck warning follow the results
(`loop.ts` 2026-2030). Only the last of several pending approvals is kept and
`approvalAnswer.toolCallId` is never compared; siblings of the call in question
run twice; the resumed turn comes after the new prompt. Truncation during the
cooldown can separate calls from results, repeat the system message, and with
0 messages to keep keeps all. An exception between a turn and its results saves
calls without results (2418-2440). `turnCount` counts the last run's turns
only. `compactSession` overwrites a run that ended between its load and its
lock. `summarized` is reset by the next save.

*Loop and router.* The soft cost limit ends the run (`loop.ts:2205`, against
`types.ts` 911-912). An abort during a model call is reported as "error" (2447,
against `types.ts` 1030-1031). The circuit-open exit saves nothing (1421-1446,
against "Guaranteed session save on any exit path" at 2467). The first turn of
a resumed session over its limit, and the retry of invalid JSON, skip the cost
check. A result handler that throws after delivery gets a second result. A
low-confidence token is only logged (ADR 0007 line 90: "the run is re-attempted
on the teacher model"); what the router's samples cost is not counted. A sticky
rule with a limit of cost comes unstuck when late metadata lowers the total
(1652-1659, against "sticky — applies every turn once matched" at `types.ts` 650).

*Sub-agents.* `spawn_agent` takes a failure further down for its child's own
(`loop.ts` 951-962); sub-agents can spawn sub-agents (against `types.ts`
1433-1434). A child goes on after its call timed out, and its events arrive
after the parent's result. The Agent tool reports success whatever its run
reported, mixes in the text of grandchildren and hands down neither abort
signal, extra tools nor cost limit. A child's cost is not counted in its
parent's limit. A workflow goes on with the output of a failed step.

*Tools.* A read that ran beside a change puts its old result into the cleared
cache; a timed-out tool's change lands later. `exit_plan_mode` ends plan mode
even if it was denied (1885-1895). Concurrent approvals both read the terminal.
Delegated tools bypass approval and hooks. Two edits of one file in a turn can
both report success with one of them lost; `create_if_missing` writes the first
edit only; `write_memory` takes any read error for an empty file. A command
killed by a signal counts as a success; `runShell` terminates only bash itself;
`activeBashPids` is never used. Two first browser calls launch two browsers, of
which one is never closed, as is a browser whose context fails. A download's
body goes on after its timeout. Hooks that read their standard input hang, as
`execFile` has no `input` option. A settings rule "deny" is treated as "ask"
(`settings.ts` 518-523, against `docs/guide/configuration.md:74`).

*Calls.* Aborted calls are retried and counted against the provider
(`retry.ts` 261-274). After a server error a rate limit rotates the model
without trying the next key (`types.ts` 552-553). A degraded model with
fallbacks is not tried again until its record is forgotten. Health is read
before the gate's wait. The error that surfaces is the last, not the
"original" (`retry.ts:147`). A breaker's map entry is evicted while a run uses
it, after which two breakers count separately. Gemini's two calls of one tool
in an answer are merged or lost. An abort in the middle of a stream becomes a
success; OpenAI, DeepSeek and Gemini get no timeout signal.

*Processes.* The chat goes on reading prompts after an interrupt until the
forced exit. Overlapping reconnects, and `close()` during one, leak a client
(`mcp-client.ts` 294-300). In the MCP server a call between its check and its
count is cut at exit, and SIGTERM's draining is bypassed by the browser tool's
handler.

*Memory, skills, training.* Any error reading the memory file counts as an empty
store, and the next save replaces everything (`memory.ts:74`). A skill or a skill
directory that cannot be read is left out without a word. Facts stored with a time to live survive it in a
distilled summary (`tools/remember.ts`: "Optional TTL in days"). The limit on
entries is not applied with SQLite. A skill with three successes in ten may be
pruned although the rule is "below 0.3", by the rounding of averages; a merge can
leave more than `maxSkills` (`docs/guide/skills.md:97`). A failed read of a skill
file is cached for half an hour. Two trainings may run at once (`scheduler.ts`:
"No training job is already running (checked via lock file)"); the registry is
saved as it was before a poll of half an hour; `rollbackEndpoint` goes to the
last but one. The archived version of a local adapter is not always its own
weights (`local-training-pipeline.ts:257`), and the adapter server goes on with
old ones after a training.

*Interface and logs.* A client of the log stream stays on the old file after
midnight (`ui-server.ts`: "Midnight rollover: if the expected file path has
changed, switch to it."), and one that leaves takes the listeners of all others
along (`unwatchFile`). The wizard's probe sends no token and so never finds a
running server (`setup.ts:843`). Two concurrent saves share a temporary file;
an unreadable configuration is overwritten with the defaults; a form that
clears a field keeps the old value; the settings form replaces `bashPolicy` as a
whole. Entries of the audit log before its directory exists are lost ("L-04:
Await directory initialization before first write"), and two rotations in a
second clobber a backup (`audit.ts:88-89`).

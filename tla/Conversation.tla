---------------------------- MODULE Conversation ----------------------------
(***************************************************************************)
(* The message history of a session: how the runs of loop.ts extend it,    *)
(* cut a turn off to ask for approval and put it back, summarize and       *)
(* truncate it, and how compactSession, rollbackSession and forkSession of *)
(* session.ts rewrite it.                                                  *)
(*                                                                         *)
(* A message is its role, the turn it belongs to and, if it is a summary,  *)
(* the turns that it covers; texts are left out.  Whether a limit is       *)
(* reached is left open.  Locks are modelled in SessionLock, the exits of  *)
(* a run in AgentLoop.                                                     *)
(***************************************************************************)
EXTENDS Integers, Sequences, FiniteSetsExt, SequencesExt

CONSTANTS Nil,
          Modes,       \* approvals of the runs: "question", or "open" if no tool needs any
          MaxTurnCalls, \* bound: tool calls in one answer
          MaxAnswers,  \* bound: answers of the model
          MaxRuns,     \* bound: runs of the session
          KeepTurns,   \* opts.summarizeKeepRecentTurns
          KeepLast,    \* opts.summarizeFallbackKeep
          Cooldown,    \* SUMMARIZE_COOLDOWN_TURNS
          Mishaps,     \* what may go wrong: see FaultNames
          Tools,       \* maintenance of the session that may happen
          Concurrent   \* maintenance may happen while a run is active

FaultNames == {"save", "throw", "crash", "image", "warning", "summarize"}

ASSUME ConversationAssumption ==
  /\ Modes \subseteq {"question", "open"}
  /\ {MaxTurnCalls, MaxAnswers, MaxRuns} \subseteq Nat \ {0}
  /\ {KeepTurns, KeepLast, Cooldown} \subseteq Nat
  /\ Mishaps \subseteq FaultNames
  /\ Tools \subseteq {"compact", "rollback", "fork"}
  /\ Concurrent \in BOOLEAN

VARIABLES stage,        \* where the active run is, or "idle"
          runs,         \* runs started
          approvalMode, \* the run's approvals
          decision,     \* opts.approvalAnswer of the run
          pending,      \* pendingApproval, as the run loaded it
          messages,     \* messages
          calls,        \* tool calls of the current turn: "free" or "guarded"
          turn,         \* turn
          failedAt,     \* summarizeFailedAtTurn
          savedData,    \* the session file, or Nil
          maint,        \* the maintenance under way: what it has loaded
          answers,      \* history: answers of the model, the turns of the session
          said,         \* history: the turns that the run's history should hold
          ignored,      \* history: an approved call was not executed on resume
          summaries,    \* history: summaries made, up to two
          damaged       \* history: something happened that may break the history

run == <<stage, runs>>
work == <<approvalMode, decision, pending, messages, calls, turn, failedAt, said>>
conversationHistory == <<answers, ignored, summaries, damaged>>
conversationVars == <<run, work, savedData, maint, conversationHistory>>

Kinds == {"free", "guarded"}
Answers == UNION {[1..k -> Kinds] : k \in 0..MaxTurnCalls}

Message(role, t, i, covers) == [role |-> role, turn |-> t, index |-> i, covers |-> covers]
System == Message("system", 0, 0, {})
User == Message("user", 0, 0, {})
Summary(covers) == Message("user", 0, 0, covers)
Assistant(t, n) == Message("assistant", t, n, {})     \* with n tool calls
Result(t, i) == Message("tool", t, i, {})             \* the result of the i-th of them
Results(t, n) == [i \in 1..n |-> Result(t, i)]

Indices(ms, role) == {i \in DOMAIN ms : ms[i].role = role}
Turns(ms) == {ms[i].turn : i \in Indices(ms, "assistant")}
\* The turns that a history still tells of.
Remembered(ms) == Turns(ms) \cup UNION {ms[i].covers : i \in DOMAIN ms}

\* "models expect strict assistant -> [tool...] -> assistant turn ordering" (loop.ts):
\* the results of a turn follow it at once and in full, no turn is there twice, and the
\* system prompt comes first.
Ordered(ms) ==
  /\ \A i \in Indices(ms, "assistant") :
       \A c \in 1..ms[i].index : i + c \in DOMAIN ms /\ ms[i + c] = Result(ms[i].turn, c)
  /\ \A i \in Indices(ms, "tool") :
       LET a == i - ms[i].index
       IN a > 0 /\ ms[a].role = "assistant" /\ ms[a].turn = ms[i].turn
  /\ \A i, j \in Indices(ms, "assistant") : ms[i].turn = ms[j].turn => i = j
  /\ \A i \in DOMAIN ms : ms[i].role = "system" <=> i = 1

SessionData(ms, question, count, summarized, told) ==
  [messages |-> ms, pending |-> question, turnCount |-> count, summarized |-> summarized,
   said |-> told]

ConversationInit ==
  /\ stage = "idle" /\ runs = 0
  /\ approvalMode = "open" /\ decision = "none" /\ pending = Nil
  /\ messages = <<>> /\ calls = <<>> /\ turn = 0 /\ failedAt = -Cooldown - 1 /\ said = {}
  /\ savedData = Nil /\ maint = Nil
  /\ answers = 0 /\ ignored = FALSE /\ summaries = 0 /\ damaged = FALSE

\* The run is over and its variables are gone.
RunIsOver ==
  /\ stage' = "idle"
  /\ approvalMode' = "open" /\ decision' = "none" /\ pending' = Nil
  /\ messages' = <<>> /\ calls' = <<>> /\ turn' = 0 /\ failedAt' = -Cooldown - 1 /\ said' = {}

-----------------------------------------------------------------------------
(***************************************************************************)
(* A run                                                                   *)
(***************************************************************************)

\* saveSession; its failure is only reported.
Save(f) == savedData' = f \/ ("save" \in Mishaps /\ UNCHANGED savedData)

LockFree == maint # Nil => ~maint.locked

\* The session is loaded, or created, and the prompt appended.
LoadRun ==
  /\ stage = "idle" /\ runs < MaxRuns
  /\ LockFree /\ (~Concurrent => maint = Nil)
  /\ runs' = runs + 1
  /\ approvalMode' \in Modes
  /\ messages' = Append(IF savedData = Nil THEN <<System>> ELSE savedData.messages, User)
  /\ said' = IF savedData = Nil THEN {} ELSE savedData.said
  /\ \/ decision' = "none" /\ pending' = Nil /\ stage' = "top"
     \/ /\ savedData # Nil /\ savedData.pending # Nil
        /\ decision' \in {"approve", "deny"}
        /\ pending' = savedData.pending
        /\ stage' = "resolve"
  /\ UNCHANGED <<calls, turn, failedAt, savedData, maint, conversationHistory>>

\* executeOne: in question mode a call that needs approval is not executed but put off.
Executes(kind) == kind = "free" \/ approvalMode = "open"

\* The turn with the question is put back, its calls are executed, and the result saved.
ResolveApproval ==
  /\ stage = "resolve"
  /\ LET n == Len(pending.calls)
     IN messages' = messages \o <<Assistant(pending.turn, n)>> \o Results(pending.turn, n)
  /\ said' = said \cup {pending.turn}
  /\ ignored' = (ignored \/ (decision = "approve" /\ ~Executes(pending.calls[pending.asked])))
  /\ Save(SessionData(messages', Nil, 0, FALSE, said'))
  /\ decision' = "none" /\ pending' = Nil
  /\ stage' = "top"
  /\ UNCHANGED <<runs, approvalMode, calls, turn, failedAt, maint, answers, summaries, damaged>>

\* A tool or an event handler throws while the turn with the question is put back.
ResolveThrows ==
  /\ stage = "resolve" /\ "throw" \in Mishaps
  /\ \E n \in 0..Len(pending.calls) - 1 :
       LET ms == messages \o <<Assistant(pending.turn, Len(pending.calls))>>
                          \o Results(pending.turn, n)
       IN Save(SessionData(ms, Nil, turn, FALSE, said \cup {pending.turn}))
  /\ damaged' = TRUE
  /\ RunIsOver
  /\ UNCHANGED <<runs, maint, answers, ignored, summaries>>

\* An answer, with tool calls, or without: the last one, or one that is not JSON.
ModelAnswers ==
  /\ stage = "top" /\ answers < MaxAnswers
  /\ answers' = answers + 1
  /\ said' = said \cup {answers'}
  /\ \E cs \in Answers :
       LET ms == Append(messages, Assistant(answers', Len(cs)))
       IN /\ calls' = cs
          /\ \/ cs # <<>> /\ messages' = ms /\ stage' = "tools"
             \/ cs = <<>> /\ messages' = ms /\ stage' = "end"
             \/ cs = <<>> /\ messages' = Append(ms, User) /\ stage' = "top"
  /\ UNCHANGED <<runs, approvalMode, decision, pending, turn, failedAt, savedData, maint, ignored,
                 summaries, damaged>>

\* Something throws: during the call, the history is saved as it is; during the tools,
\* without their results.
RunThrows ==
  /\ stage \in {"top", "tools", "judge", "turnEnd"} /\ "throw" \in Mishaps
  /\ Save(SessionData(messages, Nil, turn, FALSE, said))
  /\ damaged' = (damaged \/ stage = "tools")
  /\ RunIsOver
  /\ UNCHANGED <<runs, maint, answers, ignored, summaries>>

\* The calls are executed or put off; all results come first, then the images they returned.
RunTools ==
  /\ stage = "tools"
  /\ \E images \in 0..(IF "image" \in Mishaps THEN 1 ELSE 0) :
       messages' = messages \o Results(answers, Len(calls)) \o [i \in 1..images |-> User]
  /\ stage' = "judge"
  /\ UNCHANGED <<runs, approvalMode, decision, pending, calls, turn, failedAt, said, savedData,
                 maint, conversationHistory>>

\* The history with the warning of the loop detection, if there is one.
Warned == {messages} \cup (IF "warning" \in Mishaps THEN {Append(messages, User)} ELSE {})

PutOffCalls == {i \in DOMAIN calls : ~Executes(calls[i])}

\* A call needs approval: the history is saved without this turn, as far as the number of
\* its messages is known, and the run ends.
AskApproval ==
  /\ stage = "judge" /\ PutOffCalls # {}
  /\ \E ms \in Warned :
       LET kept == SubSeq(ms, 1, Len(ms) - 1 - Len(calls))
           question == [turn |-> answers, calls |-> calls, asked |-> Max(PutOffCalls)]
       IN /\ Save(SessionData(kept, question, turn, FALSE, said \ {answers}))
          /\ damaged' = (damaged \/ answers \in Turns(kept))
  /\ RunIsOver
  /\ UNCHANGED <<runs, maint, answers, ignored, summaries>>

\* The turn is over, or the run: a finish tool, a third warning.
JudgeTurn ==
  /\ stage = "judge" /\ PutOffCalls = {}
  /\ messages' \in Warned
  /\ calls' = <<>>
  /\ stage' \in {"turnEnd", "end"}
  /\ UNCHANGED <<runs, approvalMode, decision, pending, turn, failedAt, said, savedData, maint,
                 conversationHistory>>

-----------------------------------------------------------------------------
(***************************************************************************)
(* Summarization                                                           *)
(***************************************************************************)

\* Where the messages that are kept begin: the KeepTurns-th last answer; 1 if there are
\* not as many, or if it comes first.
KeptFrom(ms) ==
  LET starts == {i \in Indices(ms, "assistant") :
                   Cardinality({j \in Indices(ms, "assistant") : j >= i}) = KeepTurns}
  IN IF starts = {} THEN 1 ELSE Max(starts)

SystemOf(ms) == IF ms # <<>> /\ ms[1].role = "system" THEN <<ms[1]>> ELSE <<>>

\* The summary tells of the answers of the part that is not kept; with too few answers
\* nothing is kept.
Compacted(ms) ==
  LET from == KeptFrom(ms)
      old == IF from > 1 THEN SubSeq(ms, 1, from - 1) ELSE ms
      kept == IF from > 1 THEN SubSeq(ms, from, Len(ms)) ELSE <<>>
  IN SystemOf(ms) \o <<Summary(Turns(old))>> \o kept

\* messages.slice(-KeepLast), which is all of them for 0.
Recent(ms) ==
  IF KeepLast = 0 \/ Len(ms) <= KeepLast THEN ms ELSE SubSeq(ms, Len(ms) - KeepLast + 1, Len(ms))
Truncated(ms) == SystemOf(ms) \o Recent(ms)

CoolingDown == turn - failedAt <= Cooldown

Summarize ==
  /\ ~CoolingDown
  /\ messages' = Compacted(messages)
  /\ Save(SessionData(messages', Nil, turn, TRUE, said))
  /\ summaries' = IF summaries < 2 THEN summaries + 1 ELSE 2
  /\ UNCHANGED <<failedAt, damaged>>

SummarizeFails ==
  /\ ~CoolingDown /\ "summarize" \in Mishaps
  /\ failedAt' = turn
  /\ UNCHANGED <<messages, savedData, summaries, damaged>>

Truncate ==
  /\ CoolingDown
  /\ messages' = Truncated(messages)
  /\ damaged' = TRUE
  /\ UNCHANGED <<failedAt, savedData, summaries>>

NothingToDo == UNCHANGED <<messages, failedAt, savedData, summaries, damaged>>

\* The history may have become too long; the cost limits may end the run.
CloseTurn ==
  /\ stage = "turnEnd"
  /\ Summarize \/ SummarizeFails \/ Truncate \/ NothingToDo
  /\ \/ stage' = "top" /\ turn' = turn + 1
     \/ stage' = "end" /\ turn' = turn
  /\ UNCHANGED <<runs, approvalMode, decision, pending, calls, said, maint, answers, ignored>>

\* The run ends at the head of its loop, cancelled or at its limit, or after the loop.
FinishRun ==
  /\ stage \in {"top", "end"}
  /\ Save(SessionData(messages, Nil, turn, FALSE, said))
  /\ RunIsOver
  /\ UNCHANGED <<runs, maint, conversationHistory>>

\* The process is killed, or the breaker stops the run: nothing is saved.
DropRun ==
  /\ stage # "idle" /\ "crash" \in Mishaps
  /\ RunIsOver
  /\ UNCHANGED <<runs, savedData, maint, conversationHistory>>

-----------------------------------------------------------------------------
(***************************************************************************)
(* Maintenance of a session: load it, rewrite it, save it                  *)
(***************************************************************************)

\* The first message after the turn-th answer and its results; 1 if there is no such answer.
AfterTurn(ms, t) ==
  LET as == {i \in Indices(ms, "assistant") :
               Cardinality({j \in Indices(ms, "assistant") : j <= i}) = t}
      rest(a) == {i \in a + 1..Len(ms) : ms[i].role # "tool"}
  IN IF as = {} THEN 1
     ELSE LET a == Max(as) IN IF rest(a) = {} THEN Len(ms) + 1 ELSE Min(rest(a))

\* compactSession: the whole history becomes a summary of its answers.
CompactedFile(f) ==
  [f EXCEPT !.messages = SystemOf(f.messages) \o <<Summary(Turns(f.messages))>>,
            !.summarized = TRUE]

\* Mutant: the results of the last turn are cut off.
RolledBackShort(f, t) ==
  LET users == Indices(f.messages, "user")
      firstUser == IF users = {} THEN 0 ELSE Min(users)
      to == IF t = 0 THEN firstUser ELSE AfterTurn(f.messages, t) - 2
      ms == IF t > 0 /\ to = -1 THEN f.messages ELSE SubSeq(f.messages, 1, to)
  IN [f EXCEPT !.messages = ms, !.turnCount = t, !.said = Remembered(ms)]

\* rollbackSession.  The session keeps its pending approval.
RolledBack(f, t) ==
  LET users == Indices(f.messages, "user")
      firstUser == IF users = {} THEN 0 ELSE Min(users)
      to == IF t = 0 THEN firstUser ELSE AfterTurn(f.messages, t) - 1
      ms == IF t > 0 /\ to = 0 THEN f.messages ELSE SubSeq(f.messages, 1, to)
  IN [f EXCEPT !.messages = ms, !.turnCount = t, !.said = Remembered(ms)]

\* forkSession.
Forked(f, t) ==
  LET ms == IF t = f.turnCount THEN f.messages
            ELSE IF t = 0 THEN SystemOf(f.messages)
            ELSE SubSeq(f.messages, 1, AfterTurn(f.messages, t) - 1)
  IN [f EXCEPT !.messages = ms, !.pending = Nil, !.turnCount = t, !.said = Remembered(ms)]

LoadData ==
  /\ maint = Nil /\ savedData # Nil
  /\ Concurrent \/ stage = "idle"
  /\ \E tool \in Tools :
       /\ tool = "compact" => ~savedData.summarized
       /\ tool = "rollback" => savedData.turnCount > 0
       /\ maint' = [tool |-> tool, data |-> savedData, locked |-> FALSE]
  /\ UNCHANGED <<run, work, savedData, conversationHistory>>

\* compactSession gets the lock once no run is active; the others take none.
LockSession ==
  /\ maint # Nil /\ maint.tool = "compact" /\ ~maint.locked
  /\ stage = "idle"
  /\ maint' = [maint EXCEPT !.locked = TRUE]
  /\ UNCHANGED <<run, work, savedData, conversationHistory>>

\* The session is locked for too long, or the model fails.
GiveUp ==
  /\ maint # Nil /\ maint.tool = "compact"
  /\ maint' = Nil
  /\ UNCHANGED <<run, work, savedData, conversationHistory>>

\* A session that changed since it was loaded is overwritten.
Stale == maint.data # savedData

FinishCompact ==
  /\ maint # Nil /\ maint.locked
  /\ savedData' = [CompactedFile(maint.data) EXCEPT !.said = savedData.said]
  /\ damaged' = (damaged \/ Stale)
  /\ summaries' = IF summaries < 2 THEN summaries + 1 ELSE 2
  /\ maint' = Nil
  /\ UNCHANGED <<run, work, answers, ignored>>

FinishRollback ==
  /\ maint # Nil /\ maint.tool = "rollback"
  /\ \E t \in 0..maint.data.turnCount - 1 : savedData' = RolledBack(maint.data, t)
  /\ damaged' = (damaged \/ Stale)
  /\ maint' = Nil
  /\ UNCHANGED <<run, work, answers, ignored, summaries>>

\* The work goes on in the fork; the source is left as it is.
FinishFork ==
  /\ maint # Nil /\ maint.tool = "fork"
  /\ stage = "idle"
  /\ \E t \in 0..maint.data.turnCount :
       /\ savedData' = Forked(maint.data, t)
       /\ damaged' = (damaged \/ savedData'.messages = <<>>)
  /\ maint' = Nil
  /\ UNCHANGED <<run, work, answers, ignored, summaries>>

Maintain == LoadData \/ LockSession \/ GiveUp \/ FinishCompact \/ FinishRollback \/ FinishFork

Stopped == stage = "idle" /\ runs = MaxRuns /\ UNCHANGED conversationVars

ConversationNext ==
  \/ LoadRun \/ ResolveApproval \/ ResolveThrows \/ ModelAnswers \/ RunThrows \/ RunTools
  \/ AskApproval \/ JudgeTurn \/ CloseTurn \/ FinishRun \/ DropRun
  \/ Maintain \/ Stopped

ConversationSpec == ConversationInit /\ [][ConversationNext]_conversationVars

-----------------------------------------------------------------------------
(***************************************************************************)
(* Properties                                                              *)
(***************************************************************************)
Phases == {"idle", "resolve", "top", "tools", "judge", "turnEnd", "end"}
Messages ==
  [role : {"system", "user", "assistant", "tool"}, turn : 0..MaxAnswers, index : 0..MaxTurnCalls,
   covers : SUBSET (1..MaxAnswers)]
IsPending(p) ==
  p # Nil => p.turn \in 1..answers /\ p.calls \in Answers /\ p.asked \in DOMAIN p.calls
IsFile(f) ==
  f # Nil => /\ Range(f.messages) \subseteq Messages
              /\ IsPending(f.pending)
              /\ f.turnCount \in 0..MaxAnswers /\ f.summarized \in BOOLEAN
              /\ f.said \subseteq 1..answers

ConversationTypeOK ==
  /\ stage \in Phases /\ runs \in 0..MaxRuns /\ approvalMode \in Modes \cup {"open"}
  /\ decision \in {"none", "approve", "deny"}
  /\ Range(messages) \subseteq Messages
  /\ calls \in Answers /\ turn \in 0..MaxAnswers /\ failedAt \in -Cooldown - 1..MaxAnswers
  /\ IsPending(pending) /\ IsFile(savedData)
  /\ maint # Nil => IsFile(maint.data) /\ maint.tool \in Tools /\ maint.locked \in BOOLEAN
  /\ answers \in 0..MaxAnswers /\ said \subseteq 1..answers
  /\ ignored \in BOOLEAN
  /\ summaries \in 0..2 /\ damaged \in BOOLEAN

\* What the model is sent, and what a session file holds, is an ordered history, through
\* questions, resumes, summaries, crashes, rollbacks and forks, as long as nothing was
\* truncated, thrown between a turn and its results, asked after an image or a warning,
\* or overwritten by maintenance that had loaded an older state.
HistoryOrdered ==
  ~damaged => /\ stage = "top" => Ordered(messages)
              /\ savedData # Nil => Ordered(savedData.messages)

\* The first summary of a session loses no turn: each is in the history or covered by it.
TurnsRemembered ==
  ~damaged /\ summaries <= 1 =>
    /\ stage \in {"top", "end"} => said \subseteq Remembered(messages)
    /\ savedData # Nil => savedData.said \subseteq Remembered(savedData.messages)

\* types.ts: when an answer is given "the loop resolves the approval with this answer
\* instead of prompting": an approved call is executed.
ApprovedCallRuns == ~ignored
=============================================================================

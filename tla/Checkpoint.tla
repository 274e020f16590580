----------------------------- MODULE Checkpoint -----------------------------
(***************************************************************************)
(* The checkpoints of sessions (session-jsonl-store.ts, loop.ts): one row  *)
(* per thread with the summary that a run has made last, from which fresh  *)
(* sessions of the same context take theirs.  A run also saves raw         *)
(* checkpoints, without a summary.                                         *)
(*                                                                         *)
(* A summary is known by the context it was made in and its place among    *)
(* all that were made.                                                     *)
(***************************************************************************)
EXTENDS Naturals, FiniteSets

CONSTANTS Threads,      \* sessions
          Contexts,     \* memory keys
          MaxSummaries, \* bound of the checks: summaries ever made
          MaxSecond     \* bound of the checks

ASSUME CheckpointAssumption ==
  IsFiniteSet(Threads) /\ MaxSummaries \in Nat /\ MaxSecond \in Nat

VARIABLES row,      \* session_checkpoints
          rowids,   \* threads in the order of their rows
          second,   \* datetime('now')
          working,  \* each thread: its run, the context of it, and the summary it waits for
          made,     \* summaries made so far
          stored,   \* history: contexts in which a summary was saved
          moved     \* history: contexts of which a thread went on in another

checkpointVars == <<row, rowids, second, working, made, stored, moved>>

Nowhere == "nowhere"
NoSummary == [context |-> Nowhere, number |-> 0]
ThreadSummaries == [context : Contexts \cup {Nowhere}, number : 0..MaxSummaries]

CheckpointTypeOK ==
  /\ row \in [Threads -> [context : Contexts \cup {Nowhere}, summary : ThreadSummaries, second : 0..MaxSecond]]
  /\ rowids \in [Threads -> 0..Cardinality(Threads)]
  /\ second \in 0..MaxSecond /\ made \in 0..MaxSummaries
  /\ working \in [Threads -> [at : {"none", "turns", "summarizing", "ending", "done"},
                              context : Contexts \cup {Nowhere}]]
  /\ stored \subseteq Contexts /\ moved \subseteq Contexts

CheckpointInit ==
  /\ row = [t \in Threads |-> [context |-> Nowhere, summary |-> NoSummary, second |-> 0]]
  /\ rowids = [t \in Threads |-> 0]
  /\ second = 0 /\ made = 0
  /\ working = [t \in Threads |-> [at |-> "none", context |-> Nowhere]]
  /\ stored = {} /\ moved = {}

HasRow(t) == rowids[t] # 0
Synthesised(k) == {t \in Threads : row[t].context = k /\ row[t].summary # NoSummary}
MadeAfter(t, u) == row[t].second > row[u].second \/ (row[t].second = row[u].second /\ rowids[t] > rowids[u])

\* loadLatestCheckpointByContextId: what a fresh session is given.
LatestOf(k) ==
  IF Synthesised(k) = {} THEN NoSummary
  ELSE row[CHOOSE t \in Synthesised(k) : \A u \in Synthesised(k) \ {t} : MadeAfter(t, u)].summary

WorkAt(t, at) == working[t].at = at
WorkTo(t, at) == working' = [working EXCEPT ![t].at = at]

\* Mutant: the summary is overwritten by null.
SaveCheckpointAsIs(t, summary) ==
  LET k == working[t].context
  IN  /\ row' = [row EXCEPT ![t] = [context |-> k, second |-> second, summary |-> summary]]
      /\ rowids' = IF HasRow(t) THEN rowids
                   ELSE [rowids EXCEPT ![t] = Cardinality({u \in Threads : HasRow(u)}) + 1]
      /\ moved' = IF row[t].context \in Contexts \ {k} THEN moved \cup {row[t].context} ELSE moved
      /\ stored' = IF summary = NoSummary THEN stored ELSE stored \cup {k}

\* saveCheckpoint: an upsert, which keeps the summary if it brings none.
SaveCheckpoint(t, summary) ==
  LET k == working[t].context
  IN  /\ row' = [row EXCEPT ![t] =
           [context |-> k, second |-> second,
            summary |-> IF summary = NoSummary THEN @.summary ELSE summary]]
      /\ rowids' = IF HasRow(t) THEN rowids
                   ELSE [rowids EXCEPT ![t] = Cardinality({u \in Threads : HasRow(u)}) + 1]
      /\ moved' = IF row[t].context \in Contexts \ {k} THEN moved \cup {row[t].context} ELSE moved
      /\ stored' = IF summary = NoSummary THEN stored ELSE stored \cup {k}
NoCheckpoint == UNCHANGED <<row, rowids, moved, stored>>

-----------------------------------------------------------------------------
\* A fresh session, which is given the latest summary of its context, or one
\* that is resumed, which is not, and may go on in another context.
BeginWork(t, k, resumed) ==
  /\ IF resumed THEN WorkAt(t, "done") ELSE WorkAt(t, "none")
  /\ working' = [working EXCEPT ![t] = [at |-> "turns", context |-> k]]
  /\ NoCheckpoint /\ UNCHANGED <<second, made>>

\* A turn whose answer has memory updates saves a raw checkpoint.
IngestUpdates(t) ==
  /\ WorkAt(t, "turns")
  /\ SaveCheckpoint(t, NoSummary)
  /\ UNCHANGED <<second, working, made>>

\* So does a turn that is going to be summarized.
BeginSummary(t) ==
  /\ WorkAt(t, "turns")
  /\ WorkTo(t, "summarizing")
  /\ SaveCheckpoint(t, NoSummary)
  /\ UNCHANGED <<second, made>>

\* The answer, which is saved whether or not it is valid, or an error.
SummaryArrives(t, fails) ==
  /\ WorkAt(t, "summarizing")
  /\ WorkTo(t, "turns")
  /\ IF fails THEN NoCheckpoint /\ UNCHANGED made
     ELSE /\ made < MaxSummaries
          /\ made' = made + 1
          /\ SaveCheckpoint(t, [context |-> working[t].context, number |-> made + 1])
  /\ UNCHANGED second

\* The run has succeeded: it is summarized if it had enough turns.
EndTurns(t, enough) ==
  /\ WorkAt(t, "turns")
  /\ WorkTo(t, IF enough THEN "ending" ELSE "done")
  /\ NoCheckpoint /\ UNCHANGED <<second, made>>

\* The last summary is only saved if it is valid.
LastSummaryArrives(t, valid) ==
  /\ WorkAt(t, "ending")
  /\ WorkTo(t, "done")
  /\ IF ~valid THEN NoCheckpoint /\ UNCHANGED made
     ELSE /\ made < MaxSummaries
          /\ made' = made + 1
          /\ SaveCheckpoint(t, [context |-> working[t].context, number |-> made + 1])
  /\ UNCHANGED second

\* The run fails, or its process is killed.
WorkStops(t) ==
  /\ ~WorkAt(t, "none") /\ ~WorkAt(t, "done")
  /\ WorkTo(t, "done")
  /\ NoCheckpoint /\ UNCHANGED <<second, made>>

CheckpointSecond ==
  /\ second < MaxSecond
  /\ second' = second + 1
  /\ UNCHANGED <<row, rowids, working, made, stored, moved>>

CheckpointNext ==
  \/ \E t \in Threads :
       \/ \E k \in Contexts, resumed \in BOOLEAN : BeginWork(t, k, resumed)
       \/ IngestUpdates(t) \/ BeginSummary(t) \/ WorkStops(t)
       \/ \E b \in BOOLEAN : SummaryArrives(t, b) \/ EndTurns(t, b) \/ LastSummaryArrives(t, b)
  \/ CheckpointSecond

CheckpointSpec == CheckpointInit /\ [][CheckpointNext]_checkpointVars

-----------------------------------------------------------------------------
\* Once a run has summarized its session, every fresh session of the context
\* is given a summary, whatever checkpoints are saved and summaries fail in
\* between, unless a session with one has gone on in another context.
WarmStartsStay == \A k \in stored \ moved : LatestOf(k) # NoSummary
=============================================================================

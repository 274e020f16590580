------------------------------ MODULE MemoryDb ------------------------------
(***************************************************************************)
(* The memory of one namespace in SQLite (memory-sqlite.ts): what the      *)
(* remember tool, the ingestion of memory updates and the distillation at  *)
(* the end of a run (loop.ts) do to the table memory_entries.              *)
(*                                                                         *)
(* A row stands for the facts its content states; the model's answer to a  *)
(* distillation is taken to state every fact of the batch, as its prompt   *)
(* asks.  Each statement or transaction is a step; a run is interrupted    *)
(* wherever the code awaits, and other processes use the same file.        *)
(***************************************************************************)
EXTENDS Integers, FiniteSets, FiniteSetsExt, Functions

CONSTANTS Runs,         \* runs of the namespace, each in a process of its own
          Facts,        \* what entries state
          Levels,       \* bound: the importance that entries are given
          Threshold,    \* DISTILL_ENTRY_THRESHOLD
          BatchSize,    \* DISTILL_BATCH_SIZE
          MinBatch,     \* of loop.ts: what is worth a distillation
          MaxSummary,   \* bound: entries of a summary
          MaxRows       \* bound: rowids

ASSUME MemoryDbAssumption ==
  /\ Levels \subseteq 1..3 /\ Levels # {}
  /\ Threshold \in Nat /\ MinBatch \in Nat \ {0} /\ MaxSummary \in Nat \ {0}
  /\ BatchSize \in Nat /\ BatchSize >= MinBatch
  /\ MaxRows \in Nat \ {0}

VARIABLES rows,     \* memory_entries by rowid
          stage,    \* of the distillation of each run
          batch,    \* the rowids it selected, less those whose entry is gone
          summary,  \* the entries it has still to add
          known     \* history: facts stored, not removed, expired or cut off since

memVars == <<rows, stage, batch, summary, known>>

Importance == 1..3
Lives == {"forever", "ttl", "expired"}
Row == [facts : SUBSET Facts, importance : Importance, life : Lives,
        master : BOOLEAN]
Rowids == 1..MaxRows
Item == [facts : SUBSET Facts, importance : Importance]

MemTypeOK ==
  /\ DOMAIN rows \subseteq Rowids /\ \A i \in DOMAIN rows : rows[i] \in Row
  /\ stage \in [Runs -> {"idle", "asking", "deleting", "adding"}]
  /\ batch \in [Runs -> SUBSET Rowids]
  /\ summary \in [Runs -> SUBSET Item]
  /\ known \subseteq Facts

MemInit ==
  /\ rows = <<>>
  /\ stage = [r \in Runs |-> "idle"]
  /\ batch = [r \in Runs |-> {}]
  /\ summary = [r \in Runs |-> {}]
  /\ known = {}

-----------------------------------------------------------------------------
(***************************************************************************)
(* Rows and vectors                                                        *)
(***************************************************************************)

\* SQLite's rowid for a new row: one more than the greatest in use, so that
\* the greatest is used again when its row is gone.
NextRowid == IF DOMAIN rows = {} THEN 1 ELSE Max(DOMAIN rows) + 1

\* What the entries that have not expired state.
Stating(entries) ==
  UNION {entries[i].facts : i \in {j \in DOMAIN entries : entries[j].life # "expired"}}

\* What a distillation has deleted and is about to add again.
Unsaved(r) == IF stage[r] = "adding" THEN UNION {e.facts : e \in summary[r]} ELSE {}

\* Rows go; whoever had selected them has ids that no longer name anything.
Without(f, ids) == Restrict(f, DOMAIN f \ ids)
BatchesWithout(ids) == batch' = [r \in Runs |-> batch[r] \ ids]

RemoveRows(ids) ==
  /\ rows' = Without(rows, ids)
  /\ BatchesWithout(ids)

\* One row more.
With(f, i, row) == [j \in DOMAIN f \cup {i} |-> IF j = i THEN row ELSE f[j]]

\* addMemoryEntrySqlite
Insert(row) ==
  /\ NextRowid \in Rowids
  /\ rows' = With(rows, NextRowid, row)

-----------------------------------------------------------------------------
(***************************************************************************)
(* The tool, the ingestion and the command                                 *)
(***************************************************************************)

\* remember "add", and a <memory_update>, which has no time to live.
AddEntry(f, importance, life) ==
  /\ Insert([facts |-> {f}, importance |-> importance, life |-> life,
             master |-> FALSE])
  /\ known' = known \cup {f}
  /\ UNCHANGED <<stage, batch, summary>>

\* remember "remove": by id.  (A fact that another entry states stays known.)
RemoveEntry(i) ==
  /\ i \in DOMAIN rows
  /\ RemoveRows({i})
  /\ known' = known \ rows[i].facts
  /\ UNCHANGED <<stage, summary>>

\* remember "set_master": the old one is deleted and the new one inserted in
\* one transaction.
SetMaster ==
  /\ LET old == {i \in DOMAIN rows : rows[i].master}
         rest == Without(rows, old)
         new == IF DOMAIN rest = {} THEN 1 ELSE Max(DOMAIN rest) + 1 IN
     /\ new \in Rowids
     /\ rows' = With(rest, new, [facts |-> {}, importance |-> 3, life |-> "forever",
                                 master |-> TRUE])
     /\ BatchesWithout(old)
  /\ UNCHANGED <<stage, summary, known>>

\* orager memory clear.
ClearMemory ==
  /\ rows # <<>>
  /\ RemoveRows(DOMAIN rows)
  /\ known' = {}
  /\ UNCHANGED <<stage, summary>>

\* A time to live is over.
TimePasses(i) ==
  /\ i \in DOMAIN rows /\ rows[i].life = "ttl"
  /\ rows' = [rows EXCEPT ![i].life = "expired"]
  /\ LET over == rows[i].facts \ (Stating(Without(rows, {i})) \cup UNION {Unsaved(r) : r \in Runs}) IN
     known' = known \ over
  /\ UNCHANGED <<stage, batch, summary>>

\* loadMemoryStoreSqlite, which every run and every use of the tool begins
\* with: what has expired is deleted.
LoadStore ==
  /\ \E i \in DOMAIN rows : rows[i].life = "expired"
  /\ RemoveRows({i \in DOMAIN rows : rows[i].life = "expired"})
  /\ UNCHANGED <<stage, summary, known>>

-----------------------------------------------------------------------------
(***************************************************************************)
(* Distillation                                                            *)
(***************************************************************************)

\* getEntriesForDistillation: ORDER BY importance, created_at LIMIT.
Candidates ==
  {i \in DOMAIN rows : rows[i].life # "expired" /\ rows[i].importance < 3 /\ ~rows[i].master}
Before(i, j) ==
  \/ rows[i].importance < rows[j].importance
  \/ rows[i].importance = rows[j].importance /\ i < j
ToDistill == {i \in Candidates : Cardinality({j \in Candidates : Before(j, i)}) < BatchSize}

\* getMemoryEntryCount
EntryCount == Cardinality({i \in DOMAIN rows : rows[i].life # "expired" /\ ~rows[i].master})

\* The run is over; the batch is read, and the model asked.
StartDistillation(r) ==
  /\ stage[r] = "idle"
  /\ EntryCount > Threshold
  /\ Cardinality(ToDistill) >= MinBatch
  /\ stage' = [stage EXCEPT ![r] = "asking"]
  /\ batch' = [batch EXCEPT ![r] = ToDistill]
  /\ summary' = [summary EXCEPT ![r] = {[facts |-> Stating(Restrict(rows, ToDistill)), importance |-> 2]}]
  /\ UNCHANGED <<rows, known>>

\* The call fails, or what it returns is no list of entries.
DistillationFails(r) ==
  /\ stage[r] = "asking"
  /\ stage' = [stage EXCEPT ![r] = "idle"]
  /\ batch' = [batch EXCEPT ![r] = {}]
  /\ summary' = [summary EXCEPT ![r] = {}]
  /\ UNCHANGED <<rows, known>>

\* A summary: some entries that together state what the batch stated.
Summaries(facts) ==
  {s \in SUBSET [facts : (SUBSET facts) \ {{}}, importance : Levels] :
     /\ Cardinality(s) \in 1..MaxSummary
     /\ UNION {e.facts : e \in s} = facts}

DistillationAnswered(r) ==
  /\ stage[r] = "asking"
  /\ stage' = [stage EXCEPT ![r] = "deleting"]
  /\ \E item \in summary[r] : summary' \in {[summary EXCEPT ![r] = s] : s \in Summaries(item.facts)}
  /\ UNCHANGED <<rows, batch, known>>

\* Mutant: the entries are selected again instead of by their ids.
DeleteSelectedAnew(r) ==
  /\ stage[r] = "deleting"
  /\ stage' = [stage EXCEPT ![r] = "adding"]
  /\ rows' = Without(rows, ToDistill)
  /\ batch' = [q \in Runs |-> IF q = r THEN {} ELSE batch[q] \ ToDistill]
  /\ UNCHANGED <<summary, known>>

\* deleteMemoryEntriesByIds: one transaction; an error
\* (the database is locked) is swallowed and the entries stay.
DeleteBatch(r) ==
  /\ stage[r] = "deleting"
  /\ stage' = [stage EXCEPT ![r] = "adding"]
  /\ \/ /\ rows' = Without(rows, batch[r])
        /\ batch' = [q \in Runs |-> IF q = r THEN {} ELSE batch[q] \ batch[r]]
     \/ /\ batch' = [batch EXCEPT ![r] = {}]
        /\ UNCHANGED rows
  /\ UNCHANGED <<summary, known>>

\* One entry of the summary after the other; no time to live.
AddSummary(r) ==
  /\ stage[r] = "adding"
  /\ \E e \in summary[r] :
       /\ Insert([facts |-> e.facts, importance |-> e.importance, life |-> "forever",
                  master |-> FALSE])
       /\ summary' = [summary EXCEPT ![r] = @ \ {e}]
       /\ stage' = [stage EXCEPT ![r] = IF summary[r] = {e} THEN "idle" ELSE "adding"]
  /\ UNCHANGED <<batch, known>>

Kept(r) == Stating(rows) \cup UNION {Unsaved(q) : q \in Runs \ {r}}

\* An insert throws (the database is locked), or the process is killed: the
\* rest of the summary is gone.
DistillationCut(r) ==
  /\ stage[r] # "idle"
  /\ known' = known \ (Unsaved(r) \ Kept(r))
  /\ stage' = [stage EXCEPT ![r] = "idle"]
  /\ batch' = [batch EXCEPT ![r] = {}]
  /\ summary' = [summary EXCEPT ![r] = {}]
  /\ UNCHANGED <<rows>>

MemNext ==
  \/ \E f \in Facts, importance \in Levels, life \in {"forever", "ttl"} :
       AddEntry(f, importance, life)
  \/ \E i \in Rowids : RemoveEntry(i) \/ TimePasses(i)
  \/ SetMaster \/ ClearMemory \/ LoadStore
  \/ \E r \in Runs : StartDistillation(r) \/ DistillationFails(r) \/ DistillationAnswered(r)
                       \/ DeleteBatch(r) \/ AddSummary(r) \/ DistillationCut(r)

MemSpec == MemInit /\ [][MemNext]_memVars

-----------------------------------------------------------------------------
(***************************************************************************)
(* Properties                                                              *)
(***************************************************************************)

\* What was remembered is there until it is removed or expires: however
\* distillations overlap with each other and with the tool, only one that is
\* cut off between its delete and its adds loses anything, its own batch.
NothingForgotten == known \subseteq Stating(rows) \cup UNION {Unsaved(r) : r \in Runs}
=============================================================================

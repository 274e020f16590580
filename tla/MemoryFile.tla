----------------------------- MODULE MemoryFile -----------------------------
(***************************************************************************)
(* The memory of one key in a JSON file (memory.ts), used when SQLite is   *)
(* off: adds and removals load the whole file, change it and save it,      *)
(* inside a lock that is a chain of promises, one per key and process.     *)
(*                                                                         *)
(* Two processes have two chains, and share the file and the name of its   *)
(* temporary file.                                                         *)
(***************************************************************************)
EXTENDS Integers, Sequences, FiniteSets, SequencesExt

CONSTANTS Writers,     \* uses of remember and ingestions, of one entry each
          ProcessOf,   \* the process of each
          MaxEntries   \* MAX_MEMORY_ENTRIES

ASSUME MemoryFileAssumption ==
  /\ DOMAIN ProcessOf = Writers
  /\ MaxEntries \in Nat \ {0}

VARIABLES file,    \* the entries in it: whose, and how important
          temp,    \* the temporary file: entries, or the name of who is writing it
          phase,   \* of each writer
          chain,   \* of each process: who has the lock, and who waits for it
          store,   \* what each writer has loaded and changed
          reported, \* what it was told
          crossed, \* history: two processes were inside their locks at once
          blind    \* history: writers that could not read the file

mfVars == <<file, temp, phase, chain, store, reported, crossed, blind>>

Processes == {ProcessOf[w] : w \in Writers}
Importances == 1..3
Entry == [by : Writers, importance : Importances]
Empty == <<>>

MfTypeOK ==
  /\ file \in Seq(Entry) /\ Len(file) <= MaxEntries
  /\ phase \in [Writers -> {"idle", "waiting", "loaded", "changed", "writing", "written", "done"}]
  /\ chain \in [Processes -> Seq(Writers)]
  /\ reported \in [Writers -> {"none", "saved", "failed"}]
  /\ crossed \in BOOLEAN /\ blind \subseteq Writers

MfInit ==
  /\ file = Empty /\ temp = Empty
  /\ phase = [w \in Writers |-> "idle"]
  /\ chain = [p \in Processes |-> <<>>]
  /\ store = [w \in Writers |-> Empty]
  /\ reported = [w \in Writers |-> "none"]
  /\ crossed = FALSE /\ blind = {}

PhaseTo(w, stage) == phase' = [phase EXCEPT ![w] = stage]
Chain(w) == chain[ProcessOf[w]]
HasLock(w) == Chain(w) # <<>> /\ Head(Chain(w)) = w
Inside(w) == phase[w] \in {"loaded", "changed", "writing", "written"}

-----------------------------------------------------------------------------
(***************************************************************************)
(* addMemoryEntry                                                          *)
(***************************************************************************)

\* The least important entry, of several the oldest.
Victim(entries) ==
  CHOOSE i \in DOMAIN entries :
    \A j \in DOMAIN entries :
      \/ entries[i].importance < entries[j].importance
      \/ entries[i].importance = entries[j].importance /\ i <= j

Evicted(entries) ==
  IF Len(entries) <= MaxEntries THEN entries ELSE RemoveAt(entries, Victim(entries))

-----------------------------------------------------------------------------
(***************************************************************************)
(* withMemoryLock                                                          *)
(***************************************************************************)

\* The writer queues behind whoever was last.
Queue(w) ==
  /\ phase[w] = "idle"
  /\ PhaseTo(w, "waiting")
  /\ chain' = [chain EXCEPT ![ProcessOf[w]] = Append(@, w)]
  /\ UNCHANGED <<file, temp, store, reported, crossed, blind>>

\* Mutant: the store is loaded before the lock is there.
LoadFileAtOnce(w) ==
  /\ phase[w] = "waiting"
  /\ PhaseTo(w, "loaded")
  /\ store' = [store EXCEPT ![w] = file]
  /\ crossed' = (crossed \/ \E v \in Writers : Inside(v) /\ ProcessOf[v] # ProcessOf[w])
  /\ UNCHANGED <<file, temp, chain, reported, blind>>

\* loadMemoryStore, inside the lock.  A file that cannot be read counts as one that is
\* not there: the writer starts from an empty store.
LoadFile(w) ==
  /\ phase[w] = "waiting" /\ HasLock(w)
  /\ PhaseTo(w, "loaded")
  /\ \/ store' = [store EXCEPT ![w] = file] /\ UNCHANGED blind
     \/ file # Empty /\ store' = [store EXCEPT ![w] = Empty] /\ blind' = blind \cup {w}
  /\ crossed' = (crossed \/ \E v \in Writers : Inside(v) /\ ProcessOf[v] # ProcessOf[w])
  /\ UNCHANGED <<file, temp, chain, reported>>

\* addMemoryEntry; an embedding may be waited for before the save.
Add(w, importance) ==
  /\ phase[w] = "loaded"
  /\ PhaseTo(w, "changed")
  /\ store' = [store EXCEPT ![w] = Evicted(Append(@, [by |-> w, importance |-> importance]))]
  /\ UNCHANGED <<file, temp, chain, reported, crossed, blind>>

\* finally: the next in the chain goes on, whatever happened.
Release(w) == chain' = [chain EXCEPT ![ProcessOf[w]] = Tail(@)]

\* removeMemoryEntry: nothing is saved if there is no such entry.
TakeOut(w, i) ==
  /\ phase[w] = "loaded"
  /\ IF i \in DOMAIN store[w]
       THEN /\ store' = [store EXCEPT ![w] = RemoveAt(@, i)]
            /\ PhaseTo(w, "changed")
            /\ UNCHANGED <<chain, reported>>
       ELSE /\ PhaseTo(w, "done") /\ Release(w)
            /\ reported' = [reported EXCEPT ![w] = "failed"]
            /\ UNCHANGED store
  /\ UNCHANGED <<file, temp, crossed, blind>>

\* saveMemoryStore: the temporary file is written and renamed.
OpenTemp(w) ==
  /\ phase[w] = "changed" /\ HasLock(w)
  /\ PhaseTo(w, "writing")
  /\ temp' = Empty
  /\ UNCHANGED <<file, chain, store, reported, crossed, blind>>

WriteTemp(w) ==
  /\ phase[w] = "writing"
  /\ PhaseTo(w, "written")
  /\ temp' = store[w]
  /\ UNCHANGED <<file, chain, store, reported, crossed, blind>>

Rename(w) ==
  /\ phase[w] = "written"
  /\ PhaseTo(w, "done") /\ Release(w)
  /\ file' = temp
  /\ reported' = [reported EXCEPT ![w] = "saved"]
  /\ UNCHANGED <<temp, store, crossed, blind>>

\* A write or the rename fails: the disk is full, or the other process has
\* renamed the temporary file.
Throws(w) ==
  /\ phase[w] \in {"loaded", "changed", "writing", "written"}
  /\ PhaseTo(w, "done") /\ Release(w)
  /\ reported' = [reported EXCEPT ![w] = "failed"]
  /\ UNCHANGED <<file, temp, store, crossed, blind>>

\* A process ends in the middle: only what was renamed is there.
Dies(p) ==
  /\ \E w \in Writers : ProcessOf[w] = p /\ phase[w] \notin {"idle", "done"}
  /\ phase' = [w \in Writers |-> IF ProcessOf[w] = p THEN "done" ELSE phase[w]]
  /\ chain' = [chain EXCEPT ![p] = <<>>]
  /\ UNCHANGED <<file, temp, store, reported, crossed, blind>>

MfNext ==
  \/ \E w \in Writers :
       \/ Queue(w) \/ LoadFile(w) \/ OpenTemp(w) \/ WriteTemp(w) \/ Rename(w) \/ Throws(w)
       \/ \E importance \in Importances : Add(w, importance)
       \/ \E i \in 1..MaxEntries : TakeOut(w, i)
  \/ \E p \in Processes : Dies(p)

\* Files are read and written, and embeddings answered or timed out.
WriterMoves(w) ==
  \/ LoadFile(w) \/ (\E importance \in Importances : Add(w, importance))
  \/ OpenTemp(w) \/ WriteTemp(w) \/ Rename(w)

MfFairness == \A w \in Writers : WF_mfVars(WriterMoves(w))

MfSpec == MfInit /\ [][MfNext]_mfVars /\ MfFairness

-----------------------------------------------------------------------------
(***************************************************************************)
(* Properties                                                              *)
(***************************************************************************)

\* What a writer is about to save is the present file with its own change
\* and no other: no writer of the process loses another's entry, although
\* loading, embedding and saving are apart.  (Two processes may, and so does
\* a writer that could not read the file, which it replaces by its own entry.)
ChangesAreOfTheFile ==
  crossed \/ \A w \in {v \in Writers : Inside(v)} \ blind :
    \/ store[w] = file
    \/ \E importance \in Importances :
         store[w] = Evicted(Append(file, [by |-> w, importance |-> importance]))
    \/ \E i \in DOMAIN file : store[w] = RemoveAt(file, i)

\* Every writer gets its turn and ends, whatever those before it threw.
EveryWriterEnds == \A w \in Writers : (phase[w] = "waiting") ~> (phase[w] = "done")
=============================================================================

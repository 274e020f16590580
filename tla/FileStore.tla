----------------------------- MODULE FileStore ------------------------------
(***************************************************************************)
(* The fallback session store of session.ts: one JSON file per session,    *)
(* written to a temporary file and renamed; a chain of saves per session   *)
(* and process (_saveQueues); trash and restore, which load and save       *)
(* without the lock; delete; deleteTrash and prune, which judge the files  *)
(* first and unlink them one by one later.                                 *)
(*                                                                         *)
(* A file's content is the two flags that matter.  mtime is an age, up to  *)
(* what retention compares with.                                           *)
(***************************************************************************)
EXTENDS Integers, Sequences, SequencesExt, FiniteSetsExt, Functions

CONSTANTS Clients,    \* processes that use the store
          Sessions,
          Missing,    \* the session has no file
          PageSize,   \* FILE_LIST_PAGE_SIZE
          MaxEntries, \* entries of _saveQueues beyond which settled ones go
          MaxPending  \* bound: saves and other operations under way

ASSUME FileStoreAssumption ==
  /\ IsFiniteSet(Sessions)
  /\ PageSize \in Nat \ {0}
  /\ {MaxEntries, MaxPending} \subseteq Nat

VARIABLES files,   \* the content of each session's file
          mtime,  \* how long ago it was written
          chain,  \* the saves under way in each process, in the order of the calls
          queued, \* _saveQueues of each process: the sessions it has an entry for
          task    \* what else a process is doing

fsVars == <<files, mtime, chain, queued, task>>

\* 0: within olderThanMs; 1: older; 2: older than COMPACTED_PRUNE_MULTIPLIER times that.
Ages == 0..2
Content == [trashed : BOOLEAN, summarized : BOOLEAN]
SaveCall == [s : Sessions, data : Content, waits : BOOLEAN, written : BOOLEAN]
NoRequest == [kind |-> "idle"]

\* todo: the sessions that deleteTrash or prune will unlink; saved: those that
\* were saved since they were judged; promised: what deleteTrash has to remove;
\* old: the mtime that prune saw.
LoadTasks == [kind : {"trash", "restore"}, s : Sessions, summarized : BOOLEAN]
TrashTasks == [kind : {"deleteTrash"}, todo : SUBSET Sessions, saved : SUBSET Sessions,
               promised : SUBSET Sessions]
PruneTasks == [kind : {"stat", "prune"}, todo : SUBSET Sessions, saved : SUBSET Sessions,
               old : Ages]
Tasks == {NoRequest} \cup LoadTasks \cup TrashTasks \cup PruneTasks

StoreTypeOK ==
  /\ files \in [Sessions -> Content \cup {Missing}]
  /\ mtime \in [Sessions -> Ages]
  /\ chain \in [Clients -> Seq(SaveCall)]
  /\ queued \in [Clients -> SUBSET Sessions]
  /\ task \in [Clients -> Tasks]

StoreInit ==
  /\ files = [s \in Sessions |-> Missing]
  /\ mtime = [s \in Sessions |-> 0]
  /\ chain = [p \in Clients |-> <<>>]
  /\ queued = [p \in Clients |-> {}]
  /\ task = [p \in Clients |-> NoRequest]

Present == {s \in Sessions : files[s] # Missing}

-----------------------------------------------------------------------------
(***************************************************************************)
(* _fileSave                                                               *)
(***************************************************************************)

UnderWay == SumFunction([q \in Clients |-> Len(chain[q])])
            + Quantify(Clients, LAMBDA q : task[q] # NoRequest)
MayStart(p) == task[p] = NoRequest /\ UnderWay < MaxPending

Pending(p, s) == \E i \in DOMAIN chain[p] : chain[p][i].s = s

\* Mutant: entries are evicted whether or not their save has settled.
AfterEvictionOfAny(p, s) ==
  IF Cardinality(queued[p] \cup {s}) > MaxEntries THEN {s} ELSE queued[p] \cup {s}

\* The entries once s has one: if there are too many, those whose save has
\* settled go.
AfterEviction(p, s) ==
  LET entries == queued[p] \cup {s}
  IN IF Cardinality(entries) > MaxEntries
       THEN {t \in entries : t = s \/ Pending(p, t)}
       ELSE entries

\* The save is chained to the last one of its session that the map knows of; an
\* entry that has settled delays nothing.
Enqueue(p, s, data) ==
  /\ chain' = [chain EXCEPT ![p] = Append(@,
       [s |-> s, data |-> data, waits |-> s \in queued[p] /\ Pending(p, s), written |-> FALSE])]
  /\ queued' = [queued EXCEPT ![p] = AfterEviction(p, s)]

\* Its turn has come: nothing it waits for is under way.
MayRun(p, i) ==
  LET c == chain[p]
  IN c[i].waits => \A j \in 1..(i - 1) : c[j].s # c[i].s

WriteTmp(p, i) ==
  /\ ~chain[p][i].written
  /\ MayRun(p, i)
  /\ chain' = [chain EXCEPT ![p][i].written = TRUE]
  /\ UNCHANGED <<files, mtime, queued, task>>

\* The save is over; its entry stays.
Settle(p, i) ==
  /\ chain' = [chain EXCEPT ![p] = RemoveAt(@, i)]
  /\ UNCHANGED queued

\* Those who judged the session before it was saved.
Overtaken(s) ==
  [q \in Clients |->
     CASE task[q].kind = "deleteTrash" ->
            [task[q] EXCEPT !.saved = @ \cup ({s} \cap task[q].todo), !.promised = @ \ {s}]
       [] task[q].kind \in {"stat", "prune"} -> [task[q] EXCEPT !.saved = @ \cup ({s} \cap task[q].todo)]
       [] OTHER -> task[q]]

RenameTmpFile(p, i) ==
  LET c == chain[p][i]
  IN /\ c.written
     /\ files' = [files EXCEPT ![c.s] = c.data]
     /\ mtime' = [mtime EXCEPT ![c.s] = 0]
     /\ task' = Overtaken(c.s)
     /\ Settle(p, i)

\* The disk is full: the caller learns of it, the next save of the chain runs.
StoreSaveFails(p, i) ==
  /\ chain[p][i].written
  /\ Settle(p, i)
  /\ UNCHANGED <<files, mtime, task>>

\* A run saves its session, whatever others made of it meanwhile.
RunSaves(p, s) ==
  /\ MayStart(p)
  /\ \E summarized \in BOOLEAN :
       Enqueue(p, s, [trashed |-> FALSE, summarized |-> summarized])
  /\ UNCHANGED <<files, mtime, task>>

-----------------------------------------------------------------------------
(***************************************************************************)
(* trashSession, restoreSession, deleteSession                             *)
(***************************************************************************)
LoadRaw(p, s) ==
  /\ MayStart(p)
  /\ s \in Present
  /\ \E kind \in {"trash", "restore"} :
       task' = [task EXCEPT ![p] =
                  [kind |-> kind, s |-> s, summarized |-> files[s].summarized]]
  /\ UNCHANGED <<files, mtime, chain, queued>>

SaveBack(p) ==
  /\ task[p].kind \in {"trash", "restore"}
  /\ Enqueue(p, task[p].s, [trashed |-> task[p].kind = "trash",
                              summarized |-> task[p].summarized])
  /\ task' = [task EXCEPT ![p] = NoRequest]
  /\ UNCHANGED <<files, mtime>>

UnlinkFile(s) ==
  /\ files' = [files EXCEPT ![s] = Missing]
  /\ mtime' = [mtime EXCEPT ![s] = 0]

Delete(p, s) ==
  /\ MayStart(p)
  /\ s \in Present
  /\ UnlinkFile(s)
  /\ UNCHANGED <<chain, queued, task>>

-----------------------------------------------------------------------------
(***************************************************************************)
(* deleteTrash and prune                                                   *)
(***************************************************************************)

\* A page of _fileList: the most recently written files.
Pages == {page \in SUBSET Present :
            /\ Cardinality(page) <= PageSize
            /\ page = Present \/ Cardinality(page) = PageSize
            /\ \A s \in page, t \in Present \ page : mtime[s] <= mtime[t]}

Trashed == {s \in Present : files[s].trashed}

\* One page is listed: what is trashed on it goes, and that is all the trash
\* only if all files are on it.
ListTrash(p) ==
  /\ MayStart(p)
  /\ \E page \in Pages :
       task' = [task EXCEPT ![p] =
                  [kind |-> "deleteTrash", todo |-> page \cap Trashed,
                   saved |-> {},
                   promised |-> IF Cardinality(Present) <= PageSize
                                  THEN Trashed ELSE page \cap Trashed]]
  /\ UNCHANGED <<files, mtime, chain, queued>>

\* Compacted sessions are kept longer.
Cutoff(s) == IF s \in Present /\ files[s].summarized THEN 1 ELSE 0

\* prune goes from file to file: it asks for the mtime, ...
StatSession(p, s) ==
  /\ MayStart(p)
  /\ s \in Present
  /\ task' = [task EXCEPT ![p] = [kind |-> "stat", todo |-> {s}, old |-> mtime[s], saved |-> {}]]
  /\ UNCHANGED <<files, mtime, chain, queued>>

\* ... reads the file for its flag, and decides.
ReadFlag(p) ==
  /\ task[p].kind = "stat"
  /\ \E s \in task[p].todo :
       task' = [task EXCEPT ![p] = IF task[p].old > Cutoff(s)
                                     THEN [@ EXCEPT !.kind = "prune"] ELSE NoRequest]
  /\ UNCHANGED <<files, mtime, chain, queued>>

Unlinks(p, s) ==
  /\ task[p].kind \in {"deleteTrash", "prune"}
  /\ s \in task[p].todo
  /\ UnlinkFile(s)
  /\ task' = [task EXCEPT ![p].todo = @ \ {s}, ![p].saved = @ \ {s}]
  /\ UNCHANGED <<chain, queued>>

\* Nothing is left to unlink: the counts are reported.
Reports(p) ==
  /\ task[p].kind \in {"deleteTrash", "prune"}
  /\ task[p].todo = {}
  /\ task' = [task EXCEPT ![p] = NoRequest]
  /\ UNCHANGED <<files, mtime, chain, queued>>

\* A process dies: its saves are not made, its temporary files stay.
ProcessDies(p) ==
  /\ chain[p] # <<>> \/ task[p] # NoRequest
  /\ chain' = [chain EXCEPT ![p] = <<>>]
  /\ queued' = [queued EXCEPT ![p] = {}]
  /\ task' = [task EXCEPT ![p] = NoRequest]
  /\ UNCHANGED <<files, mtime>>

FilesAge ==
  /\ \E s \in Present : mtime[s] < 2
  /\ mtime' = [s \in Sessions |->
                 IF s \in Present /\ mtime[s] < 2 THEN mtime[s] + 1 ELSE mtime[s]]
  /\ UNCHANGED <<files, chain, queued, task>>

StoreNext ==
  \/ \E p \in Clients :
       \/ \E i \in DOMAIN chain[p] : WriteTmp(p, i) \/ RenameTmpFile(p, i) \/ StoreSaveFails(p, i)
       \/ \E s \in Sessions : \/ RunSaves(p, s) \/ LoadRaw(p, s)
                              \/ Delete(p, s) \/ Unlinks(p, s) \/ StatSession(p, s)
       \/ SaveBack(p) \/ ListTrash(p) \/ ReadFlag(p) \/ Reports(p) \/ ProcessDies(p)
  \/ FilesAge

StoreSpec == StoreInit /\ [][StoreNext]_fsVars

-----------------------------------------------------------------------------
(***************************************************************************)
(* Properties                                                              *)
(***************************************************************************)

\* Saves of a session reach its file in the order in which a process made
\* them, however many are under way and whichever of them fail: none is
\* written while an earlier one is under way.
SavesKeepTheirOrder ==
  \A p \in Clients : \A i, j \in DOMAIN chain[p] :
    (i < j /\ chain[p][i].s = chain[p][j].s) => ~chain[p][j].written

\* deleteTrash and prune remove only what is trashed or too old when it goes,
\* unless the session was saved between its judgement and its removal.
RemovalsSpareLiveSessions ==
  \A p \in Clients : task[p].kind \in {"deleteTrash", "prune"} =>
    \A s \in (task[p].todo \cap Present) \ task[p].saved :
      IF task[p].kind = "prune" THEN mtime[s] > Cutoff(s) ELSE files[s].trashed

\* When deleteTrash reports, no session is left that was trashed when it began
\* and was not saved since; of more than PageSize sessions, none of the most
\* recent ones that it has listed.
TrashIsEmptied ==
  \A p \in Clients : (task[p].kind = "deleteTrash" /\ task[p].todo = {}) =>
    task[p].promised \cap Present = {}
=============================================================================

---------------------------- MODULE StoresProofs ----------------------------
(***************************************************************************)
(* Proofs about what is kept on disk, for any number of processes, files   *)
(* and clients: the two session stores, the configuration, the skill       *)
(* files, the logs, the adapters of a trained model and the files that     *)
(* name a server.  Each part has an invariant of its own; the last section *)
(* brings them together for the specification that the run checks.         *)
(***************************************************************************)
EXTENDS MCStores, FiniteSetTheorems, TLAPS

-----------------------------------------------------------------------------
(***************************************************************************)
(* The session store (SessionStore). Two parts of the invariant hold       *)
(* always: the types, with what each process has in hand, and the date of  *)
(* the row. The third holds as long as the store is undisturbed. Each      *)
(* action has a lemma for the first two (Types) and one for the third      *)
(* (Calm).                                                                 *)
(***************************************************************************)

\* File and row are both there or both absent, and say the same of the trashed flag.
Agree ==
  /\ row = None <=> file = None
  /\ row # None => (row.trashed <=> file.last.trashed)

\* What a process does and has in hand is told by the step it is at.
Hands ==
  \A p \in Procs :
    /\ pc[p] = "idle" <=> op[p] = "none"
    /\ pc[p] = "running" => op[p] = "run"
    /\ pc[p] = "marked" => op[p] = "delete"
    /\ pc[p] = "loaded" => op[p] \in {"trash", "restore", "delete"} /\ data[p] \in Line
    /\ pc[p] = "appended" => op[p] \in {"run", "trash", "restore"} /\ data[p] \in Line
    /\ pc[p] \in {"selected", "unindexed"} => op[p] \in {"prune", "emptyTrash"}

\* The row has the date of the last change the index heard of.
Dated == row # None => row.at = ackedAt

\* One process at most is busy.
Alone == \A p, q \in Procs : Busy(p) /\ Busy(q) => p = q

\* The file ends with a whole line, of a version between the last one acknowledged and the
\* newest one made.
Kept ==
  /\ acked <= versions
  /\ versions = 0 => file = None /\ wanted = "live"
  /\ file # None => /\ file.ended /\ file.last \in Line
                    /\ acked <= file.last.ver /\ file.last.ver <= versions

\* File and row say what was last asked for, unless a command is under way.
Followed ==
  /\ file # None => /\ wanted = "trashed" => file.last.trashed
                    /\ wanted = "live" => ~file.last.trashed
  /\ row # None /\ row.trashed => wanted # "live"

\* A run works on a session that nobody has trashed or removed, and what it has appended is
\* the newest version.
Running ==
  \A p \in Procs : op[p] = "run" =>
    /\ wanted # "trashed"
    /\ file = None => versions = 0
    /\ file # None => ~file.last.trashed
    /\ pc[p] = "appended" => data[p].ver = versions

\* What trash, restore and delete have in hand is what the file held when they read it, with
\* the flag they set; once appended it is the last line.
Commanded ==
  \A p \in Procs :
    /\ op[p] \in {"trash", "restore", "delete"} => wanted = "either"
    /\ pc[p] = "loaded" =>
         /\ file # None
         /\ data[p].ver = file.last.ver
         /\ data[p].trashed <=> op[p] # "restore"
    /\ pc[p] = "appended" =>
         /\ file # None
         /\ file.last = data[p]
         /\ op[p] # "run" => (data[p].trashed <=> op[p] = "trash")

\* prune and deleteTrash had a reason to select the session, and have dropped its row before
\* they unlink the file.
Removing ==
  \A p \in Procs :
    /\ op[p] = "prune" => ackedAt < now
    /\ op[p] = "emptyTrash" => wanted # "live"
    /\ pc[p] = "selected" /\ op[p] = "emptyTrash" => row # None /\ row.trashed
    /\ pc[p] = "unindexed" => row = None

\* File and row agree unless the process that is busy has written only one of them; in
\* delete, which marks the row first, the row says trashed.
Agreed ==
  ~stale =>
    /\ (\A p \in Procs : \/ pc[p] \in {"idle", "running", "selected"}
                         \/ pc[p] = "loaded" /\ op[p] # "delete") => Agree
    /\ \A p \in Procs :
         op[p] = "delete" => (row = None <=> file = None) /\ (row # None => row.trashed)

\* The state of the store as long as nothing overlapped and nothing was torn.
Calm == Alone /\ Kept /\ Followed /\ Running /\ Commanded /\ Removing /\ Agreed

\* Nothing is said of the store once commands overlapped or a line was written in part.
Disturbable == Undisturbed => Calm

\* The inductive invariant.
IInv == TypeOK /\ Hands /\ Dated /\ Disturbable

\* An empty store, nobody doing anything: the invariant holds.
LEMMA InitInv == Init => IInv
<1> SUFFICES ASSUME Init PROVE IInv
  OBVIOUS
<1>1. TypeOK
  <2>1. file \in File \cup {None} /\ row \in Row \cup {None}
    BY DEF Init
  <2>2. /\ now \in 0..MaxNow /\ versions \in 0..MaxVersions
        /\ acked \in 0..MaxVersions /\ ackedAt \in 0..MaxNow
    BY StoreAssumption DEF Init, StoreAssumption
  <2>3. /\ pc \in [Procs -> {"idle", "running", "marked", "loaded",
                             "appended", "selected", "unindexed"}]
        /\ op \in [Procs -> Commands \cup {"run", "none"}]
        /\ data \in [Procs -> Line \cup {None}]
    BY DEF Init
  <2>4. /\ stale \in BOOLEAN /\ raced \in BOOLEAN /\ torn \in BOOLEAN
        /\ wanted \in {"live", "trashed", "either", "unmarked"}
    BY DEF Init
  <2> QED BY <2>1, <2>2, <2>3, <2>4, StoreAssumption DEF TypeOK
<1>2. Hands /\ Dated
  BY DEF Init, Hands, Dated
<1>3. Calm
  BY DEF Init, Calm, Alone, Busy, Kept, Followed, Running, Commanded, Removing, Agreed, Agree
<1> QED BY <1>1, <1>2, <1>3 DEF IInv, Disturbable

\* What a run saves next is a line with the next version, and not trashed.
LEMMA NextIsLine ==
  ASSUME TypeOK, versions < MaxVersions
  PROVE  /\ NextVersion \in Line
         /\ NextVersion.ver = versions + 1 /\ NextVersion.trashed = FALSE
BY StoreAssumption DEF TypeOK, NextVersion, Line, StoreAssumption

\* An append that was cut short leaves a file.
LEMMA CutIsFile ==
  ASSUME TypeOK, NEW l \in Line, NEW f \in CutShort(l)
  PROVE  f \in File
<1>1. Appended(l) \in File
  BY DEF Appended, File
<1>2. Appended(l).last \in Line \cup {Unreadable}
  BY <1>1 DEF File
<1>3. /\ [last |-> Unreadable, ended |-> FALSE] \in File
      /\ [last |-> Appended(l).last, ended |-> FALSE] \in File
  BY <1>2 DEF File
<1> QED BY <1>3 DEF CutShort

\* When a run starts a session, types, hands and dates stay right.
LEMMA StartRunTypes ==
  ASSUME IInv, NEW p \in Procs, StartRun(p)
  PROVE  TypeOK' /\ Hands' /\ Dated'
<1>1. TypeOK'
  BY DEF TypeOK, IInv, StartRun, Starts, Line, store
<1>2. Hands'
  BY DEF TypeOK, Hands, IInv, StartRun, Starts
<1>3. Dated'
  BY DEF Dated, IInv, StartRun, store
<1> QED BY <1>1, <1>2, <1>3

\* A new run finds everybody idle, and changes neither file nor row.
LEMMA StartRunCalm == ASSUME IInv, NEW p \in Procs, StartRun(p), Undisturbed' PROVE Calm'
<1>0. /\ TypeOK /\ Hands /\ TypeOK'
     /\ Alone /\ Kept /\ Followed /\ Running /\ Commanded /\ Removing /\ Agreed
  BY StartRunTypes DEF IInv, Undisturbed, Disturbable, Calm, StartRun, Starts
<1>1. Alone'
  <2>1. \A q \in Procs : pc[q] = "idle"
    BY DEF Undisturbed, StartRun, Starts, Busy
  <2>2. \A q \in Procs : q # p => pc'[q] = "idle"
    BY <2>1 DEF StartRun, Starts
  <2> QED BY <2>2 DEF Alone, Busy
<1>2. Kept'
  BY <1>0 DEF Kept, StartRun, store
<1>3. Followed'
  BY <1>0 DEF Followed, StartRun, store
<1>4. Running'
  BY <1>0 DEF TypeOK, Kept, Running, StartRun, Starts, store
<1>5. Commanded'
  BY <1>0 DEF Commanded, StartRun, Starts
<1>6. Removing'
  BY <1>0 DEF Removing, StartRun, Starts, store
<1>7. Agreed'
  BY <1>0 DEF TypeOK, Hands, Commanded, Removing, Agreed, Agree, StartRun, store
<1> QED BY <1>1, <1>2, <1>3, <1>4, <1>5, <1>6, <1>7 DEF Calm

\* When a run resumes a session, types, hands and dates stay right.
LEMMA ResumeRunTypes ==
  ASSUME IInv, NEW p \in Procs, ResumeRun(p)
  PROVE  TypeOK' /\ Hands' /\ Dated'
<1>1. TypeOK'
  BY DEF TypeOK, IInv, ResumeRun, Starts, Readable, File, store
<1>2. Hands'
  BY DEF TypeOK, Hands, IInv, ResumeRun, Starts
<1>3. Dated'
  BY DEF Dated, IInv, ResumeRun, store
<1> QED BY <1>1, <1>2, <1>3

\* It found the last line untrashed, so nobody wanted the session trashed.
LEMMA ResumeRunCalm == ASSUME IInv, NEW p \in Procs, ResumeRun(p), Undisturbed' PROVE Calm'
<1>0. /\ TypeOK /\ Hands /\ TypeOK'
     /\ Alone /\ Kept /\ Followed /\ Running /\ Commanded /\ Removing /\ Agreed
  BY ResumeRunTypes DEF IInv, Undisturbed, Disturbable, Calm, ResumeRun, Starts
<1>1. Alone'
  <2>1. \A q \in Procs : pc[q] = "idle"
    BY DEF Undisturbed, ResumeRun, Starts, Busy
  <2>2. \A q \in Procs : q # p => pc'[q] = "idle"
    BY <2>1 DEF ResumeRun, Starts
  <2> QED BY <2>2 DEF Alone, Busy
<1>2. Kept'
  BY <1>0 DEF Kept, ResumeRun, store
<1>3. Followed'
  BY <1>0 DEF Followed, ResumeRun, store
<1>4. Running'
  BY <1>0 DEF TypeOK, Followed, Running, ResumeRun, Starts, Readable, store
<1>5. Commanded'
  BY <1>0 DEF TypeOK, Commanded, ResumeRun, Starts, store
<1>6. Removing'
  BY <1>0 DEF Removing, ResumeRun, Starts, store
<1>7. Agreed'
  BY <1>0 DEF Agreed, Agree, ResumeRun, Starts, Busy, store
<1> QED BY <1>1, <1>2, <1>3, <1>4, <1>5, <1>6, <1>7 DEF Calm

\* When a run appends a version, types, hands and dates stay right.
LEMMA SaveRunTypes ==
  ASSUME IInv, NEW p \in Procs, SaveRun(p)
  PROVE  TypeOK' /\ Hands' /\ Dated'
<1>1. TypeOK'
  BY StoreAssumption
     DEF TypeOK, StoreAssumption, IInv, SaveRun, NextVersion, Appended, history, Line, File
<1>2. Hands'
  BY StoreAssumption DEF TypeOK, Hands, IInv, SaveRun, NextVersion, Line, StoreAssumption
<1>3. Dated'
  BY DEF Dated, IInv, SaveRun, history
<1> QED BY <1>1, <1>2, <1>3

\* The new line is whole, as the one before it was, and is the newest version.
LEMMA SaveRunCalm == ASSUME IInv, NEW p \in Procs, SaveRun(p), Undisturbed' PROVE Calm'
<1>0. /\ TypeOK /\ Hands /\ TypeOK'
     /\ Alone /\ Kept /\ Followed /\ Running /\ Commanded /\ Removing /\ Agreed
  BY SaveRunTypes DEF IInv, Undisturbed, Disturbable, Calm, SaveRun, history
<1>a. /\ data'[p] = NextVersion /\ NextVersion \in Line
      /\ NextVersion.ver = versions' /\ NextVersion.trashed = FALSE
  BY <1>0 DEF TypeOK, Line, SaveRun, NextVersion
<1>b. file' = [last |-> data'[p], ended |-> TRUE]
  BY <1>a, <1>0 DEF Kept, SaveRun, Appended
<1>c. \A q \in Procs : q # p => pc'[q] = "idle" /\ op'[q] = "none"
  BY <1>0 DEF Alone, Hands, SaveRun, Busy
<1>d. file' # None
  <2>1. [last |-> data'[p], ended |-> TRUE] \in File
    BY <1>a DEF File
  <2> QED BY <1>b, <2>1, StoreAssumption DEF StoreAssumption
<1>1. Alone'
  BY <1>0 DEF Alone, SaveRun, Busy
<1>2. Kept'
  BY <1>0, <1>a, <1>b DEF TypeOK, Kept, SaveRun, history
<1>3. Followed'
  BY <1>0, <1>a, <1>b DEF Hands, Followed, Running, SaveRun, history
<1>4. Running'
  <2>1. op[p] = "run" /\ wanted' = wanted /\ wanted # "trashed"
    BY <1>0 DEF Hands, Running, SaveRun, history
  <2>2. /\ file' # None /\ ~file'.last.trashed
        /\ data'[p].ver = versions'
    BY <1>a, <1>b, <1>d
  <2> QED BY <2>1, <2>2, <1>c DEF Running
<1>5. Commanded'
  <2>1. op'[p] = "run"
    BY <1>0 DEF Hands, SaveRun
  <2>2. pc'[p] = "appended"
    BY <1>0 DEF TypeOK, SaveRun
  <2>3. file' # None /\ file'.last = data'[p]
    BY <1>b, <1>d
  <2> QED BY <2>1, <2>2, <2>3, <1>c DEF Commanded
<1>6. Removing'
  BY <1>0, <1>c DEF Hands, Removing, SaveRun
<1>7. Agreed'
  BY <1>0, <1>c DEF TypeOK, Hands, Agreed, SaveRun
<1> QED BY <1>1, <1>2, <1>3, <1>4, <1>5, <1>6, <1>7 DEF Calm

\* When a run ends, types, hands and dates stay right.
LEMMA EndRunTypes ==
  ASSUME IInv, NEW p \in Procs, EndRun(p)
  PROVE  TypeOK' /\ Hands' /\ Dated'
<1>1. TypeOK'
  BY DEF TypeOK, IInv, EndRun, Ends, history, store
<1>2. Hands'
  BY DEF TypeOK, Hands, IInv, EndRun, Ends
<1>3. Dated'
  BY DEF Dated, IInv, EndRun, history, store
<1> QED BY <1>1, <1>2, <1>3

\* Nothing else changes.
LEMMA EndRunCalm == ASSUME IInv, NEW p \in Procs, EndRun(p), Undisturbed' PROVE Calm'
<1>0. /\ TypeOK /\ Hands /\ TypeOK'
     /\ Alone /\ Kept /\ Followed /\ Running /\ Commanded /\ Removing /\ Agreed
  BY EndRunTypes DEF IInv, Undisturbed, Disturbable, Calm, EndRun, history
<1>1. Alone'
  BY <1>0 DEF Alone, EndRun, Ends, Busy
<1>2. Kept'
  BY <1>0 DEF Kept, EndRun, history, store
<1>3. Followed'
  BY <1>0 DEF Followed, EndRun, history, store
<1>4. Running'
  BY <1>0 DEF Running, EndRun, Ends, history, store
<1>5. Commanded'
  BY <1>0 DEF Commanded, EndRun, Ends, history, store
<1>6. Removing'
  BY <1>0 DEF Removing, EndRun, Ends, history, store
<1>7. Agreed'
  BY <1>0 DEF Agreed, Agree, EndRun, Ends, history, store
<1> QED BY <1>1, <1>2, <1>3, <1>4, <1>5, <1>6, <1>7 DEF Calm

\* When a process loads the session to trash or restore it, types, hands and dates stay
\* right.
LEMMA LoadTypes ==
  ASSUME IInv, NEW p \in Procs, NEW what \in Commands, Load(p, what)
  PROVE  TypeOK' /\ Hands' /\ Dated'
<1>1. TypeOK'
  BY DEF TypeOK, IInv, Load, Starts, Readable, Line, File, store
<1>2. Hands'
  BY DEF TypeOK, Hands, IInv, Load, Starts, Readable, Line, File
<1>3. Dated'
  BY DEF Dated, IInv, Load, store
<1> QED BY <1>1, <1>2, <1>3

\* What it has in hand is the last line with its flag changed.
LEMMA LoadCalm ==
  ASSUME IInv, NEW p \in Procs, NEW what \in Commands, Load(p, what), Undisturbed'
  PROVE  Calm'
<1>0. /\ TypeOK /\ Hands /\ TypeOK'
     /\ Alone /\ Kept /\ Followed /\ Running /\ Commanded /\ Removing /\ Agreed
  BY LoadTypes DEF IInv, Undisturbed, Disturbable, Calm, Load, Starts
<1>1. Alone'
  <2>1. \A q \in Procs : pc[q] = "idle"
    BY DEF Undisturbed, Load, Starts, Busy
  <2>2. \A q \in Procs : q # p => pc'[q] = "idle"
    BY <2>1 DEF Load, Starts
  <2> QED BY <2>2 DEF Alone, Busy
<1>2. Kept'
  BY <1>0 DEF Kept, Load, Readable, store
<1>3. Followed'
  BY DEF Followed, Load
<1>4. Running'
  BY <1>0 DEF TypeOK, Running, Load, Starts, store
<1>5. Commanded'
  BY <1>0 DEF TypeOK, Kept, Commanded, Line, Load, Starts, Readable, store
<1>6. Removing'
  BY <1>0 DEF Removing, Load, Starts, store
<1>7. Agreed'
  BY <1>0 DEF Agreed, Agree, Load, Starts, Busy, store
<1> QED BY <1>1, <1>2, <1>3, <1>4, <1>5, <1>6, <1>7 DEF Calm

\* When a process selects the session as a victim, types, hands and dates stay right.
LEMMA SelectTypes ==
  ASSUME IInv, NEW p \in Procs, NEW what \in Commands, Select(p, what)
  PROVE  TypeOK' /\ Hands' /\ Dated'
<1>1. TypeOK'
  BY DEF TypeOK, IInv, Select, Starts, store
<1>2. Hands'
  BY DEF TypeOK, Hands, IInv, Select, Starts
<1>3. Dated'
  BY DEF Dated, IInv, Select, store
<1> QED BY <1>1, <1>2, <1>3

\* The row is old, or trashed, and the date of the row is the one of the last change.
LEMMA SelectCalm ==
  ASSUME IInv, NEW p \in Procs, NEW what \in Commands, Select(p, what), Undisturbed'
  PROVE  Calm'
<1>0. /\ TypeOK /\ Hands /\ TypeOK'
     /\ Alone /\ Kept /\ Followed /\ Running /\ Commanded /\ Removing /\ Agreed
  BY SelectTypes DEF IInv, Undisturbed, Disturbable, Calm, Select, Starts
<1>1. Alone'
  <2>1. \A q \in Procs : pc[q] = "idle"
    BY DEF Undisturbed, Select, Starts, Busy
  <2>2. \A q \in Procs : q # p => pc'[q] = "idle"
    BY <2>1 DEF Select, Starts
  <2> QED BY <2>2 DEF Alone, Busy
<1>2. Kept'
  BY <1>0 DEF Kept, Select, store
<1>3. Followed'
  BY <1>0 DEF Followed, Select, store
<1>4. Running'
  BY <1>0 DEF TypeOK, Running, Select, Starts, store
<1>5. Commanded'
  BY <1>0 DEF TypeOK, Commanded, Select, Starts, store
<1>6. Removing'
  BY <1>0 DEF TypeOK, Followed, Removing, Dated, IInv, Select, Starts, Old, store
<1>7. Agreed'
  BY <1>0 DEF Agreed, Agree, Select, Starts, Busy, store
<1> QED BY <1>1, <1>2, <1>3, <1>4, <1>5, <1>6, <1>7 DEF Calm

\* When a process marks the row of a session to be deleted, types, hands and dates stay
\* right.
LEMMA MarkRowTypes ==
  ASSUME IInv, NEW p \in Procs, MarkRow(p)
  PROVE  TypeOK' /\ Hands' /\ Dated'
<1>1. TypeOK'
  BY StoreAssumption DEF TypeOK, StoreAssumption, IInv, MarkRow, Starts, Row
<1>2. Hands'
  BY DEF TypeOK, Hands, IInv, MarkRow, Starts
<1>3. Dated'
  BY DEF Dated, MarkRow
<1> QED BY <1>1, <1>2, <1>3

\* A row that is there says trashed now.
LEMMA MarkRowCalm == ASSUME IInv, NEW p \in Procs, MarkRow(p), Undisturbed' PROVE Calm'
<1>0. /\ TypeOK /\ Hands /\ TypeOK'
     /\ Alone /\ Kept /\ Followed /\ Running /\ Commanded /\ Removing /\ Agreed
  BY MarkRowTypes DEF IInv, Undisturbed, Disturbable, Calm, MarkRow, Starts
<1>a. row # None => row'.trashed = TRUE /\ row' # None
  <2>1. [trashed |-> TRUE, at |-> now] \in Row
    BY <1>0 DEF TypeOK, Row
  <2> QED BY <2>1, StoreAssumption DEF StoreAssumption, MarkRow
<1>b. \A q \in Procs : pc[q] = "idle" /\ op[q] = "none"
  BY <1>0 DEF Undisturbed, Hands, MarkRow, Starts, Busy
<1>c. pc' = [pc EXCEPT ![p] = "marked"] /\ op' = [op EXCEPT ![p] = "delete"]
  BY DEF MarkRow, Starts
<1>d. \A q \in Procs : q # p => pc'[q] = "idle" /\ op'[q] = "none"
  BY <1>b, <1>c
<1>1. Alone'
  BY <1>d DEF Alone, Busy
<1>2. Kept'
  BY <1>0 DEF Kept, MarkRow
<1>3. Followed'
  BY DEF Followed, MarkRow
<1>4. Running'
  BY <1>b, <1>c DEF Running
<1>5. Commanded'
  BY <1>b DEF Commanded, MarkRow, Starts
<1>6. Removing'
  BY <1>b, <1>c DEF Removing
<1>7. Agreed'
  BY <1>0, <1>a, <1>b, <1>c DEF TypeOK, Agreed, Agree, MarkRow
<1> QED BY <1>1, <1>2, <1>3, <1>4, <1>5, <1>6, <1>7 DEF Calm

\* When a process reads the session whose row it has marked, types, hands and dates stay
\* right.
LEMMA ReadMarkedTypes ==
  ASSUME IInv, NEW p \in Procs, ReadMarked(p)
  PROVE  TypeOK' /\ Hands' /\ Dated'
<1>a. CASE Readable
  <2>1. [file.last EXCEPT !.trashed = TRUE] \in Line
    BY <1>a DEF TypeOK, IInv, Readable, Line, File
  <2>2. /\ pc' = [pc EXCEPT ![p] = "loaded"] /\ op' = op
        /\ data' = [data EXCEPT ![p] = [file.last EXCEPT !.trashed = TRUE]]
        /\ wanted' = wanted
    BY <1>a DEF ReadMarked
  <2>3. TypeOK'
    BY <2>1, <2>2 DEF TypeOK, ReadMarked, IInv, store
  <2>4. Hands'
    BY <2>1, <2>2 DEF TypeOK, Hands, ReadMarked, IInv
  <2> QED BY <2>3, <2>4 DEF Dated, ReadMarked, IInv, store
<1>b. CASE ~Readable
  <2>1. Ends(p) /\ wanted' = "trashed"
    BY <1>b DEF ReadMarked
  <2>2. TypeOK'
    BY <2>1 DEF TypeOK, IInv, ReadMarked, Ends, store
  <2>3. Hands'
    BY <2>1 DEF TypeOK, Hands, IInv, Ends
  <2> QED BY <2>2, <2>3 DEF Dated, IInv, ReadMarked, store
<1> QED BY <1>a, <1>b

\* If there is no file to read there is no row either, unless a crash left one.
LEMMA ReadMarkedCalm ==
  ASSUME IInv, NEW p \in Procs, ReadMarked(p), Undisturbed'
  PROVE  Calm'
<1>0. /\ TypeOK /\ Hands /\ TypeOK'
     /\ Alone /\ Kept /\ Followed /\ Running /\ Commanded /\ Removing /\ Agreed
  BY ReadMarkedTypes DEF IInv, Undisturbed, Disturbable, Calm, ReadMarked
<1>1. Alone'
  BY <1>0 DEF TypeOK, Alone, ReadMarked, Ends, Busy
<1>2. Kept'
  BY <1>0 DEF Hands, Kept, Commanded, ReadMarked, store
<1>3. Followed'
  <2>1. op[p] = "delete" /\ file' = file /\ row' = row /\ wanted' \in {"either", "trashed"}
    BY <1>0 DEF ReadMarked, Hands, Commanded, store
  <2>2. CASE Readable
    BY <2>1, <2>2, <1>0 DEF Followed, ReadMarked
  <2>3. CASE ~Readable
    <3>1. file = None
      BY <2>3, <1>0, StoreAssumption DEF StoreAssumption, Readable, Kept
    <3> QED BY <2>1, <3>1 DEF Followed
  <2> QED BY <2>2, <2>3
<1>4. Running'
  BY <1>0 DEF TypeOK, Hands, Alone, Running, ReadMarked, Ends, Busy
<1>5. Commanded'
  BY <1>0
     DEF TypeOK, Hands, Alone, Commanded, Line, File, ReadMarked, Ends, Busy, Readable, store
<1>6. Removing'
  BY <1>0 DEF TypeOK, Removing, ReadMarked, Ends, store
<1>7. Agreed'
  <2>1. op[p] = "delete" /\ stale' = stale /\ file' = file /\ row' = row
    BY <1>0 DEF ReadMarked, Hands, store
  <2>2. CASE Readable
    BY <2>1, <2>2, <1>0 DEF TypeOK, ReadMarked, Agreed
  <2>3. CASE ~Readable
    <3>1. file = None
      BY <2>3, <1>0, StoreAssumption DEF StoreAssumption, Readable, Kept
    <3>2. ~stale => row = None
      BY <2>1, <3>1, <1>0 DEF Agreed
    <3> QED BY <2>1, <3>1, <3>2 DEF Agreed, Agree
  <2> QED BY <2>2, <2>3
<1> QED BY <1>1, <1>2, <1>3, <1>4, <1>5, <1>6, <1>7 DEF Calm

\* When a process appends the line that trash, restore or delete has in hand, types, hands
\* and dates stay right.
LEMMA AppendTypes ==
  ASSUME IInv, NEW p \in Procs, AppendLine(p)
  PROVE  TypeOK' /\ Hands' /\ Dated'
<1>1. TypeOK'
  BY DEF TypeOK, Hands, IInv, AppendLine, Goes, Ends, Appended, File
<1>2. Hands'
  BY DEF TypeOK, Hands, IInv, AppendLine, Goes, Ends
<1>3. Dated'
  BY DEF Dated, IInv, AppendLine
<1> QED BY <1>1, <1>2, <1>3

\* It is the last line now; delete is done and the row agrees already.
LEMMA AppendCalm == ASSUME IInv, NEW p \in Procs, AppendLine(p), Undisturbed' PROVE Calm'
<1>0. /\ TypeOK /\ Hands /\ TypeOK'
     /\ Alone /\ Kept /\ Followed /\ Running /\ Commanded /\ Removing /\ Agreed
  BY AppendTypes DEF IInv, Undisturbed, Disturbable, Calm, AppendLine
<1>a. data[p] \in Line /\ file # None
  BY <1>0 DEF Hands, Commanded, AppendLine
<1>b. file' = [last |-> data[p], ended |-> TRUE]
  BY <1>0 DEF Kept, AppendLine, Appended
<1>c. \A q \in Procs : q # p => pc'[q] = "idle" /\ op'[q] = "none"
  BY <1>0 DEF Alone, Hands, TypeOK, AppendLine, Goes, Ends, Busy
<1>d. file' # None
  <2>1. [last |-> data[p], ended |-> TRUE] \in File
    BY <1>a DEF File
  <2> QED BY <1>b, <2>1, StoreAssumption DEF StoreAssumption
<1>1. Alone'
  BY <1>c DEF Alone, Busy
<1>2. Kept'
  BY <1>0, <1>a, <1>b DEF Kept, Commanded, AppendLine
<1>3. Followed'
  BY <1>0, <1>b DEF Hands, Followed, Commanded, AppendLine
<1>4. Running'
  BY <1>0, <1>c DEF TypeOK, Hands, Running, AppendLine, Goes, Ends
<1>5. Commanded'
  <2>1. CASE op[p] = "delete"
    <3>1. pc'[p] = "idle" /\ op'[p] = "none"
      BY <2>1, <1>0 DEF TypeOK, AppendLine, Ends
    <3> QED BY <3>1, <1>c DEF Commanded
  <2>2. CASE op[p] # "delete"
    <3>1. pc'[p] = "appended" /\ op' = op /\ data' = data /\ wanted' = wanted
      BY <2>2, <1>0 DEF TypeOK, AppendLine, Goes
    <3>2. /\ op[p] \in {"trash", "restore"} /\ wanted = "either"
          /\ data[p].trashed <=> op[p] = "trash"
      BY <2>2, <1>0 DEF Hands, Commanded, AppendLine
    <3> QED BY <3>1, <3>2, <1>b, <1>c, <1>d DEF Commanded
  <2> QED BY <2>1, <2>2
<1>6. Removing'
  BY <1>0 DEF TypeOK, Removing, AppendLine, Goes, Ends
<1>7. Agreed'
  <2>1. file' # None /\ file'.last = data[p] /\ row' = row /\ stale' = stale
    BY <1>b, <1>d DEF AppendLine
  <2>2. CASE op[p] = "delete"
    <3>1. pc'[p] = "idle" /\ op'[p] = "none" /\ data[p].trashed
      BY <2>2, <1>0 DEF TypeOK, Commanded, AppendLine, Ends
    <3>2. ~stale => row # None /\ row.trashed
      BY <2>2, <1>0, <1>a DEF Agreed
    <3> QED BY <2>1, <3>1, <3>2 DEF Agreed, Agree
  <2>3. CASE op[p] # "delete"
    <3>1. pc'[p] = "appended" /\ op'[p] # "delete"
      BY <2>3, <1>0 DEF TypeOK, AppendLine, Goes
    <3> QED BY <3>1, <1>c DEF Agreed
  <2> QED BY <2>2, <2>3
<1> QED BY <1>1, <1>2, <1>3, <1>4, <1>5, <1>6, <1>7 DEF Calm

\* When a process writes the row of the line just appended, types, hands and dates stay
\* right.
LEMMA UpsertTypes ==
  ASSUME IInv, NEW p \in Procs, Upsert(p)
  PROVE  TypeOK' /\ Hands' /\ Dated'
<1>a. data[p] \in Line
  BY DEF Hands, IInv, Upsert
<1>b. /\ row' \in Row /\ row'.at = data[p].at /\ ackedAt' = data[p].at
      /\ data[p].ver \in 0..MaxVersions /\ data[p].at \in 0..MaxNow
  BY <1>a DEF Upsert, Upserted, RowOf, Line, Row
<1>c. /\ pc' \in [Procs -> {"idle", "running", "marked", "loaded",
                            "appended", "selected", "unindexed"}]
      /\ op' \in [Procs -> Commands \cup {"run", "none"}]
      /\ data' \in [Procs -> Line \cup {None}]
  BY DEF TypeOK, IInv, Upsert, Goes, Ends, Returns
<1>1. TypeOK'
  BY <1>b, <1>c DEF TypeOK, IInv, Upsert
<1>2. Dated'
  BY <1>b DEF Dated
<1>3. Hands'
  BY DEF TypeOK, Hands, IInv, Upsert, Goes, Ends, Returns
<1> QED BY <1>1, <1>2, <1>3

\* The row agrees with the file again, and the request is fulfilled.
LEMMA UpsertCalm == ASSUME IInv, NEW p \in Procs, Upsert(p), Undisturbed' PROVE Calm'
<1>0. /\ TypeOK /\ Hands /\ TypeOK'
     /\ Alone /\ Kept /\ Followed /\ Running /\ Commanded /\ Removing /\ Agreed
  BY UpsertTypes DEF IInv, Undisturbed, Disturbable, Calm, Upsert
<1>1. Alone'
  BY <1>0 DEF TypeOK, Alone, Upsert, Goes, Ends, Returns, Busy
<1>2. Kept'
  BY <1>0 DEF Kept, Running, Commanded, Upsert
<1>3. Followed'
  BY <1>0 DEF Followed, Commanded, Upsert, Upserted, RowOf
<1>4. Running'
  BY <1>0 DEF TypeOK, Running, Commanded, Upsert, Goes, Ends, Returns
<1>5. Commanded'
  BY <1>0 DEF TypeOK, Hands, Alone, Commanded, Upsert, Goes, Ends, Returns, Busy
<1>6. Removing'
  BY <1>0 DEF TypeOK, Hands, Alone, Removing, Upsert, Goes, Ends, Returns, Busy
<1>7. Agreed'
  <2>1. data[p] \in Line /\ file # None /\ file.last = data[p] /\ op[p] # "delete"
    BY <1>0 DEF Upsert, Hands, Commanded
  <2>2. Upserted(data[p]) \in Row /\ (Upserted(data[p]).trashed <=> data[p].trashed)
    BY <2>1 DEF Upserted, RowOf, Line, Row
  <2>3. row' # None
    BY <2>2, StoreAssumption DEF StoreAssumption, Upsert
  <2>4. \A q \in Procs : op'[q] # "delete"
    BY <1>0 DEF TypeOK, Hands, Alone, Busy, Upsert, Returns, Goes, Ends
  <2> QED BY <2>1, <2>2, <2>3, <2>4 DEF Upsert, Agreed, Agree
<1> QED BY <1>1, <1>2, <1>3, <1>4, <1>5, <1>6, <1>7 DEF Calm

\* When a process drops the row of a victim, types, hands and dates stay right.
LEMMA DropRowTypes ==
  ASSUME IInv, NEW p \in Procs, DropRow(p)
  PROVE  TypeOK' /\ Hands' /\ Dated'
<1>1. TypeOK'
  BY DEF TypeOK, IInv, DropRow, Goes, history
<1>2. Hands'
  BY DEF Hands, IInv, DropRow, Goes
<1>3. Dated'
  BY DEF Dated, IInv, DropRow, history
<1> QED BY <1>1, <1>2, <1>3

\* Nobody else is busy, so the row is as it was when it was selected.
LEMMA DropRowCalm == ASSUME IInv, NEW p \in Procs, DropRow(p), Undisturbed' PROVE Calm'
<1>0. /\ TypeOK /\ Hands /\ TypeOK'
     /\ Alone /\ Kept /\ Followed /\ Running /\ Commanded /\ Removing /\ Agreed
  BY DropRowTypes DEF IInv, Undisturbed, Disturbable, Calm, DropRow, history
<1>1. Alone'
  BY <1>0 DEF Alone, DropRow, Goes, Busy
<1>2. Kept'
  BY <1>0 DEF Kept, DropRow, history
<1>3. Followed'
  BY <1>0 DEF Followed, DropRow, history
<1>4. Running'
  BY <1>0 DEF Running, DropRow, Goes, history
<1>5. Commanded'
  BY <1>0 DEF Commanded, DropRow, Goes, history
<1>6. Removing'
  BY <1>0 DEF TypeOK, Alone, Removing, DropRow, Goes, Busy, history
<1>7. Agreed'
  BY <1>0 DEF TypeOK, Hands, Alone, Agreed, DropRow, Goes, Busy
<1> QED BY <1>1, <1>2, <1>3, <1>4, <1>5, <1>6, <1>7 DEF Calm

\* When a process unlinks the file of a victim, types, hands and dates stay right.
LEMMA UnlinkTypes ==
  ASSUME IInv, NEW p \in Procs, Unlink(p)
  PROVE  TypeOK' /\ Hands' /\ Dated'
<1>1. TypeOK'
  BY DEF TypeOK, IInv, Unlink, Ends
<1>2. Hands'
  BY DEF TypeOK, Hands, IInv, Unlink, Ends
<1>3. Dated'
  BY DEF Dated, IInv, Unlink
<1> QED BY <1>1, <1>2, <1>3

\* Its row is gone already.
LEMMA UnlinkCalm == ASSUME IInv, NEW p \in Procs, Unlink(p), Undisturbed' PROVE Calm'
<1>0. /\ TypeOK /\ Hands /\ TypeOK'
     /\ Alone /\ Kept /\ Followed /\ Running /\ Commanded /\ Removing /\ Agreed
  BY UnlinkTypes DEF IInv, Undisturbed, Disturbable, Calm, Unlink
<1>1. Alone'
  BY <1>0 DEF Alone, Unlink, Ends, Busy
<1>2. Kept'
  BY <1>0 DEF Kept, Unlink
<1>3. Followed'
  BY <1>0 DEF Followed, Unlink
<1>4. Running'
  BY <1>0 DEF Hands, Alone, Running, Unlink, Ends, Busy
<1>5. Commanded'
  BY <1>0 DEF Alone, Commanded, Unlink, Ends, Busy
<1>6. Removing'
  BY <1>0 DEF Removing, Unlink, Ends
<1>7. Agreed'
  BY <1>0 DEF Removing, Agreed, Agree, Unlink
<1> QED BY <1>1, <1>2, <1>3, <1>4, <1>5, <1>6, <1>7 DEF Calm

\* When a process is killed, types, hands and dates stay right.
LEMMA CrashTypes == ASSUME IInv, NEW p \in Procs, Crash(p) PROVE TypeOK' /\ Hands' /\ Dated'
<1>1. TypeOK'
  BY DEF TypeOK, IInv, Crash, Ends, store
<1>2. Hands'
  BY DEF TypeOK, Hands, IInv, Crash, Ends
<1>3. Dated'
  BY DEF Dated, IInv, Crash, store
<1> QED BY <1>1, <1>2, <1>3

\* The file holds what it held; if only one of file and row was written, that is recorded.
LEMMA CrashCalm == ASSUME IInv, NEW p \in Procs, Crash(p), Undisturbed' PROVE Calm'
<1>0. /\ TypeOK /\ Hands /\ TypeOK'
     /\ Alone /\ Kept /\ Followed /\ Running /\ Commanded /\ Removing /\ Agreed
  BY CrashTypes DEF IInv, Undisturbed, Disturbable, Calm, Crash
<1>1. Alone'
  BY <1>0 DEF Alone, Crash, Ends, Busy
<1>2. Kept'
  BY <1>0 DEF Kept, Crash, store
<1>3. Followed'
  BY <1>0 DEF Followed, Crash, store
<1>4. Running'
  BY <1>0 DEF TypeOK, Running, Crash, Ends, store
<1>5. Commanded'
  BY <1>0 DEF TypeOK, Commanded, Crash, Ends, store
<1>6. Removing'
  BY <1>0 DEF Removing, Crash, Ends, store
<1>7. Agreed'
  BY <1>0 DEF TypeOK, Hands, Kept, Commanded, Removing, Agreed, Agree, File, Crash, Ends, store
<1> QED BY <1>1, <1>2, <1>3, <1>4, <1>5, <1>6, <1>7 DEF Calm

\* What a step that fails does: it ends its command or goes back to its run, and writes
\* nothing; if something had been written of file and row before, that is recorded.
LEMMA FailEffect ==
  ASSUME IInv, NEW p \in Procs, StepFails(p)
  PROVE  /\ UNCHANGED <<store, now, versions, acked, ackedAt, raced, torn>>
         /\ Busy(p) /\ Returns(p) /\ stale' \in BOOLEAN /\ (stale => stale')
         /\ \/ wanted' = wanted
            \/ wanted' = "unmarked" /\ op[p] = "delete" /\ (file # None \/ pc[p] = "loaded")
         /\ ~stale' => pc[p] = "selected" \/ (pc[p] = "loaded" /\ op[p] # "delete")
<1>0. TypeOK /\ Hands
  BY DEF IInv
<1>1. CASE DeleteUnmarked(p)
  <2>1. op[p] = "delete" /\ wanted' = "unmarked" /\ stale'
    BY <1>0, <1>1 DEF DeleteUnmarked, Hands
  <2> QED BY <1>0, <1>1, <2>1 DEF DeleteUnmarked, Returns, Busy, Hands, TypeOK
<1>2. CASE AppendFails(p)
  BY <1>0, <1>2 DEF AppendFails, Returns, Busy, Hands, TypeOK, history
<1>3. CASE UpsertFails(p)
  BY <1>0, <1>3 DEF UpsertFails, Busy, TypeOK
<1>4. CASE DropFails(p)
  BY <1>0, <1>4 DEF DropFails, Returns, Busy, Hands, TypeOK, history
<1>5. CASE UnlinkFails(p)
  BY <1>0, <1>5 DEF UnlinkFails, Returns, Busy, Hands, TypeOK
<1> QED BY <1>1, <1>2, <1>3, <1>4, <1>5 DEF StepFails

\* When a step fails, types, hands and dates stay right.
LEMMA FailTypes == ASSUME IInv, NEW p \in Procs, StepFails(p) PROVE TypeOK' /\ Hands' /\ Dated'
<1>0. TypeOK /\ Hands /\ Dated
  BY DEF IInv
<1>1. TypeOK'
  BY <1>0, FailEffect DEF TypeOK, Returns, Goes, Ends, store
<1>2. Hands'
  <2>1. op[p] = "run" => pc[p] \notin {"marked", "loaded", "selected", "unindexed"}
    BY <1>0 DEF Hands
  <2>2. Busy(p) /\ Returns(p)
    BY FailEffect
  <2> QED BY <1>0, <2>1, <2>2 DEF TypeOK, Hands, Returns, Goes, Ends, Busy
<1>3. Dated'
  BY <1>0, FailEffect DEF Dated, store
<1> QED BY <1>1, <1>2, <1>3

\* File and row are as they were; if only one of them had been written, that is recorded.
LEMMA FailCalm == ASSUME IInv, NEW p \in Procs, StepFails(p), Undisturbed' PROVE Calm'
<1>0. /\ TypeOK /\ Hands /\ TypeOK'
     /\ Alone /\ Kept /\ Followed /\ Running /\ Commanded /\ Removing /\ Agreed
  BY FailTypes, FailEffect DEF IInv, Undisturbed, Disturbable, Calm
<1>e. /\ UNCHANGED <<store, now, versions, acked, ackedAt>>
      /\ Busy(p) /\ Returns(p)
      /\ wanted' = wanted \/ (wanted' = "unmarked" /\ op[p] = "delete" /\ file # None)
  BY <1>0, FailEffect DEF Commanded
<1>o. \A q \in Procs : q # p => pc[q] = "idle" /\ op[q] = "none" /\ pc'[q] = "idle" /\ op'[q] = "none"
  BY <1>0, <1>e DEF TypeOK, Hands, Alone, Busy, Returns, Goes, Ends
<1>p. \/ op[p] # "run" /\ pc'[p] = "idle" /\ op'[p] = "none"
      \/ op[p] = "run" /\ pc'[p] = "running" /\ op'[p] = "run" /\ wanted' = wanted
  BY <1>0, <1>e DEF TypeOK, Returns, Goes, Ends
<1>1. Alone'
  BY <1>o DEF Alone, Busy
<1>2. Kept'
  BY <1>0, <1>e DEF Kept, store
<1>3. Followed'
  BY <1>0, <1>e DEF Followed, store
<1>4. Running'
  BY <1>0, <1>e, <1>o, <1>p DEF Running, store
<1>5. Commanded'
  BY <1>o, <1>p DEF Commanded
<1>6. Removing'
  BY <1>o, <1>p DEF Removing
<1>7. Agreed'
  <2> SUFFICES ASSUME ~stale' PROVE Agreed'
    BY DEF Agreed
  <2>1. ~stale /\ (pc[p] = "selected" \/ (pc[p] = "loaded" /\ op[p] # "delete"))
    BY FailEffect
  <2>2. Agree
    BY <1>0, <1>o, <2>1 DEF Agreed
  <2>3. \A q \in Procs : op'[q] # "delete"
    BY <1>o, <1>p
  <2> QED BY <1>e, <2>2, <2>3 DEF Agreed, Agree, store
<1> QED BY <1>1, <1>2, <1>3, <1>4, <1>5, <1>6, <1>7 DEF Calm

\* When a process writes a line in part, types, hands and dates stay right.
LEMMA TearTypes == ASSUME IInv, NEW p \in Procs, Tear(p) PROVE TypeOK' /\ Hands' /\ Dated'
<1>a. CASE /\ pc[p] = "running" /\ versions < MaxVersions
           /\ versions' = versions + 1
           /\ file' \in CutShort(NextVersion)
           /\ (Goes(p, "running") \/ Ends(p))
  <2>1. NextVersion \in Line
    <3>0. TypeOK
      BY DEF IInv
    <3>1. versions < MaxVersions
      BY <1>a
    <3> QED BY <3>0, <3>1, NextIsLine
  <2>2. file' \in File
    <3>0. TypeOK
      BY DEF IInv
    <3>1. file' \in CutShort(NextVersion)
      BY <1>a
    <3> QED BY <2>1, <3>0, <3>1, CutIsFile
  <2>3. versions' \in 0..MaxVersions
    BY <1>a, StoreAssumption DEF TypeOK, StoreAssumption, IInv
  <2>4. /\ pc' \in [Procs -> {"idle", "running", "marked", "loaded",
                              "appended", "selected", "unindexed"}]
      /\ op' \in [Procs -> Commands \cup {"run", "none"}]
      /\ data' \in [Procs -> Line \cup {None}]
    BY <1>a DEF TypeOK, IInv, Goes, Ends
  <2>5. Hands'
    BY <1>a DEF TypeOK, Hands, IInv, Goes, Ends
  <2> QED BY <2>2, <2>3, <2>4, <2>5 DEF TypeOK, Dated, IInv, Tear
<1>b. CASE /\ pc[p] = "loaded"
           /\ file' \in CutShort(data[p])
           /\ Ends(p)
           /\ UNCHANGED versions
  <2>0. data[p] \in Line
    BY <1>b DEF Hands, IInv
  <2>1. file' \in File
    <3> QED BY <2>0, <1>b, CutIsFile DEF IInv
  <2>2. /\ pc' \in [Procs -> {"idle", "running", "marked", "loaded",
                              "appended", "selected", "unindexed"}]
      /\ op' \in [Procs -> Commands \cup {"run", "none"}]
      /\ data' \in [Procs -> Line \cup {None}]
    BY <1>b DEF TypeOK, IInv, Ends
  <2>3. Hands'
    BY <1>b DEF TypeOK, Hands, IInv, Ends
  <2> QED BY <1>b, <2>1, <2>2, <2>3 DEF TypeOK, Dated, IInv, Tear
<1> QED BY <1>a, <1>b DEF Tear

\* Nothing is claimed once a line is torn.
LEMMA TearCalm == ASSUME IInv, NEW p \in Procs, Tear(p), Undisturbed' PROVE Calm'
BY DEF Undisturbed, Tear

\* Time passing only makes the index older: the reasons of a removal under way stay.
LEMMA TickInv == IInv /\ Tick => IInv'
<1> SUFFICES ASSUME IInv, Tick PROVE IInv'
  OBVIOUS
<1>1. TypeOK'
  BY StoreAssumption DEF IInv, TypeOK, Tick, store, procs, history
<1>2. Hands' /\ Dated'
  BY DEF IInv, Hands, Dated, Tick, store, procs, history
<1>3. ASSUME Undisturbed' PROVE Calm'
  <2>1. Calm
    BY <1>3 DEF IInv, Disturbable, Undisturbed, Tick, history
  <2>2. Alone' /\ Kept' /\ Followed' /\ Running' /\ Commanded' /\ Agreed'
    BY <2>1 DEF Calm, Alone, Busy, Kept, Followed, Running, Commanded, Agreed, Agree,
                Tick, store, procs, history
  <2>3. Removing'
    BY <2>1 DEF Calm, Removing, IInv, TypeOK, Tick, store, procs, history
  <2> QED BY <2>2, <2>3 DEF Calm
<1> QED BY <1>1, <1>2, <1>3 DEF IInv, Disturbable

\* The invariant is about the state alone.
LEMMA StutterInv == IInv /\ UNCHANGED vars => IInv'
BY DEF IInv, TypeOK, Hands, Dated, Disturbable, Undisturbed, Calm, Alone, Busy, Kept, Followed,
       Running, Commanded, Removing, Agreed, Agree, vars, store, procs, history

\* Every step keeps the invariant: for each action, the two lemmas about it.
LEMMA NextInv == IInv /\ [Next]_vars => IInv'
<1> SUFFICES ASSUME IInv, [Next]_vars PROVE IInv'
  OBVIOUS
<1>1. ASSUME NEW p \in Procs, StartRun(p) PROVE IInv'
  BY <1>1, StartRunTypes, StartRunCalm DEF IInv, Disturbable
<1>2. ASSUME NEW p \in Procs, ResumeRun(p) PROVE IInv'
  BY <1>2, ResumeRunTypes, ResumeRunCalm DEF IInv, Disturbable
<1>3. ASSUME NEW p \in Procs, SaveRun(p) PROVE IInv'
  BY <1>3, SaveRunTypes, SaveRunCalm DEF IInv, Disturbable
<1>4. ASSUME NEW p \in Procs, EndRun(p) PROVE IInv'
  BY <1>4, EndRunTypes, EndRunCalm DEF IInv, Disturbable
<1>5. ASSUME NEW p \in Procs, NEW what \in Commands, Load(p, what) PROVE IInv'
  BY <1>5, LoadTypes, LoadCalm DEF IInv, Disturbable
<1>6. ASSUME NEW p \in Procs, NEW what \in Commands, Select(p, what) PROVE IInv'
  BY <1>6, SelectTypes, SelectCalm DEF IInv, Disturbable
<1>7. ASSUME NEW p \in Procs, MarkRow(p) PROVE IInv'
  BY <1>7, MarkRowTypes, MarkRowCalm DEF IInv, Disturbable
<1>8. ASSUME NEW p \in Procs, ReadMarked(p) PROVE IInv'
  BY <1>8, ReadMarkedTypes, ReadMarkedCalm DEF IInv, Disturbable
<1>9. ASSUME NEW p \in Procs, AppendLine(p) PROVE IInv'
  BY <1>9, AppendTypes, AppendCalm DEF IInv, Disturbable
<1>10. ASSUME NEW p \in Procs, Upsert(p) PROVE IInv'
  BY <1>10, UpsertTypes, UpsertCalm DEF IInv, Disturbable
<1>11. ASSUME NEW p \in Procs, DropRow(p) PROVE IInv'
  BY <1>11, DropRowTypes, DropRowCalm DEF IInv, Disturbable
<1>12. ASSUME NEW p \in Procs, Unlink(p) PROVE IInv'
  BY <1>12, UnlinkTypes, UnlinkCalm DEF IInv, Disturbable
<1>13. ASSUME NEW p \in Procs, Crash(p) PROVE IInv'
  BY <1>13, CrashTypes, CrashCalm DEF IInv, Disturbable
<1>14. ASSUME NEW p \in Procs, Tear(p) PROVE IInv'
  BY <1>14, TearTypes, TearCalm DEF IInv, Disturbable
<1>15. ASSUME NEW p \in Procs, StepFails(p) PROVE IInv'
  BY <1>15, FailTypes, FailCalm DEF IInv, Disturbable
<1> QED BY <1>1, <1>2, <1>3, <1>4, <1>5, <1>6, <1>7, <1>8, <1>9, <1>10, <1>11, <1>12, <1>13,
           <1>14, <1>15,
           TickInv, StutterInv DEF Next

\* The invariant holds in every behaviour.
THEOREM Invariance == Spec => []IInv
<1>1. Init => IInv
  BY InitInv
<1>2. IInv /\ [Next]_vars => IInv'
  BY NextInv
<1> QED BY <1>1, <1>2, PTL DEF Spec

\* What a save has reported is found by the next load (save and load in
\* session-jsonl-store.ts), for any number of processes, whichever of them are killed
\* between its two writes.
THEOREM SavedIsFound == Spec => []SavesSurvive
<1>1. IInv => SavesSurvive
  BY StoreAssumption
     DEF StoreAssumption, IInv, TypeOK, Line, Disturbable, Calm, Kept, SavesSurvive
<1> QED BY <1>1, Invariance, PTL

\* A session is resumable or not as was last asked (trashSession, restoreSession, delete),
\* whatever a crash or a failure has left in the index; a delete() that could not mark the
\* file is the exception.
THEOREM RequestsAreFollowed == Spec => []LoadFollowsRequests
<1>1. IInv => LoadFollowsRequests
  BY DEF IInv, Disturbable, Calm, Followed, LoadFollowsRequests, Readable
<1> QED BY <1>1, Invariance, PTL

\* Unless a command was cut off or failed and nothing completed since, the index and the file agree
\* between operations.
THEOREM IndexIsRight == Spec => []IndexAgrees
<1>1. ASSUME IInv, Undisturbed, ~stale,
             \A p \in Procs : pc[p] \in {"idle", "running", "selected"}
      PROVE  (row = None <=> file = None) /\ (row # None => row.trashed = file.last.trashed)
  <2>1. Agree /\ Kept
    BY <1>1 DEF IInv, Disturbable, Calm, Agreed
  <2>2. row # None => row.trashed \in BOOLEAN /\ file.last.trashed \in BOOLEAN
    BY <1>1, <2>1 DEF IInv, TypeOK, Row, Line, Agree, Kept
  <2> QED BY <2>1, <2>2 DEF Agree
<1>2. IInv => IndexAgrees
  BY <1>1 DEF IndexAgrees
<1> QED BY <1>2, Invariance, PTL

\* An append leaves a file, whole or not.
LEMMA WrittenIsThere ==
  ASSUME TypeOK, NEW l \in Line
  PROVE  Appended(l) # None /\ None \notin CutShort(l)
<1>1. Appended(l) \in File
  BY DEF TypeOK, Appended, File
<1>2. \A f \in CutShort(l) : f \in File
  BY CutIsFile
<1> QED BY <1>1, <1>2, StoreAssumption DEF StoreAssumption

\* prune and deleteTrash, the only ones to unlink a file, had a reason to.
THEOREM NothingLostUnasked == Spec => RemovalIsJustified
<1>1. ASSUME IInv, [Next]_vars, file # None, file' = None, Undisturbed
      PROVE  wanted # "live" \/ ackedAt < now
  <2>1. PICK p \in Procs : Unlink(p)
    <3>1. ASSUME NEW p \in Procs, SaveRun(p) PROVE FALSE
      BY <1>1, <3>1, NextIsLine, WrittenIsThere DEF IInv, SaveRun
    <3>2. ASSUME NEW p \in Procs, AppendLine(p) PROVE FALSE
      BY <1>1, <3>2, WrittenIsThere DEF IInv, Hands, AppendLine
    <3>3. ASSUME NEW p \in Procs, Tear(p) PROVE FALSE
      BY <1>1, <3>3, NextIsLine, WrittenIsThere DEF IInv, Hands, Tear
    <3>4. ASSUME NEW p \in Procs, StepFails(p) PROVE FALSE
      BY <1>1, <3>4, FailEffect DEF store
    <3> QED BY <1>1, <3>1, <3>2, <3>3, <3>4
            DEF Next, vars, store, StartRun, ResumeRun, EndRun, Load, Select, MarkRow, ReadMarked,
                Upsert, DropRow, Crash, Tick
  <2>2. op[p] \in {"prune", "emptyTrash"}
    BY <1>1, <2>1 DEF IInv, Hands, Unlink
  <2> QED BY <1>1, <2>2 DEF IInv, Disturbable, Calm, Removing
<1>2. IInv /\ [Next]_vars => [file # None /\ file' = None /\ Undisturbed
                               => wanted # "live" \/ ackedAt < now]_vars
  BY <1>1
<1> QED BY <1>2, Invariance, PTL DEF Spec, RemovalIsJustified

-----------------------------------------------------------------------------
(***************************************************************************)
(* The fallback store of one file per session (FileStore).                 *)
(***************************************************************************)

\* A session with a save under way has an entry in the map, ...
ChainIsQueued ==
  \A p \in Clients : \A i \in DOMAIN chain[p] : chain[p][i].s \in queued[p]

\* ... so that the next save of it waits.
LaterSavesWait ==
  \A p \in Clients : \A i, j \in DOMAIN chain[p] :
    i < j /\ chain[p][i].s = chain[p][j].s => chain[p][j].waits

\* What a file that was not saved since is when it is looked at: not younger than the prune
\* has seen it, and too old, or trashed, once that is decided; and what deleteTrash has
\* promised to remove and is there, it is going to remove.
Judged(p) ==
  /\ task[p].kind = "stat" =>
       /\ \A s \in (task[p].todo \cap Present) \ task[p].saved : mtime[s] >= task[p].old
       /\ \A s, t \in task[p].todo : s = t
  /\ task[p].kind = "prune" =>
       \A s \in (task[p].todo \cap Present) \ task[p].saved : mtime[s] > Cutoff(s)
  /\ task[p].kind = "deleteTrash" =>
       /\ \A s \in (task[p].todo \cap Present) \ task[p].saved : files[s].trashed
       /\ task[p].promised \cap Present \subseteq task[p].todo

FilesInv ==
  /\ StoreTypeOK /\ ChainIsQueued /\ LaterSavesWait /\ SavesKeepTheirOrder
  /\ \A p \in Clients : Judged(p)

\* Two of the properties are what is judged when the last file is gone.
LEMMA FilesInvKeepsSessions == FilesInv => RemovalsSpareLiveSessions /\ TrashIsEmptied
  BY DEF FilesInv, Judged, RemovalsSpareLiveSessions, TrashIsEmptied

\* There is no file at first.
LEMMA FilesInitInv == StoreInit => FilesInv
<1> SUFFICES ASSUME StoreInit PROVE FilesInv
  OBVIOUS
<1>1. StoreTypeOK
  BY DEF StoreInit, StoreTypeOK, Tasks, Ages
<1>2. \A p \in Clients : chain[p] = <<>> /\ task[p].kind = "idle"
  BY DEF StoreInit, NoRequest
<1> QED
  BY <1>1, <1>2 DEF FilesInv, ChainIsQueued, LaterSavesWait, SavesKeepTheirOrder, Judged

\* The kind of a task tells what it is made of.
LEMMA TaskKinds ==
  ASSUME StoreTypeOK, NEW p \in Clients
  PROVE  /\ task[p].kind \in {"trash", "restore"} => task[p] \in LoadTasks
         /\ task[p].kind = "deleteTrash" => task[p] \in TrashTasks
         /\ task[p].kind \in {"stat", "prune"} => task[p] \in PruneTasks
         /\ task[p].kind \notin {"trash", "restore", "deleteTrash", "stat", "prune"} => task[p] = NoRequest
         /\ task[p].kind = "idle" <=> task[p] = NoRequest
  BY DEF StoreTypeOK, Tasks, LoadTasks, TrashTasks, PruneTasks, NoRequest

\* Without one element, a sequence has the others in their order.
LEMMA RemoveAtKeepsOrder ==
  ASSUME NEW T, NEW c \in Seq(T), NEW i \in DOMAIN c
  PROVE  /\ RemoveAt(c, i) \in Seq(T)
         /\ DOMAIN RemoveAt(c, i) = 1..(Len(c) - 1)
         /\ \A k \in 1..(Len(c) - 1) : RemoveAt(c, i)[k] = c[IF k < i THEN k ELSE k + 1]
<1>1. i \in 1..Len(c) /\ Len(c) \in Nat
  OBVIOUS
<1>2. /\ SubSeq(c, 1, i - 1) \in Seq(T) /\ Len(SubSeq(c, 1, i - 1)) = i - 1
      /\ \A k \in 1..(i - 1) : SubSeq(c, 1, i - 1)[k] = c[k]
  BY <1>1
<1>3. /\ SubSeq(c, i + 1, Len(c)) \in Seq(T) /\ Len(SubSeq(c, i + 1, Len(c))) = Len(c) - i
      /\ \A k \in 1..(Len(c) - i) : SubSeq(c, i + 1, Len(c))[k] = c[i + k]
  BY <1>1
<1> DEFINE a == SubSeq(c, 1, i - 1)
           b == SubSeq(c, i + 1, Len(c))
<1>4. RemoveAt(c, i) = a \o b
  BY DEF RemoveAt
<1> HIDE DEF a, b
<1>5. a \in Seq(T) /\ b \in Seq(T) /\ Len(a) = i - 1 /\ Len(b) = Len(c) - i
  BY <1>2, <1>3 DEF a, b
<1>6. /\ a \o b \in Seq(T) /\ Len(a \o b) = Len(c) - 1
      /\ \A k \in 1..(Len(c) - 1) : (a \o b)[k] = IF k <= i - 1 THEN a[k] ELSE b[k - (i - 1)]
  BY <1>1, <1>5
<1>7. ASSUME NEW k \in 1..(Len(c) - 1) PROVE (a \o b)[k] = c[IF k < i THEN k ELSE k + 1]
  <2>1. CASE k < i
    BY <1>1, <1>2, <1>6, <2>1 DEF a
  <2>2. CASE ~(k < i)
    <3>1. k - (i - 1) \in 1..(Len(c) - i) /\ i + (k - (i - 1)) = k + 1
      BY <1>1, <2>2
    <3>2. (a \o b)[k] = b[k - (i - 1)]
      BY <1>1, <1>6, <2>2
    <3>3. b[k - (i - 1)] = c[i + (k - (i - 1))]
      BY <1>3, <3>1 DEF b
    <3> QED
      BY <2>2, <3>1, <3>2, <3>3
  <2> QED
    BY <2>1, <2>2
<1> QED
  BY <1>4, <1>6, <1>7

ChainInv == ChainIsQueued /\ LaterSavesWait /\ SavesKeepTheirOrder

\* A save that is over leaves the others in their order.
LEMMA SettleKeepsChain ==
  ASSUME StoreTypeOK, ChainInv, NEW p \in Clients, NEW i \in DOMAIN chain[p], Settle(p, i)
  PROVE  chain' \in [Clients -> Seq(SaveCall)] /\ queued' = queued /\ ChainInv'
<1> DEFINE c == chain[p]
           f(k) == IF k < i THEN k ELSE k + 1
<1>1. /\ RemoveAt(c, i) \in Seq(SaveCall) /\ DOMAIN RemoveAt(c, i) = 1..(Len(c) - 1)
      /\ \A k \in 1..(Len(c) - 1) : RemoveAt(c, i)[k] = c[f(k)]
  BY RemoveAtKeepsOrder DEF StoreTypeOK
<1>2. i \in 1..Len(c) /\ Len(c) \in Nat /\ DOMAIN c = 1..Len(c)
  BY DEF StoreTypeOK
<1>3. /\ chain' \in [Clients -> Seq(SaveCall)] /\ queued' = queued
      /\ chain'[p] = RemoveAt(c, i) /\ \A q \in Clients : q # p => chain'[q] = chain[q]
  BY <1>1 DEF Settle, StoreTypeOK
<1>4. \A k \in DOMAIN chain'[p] : f(k) \in DOMAIN chain[p] /\ chain'[p][k] = chain[p][f(k)]
  BY <1>1, <1>2, <1>3
<1>5. \A k, l \in DOMAIN chain'[p] : k < l => f(k) < f(l)
  BY <1>1, <1>2, <1>3
<1> HIDE DEF f, c
<1>6. ASSUME NEW q \in Clients, NEW k \in DOMAIN chain'[q] PROVE chain'[q][k].s \in queued'[q]
  BY <1>3, <1>4 DEF ChainInv, ChainIsQueued
<1>7. ASSUME NEW q \in Clients, NEW k \in DOMAIN chain'[q], NEW l \in DOMAIN chain'[q],
             k < l, chain'[q][k].s = chain'[q][l].s
      PROVE  chain'[q][l].waits /\ ~chain'[q][l].written
  <2>1. CASE q = p
    <3>1. f(k) \in DOMAIN chain[p] /\ f(l) \in DOMAIN chain[p] /\ f(k) < f(l)
          /\ chain[p][f(k)].s = chain[p][f(l)].s /\ chain'[p][l] = chain[p][f(l)]
      BY <1>4, <1>5, <1>7, <2>1
    <3> QED
      BY <2>1, <3>1 DEF ChainInv, LaterSavesWait, SavesKeepTheirOrder
  <2>2. CASE q # p
    BY <1>3, <1>7, <2>2 DEF ChainInv, LaterSavesWait, SavesKeepTheirOrder
  <2> QED
    BY <2>1, <2>2
<1> QED
  BY <1>3, <1>6, <1>7 DEF ChainInv, ChainIsQueued, LaterSavesWait, SavesKeepTheirOrder

\* A new save waits exactly if one of its session is under way.
LEMMA EnqueueKeepsChain ==
  ASSUME StoreTypeOK, ChainInv, NEW p \in Clients, NEW s \in Sessions, NEW d \in Content, Enqueue(p, s, d)
  PROVE  /\ chain' \in [Clients -> Seq(SaveCall)] /\ queued' \in [Clients -> SUBSET Sessions]
         /\ ChainInv'
<1> DEFINE c == chain[p]
           w == s \in queued[p] /\ Pending(p, s)
           call == [s |-> s, data |-> d, waits |-> w, written |-> FALSE]
<1>0. c \in Seq(SaveCall) /\ Len(c) \in Nat /\ DOMAIN c = 1..Len(c)
  BY DEF StoreTypeOK
<1>1. w \in BOOLEAN /\ call \in SaveCall
  <2>1. w \in BOOLEAN
    BY DEF Pending
  <2> HIDE DEF w
  <2> QED
    BY <2>1 DEF SaveCall
<1>2. call.s = s /\ call.waits = w /\ call.written = FALSE
  OBVIOUS
<1>3. chain' = [chain EXCEPT ![p] = Append(c, call)] /\ queued' = [queued EXCEPT ![p] = AfterEviction(p, s)]
  BY DEF Enqueue
<1>3a. AfterEviction(p, s) \in SUBSET Sessions /\ s \in AfterEviction(p, s)
       /\ \A t \in queued[p] : Pending(p, t) => t \in AfterEviction(p, s)
  BY DEF AfterEviction, StoreTypeOK
<1> HIDE DEF call
<1>4. /\ chain' \in [Clients -> Seq(SaveCall)] /\ queued' \in [Clients -> SUBSET Sessions]
      /\ \A q \in Clients : q # p => chain'[q] = chain[q] /\ queued'[q] = queued[q]
      /\ chain'[p] = Append(c, call) /\ queued'[p] = AfterEviction(p, s)
  BY <1>0, <1>1, <1>3, <1>3a DEF StoreTypeOK
<1>5. /\ DOMAIN chain'[p] = 1..(Len(c) + 1) /\ chain'[p][Len(c) + 1] = call
      /\ \A k \in 1..Len(c) : chain'[p][k] = c[k]
  BY <1>0, <1>1, <1>4
<1>6. ASSUME NEW q \in Clients, NEW k \in DOMAIN chain'[q] PROVE chain'[q][k].s \in queued'[q]
  <2>1. CASE q # p
    BY <1>4, <2>1 DEF ChainInv, ChainIsQueued
  <2>2. CASE q = p /\ k = Len(c) + 1
    BY <1>2, <1>3a, <1>4, <1>5, <2>2
  <2>3. CASE q = p /\ k \in 1..Len(c)
    <3>1. chain'[p][k] = c[k] /\ c[k].s \in queued[p] /\ Pending(p, c[k].s)
      BY <1>0, <1>5, <2>3 DEF ChainInv, ChainIsQueued, Pending
    <3> QED
      BY <1>3a, <1>4, <2>3, <3>1
  <2> QED
    BY <1>0, <1>5, <2>1, <2>2, <2>3
<1>7. ASSUME NEW q \in Clients, NEW k \in DOMAIN chain'[q], NEW l \in DOMAIN chain'[q],
             k < l, chain'[q][k].s = chain'[q][l].s
      PROVE  chain'[q][l].waits /\ ~chain'[q][l].written
  <2>1. CASE q # p
    BY <1>4, <1>7, <2>1 DEF ChainInv, LaterSavesWait, SavesKeepTheirOrder
  <2>2. CASE q = p /\ l = Len(c) + 1
    <3>1. k \in 1..Len(c) /\ c[k].s = s
      BY <1>0, <1>2, <1>5, <1>7, <2>2
    <3>2. w
      BY <1>0, <3>1 DEF Pending, ChainInv, ChainIsQueued
    <3> QED
      BY <1>2, <1>5, <2>2, <3>2
  <2>3. CASE q = p /\ l \in 1..Len(c)
    <3>1. k \in 1..Len(c) /\ chain'[p][k] = c[k] /\ chain'[p][l] = c[l] /\ c[k].s = c[l].s
      BY <1>0, <1>5, <1>7, <2>3
    <3> QED
      BY <1>0, <1>7, <2>3, <3>1 DEF ChainInv, LaterSavesWait, SavesKeepTheirOrder
  <2> QED
    BY <1>0, <1>5, <2>1, <2>2, <2>3
<1> QED
  BY <1>4, <1>6, <1>7 DEF ChainInv, ChainIsQueued, LaterSavesWait, SavesKeepTheirOrder

\* What a save does to the judgements of the others.
LEMMA OvertakenTasks ==
  ASSUME StoreTypeOK, NEW s \in Sessions, task' = Overtaken(s)
  PROVE  /\ task' \in [Clients -> Tasks]
         /\ \A q \in Clients :
              /\ task'[q].kind = task[q].kind
              /\ task[q].kind \in {"deleteTrash", "stat", "prune"} =>
                   task'[q].todo = task[q].todo /\ task'[q].saved = task[q].saved \cup ({s} \cap task[q].todo)
              /\ task[q].kind = "deleteTrash" => task'[q].promised = task[q].promised \ {s}
              /\ task[q].kind = "stat" => task'[q].old = task[q].old
<1>1. ASSUME NEW q \in Clients
      PROVE  /\ task'[q] \in Tasks
             /\ task'[q].kind = task[q].kind
             /\ task[q].kind \in {"deleteTrash", "stat", "prune"} =>
                  task'[q].todo = task[q].todo /\ task'[q].saved = task[q].saved \cup ({s} \cap task[q].todo)
             /\ task[q].kind = "deleteTrash" => task'[q].promised = task[q].promised \ {s}
             /\ task[q].kind = "stat" => task'[q].old = task[q].old
  <2>1. CASE task[q].kind = "deleteTrash"
    <3>1. task'[q] = [task[q] EXCEPT !.saved = @ \cup ({s} \cap task[q].todo), !.promised = @ \ {s}]
      BY <2>1 DEF Overtaken
    <3>2. task[q] \in TrashTasks
      BY <2>1, TaskKinds
    <3>3. task'[q] \in TrashTasks
      BY <3>1, <3>2 DEF TrashTasks
    <3> QED
      BY <2>1, <3>1, <3>2, <3>3 DEF TrashTasks, Tasks
  <2>2. CASE task[q].kind \in {"stat", "prune"}
    <3>1. task'[q] = [task[q] EXCEPT !.saved = @ \cup ({s} \cap task[q].todo)]
      BY <2>2 DEF Overtaken
    <3>2. task[q] \in PruneTasks
      BY <2>2, TaskKinds
    <3>3. task'[q] \in PruneTasks
      BY <3>1, <3>2 DEF PruneTasks
    <3> QED
      BY <2>2, <3>1, <3>2, <3>3 DEF PruneTasks, Tasks
  <2>3. CASE task[q].kind \notin {"deleteTrash", "stat", "prune"}
    <3>1. task'[q] = task[q]
      BY <2>3 DEF Overtaken
    <3> QED
      BY <2>3, <3>1 DEF StoreTypeOK
  <2> QED
    BY <2>1, <2>2, <2>3
<1> QED
  BY <1>1 DEF Overtaken

\* A process that starts or ends something, while no file changes.
LEMMA TaskChanges ==
  ASSUME FilesInv, NEW p \in Clients, NEW t \in Tasks, task' = [task EXCEPT ![p] = t],
         UNCHANGED <<files, mtime>>, Judged(p)'
  PROVE  task' \in [Clients -> Tasks] /\ \A q \in Clients : Judged(q)'
<1>1. task' \in [Clients -> Tasks] /\ \A q \in Clients : q # p => task'[q] = task[q]
  BY DEF FilesInv, StoreTypeOK
<1>2. ASSUME NEW q \in Clients, q # p PROVE Judged(q)'
  BY <1>1, <1>2 DEF FilesInv, Judged, Present, Cutoff
<1> QED
  BY <1>1, <1>2

\* A file is unlinked, by the process that judged it or by another.
LEMMA UnlinkKeepsJudged ==
  ASSUME FilesInv, NEW s \in Sessions, UnlinkFile(s),
         task' \in [Clients -> Tasks],
         \A q \in Clients : \/ task'[q] = task[q]
                            \/ /\ task'[q].kind = task[q].kind /\ task[q].kind \in {"deleteTrash", "prune"}
                               /\ task'[q].todo = task[q].todo \ {s} /\ task'[q].saved = task[q].saved \ {s}
                               /\ task[q].kind = "deleteTrash" => task'[q].promised = task[q].promised
  PROVE  /\ files' \in [Sessions -> Content \cup {Missing}] /\ mtime' \in [Sessions -> Ages]
         /\ \A q \in Clients : Judged(q)'
<1>1. /\ files' \in [Sessions -> Content \cup {Missing}] /\ mtime' \in [Sessions -> Ages]
      /\ files'[s] = Missing /\ \A t \in Sessions : t # s => files'[t] = files[t] /\ mtime'[t] = mtime[t]
  BY DEF FilesInv, StoreTypeOK, UnlinkFile, Ages
<1>2. Present' = Present \ {s} /\ \A t \in Present' : Cutoff(t)' = Cutoff(t)
  BY <1>1 DEF Present, Cutoff
<1>3. ASSUME NEW q \in Clients PROVE Judged(q)'
  <2>1. CASE task'[q] = task[q]
    BY <1>1, <1>2, <2>1 DEF FilesInv, Judged, Present
  <2>2. CASE /\ task'[q].kind = task[q].kind /\ task[q].kind \in {"deleteTrash", "prune"}
             /\ task'[q].todo = task[q].todo \ {s} /\ task'[q].saved = task[q].saved \ {s}
             /\ task[q].kind = "deleteTrash" => task'[q].promised = task[q].promised
    BY <1>1, <1>2, <2>2 DEF FilesInv, Judged, Present
  <2> QED
    BY <2>1, <2>2
<1> QED
  BY <1>1, <1>3

\* The types but for the chains.
RestTyped ==
  /\ files \in [Sessions -> Content \cup {Missing}] /\ mtime \in [Sessions -> Ages]
  /\ task \in [Clients -> Tasks]

\* Chains are changed by saves alone, files and judgements by what renames or unlinks.
LEMMA FilesStep == FilesInv /\ [StoreNext]_fsVars => FilesInv'
<1> SUFFICES ASSUME FilesInv, [StoreNext]_fsVars PROVE FilesInv'
  OBVIOUS
<1>0. /\ StoreTypeOK /\ ChainInv /\ RestTyped /\ \A p \in Clients : Judged(p)
      /\ chain \in [Clients -> Seq(SaveCall)] /\ queued \in [Clients -> SUBSET Sessions]
  BY DEF FilesInv, ChainInv, StoreTypeOK, RestTyped
<1> DEFINE ChainStep == chain' \in [Clients -> Seq(SaveCall)] /\ queued' \in [Clients -> SUBSET Sessions] /\ ChainInv'
           RestStep == RestTyped' /\ \A p \in Clients : Judged(p)'
<1> SUFFICES ChainStep /\ RestStep
  BY DEF FilesInv, StoreTypeOK, ChainInv, RestTyped
<1>a. UNCHANGED <<chain, queued>> => ChainStep
  BY <1>0 DEF ChainInv, ChainIsQueued, LaterSavesWait, SavesKeepTheirOrder
<1>b. UNCHANGED <<files, mtime, task>> => RestStep
  BY <1>0 DEF RestTyped, Judged, Present, Cutoff
<1> HIDE DEF ChainStep, RestStep
<1>1. ASSUME NEW p \in Clients, NEW i \in DOMAIN chain[p], WriteTmp(p, i) PROVE ChainStep /\ RestStep
  <2>1. chain[p] \in Seq(SaveCall) /\ chain[p][i] \in SaveCall
    BY <1>0
  <2>2. chain' = [chain EXCEPT ![p][i].written = TRUE] /\ UNCHANGED <<files, mtime, queued, task>>
    BY <1>1 DEF WriteTmp
  <2>3. [chain[p][i] EXCEPT !.written = TRUE] \in SaveCall
    BY <2>1 DEF SaveCall
  <2>4. chain'[p] = [chain[p] EXCEPT ![i] = [chain[p][i] EXCEPT !.written = TRUE]]
        /\ \A q \in Clients : q # p => chain'[q] = chain[q]
    BY <1>0, <2>2
  <2>5. chain'[p] \in Seq(SaveCall) /\ DOMAIN chain'[p] = DOMAIN chain[p]
    BY <2>1, <2>3, <2>4
  <2>6. chain' \in [Clients -> Seq(SaveCall)]
    BY <1>0, <2>2, <2>5
  <2>7. /\ \A q \in Clients : DOMAIN chain'[q] = DOMAIN chain[q]
        /\ \A q \in Clients : \A k \in DOMAIN chain[q] :
             /\ chain'[q][k].s = chain[q][k].s /\ chain'[q][k].waits = chain[q][k].waits
             /\ (q # p \/ k # i) => chain'[q][k].written = chain[q][k].written
    <3>1. ASSUME NEW k \in DOMAIN chain[p]
          PROVE  /\ chain'[p][k].s = chain[p][k].s /\ chain'[p][k].waits = chain[p][k].waits
                 /\ k # i => chain'[p][k].written = chain[p][k].written
      <4>1. chain[p][k] \in SaveCall
        BY <2>1
      <4>2. CASE k = i
        BY <2>1, <2>4, <4>1, <4>2 DEF SaveCall
      <4>3. CASE k # i
        BY <2>1, <2>4, <4>3
      <4> QED
        BY <4>2, <4>3
    <3> QED
      BY <2>4, <2>5, <3>1
  <2>8. \A k \in DOMAIN chain[p] : ~(k < i /\ chain[p][k].s = chain[p][i].s)
    <3>1. chain[p][i].waits => \A j \in 1..(i - 1) : chain[p][j].s # chain[p][i].s
      BY <1>1 DEF WriteTmp, MayRun
    <3>2. DOMAIN chain[p] = 1..Len(chain[p]) /\ Len(chain[p]) \in Nat
      BY <2>1
    <3>3. ASSUME NEW k \in DOMAIN chain[p], k < i, chain[p][k].s = chain[p][i].s PROVE FALSE
      <4>1. chain[p][i].waits
        BY <1>0, <3>3 DEF ChainInv, LaterSavesWait
      <4>2. k \in 1..(i - 1)
        BY <3>2, <3>3
      <4> QED
        BY <3>1, <3>3, <4>1, <4>2
    <3> QED
      BY <3>3
  <2>9. ChainInv'
    <3>1. ChainIsQueued' /\ LaterSavesWait'
      BY <1>0, <2>2, <2>7 DEF ChainInv, ChainIsQueued, LaterSavesWait
    <3>2. SavesKeepTheirOrder'
      BY <1>0, <2>7, <2>8 DEF ChainInv, SavesKeepTheirOrder
    <3> QED
      BY <3>1, <3>2 DEF ChainInv
  <2> QED
    BY <1>0, <1>b, <2>2, <2>6, <2>9 DEF ChainStep
<1>2. ASSUME NEW p \in Clients, NEW i \in DOMAIN chain[p], RenameTmpFile(p, i) PROVE ChainStep /\ RestStep
  <2> DEFINE s == chain[p][i].s
             d == chain[p][i].data
  <2>1. s \in Sessions /\ d \in Content
    <3>1. chain[p][i] \in SaveCall
      BY <1>0
    <3> QED
      BY <3>1 DEF SaveCall
  <2>2. /\ files' = [files EXCEPT ![s] = d] /\ mtime' = [mtime EXCEPT ![s] = 0]
        /\ task' = Overtaken(s) /\ Settle(p, i)
    BY <1>2 DEF RenameTmpFile
  <2>3. ChainStep
    BY <1>0, <2>2, SettleKeepsChain DEF ChainStep
  <2> HIDE DEF s, d
  <2>4. /\ files' \in [Sessions -> Content \cup {Missing}] /\ mtime' \in [Sessions -> Ages]
        /\ \A t \in Sessions : t # s => files'[t] = files[t] /\ mtime'[t] = mtime[t]
    BY <1>0, <2>1, <2>2 DEF RestTyped, Ages
  <2>5. \A t \in Sessions : t # s => /\ t \in Present' <=> t \in Present
                                    /\ Cutoff(t)' = Cutoff(t)
    BY <2>4 DEF Present, Cutoff
  <2>6. /\ task' \in [Clients -> Tasks]
        /\ \A q \in Clients :
             /\ task'[q].kind = task[q].kind
             /\ task[q].kind \in {"deleteTrash", "stat", "prune"} =>
                  task'[q].todo = task[q].todo /\ task'[q].saved = task[q].saved \cup ({s} \cap task[q].todo)
             /\ task[q].kind = "deleteTrash" => task'[q].promised = task[q].promised \ {s}
             /\ task[q].kind = "stat" => task'[q].old = task[q].old
    BY <1>0, <2>1, <2>2, OvertakenTasks
  <2>7. ASSUME NEW q \in Clients PROVE Judged(q)'
    <3>1. Judged(q) /\ Present' \subseteq Sessions
      BY <1>0 DEF Present
    <3> QED
      BY <2>4, <2>5, <2>6, <3>1 DEF Judged
  <2> QED
    BY <2>3, <2>4, <2>6, <2>7 DEF RestStep, RestTyped
<1>3. ASSUME NEW p \in Clients, NEW i \in DOMAIN chain[p], StoreSaveFails(p, i) PROVE ChainStep /\ RestStep
  BY <1>0, <1>3, <1>b, SettleKeepsChain DEF StoreSaveFails, ChainStep
<1>4. ASSUME NEW p \in Clients, NEW s \in Sessions, RunSaves(p, s) PROVE ChainStep /\ RestStep
  <2>1. PICK b \in BOOLEAN : Enqueue(p, s, [trashed |-> FALSE, summarized |-> b])
    BY <1>4 DEF RunSaves
  <2>2. [trashed |-> FALSE, summarized |-> b] \in Content /\ UNCHANGED <<files, mtime, task>>
    BY <1>4 DEF RunSaves, Content
  <2> QED
    BY <1>0, <1>b, <2>1, <2>2, EnqueueKeepsChain DEF ChainStep
<1>5. ASSUME NEW p \in Clients, NEW s \in Sessions, LoadRaw(p, s) PROVE ChainStep /\ RestStep
  <2>1. PICK kind \in {"trash", "restore"} :
          task' = [task EXCEPT ![p] = [kind |-> kind, s |-> s, summarized |-> files[s].summarized]]
    BY <1>5 DEF LoadRaw
  <2>2. files[s] \in Content /\ UNCHANGED <<files, mtime, chain, queued>>
    BY <1>0, <1>5 DEF LoadRaw, Present, RestTyped
  <2> DEFINE t == [kind |-> kind, s |-> s, summarized |-> files[s].summarized]
  <2>3. t \in Tasks /\ t.kind = kind
    BY <2>2 DEF Tasks, LoadTasks, Content
  <2> HIDE DEF t
  <2>4. Judged(p)'
    BY <1>0, <2>1, <2>3 DEF Judged, RestTyped, t
  <2> QED
    BY <1>0, <1>a, <2>1, <2>2, <2>3, <2>4, TaskChanges DEF RestStep, RestTyped, t
<1>6. ASSUME NEW p \in Clients, SaveBack(p) PROVE ChainStep /\ RestStep
  <2>1. task[p] \in LoadTasks /\ UNCHANGED <<files, mtime>> /\ task' = [task EXCEPT ![p] = NoRequest]
    BY <1>0, <1>6, TaskKinds DEF SaveBack
  <2>2. /\ task[p].s \in Sessions
        /\ [trashed |-> task[p].kind = "trash", summarized |-> task[p].summarized] \in Content
    BY <2>1 DEF LoadTasks, Content
  <2>3. ChainStep
    BY <1>0, <1>6, <2>2, EnqueueKeepsChain DEF SaveBack, ChainStep
  <2>4. NoRequest \in Tasks /\ NoRequest.kind = "idle"
    BY DEF Tasks, NoRequest
  <2>5. Judged(p)'
    BY <1>0, <2>1, <2>4 DEF Judged, RestTyped
  <2> QED
    BY <1>0, <2>1, <2>3, <2>4, <2>5, TaskChanges DEF RestStep, RestTyped
<1>7. ASSUME NEW p \in Clients, NEW s \in Sessions, Delete(p, s) PROVE ChainStep /\ RestStep
  <2>1. UnlinkFile(s) /\ UNCHANGED <<chain, queued, task>>
    BY <1>7 DEF Delete
  <2>2. task' \in [Clients -> Tasks]
    BY <1>0, <2>1 DEF RestTyped
  <2> QED
    BY <1>0, <1>a, <2>1, <2>2, UnlinkKeepsJudged DEF RestStep, RestTyped
<1>8. ASSUME NEW p \in Clients, ListTrash(p) PROVE ChainStep /\ RestStep
  <2>1. PICK page \in Pages :
          task' = [task EXCEPT ![p] =
                    [kind |-> "deleteTrash", todo |-> page \cap Trashed, saved |-> {},
                     promised |-> IF Cardinality(Present) <= PageSize THEN Trashed ELSE page \cap Trashed]]
    BY <1>8 DEF ListTrash
  <2>2. UNCHANGED <<files, mtime, chain, queued>>
    BY <1>8 DEF ListTrash
  <2>3. Cardinality(Present) <= PageSize => page = Present
    <3>1. IsFiniteSet(Present)
      BY FileStoreAssumption, FS_Subset DEF Present
    <3>2. page \subseteq Present /\ IsFiniteSet(page) /\ Cardinality(page) <= Cardinality(Present)
          /\ (Cardinality(page) = Cardinality(Present) => page = Present)
      BY <3>1, FS_Subset DEF Pages
    <3>3. Cardinality(page) \in Nat /\ Cardinality(Present) \in Nat /\ PageSize \in Nat
      BY <3>1, <3>2, FS_CardinalityType, FileStoreAssumption
    <3> QED
      BY <3>2, <3>3 DEF Pages
  <2> DEFINE promise == IF Cardinality(Present) <= PageSize THEN Trashed ELSE page \cap Trashed
             t == [kind |-> "deleteTrash", todo |-> page \cap Trashed, saved |-> {}, promised |-> promise]
  <2>4. promise \subseteq page \cap Trashed /\ page \cap Trashed \subseteq Sessions
    BY <2>3 DEF Trashed, Present
  <2> HIDE DEF promise
  <2>5. t \in Tasks /\ t.kind = "deleteTrash" /\ t.todo = page \cap Trashed /\ t.saved = {}
        /\ t.promised = promise
    BY <2>4 DEF Tasks, TrashTasks
  <2>5a. task' = [task EXCEPT ![p] = t]
    BY <2>1 DEF promise
  <2> HIDE DEF t
  <2>6. task'[p] = t
    BY <1>0, <2>5a DEF RestTyped
  <2>7. Judged(p)'
    BY <2>2, <2>4, <2>5, <2>6 DEF Judged, Trashed, Present
  <2> QED
    BY <1>0, <1>a, <2>2, <2>5, <2>5a, <2>7, TaskChanges DEF RestStep, RestTyped
<1>9. ASSUME NEW p \in Clients, NEW s \in Sessions, StatSession(p, s) PROVE ChainStep /\ RestStep
  <2> DEFINE t == [kind |-> "stat", todo |-> {s}, old |-> mtime[s], saved |-> {}]
  <2>1. task' = [task EXCEPT ![p] = t] /\ UNCHANGED <<files, mtime, chain, queued>>
    BY <1>9 DEF StatSession
  <2>2. mtime[s] \in Ages
    BY <1>0 DEF RestTyped
  <2>3. t \in Tasks /\ t.kind = "stat" /\ t.todo = {s} /\ t.old = mtime[s] /\ t.saved = {}
    BY <2>2 DEF Tasks, PruneTasks
  <2> HIDE DEF t
  <2>4. task'[p] = t
    BY <1>0, <2>1 DEF RestTyped
  <2>5. Judged(p)'
    BY <2>1, <2>2, <2>3, <2>4 DEF Judged, Ages
  <2> QED
    BY <1>0, <1>a, <2>1, <2>3, <2>5, TaskChanges DEF RestStep, RestTyped
<1>10. ASSUME NEW p \in Clients, ReadFlag(p) PROVE ChainStep /\ RestStep
  <2>1. task[p] \in PruneTasks /\ UNCHANGED <<files, mtime, chain, queued>>
    BY <1>0, <1>10, TaskKinds DEF ReadFlag
  <2>2. PICK s \in task[p].todo :
          task' = [task EXCEPT ![p] = IF task[p].old > Cutoff(s)
                                        THEN [@ EXCEPT !.kind = "prune"] ELSE NoRequest]
    BY <1>10 DEF ReadFlag
  <2>3. CASE ~(task[p].old > Cutoff(s))
    <3>1. task' = [task EXCEPT ![p] = NoRequest]
      BY <2>2, <2>3
    <3>2. NoRequest \in Tasks /\ NoRequest.kind = "idle"
      BY DEF Tasks, NoRequest
    <3>3. Judged(p)'
      BY <1>0, <3>1, <3>2 DEF Judged, RestTyped
    <3> QED
      BY <1>0, <1>a, <2>1, <3>1, <3>2, <3>3, TaskChanges DEF RestStep, RestTyped
  <2>4. CASE task[p].old > Cutoff(s)
    <3> DEFINE t == [task[p] EXCEPT !.kind = "prune"]
    <3>1. task' = [task EXCEPT ![p] = t]
      BY <2>2, <2>4
    <3>2. t \in Tasks /\ t.kind = "prune" /\ t.todo = task[p].todo /\ t.saved = task[p].saved
      BY <2>1 DEF Tasks, PruneTasks
    <3> HIDE DEF t
    <3>3. task'[p] = t
      BY <1>0, <3>1 DEF RestTyped
    <3>4. \A r \in (task[p].todo \cap Present) \ task[p].saved : mtime[r] > Cutoff(r)
      <4>1. \A r \in task[p].todo : r = s
        BY <1>0, <1>10, <2>2 DEF Judged, ReadFlag
      <4>2. \A r \in (task[p].todo \cap Present) \ task[p].saved : mtime[r] >= task[p].old
        BY <1>0, <1>10 DEF Judged, ReadFlag
      <4>3. task[p].old \in 0..2 /\ Cutoff(s) \in {0, 1} /\ \A r \in Present : mtime[r] \in 0..2
        BY <1>0, <2>1 DEF PruneTasks, Ages, Cutoff, RestTyped, Present
      <4> QED
        BY <2>4, <4>1, <4>2, <4>3
    <3>5. Judged(p)'
      BY <2>1, <3>2, <3>3, <3>4 DEF Judged, Present, Cutoff
    <3> QED
      BY <1>0, <1>a, <2>1, <3>1, <3>2, <3>5, TaskChanges DEF RestStep, RestTyped
  <2> QED
    BY <2>3, <2>4
<1>11. ASSUME NEW p \in Clients, NEW s \in Sessions, Unlinks(p, s) PROVE ChainStep /\ RestStep
  <2> DEFINE t == [task[p] EXCEPT !.todo = @ \ {s}, !.saved = @ \ {s}]
  <2>1. /\ UnlinkFile(s) /\ UNCHANGED <<chain, queued>>
        /\ task' = [task EXCEPT ![p].todo = @ \ {s}, ![p].saved = @ \ {s}]
        /\ task[p].kind \in {"deleteTrash", "prune"}
    BY <1>11 DEF Unlinks
  <2>2. task[p] \in TrashTasks \cup PruneTasks
    BY <1>0, <2>1, TaskKinds
  <2>3. task'[p] = t /\ task' \in [Clients -> {task'[p]} \cup Tasks] /\ \A q \in Clients : q # p => task'[q] = task[q]
    BY <1>0, <2>1 DEF RestTyped
  <2>4. /\ t \in Tasks /\ t.kind = task[p].kind /\ t.todo = task[p].todo \ {s}
        /\ t.saved = task[p].saved \ {s} /\ (task[p].kind = "deleteTrash" => t.promised = task[p].promised)
    <3>1. CASE task[p] \in TrashTasks
      BY <3>1 DEF TrashTasks, Tasks
    <3>2. CASE task[p] \in PruneTasks
      BY <3>2 DEF PruneTasks, Tasks
    <3> QED
      BY <2>2, <3>1, <3>2
  <2> HIDE DEF t
  <2>5. task' \in [Clients -> Tasks]
    BY <2>3, <2>4
  <2> QED
    BY <1>0, <1>a, <2>1, <2>3, <2>4, <2>5, UnlinkKeepsJudged DEF RestStep, RestTyped
<1>12. ASSUME NEW p \in Clients, Reports(p) PROVE ChainStep /\ RestStep
  <2>1. task' = [task EXCEPT ![p] = NoRequest] /\ UNCHANGED <<files, mtime, chain, queued>>
    BY <1>12 DEF Reports
  <2>2. NoRequest \in Tasks /\ NoRequest.kind = "idle"
    BY DEF Tasks, NoRequest
  <2>3. Judged(p)'
    BY <1>0, <2>1, <2>2 DEF Judged, RestTyped
  <2> QED
    BY <1>0, <1>a, <2>1, <2>2, <2>3, TaskChanges DEF RestStep, RestTyped
<1>13. ASSUME NEW p \in Clients, ProcessDies(p) PROVE ChainStep /\ RestStep
  <2>1. /\ task' = [task EXCEPT ![p] = NoRequest] /\ UNCHANGED <<files, mtime>>
        /\ chain' = [chain EXCEPT ![p] = <<>>] /\ queued' = [queued EXCEPT ![p] = {}]
    BY <1>13 DEF ProcessDies
  <2>2. NoRequest \in Tasks /\ NoRequest.kind = "idle"
    BY DEF Tasks, NoRequest
  <2>3. Judged(p)'
    BY <1>0, <2>1, <2>2 DEF Judged, RestTyped
  <2>4. /\ chain' \in [Clients -> Seq(SaveCall)] /\ queued' \in [Clients -> SUBSET Sessions]
        /\ chain'[p] = <<>> /\ \A q \in Clients : q # p => chain'[q] = chain[q] /\ queued'[q] = queued[q]
    BY <1>0, <2>1
  <2>5. ChainInv'
    <3>1. DOMAIN chain'[p] = {}
      BY <2>4
    <3>2. ASSUME NEW q \in Clients, NEW k \in DOMAIN chain'[q]
          PROVE  q # p /\ chain'[q] = chain[q] /\ queued'[q] = queued[q]
      BY <2>4, <3>1
    <3> QED
      BY <1>0, <3>2 DEF ChainInv, ChainIsQueued, LaterSavesWait, SavesKeepTheirOrder
  <2> QED
    BY <1>0, <2>1, <2>2, <2>3, <2>4, <2>5, TaskChanges DEF RestStep, RestTyped, ChainStep
<1>14. CASE FilesAge
  <2>1. /\ mtime' \in [Sessions -> Ages] /\ \A s \in Sessions : mtime'[s] >= mtime[s]
        /\ UNCHANGED <<files, chain, queued, task>>
    <3>1. mtime' = [s \in Sessions |-> IF s \in Present /\ mtime[s] < 2 THEN mtime[s] + 1 ELSE mtime[s]]
      BY <1>14 DEF FilesAge
    <3>2. mtime \in [Sessions -> 0..2]
      BY <1>0 DEF RestTyped, Ages
    <3> HIDE DEF Present
    <3>3. ASSUME NEW s \in Sessions PROVE mtime'[s] \in 0..2 /\ mtime'[s] >= mtime[s]
      BY <3>1, <3>2
    <3> QED
      BY <1>14, <3>1, <3>3 DEF FilesAge, Ages
  <2>2. ASSUME NEW q \in Clients PROVE Judged(q)'
    <3>1. Judged(q) /\ Present' = Present /\ \A s \in Sessions : Cutoff(s)' = Cutoff(s) /\ Cutoff(s) \in {0, 1}
      BY <1>0, <2>1 DEF Present, Cutoff
    <3>2. \A s \in Sessions : mtime[s] \in 0..2 /\ mtime'[s] \in 0..2
      BY <1>0, <2>1 DEF RestTyped, Ages
    <3>3. task[q].kind = "stat" => task[q].old \in 0..2
      BY <1>0, TaskKinds DEF PruneTasks, Ages
    <3>4. Present \subseteq Sessions
      BY DEF Present
    <3> QED
      BY <2>1, <3>1, <3>2, <3>3, <3>4 DEF Judged
  <2> QED
    BY <1>0, <1>a, <2>1, <2>2 DEF RestStep, RestTyped
<1>15. CASE UNCHANGED fsVars
  BY <1>15, <1>a, <1>b DEF fsVars
<1> QED
  BY <1>1, <1>2, <1>3, <1>4, <1>5, <1>6, <1>7, <1>8, <1>9, <1>10, <1>11, <1>12, <1>13, <1>14,
     <1>15 DEF StoreNext

\* For any number of processes, sessions and saves: saves of a session are written in their
\* order, removals spare what is live, and deleteTrash leaves nothing of what it had to
\* remove. An entry of the map stays as long as a save of its session is under way.
THEOREM FilesInvariance == StoreSpec => []FilesInv
  BY FilesInitInv, FilesStep, PTL DEF StoreSpec

-----------------------------------------------------------------------------
(***************************************************************************)
(* The configuration file (ConfigFile).                                    *)
(***************************************************************************)

Whole == SUBSET (Savers \cup {Hidden})

CfgTyped ==
  /\ doc \in Docs
  /\ tmpDoc \in [Editors -> SUBSET Docs]
  /\ \A p \in Editors : \A x, y \in tmpDoc[p] : x = y
  /\ saving \in [Savers -> [at : {"idle", "asking", "writing", "filling", "renaming", "ok", "error"},
                            seen : Whole]]
  /\ cached \in [content : Docs, current : BOOLEAN]
  /\ loading \in [Loaders -> {"idle", "current", "older"}]
  /\ given \in [Loaders -> BOOLEAN]
  /\ excused \subseteq {"overlap", "shared", "broken", "reset"}

\* What is cached as current is what the file holds.
CacheIsDoc == cached.current => cached.content = doc

\* As long as no two requests share the temporary file, it is of one save, and holds what
\* that save has written.
TmpContent(s) == IF SaveAt(s, "filling") THEN Torn ELSE saving[s].seen \cup {s}
TmpOf(s) ==
  /\ tmpDoc[ProcessFor(s)] = {TmpContent(s)}
  /\ \A r \in Savers : HasTmp(r) /\ ProcessFor(r) = ProcessFor(s) => r = s
TmpIsOwn == "shared" \notin excused => \A s \in Savers : HasTmp(s) => TmpOf(s)

\* As long as no excuse is recorded, saves do not overlap, and each has read what was
\* saved before.
SavesAlone ==
  excused = {} =>
    \A s \in Savers : Saves(s) =>
      /\ {Hidden} \cup {r \in Savers : SaveAt(r, "ok")} \subseteq saving[s].seen
      /\ \A r \in Savers : Saves(r) => r = s

CfgInv == CfgTyped /\ CacheIsDoc /\ TmpIsOwn /\ SavesAlone /\ SavesKeepTheFile /\ LoadsAreCurrent

\* The types in a form that provers can use: a temporary file has one content at most.
LEMMA CfgTypedIsTypeOK == CfgTyped => CfgTypeOK
<1> SUFFICES ASSUME CfgTyped PROVE CfgTypeOK
  OBVIOUS
<1>1. ASSUME NEW p \in Editors PROVE tmpDoc[p] \subseteq Docs /\ Cardinality(tmpDoc[p]) <= 1
  <2>1. CASE tmpDoc[p] = {}
    BY <2>1, FS_EmptySet
  <2>2. CASE \E x \in Docs : tmpDoc[p] = {x}
    BY <2>2, FS_Singleton
  <2> QED
    BY <2>1, <2>2 DEF CfgTyped
<1> QED
  BY <1>1 DEF CfgTyped, CfgTypeOK, Whole, Docs

\* A document is torn or whole.
LEMMA WholeIsNotTorn ==
  /\ Whole \subseteq Docs /\ Torn \notin Whole /\ Torn \in Docs
  /\ \A x \in Docs : x # Torn => x \in Whole
<1>1. Cut \in Torn /\ Cut \notin Savers \cup {Hidden}
  BY ConfigAssumption DEF Torn
<1>2. Torn \notin Whole
  BY <1>1 DEF Whole
<1>3. Docs = Whole \cup {Torn}
  BY DEF Whole, Docs
<1> QED
  BY <1>2, <1>3

\* Every save is made by a process that has a temporary file.
LEMMA EditorOf == \A s \in Savers : ProcessFor(s) \in Editors
BY DEF ProcessFor, Editors, Savers

\* A whole document is told from a torn one by its content.
LEMMA DocTyped ==
  ASSUME CfgTyped, NEW x \in Docs, DocBecomes(x) \/ SameDoc
  PROVE  /\ doc' \in Docs
         /\ cached' \in [content : Docs, current : BOOLEAN]
         /\ loading' \in [Loaders -> {"idle", "current", "older"}]
         /\ cached'.content = cached.content
         /\ cached'.current => cached.current /\ doc' = doc
<1>1. CASE SameDoc
  BY <1>1 DEF SameDoc, CfgTyped
<1>2. CASE DocBecomes(x)
  <2>1. cached' \in [content : Docs, current : BOOLEAN] /\ cached'.content = cached.content
        /\ cached'.current = FALSE
    BY <1>2 DEF CfgTyped, DocBecomes
  <2>2. loading' \in [Loaders -> {"idle", "current", "older"}]
    BY <1>2 DEF CfgTyped, DocBecomes
  <2> QED
    BY <1>2, <2>1, <2>2 DEF DocBecomes
<1> QED
  BY <1>1, <1>2

\* A file as the program may find it satisfies the invariant.
LEMMA CfgInitInv == CfgInit => CfgInv
<1> SUFFICES ASSUME CfgInit PROVE CfgInv
  OBVIOUS
<1> USE DEF CfgInit
<1>1. {} \in Whole /\ {Hidden} \in Whole /\ {Hidden} # Torn
  BY WholeIsNotTorn DEF Whole
<1>2. CfgTyped
  BY <1>1, WholeIsNotTorn DEF CfgTyped
<1>3. TmpIsOwn /\ SavesAlone /\ SavesKeepTheFile
  BY <1>1 DEF TmpIsOwn, TmpOf, TmpContent, SavesAlone, SavesKeepTheFile, HasTmp, Saves, SaveAt
<1> QED
  BY <1>2, <1>3 DEF CfgInv, CacheIsDoc, LoadsAreCurrent

\* Each step of a save, of the wizard and of a load keeps it.
LEMMA CfgStep == CfgInv /\ [CfgNext]_cfgVars => CfgInv'
<1> SUFFICES ASSUME CfgInv, [CfgNext]_cfgVars PROVE CfgInv'
  OBVIOUS
<1> USE ConfigAssumption, WholeIsNotTorn DEF CfgInv
<1>1. ASSUME NEW s \in Savers, ReadDoc(s) PROVE CfgInv'
  <2> USE <1>1 DEF ReadDoc, SameDoc
  <2>0. (IF doc = Torn THEN {} ELSE doc) \in Whole
    BY DEF CfgTyped, Whole
  <2>1. CfgTyped'
    BY <2>0 DEF CfgTyped
  <2>2. CacheIsDoc' /\ LoadsAreCurrent'
    BY DEF CacheIsDoc, LoadsAreCurrent
  <2>3. TmpIsOwn'
    BY DEF CfgTyped, TmpIsOwn, TmpOf, TmpContent, HasTmp, SaveAt
  <2>4. SavesAlone' /\ SavesKeepTheFile'
    BY DEF CfgTyped, SavesAlone, SavesKeepTheFile, Saves, SaveAt
  <2> QED
    BY <2>1, <2>2, <2>3, <2>4
<1>2. ASSUME NEW s \in Savers, OpenTmp(s) PROVE CfgInv'
  <2> USE <1>2 DEF OpenTmp, SameDoc, SaveTo
  <2>1. CfgTyped'
    BY DEF CfgTyped, ProcessFor, Editors, Savers
  <2>2. CacheIsDoc' /\ LoadsAreCurrent'
    BY DEF CacheIsDoc, LoadsAreCurrent
  <2>3. TmpIsOwn'
    BY DEF CfgTyped, TmpIsOwn, TmpOf, TmpContent, HasTmp, SaveAt, ProcessFor, Editors, Savers
  <2>4. SavesAlone' /\ SavesKeepTheFile'
    BY DEF CfgTyped, SavesAlone, SavesKeepTheFile, Saves, SaveAt
  <2> QED
    BY <2>1, <2>2, <2>3, <2>4
<1>3. ASSUME NEW s \in Savers, FillTmp(s) PROVE CfgInv'
  <2> DEFINE x == saving[s].seen \cup {s}
             p == ProcessFor(s)
  <2>1. /\ x \in Docs /\ x \in Whole
        /\ p \in Editors
    BY DEF CfgTyped, Whole, ProcessFor, Editors, Savers
  <2>2. /\ SaveAt(s, "filling") /\ saving' = [saving EXCEPT ![s].at = "renaming"]
        /\ UNCHANGED <<given, excused>>
        /\ \/ tmpDoc[p] # {} /\ tmpDoc' = [tmpDoc EXCEPT ![p] = {x}] /\ SameDoc
           \/ tmpDoc[p] = {} /\ (DocBecomes(x) \/ SameDoc) /\ UNCHANGED tmpDoc
    BY <1>3 DEF FillTmp, SaveTo
  <2> HIDE DEF x, p
  <2>3. CfgTyped'
    <3>1. tmpDoc' \in [Editors -> SUBSET Docs] /\ \A q \in Editors : \A y, z \in tmpDoc'[q] : y = z
      BY <2>1, <2>2 DEF CfgTyped
    <3> QED
      BY <2>1, <2>2, <3>1, DocTyped DEF CfgTyped, SameDoc, DocBecomes
  <2>4. CacheIsDoc' /\ LoadsAreCurrent'
    BY <2>1, <2>2, DocTyped DEF CacheIsDoc, LoadsAreCurrent, SameDoc, DocBecomes
  <2>5. TmpIsOwn'
    <3> SUFFICES ASSUME "shared" \notin excused, NEW r \in Savers, HasTmp(r)'
                 PROVE  TmpOf(r)'
      BY <2>2 DEF TmpIsOwn
    <3>1. \A q \in Savers : HasTmp(q)' <=> HasTmp(q)
      BY <2>2 DEF CfgTyped, HasTmp, SaveAt
    <3>2. TmpOf(r) /\ TmpOf(s)
      BY <2>2, <3>1 DEF TmpIsOwn, TmpOf, TmpContent, HasTmp, SaveAt
    <3>3. CASE r = s
      <4>1. TmpContent(s)' = x
        BY <2>2 DEF CfgTyped, TmpContent, SaveAt, x
      <4>2. tmpDoc'[p] = {x}
        BY <2>1, <2>2, <3>2 DEF CfgTyped, TmpOf, p
      <4> QED
        BY <3>1, <3>2, <3>3, <4>1, <4>2 DEF TmpOf, p
    <3>4. CASE r # s
      <4>1. ProcessFor(r) # p
        BY <3>1, <3>2, <3>4 DEF TmpOf, p
      <4>2. TmpContent(r)' = TmpContent(r)
        BY <2>2, <3>4 DEF CfgTyped, TmpContent, SaveAt
      <4>3. tmpDoc'[ProcessFor(r)] = tmpDoc[ProcessFor(r)]
        BY <2>1, <2>2, <4>1, EditorOf DEF CfgTyped
      <4> QED
        BY <3>1, <3>2, <4>2, <4>3 DEF TmpOf
    <3> QED
      BY <3>3, <3>4
  <2>6. tmpDoc[p] # {} \/ "shared" \in excused
    BY <2>2 DEF TmpIsOwn, TmpOf, TmpContent, HasTmp, SaveAt, p
  <2>7. SavesAlone' /\ SavesKeepTheFile'
    BY <2>1, <2>2, <2>6 DEF CfgTyped, SavesAlone, SavesKeepTheFile, Saves, SaveAt, SameDoc, DocBecomes
  <2> QED
    BY <2>3, <2>4, <2>5, <2>7
<1>4. ASSUME NEW s \in Savers, RenameTmp(s) PROVE CfgInv'
  <2> DEFINE p == ProcessFor(s)
  <2>1. p \in Editors
    BY DEF ProcessFor, Editors, Savers
  <2>2. CASE tmpDoc[p] = {}
    <3>1. SaveAt(s, "renaming") /\ SaveTo(s, "error") /\ UNCHANGED <<tmpDoc, given, excused>> /\ SameDoc
      BY <1>4, <2>2 DEF RenameTmp
    <3>2. CfgTyped'
      BY <3>1 DEF CfgTyped, SaveTo, SameDoc
    <3> QED
      BY <3>1, <3>2 DEF CfgTyped, CacheIsDoc, LoadsAreCurrent, TmpIsOwn, TmpOf, TmpContent, SavesAlone, SavesKeepTheFile, HasTmp,
         Saves, SaveAt, SaveTo, SameDoc
  <2>3. ASSUME tmpDoc[p] # {} PROVE CfgInv'
    <3>1. PICK x \in Docs : x \in tmpDoc[p] /\ tmpDoc[p] = {x}
      BY <2>1, <2>3 DEF CfgTyped
    <3>2. /\ SaveAt(s, "renaming") /\ saving' = [saving EXCEPT ![s].at = "ok"]
          /\ tmpDoc' = [tmpDoc EXCEPT ![p] = {}]
          /\ doc' = x
          /\ cached' = [cached EXCEPT !.current = FALSE]
          /\ loading' = [l \in Loaders |-> IF loading[l] = "current" THEN "older" ELSE loading[l]]
          /\ UNCHANGED <<given, excused>>
      BY <1>4, <2>3, <3>1 DEF RenameTmp, SaveTo, DocBecomes
    <3>3. "shared" \notin excused => x = saving[s].seen \cup {s} /\ x # Torn
      <4>1. saving[s].seen \cup {s} \in Whole
        BY DEF CfgTyped, Whole
      <4>2. "shared" \notin excused => tmpDoc[p] = {saving[s].seen \cup {s}}
        BY <3>2 DEF TmpIsOwn, TmpOf, TmpContent, HasTmp, SaveAt
      <4> QED
        BY <3>1, <4>1, <4>2
    <3> HIDE DEF p
    <3>4. CfgTyped'
      <4>1. DocBecomes(x)
        BY <3>2 DEF DocBecomes
      <4>2. tmpDoc' \in [Editors -> SUBSET Docs] /\ \A q \in Editors : \A y, z \in tmpDoc'[q] : y = z
        BY <2>1, <3>2 DEF CfgTyped
      <4> QED
        BY <3>2, <4>1, <4>2, DocTyped DEF CfgTyped
    <3>5. CacheIsDoc' /\ LoadsAreCurrent'
      BY <3>2 DEF CfgTyped, CacheIsDoc, LoadsAreCurrent
    <3>6. TmpIsOwn'
      BY <3>2 DEF CfgTyped, TmpIsOwn, TmpOf, TmpContent, HasTmp, SaveAt, p
    <3>7. SavesAlone' /\ SavesKeepTheFile'
      BY <3>2, <3>3 DEF CfgTyped, SavesAlone, SavesKeepTheFile, Saves, SaveAt
    <3> QED
      BY <3>4, <3>5, <3>6, <3>7
  <2> QED
    BY <2>2, <2>3
<1>5. ASSUME NEW s \in Savers, SaveFails(s) PROVE CfgInv'
  <2> USE <1>5 DEF SaveFails, SameDoc, SaveTo
  <2>1. CfgTyped'
    BY DEF CfgTyped
  <2>2. CacheIsDoc' /\ LoadsAreCurrent'
    BY DEF CacheIsDoc, LoadsAreCurrent
  <2>3. TmpIsOwn'
    BY DEF CfgTyped, TmpIsOwn, TmpOf, TmpContent, HasTmp, SaveAt
  <2>4. SavesAlone' /\ SavesKeepTheFile'
    BY DEF CfgTyped, SavesAlone, SavesKeepTheFile, Saves, SaveAt
  <2> QED
    BY <2>1, <2>2, <2>3, <2>4
<1>6. ASSUME NEW s \in Wizards, Answered(s) PROVE CfgInv'
  <2> USE <1>6 DEF Answered, SaveTo, SameDoc, Savers
  <2>1. CfgTyped'
    BY DEF CfgTyped, Whole
  <2>2. CacheIsDoc' /\ LoadsAreCurrent'
    BY DEF CacheIsDoc, LoadsAreCurrent
  <2>3. TmpIsOwn'
    BY DEF CfgTyped, TmpIsOwn, TmpOf, TmpContent, HasTmp, SaveAt
  <2>4. SavesAlone' /\ SavesKeepTheFile'
    BY DEF CfgTyped, SavesAlone, SavesKeepTheFile, Saves, SaveAt
  <2> QED
    BY <2>1, <2>2, <2>3, <2>4
<1>9. ASSUME NEW s \in Wizards, ResetDoc(s) PROVE CfgInv'
  <2> USE <1>9 DEF ResetDoc, SameDoc, Savers
  <2>1. CfgTyped'
    BY DEF CfgTyped, Whole
  <2>2. CacheIsDoc' /\ LoadsAreCurrent'
    BY DEF CacheIsDoc, LoadsAreCurrent
  <2>3. TmpIsOwn'
    BY DEF CfgTyped, TmpIsOwn, TmpOf, TmpContent, HasTmp, SaveAt
  <2>4. SavesAlone' /\ SavesKeepTheFile'
    BY DEF CfgTyped, SavesAlone, SavesKeepTheFile, Saves, SaveAt
  <2> QED
    BY <2>1, <2>2, <2>3, <2>4
<1>7. ASSUME NEW l \in Loaders, StatDoc(l) \/ LoadDoc(l) PROVE CfgInv'
  <2>1. CfgTyped'
    <3>1. given' \in [Loaders -> BOOLEAN]
      BY <1>7, (cached.content = doc) \in BOOLEAN DEF StatDoc, LoadDoc, CfgTyped
    <3>2. cached' \in [content : Docs, current : BOOLEAN] /\ loading' \in [Loaders -> {"idle", "current", "older"}]
      <4>1. (loading[l] = "current") \in BOOLEAN
        OBVIOUS
      <4>2. CASE StatDoc(l)
        BY <4>2 DEF StatDoc, CfgTyped
      <4>3. CASE LoadDoc(l)
        BY <4>1, <4>3 DEF LoadDoc, CfgTyped
      <4> QED
        BY <1>7, <4>2, <4>3
    <3> QED
      BY <1>7, <3>1, <3>2 DEF StatDoc, LoadDoc, CfgTyped
  <2>2. CacheIsDoc' /\ LoadsAreCurrent'
    BY <1>7 DEF StatDoc, LoadDoc, CfgTyped, CacheIsDoc, LoadsAreCurrent
  <2>3. UNCHANGED <<doc, tmpDoc, saving, excused>>
    BY <1>7 DEF StatDoc, LoadDoc
  <2> QED
    BY <2>1, <2>2, <2>3 DEF TmpIsOwn, TmpOf, TmpContent, SavesAlone, SavesKeepTheFile, HasTmp, Saves, SaveAt
<1>8. CASE UNCHANGED cfgVars
  BY <1>8 DEF cfgVars, CfgTyped, CacheIsDoc, TmpIsOwn, TmpOf, TmpContent, SavesAlone, SavesKeepTheFile,
     LoadsAreCurrent, HasTmp, Saves, SaveAt
<1> QED
  BY <1>1, <1>2, <1>3, <1>4, <1>5, <1>6, <1>7, <1>8, <1>9 DEF CfgNext, RunWizard

\* For any number of requests, wizards and loads: the file is torn only after two requests
\* have shared the temporary file, a save is lost only if saves overlapped or the file was
\* reset or damaged, and a load is current. The content of the temporary file is that of
\* the save which owns it, and a save that overlaps with no other has read all that was
\* saved.
THEOREM CfgInvariance == CfgSpec => []CfgInv
BY CfgInitInv, CfgStep, PTL DEF CfgSpec

-----------------------------------------------------------------------------
(***************************************************************************)
(* The skill files and their cache (SkillFiles).                           *)
(***************************************************************************)

\* A key and a text that belong together, of a skill that was read without fail: with the
\* file's present mtime its present content, with the mtime of no file no skill, as long as
\* there is none, and of a directory that was not listed no skill ever.
Fits(x, n) ==
  /\ x.key[n] = "now" => n \in written /\ x.text[n] = "now"
  /\ x.key[n] = "missing" /\ n \notin written => x.text[n] = "none"
  /\ x.key[n] = "unlisted" => x.text[n] = "none"

KeptFits == kept.filled => \A n \in SkillNames \ missed : Fits(kept, n)

\* Of a file that did not change since the load began, a load knows the present mtime once
\* it has looked at it, and the present content once it has read it. What was not listed
\* has no file, and is not looked at.
LoadKnows(l, n) ==
  LET x == reading[l]
      seen == x.at = "read" \/ (x.at = "stat" /\ n \notin x.left)
  IN  /\ x.key[n] = "now" => n \in written
      /\ x.key[n] = "unlisted" =>
           /\ n \notin x.left /\ x.text[n] = "none"
           /\ x.at # "idle" /\ n \notin changed[l] => n \notin written
      /\ seen /\ x.key[n] # "unlisted" /\ n \notin changed[l] \cup missed => x.key[n] = KeyOf(n)
      /\ x.at = "read" /\ n \notin x.left \cup missed =>
           Fits(x, n) /\ (n \notin changed[l] => x.text[n] = TextOf(n))

SkillInv ==
  /\ SkillFilesTypeOK
  /\ KeptFits
  /\ \A l \in SkillLoads, n \in SkillNames : LoadKnows(l, n)
  /\ SkillsAreCurrent

\* Nothing is cached and nothing is read at first.
LEMMA SkillInitInv == SkillFilesInit => SkillInv
<1> SUFFICES ASSUME SkillFilesInit PROVE SkillInv
  OBVIOUS
<1> USE DEF SkillFilesInit, NotReading, NoKeys, NoTexts
<1>1. SkillFilesTypeOK
  BY DEF SkillFilesTypeOK, Keys, Texts
<1>2. KeptFits /\ SkillsAreCurrent
  BY DEF KeptFits, SkillsAreCurrent
<1>3. \A l \in SkillLoads, n \in SkillNames : LoadKnows(l, n)
  BY DEF LoadKnows
<1> QED
  BY <1>1, <1>2, <1>3 DEF SkillInv

\* What a load returns is what is in the files, if what it takes for each skill is.
LEMMA ServesCurrent ==
  ASSUME SkillInv, NEW l \in SkillLoads, NEW text, Serve(l, text),
         \A n \in SkillNames \ (changed[l] \cup missed) : text[n] = TextOf(n)
  PROVE  served' \in [SkillLoads -> SUBSET SkillNames] /\ SkillsAreCurrent'
BY DEF SkillInv, SkillFilesTypeOK, SkillsAreCurrent, Serve

SkillCaches == [filled : BOOLEAN, key : [SkillNames -> Keys], text : [SkillNames -> Texts]]
Readings == [at : {"idle", "stat", "read"}, left : SUBSET SkillNames,
             key : [SkillNames -> Keys], text : [SkillNames -> Texts]]

\* What a change to the file of n makes of a key and a text.
KeyAges(x, y, n) ==
  /\ y.key[n] = IF x.key[n] = "now" THEN "other" ELSE x.key[n]
  /\ y.text[n] = IF x.text[n] = "now" THEN "old" ELSE x.text[n]
  /\ \A m \in SkillNames \ {n} : y.key[m] = x.key[m] /\ y.text[m] = x.text[m]

\* What a change of a file makes of the cache ...
LEMMA OutdatedCache ==
  ASSUME NEW x \in SkillCaches, NEW n \in SkillNames
  PROVE  LET y == Outdated(x, n)
         IN  y \in SkillCaches /\ y.filled = x.filled /\ KeyAges(x, y, n)
<1> DEFINE y == Outdated(x, n)
<1>1. y \in SkillCaches /\ y.filled = x.filled
  BY DEF Outdated, SkillCaches, Keys, Texts
<1>2. y.key = [x.key EXCEPT ![n] = IF @ = "now" THEN "other" ELSE @]
  BY DEF Outdated, SkillCaches
<1>3. y.text = [x.text EXCEPT ![n] = IF @ = "now" THEN "old" ELSE @]
  BY DEF Outdated, SkillCaches
<1> HIDE DEF y
<1>4. KeyAges(x, y, n)
  BY <1>1, <1>2, <1>3 DEF KeyAges, SkillCaches
<1> QED
  BY <1>1, <1>4 DEF y

\* ... and of what a load has in hand.
LEMMA OutdatedReading ==
  ASSUME NEW x \in Readings, NEW n \in SkillNames
  PROVE  LET y == Outdated(x, n)
         IN  y \in Readings /\ y.at = x.at /\ y.left = x.left /\ KeyAges(x, y, n)
<1> DEFINE y == Outdated(x, n)
<1>1. y \in Readings /\ y.at = x.at /\ y.left = x.left
  BY DEF Outdated, Readings, Keys, Texts
<1>2. y.key = [x.key EXCEPT ![n] = IF @ = "now" THEN "other" ELSE @]
  BY DEF Outdated, Readings
<1>3. y.text = [x.text EXCEPT ![n] = IF @ = "now" THEN "old" ELSE @]
  BY DEF Outdated, Readings
<1> HIDE DEF y
<1>4. KeyAges(x, y, n)
  BY <1>1, <1>2, <1>3 DEF KeyAges, Readings
<1> QED
  BY <1>1, <1>4 DEF y

\* Changes of files and the steps of loads keep what is known of each file right.
LEMMA SkillStep == SkillInv /\ [SkillFilesNext]_skillVars => SkillInv'
<1> SUFFICES ASSUME SkillInv, [SkillFilesNext]_skillVars PROVE SkillInv'
  OBVIOUS
<1>0. /\ SkillFilesTypeOK /\ KeptFits /\ SkillsAreCurrent
      /\ kept \in SkillCaches /\ reading \in [SkillLoads -> Readings]
      /\ changed \in [SkillLoads -> SUBSET SkillNames]
      /\ written \subseteq SkillNames /\ missed \subseteq SkillNames
      /\ \A l \in SkillLoads, n \in SkillNames : LoadKnows(l, n)
  BY DEF SkillInv, SkillFilesTypeOK, SkillCaches, Readings
<1>1. ASSUME NEW n \in SkillNames, NEW there \in BOOLEAN, ChangeSkill(n, there) PROVE SkillInv'
  <2>1. /\ kept' \in SkillCaches /\ kept'.filled = kept.filled /\ KeyAges(kept, kept', n)
        /\ reading' \in [SkillLoads -> Readings]
        /\ \A l \in SkillLoads : /\ reading'[l].at = reading[l].at /\ reading'[l].left = reading[l].left
                                 /\ KeyAges(reading[l], reading'[l], n)
    BY <1>0, <1>1, OutdatedCache, OutdatedReading DEF ChangeSkill
  <2>2. /\ changed' \in [SkillLoads -> SUBSET SkillNames] /\ missed' \subseteq SkillNames
        /\ missed \subseteq missed' /\ written' \subseteq SkillNames
        /\ served' = served
        /\ written' = IF there THEN written \cup {n} ELSE written \ {n}
        /\ n \in written \/ there
        /\ \A l \in SkillLoads : reading[l].at # "idle" => changed'[l] = changed[l] \cup {n}
    BY <1>0, <1>1 DEF ChangeSkill
  <2>3. /\ n \notin written' /\ n \notin missed' /\ kept.key[n] = "missing" => kept.text[n] = "none"
        /\ \A l \in SkillLoads :
             n \notin written' /\ n \notin missed' /\ reading[l].key[n] = "missing" => reading[l].text[n] = "none"
    BY <1>0, <1>1 DEF ChangeSkill
  <2>4. SkillFilesTypeOK'
    BY <1>0, <2>1, <2>2 DEF SkillFilesTypeOK, SkillCaches, Readings
  <2>5. KeptFits'
    BY <1>0, <2>1, <2>2, <2>3 DEF KeptFits, Fits, KeyAges, SkillCaches, Keys
  <2>6. ASSUME NEW l \in SkillLoads, NEW m \in SkillNames PROVE LoadKnows(l, m)'
    <3>1. LoadKnows(l, m)
      BY <1>0
    <3>2. CASE m = n
      BY <1>0, <2>1, <2>2, <2>3, <3>1, <3>2 DEF LoadKnows, Fits, KeyAges, KeyOf, TextOf, Readings
    <3>3. CASE m # n
      BY <1>0, <2>1, <2>2, <3>1, <3>3 DEF LoadKnows, Fits, KeyAges, KeyOf, TextOf, Readings
    <3> QED
      BY <3>2, <3>3
  <2>7. SkillsAreCurrent'
    BY <1>0, <2>2 DEF SkillsAreCurrent
  <2> QED
    BY <2>4, <2>5, <2>6, <2>7 DEF SkillInv
<1>2. ASSUME NEW l \in SkillLoads, NEW dirs \in SUBSET SkillNames, BeginLoad(l, dirs) PROVE SkillInv'
  <2>1. /\ reading' \in [SkillLoads -> Readings]
        /\ \A k \in SkillLoads \ {l} : reading'[k] = reading[k]
        /\ reading'[l].at = "stat" /\ reading'[l].left = dirs /\ reading'[l].text = NoTexts
        /\ \A n \in SkillNames : reading'[l].key[n] = IF n \in dirs THEN "missing" ELSE "unlisted"
        /\ written \subseteq dirs
    BY <1>0, <1>2 DEF BeginLoad, Readings, NoTexts, Keys, Texts
  <2>2. SkillFilesTypeOK'
    BY <1>0, <1>2, <2>1 DEF BeginLoad, SkillFilesTypeOK, Readings
  <2>3. KeptFits' /\ SkillsAreCurrent'
    BY <1>0, <1>2 DEF BeginLoad, KeptFits, Fits, SkillsAreCurrent
  <2>4. ASSUME NEW k \in SkillLoads, NEW m \in SkillNames PROVE LoadKnows(k, m)'
    <3>1. LoadKnows(k, m)
      BY <1>0
    <3> QED
      BY <1>0, <1>2, <2>1, <3>1 DEF BeginLoad, LoadKnows, Fits, KeyOf, TextOf, NoKeys, NoTexts
  <2> QED
    BY <2>2, <2>3, <2>4 DEF SkillInv
<1>3. ASSUME NEW l \in SkillLoads, NEW n \in SkillNames, NEW fails \in BOOLEAN, StatSkill(l, n, fails)
      PROVE  SkillInv'
  <2>1. /\ reading' \in [SkillLoads -> Readings]
        /\ \A k \in SkillLoads \ {l} : reading'[k] = reading[k]
        /\ reading[l].at = "stat" /\ reading'[l].at = "stat" /\ reading'[l].left = reading[l].left \ {n}
        /\ reading'[l].key = [reading[l].key EXCEPT ![n] = IF fails THEN "missing" ELSE KeyOf(n)]
        /\ reading'[l].text = reading[l].text
        /\ n \in reading[l].left /\ (fails => n \in missed') /\ missed \subseteq missed'
    BY <1>0, <1>3 DEF StatSkill, Readings, KeyOf, Keys
  <2>2. SkillFilesTypeOK'
    BY <1>0, <1>3, <2>1 DEF StatSkill, SkillFilesTypeOK, Readings
  <2>3. KeptFits' /\ SkillsAreCurrent'
    BY <1>0, <1>3 DEF StatSkill, KeptFits, Fits, SkillsAreCurrent
  <2>4. ASSUME NEW k \in SkillLoads, NEW m \in SkillNames PROVE LoadKnows(k, m)'
    <3>1. LoadKnows(k, m)
      BY <1>0
    <3> QED
      BY <1>0, <1>3, <2>1, <3>1 DEF StatSkill, LoadKnows, Fits, KeyOf, TextOf, Readings
  <2> QED
    BY <2>2, <2>3, <2>4 DEF SkillInv
<1>4. ASSUME NEW l \in SkillLoads, NEW expired \in BOOLEAN, CompareKeys(l, expired) PROVE SkillInv'
  <2>1. /\ reading[l].at = "stat" /\ reading[l].left = {}
        /\ UNCHANGED <<written, kept, changed, missed>>
    BY <1>4 DEF CompareKeys
  <2>2. KeptFits'
    BY <1>0, <2>1 DEF KeptFits, Fits
  <2>3. CASE /\ kept.filled /\ kept.key = reading[l].key
             /\ Serve(l, kept.text) /\ reading' = [reading EXCEPT ![l] = NotReading]
    <3>1. ASSUME NEW n \in SkillNames \ (changed[l] \cup missed) PROVE kept.text[n] = TextOf(n)
      BY <1>0, <2>1, <2>3 DEF LoadKnows, KeptFits, Fits, KeyOf, TextOf
    <3>2. SkillFilesTypeOK' /\ SkillsAreCurrent'
      BY <1>0, <2>1, <2>3, <3>1, ServesCurrent
      DEF SkillFilesTypeOK, NotReading, NoKeys, NoTexts, Keys, Texts
    <3>3. ASSUME NEW k \in SkillLoads, NEW m \in SkillNames PROVE LoadKnows(k, m)'
      <4>1. LoadKnows(k, m)
        BY <1>0
      <4> QED
        BY <1>0, <2>1, <2>3, <4>1 DEF LoadKnows, Fits, KeyOf, TextOf, NotReading, NoKeys, NoTexts
    <3> QED
      BY <2>2, <3>2, <3>3 DEF SkillInv
  <2>4. CASE /\ reading' = [reading EXCEPT ![l].at = "read", ![l].left = Listed(reading[l].key)]
             /\ UNCHANGED served
    <3>1. /\ reading' \in [SkillLoads -> Readings]
          /\ \A k \in SkillLoads \ {l} : reading'[k] = reading[k]
          /\ reading'[l].at = "read" /\ reading'[l].left = Listed(reading[l].key)
          /\ reading'[l].key = reading[l].key /\ reading'[l].text = reading[l].text
      BY <1>0, <2>4 DEF Readings, Listed
    <3>2. SkillFilesTypeOK' /\ SkillsAreCurrent'
      BY <1>0, <2>1, <2>4, <3>1 DEF SkillFilesTypeOK, Readings, SkillsAreCurrent
    <3>3. ASSUME NEW k \in SkillLoads, NEW m \in SkillNames PROVE LoadKnows(k, m)'
      <4>1. LoadKnows(k, m)
        BY <1>0
      <4> QED
        BY <1>0, <2>1, <3>1, <4>1 DEF LoadKnows, Fits, KeyOf, TextOf, Listed
    <3> QED
      BY <2>2, <3>2, <3>3 DEF SkillInv
  <2> QED
    BY <1>4, <2>3, <2>4 DEF CompareKeys
<1>5. ASSUME NEW l \in SkillLoads, NEW n \in SkillNames, NEW fails \in BOOLEAN, ReadSkill(l, n, fails)
      PROVE  SkillInv'
  <2>1. /\ reading' \in [SkillLoads -> Readings]
        /\ \A k \in SkillLoads \ {l} : reading'[k] = reading[k]
        /\ reading[l].at = "read" /\ reading'[l].at = "read" /\ reading'[l].left = reading[l].left \ {n}
        /\ reading'[l].text = [reading[l].text EXCEPT ![n] = IF fails THEN "none" ELSE TextOf(n)]
        /\ reading'[l].key = reading[l].key
    BY <1>0, <1>5 DEF ReadSkill, Readings, TextOf, Texts
  <2>2. SkillFilesTypeOK'
    BY <1>0, <1>5, <2>1 DEF ReadSkill, SkillFilesTypeOK, Readings
  <2>3. KeptFits' /\ SkillsAreCurrent'
    BY <1>0, <1>5 DEF ReadSkill, KeptFits, Fits, SkillsAreCurrent
  <2>4. ASSUME NEW k \in SkillLoads, NEW m \in SkillNames PROVE LoadKnows(k, m)'
    <3>1. LoadKnows(k, m)
      BY <1>0
    <3> QED
      BY <1>0, <1>5, <2>1, <3>1 DEF ReadSkill, LoadKnows, Fits, KeyOf, TextOf, Readings
  <2> QED
    BY <2>2, <2>3, <2>4 DEF SkillInv
<1>6. ASSUME NEW l \in SkillLoads, StoreSkills(l) PROVE SkillInv'
  <2>1. ASSUME NEW n \in SkillNames \ (changed[l] \cup missed) PROVE reading[l].text[n] = TextOf(n)
    BY <1>0, <1>6 DEF StoreSkills, LoadKnows
  <2>2. SkillFilesTypeOK' /\ SkillsAreCurrent'
    BY <1>0, <1>6, <2>1, ServesCurrent
    DEF StoreSkills, SkillFilesTypeOK, NotReading, NoKeys, NoTexts, Keys, Texts
  <2>3. KeptFits'
    BY <1>0, <1>6 DEF StoreSkills, KeptFits, LoadKnows, Fits
  <2>4. ASSUME NEW k \in SkillLoads, NEW m \in SkillNames PROVE LoadKnows(k, m)'
    <3>1. LoadKnows(k, m)
      BY <1>0
    <3> QED
      BY <1>0, <1>6, <3>1 DEF StoreSkills, LoadKnows, Fits, KeyOf, TextOf, NotReading, NoKeys, NoTexts
  <2> QED
    BY <2>2, <2>3, <2>4 DEF SkillInv
<1>8. ASSUME NEW l \in SkillLoads, ListFails(l) PROVE SkillInv'
  <2>1. SkillFilesTypeOK' /\ KeptFits' /\ SkillsAreCurrent'
    BY <1>0, <1>8 DEF ListFails, SkillFilesTypeOK, KeptFits, Fits, SkillsAreCurrent
  <2>2. ASSUME NEW k \in SkillLoads, NEW m \in SkillNames PROVE LoadKnows(k, m)'
    <3>1. LoadKnows(k, m)
      BY <1>0
    <3> QED
      BY <1>0, <1>8, <3>1 DEF ListFails, LoadKnows, Fits, KeyOf, TextOf
  <2> QED
    BY <2>1, <2>2 DEF SkillInv
<1>7. CASE UNCHANGED skillVars
  BY <1>0, <1>7 DEF skillVars, SkillInv, SkillFilesTypeOK, KeptFits, LoadKnows, Fits, KeyOf, TextOf,
     SkillsAreCurrent
<1> QED
  BY <1>1, <1>2, <1>3, <1>4, <1>5, <1>6, <1>7, <1>8 DEF SkillFilesNext

\* For any skills and any number of loads: what a load returns of a skill was in its file
\* since the load began. The cache fits the files whose mtimes it has, and a load knows of
\* each file that did not change what is in it.
THEOREM SkillInvariance == SkillFilesSpec => []SkillInv
BY SkillInitInv, SkillStep, PTL DEF SkillFilesSpec

-----------------------------------------------------------------------------
(***************************************************************************)
(* The audit log (AuditLog).                                               *)
(***************************************************************************)

\* The files that have been renamed and were not replaced.
Renamed == (1..created) \ (clobbered \cup {live})

\* A file that MaxBackups later ones have outdated.
Superseded(b) == Cardinality({c \in Renamed : c > b}) >= MaxBackups

\* The log is the newest file, what is renamed, replaced or going to be removed is older,
\* and a stream that is open leads to a file.
LogsInOrder ==
  /\ live \in {0, created}
  /\ backups \subseteq 1..created /\ clobbered \subseteq 1..created
  /\ live \notin backups \cup clobbered /\ backups \cap clobbered = {}
  /\ \A p \in Loggers : prep[p].doomed \subseteq (1..created) \ {live}
  /\ \A p \in Loggers : stream[p].at = "open" => stream[p].log # 0

\* Only what is outdated is removed, now or later.
RemovedIsSuperseded ==
  \A b \in Renamed :
    b \notin backups \/ (\E p \in Loggers : b \in prep[p].doomed) => Superseded(b)

AuditInv == AuditTypeOK /\ LogsInOrder /\ RemovedIsSuperseded

\* The invariant says it of what is removed.
LEMMA AuditInvKeepsRecent == AuditInv => RecentBackupsStay
  BY DEF AuditInv, RemovedIsSuperseded, RecentBackupsStay, Superseded, Renamed

\* There is no log at first.
LEMMA AuditInitInv == AuditInit => AuditInv
<1> SUFFICES ASSUME AuditInit PROVE AuditInv
  OBVIOUS
<1> USE AuditAssumption DEF AuditInit, Logs
<1>1. Renamed = {}
  BY DEF Renamed
<1>2. prep \in [Loggers -> [at : {"idle", "making", "judging", "rotating", "listing", "pruning", "ready"},
                             doomed : SUBSET (1..MaxLogs)]]
  OBVIOUS
<1>3. stream \in [Loggers -> [at : {"closed", "opening", "open", "failed"}, log : 0..MaxLogs]]
  OBVIOUS
<1>4. \A p \in Loggers : prep[p].doomed = {} /\ stream[p].at = "closed"
  OBVIOUS
<1>5. AuditTypeOK
  <2>1. dirThere \in BOOLEAN /\ sameSecond \in BOOLEAN
    OBVIOUS
  <2>2. created \in 0..MaxLogs /\ live \in 0..MaxLogs
    OBVIOUS
  <2>3. long \subseteq 1..MaxLogs /\ backups \subseteq 1..MaxLogs /\ clobbered \subseteq 1..MaxLogs
    OBVIOUS
  <2> HIDE DEF AuditInit
  <2> QED
    BY <1>2, <1>3, <2>1, <2>2, <2>3 DEF AuditTypeOK
<1>6. LogsInOrder
  BY <1>4 DEF LogsInOrder
<1> QED
  BY <1>1, <1>5, <1>6 DEF AuditInv, RemovedIsSuperseded

\* A set that loses at most one element and gains another does not shrink.
LEMMA ExchangeKeepsSize ==
  ASSUME NEW S, IsFiniteSet(S), NEW R, \A x, y \in R : x = y, NEW n, n \notin S
  PROVE  Cardinality((S \ R) \cup {n}) >= Cardinality(S)
<1>0. Cardinality(S) \in Nat
  BY FS_CardinalityType
<1>1. CASE S \cap R = {}
  <2>1. S \ R = S
    BY <1>1
  <2>2. Cardinality(S \cup {n}) = Cardinality(S) + 1
    BY FS_AddElement
  <2> QED
    BY <1>0, <2>1, <2>2
<1>2. CASE \E x : x \in S \cap R
  <2>1. PICK x : x \in S \cap R
    BY <1>2
  <2>2. S \ R = S \ {x}
    BY <2>1
  <2>3. IsFiniteSet(S \ {x}) /\ Cardinality(S \ {x}) = Cardinality(S) - 1
    BY <2>1, FS_RemoveElement
  <2>4. Cardinality((S \ {x}) \cup {n}) = Cardinality(S \ {x}) + 1
    BY <2>3, FS_AddElement
  <2> QED
    BY <1>0, <2>2, <2>3, <2>4
<1> QED
  BY <1>1, <1>2

\* Sets of log files can be counted.
LEMMA LogSetsAreFinite ==
  ASSUME AuditTypeOK
  PROVE  \A S \in SUBSET (1..created) : IsFiniteSet(S)
<1>1. IsFiniteSet(1..created)
  BY FS_Interval DEF AuditTypeOK
<1> QED
  BY <1>1, FS_Subset

\* With the same files, the same are outdated.
LEMMA SupersededStays ==
  ASSUME NEW b, Superseded(b), Renamed' = Renamed
  PROVE  Superseded(b)'
  BY DEF Superseded

\* The types, and the order of the files, are kept by every step.
LEMMA AuditTypeStep ==
  ASSUME AuditTypeOK, LogsInOrder, [AuditNext]_auditVars
  PROVE  AuditTypeOK' /\ LogsInOrder'
<1> USE AuditAssumption DEF AuditTypeOK, LogsInOrder, Logs, PrepAt, PrepTo, StreamTo
<1>1. ASSUME NEW p \in Loggers, FirstEntry(p) PROVE AuditTypeOK' /\ LogsInOrder'
  BY <1>1 DEF FirstEntry, filesVars
<1>2. ASSUME NEW p \in Loggers, OpenStream(p) PROVE AuditTypeOK' /\ LogsInOrder'
  <2>1. CASE ~dirThere
    <3>1. stream' = [stream EXCEPT ![p] = [at |-> "failed", log |-> 0]] /\ UNCHANGED <<filesVars, prep>>
      BY <1>2, <2>1 DEF OpenStream
    <3> QED
      BY <3>1 DEF filesVars
  <2>2. CASE dirThere /\ live # 0
    <3>1. /\ stream' = [stream EXCEPT ![p] = [at |-> "open", log |-> live]]
          /\ UNCHANGED <<dirThere, created, live, long, backups, sameSecond, clobbered, prep>>
      BY <1>2, <2>2 DEF OpenStream
    <3> QED
      BY <2>2, <3>1
  <2>3. CASE dirThere /\ live = 0
    <3>1. /\ created' = created + 1 /\ created + 1 \in 1..MaxLogs /\ live' = created + 1
          /\ UNCHANGED <<dirThere, long, backups, sameSecond, clobbered, prep>>
      BY <1>2, <2>3 DEF OpenStream
    <3>2. stream' = [stream EXCEPT ![p] = [at |-> "open", log |-> created + 1]]
      BY <1>2, <2>3 DEF OpenStream
    <3>3. stream' \in [Loggers -> [at : {"closed", "opening", "open", "failed"}, log : 0..MaxLogs]]
          /\ \A q \in Loggers : stream'[q].at = "open" => stream'[q].log # 0
      BY <3>1, <3>2
    <3>4. created + 1 \notin 1..created /\ 1..created \subseteq 1..(created + 1)
      OBVIOUS
    <3> QED
      BY <3>1, <3>3, <3>4
  <2> QED
    BY <2>1, <2>2, <2>3
<1>3. ASSUME NEW p \in Loggers, NEW made \in BOOLEAN, MakeDir(p, made) PROVE AuditTypeOK' /\ LogsInOrder'
  BY <1>3 DEF MakeDir
<1>4. ASSUME NEW p \in Loggers, StatLog(p) PROVE AuditTypeOK' /\ LogsInOrder'
  BY <1>4 DEF StatLog, filesVars
<1>5. ASSUME NEW p \in Loggers, RenameLog(p) PROVE AuditTypeOK' /\ LogsInOrder'
  <2>1. CASE live = 0
    BY <1>5, <2>1 DEF RenameLog, filesVars
  <2>2. CASE live # 0
    <3> DEFINE R == IF sameSecond THEN {b \in backups : \A c \in backups : c <= b} ELSE {}
    <3>1. /\ backups' = (backups \ R) \cup {live} /\ clobbered' = clobbered \cup R
          /\ live' = 0 /\ sameSecond' = TRUE /\ UNCHANGED <<dirThere, created, long, stream>>
      BY <1>5, <2>2 DEF RenameLog
    <3>2. R \subseteq backups
      OBVIOUS
    <3>3. /\ prep' \in [Loggers -> [at : {"idle", "making", "judging", "rotating", "listing", "pruning", "ready"},
                                    doomed : SUBSET (1..MaxLogs)]]
          /\ \A q \in Loggers : prep'[q].doomed = prep[q].doomed
      BY <1>5 DEF RenameLog
    <3>4. live = created /\ live \in 1..created /\ 0 \notin 1..created
      BY <2>2
    <3> HIDE DEF R
    <3> QED
      BY <3>1, <3>2, <3>3, <3>4
  <2> QED
    BY <2>1, <2>2
<1>6. ASSUME NEW p \in Loggers, ListBackups(p) PROVE AuditTypeOK' /\ LogsInOrder'
  <2> DEFINE D == {b \in backups : Cardinality({c \in backups : c > b}) >= MaxBackups}
  <2>1. D \subseteq backups /\ prep' = [prep EXCEPT ![p] = [at |-> "pruning", doomed |-> D]]
        /\ UNCHANGED <<filesVars, stream>>
    BY <1>6 DEF ListBackups
  <2> HIDE DEF D
  <2> QED
    BY <2>1 DEF filesVars
<1>7. ASSUME NEW p \in Loggers, RemoveBackup(p) PROVE AuditTypeOK' /\ LogsInOrder'
  <2>0. UNCHANGED <<dirThere, created, live, long, sameSecond, clobbered, stream>>
    BY <1>7 DEF RemoveBackup
  <2>1. CASE prep[p].doomed = {}
    <3>1. prep' = [prep EXCEPT ![p].at = "ready"] /\ UNCHANGED backups
      BY <1>7, <2>1 DEF RemoveBackup
    <3> QED
      BY <2>0, <3>1
  <2>2. CASE prep[p].doomed # {}
    <3>1. PICK b \in prep[p].doomed :
            backups' = backups \ {b} /\ prep' = [prep EXCEPT ![p].doomed = @ \ {b}]
      BY <1>7, <2>2 DEF RemoveBackup
    <3>2. /\ prep' \in [Loggers -> [at : {"idle", "making", "judging", "rotating", "listing", "pruning", "ready"},
                                    doomed : SUBSET (1..MaxLogs)]]
          /\ \A q \in Loggers : prep'[q].doomed \subseteq prep[q].doomed
      BY <3>1
    <3>3. backups' \subseteq backups
      BY <3>1
    <3> QED
      BY <2>0, <3>2, <3>3
  <2> QED
    BY <2>1, <2>2
<1>8. ASSUME NEW p \in Loggers, LogGrows(p) PROVE AuditTypeOK' /\ LogsInOrder'
  <2>1. stream[p].log \in 1..MaxLogs
    BY <1>8 DEF LogGrows
  <2>2. long' = long \cup {stream[p].log}
        /\ UNCHANGED <<dirThere, created, live, backups, sameSecond, clobbered, prep, stream>>
    BY <1>8 DEF LogGrows
  <2> QED
    BY <2>1, <2>2
<1>9. ASSUME NEW p \in Loggers, LoggerEnds(p) PROVE AuditTypeOK' /\ LogsInOrder'
  BY <1>9 DEF LoggerEnds, filesVars
<1>10. CASE SecondPasses
  BY <1>10 DEF SecondPasses
<1>11. CASE UNCHANGED auditVars
  BY <1>11 DEF auditVars
<1> QED
  BY <1>1, <1>2, <1>3, <1>4, <1>5, <1>6, <1>7, <1>8, <1>9, <1>10, <1>11 DEF AuditNext

\* Renaming the log adds a newer file for the one it may replace, so that what was
\* superseded still is; what a process lists is superseded when it lists it.
LEMMA AuditStep == AuditInv /\ [AuditNext]_auditVars => AuditInv'
<1> SUFFICES ASSUME AuditInv, [AuditNext]_auditVars PROVE RemovedIsSuperseded'
  BY AuditTypeStep DEF AuditInv
<1> USE DEF AuditInv
\* Nothing is created, renamed or removed, and no process has more to remove.
<1>1. ASSUME UNCHANGED <<created, live, clobbered, backups>>,
             \A p \in Loggers : prep'[p].doomed \subseteq prep[p].doomed
      PROVE  RemovedIsSuperseded'
  BY <1>1, SupersededStays DEF RemovedIsSuperseded, Renamed
<1> USE DEF PrepAt, PrepTo
<1>2. ASSUME NEW p \in Loggers, OpenStream(p) PROVE RemovedIsSuperseded'
  <2>1. Renamed' = Renamed
    BY <1>2, AuditAssumption DEF OpenStream, filesVars, Renamed, LogsInOrder, AuditTypeOK
  <2>2. UNCHANGED <<backups, prep>>
    BY <1>2 DEF OpenStream, filesVars
  <2> QED
    BY <2>1, <2>2, SupersededStays DEF RemovedIsSuperseded
<1>3. ASSUME NEW p \in Loggers, RenameLog(p) PROVE RemovedIsSuperseded'
  <2> DEFINE R == IF sameSecond THEN {b \in backups : \A c \in backups : c <= b} ELSE {}
  <2>0. \A q \in Loggers : prep'[q].doomed = prep[q].doomed
    BY <1>3 DEF RenameLog, AuditTypeOK
  <2>1. CASE live = 0
    BY <1>1, <1>3, <2>0, <2>1 DEF RenameLog, filesVars
  <2>2. CASE live # 0
    <3>1. /\ backups' = (backups \ R) \cup {live} /\ clobbered' = clobbered \cup R
          /\ live' = 0 /\ created' = created
      BY <1>3, <2>2 DEF RenameLog
    <3>2. R \subseteq backups /\ \A x, y \in R : x = y
      BY DEF LogsInOrder, AuditTypeOK
    <3> HIDE DEF R
    <3>3. created \in Nat /\ live = created /\ live \notin clobbered /\ R \subseteq 1..created /\ live \notin R
      BY <2>2, <3>2 DEF LogsInOrder, AuditTypeOK
    <3>4. Renamed' = (Renamed \ R) \cup {live}
      BY <2>2, <3>1, <3>3 DEF Renamed
    <3>5. ASSUME NEW b \in Renamed, Superseded(b) PROVE Superseded(b)'
      <4> DEFINE S == {c \in Renamed : c > b}
      <4>1. IsFiniteSet(S) /\ live \notin S
        BY LogSetsAreFinite DEF Renamed
      <4>2. live > b
        BY <3>3 DEF Renamed
      <4>3. {c \in Renamed' : c > b} = (S \ R) \cup {live}
        BY <3>4, <4>2
      <4>4. Cardinality((S \ R) \cup {live}) >= Cardinality(S)
        BY <3>2, <4>1, ExchangeKeepsSize
      <4>5. IsFiniteSet((S \ R) \cup {live})
        BY <4>1, FS_Difference, FS_AddElement
      <4>6. Cardinality(S) \in Nat /\ Cardinality((S \ R) \cup {live}) \in Nat /\ Cardinality(S) >= MaxBackups
        BY <3>5, <4>1, <4>5, FS_CardinalityType DEF Superseded
      <4> HIDE DEF S
      <4> QED
        BY <4>3, <4>4, <4>6, AuditAssumption DEF Superseded
    <3>6. ASSUME NEW b \in Renamed', b \notin backups' \/ \E q \in Loggers : b \in prep'[q].doomed
          PROVE  Superseded(b)'
      <4>1. b # live
        BY <2>0, <3>1, <3>6 DEF LogsInOrder
      <4>2. b \in Renamed /\ b \notin R
        BY <3>4, <4>1
      <4>3. b \notin backups \/ \E q \in Loggers : b \in prep[q].doomed
        BY <2>0, <3>1, <3>6, <4>2
      <4> QED
        BY <3>5, <4>2, <4>3 DEF RemovedIsSuperseded
    <3> QED
      BY <3>6 DEF RemovedIsSuperseded
  <2> QED
    BY <2>1, <2>2
<1>4. ASSUME NEW p \in Loggers, ListBackups(p) PROVE RemovedIsSuperseded'
  <2> DEFINE D == {b \in backups : Cardinality({c \in backups : c > b}) >= MaxBackups}
  <2>1. /\ UNCHANGED <<created, live, clobbered, backups>>
        /\ prep' = [prep EXCEPT ![p] = [at |-> "pruning", doomed |-> D]]
    BY <1>4 DEF ListBackups, filesVars
  <2>2. Renamed' = Renamed
    BY <2>1 DEF Renamed
  <2>3. ASSUME NEW b \in D PROVE Superseded(b)
    <3> DEFINE S == {c \in backups : c > b}
               T == {c \in Renamed : c > b}
    <3>1. S \subseteq T
      BY DEF Renamed, LogsInOrder
    <3>2. IsFiniteSet(T)
      BY LogSetsAreFinite DEF Renamed
    <3>3. Cardinality(S) <= Cardinality(T) /\ IsFiniteSet(S)
      BY <3>1, <3>2, FS_Subset
    <3>4. Cardinality(S) \in Nat /\ Cardinality(T) \in Nat /\ Cardinality(S) >= MaxBackups
      BY <3>2, <3>3, FS_CardinalityType
    <3> HIDE DEF S, T
    <3>5. Cardinality(T) >= MaxBackups
      BY <3>3, <3>4, AuditAssumption
    <3> QED
      BY <3>5 DEF Superseded, T
  <2> HIDE DEF D
  <2>4. \A q \in Loggers : prep'[q].doomed = IF q = p THEN D ELSE prep[q].doomed
    BY <2>1 DEF AuditTypeOK
  <2> QED
    BY <2>1, <2>2, <2>3, <2>4, SupersededStays DEF RemovedIsSuperseded
<1>5. ASSUME NEW p \in Loggers, RemoveBackup(p) PROVE RemovedIsSuperseded'
  <2>1. UNCHANGED <<created, live, clobbered>>
    BY <1>5 DEF RemoveBackup
  <2>2. Renamed' = Renamed
    BY <2>1 DEF Renamed
  <2>3. \A q \in Loggers : prep'[q].doomed \subseteq prep[q].doomed
    <3>1. CASE prep[p].doomed = {}
      BY <1>5, <3>1 DEF RemoveBackup, AuditTypeOK
    <3>2. CASE prep[p].doomed # {}
      BY <1>5, <3>2 DEF RemoveBackup, AuditTypeOK
    <3> QED
      BY <3>1, <3>2
  <2>4. \A b : b \in backups /\ b \notin backups' => b \in prep[p].doomed
    BY <1>5 DEF RemoveBackup
  <2> QED
    BY <2>2, <2>3, <2>4, SupersededStays DEF RemovedIsSuperseded
<1>6. ASSUME NEW p \in Loggers,
             FirstEntry(p) \/ StatLog(p) \/ LogGrows(p) \/ LoggerEnds(p) \/ \E made \in BOOLEAN : MakeDir(p, made)
      PROVE  RemovedIsSuperseded'
  <2>1. UNCHANGED <<created, live, clobbered, backups>>
    BY <1>6 DEF FirstEntry, StatLog, LogGrows, LoggerEnds, MakeDir, filesVars
  <2>2. \A q \in Loggers : prep'[q].doomed \subseteq prep[q].doomed
    BY <1>6 DEF FirstEntry, StatLog, LogGrows, LoggerEnds, MakeDir, AuditTypeOK
  <2> QED
    BY <1>1, <2>1, <2>2
<1>7. CASE SecondPasses \/ UNCHANGED auditVars
  BY <1>1, <1>7 DEF SecondPasses, auditVars
<1> QED
  BY <1>2, <1>3, <1>4, <1>5, <1>6, <1>7 DEF AuditNext

\* For any number of processes, rotations and backups: a backup is removed only when
\* MaxBackups later ones were made. What is listed for removal counts as removed, since it
\* stays superseded.
THEOREM AuditInvariance == AuditSpec => []AuditInv
  BY AuditInitInv, AuditStep, PTL DEF AuditSpec

-----------------------------------------------------------------------------
(***************************************************************************)
(* The log and its live view (LogTail).                                    *)
(***************************************************************************)

LogTyped ==
  /\ day \in Days /\ lines \in [Days -> 0..MaxLines]
  /\ polled \in [Days -> Never..MaxLines] /\ listeners \in [Days -> SUBSET Tails]
  /\ tail \in [Tails -> [at : {"off", "connecting", "open", "closed"}, file : Days,
                         pos : 0..MaxLines]]
  /\ stats \in [Tails -> SUBSET [file : Days, size : Never..MaxLines]]
  /\ sent \in [Tails -> [last : [Days -> 0..MaxLines], twice : BOOLEAN]]

\* A client has been sent nothing of the file it tails behind its position, nothing of
\* the days to come, and nothing at all before it watches.
SentIsBehind(c) ==
  /\ tail[c].file <= day
  /\ sent[c].last[tail[c].file] <= tail[c].pos
  /\ \A f \in Days : f > tail[c].file => sent[c].last[f] = 0
  /\ tail[c].at \in {"off", "connecting"} =>
       stats[c] = {} /\ \A f \in Days : sent[c].last[f] = 0 /\ c \notin listeners[f]
  /\ \A f \in Days : c \in listeners[f] => tail[c].file = f
  /\ ~sent[c].twice

LogInv == LogTyped /\ \A c \in Tails : SentIsBehind(c)

\* The invariant is stronger than the types and the property.
LEMMA LogInvTypes == LogInv => LogTypeOK /\ LinesAreSentOnce
  BY DEF LogInv, LogTyped, LogTypeOK, SentIsBehind, LinesAreSentOnce

\* No client is connected at first.
LEMMA LogInitInv == LogInit => LogInv
<1> SUFFICES ASSUME LogInit PROVE LogInv
  OBVIOUS
<1> USE LogAssumption DEF LogInit, Days, Never
<1>1. \A c \in Tails : /\ tail[c].at = "off" /\ tail[c].file = 1 /\ tail[c].pos = 0
                       /\ sent[c].twice = FALSE /\ \A d \in Days : sent[c].last[d] = 0
  OBVIOUS
<1>2. lines \in [Days -> 0..MaxLines]
  OBVIOUS
<1>3. sent \in [Tails -> [last : [Days -> 0..MaxLines], twice : BOOLEAN]]
  OBVIOUS
<1> QED
  BY <1>1, <1>2, <1>3 DEF LogInv, LogTyped, SentIsBehind

\* A client that goes to the file of a new day has been sent nothing of it.
LEMMA LogStep == LogInv /\ [LogNext]_logVars => LogInv'
<1> SUFFICES ASSUME LogInv, [LogNext]_logVars PROVE LogInv'
  OBVIOUS
<1> USE LogAssumption DEF LogInv, LogTyped, Never
<1>0. Days \subseteq Nat /\ 1 \in Days
  BY DEF Days
<1>1. CASE WriteLine
  BY <1>0, <1>1 DEF WriteLine, SentIsBehind
<1>2. CASE Midnight
  <2>1. day' \in Days /\ day' = day + 1
    BY <1>2 DEF Midnight, Days
  <2>2. UNCHANGED <<lines, polled, listeners, tail, stats, sent>>
    BY <1>2 DEF Midnight
  <2>3. ASSUME NEW c \in Tails PROVE SentIsBehind(c)'
    <3>1. tail[c].file \in Days /\ tail[c].file <= day + 1
      <4>1. tail[c].file \in Days /\ tail[c].file <= day
        BY DEF SentIsBehind
      <4> QED
        BY <4>1 DEF Days
    <3> QED
      BY <2>1, <2>2, <3>1 DEF SentIsBehind
  <2> QED
    BY <2>1, <2>2, <2>3
<1>3. ASSUME NEW d \in Days, BasePoll(d) PROVE LogInv'
  BY <1>0, <1>3 DEF BasePoll, SentIsBehind
<1>4. ASSUME NEW d \in Days, PollFile(d) PROVE LogInv'
  <2> DEFINE ls == listeners[d]
             rolls == d # day
             ask == [file |-> day, size |-> Never]
  <2>1. ask \in [file : Days, size : Never..MaxLines]
    OBVIOUS
  <2>2. /\ stats' \in [Tails -> SUBSET [file : Days, size : Never..MaxLines]]
        /\ \A c \in Tails : c \notin ls => stats'[c] = stats[c]
    <3>1. stats' = [c \in Tails |-> IF c \in ls THEN stats[c] \cup {ask} ELSE stats[c]]
      BY <1>4 DEF PollFile
    <3> HIDE DEF ask, ls
    <3> QED
      BY <2>1, <3>1
  <2>3. polled' \in [Days -> Never..MaxLines] /\ UNCHANGED <<day, lines, sent>>
    <3>1. PICK n \in {Never, lines[d]} : polled' = [polled EXCEPT ![d] = n]
      BY <1>4 DEF PollFile
    <3>2. n \in Never..MaxLines
      BY <3>1
    <3>3. UNCHANGED <<day, lines, sent>>
      BY <1>4 DEF PollFile
    <3> QED
      BY <3>1, <3>2, <3>3
  <2>4. \A c \in Tails : c \in ls =>
          tail[c].file = d /\ d <= day /\ tail[c].at \notin {"off", "connecting"}
    BY <1>0 DEF SentIsBehind
  <2>5. CASE rolls
    <3>1. listeners' = [listeners EXCEPT ![d] = {}, ![day] = @ \cup ls]
      BY <1>4, <2>5 DEF PollFile
    <3>2. /\ listeners' \in [Days -> SUBSET Tails]
          /\ \A f \in Days : f # day => listeners'[f] \subseteq listeners[f]
          /\ listeners'[day] = listeners[day] \cup ls /\ listeners'[d] = {}
      BY <2>5, <3>1
    <3>3. tail' = [c \in Tails |-> IF c \in ls
                                     THEN [tail[c] EXCEPT !.file = day, !.pos = 0] ELSE tail[c]]
      BY <1>4, <2>5 DEF PollFile
    <3> HIDE DEF ls
    <3>4. /\ tail' \in [Tails -> [at : {"off", "connecting", "open", "closed"}, file : Days,
                                  pos : 0..MaxLines]]
          /\ \A c \in Tails : c \notin ls => tail'[c] = tail[c]
          /\ \A c \in Tails : c \in ls => /\ tail'[c].file = day /\ tail'[c].pos = 0
                                          /\ tail'[c].at = tail[c].at
      <4>1. ASSUME NEW c \in Tails
            PROVE  [tail[c] EXCEPT !.file = day, !.pos = 0]
                     \in [at : {"off", "connecting", "open", "closed"}, file : Days, pos : 0..MaxLines]
        <5>1. tail[c] \in [at : {"off", "connecting", "open", "closed"}, file : Days, pos : 0..MaxLines]
              /\ 0 \in 0..MaxLines
          OBVIOUS
        <5> QED
          BY <5>1
      <4> QED
        BY <3>3, <4>1
    <3>5. ASSUME NEW c \in Tails, c \in ls PROVE SentIsBehind(c)'
      <4>1. tail[c].file = d /\ d < day /\ sent[c].last[day] = 0
        BY <1>0, <2>4, <2>5, <3>5 DEF SentIsBehind
      <4>2. \A f \in Days : c \in listeners'[f] => f = day
        BY <3>2, <3>5, <4>1 DEF SentIsBehind, ls
      <4> QED
        BY <1>0, <2>3, <2>4, <3>4, <3>5, <4>1, <4>2 DEF SentIsBehind
    <3>6. ASSUME NEW c \in Tails, c \notin ls PROVE SentIsBehind(c)'
      <4>1. \A f \in Days : c \in listeners'[f] => c \in listeners[f]
        BY <3>2, <3>6
      <4> QED
        BY <1>0, <2>2, <2>3, <3>4, <3>6, <4>1 DEF SentIsBehind
    <3> QED
      BY <2>2, <2>3, <3>2, <3>4, <3>5, <3>6
  <2>6. CASE ~rolls
    <3>1. tail' = tail /\ listeners' = listeners
      BY <1>4, <2>6 DEF PollFile
    <3> HIDE DEF ls
    <3> QED
      BY <2>2, <2>3, <2>4, <3>1 DEF SentIsBehind
  <2> QED
    BY <2>5, <2>6
<1>5. ASSUME NEW c \in Tails, Connect(c) PROVE LogInv'
  <2>1. /\ tail' \in [Tails -> [at : {"off", "connecting", "open", "closed"}, file : Days,
                                pos : 0..MaxLines]]
        /\ \A b \in Tails : b # c => tail'[b] = tail[b]
        /\ tail'[c].at = "connecting" /\ tail'[c].file = day /\ tail'[c].pos = 0
        /\ tail[c].at = "off"
    BY <1>5 DEF Connect
  <2> QED
    BY <1>0, <1>5, <2>1 DEF Connect, SentIsBehind
<1>6. ASSUME NEW c \in Tails, Watch(c) PROVE LogInv'
  <2> DEFINE d == tail[c].file
  <2>1. /\ tail' \in [Tails -> [at : {"off", "connecting", "open", "closed"}, file : Days,
                                pos : 0..MaxLines]]
        /\ \A b \in Tails : b # c => tail'[b] = tail[b]
        /\ tail'[c].at = "open" /\ tail'[c].file = d /\ tail'[c].pos = lines[d]
        /\ tail[c].at = "connecting" /\ UNCHANGED <<day, lines, polled, stats>>
    BY <1>6 DEF Watch
  <2>2. /\ listeners' \in [Days -> SUBSET Tails]
        /\ \A f \in Days : listeners'[f] = IF f = d THEN listeners[f] \cup {c} ELSE listeners[f]
    BY <1>6 DEF Watch
  <2>3. /\ sent' \in [Tails -> [last : [Days -> 0..MaxLines], twice : BOOLEAN]]
        /\ \A b \in Tails : b # c => sent'[b] = sent[b]
        /\ sent'[c].twice = sent[c].twice
        /\ \A f \in Days : sent'[c].last[f] = IF f = d THEN lines[d] ELSE sent[c].last[f]
    BY <1>6 DEF Watch
  <2>4. d \in Days /\ lines[d] \in 0..MaxLines
    OBVIOUS
  <2> HIDE DEF d
  <2>5. ASSUME NEW b \in Tails, b # c PROVE SentIsBehind(b)'
    <3>1. SentIsBehind(b) /\ \A f \in Days : b \in listeners'[f] => b \in listeners[f]
      BY <2>2, <2>5
    <3> QED
      BY <2>1, <2>3, <2>5, <3>1 DEF SentIsBehind
  <2>6. SentIsBehind(c)'
    <3>1. SentIsBehind(c) /\ tail[c].file = d
      BY DEF d
    <3>2. \A f \in Days : c \notin listeners[f] /\ sent[c].last[f] = 0
      BY <2>1, <3>1 DEF SentIsBehind
    <3>3. \A f \in Days : c \in listeners'[f] => f = d
      BY <2>2, <3>2
    <3>4. sent'[c].last[d] = lines[d] /\ \A f \in Days : f # d => sent'[c].last[f] = 0
      BY <2>3, <2>4, <3>2
    <3> QED
      BY <1>0, <2>1, <2>3, <2>4, <3>1, <3>3, <3>4 DEF SentIsBehind
  <2> QED
    BY <2>1, <2>2, <2>3, <2>5, <2>6
<1>7. ASSUME NEW c \in Tails, NEW s \in stats[c], StatFile(c, s) PROVE LogInv'
  <2>1. [s EXCEPT !.size = lines[s.file]] \in [file : Days, size : Never..MaxLines]
    BY <1>7
  <2>2. stats' = [stats EXCEPT ![c] = (@ \ {s}) \cup {[s EXCEPT !.size = lines[s.file]]}]
    BY <1>7 DEF StatFile
  <2>3. /\ stats' \in [Tails -> SUBSET [file : Days, size : Never..MaxLines]]
        /\ \A b \in Tails : b # c => stats'[b] = stats[b]
    BY <2>1, <2>2
  <2> QED
    BY <1>7, <2>3 DEF StatFile, SentIsBehind
<1>8. ASSUME NEW c \in Tails, NEW s \in stats[c], SendNew(c, s) PROVE LogInv'
  <2> DEFINE f == tail[c].file
             end == IF s.size > lines[f] THEN lines[f] ELSE s.size
  <2>1. /\ stats' \in [Tails -> SUBSET [file : Days, size : Never..MaxLines]]
        /\ \A b \in Tails : b # c => stats'[b] = stats[b]
        /\ UNCHANGED <<day, lines, polled, listeners>>
    BY <1>8 DEF SendNew, SendFrom
  <2>2. CASE ~(s.size > tail[c].pos)
    BY <1>8, <2>1, <2>2 DEF SendNew, SendFrom, SentIsBehind
  <2>3. CASE s.size > tail[c].pos
    <3>1. /\ tail' = [tail EXCEPT ![c].pos = s.size]
          /\ sent' = [sent EXCEPT ![c].twice = @ \/ sent[c].last[f] > tail[c].pos, ![c].last[f] = end]
      BY <1>8, <2>3 DEF SendNew, SendFrom
    <3>2. end \in 0..MaxLines /\ end <= s.size /\ s.size \in 0..MaxLines
      <4>1. s \in [file : Days, size : Never..MaxLines] /\ lines[f] \in 0..MaxLines
            /\ tail[c].pos \in 0..MaxLines
        OBVIOUS
      <4> QED
        BY <2>3, <4>1
    <3>3. (sent[c].twice \/ sent[c].last[f] > tail[c].pos) = FALSE
      <4>1. sent[c].last[f] \in 0..MaxLines /\ tail[c].pos \in 0..MaxLines
        OBVIOUS
      <4> QED
        BY <4>1 DEF SentIsBehind
    <3>4. tail[c].at \notin {"off", "connecting"}
      BY DEF SentIsBehind
    <3> HIDE DEF end
    <3>5. /\ sent' \in [Tails -> [last : [Days -> 0..MaxLines], twice : BOOLEAN]]
          /\ \A b \in Tails : b # c => sent'[b] = sent[b]
          /\ sent'[c].twice = FALSE
          /\ \A d \in Days : sent'[c].last[d] = IF d = f THEN end ELSE sent[c].last[d]
      BY <3>1, <3>2, <3>3
    <3>6. /\ tail' \in [Tails -> [at : {"off", "connecting", "open", "closed"}, file : Days,
                                  pos : 0..MaxLines]]
          /\ \A b \in Tails : b # c => tail'[b] = tail[b]
          /\ tail'[c].at = tail[c].at /\ tail'[c].file = f /\ tail'[c].pos = s.size
      BY <3>1, <3>2
    <3>7. ASSUME NEW b \in Tails, b # c PROVE SentIsBehind(b)'
      BY <2>1, <3>5, <3>6, <3>7 DEF SentIsBehind
    <3>8. SentIsBehind(c)'
      <4>1. SentIsBehind(c) /\ f \in Days /\ tail[c].file = f
        OBVIOUS
      <4>2. \A d \in Days : d > f => d # f
        BY <1>0, <4>1
      <4> HIDE DEF f
      <4> QED
        BY <1>0, <2>1, <3>2, <3>4, <3>5, <3>6, <4>1, <4>2 DEF SentIsBehind
    <3> QED
      BY <2>1, <3>5, <3>6, <3>7, <3>8
  <2> QED
    BY <2>2, <2>3
<1>9. ASSUME NEW c \in Tails, Disconnect(c) PROVE LogInv'
  <2>1. /\ tail' \in [Tails -> [at : {"off", "connecting", "open", "closed"}, file : Days,
                                pos : 0..MaxLines]]
        /\ \A b \in Tails : b # c => tail'[b] = tail[b]
        /\ tail'[c].at = "closed" /\ tail'[c].file = tail[c].file /\ tail'[c].pos = tail[c].pos
    BY <1>9 DEF Disconnect
  <2>2. /\ listeners' \in [Days -> SUBSET Tails]
        /\ \A f \in Days : listeners'[f] \subseteq listeners[f]
    BY <1>9 DEF Disconnect
  <2>3. polled' \in [Days -> Never..MaxLines] /\ UNCHANGED <<day, lines, stats, sent>>
    BY <1>9 DEF Disconnect
  <2> QED
    BY <1>0, <2>1, <2>2, <2>3 DEF SentIsBehind
<1>10. CASE UNCHANGED logVars
  BY <1>10 DEF logVars, SentIsBehind
<1> QED
  BY <1>1, <1>2, <1>3, <1>4, <1>5, <1>6, <1>7, <1>8, <1>9, <1>10 DEF LogNext, Sends, StatFile, SendNew, SendFrom

\* For any number of clients, days and lines: no client is sent a line twice. What it was
\* sent of the file it tails lies before its position.
THEOREM LogInvariance == LogInit /\ [][LogNext]_logVars => []LogInv
  BY LogInitInv, LogStep, PTL

-----------------------------------------------------------------------------
(***************************************************************************)
(* Adapters trained on the device and their server (LocalAdapter).         *)
(***************************************************************************)

\* The version on disk, and the one a rollback goes back to, are of weights
\* that have been made; while a training runs, of earlier ones than its own.
Called == IF local.at = "idle" THEN trained ELSE trained - 1

\* What makes the adapter's types inductive.
AdapterBounds ==
  /\ version <= Called /\ rolling.version <= Called /\ Called \in Nat
  /\ local.at \in {"archiving", "saving"} => local.version \in 1..trained
  /\ rolling.at = "copying" => rolling.version >= 1

AdapterInv == AdapterTypeOK /\ AdapterBounds /\ NamedServerIsAlone

\* Nothing is trained and no server runs at first.
LEMMA AdapterInitInv == AdapterInit => AdapterInv
  BY LocalAdapterAssumption DEF AdapterInit, AdapterInv, AdapterTypeOK, AdapterBounds, Called,
     NamedServerIsAlone, Weights, Idle, At

\* A step of the pipeline, which moves no server.
LEMMA PipelineStep ==
  ASSUME AdapterInv,
         TrainLocally \/ ReadVersion \/ ArchiveAdapter \/ SaveMeta \/ LocalTrainingFails
  PROVE  AdapterInv'
<1> USE LocalAdapterAssumption DEF AdapterInv, AdapterTypeOK, AdapterBounds, Called, Weights, Idle, At
<1>0. NamedServerIsAlone'
  BY DEF NamedServerIsAlone, TrainLocally, ReadVersion, ArchiveAdapter, SaveMeta, LocalTrainingFails
<1>1. CASE TrainLocally
  BY <1>0, <1>1 DEF TrainLocally
<1>2. CASE ReadVersion
  BY <1>0, <1>2 DEF ReadVersion
<1>3. CASE ArchiveAdapter
  <2>1. local' \in [at : {"saving"}, version : 0..MaxTrained + 1] /\ local'.at = "saving"
        /\ local'.version = local.version
    BY <1>3 DEF ArchiveAdapter
  <2>2. archive' \in [1..MaxTrained -> Weights]
    BY <1>3 DEF ArchiveAdapter
  <2> QED
    BY <1>0, <1>3, <2>1, <2>2 DEF ArchiveAdapter
<1>4. CASE SaveMeta
  <2>1. local.version \in 1..trained /\ local.version \in 1..MaxTrained /\ version' = local.version
    BY <1>4 DEF SaveMeta
  <2>2. weightsOf' \in [1..MaxTrained -> Weights]
    BY <1>4, <2>1 DEF SaveMeta
  <2>3. local'.at = "idle" /\ local' \in [at : {"idle"}, version : {0}]
    BY <1>4 DEF SaveMeta
  <2> QED
    BY <1>0, <1>4, <2>1, <2>2, <2>3 DEF SaveMeta
<1>5. CASE LocalTrainingFails
  BY <1>0, <1>5 DEF LocalTrainingFails
<1> QED
  BY <1>1, <1>2, <1>3, <1>4, <1>5

\* A step of the rollback or of a server.
LEMMA ServerStep ==
  ASSUME AdapterInv,
         FindEarlier \/ CopyBack \/ SaveEarlier \/ StopAdapterServer \/ RollbackDies
           \/ StartAdapterServer \/ \E i \in 1..MaxServers : ServerEnds(i)
  PROVE  AdapterInv'
<1> USE LocalAdapterAssumption DEF AdapterInv, AdapterTypeOK, AdapterBounds, Called, Weights, Idle, At
<1>1. CASE FindEarlier
  <2>1. PICK n \in Earlier : rolling' = At("copying", n)
    BY <1>1 DEF FindEarlier
  <2>2. n \in 1..(version - 1) /\ n \in Weights /\ n <= Called
    BY <2>1 DEF Earlier
  <2>3. /\ rolling' \in [at : {"copying"}, version : Weights]
        /\ rolling'.at = "copying" /\ rolling'.version = n
    BY <2>1, <2>2
  <2> QED
    BY <1>1, <2>2, <2>3 DEF FindEarlier, NamedServerIsAlone
<1>2. CASE CopyBack
  <2>1. rolling.version \in 1..MaxTrained /\ adapter' \in Weights
    BY <1>2 DEF CopyBack
  <2>2. /\ rolling' \in [at : {"saving"}, version : Weights]
        /\ rolling'.at = "saving" /\ rolling'.version = rolling.version
    BY <1>2 DEF CopyBack
  <2> QED
    BY <1>2, <2>1, <2>2 DEF CopyBack, NamedServerIsAlone
<1>3. CASE SaveEarlier
  BY <1>3 DEF SaveEarlier, NamedServerIsAlone
<1>4. CASE StopAdapterServer
  <2>1. rolling' \in [at : {"idle"}, version : Weights] /\ rolling'.at = "idle" /\ rolling'.version = 0
    BY <1>4 DEF StopAdapterServer
  <2>2. servers' \in [1..MaxServers -> Weights] /\ serverPid' \in 0..MaxServers
    <3>1. CASE serverPid # 0 /\ servers[serverPid] # 0
      <4>1. servers' = [servers EXCEPT ![serverPid] = 0] /\ serverPid' = 0
        BY <1>4, <3>1 DEF StopAdapterServer
      <4> QED
        BY <3>1, <4>1
    <3>2. CASE ~(serverPid # 0 /\ servers[serverPid] # 0)
      BY <1>4, <3>2 DEF StopAdapterServer
    <3> QED
      BY <3>1, <3>2
  <2>3. NamedServerIsAlone'
    BY <1>4 DEF StopAdapterServer, NamedServerIsAlone
  <2>4. UNCHANGED <<adapter, version, archive, weightsOf, local, trained>>
    BY <1>4 DEF StopAdapterServer
  <2>5. AdapterTypeOK'
    BY <2>1, <2>2, <2>4
  <2>6. AdapterBounds'
    BY <2>1, <2>4
  <2> HIDE DEF AdapterTypeOK, AdapterBounds
  <2> QED
    BY <2>3, <2>5, <2>6
<1>5. CASE RollbackDies
  BY <1>5 DEF RollbackDies, NamedServerIsAlone
<1>6. CASE StartAdapterServer
  <2>1. PICK i \in Unused :
          /\ serverPid' = i
          /\ servers' = IF \E j \in 1..MaxServers : servers[j] # 0
                          THEN servers ELSE [servers EXCEPT ![i] = adapter]
    BY <1>6 DEF StartAdapterServer
  <2>2. i \in 1..MaxServers /\ servers[i] = 0
    BY <2>1 DEF Unused
  <2>3. servers' \in [1..MaxServers -> Weights] /\ serverPid' \in 0..MaxServers
    BY <2>1, <2>2
  <2>4. NamedServerIsAlone'
    BY <2>1, <2>2 DEF NamedServerIsAlone
  <2> QED
    BY <1>6, <2>3, <2>4 DEF StartAdapterServer
<1>7. CASE \E i \in 1..MaxServers : ServerEnds(i)
  BY <1>7 DEF ServerEnds, NamedServerIsAlone
<1> QED
  BY <1>1, <1>2, <1>3, <1>4, <1>5, <1>6, <1>7

\* Both together.
LEMMA AdapterStep == AdapterInv /\ [AdapterNext]_adapterVars => AdapterInv'
<1>1. AdapterInv /\ UNCHANGED adapterVars => AdapterInv'
  BY DEF AdapterInv, AdapterTypeOK, AdapterBounds, Called, NamedServerIsAlone, adapterVars
<1> QED
  BY <1>1, PipelineStep, ServerStep DEF AdapterNext

\* For any number of trainings and servers: a server that server.pid names is the only one
\* that runs, and a version is never given to weights that were not made.
THEOREM AdapterInvariance == AdapterSpec => []AdapterInv
  BY AdapterStep, AdapterInitInv, PTL DEF AdapterSpec

-----------------------------------------------------------------------------
(***************************************************************************)
(* The files that name the server of the interface (UiServer).             *)
(***************************************************************************)

\* What holds of a server that no other has disturbed: ui.pid is its own from its creation
\* on, and ui.port once it is published; a server that has removed a dead process's file
\* sees none of that process again, and loses the race only to a file that is there.
OwnsItsFiles(s) ==
  ~serving[s].disturbed =>
    /\ ServerAt(s, "filling") => pidFile.by = s
    /\ serving[s].at \in {"binding", "listening", "published"} => pidFile.by = s /\ pidFile.full = TRUE
    /\ ServerAt(s, "published") => portFile = [by |-> s, port |-> serving[s].port]
    /\ serving[s].at \in {"retaking", "rereading"} => pidFile.by # Ghost
    /\ ServerAt(s, "rereading") => pidFile.by # NoServer

UiInv == UiTypeOK /\ (pidFile.by = NoServer => pidFile.full = FALSE) /\ \A s \in Servers : OwnsItsFiles(s)

\* What an undisturbed server owns is what the property speaks of.
LEMMA UiInvNamesTheServer == UiInv => FilesNameTheServer
  BY DEF UiInv, UiTypeOK, OwnsItsFiles, FilesNameTheServer, ServerAt

\* No server runs at first; a dead one may have left its files.
LEMMA UiInitInv == UiInit => UiInv
<1> SUFFICES ASSUME UiInit PROVE UiInv
  OBVIOUS
<1> USE UiAssumption DEF UiInit, NoPidFile, NoPortFile, ServerStages, ServerState
<1>1. serving \in [Servers -> ServerState]
  OBVIOUS
<1>2. /\ pidFile \in [by : Servers \cup {Ghost, NoServer}, full : BOOLEAN]
      /\ pidFile.by = NoServer => pidFile.full = FALSE
  <2>1. CASE pidFile = [by |-> NoServer, full |-> FALSE]
    BY <2>1
  <2>2. CASE pidFile = [by |-> Ghost, full |-> TRUE]
    BY <2>2
  <2> QED
    BY <2>1, <2>2
<1>3. portFile \in [by : Servers \cup {Ghost, NoServer}, port : Ports \cup {0}] /\ wizard \in [at : {"start"}, server : {NoServer}]
  OBVIOUS
<1>4. \A s \in Servers : serving[s].at = "off"
  OBVIOUS
<1> QED
  BY <1>1, <1>2, <1>3, <1>4 DEF UiInv, UiTypeOK, OwnsItsFiles, ServerAt

\* One server moves on and no other is disturbed.
LEMMA ServerMoves ==
  ASSUME UiTypeOK, NEW s \in Servers, NEW at \in ServerStages, ServerTo(s, at)
  PROVE  /\ serving' \in [Servers -> ServerState]
         /\ \A r \in Servers : /\ serving'[r].disturbed = serving[r].disturbed
                               /\ serving'[r].killed = serving[r].killed
                               /\ serving'[r].port = serving[r].port
                               /\ serving'[r].at = IF r = s THEN at ELSE serving[r].at
  BY DEF UiTypeOK, ServerTo, ServerState

\* One server is killed and no other is disturbed.
LEMMA ServerIsKilled ==
  ASSUME UiTypeOK, NEW s \in Servers, Dies(s)
  PROVE  /\ serving' \in [Servers -> ServerState]
         /\ \A r \in Servers : /\ serving'[r].disturbed = serving[r].disturbed
                               /\ serving'[r].killed = (r = s \/ serving[r].killed)
                               /\ serving'[r].port = serving[r].port
                               /\ serving'[r].at = IF r = s THEN "gone" ELSE serving[r].at
  BY DEF UiTypeOK, Dies, ServerState, ServerStages

\* One moves on and disturbs those that are past the check of ui.pid.
LEMMA ServerDisturbs ==
  ASSUME UiTypeOK, NEW s \in Servers, NEW at \in ServerStages, Disturbs(s, at)
  PROVE  /\ serving' \in [Servers -> ServerState]
         /\ \A r \in Servers :
              /\ serving'[r].port = serving[r].port
              /\ serving'[r].killed = serving[r].killed
              /\ serving'[r].at = IF r = s THEN at ELSE serving[r].at
              /\ ~serving'[r].disturbed => ~serving[r].disturbed /\ (r = s \/ ~PastCheck(r))
<1>1. ASSUME NEW r \in Servers
      PROVE  /\ serving'[r] \in ServerState
             /\ serving'[r].port = serving[r].port
             /\ serving'[r].killed = serving[r].killed
             /\ serving'[r].at = IF r = s THEN at ELSE serving[r].at
             /\ ~serving'[r].disturbed => ~serving[r].disturbed /\ (r = s \/ ~PastCheck(r))
  <2>1. serving[r] \in ServerState
    BY DEF UiTypeOK
  <2>2. (serving[r].disturbed \/ PastCheck(r)) \in BOOLEAN
    BY <2>1 DEF PastCheck, ServerState
  <2>3. CASE r = s
    BY <2>1, <2>3 DEF Disturbs, ServerState
  <2>4. CASE r # s
    <3>1. serving'[r] = [serving[r] EXCEPT !.disturbed = serving[r].disturbed \/ PastCheck(r)]
      BY <2>4 DEF Disturbs
    <3> HIDE DEF PastCheck
    <3> QED
      BY <2>1, <2>2, <2>4, <3>1 DEF ServerState
  <2> QED
    BY <2>3, <2>4
<1> QED
  BY <1>1 DEF Disturbs

\* Whatever touches the files of a server that runs disturbs it.
LEMMA UiStep == UiInv /\ [UiNext]_uiVars => UiInv'
<1> SUFFICES ASSUME UiInv, [UiNext]_uiVars PROVE UiInv'
  OBVIOUS
<1> USE UiAssumption DEF UiInv, UiTypeOK, ServerAt, NoPidFile, NoPortFile
<1>1. ASSUME NEW s \in Servers, NEW p \in Ports, StartServer(s, p) PROVE UiInv'
  <2>1. /\ serving' \in [Servers -> ServerState]
        /\ serving'[s].at = "locking"
        /\ \A r \in Servers : r # s => serving'[r] = serving[r]
    BY <1>1 DEF StartServer, ServerStages, ServerState
  <2> QED
    BY <1>1, <2>1 DEF StartServer, OwnsItsFiles
<1>2. ASSUME NEW s \in Servers, CreatePid(s) PROVE UiInv'
  <2>1. CASE pidFile = NoPidFile
    <3>1. ServerTo(s, "filling") /\ pidFile' = [by |-> s, full |-> FALSE] /\ UNCHANGED <<portFile, wizard>>
      BY <1>2, <2>1 DEF CreatePid
    <3> QED
      BY <2>1, <3>1, ServerMoves DEF OwnsItsFiles, ServerStages
  <2>2. CASE pidFile # NoPidFile
    <3>1. pidFile.by # NoServer \/ pidFile.full = TRUE
      BY <2>2
    <3> QED
      BY <1>2, <2>2, ServerMoves DEF CreatePid, OwnsItsFiles, ServerStages
  <2> QED
    BY <2>1, <2>2
<1>3. ASSUME NEW s \in Servers, FillPid(s) PROVE UiInv'
  <2>1. ServerTo(s, "binding") /\ UNCHANGED <<portFile, wizard>>
    BY <1>3 DEF FillPid
  <2>2. CASE pidFile.by = s
    <3>1. pidFile' = [pidFile EXCEPT !.full = TRUE]
      BY <1>3, <2>2 DEF FillPid
    <3>2. /\ pidFile' \in [by : Servers \cup {Ghost, NoServer}, full : BOOLEAN]
          /\ pidFile'.by = s /\ pidFile'.full = TRUE
      BY <2>2, <3>1
    <3> QED
      BY <1>3, <2>1, <2>2, <3>2, ServerMoves DEF FillPid, OwnsItsFiles, ServerStages
  <2>3. CASE pidFile.by # s
    BY <1>3, <2>1, <2>3, ServerMoves DEF FillPid, OwnsItsFiles, ServerStages
  <2> QED
    BY <2>2, <2>3
<1>4. ASSUME NEW s \in Servers, JudgePid(s) PROVE UiInv'
  BY <1>4, ServerMoves DEF JudgePid, OwnsItsFiles, ServerStages
<1>5. ASSUME NEW s \in Servers, UnlinkPid(s) PROVE UiInv'
  <2>1. CASE pidFile.by \in Servers
    BY <1>5, <2>1, ServerDisturbs DEF UnlinkPid, OwnsItsFiles, ServerStages, PastCheck
  <2>2. CASE pidFile.by \notin Servers
    BY <1>5, <2>2, ServerMoves DEF UnlinkPid, OwnsItsFiles, ServerStages
  <2> QED
    BY <2>1, <2>2
<1>6. ASSUME NEW s \in Servers, RereadPid(s) PROVE UiInv'
  BY <1>6, ServerMoves DEF RereadPid, OwnsItsFiles, ServerStages
<1>7. ASSUME NEW s \in Servers, BindPort(s) PROVE UiInv'
  <2>1. CASE ListenersOn(serving[s].port) = {}
    BY <1>7, <2>1, ServerMoves DEF BindPort, OwnsItsFiles, ServerStages
  <2>2. CASE ListenersOn(serving[s].port) # {}
    <3>1. Disturbs(s, "gone") /\ pidFile' = NoPidFile /\ UNCHANGED <<portFile, wizard>>
      BY <1>7, <2>2 DEF BindPort
    <3> QED
      BY <3>1, ServerDisturbs DEF OwnsItsFiles, ServerStages, PastCheck
  <2> QED
    BY <2>1, <2>2
<1>8. ASSUME NEW s \in Servers, Publish(s) PROVE UiInv'
  <2>1. /\ serving' \in [Servers -> ServerState]
        /\ \A r \in Servers :
             /\ serving'[r].port = serving[r].port
             /\ serving'[r].at = IF r = s THEN "published" ELSE serving[r].at
             /\ ~serving'[r].disturbed => ~serving[r].disturbed /\ (r = s \/ ~PastCheck(r))
    BY <1>8, ServerDisturbs DEF Publish, ServerStages
  <2>2. /\ portFile' = [by |-> s, port |-> serving[s].port] /\ serving[s].port \in Ports
        /\ UNCHANGED <<pidFile, wizard>>
    BY <1>8 DEF Publish, ServerState
  <2>3. UiTypeOK'
    BY <2>1, <2>2
  <2>4. OwnsItsFiles(s)'
    BY <1>8, <2>1, <2>2 DEF Publish, OwnsItsFiles
  <2>5. ASSUME NEW r \in Servers, r # s PROVE OwnsItsFiles(r)'
    BY <2>1, <2>2, <2>5 DEF OwnsItsFiles, PastCheck
  <2> QED
    BY <2>2, <2>3, <2>4, <2>5
<1>9. ASSUME NEW s \in Servers, StopServer(s) PROVE UiInv'
  BY <1>9, ServerDisturbs DEF StopServer, OwnsItsFiles, ServerStages, PastCheck
<1>10. ASSUME NEW s \in Servers, ReleasePid(s) PROVE UiInv'
  BY <1>10, ServerDisturbs DEF ReleasePid, OwnsItsFiles, ServerStages, PastCheck
<1>11. ASSUME NEW s \in Servers, ExitServer(s) PROVE UiInv'
  BY <1>11, ServerDisturbs DEF ExitServer, OwnsItsFiles, ServerStages, PastCheck
<1>12. ASSUME NEW s \in Servers, ServerDies(s) PROVE UiInv'
  BY <1>12, ServerIsKilled DEF ServerDies, OwnsItsFiles, ServerStages
<1>13. ASSUME NEW s \in Servers, SpawnServer(s) PROVE UiInv'
  <2>1. SpawnPorts \subseteq Ports
    BY DEF SpawnPorts, ServerState
  <2>2. PICK p \in Ports : serving' = [serving EXCEPT ![s].at = "locking", ![s].port = p]
    BY <1>13, <2>1 DEF SpawnServer
  <2>3. /\ serving' \in [Servers -> ServerState]
        /\ serving'[s].at = "locking"
        /\ \A r \in Servers : r # s => serving'[r] = serving[r]
    BY <2>1, <2>2 DEF ServerStages, ServerState
  <2> QED
    BY <1>13, <2>3 DEF SpawnServer, OwnsItsFiles
<1>14. CASE FindServer
  BY <1>14 DEF FindServer, OwnsItsFiles
<1>15. CASE CheckSpawned
  BY <1>15 DEF CheckSpawned, OwnsItsFiles
<1>16. CASE EndSetup
  <2> DEFINE s == wizard.server
  <2>1. wizard' \in [at : {"start", "spawning", "waiting", "open", "late", "done"},
                     server : Servers \cup {NoServer}] /\ UNCHANGED pidFile
    BY <1>16 DEF EndSetup
  <2>2. CASE s = NoServer \/ serving[s].at \in {"releasing", "exiting", "gone"}
    BY <1>16, <2>1, <2>2 DEF EndSetup, OwnsItsFiles
  <2>3. CASE s \in Servers /\ ServerAt(s, "published")
    <3>1. portFile' = NoPortFile /\ Disturbs(s, "releasing")
      BY <1>16, <2>3 DEF EndSetup
    <3> HIDE DEF s
    <3> QED
      BY <2>1, <2>3, <3>1, ServerDisturbs DEF OwnsItsFiles, ServerStages, PastCheck
  <2>4. CASE s \in Servers /\ serving[s].at \notin {"releasing", "exiting", "gone", "published"}
    <3>1. Dies(s) /\ UNCHANGED portFile
      BY <1>16, <2>4 DEF EndSetup
    <3> HIDE DEF s
    <3> QED
      BY <2>1, <2>4, <3>1, ServerIsKilled DEF OwnsItsFiles, ServerStages
  <2> QED
    BY <2>2, <2>3, <2>4
<1>17. CASE UNCHANGED uiVars
  BY <1>17 DEF uiVars, OwnsItsFiles
<1> QED
  BY <1>1, <1>2, <1>3, <1>4, <1>5, <1>6, <1>7, <1>8, <1>9, <1>10, <1>11, <1>12, <1>13, <1>14,
     <1>15, <1>16, <1>17 DEF UiNext

\* For any number of servers and ports: a published server that no other has disturbed is
\* named by both files. Its ownership of ui.pid starts with the creation of the file.
THEOREM UiInvariance == UiSpec => []UiInv
  BY UiInitInv, UiStep, PTL DEF UiSpec

\* A server whose start has not created ui.pid, or not yet, is not named by it.
Unnamed(s) ==
  serving[s].at \in {"off", "locking", "judging", "unlinking", "retaking", "rereading"} =>
    pidFile.by # s

NamesInv == UiTypeOK /\ FilesNameRunningServers /\ \A s \in Servers : Unnamed(s)

\* At first the files name a process that died before, or nobody.
LEMMA NamesInitInv == UiInit => NamesInv
<1> SUFFICES ASSUME UiInit PROVE NamesInv
  OBVIOUS
<1> USE UiAssumption DEF UiInit, NoPidFile, NoPortFile
<1>1. pidFile.by \in {Ghost, NoServer} /\ portFile.by \in {Ghost, NoServer}
  OBVIOUS
<1>2. UiTypeOK
  BY UiInitInv DEF UiInv
<1> QED
  BY <1>1, <1>2 DEF NamesInv, FilesNameRunningServers, Killed, Unnamed

\* A server that ends has removed the files that name it, is not named, or was killed.
LEMMA NamesStep == NamesInv /\ UiTypeOK' /\ [UiNext]_uiVars => NamesInv'
<1> SUFFICES ASSUME NamesInv, UiTypeOK', [UiNext]_uiVars PROVE NamesInv'
  OBVIOUS
<1> USE UiAssumption DEF NamesInv, FilesNameRunningServers, Unnamed, Killed, Runs, ServerAt,
        NoPidFile, NoPortFile
<1>1. ASSUME NEW s \in Servers, NEW p \in Ports, StartServer(s, p) PROVE NamesInv'
  <2>1. \A r \in Servers : /\ serving'[r].killed = serving[r].killed
                          /\ serving'[r].at = IF r = s THEN "locking" ELSE serving[r].at
    BY <1>1 DEF StartServer, UiTypeOK, ServerState
  <2> QED
    BY <1>1, <2>1 DEF StartServer
<1>2. ASSUME NEW s \in Servers, CreatePid(s) PROVE NamesInv'
  <2>1. CASE pidFile = NoPidFile
    BY <1>2, <2>1, ServerMoves DEF CreatePid, ServerStages
  <2>2. CASE pidFile # NoPidFile
    BY <1>2, <2>2, ServerMoves DEF CreatePid, ServerStages
  <2> QED
    BY <2>1, <2>2
<1>3. ASSUME NEW s \in Servers, FillPid(s) PROVE NamesInv'
  <2>1. pidFile'.by = pidFile.by
    BY <1>3 DEF FillPid, UiTypeOK
  <2> QED
    BY <1>3, <2>1, ServerMoves DEF FillPid, ServerStages
<1>4. ASSUME NEW s \in Servers, JudgePid(s) PROVE NamesInv'
  BY <1>4, ServerMoves DEF JudgePid, ServerStages
<1>5. ASSUME NEW s \in Servers, UnlinkPid(s) PROVE NamesInv'
  BY <1>5, ServerMoves, ServerDisturbs DEF UnlinkPid, ServerStages
<1>6. ASSUME NEW s \in Servers, RereadPid(s) PROVE NamesInv'
  BY <1>6, ServerMoves DEF RereadPid, ServerStages
<1>7. ASSUME NEW s \in Servers, BindPort(s) PROVE NamesInv'
  <2>1. CASE ListenersOn(serving[s].port) = {}
    BY <1>7, <2>1, ServerMoves DEF BindPort, ServerStages
  <2>2. CASE ListenersOn(serving[s].port) # {}
    BY <1>7, <2>2, ServerDisturbs DEF BindPort, ServerStages
  <2> QED
    BY <2>1, <2>2
<1>8. ASSUME NEW s \in Servers, Publish(s) PROVE NamesInv'
  BY <1>8, ServerDisturbs DEF Publish, ServerStages
<1>9. ASSUME NEW s \in Servers, StopServer(s) PROVE NamesInv'
  BY <1>9, ServerDisturbs DEF StopServer, ServerStages
<1>10. ASSUME NEW s \in Servers, ReleasePid(s) PROVE NamesInv'
  BY <1>10, ServerDisturbs DEF ReleasePid, ServerStages
<1>11. ASSUME NEW s \in Servers, ExitServer(s) PROVE NamesInv'
  BY <1>11, ServerDisturbs DEF ExitServer, ServerStages
<1>12. ASSUME NEW s \in Servers, ServerDies(s) PROVE NamesInv'
  BY <1>12, ServerIsKilled DEF ServerDies
<1>13. ASSUME NEW s \in Servers, SpawnServer(s) PROVE NamesInv'
  <2>1. \A r \in Servers : /\ serving'[r].killed = serving[r].killed
                          /\ serving'[r].at = IF r = s THEN "locking" ELSE serving[r].at
    BY <1>13 DEF SpawnServer, UiTypeOK, ServerState
  <2> QED
    BY <1>13, <2>1 DEF SpawnServer
<1>14. CASE FindServer \/ CheckSpawned
  BY <1>14 DEF FindServer, CheckSpawned
<1>15. CASE EndSetup
  <2> DEFINE s == wizard.server
  <2>1. UNCHANGED pidFile
    BY <1>15 DEF EndSetup
  <2>2. CASE s = NoServer \/ serving[s].at \in {"releasing", "exiting", "gone"}
    BY <1>15, <2>1, <2>2 DEF EndSetup
  <2>3. CASE s \in Servers /\ serving[s].at = "published"
    <3>1. portFile' = NoPortFile /\ Disturbs(s, "releasing")
      BY <1>15, <2>3 DEF EndSetup
    <3> HIDE DEF s
    <3> QED
      BY <2>1, <2>3, <3>1, ServerDisturbs DEF ServerStages
  <2>4. CASE s \in Servers /\ serving[s].at \notin {"releasing", "exiting", "gone", "published"}
    <3>1. Dies(s) /\ UNCHANGED portFile
      BY <1>15, <2>4 DEF EndSetup
    <3> HIDE DEF s
    <3> QED
      BY <2>1, <2>4, <3>1, ServerIsKilled
  <2> QED
    BY <2>2, <2>3, <2>4 DEF UiTypeOK
<1>16. CASE UNCHANGED uiVars
  BY <1>16 DEF uiVars
<1> QED
  BY <1>1, <1>2, <1>3, <1>4, <1>5, <1>6, <1>7, <1>8, <1>9, <1>10, <1>11, <1>12, <1>13, <1>14,
     <1>15, <1>16 DEF UiNext

\* For any number of servers and ports: what ui.pid and ui.port name runs, unless it was
\* killed. A start that is refused, or fails, has created no file or removes it.
THEOREM NamesInvariance == UiSpec => []FilesNameRunningServers
<1>1. UiSpec => []UiTypeOK
  BY UiInvariance, PTL DEF UiInv
<1>2. NamesInv => FilesNameRunningServers
  BY DEF NamesInv
<1> QED
  BY <1>1, <1>2, NamesInitInv, NamesStep, PTL DEF UiSpec

-----------------------------------------------------------------------------
(***************************************************************************)
(* All parts together (MCStores).                                          *)
(***************************************************************************)

\* Every step of the whole is a step, or a stutter, of each part.
LEMMA StepsOfTheParts ==
  [StoresNext]_storeVars =>
    /\ [StoreNext]_fsVars /\ [CfgNext]_cfgVars /\ [AuditNext]_auditVars
    /\ [SkillFilesNext]_skillVars /\ [AdapterNext]_adapterVars /\ [UiNext]_uiVars
    /\ [LogNext]_logVars
  BY DEF StoresNext, Others, storeVars, fsVars, cfgVars, auditVars, skillVars, adapterVars,
     uiVars, logVars

\* The whole starts where the parts do.
LEMMA StartsOfTheParts ==
  StoresInit =>
    /\ StoreInit /\ CfgInit /\ AuditInit /\ SkillFilesInit /\ AdapterInit /\ UiInit /\ LogInit
  BY DEF StoresInit

\* Whatever part of the stores is at work: saves of a session keep their order, removals
\* spare live sessions and the trash is emptied.
THEOREM SessionsAreKept == StoresSpec => []SessionFilesAreKept
<1>1. StoresSpec => []FilesInv
  BY StartsOfTheParts, StepsOfTheParts, FilesInitInv, FilesStep, PTL DEF StoresSpec
<1>2. FilesInv => SessionFilesAreKept
  BY FilesInvKeepsSessions DEF FilesInv, SessionFilesAreKept
<1> QED
  BY <1>1, <1>2, PTL

\* The configuration is kept whole, and what was saved stays in it.
THEOREM ConfigurationIsKept == StoresSpec => []SavesKeepTheFile
<1>1. StoresSpec => []CfgInv
  BY StartsOfTheParts, StepsOfTheParts, CfgInitInv, CfgStep, PTL DEF StoresSpec
<1>2. CfgInv => SavesKeepTheFile
  BY DEF CfgInv
<1> QED
  BY <1>1, <1>2, PTL

\* What a cache hands out, of the configuration or of a skill, is what its file held since
\* it was asked.
THEOREM CachesAreCurrent == StoresSpec => []CachedLoadsAreCurrent
<1>1. StoresSpec => []CfgInv
  BY StartsOfTheParts, StepsOfTheParts, CfgInitInv, CfgStep, PTL DEF StoresSpec
<1>2. StoresSpec => []SkillInv
  BY StartsOfTheParts, StepsOfTheParts, SkillInitInv, SkillStep, PTL DEF StoresSpec
<1>3. CfgInv /\ SkillInv => CachedLoadsAreCurrent
  BY CfgTypedIsTypeOK DEF CfgInv, SkillInv, CachedLoadsAreCurrent
<1> QED
  BY <1>1, <1>2, <1>3, PTL

\* ui.pid and ui.port name a server that runs or was killed, and an undisturbed server that
\* is published; the adapter server that is named is the only one.
THEOREM ServersAreNamed == StoresSpec => []NamedServersRun
<1>1. StoresSpec => []UiInv
  BY StartsOfTheParts, StepsOfTheParts, UiInitInv, UiStep, PTL DEF StoresSpec
<1>2. AdapterInv /\ [AdapterNext]_adapterVars => AdapterInv'
  BY AdapterStep
<1>3. StoresSpec => []AdapterInv
  BY <1>2, StartsOfTheParts, StepsOfTheParts, AdapterInitInv, PTL DEF StoresSpec
<1>4. UiInv => UiTypeOK
  BY DEF UiInv
<1>5. StoresSpec => []NamesInv
  BY <1>1, <1>4, StartsOfTheParts, StepsOfTheParts, NamesInitInv, NamesStep, PTL DEF StoresSpec
<1>6. UiInv /\ NamesInv /\ AdapterInv => NamedServersRun
  BY UiInvNamesTheServer DEF UiInv, NamesInv, AdapterInv, NamedServersRun
<1> QED
  BY <1>1, <1>3, <1>5, <1>6, PTL

\* No recent part of a log is lost, and no line is sent twice.
THEOREM LogsStay == StoresSpec => []LogsAreKept
<1>1. StoresSpec => []AuditInv
  BY StartsOfTheParts, StepsOfTheParts, AuditInitInv, AuditStep, PTL DEF StoresSpec
<1>2. StoresSpec => []LogInv
  BY StartsOfTheParts, StepsOfTheParts, LogInitInv, LogStep, PTL DEF StoresSpec
<1>3. AuditInv /\ LogInv => LogsAreKept
  BY AuditInvKeepsRecent, LogInvTypes DEF AuditInv, LogsAreKept
<1> QED
  BY <1>1, <1>2, <1>3, PTL
=============================================================================

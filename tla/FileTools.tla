------------------------------ MODULE FileTools ------------------------------
(***************************************************************************)
(* The built-in tools that change files (tools/edit.ts, edit-files.ts,     *)
(* write-file.ts, notebook.ts, auto-memory.ts).  The calls of a turn run   *)
(* in parallel, in one process, and each reads its files, computes, and    *)
(* writes them back.                                                       *)
(*                                                                         *)
(* A file is the set of the edits that are in it: an edit applies to what  *)
(* lacks it, where its old string is found once.  Edits do not overlap.    *)
(***************************************************************************)
EXTENDS Naturals, Sequences

CONSTANTS Calls, Files, Edits,
          EditedFile,   \* the file of each edit
          Cut           \* stands for what a file holds between open and write

ASSUME FileToolsAssumption ==
  /\ EditedFile \in [Edits -> Files]
  /\ Cut \notin Edits

VARIABLES content,   \* what each file holds
          tmpOf,     \* its temporary file, if any; the name is that of the process
          call,      \* the calls
          alone      \* history: no other call has been active since the call began

toolVars == <<content, tmpOf, call, alone>>

Truncated == {Cut}
Contents == (SUBSET Edits) \cup {Truncated}
Kinds == {"edit", "note", "cells", "files", "write"}

\* A call: where it is, its entries (one edit each), what it has read, what it has written,
\* and whether a read or a restore has failed.
NoCall == [at |-> "idle", kind |-> "edit", entries |-> <<>>, seen |-> <<>>,
           written |-> 0, restored |-> 0, failed |-> FALSE]

FilesTypeOK ==
  /\ content \in [Files -> Contents]
  /\ tmpOf \in [Files -> {{}} \cup {{x} : x \in Contents}]
  /\ \A c \in Calls :
       /\ call[c].at \in {"idle", "reading", "opening", "filling", "renaming",
                          "restoring", "ok", "error"}
       /\ call[c].kind \in Kinds /\ call[c].entries \in Seq(Edits)
       /\ call[c].seen \in Seq(Contents) /\ call[c].failed \in BOOLEAN
       /\ call[c].restored <= call[c].written
       /\ call[c].written <= Len(call[c].entries)
  /\ alone \in [Calls -> BOOLEAN]

FilesInit ==
  /\ content \in [Files -> SUBSET Edits]
  /\ \A f \in Files : \A e \in content[f] : EditedFile[e] = f
  /\ tmpOf = [f \in Files |-> {}]
  /\ call = [c \in Calls |-> NoCall]
  /\ alone = [c \in Calls |-> FALSE]

Active(c) == call[c].at \notin {"idle", "ok", "error"}
FileAt(c, i) == EditedFile[call[c].entries[i]]
Update(c, changes) == call' = [call EXCEPT ![c] = changes]
Ends(c, result) == Update(c, [call[c] EXCEPT !.at = result])

-----------------------------------------------------------------------------

\* The model calls a tool, with an input that is well-formed and allowed;
\* edit_files may be given a file twice.
Begin(c, kind, entries) ==
  /\ call[c].at = "idle"
  /\ kind = "files" \/ Len(entries) = 1
  /\ Update(c, [NoCall EXCEPT !.kind = kind, !.entries = entries,
                              !.at = IF kind = "write" THEN "opening" ELSE "reading"])
  /\ alone' = [d \in Calls |-> d = c /\ \A b \in Calls \ {c} : ~Active(b)]
  /\ UNCHANGED <<content, tmpOf>>

-----------------------------------------------------------------------------
(***************************************************************************)
(* Reading and validating                                                  *)
(***************************************************************************)

\* Every old string is found, each entry judged by what was read.
Valid(entries, seen) ==
  \A i \in DOMAIN entries : seen[i] # Truncated /\ entries[i] \notin seen[i]

\* notebook_edit sets a cell of any notebook that can be parsed.
ParsesNotebook(seen) == \A i \in DOMAIN seen : seen[i] # Truncated

\* A section of notes is added or replaced, whatever is there.
Accepts(c, seen) ==
  \/ call[c].kind = "note"
  \/ call[c].kind = "cells" /\ ParsesNotebook(seen)
  \/ Valid(call[c].entries, seen)

\* The file is read; after the last one the edits are validated, without a
\* pause, and the first write begins.
ReadFile(c) ==
  LET i == Len(call[c].seen) + 1
      seen == Append(call[c].seen, content[FileAt(c, i)])
  IN  /\ call[c].at = "reading"
      /\ Update(c, [call[c] EXCEPT !.seen = seen,
           !.at = IF i < Len(call[c].entries) THEN "reading"
                  ELSE IF Accepts(c, seen) THEN "opening" ELSE "error"])
      /\ UNCHANGED <<content, tmpOf, alone>>

\* Or it has no such cell.  Notes take a file that cannot be read for one that
\* does not exist.
ReadFails(c) ==
  /\ call[c].at = "reading"
  /\ IF call[c].kind = "note"
       THEN Update(c, [call[c] EXCEPT !.seen = <<{}>>, !.failed = TRUE, !.at = "opening"])
       ELSE Ends(c, "error")
  /\ UNCHANGED <<content, tmpOf, alone>>

-----------------------------------------------------------------------------
(***************************************************************************)
(* Writing                                                                 *)
(***************************************************************************)

\* The writes of edit_files are a map by path: one per file, in the order of
\* the first entry of each, with the edits of its last.
WritesOf(entries) ==
  {i \in DOMAIN entries : \A j \in 1..(i - 1) : EditedFile[entries[j]] # EditedFile[entries[i]]}

NewContent(c, f) ==
  LET mine == {i \in DOMAIN call[c].entries : FileAt(c, i) = f}
      last == CHOOSE i \in mine : \A j \in mine : j <= i
      before == IF call[c].seen[last] = Truncated THEN {} ELSE call[c].seen[last]
  IN  IF call[c].kind = "write" THEN {} ELSE before \cup {call[c].entries[last]}

WriteAt(c) == CHOOSE i \in WritesOf(call[c].entries) :
                /\ i > call[c].written
                /\ \A j \in WritesOf(call[c].entries) : j > call[c].written => i <= j
Target(c) == FileAt(c, WriteAt(c))

\* fs.writeFile opens and truncates the file, edit_files a temporary one.
OpenFile(c) ==
  /\ call[c].at = "opening"
  /\ Update(c, [call[c] EXCEPT !.at = "filling"])
  /\ IF call[c].kind = "files"
       THEN tmpOf' = [tmpOf EXCEPT ![Target(c)] = {Truncated}] /\ UNCHANGED content
       ELSE content' = [content EXCEPT ![Target(c)] = Truncated] /\ UNCHANGED tmpOf
  /\ UNCHANGED alone

\* A temporary file that another call has renamed is the file itself; one that
\* another call has removed is nowhere.
FillFile(c) ==
  LET f == Target(c)
      x == NewContent(c, f)
  IN  /\ call[c].at = "filling"
      /\ IF call[c].kind # "files"
           THEN content' = [content EXCEPT ![f] = x] /\ UNCHANGED tmpOf
           ELSE IF tmpOf[f] # {}
           THEN tmpOf' = [tmpOf EXCEPT ![f] = {x}] /\ UNCHANGED content
           ELSE content' \in {content, [content EXCEPT ![f] = x]} /\ UNCHANGED tmpOf
      /\ Ends(c, IF call[c].kind = "files" THEN "renaming" ELSE "ok")
      /\ UNCHANGED alone

\* The next write, or the answer.
AfterWrite(c) ==
  IF \E i \in WritesOf(call[c].entries) : i > WriteAt(c) THEN "opening" ELSE "ok"

RenameFile(c) ==
  LET f == Target(c)
  IN  /\ call[c].at = "renaming" /\ tmpOf[f] # {}
      /\ content' = [content EXCEPT ![f] = CHOOSE x \in tmpOf[f] : TRUE]
      /\ tmpOf' = [tmpOf EXCEPT ![f] = {}]
      /\ Update(c, [call[c] EXCEPT !.written = WriteAt(c), !.at = AfterWrite(c)])
      /\ UNCHANGED alone

\* Mutant: what was written is not restored.
FailAndLeave(c) ==
  /\ call[c].at \in {"opening", "filling", "renaming"}
  /\ tmpOf' = IF call[c].kind = "files" THEN [tmpOf EXCEPT ![Target(c)] = {}] ELSE tmpOf
  /\ Ends(c, "error")
  /\ UNCHANGED <<content, alone>>

\* The disk is full, the file is protected, the temporary file is gone:
\* edit_files removes it and restores what it has written.
WriteFails(c) ==
  /\ call[c].at \in {"opening", "filling", "renaming"}
  /\ tmpOf' = IF call[c].kind = "files" THEN [tmpOf EXCEPT ![Target(c)] = {}] ELSE tmpOf
  /\ Ends(c, IF call[c].kind = "files" /\ call[c].written > 0 THEN "restoring" ELSE "error")
  /\ UNCHANGED <<content, alone>>

\* One file after the other, from what was read of it first.
RestoreFile(c) ==
  LET i == call[c].restored + 1
      f == FileAt(c, i)
      step == [call[c] EXCEPT !.restored = i,
                              !.at = IF i = call[c].written THEN "error" ELSE "restoring"]
  IN  /\ call[c].at = "restoring"
      /\ \/ content' = [content EXCEPT ![f] = call[c].seen[i]] /\ Update(c, step)
         \/ UNCHANGED content /\ Update(c, [step EXCEPT !.failed = TRUE])
      /\ UNCHANGED <<tmpOf, alone>>

-----------------------------------------------------------------------------

FilesNext == \E c \in Calls :
  \/ \E kind \in Kinds, entries \in {<<d>> : d \in Edits} \cup {<<d, e>> : d, e \in Edits} :
       Begin(c, kind, entries)
  \/ ReadFile(c) \/ ReadFails(c)
  \/ OpenFile(c) \/ FillFile(c) \/ RenameFile(c) \/ WriteFails(c) \/ RestoreFile(c)

FilesSpec == FilesInit /\ [][FilesNext]_toolVars

-----------------------------------------------------------------------------
(***************************************************************************)
(* Properties                                                              *)
(***************************************************************************)
EditsFinished(c) == alone[c] /\ call[c].at \in {"ok", "error"} /\ ~call[c].failed

\* "so the working tree is never left in a partially-edited state"
\* (edit-files.ts): an edit_files call that fails, and that no other call
\* ran beside, leaves every file it has read as it was.
FailedEditsLeaveNothing ==
  \A c \in Calls : EditsFinished(c) /\ call[c].kind = "files" /\ call[c].at = "error" =>
    \A i \in DOMAIN call[c].seen : content[FileAt(c, i)] = call[c].seen[i]
=============================================================================

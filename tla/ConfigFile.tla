----------------------------- MODULE ConfigFile -----------------------------
(***************************************************************************)
(* A file of the user's configuration: config.json, which the browser      *)
(* interface (ui-server.ts) and the setup wizard (setup.ts) rewrite, or    *)
(* settings.json, which the interface rewrites and runs load through a     *)
(* cache (settings.ts).                                                    *)
(*                                                                         *)
(* A content is the set of what has been saved into it: Hidden stands for  *)
(* the fields that no form shows, and each save adds its own.  A file that *)
(* is no JSON holds only Cut.  mtimeMs tells any two writes apart.         *)
(***************************************************************************)
EXTENDS Naturals, FiniteSets

CONSTANTS Requests,   \* saves by the interface, handled by one process
          Wizards,    \* saves by "orager setup"
          Loaders,    \* loads of the settings, in one process
          Hidden, Cut

Savers == Requests \cup Wizards

ASSUME ConfigAssumption ==
  /\ Requests \cap Wizards = {} /\ Hidden # Cut
  /\ Hidden \notin Savers /\ Cut \notin Savers

VARIABLES doc,      \* what the file holds
          tmpDoc,   \* the temporary file of each process: {its content}, {} if it is not there
          saving,   \* each save: where it is and what it has read
          cached,   \* the settings in memory: the content, and whether its mtime is the file's
          loading,  \* each load: where it is, whether the mtime it has read is the file's
          given,    \* history: each load has returned what was in the file since it began
          excused   \* history: "overlap", "shared", "broken" and "reset", as they happen

cfgVars == <<doc, tmpDoc, saving, cached, loading, given, excused>>

Torn == {Cut}
Docs == (SUBSET (Savers \cup {Hidden})) \cup {Torn}
Editors == {"interface"} \cup Wizards
ProcessFor(s) == IF s \in Requests THEN "interface" ELSE s

CfgTypeOK ==
  /\ doc \in Docs
  /\ \A p \in Editors : tmpDoc[p] \subseteq Docs /\ Cardinality(tmpDoc[p]) <= 1
  /\ saving \in [Savers -> [at : {"idle", "asking", "writing", "filling", "renaming", "ok", "error"},
                            seen : Docs]]
  /\ cached \in [content : Docs, current : BOOLEAN]
  /\ loading \in [Loaders -> {"idle", "current", "older"}]
  /\ given \in [Loaders -> BOOLEAN]
  /\ excused \subseteq {"overlap", "shared", "broken", "reset"}

CfgInit ==
  /\ doc = {Hidden}
  /\ tmpDoc = [p \in Editors |-> {}]
  /\ saving = [s \in Savers |-> [at |-> "idle", seen |-> {}]]
  /\ cached = [content |-> {}, current |-> FALSE]
  /\ loading = [l \in Loaders |-> "idle"]
  /\ given = [l \in Loaders |-> TRUE]
  /\ excused = {}

SaveAt(s, at) == saving[s].at = at
SaveTo(s, at) == saving' = [saving EXCEPT ![s].at = at]
Saves(s) == saving[s].at \in {"asking", "writing", "filling", "renaming"}
HasTmp(s) == saving[s].at \in {"filling", "renaming"}

\* The file changes, and its mtime.
DocBecomes(x) ==
  /\ doc' = x
  /\ cached' = [cached EXCEPT !.current = FALSE]
  /\ loading' = [l \in Loaders |-> IF loading[l] = "current" THEN "older" ELSE loading[l]]
SameDoc == UNCHANGED <<doc, cached, loading>>

-----------------------------------------------------------------------------
(***************************************************************************)
(* Saving: handlePostConfig and handlePostSettings read the file, merge    *)
(* the body into it and write it atomically; the wizard holds what it has  *)
(* read while it asks its questions.                                       *)
(***************************************************************************)

\* A file that cannot be parsed counts as the defaults.
ReadDoc(s) ==
  /\ SaveAt(s, "idle")
  /\ saving' = [saving EXCEPT ![s] =
       [at |-> IF s \in Wizards THEN "asking" ELSE "writing",
        seen |-> IF doc = Torn THEN {} ELSE doc]]
  /\ excused' = excused \cup (IF doc = Torn THEN {"broken"} ELSE {})
                        \cup (IF \E r \in Savers : Saves(r) THEN {"overlap"} ELSE {})
  /\ UNCHANGED <<tmpDoc, given>> /\ SameDoc

\* quickSetup and customSetup: the last question, each answer having gone into
\* what was read before the first.
Answered(s) ==
  /\ SaveAt(s, "asking")
  /\ SaveTo(s, "writing")
  /\ UNCHANGED <<tmpDoc, given, excused>> /\ SameDoc

\* resetConfig, confirmed: the defaults are written, whatever is there.
ResetDoc(s) ==
  /\ SaveAt(s, "idle")
  /\ saving' = [saving EXCEPT ![s] = [at |-> "writing", seen |-> {}]]
  /\ excused' = excused \cup {"reset"}
  /\ UNCHANGED <<tmpDoc, given>> /\ SameDoc

RunWizard(s) == Answered(s) \/ ResetDoc(s)

\* Mutant: the file itself is opened, and truncated.
OpenDoc(s) ==
  /\ SaveAt(s, "writing")
  /\ SaveTo(s, "filling")
  /\ tmpDoc' = [tmpDoc EXCEPT ![ProcessFor(s)] = {Torn}]
  /\ DocBecomes(Torn)
  /\ UNCHANGED <<given, excused>>

\* atomicWrite opens and truncates the temporary file, which has the name of
\* the process: two requests share it.
OpenTmp(s) ==
  /\ SaveAt(s, "writing")
  /\ SaveTo(s, "filling")
  /\ tmpDoc' = [tmpDoc EXCEPT ![ProcessFor(s)] = {Torn}]
  /\ excused' = IF \E r \in Savers \ {s} : HasTmp(r) /\ ProcessFor(r) = ProcessFor(s)
                  THEN excused \cup {"shared"} ELSE excused
  /\ UNCHANGED given /\ SameDoc

\* Into the file that was opened: if another request has renamed it, that is
\* the document, or one that has been replaced since.
FillTmp(s) ==
  LET x == saving[s].seen \cup {s}
      p == ProcessFor(s)
  IN  /\ SaveAt(s, "filling")
      /\ SaveTo(s, "renaming")
      /\ IF tmpDoc[p] # {}
           THEN tmpDoc' = [tmpDoc EXCEPT ![p] = {x}] /\ SameDoc
           ELSE (DocBecomes(x) \/ SameDoc) /\ UNCHANGED tmpDoc
      /\ UNCHANGED <<given, excused>>

RenameTmp(s) ==
  LET p == ProcessFor(s)
  IN  /\ SaveAt(s, "renaming")
      /\ IF tmpDoc[p] # {}
           THEN /\ SaveTo(s, "ok")
                /\ tmpDoc' = [tmpDoc EXCEPT ![p] = {}]
                /\ \E x \in tmpDoc[p] : DocBecomes(x)
           ELSE SaveTo(s, "error") /\ UNCHANGED tmpDoc /\ SameDoc
      /\ UNCHANGED <<given, excused>>

\* A write fails, the user cancels, or the process is killed.
SaveFails(s) ==
  /\ Saves(s)
  /\ SaveTo(s, "error")
  /\ UNCHANGED <<tmpDoc, given, excused>> /\ SameDoc

-----------------------------------------------------------------------------
(***************************************************************************)
(* Loading: loadSettings                                                   *)
(***************************************************************************)

\* The cached settings are returned if they have the mtime of the file.
StatDoc(l) ==
  /\ loading[l] = "idle"
  /\ IF cached.current
       THEN given' = [given EXCEPT ![l] = (cached.content = doc)] /\ UNCHANGED loading
       ELSE loading' = [loading EXCEPT ![l] = "current"] /\ UNCHANGED given
  /\ UNCHANGED <<doc, tmpDoc, saving, cached, excused>>

\* What is read is cached under the mtime from before, unless it is no JSON.
LoadDoc(l) ==
  /\ loading[l] # "idle"
  /\ cached' = IF doc = Torn THEN cached
               ELSE [content |-> doc, current |-> loading[l] = "current"]
  /\ loading' = [loading EXCEPT ![l] = "idle"]
  /\ UNCHANGED <<doc, tmpDoc, saving, given, excused>>

-----------------------------------------------------------------------------
CfgNext ==
  \/ \E s \in Savers :
       ReadDoc(s) \/ OpenTmp(s) \/ FillTmp(s) \/ RenameTmp(s) \/ SaveFails(s)
  \/ \E s \in Wizards : RunWizard(s)
  \/ \E l \in Loaders : StatDoc(l) \/ LoadDoc(l)

CfgSpec == CfgInit /\ [][CfgNext]_cfgVars

-----------------------------------------------------------------------------
(***************************************************************************)
(* Properties                                                              *)
(***************************************************************************)

\* The file is never torn, in whichever step a save is cut off and whatever
\* the wizard does meanwhile, unless two requests have shared the temporary
\* file; and what was saved stays, with the fields that no form shows,
\* unless two saves overlapped or the file was reset or found damaged.
SavesKeepTheFile ==
  /\ "shared" \in excused \/ doc # Torn
  /\ \/ excused # {}
     \/ {Hidden} \cup {s \in Savers : SaveAt(s, "ok")} \subseteq doc

\* A load returns what was in the file after it began, also if the file is
\* replaced between the look at its mtime and the reading.
LoadsAreCurrent == \A l \in Loaders : given[l]
=============================================================================

----------------------------- MODULE SkillFiles -----------------------------
(***************************************************************************)
(* The skills of a directory (skills.ts: loadSkillsFromDirs): loads, which *)
(* list the directory, look at the mtime of every SKILL.md and return the  *)
(* cached skills if they have these mtimes, beside changes to the files.   *)
(*                                                                         *)
(* What a cache or a load knows of a file is relative to the file as it is *)
(* now; mtimes tell any two writes apart.                                  *)
(***************************************************************************)
EXTENDS Naturals, FiniteSets

CONSTANTS SkillNames,   \* the directories that may hold a SKILL.md
          SkillLoads    \* loads, in one process

VARIABLES written,   \* the SKILL.md that are there
          kept,      \* the cache: the key and the skill of each name
          reading,   \* each load: where it is, and its key and skills
          changed,   \* history: the names whose file changed since a load began
          served,    \* history: the names of which a load returned what its file never was
          missed     \* history: names whose file could not be listed, looked at or
                       \* read, or came and went

skillVars == <<written, kept, reading, changed, served, missed>>

Keys == {"unlisted",                    \* no such directory,
         "missing", "now", "other"}     \* no file in it; its present mtime; another
Texts == {"none", "now", "old"}         \* no skill; what is in the file; another content

SkillFilesTypeOK ==
  /\ written \subseteq SkillNames /\ missed \subseteq SkillNames
  /\ kept \in [filled : BOOLEAN, key : [SkillNames -> Keys], text : [SkillNames -> Texts]]
  /\ reading \in [SkillLoads -> [at : {"idle", "stat", "read"}, left : SUBSET SkillNames,
                                key : [SkillNames -> Keys], text : [SkillNames -> Texts]]]
  /\ changed \in [SkillLoads -> SUBSET SkillNames]
  /\ served \in [SkillLoads -> SUBSET SkillNames]

NoKeys == [n \in SkillNames |-> "unlisted"]
NoTexts == [n \in SkillNames |-> "none"]
NotReading == [at |-> "idle", left |-> {}, key |-> NoKeys, text |-> NoTexts]

SkillFilesInit ==
  /\ written \in SUBSET SkillNames
  /\ kept = [filled |-> FALSE, key |-> NoKeys, text |-> NoTexts]
  /\ reading = [l \in SkillLoads |-> NotReading]
  /\ changed = [l \in SkillLoads |-> {}] /\ served = [l \in SkillLoads |-> {}]
  /\ missed = {}

KeyOf(n) == IF n \in written THEN "now" ELSE "missing"
TextOf(n) == IF n \in written THEN "now" ELSE "none"
Listed(key) == {n \in SkillNames : key[n] # "unlisted"}

-----------------------------------------------------------------------------
Outdated(x, n) ==
  [x EXCEPT !.key[n] = IF @ = "now" THEN "other" ELSE @,
            !.text[n] = IF @ = "now" THEN "old" ELSE @]

\* The file of n is written or removed.  One that came and went between two
\* looks at it has left no mtime.
ChangeSkill(n, there) ==
  /\ n \in written \/ there
  /\ written' = IF there THEN written \cup {n} ELSE written \ {n}
  /\ kept' = Outdated(kept, n)
  /\ reading' = [l \in SkillLoads |-> Outdated(reading[l], n)]
  /\ changed' = [l \in SkillLoads |-> IF reading[l].at = "idle" THEN {} ELSE changed[l] \cup {n}]
  /\ missed' = IF ~there /\ \E x \in {kept} \cup {reading[l] : l \in SkillLoads} :
                     x.key[n] = "missing" /\ x.text[n] # "none"
                 THEN missed \cup {n} ELSE missed
  /\ UNCHANGED served

\* readdir: the directories that are there, with a SKILL.md or without.  Until
\* the load has looked at them their key is that of no file.
BeginLoad(l, dirs) ==
  /\ reading[l].at = "idle" /\ written \subseteq dirs
  /\ reading' = [reading EXCEPT ![l] =
                   [at |-> "stat", left |-> dirs, text |-> NoTexts,
                    key |-> [n \in SkillNames |-> IF n \in dirs THEN "missing" ELSE "unlisted"]]]
  /\ changed' = [changed EXCEPT ![l] = {}]
  /\ UNCHANGED <<written, kept, served, missed>>

\* A directory that cannot be read has no skills, cached ones or not.
ListFails(l) ==
  /\ reading[l].at = "idle"
  /\ served' = [served EXCEPT ![l] = {}] /\ missed' = missed \cup written
  /\ UNCHANGED <<written, kept, reading, changed>>

\* buildMtimeKey: a file that cannot be looked at counts as missing.
StatSkill(l, n, fails) ==
  /\ reading[l].at = "stat" /\ n \in reading[l].left
  /\ reading' = [reading EXCEPT ![l].left = @ \ {n},
                                ![l].key[n] = IF fails THEN "missing" ELSE KeyOf(n)]
  /\ missed' = IF fails THEN missed \cup {n} ELSE missed
  /\ UNCHANGED <<written, kept, changed, served>>

\* What a load returns must have been in the files at some time since it began.
Serve(l, text) ==
  served' = [served EXCEPT ![l] =
               {n \in SkillNames \ (changed[l] \cup missed) : text[n] # TextOf(n)}]

\* Mutant: the number of skills is all that is compared.
CompareKeysByCount(l, expired) ==
  /\ reading[l].at = "stat" /\ reading[l].left = {}
  /\ IF /\ kept.filled /\ ~expired
        /\ Cardinality({n \in SkillNames : kept.key[n] \in {"now", "other"}})
             = Cardinality({n \in SkillNames : reading[l].key[n] \in {"now", "other"}})
       THEN Serve(l, kept.text) /\ reading' = [reading EXCEPT ![l] = NotReading]
       ELSE /\ reading' = [reading EXCEPT ![l].at = "read", ![l].left = Listed(reading[l].key)]
            /\ UNCHANGED served
  /\ UNCHANGED <<written, kept, changed, missed>>

\* The cached skills are returned if their key is the one just built, and if
\* they are neither too old nor marked by the watcher.  Two mtimes that the
\* file no longer has may be the same one.
CompareKeys(l, expired) ==
  /\ reading[l].at = "stat" /\ reading[l].left = {}
  /\ IF kept.filled /\ ~expired /\ kept.key = reading[l].key
       THEN Serve(l, kept.text) /\ reading' = [reading EXCEPT ![l] = NotReading]
       ELSE /\ reading' = [reading EXCEPT ![l].at = "read", ![l].left = Listed(reading[l].key)]
            /\ UNCHANGED served
  /\ UNCHANGED <<written, kept, changed, missed>>

\* A file that cannot be read is left out, for whatever reason.
ReadSkill(l, n, fails) ==
  /\ reading[l].at = "read" /\ n \in reading[l].left
  /\ reading' = [reading EXCEPT ![l].left = @ \ {n},
                                ![l].text[n] = IF fails THEN "none" ELSE TextOf(n)]
  /\ missed' = IF fails THEN missed \cup {n} ELSE missed
  /\ UNCHANGED <<written, kept, changed, served>>

\* The skills are cached under the key from before they were read.
StoreSkills(l) ==
  /\ reading[l].at = "read" /\ reading[l].left = {}
  /\ kept' = [filled |-> TRUE, key |-> reading[l].key, text |-> reading[l].text]
  /\ Serve(l, reading[l].text)
  /\ reading' = [reading EXCEPT ![l] = NotReading]
  /\ UNCHANGED <<written, changed, missed>>

SkillFilesNext ==
  \/ \E n \in SkillNames, there \in BOOLEAN : ChangeSkill(n, there)
  \/ \E l \in SkillLoads :
       \/ \E dirs \in SUBSET SkillNames : BeginLoad(l, dirs)
       \/ ListFails(l) \/ StoreSkills(l)
       \/ \E expired \in BOOLEAN : CompareKeys(l, expired)
       \/ \E n \in SkillNames, fails \in BOOLEAN : StatSkill(l, n, fails) \/ ReadSkill(l, n, fails)

SkillFilesSpec == SkillFilesInit /\ [][SkillFilesNext]_skillVars

-----------------------------------------------------------------------------
\* A load returns of every skill what was in its file at some time since the
\* load began, also when files change between the look at their mtimes and
\* the reading and another load stores its skills meanwhile; unless the file could
\* not be listed, looked at or read once, or came and went.
SkillsAreCurrent == \A l \in SkillLoads : served[l] = {}
=============================================================================

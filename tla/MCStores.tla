------------------------------ MODULE MCStores ------------------------------
(* What is kept on disk, one part at a time: the two session stores, the    *)
(* configuration, the skill files, the logs, the adapters of a trained      *)
(* model and the files that name a server.  The parts that are not looked   *)
(* at stay in one of their initial states.                                  *)
EXTENDS SessionStore, FileStore, ConfigFile, AuditLog, SkillFiles, LocalAdapter, UiServer, LogTail

VARIABLE part

storeVars == <<vars, fsVars, cfgVars, auditVars, skillVars, adapterVars, uiVars, logVars, part>>

Parts == {"jsonl", "files", "config", "audit", "skills", "adapter", "ui", "log"}

\* The variables of the parts but one.
Others(p) ==
  /\ part = p /\ part' = part
  /\ p # "jsonl" => UNCHANGED vars
  /\ p # "files" => UNCHANGED fsVars
  /\ p # "config" => UNCHANGED cfgVars
  /\ p # "audit" => UNCHANGED auditVars
  /\ p # "skills" => UNCHANGED skillVars
  /\ p # "adapter" => UNCHANGED adapterVars
  /\ p # "ui" => UNCHANGED uiVars
  /\ p # "log" => UNCHANGED logVars

StoresInit ==
  /\ part \in Parts
  /\ Init /\ StoreInit /\ CfgInit /\ AuditInit /\ SkillFilesInit
  /\ AdapterInit /\ UiInit /\ LogInit
  /\ part # "skills" => written = {}
  /\ part # "ui" => pidFile = NoPidFile
  /\ part # "log" => lines[1] = 0

StoresNext ==
  \/ part = "jsonl" /\ Next /\ Others("jsonl")
  \/ part = "files" /\ StoreNext /\ Others("files")
  \/ part = "config" /\ CfgNext /\ Others("config")
  \/ part = "audit" /\ AuditNext /\ Others("audit")
  \/ part = "skills" /\ SkillFilesNext /\ Others("skills")
  \/ part = "adapter" /\ AdapterNext /\ Others("adapter")
  \/ part = "ui" /\ UiNext /\ Others("ui")
  \/ part = "log" /\ LogNext /\ Others("log")

StoresSpec == StoresInit /\ [][StoresNext]_storeVars

\* Processes and sessions are alike in every part.
Symmetry == {p @@ q : p \in Permutations(Clients), q \in Permutations(Sessions)}

-----------------------------------------------------------------------------
\* The file store keeps the order of its saves, spares live sessions and empties
\* the trash (FileStore).
SessionFilesAreKept ==
  (part = "files" => StoreTypeOK) /\ SavesKeepTheirOrder /\ RemovalsSpareLiveSessions /\ TrashIsEmptied

\* What a cache hands out is what the file holds (ConfigFile, SkillFiles).
CachedLoadsAreCurrent ==
  /\ part = "config" => CfgTypeOK
  /\ part = "skills" => SkillFilesTypeOK
  /\ LoadsAreCurrent /\ SkillsAreCurrent

\* ui.pid and ui.port name a server that runs, unless it was killed, and a server that
\* runs, unless another came past the check of ui.pid too (UiServer); the server that
\* server.pid names is the only one, unless a resolve started one beside it (LocalAdapter).
NamedServersRun ==
  /\ part = "ui" => UiTypeOK
  /\ part = "adapter" => AdapterTypeOK
  /\ FilesNameRunningServers /\ FilesNameTheServer /\ NamedServerIsAlone

\* Of a log no recent part is lost (AuditLog) and no line is sent twice (LogTail).
LogsAreKept ==
  /\ part = "audit" => AuditTypeOK
  /\ part = "log" => LogTypeOK
  /\ RecentBackupsStay /\ LinesAreSentOnce
=============================================================================

------------------------------ MODULE AuditLog ------------------------------
(***************************************************************************)
(* The audit log (audit.ts), which every process appends to: the first     *)
(* entry opens the log and, beside that, makes its directory, renames a log *)
(* that has grown too long and removes the oldest of the renamed ones.     *)
(*                                                                         *)
(* A log file is a number, in the order in which they are created.         *)
(***************************************************************************)
EXTENDS Integers, FiniteSets

CONSTANTS Loggers,     \* processes
          MaxBackups,  \* AUDIT_MAX_BACKUPS
          MaxLogs      \* bound of the checks: log files ever created

ASSUME AuditAssumption == MaxBackups \in Nat \ {0} /\ MaxLogs \in Nat

VARIABLES dirThere,    \* the directory of the log exists
          created,     \* log files created so far
          live,        \* the file that has the log's name, 0 if there is none
          long,        \* files that have reached MAX_AUDIT_LOG_BYTES
          backups,     \* files that have been renamed and are still there
          sameSecond,  \* the last of them was renamed in this very second
          clobbered,   \* history: files that another took the name of
          prep,        \* each process: its ensureAuditDir, and what it is going to remove
          stream       \* each process: its stream, and the file that it writes to

auditVars == <<dirThere, created, live, long, backups, sameSecond, clobbered, prep, stream>>
filesVars == <<dirThere, created, live, long, backups, sameSecond, clobbered>>

Logs == 1..MaxLogs

AuditTypeOK ==
  /\ dirThere \in BOOLEAN /\ sameSecond \in BOOLEAN
  /\ created \in 0..MaxLogs /\ live \in 0..MaxLogs
  /\ long \subseteq Logs /\ backups \subseteq Logs /\ clobbered \subseteq Logs
  /\ prep \in [Loggers -> [at : {"idle", "making", "judging", "rotating", "listing", "pruning", "ready"},
                           doomed : SUBSET Logs]]
  /\ stream \in [Loggers -> [at : {"closed", "opening", "open", "failed"}, log : 0..MaxLogs]]

AuditInit ==
  /\ dirThere = FALSE /\ created = 0 /\ live = 0 /\ long = {} /\ backups = {}
  /\ sameSecond = FALSE /\ clobbered = {}
  /\ prep = [p \in Loggers |-> [at |-> "idle", doomed |-> {}]]
  /\ stream = [p \in Loggers |-> [at |-> "closed", log |-> 0]]

PrepAt(p, at) == prep[p].at = at
PrepTo(p, at) == prep' = [prep EXCEPT ![p].at = at]
StreamTo(p, at, log) == stream' = [stream EXCEPT ![p] = [at |-> at, log |-> log]]

-----------------------------------------------------------------------------
\* getStream, for the first entry of a process.
FirstEntry(p) ==
  /\ PrepAt(p, "idle")
  /\ PrepTo(p, "making")
  /\ StreamTo(p, "opening", 0)
  /\ UNCHANGED filesVars

\* createWriteStream opens the file as soon as it can, whatever
\* ensureAuditDir has done by then; after an error nothing opens it again.
OpenStream(p) ==
  /\ stream[p].at = "opening"
  /\ IF ~dirThere
       THEN StreamTo(p, "failed", 0) /\ UNCHANGED filesVars
       ELSE /\ live # 0 \/ created < MaxLogs
            /\ live' = IF live = 0 THEN created + 1 ELSE live
            /\ created' = IF live = 0 THEN created + 1 ELSE created
            /\ StreamTo(p, "open", live')
            /\ UNCHANGED <<dirThere, long, backups, sameSecond, clobbered>>
  /\ UNCHANGED prep

\* mkdir, whose failure is ignored.
MakeDir(p, made) ==
  /\ PrepAt(p, "making")
  /\ PrepTo(p, "judging")
  /\ dirThere' = (dirThere \/ made)
  /\ UNCHANGED <<created, live, long, backups, sameSecond, clobbered, stream>>

StatLog(p) ==
  /\ PrepAt(p, "judging")
  /\ PrepTo(p, IF live \in long THEN "rotating" ELSE "ready")
  /\ UNCHANGED <<filesVars, stream>>

\* The backup is named for the second: one of the same second is replaced.
\* Another process may have renamed the log since.
RenameLog(p) ==
  LET replaced == IF sameSecond THEN {b \in backups : \A c \in backups : c <= b} ELSE {}
  IN  /\ PrepAt(p, "rotating")
      /\ PrepTo(p, "listing")
      /\ IF live = 0
           THEN UNCHANGED filesVars
           ELSE /\ backups' = (backups \ replaced) \cup {live}
                /\ clobbered' = clobbered \cup replaced
                /\ live' = 0 /\ sameSecond' = TRUE
                /\ UNCHANGED <<dirThere, created, long>>
      /\ UNCHANGED stream

\* pruneAuditBackups: what is more than MaxBackups, the oldest.
ListBackups(p) ==
  /\ PrepAt(p, "listing")
  /\ prep' = [prep EXCEPT ![p] =
       [at |-> "pruning",
        doomed |-> {b \in backups : Cardinality({c \in backups : c > b}) >= MaxBackups}]]
  /\ UNCHANGED <<filesVars, stream>>

\* One by one; another process may have removed it.
RemoveBackup(p) ==
  /\ PrepAt(p, "pruning")
  /\ IF prep[p].doomed = {}
       THEN PrepTo(p, "ready") /\ UNCHANGED backups
       ELSE \E b \in prep[p].doomed :
              /\ \A c \in prep[p].doomed : b <= c
              /\ backups' = backups \ {b}
              /\ prep' = [prep EXCEPT ![p].doomed = @ \ {b}]
  /\ UNCHANGED <<dirThere, created, live, long, sameSecond, clobbered, stream>>

\* An entry waits for ensureAuditDir and goes where the stream leads to, the
\* log, a backup or a file that has been removed: this is the one that makes
\* it too long.
LogGrows(p) ==
  /\ PrepAt(p, "ready") /\ stream[p].at = "open"
  /\ long' = long \cup {stream[p].log}
  /\ UNCHANGED <<dirThere, created, live, backups, sameSecond, clobbered, prep, stream>>

\* The process ends, or is killed, and another takes its place.
LoggerEnds(p) ==
  /\ ~PrepAt(p, "idle")
  /\ prep' = [prep EXCEPT ![p] = [at |-> "idle", doomed |-> {}]]
  /\ StreamTo(p, "closed", 0)
  /\ UNCHANGED filesVars

SecondPasses ==
  /\ sameSecond
  /\ sameSecond' = FALSE
  /\ UNCHANGED <<dirThere, created, live, long, backups, clobbered, prep, stream>>

AuditNext ==
  \/ \E p \in Loggers :
       \/ FirstEntry(p) \/ OpenStream(p) \/ StatLog(p) \/ RenameLog(p)
       \/ ListBackups(p) \/ RemoveBackup(p) \/ LogGrows(p) \/ LoggerEnds(p)
       \/ \E made \in BOOLEAN : MakeDir(p, made)
  \/ SecondPasses

AuditSpec == AuditInit /\ [][AuditNext]_auditVars

-----------------------------------------------------------------------------
\* However many processes rotate the log and prune its backups at once, a
\* backup is only removed when MaxBackups later ones were made; one that lost
\* its name to a later one of the same second does not count.
RecentBackupsStay ==
  LET made == (1..created) \ (clobbered \cup {live})
  IN  \A b \in made \ backups : Cardinality({c \in made : c > b}) >= MaxBackups
=============================================================================

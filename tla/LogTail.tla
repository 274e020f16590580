------------------------------- MODULE LogTail ------------------------------
(***************************************************************************)
(* The log (logger.ts) and its live view (ui-server.ts, handleLogStream):  *)
(* processes append lines to the file of the day, and the server polls the *)
(* file that each of its clients tails and sends what has been added.      *)
(*                                                                         *)
(* Sizes are counted in lines, and a file without lines is one that is not *)
(* there.  fs.watchFile keeps one watcher for each file, whose listeners   *)
(* are called when a poll finds it changed since the poll before.          *)
(***************************************************************************)
EXTENDS Integers

CONSTANTS Tails,    \* clients of the stream
          MaxDay,   \* bound: days
          MaxLines  \* bound: lines of a day

ASSUME LogAssumption == MaxDay \in Nat \ {0} /\ MaxLines \in Nat \ {0}

VARIABLES day,        \* today
          lines,      \* the size of each day's file
          polled,     \* the size its watcher has last seen, Never before its first poll
          listeners,  \* of the watcher of each file
          tail,       \* each client: where it is, watchedFile, filePos
          stats,      \* the calls of readNewBytes: the file, and its size once that is known
          sent        \* history: the last line of each file sent to a client, and any sent twice

logVars == <<day, lines, polled, listeners, tail, stats, sent>>

Never == -1
Days == 1..MaxDay

LogTypeOK ==
  /\ day \in Days /\ lines \in [Days -> 0..MaxLines]
  /\ polled \in [Days -> Never..MaxLines] /\ listeners \in [Days -> SUBSET Tails]
  /\ tail \in [Tails -> [at : {"off", "connecting", "open", "closed"}, file : Days,
                         pos : 0..MaxLines]]
  /\ \A c \in Tails : stats[c] \subseteq [file : Days, size : Never..MaxLines]
  /\ sent \in [Tails -> [last : [Days -> 0..MaxLines], twice : BOOLEAN]]

LogInit ==
  /\ day = 1 /\ lines \in [Days -> {0, 1}] /\ \A d \in Days : d > 1 => lines[d] = 0
  /\ polled = [d \in Days |-> Never] /\ listeners = [d \in Days |-> {}]
  /\ tail = [c \in Tails |-> [at |-> "off", file |-> 1, pos |-> 0]]
  /\ stats = [c \in Tails |-> {}]
  /\ sent = [c \in Tails |-> [last |-> [d \in Days |-> 0], twice |-> FALSE]]

-----------------------------------------------------------------------------
(***************************************************************************)
(* The logger                                                              *)
(***************************************************************************)

\* logEvent: the date is looked up for each line.
WriteLine ==
  /\ lines[day] < MaxLines
  /\ lines' = [lines EXCEPT ![day] = @ + 1]
  /\ UNCHANGED <<day, polled, listeners, tail, stats, sent>>

Midnight ==
  /\ day < MaxDay
  /\ day' = day + 1
  /\ UNCHANGED <<lines, polled, listeners, tail, stats, sent>>

-----------------------------------------------------------------------------
(***************************************************************************)
(* The stream                                                              *)
(***************************************************************************)
Connect(c) ==
  /\ tail[c].at = "off"
  /\ tail' = [tail EXCEPT ![c] = [at |-> "connecting", file |-> day, pos |-> 0]]
  /\ UNCHANGED <<day, lines, polled, listeners, stats, sent>>

\* The size of the file is known, the rest of it is not sent; the watcher
\* will look at it for itself.
Watch(c) ==
  LET d == tail[c].file
  IN  /\ tail[c].at = "connecting"
      /\ tail' = [tail EXCEPT ![c].at = "open", ![c].pos = lines[d]]
      /\ listeners' = [listeners EXCEPT ![d] = @ \cup {c}]
      /\ sent' = [sent EXCEPT ![c].last[d] = lines[d]]
      /\ UNCHANGED <<day, lines, polled, stats>>

\* The first poll only remembers the size, or calls the listeners if there is
\* no file.
Changed(d) ==
  /\ listeners[d] # {}
  /\ IF polled[d] = Never THEN lines[d] = 0 ELSE polled[d] # lines[d]

BasePoll(d) ==
  /\ listeners[d] # {} /\ polled[d] = Never /\ lines[d] # 0
  /\ polled' = [polled EXCEPT ![d] = lines[d]]
  /\ UNCHANGED <<day, lines, listeners, tail, stats, sent>>

\* onFileChange of each listener: after midnight they switch to the file of
\* the day, from its start, then all ask for its size.
PollFile(d) ==
  /\ Changed(d)
  /\ LET ls == listeners[d]
         rolls == d # day
     IN  /\ listeners' = IF rolls THEN [listeners EXCEPT ![d] = {}, ![day] = @ \cup ls]
                         ELSE listeners
         /\ polled' = [polled EXCEPT ![d] = IF rolls THEN Never ELSE lines[d]]
         /\ tail' = [c \in Tails |-> IF c \in ls /\ rolls
                                       THEN [tail[c] EXCEPT !.file = day, !.pos = 0] ELSE tail[c]]
         /\ stats' = [c \in Tails |-> IF c \in ls
                                        THEN stats[c] \cup {[file |-> day, size |-> Never]}
                                        ELSE stats[c]]
  /\ UNCHANGED <<day, lines, sent>>

StatFile(c, s) ==
  /\ s \in stats[c] /\ s.size = Never
  /\ stats' = [stats EXCEPT ![c] = (@ \ {s}) \cup {[s EXCEPT !.size = lines[s.file]]}]
  /\ UNCHANGED <<day, lines, polled, listeners, tail, sent>>

SendFrom(c, s, pos) ==
  LET f == tail[c].file
  IN  /\ s \in stats[c] /\ s.size # Never
      /\ stats' = [stats EXCEPT ![c] = @ \ {s}]
      /\ IF s.size > pos
           THEN /\ tail' = [tail EXCEPT ![c].pos = s.size]
                /\ sent' = [sent EXCEPT ![c].twice = @ \/ sent[c].last[f] > pos,
                                        ![c].last[f] = IF s.size > lines[f] THEN lines[f] ELSE s.size]
           ELSE UNCHANGED <<tail, sent>>
      /\ UNCHANGED <<day, lines, polled, listeners>>

\* Mutant: the size is compared with the position that is read first.
SendAll(c, s) == SendFrom(c, s, 0)

\* After the await: what lies behind the position of now is read, in the file
\* that is watched now, and sent.
SendNew(c, s) == SendFrom(c, s, tail[c].pos)

\* fs.unwatchFile without a listener removes those of the other clients too.
Disconnect(c) ==
  /\ tail[c].at = "open"
  /\ tail' = [tail EXCEPT ![c].at = "closed"]
  /\ listeners' = [listeners EXCEPT ![tail[c].file] = {}]
  /\ polled' = [polled EXCEPT ![tail[c].file] = Never]
  /\ UNCHANGED <<day, lines, stats, sent>>

-----------------------------------------------------------------------------
Sends(c) == \E s \in stats[c] : StatFile(c, s) \/ SendNew(c, s)

LogNext ==
  \/ WriteLine \/ Midnight
  \/ \E d \in Days : BasePoll(d) \/ PollFile(d)
  \/ \E c \in Tails : Connect(c) \/ Watch(c) \/ Sends(c) \/ Disconnect(c)

\* The watcher polls twice a second, and file operations return.
LogFairness ==
  /\ \A d \in Days : WF_logVars(BasePoll(d)) /\ WF_logVars(PollFile(d))
  /\ \A c \in Tails : WF_logVars(Watch(c)) /\ WF_logVars(Sends(c))

LogSpec == LogInit /\ [][LogNext]_logVars /\ LogFairness

-----------------------------------------------------------------------------
(***************************************************************************)
(* Properties                                                              *)
(***************************************************************************)

\* No client gets a line twice, although its reads overlap and a read that
\* was begun before midnight may end after it.
LinesAreSentOnce == \A c \in Tails : ~sent[c].twice
=============================================================================

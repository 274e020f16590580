----------------------------- MODULE BrowserPool -----------------------------
(***************************************************************************)
(* The browsers of the browser tools (browser.ts): one for each session,   *)
(* launched by the first tool that needs it, shared by the calls of the    *)
(* session, closed by browser_close and by SIGTERM.  Tools of one turn run *)
(* side by side, and each await lets the others in.                        *)
(***************************************************************************)
EXTENDS Naturals, FiniteSets

CONSTANTS Users,          \* the calls
          PoolKeys,       \* sessions
          Browsers, NoBrowser

ASSUME PoolAssumption == NoBrowser \notin Browsers /\ PoolKeys # {}

VARIABLES pool,       \* _sessions: the browser of each session
          browsers,   \* which have been launched, which are closed
          using,      \* each call: where it is, for which session, with which browser
          leaving     \* the process: "no", "closing" after SIGTERM, "gone"

poolVars == <<pool, browsers, using, leaving>>

NotUsing == [at |-> "idle", key |-> CHOOSE k \in PoolKeys : TRUE, browser |-> NoBrowser]

PoolTypeOK ==
  /\ pool \in [PoolKeys -> Browsers \cup {NoBrowser}]
  /\ browsers \in [Browsers -> {"none", "open", "closed"}]
  /\ using \in [Users -> [at : {"idle", "launching", "using", "closing"}, key : PoolKeys,
                          browser : Browsers \cup {NoBrowser}]]
  /\ leaving \in {"no", "closing", "gone"}

PoolInit ==
  /\ pool = [k \in PoolKeys |-> NoBrowser]
  /\ browsers = [b \in Browsers |-> "none"]
  /\ using = [u \in Users |-> NotUsing]
  /\ leaving = "no"

Started(b) == browsers' = [browsers EXCEPT ![b] = "open"]
Rests(u) == using' = [using EXCEPT ![u] = NotUsing]

-----------------------------------------------------------------------------
\* getSession: the browser that is there, or a launch.
GetSession(k) == [at |-> IF pool[k] = NoBrowser THEN "launching" ELSE "using",
                  key |-> k, browser |-> pool[k]]

\* browser_navigate and the other tools, each of which opens a browser if there
\* is none.
GetBrowser(u, k) ==
  /\ using[u].at = "idle" /\ leaving # "gone"
  /\ using' = [using EXCEPT ![u] = GetSession(k)]
  /\ UNCHANGED <<pool, browsers, leaving>>

\* The pool's entry is set after three awaits, over whatever is there now.
Launch(u, b) ==
  /\ using[u].at = "launching" /\ browsers[b] = "none"
  /\ Started(b)
  /\ pool' = [pool EXCEPT ![using[u].key] = b]
  /\ using' = [using EXCEPT ![u].at = "using", ![u].browser = b]
  /\ UNCHANGED leaving

\* There is no Playwright or it fails; or the browser has been launched and
\* its context or its page fails.
LaunchFails(u) ==
  /\ using[u].at = "launching"
  /\ \/ UNCHANGED browsers
     \/ \E b \in Browsers : browsers[b] = "none" /\ Started(b)
  /\ Rests(u)
  /\ UNCHANGED <<pool, leaving>>

\* Done, failed, or the browser closed under it.
EndUse(u) ==
  /\ using[u].at = "using"
  /\ Rests(u)
  /\ UNCHANGED <<pool, browsers, leaving>>

\* browser_close and closeSession.
CloseSession(u, k) ==
  /\ using[u].at = "idle" /\ leaving # "gone" /\ pool[k] # NoBrowser
  /\ pool' = [pool EXCEPT ![k] = NoBrowser]
  /\ using' = [using EXCEPT ![u] = [at |-> "closing", key |-> k, browser |-> pool[k]]]
  /\ UNCHANGED <<browsers, leaving>>

BrowserCloses(u) ==
  /\ using[u].at = "closing"
  /\ browsers' = [browsers EXCEPT ![using[u].browser] = "closed"]
  /\ Rests(u)
  /\ UNCHANGED <<pool, leaving>>

\* SIGTERM, or the event loop has run dry.
CloseAll ==
  /\ leaving = "no"
  /\ leaving' = "closing"
  /\ pool' = [k \in PoolKeys |-> NoBrowser]
  /\ browsers' = [b \in Browsers |-> IF \E k \in PoolKeys : pool[k] = b THEN "closed" ELSE browsers[b]]
  /\ UNCHANGED using

\* When they have closed, or after five seconds: whatever the pool holds then
\* is closed without waiting, and the calls end.
LeaveProcess ==
  /\ leaving = "closing"
  /\ leaving' = "gone"
  /\ browsers' = [b \in Browsers |-> IF \E k \in PoolKeys : pool[k] = b THEN "closed" ELSE browsers[b]]
  /\ pool' = [k \in PoolKeys |-> NoBrowser]
  /\ using' = [u \in Users |-> NotUsing]

PoolNext ==
  \/ \E u \in Users :
       \/ \E k \in PoolKeys : GetBrowser(u, k) \/ CloseSession(u, k)
       \/ \E b \in Browsers : Launch(u, b)
       \/ LaunchFails(u) \/ EndUse(u) \/ BrowserCloses(u)
  \/ CloseAll \/ LeaveProcess

PoolSpec == PoolInit /\ [][PoolNext]_poolVars

-----------------------------------------------------------------------------
(***************************************************************************)
(* Properties                                                              *)
(***************************************************************************)

\* No call is handed a browser that has been closed, although one call may
\* close the browser of its session while others launch or look for one.
\* (Two first calls each launch a browser; the pool forgets the first.)
PooledBrowsersAreOpen ==
  \A k \in PoolKeys : pool[k] # NoBrowser => browsers[pool[k]] = "open"
=============================================================================

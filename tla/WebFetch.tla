------------------------------ MODULE WebFetch ------------------------------
(***************************************************************************)
(* One call of the web_fetch tool (tools/web-fetch.ts): redirects are      *)
(* followed one by one, the host of each is looked up first, and two       *)
(* timers of FETCH_TIMEOUT_MS bound the waits, one until the headers of the *)
(* last response, one for its body.  The server and the name server answer *)
(* when they like, or never.                                               *)
(***************************************************************************)
EXTENDS Naturals

CONSTANT MaxRedirects

ASSUME WebFetchAssumption == MaxRedirects \in Nat

VARIABLES fetch,     \* where the call is, its number of redirects and its method
          alarms     \* timers that are running

fetchVars == <<fetch, alarms>>

WebFetchTypeOK ==
  /\ fetch \in [at : {"idle", "resolving", "waiting", "checking", "reading", "ok", "error"},
                hop : 0..MaxRedirects, method : {"GET", "POST"}]
  /\ alarms \subseteq {"dns", "headers", "body"}

WebFetchInit ==
  /\ fetch = [at |-> "idle", hop |-> 0, method |-> "GET"]
  /\ alarms = {}

FetchAt(at) == fetch.at = at
FetchTo(at) == fetch' = [fetch EXCEPT !.at = at]

Request(hop, method) == fetch' = [at |-> "waiting", hop |-> hop, method |-> method]

-----------------------------------------------------------------------------
\* Arguments that are not accepted, or the first lookup of the host.
CallFetch(method, accepted) ==
  /\ FetchAt("idle")
  /\ fetch' = [fetch EXCEPT !.at = IF accepted THEN "resolving" ELSE "error", !.method = method]
  /\ alarms' = IF accepted THEN {"dns"} ELSE {}

\* isBlockedHost has the addresses, or no answer after 5 seconds.
HostResolved(blocked) ==
  /\ FetchAt("resolving")
  /\ IF blocked THEN FetchTo("error") /\ alarms' = {}
     ELSE Request(0, fetch.method) /\ alarms' = {"headers"}

\* safeFetch: a redirect is followed after its host was looked up, beside the
\* timer of the request.
Redirected ==
  /\ FetchAt("waiting")
  /\ IF fetch.hop = MaxRedirects
       THEN FetchTo("error") /\ alarms' = {}
       ELSE FetchTo("checking") /\ alarms' = alarms \cup {"dns"}

\* A fetch whose signal was aborted fails at once; 301, 302 and 303 turn the
\* request into a GET, 307 and 308 do not.
RedirectResolved(blocked, keeps) ==
  /\ FetchAt("checking")
  /\ IF blocked \/ "headers" \notin alarms
       THEN FetchTo("error") /\ alarms' = {}
       ELSE /\ Request(fetch.hop + 1, IF keeps THEN fetch.method ELSE "GET")
            /\ alarms' = alarms \ {"dns"}

\* The headers of a response that is no redirect, or an error.
HeadersArrive(usable) ==
  /\ FetchAt("waiting")
  /\ FetchTo(IF usable THEN "reading" ELSE "error")
  /\ alarms' = IF usable THEN {"body"} ELSE {}

BodyArrives(complete) ==
  /\ FetchAt("reading")
  /\ FetchTo(IF complete THEN "ok" ELSE "error")
  /\ alarms' = {}

\* A timer: that of the lookup lets the check go on without an answer, that of
\* the request aborts it, or the one that follows a lookup, and that of the
\* body gives up waiting.
AlarmRings(a) ==
  /\ a \in alarms
  /\ alarms' = alarms \ {a}
  /\ IF a = "dns" \/ FetchAt("checking") THEN UNCHANGED fetch ELSE FetchTo("error")

\* The lookup that was given up is the last thing to wait for.
LookupGivenUp ==
  /\ "dns" \notin alarms
  /\ \/ \E blocked \in BOOLEAN : HostResolved(blocked)
     \/ \E blocked, keeps \in BOOLEAN : RedirectResolved(blocked, keeps)

WebFetchNext ==
  \/ \E m \in {"GET", "POST"}, b \in BOOLEAN : CallFetch(m, b)
  \/ \E b \in BOOLEAN : HostResolved(b) \/ HeadersArrive(b) \/ BodyArrives(b)
  \/ Redirected
  \/ \E b, keeps \in BOOLEAN : RedirectResolved(b, keeps)
  \/ \E a \in {"dns", "headers", "body"} : AlarmRings(a)

\* Timers ring, and what they end goes on; nobody has to answer.
WebFetchFairness ==
  /\ \A a \in {"dns", "headers", "body"} : WF_fetchVars(AlarmRings(a))
  /\ WF_fetchVars(LookupGivenUp)

WebFetchSpec == WebFetchInit /\ [][WebFetchNext]_fetchVars /\ WebFetchFairness

-----------------------------------------------------------------------------
\* Every call of web_fetch ends, also if a server redirects it in circles or
\* sends its headers and then nothing, and no name is ever resolved.
FetchEnds == (fetch.at # "idle") ~> (fetch.at \in {"ok", "error"})
=============================================================================

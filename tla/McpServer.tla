------------------------------ MODULE McpServer ------------------------------
(***************************************************************************)
(* orager as an MCP server (mcp.ts): calls of run_agent side by side, and  *)
(* the shutdown that waits for the calls it has counted.  A call is let in *)
(* before an await and counted after it.                                   *)
(***************************************************************************)
EXTENDS Naturals, FiniteSets

CONSTANT AgentCalls

ASSUME McpServerAssumption == IsFiniteSet(AgentCalls)

VARIABLES agentCalls,       \* where each call is
          activeCallCount,
          stopping,         \* "no", "draining", "late" (the minute is over), "exited"
          received          \* signals that have arrived

serverVars == <<agentCalls, activeCallCount, stopping, received>>

McpServerTypeOK ==
  /\ agentCalls \in [AgentCalls -> {"new", "checking", "counted", "answered", "refused", "cut"}]
  /\ activeCallCount \in 0 .. Cardinality(AgentCalls)
  /\ stopping \in {"no", "draining", "late", "exited"}
  /\ received \subseteq {"TERM", "INT"}

McpServerInit ==
  /\ agentCalls = [c \in AgentCalls |-> "new"]
  /\ activeCallCount = 0
  /\ stopping = "no"
  /\ received = {}

CallTo(c, at) == agentCalls' = [agentCalls EXCEPT ![c] = at]

-----------------------------------------------------------------------------
\* Also without a key or a prompt, and with a directory that climbs.
RefuseCall(c) ==
  /\ agentCalls[c] = "new" /\ stopping # "exited"
  /\ CallTo(c, "refused")
  /\ UNCHANGED <<activeCallCount, stopping, received>>

AdmitCall(c) ==
  /\ agentCalls[c] = "new" /\ stopping = "no"
  /\ CallTo(c, "checking")
  /\ UNCHANGED <<activeCallCount, stopping, received>>

\* After fs.stat; nobody looks for the shutdown again.
CountCall(c) ==
  /\ agentCalls[c] = "checking"
  /\ \/ CallTo(c, "refused") /\ UNCHANGED activeCallCount
     \/ CallTo(c, "counted") /\ activeCallCount' = activeCallCount + 1
  /\ UNCHANGED <<stopping, received>>

\* runAgentLoop returns or throws.
EndCall(c) ==
  /\ agentCalls[c] = "counted"
  /\ CallTo(c, "answered")
  /\ activeCallCount' = activeCallCount - 1
  /\ UNCHANGED <<stopping, received>>

-----------------------------------------------------------------------------
Exit ==
  /\ stopping' = "exited"
  /\ agentCalls' = [c \in AgentCalls |->
       IF agentCalls[c] \in {"new", "checking", "counted"} THEN "cut" ELSE agentCalls[c]]
  /\ UNCHANGED activeCallCount

\* gracefulShutdown; SIGTERM also reaches the handler of browser.ts.
Signal(s) ==
  /\ stopping # "exited" /\ s \notin received
  /\ received' = received \cup {s}
  /\ IF stopping = "no" /\ activeCallCount = 0
       THEN Exit
       ELSE /\ stopping' = IF stopping = "no" THEN "draining" ELSE stopping
            /\ UNCHANGED <<agentCalls, activeCallCount>>

\* Twice a second.
PollCalls ==
  /\ stopping \in {"draining", "late"} /\ (activeCallCount = 0 \/ stopping = "late")
  /\ Exit /\ UNCHANGED received

MinutePasses ==
  /\ stopping = "draining"
  /\ stopping' = "late"
  /\ UNCHANGED <<agentCalls, activeCallCount, received>>

\* browser.ts: exits when the browsers have closed, at once if there are none.
BrowsersClosed ==
  /\ "TERM" \in received /\ stopping # "exited"
  /\ Exit /\ UNCHANGED received

McpServerNext ==
  \/ \E c \in AgentCalls : RefuseCall(c) \/ AdmitCall(c) \/ CountCall(c) \/ EndCall(c)
  \/ \E s \in {"TERM", "INT"} : Signal(s)
  \/ PollCalls \/ MinutePasses \/ BrowsersClosed

McpServerFairness == WF_serverVars(PollCalls) /\ WF_serverVars(MinutePasses)

McpServerSpec == McpServerInit /\ [][McpServerNext]_serverVars /\ McpServerFairness

-----------------------------------------------------------------------------
(***************************************************************************)
(* Properties                                                              *)
(***************************************************************************)

\* A call that is counted when SIGINT arrives is answered before the process
\* ends, unless it takes a minute; also when others are let in and counted
\* behind the signal.  (SIGTERM drains nothing: browser.ts ends the process.)
CountedCallsAreDrained ==
  [][stopping = "draining" /\ "TERM" \notin received' /\ stopping' = "exited" =>
       \A c \in AgentCalls : agentCalls[c] # "counted"]_serverVars

\* A shutdown ends although its calls may run for ever and new ones arrive.
ShutdownEnds == stopping = "draining" ~> stopping = "exited"
=============================================================================

----------------------------- MODULE McpClient ------------------------------
(***************************************************************************)
(* One MCP server over HTTP (mcp-client.ts): the connection with its       *)
(* attempts, the tool calls that run at once over one client, each with    *)
(* its timeout, its retries when the server limits the rate, and its       *)
(* reconnection when the connection is lost; and the end of the run, which *)
(* closes the client whatever the calls are doing.                         *)
(*                                                                         *)
(* A client is a number: 0 is the first, and each reconnection makes one.  *)
(***************************************************************************)
EXTENDS Naturals, FiniteSets

CONSTANTS Calls,           \* tool calls that run at once
          ConnectAttempts, \* connectAttempts
          CallRetries,     \* MCP_TOOL_CALL_RETRIES
          MaxReconnects,   \* MAX_RECONNECT_ATTEMPTS
          MaxClients       \* bound: clients made after the first

ASSUME McpAssumption ==
  /\ {ConnectAttempts, MaxReconnects} \subseteq Nat \ {0}
  /\ {CallRetries, MaxClients} \subseteq Nat

VARIABLES handle,     \* connectMcpServer: "connecting", "listing", "ready", "failed"
          attempt,    \* of the connection
          conn,       \* each client: "unmade", "opening", "open" or "closed"
          current,    \* this.client
          closed,     \* _closed
          reconnects, \* _reconnectAttempts
          call,       \* where each call is, and over which client
          limited,    \* rateLimitAttempt of each call
          done,       \* how often the server has carried out each call
          overlap     \* history: a reconnection overlapped another one, or close()

mcpVars == <<handle, attempt, conn, current, closed, reconnects, call, limited, done, overlap>>

Clients0 == 0..MaxClients
CallStages == {"idle", "calling", "recalling", "closing", "opening", "backoff", "answered", "failed"}

McpTypeOK ==
  /\ handle \in {"connecting", "listing", "ready", "failed"}
  /\ attempt \in 1..ConnectAttempts
  /\ conn \in [Clients0 -> {"unmade", "opening", "open", "closed"}]
  /\ current \in Clients0
  /\ closed \in BOOLEAN /\ overlap \in BOOLEAN
  /\ reconnects \in 0..MaxReconnects
  /\ call \in [Calls -> [at : CallStages, over : Clients0]]
  /\ limited \in [Calls -> 0..CallRetries]
  /\ done \in [Calls -> 0..(CallRetries + 2)]

McpInit ==
  /\ handle = "connecting" /\ attempt = 1
  /\ conn = [k \in Clients0 |-> IF k = 0 THEN "opening" ELSE "unmade"]
  /\ current = 0
  /\ closed = FALSE /\ overlap = FALSE
  /\ reconnects = 0
  /\ call = [c \in Calls |-> [at |-> "idle", over |-> 0]]
  /\ limited = [c \in Calls |-> 0]
  /\ done = [c \in Calls |-> 0]

connectVars == <<handle, attempt>>
callVars == <<call, limited, done>>
clientVars == <<conn, current, closed, reconnects, overlap>>

-----------------------------------------------------------------------------
(***************************************************************************)
(* connectMcpServer                                                        *)
(***************************************************************************)
ServerConnects ==
  /\ handle = "connecting"
  /\ handle' = "listing"
  /\ conn' = [conn EXCEPT ![0] = "open"]
  /\ UNCHANGED <<attempt, current, closed, reconnects, callVars, overlap>>

\* A rate limit or a refused connection is tried again; anything else, and a
\* "timed out after 10s", is not.
ConnectFails ==
  /\ handle = "connecting"
  /\ \/ attempt < ConnectAttempts /\ attempt' = attempt + 1 /\ UNCHANGED handle
     \/ handle' = "failed" /\ UNCHANGED attempt
  /\ UNCHANGED <<clientVars, callVars>>

\* The transport goes on connecting behind the promise that was given up.
LateConnect ==
  /\ handle = "failed" /\ conn[0] = "opening"
  /\ conn' = [conn EXCEPT ![0] = "open"]
  /\ overlap' = TRUE
  /\ UNCHANGED <<connectVars, current, closed, reconnects, callVars>>

ToolsListed ==
  /\ handle = "listing"
  /\ handle' = "ready"
  /\ UNCHANGED <<attempt, clientVars, callVars>>

\* listTools throws: the client is left as it is.
ListFails ==
  /\ handle = "listing"
  /\ handle' = "failed"
  /\ overlap' = TRUE
  /\ UNCHANGED <<attempt, conn, current, closed, reconnects, callVars>>

-----------------------------------------------------------------------------
(***************************************************************************)
(* callTool and _callWithReconnect                                         *)
(***************************************************************************)
CallGoes(c, stage, k) == call' = [call EXCEPT ![c] = [at |-> stage, over |-> k]]
Stage(c) == call[c].at
Over(c) == call[c].over

StartCall(c) ==
  /\ handle = "ready" /\ ~closed
  /\ Stage(c) = "idle"
  /\ CallGoes(c, "calling", current)
  /\ UNCHANGED <<connectVars, clientVars, limited, done>>

\* The server carries the call out, and the answer comes.
Answered(c) ==
  /\ Stage(c) \in {"calling", "recalling"}
  /\ conn[Over(c)] = "open"
  /\ done' = [done EXCEPT ![c] = @ + 1]
  /\ CallGoes(c, "answered", Over(c))
  /\ UNCHANGED <<connectVars, clientVars, limited>>

\* The timeout, or an error of the tool: after the call was carried out, or not.
ToolCallFails(c) ==
  /\ Stage(c) \in {"calling", "recalling"}
  /\ done' \in IF conn[Over(c)] = "open" THEN {done, [done EXCEPT ![c] = @ + 1]} ELSE {done}
  /\ CallGoes(c, "failed", Over(c))
  /\ UNCHANGED <<connectVars, clientVars, limited>>

\* After an error that speaks of a rate limit the call waits and starts over, a few times.
WaitsOrFails(c) ==
  IF ~closed /\ limited[c] < CallRetries
    THEN CallGoes(c, "backoff", Over(c)) /\ limited' = [limited EXCEPT ![c] = @ + 1]
    ELSE CallGoes(c, "failed", Over(c)) /\ UNCHANGED limited

RateLimited(c) ==
  /\ Stage(c) \in {"calling", "recalling"}
  /\ WaitsOrFails(c)
  /\ UNCHANGED <<connectVars, clientVars, done>>

\* Mutant: the call waits for a connection that may never be there again.
BackoffEndsIfOpen(c) ==
  /\ Stage(c) = "backoff" /\ conn[current] = "open"
  /\ CallGoes(c, "calling", current)
  /\ UNCHANGED <<connectVars, clientVars, limited, done>>

BackoffEnds(c) ==
  /\ Stage(c) = "backoff"
  /\ CallGoes(c, "calling", current)
  /\ UNCHANGED <<connectVars, clientVars, limited, done>>

Reconnecting == {c \in Calls : Stage(c) \in {"closing", "opening"}}

\* The connection is lost, before or after the server has carried out the
\* call: the client that is current by now is closed.  (Bound: MaxClients.)
LosesConnection(c) ==
  /\ Stage(c) \in {"calling", "recalling"}
  /\ conn[Over(c)] \in {"open", "closed"}
  /\ done' \in IF conn[Over(c)] = "open" THEN {done, [done EXCEPT ![c] = @ + 1]} ELSE {done}
  /\ IF Stage(c) = "calling" /\ ~closed /\ reconnects < MaxReconnects /\ current < MaxClients
       THEN /\ CallGoes(c, "closing", current)
            /\ reconnects' = reconnects + 1
            /\ overlap' = (overlap \/ Reconnecting # {})
       ELSE CallGoes(c, "failed", Over(c)) /\ UNCHANGED <<reconnects, overlap>>
  /\ UNCHANGED <<connectVars, conn, current, closed, limited>>

Closing(k) == conn' = [conn EXCEPT ![k] = "closed"]

\* Mutant: the old client is not closed.
MakesClientBeside(c) ==
  /\ Stage(c) = "closing"
  /\ current < MaxClients
  /\ current' = current + 1
  /\ conn' = [conn EXCEPT ![current + 1] = "opening"]
  /\ CallGoes(c, "opening", current + 1)
  /\ UNCHANGED <<connectVars, closed, reconnects, limited, done, overlap>>

\* _reconnect: the old client is closed, a new one takes its place and connects.
MakesClient(c) ==
  /\ Stage(c) = "closing"
  /\ current < MaxClients
  /\ current' = current + 1
  /\ conn' = [conn EXCEPT ![Over(c)] = "closed", ![current + 1] = "opening"]
  /\ CallGoes(c, "opening", current + 1)
  /\ UNCHANGED <<connectVars, closed, reconnects, limited, done, overlap>>

\* (Bound: there are no clients left.)
NoClientLeft(c) ==
  /\ Stage(c) = "closing" /\ current = MaxClients
  /\ Closing(Over(c))
  /\ CallGoes(c, "failed", Over(c))
  /\ UNCHANGED <<connectVars, current, closed, reconnects, limited, done, overlap>>

Reconnects(c) ==
  /\ Stage(c) = "opening" /\ conn[Over(c)] = "opening"
  /\ conn' = [conn EXCEPT ![Over(c)] = "open"]
  /\ reconnects' = 0
  /\ CallGoes(c, "recalling", current)
  /\ UNCHANGED <<connectVars, current, closed, limited, done, overlap>>

\* The new transport is closed as well.  The error tells what the server answered, which
\* may be a rate limit: the call then starts over with a client that is not connected.
ReconnectFails(c) ==
  /\ Stage(c) = "opening"
  /\ Closing(Over(c))
  /\ \/ CallGoes(c, "failed", Over(c)) /\ UNCHANGED limited
     \/ WaitsOrFails(c)
  /\ UNCHANGED <<connectVars, current, closed, reconnects, done, overlap>>

\* close(), at the end of the run: calls may be under way.
CloseHandle ==
  /\ handle = "ready" /\ ~closed
  /\ closed' = TRUE
  /\ Closing(current)
  /\ overlap' = (overlap \/ Reconnecting # {})
  /\ UNCHANGED <<connectVars, current, reconnects, callVars>>

McpNext ==
  \/ ServerConnects \/ ConnectFails \/ LateConnect \/ ToolsListed \/ ListFails \/ CloseHandle
  \/ \E c \in Calls : \/ StartCall(c) \/ Answered(c) \/ ToolCallFails(c) \/ RateLimited(c)
                      \/ BackoffEnds(c) \/ LosesConnection(c) \/ MakesClient(c)
                      \/ NoClientLeft(c) \/ Reconnects(c) \/ ReconnectFails(c)

\* A call's timeout fires, its delay ends, a connection succeeds or fails.
CallMoves(c) ==
  \/ Answered(c) \/ ToolCallFails(c) \/ RateLimited(c) \/ BackoffEnds(c) \/ LosesConnection(c)
  \/ MakesClient(c) \/ NoClientLeft(c) \/ Reconnects(c) \/ ReconnectFails(c)

McpSpec == McpInit /\ [][McpNext]_mcpVars /\ \A c \in Calls : WF_mcpVars(CallMoves(c))

-----------------------------------------------------------------------------
(***************************************************************************)
(* Properties                                                              *)
(***************************************************************************)
Quiet == \A c \in Calls : Stage(c) \in {"idle", "answered", "failed"}
Useless == {k \in Clients0 : conn[k] = "open" /\ (k # current \/ closed \/ handle = "failed")}

\* When no call is under way, no connection is open but the one in use, and
\* none after close() or a failure to connect - unless two reconnections
\* overlapped, close() met one, or the failure left the first client open.
ConnectionsAreClosed == (Quiet /\ ~overlap) => Useless = {}

\* A tool call that is repeated because its connection was lost may be carried
\* out again each time, but not more often than the retries allow.
RepeatedCallsBounded == \A c \in Calls : done[c] <= limited[c] + 2

\* Every call comes to an end, however often it is limited or cut off.
ToolCallEnds == \A c \in Calls : Stage(c) = "calling" ~> Stage(c) \in {"answered", "failed"}
=============================================================================

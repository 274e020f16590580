--------------------------- MODULE CircuitBreaker ---------------------------
(***************************************************************************)
(* The per-agent circuit breaker (circuit-breaker.ts) and the agent loops  *)
(* that consult it (loop.ts): the class CircuitBreaker, the map entry of   *)
(* one agent key with its idle eviction, and the runs of that key, each of *)
(* which looks its breaker up once and keeps the reference.                *)
(*                                                                         *)
(* Ages are kept instead of timestamps: how long ago a breaker opened and  *)
(* how long the entry has been unused, both saturating at the limit they   *)
(* are compared with.  consecutiveFailures saturates at the threshold,     *)
(* the only number it is compared with.                                    *)
(***************************************************************************)
EXTENDS Integers

CONSTANTS Runs,       \* concurrent runs of the agent (slots: a run ends, another starts)
          Breakers,   \* CircuitBreaker objects; an unreferenced one is garbage, and reusable
          None,       \* the map has no entry for the key; a run has no breaker yet
          Threshold,  \* threshold
          ResetAfter, \* resetAfterMs, in ticks
          EvictAfter  \* CB_IDLE_EVICT_MS, in ticks

ASSUME BreakerAssumption ==
  /\ None \notin Breakers
  /\ Threshold \in Nat \ {0}
  /\ ResetAfter \in Nat
  /\ EvictAfter \in Nat

VARIABLES state,       \* state of each breaker
          failures,    \* consecutiveFailures, up to the threshold
          openFor,     \* Date.now() - openedAt, up to ResetAfter
          inFlight,    \* _halfOpenInFlight
          entry,       \* _agentCircuitBreakers.get(key)
          unusedFor,   \* Date.now() - entry.lastUsed, up to EvictAfter
          stage,       \* "idle", "ready" between turns, "calling" the model
          cb           \* the breaker a run looked up

breakerVars == <<state, failures, openFor, inFlight>>
mapVars == <<entry, unusedFor>>
runVars == <<stage, cb>>
cbVars == <<breakerVars, mapVars, runVars>>

States == {"closed", "open", "half-open"}

BreakerTypeOK ==
  /\ state \in [Breakers -> States]
  /\ failures \in [Breakers -> 0..Threshold]
  /\ openFor \in [Breakers -> 0..ResetAfter]
  /\ inFlight \in [Breakers -> BOOLEAN]
  /\ entry \in Breakers \cup {None}
  /\ unusedFor \in 0..EvictAfter
  /\ stage \in [Runs -> {"idle", "ready", "calling"}]
  /\ cb \in [Runs -> Breakers \cup {None}]

BreakerInit ==
  /\ state = [b \in Breakers |-> "closed"]
  /\ failures = [b \in Breakers |-> 0]
  /\ openFor = [b \in Breakers |-> 0]
  /\ inFlight = [b \in Breakers |-> FALSE]
  /\ entry = None
  /\ unusedFor = 0
  /\ stage = [r \in Runs |-> "idle"]
  /\ cb = [r \in Runs |-> None]

\* Breakers that a run or the map refers to.
Referenced == {entry} \cup {cb[r] : r \in Runs}

-----------------------------------------------------------------------------
(***************************************************************************)
(* class CircuitBreaker                                                    *)
(***************************************************************************)

\* isOpen() returns false in state "closed".
AdmitClosed(b) ==
  /\ state[b] = "closed"
  /\ UNCHANGED breakerVars

\* Mutant: the breaker lets the test through without leaving "open".
AdmitProbeStaysOpen(b) ==
  /\ state[b] = "open" /\ openFor[b] = ResetAfter
  /\ inFlight' = [inFlight EXCEPT ![b] = TRUE]
  /\ UNCHANGED <<state, failures, openFor>>

\* isOpen() returns false and the caller's request is the test of the breaker.
AdmitProbe(b) ==
  /\ \/ state[b] = "open" /\ openFor[b] = ResetAfter
     \/ state[b] = "half-open" /\ ~inFlight[b]
  /\ state' = [state EXCEPT ![b] = "half-open"]
  /\ inFlight' = [inFlight EXCEPT ![b] = TRUE]
  /\ UNCHANGED <<failures, openFor>>

\* isOpen() returns true.
Blocked(b) ==
  \/ state[b] = "open" /\ openFor[b] < ResetAfter
  \/ state[b] = "half-open" /\ inFlight[b]

RecordSuccess(b) ==
  /\ inFlight' = [inFlight EXCEPT ![b] = FALSE]
  /\ failures' = [failures EXCEPT ![b] = 0]
  /\ state' = [state EXCEPT ![b] = "closed"]
  /\ UNCHANGED openFor

RecordFailure(b) ==
  LET n == IF failures[b] < Threshold THEN failures[b] + 1 ELSE Threshold
      opens == state[b] = "half-open" \/ n = Threshold
  IN /\ inFlight' = [inFlight EXCEPT ![b] = FALSE]
     /\ failures' = [failures EXCEPT ![b] = n]
     /\ state' = [state EXCEPT ![b] = IF opens THEN "open" ELSE @]
     /\ openFor' = [openFor EXCEPT ![b] = IF opens THEN 0 ELSE @]

-----------------------------------------------------------------------------
(***************************************************************************)
(* The runs                                                                *)
(***************************************************************************)

\* getAgentCircuitBreaker: the entry's breaker, or a new one.
StartKnown(r) ==
  /\ stage[r] = "idle"
  /\ entry # None
  /\ cb' = [cb EXCEPT ![r] = entry]
  /\ stage' = [stage EXCEPT ![r] = "ready"]
  /\ unusedFor' = 0
  /\ UNCHANGED <<breakerVars, entry>>

StartNew(r) ==
  /\ stage[r] = "idle"
  /\ entry = None
  /\ \E b \in Breakers \ Referenced :
       /\ entry' = b
       /\ cb' = [cb EXCEPT ![r] = b]
       /\ state' = [state EXCEPT ![b] = "closed"]
       /\ failures' = [failures EXCEPT ![b] = 0]
       /\ inFlight' = [inFlight EXCEPT ![b] = FALSE]
       /\ openFor' = [openFor EXCEPT ![b] = 0]
  /\ stage' = [stage EXCEPT ![r] = "ready"]
  /\ unusedFor' = 0

End(r) ==
  /\ stage' = [stage EXCEPT ![r] = "idle"]
  /\ cb' = [cb EXCEPT ![r] = None]

\* A turn begins: isOpen() lets it through ...
BeginTurn(r) ==
  /\ stage[r] = "ready"
  /\ AdmitClosed(cb[r]) \/ AdmitProbe(cb[r])
  /\ stage' = [stage EXCEPT ![r] = "calling"]
  /\ UNCHANGED <<mapVars, cb>>

\* ... or not: the run returns error_circuit_open and records nothing.
CircuitOpen(r) ==
  /\ stage[r] = "ready"
  /\ Blocked(cb[r])
  /\ End(r)
  /\ UNCHANGED <<breakerVars, mapVars>>

\* The model answered.
Answered(r) ==
  /\ stage[r] = "calling"
  /\ RecordSuccess(cb[r])
  /\ stage' = [stage EXCEPT ![r] = "ready"]
  /\ UNCHANGED <<mapVars, cb>>

\* Mutant: the cancelled call's run returns without recording it.
FailsSilently(r) ==
  /\ stage[r] \in {"ready", "calling"}
  /\ IF stage[r] = "calling" THEN UNCHANGED breakerVars ELSE RecordFailure(cb[r])
  /\ End(r)
  /\ UNCHANGED mapVars

\* Anything throws: the call, its cancellation, or a hook, a tool or an event
\* handler between two calls.  The loop's catch block records a failure.
RequestFails(r) ==
  /\ stage[r] \in {"ready", "calling"}
  /\ RecordFailure(cb[r])
  /\ End(r)
  /\ UNCHANGED mapVars

\* The run is over after a turn, for whatever reason that does not throw.
Finishes(r) ==
  /\ stage[r] = "ready"
  /\ End(r)
  /\ UNCHANGED <<breakerVars, mapVars>>

-----------------------------------------------------------------------------
\* The eviction timer.
Evict ==
  /\ entry # None
  /\ unusedFor = EvictAfter
  /\ entry' = None
  /\ UNCHANGED <<breakerVars, unusedFor, runVars>>

Tick ==
  /\ openFor' = [b \in Breakers |->
       IF state[b] = "open" /\ openFor[b] < ResetAfter THEN openFor[b] + 1 ELSE openFor[b]]
  /\ unusedFor' = IF entry # None /\ unusedFor < EvictAfter THEN unusedFor + 1 ELSE unusedFor
  /\ <<openFor, unusedFor>>' # <<openFor, unusedFor>>
  /\ UNCHANGED <<state, failures, inFlight, entry, runVars>>

Start(r) == StartKnown(r) \/ StartNew(r)
EndCall(r) == stage[r] = "calling" /\ (Answered(r) \/ RequestFails(r))

BreakerNext ==
  \/ \E r \in Runs :
       \/ Start(r) \/ BeginTurn(r) \/ CircuitOpen(r)
       \/ Answered(r) \/ RequestFails(r) \/ Finishes(r)
  \/ Evict
  \/ Tick

\* Every call ends (the client has timeouts), and time passes.
BreakerFairness ==
  /\ \A r \in Runs : WF_cbVars(EndCall(r))
  /\ WF_cbVars(Tick)

\* Somebody keeps using the agent: runs keep coming, and not every one of them
\* ends before it consults the breaker.
Demand ==
  \A r \in Runs : WF_cbVars(Start(r)) /\ SF_cbVars(BeginTurn(r) \/ CircuitOpen(r))

BreakerSpec == BreakerInit /\ [][BreakerNext]_cbVars
FairBreakerSpec == BreakerSpec /\ BreakerFairness /\ Demand

-----------------------------------------------------------------------------
(***************************************************************************)
(* Properties                                                              *)
(***************************************************************************)

InUse == Referenced \ {None}

\* A half-open breaker waits for a request that is really in flight: whoever
\* made it half-open, or a run admitted earlier, will record an outcome.  If
\* some exit of the loop forgot to record, every later call of the agent would
\* be rejected for ever.
ProbeIsInFlight ==
  \A b \in InUse : state[b] = "half-open" =>
    inFlight[b] /\ \E r \in Runs : stage[r] = "calling" /\ cb[r] = b

\* Outages are counted and forgotten consistently: a closed breaker is short of
\* the threshold, and one that is not closed has reached it or was half-open.
StreakBelowThreshold == \A b \in InUse : state[b] = "closed" => failures[b] < Threshold

\* From some point on, only calls fail, not what a run does between them.
OnlyCallsFail == <>[][\A r \in Runs : stage[r] = "ready" => ~RequestFails(r)]_cbVars

\* Requests are refused for a while only: with runs that keep coming, a breaker
\* in the map that opened is tested, closed or dropped.  Without OnlyCallsFail it
\* does not hold: each failure recorded by a run that never reaches isOpen(), in
\* a callback for instance, restarts the breaker's reset period.
OpenIsTested ==
  OnlyCallsFail =>
    \A b \in Breakers : (entry = b /\ state[b] = "open") ~> ~(entry = b /\ state[b] = "open")
=============================================================================

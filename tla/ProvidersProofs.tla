--------------------------- MODULE ProvidersProofs ---------------------------
(***************************************************************************)
(* Theorems about what stands between a run and the model services: the    *)
(* circuit breakers, the retries of a call and the caches of what is known *)
(* of the models, for any number of runs, calls, models, keys and limits.  *)
(***************************************************************************)
EXTENDS MCProviders, FiniteSetTheorems, TLAPS

-----------------------------------------------------------------------------
(***************************************************************************)
(* The circuit breakers (CircuitBreaker). A run between its start and its  *)
(* end has a breaker (RunsHaveBreakers); every outcome takes its breaker   *)
(* out of half-open, so the call that made it half-open, or an older one,  *)
(* is still in flight as long as it is half-open.                          *)
(***************************************************************************)

\* A run that has started and not ended refers to a breaker.
RunsHaveBreakers == \A r \in Runs : stage[r] # "idle" => cb[r] \in Breakers

BreakerInv == BreakerTypeOK /\ RunsHaveBreakers

\* Type correctness, and that a run at work has looked its breaker up.
THEOREM BreakersAreTyped == BreakerSpec => []BreakerInv
<1> USE BreakerAssumption
    DEF BreakerTypeOK, RunsHaveBreakers, BreakerInv, States, breakerVars, mapVars, runVars
<1>1. BreakerInit => BreakerInv
  BY DEF BreakerInit
<1>2. BreakerInv /\ [BreakerNext]_cbVars => BreakerInv'
  <2> SUFFICES ASSUME BreakerInv, [BreakerNext]_cbVars PROVE BreakerInv'
    OBVIOUS
  <2>1. ASSUME NEW r \in Runs, StartKnown(r) PROVE BreakerInv'
    BY <2>1 DEF StartKnown
  <2>2. ASSUME NEW r \in Runs, StartNew(r) PROVE BreakerInv'
    BY <2>2 DEF StartNew, Referenced
  <2>3. ASSUME NEW r \in Runs, BeginTurn(r) PROVE BreakerInv'
    BY <2>3 DEF BeginTurn, AdmitClosed, AdmitProbe
  <2>4. ASSUME NEW r \in Runs, CircuitOpen(r) PROVE BreakerInv'
    BY <2>4 DEF CircuitOpen, End
  <2>5. ASSUME NEW r \in Runs, Answered(r) PROVE BreakerInv'
    BY <2>5 DEF Answered, RecordSuccess
  <2>6. ASSUME NEW r \in Runs, RequestFails(r) PROVE BreakerInv'
    BY <2>6 DEF RequestFails, RecordFailure, End
  <2>7. ASSUME NEW r \in Runs, Finishes(r) PROVE BreakerInv'
    BY <2>7 DEF Finishes, End
  <2>8. CASE Evict
    BY <2>8 DEF Evict
  <2>9. CASE Tick
    BY <2>9 DEF Tick
  <2>10. CASE UNCHANGED cbVars
    BY <2>10 DEF cbVars
  <2> QED
    BY <2>1, <2>2, <2>3, <2>4, <2>5, <2>6, <2>7, <2>8, <2>9, <2>10
    DEF BreakerNext, Start
<1> QED
  BY <1>1, <1>2, PTL DEF BreakerSpec

\* A breaker that lets every call through has seen fewer than Threshold failures
\* in a row: the streak is counted up by failures only and forgotten by every
\* success, whichever runs they come from and in whatever order.
THEOREM StreakCounted == BreakerSpec => []StreakBelowThreshold
<1> USE BreakerAssumption
    DEF BreakerTypeOK, RunsHaveBreakers, BreakerInv, States, breakerVars, mapVars, runVars,
        StreakBelowThreshold, InUse, Referenced
<1>1. BreakerInit => StreakBelowThreshold
  BY DEF BreakerInit
<1>2. BreakerInv /\ StreakBelowThreshold /\ [BreakerNext]_cbVars => StreakBelowThreshold'
  <2> SUFFICES ASSUME BreakerInv, StreakBelowThreshold, [BreakerNext]_cbVars
               PROVE  StreakBelowThreshold'
    OBVIOUS
  <2>1. ASSUME NEW r \in Runs, StartKnown(r) PROVE StreakBelowThreshold'
    BY <2>1 DEF StartKnown
  <2>2. ASSUME NEW r \in Runs, StartNew(r) PROVE StreakBelowThreshold'
    BY <2>2 DEF StartNew
  <2>3. ASSUME NEW r \in Runs, BeginTurn(r) PROVE StreakBelowThreshold'
    BY <2>3 DEF BeginTurn, AdmitClosed, AdmitProbe
  <2>4. ASSUME NEW r \in Runs, CircuitOpen(r) PROVE StreakBelowThreshold'
    BY <2>4 DEF CircuitOpen, End
  <2>5. ASSUME NEW r \in Runs, Answered(r) PROVE StreakBelowThreshold'
    BY <2>5 DEF Answered, RecordSuccess
  <2>6. ASSUME NEW r \in Runs, RequestFails(r) PROVE StreakBelowThreshold'
    BY <2>6 DEF RequestFails, RecordFailure, End
  <2>7. ASSUME NEW r \in Runs, Finishes(r) PROVE StreakBelowThreshold'
    BY <2>7 DEF Finishes, End
  <2>8. CASE Evict
    BY <2>8 DEF Evict
  <2>9. CASE Tick
    BY <2>9 DEF Tick
  <2>10. CASE UNCHANGED cbVars
    BY <2>10 DEF cbVars
  <2> QED
    BY <2>1, <2>2, <2>3, <2>4, <2>5, <2>6, <2>7, <2>8, <2>9, <2>10
    DEF BreakerNext, Start
<1> QED
  BY <1>1, <1>2, BreakersAreTyped, PTL DEF BreakerSpec

\* A half-open breaker always has a request in flight that will decide it: no
\* sequence of answers, failures, rejected turns, finished runs and evictions
\* leaves it half-open with nobody to close or re-open it.
THEOREM ProbeDecides == BreakerSpec => []ProbeIsInFlight
<1> USE BreakerAssumption
    DEF BreakerTypeOK, RunsHaveBreakers, BreakerInv, States, breakerVars, mapVars, runVars,
        ProbeIsInFlight, InUse, Referenced
<1>1. BreakerInit => ProbeIsInFlight
  BY DEF BreakerInit
<1>2. BreakerInv /\ ProbeIsInFlight /\ [BreakerNext]_cbVars => ProbeIsInFlight'
  <2> SUFFICES ASSUME BreakerInv, ProbeIsInFlight, [BreakerNext]_cbVars
               PROVE  ProbeIsInFlight'
    OBVIOUS
  <2>1. ASSUME NEW r \in Runs, StartKnown(r) PROVE ProbeIsInFlight'
    BY <2>1 DEF StartKnown
  <2>2. ASSUME NEW r \in Runs, StartNew(r) PROVE ProbeIsInFlight'
    BY <2>2 DEF StartNew
  <2>3. ASSUME NEW r \in Runs, BeginTurn(r) PROVE ProbeIsInFlight'
    BY <2>3 DEF BeginTurn, AdmitClosed, AdmitProbe
  <2>4. ASSUME NEW r \in Runs, CircuitOpen(r) PROVE ProbeIsInFlight'
    BY <2>4 DEF CircuitOpen, End
  <2>5. ASSUME NEW r \in Runs, Answered(r) PROVE ProbeIsInFlight'
    BY <2>5 DEF Answered, RecordSuccess
  <2>6. ASSUME NEW r \in Runs, RequestFails(r) PROVE ProbeIsInFlight'
    BY <2>6 DEF RequestFails, RecordFailure, End
  <2>7. ASSUME NEW r \in Runs, Finishes(r) PROVE ProbeIsInFlight'
    BY <2>7 DEF Finishes, End
  <2>8. CASE Evict
    BY <2>8 DEF Evict
  <2>9. CASE Tick
    BY <2>9 DEF Tick
  <2>10. CASE UNCHANGED cbVars
    BY <2>10 DEF cbVars
  <2> QED
    BY <2>1, <2>2, <2>3, <2>4, <2>5, <2>6, <2>7, <2>8, <2>9, <2>10
    DEF BreakerNext, Start
<1> QED
  BY <1>1, <1>2, BreakersAreTyped, PTL DEF BreakerSpec

-----------------------------------------------------------------------------
(***************************************************************************)
(* Retries and rotation of models (Retry). There is one lemma for each     *)
(* action: it keeps the inductive invariant IInv.                          *)
(***************************************************************************)

\* TypeOK, in the shape the provers can use.
HealthTyped ==
  /\ streak \in [Models -> Nat] /\ requests \in [Models -> Nat] /\ errors \in [Models -> Nat]

Typed ==
  /\ HealthTyped
  /\ pc \in [Callers -> {"idle", "choosing", "gated", "calling", "backoff"}]
  /\ chain \in [Callers -> Chains \cup {<<>>}]
  /\ model \in [Callers -> Nat]
  /\ \A c \in Callers : pc[c] # "idle" => chain[c] \in Chains /\ model[c] \in 1..Len(chain[c])
  /\ key \in [Callers -> 0..(Keys - 1)]
  /\ attempt \in [Callers -> 0..MaxRetries]
  /\ retried \in [Callers -> BOOLEAN]
  /\ sent \in [Callers -> Nat] /\ onModel \in [Callers -> Nat]
  /\ gaveUp \in [Callers -> [class : Classes \cup {"none"}, attempt : Nat, left : Int]]
  /\ started \in 0..MaxStarted

\* Requests are counted: every one but the latest has had its attempt.
Counted ==
  \A c \in Callers :
    /\ pc[c] \in {"choosing", "gated"} => sent[c] = attempt[c]
    /\ pc[c] \in {"calling", "backoff"} => sent[c] = attempt[c] + 1
    /\ pc[c] = "backoff" => attempt[c] < MaxRetries
    /\ sent[c] <= MaxRetries + 1

\* A model marked as retried was asked before the current attempt.
Marked ==
  \A c \in Callers :
    /\ pc[c] = "calling" => onModel[c] >= IF retried[c] THEN 2 ELSE 1
    /\ pc[c] \in {"choosing", "gated", "backoff"} /\ retried[c] => onModel[c] >= 1

IInv == Typed /\ Counted /\ Marked /\ GivesUpLate

\* A chain is a sequence of at least one model.
LEMMA ChainFacts ==
  \A s \in Chains : Len(s) \in Nat /\ Len(s) >= 1 /\ DOMAIN s = 1..Len(s)
  BY RetryAssumption

\* The numbers the proofs compute with.
LEMMA Bounds ==
  /\ MaxRetries \in Nat
  /\ Keys \in Nat /\ Keys > 0 /\ 0 \in 0..(Keys - 1)
  /\ MaxStarted \in Nat
  BY RetryAssumption

\* Typed says what TypeOK says.
LEMMA TypedIsTypeOK == Typed => TypeOK
  BY ChainFacts DEF Typed, HealthTyped, TypeOK

\* Recording an outcome keeps the health table's type, whatever the model.
LEMMA RecordTyped ==
  ASSUME HealthTyped, NEW m, RecordProviderSuccess(m) \/ RecordProviderError(m) PROVE HealthTyped'
<1>1. ASSUME NEW f \in [Models -> Nat] PROVE [f EXCEPT ![m] = @ + 1] \in [Models -> Nat]
  <2>1. CASE m \in Models
    BY <2>1
  <2>2. CASE m \notin Models
    BY <2>2
  <2> QED BY <2>1, <2>2
<1> QED BY <1>1 DEF HealthTyped, RecordProviderSuccess, RecordProviderError

\* The invariant holds initially.
LEMMA InitInv == Init => IInv
  BY Bounds DEF Init, IInv, Typed, HealthTyped, Counted, Marked, GivesUpLate, Never, Classes

\* The start of a call keeps the invariant.
LEMMA BeginInv ==
  ASSUME IInv, NEW c \in Callers, Begin(c) PROVE IInv'
<1>1. Typed'
  BY ChainFacts, Bounds
  DEF IInv, Typed, HealthTyped, Begin, healthVars, Never, Classes
<1>2. Counted'
  BY Bounds DEF IInv, Typed, HealthTyped, Counted, Begin, healthVars
<1>3. Marked'
  BY DEF IInv, Typed, HealthTyped, Marked, Begin, healthVars
<1>4. GivesUpLate'
  BY DEF IInv, Typed, HealthTyped, GivesUpLate, Begin, Never
<1> QED BY <1>1, <1>2, <1>3, <1>4 DEF IInv

\* Settling on the current model keeps the invariant.
LEMMA ChooseInv ==
  ASSUME IInv, NEW c \in Callers, Choose(c) PROVE IInv'
<1>1. Typed'
  BY DEF IInv, Typed, HealthTyped, Choose, healthVars, stateVars, historyVars
<1>2. Counted'
  BY DEF IInv, Typed, HealthTyped, Counted, Choose, healthVars, stateVars, historyVars
<1>3. Marked'
  BY DEF IInv, Typed, HealthTyped, Marked, Choose, healthVars, stateVars, historyVars
<1>4. GivesUpLate'
  BY DEF IInv, Typed, HealthTyped, GivesUpLate, Choose, historyVars
<1> QED BY <1>1, <1>2, <1>3, <1>4 DEF IInv

\* Skipping degraded models keeps the invariant: no request is made.
LEMMA SkipInv ==
  ASSUME IInv, NEW c \in Callers, NEW i \in DOMAIN chain[c], SkipTo(c, i) PROVE IInv'
<1>0. i \in 1..Len(chain[c])
  BY ChainFacts DEF IInv, Typed, HealthTyped, SkipTo
<1>1. Typed'
  BY <1>0, Bounds DEF IInv, Typed, HealthTyped, SkipTo, MoveTo, healthVars
<1>2. Counted'
  BY DEF IInv, Typed, HealthTyped, Counted, SkipTo, MoveTo, healthVars
<1>3. Marked'
  BY DEF IInv, Typed, HealthTyped, Marked, SkipTo, MoveTo, healthVars
<1>4. GivesUpLate'
  BY DEF IInv, Typed, HealthTyped, GivesUpLate, SkipTo
<1> QED BY <1>1, <1>2, <1>3, <1>4 DEF IInv

\* A request keeps the invariant: it is counted, and the model was asked once more.
LEMMA SendInv ==
  ASSUME IInv, NEW c \in Callers, Send(c) PROVE IInv'
<1>1. Typed'
  BY DEF IInv, Typed, HealthTyped, Send, healthVars, stateVars
<1>2. Counted'
  BY Bounds DEF IInv, Typed, HealthTyped, Counted, Send, healthVars, stateVars
<1>3. Marked'
  BY DEF IInv, Typed, HealthTyped, Marked, Send, healthVars, stateVars
<1>4. GivesUpLate'
  BY DEF IInv, Typed, HealthTyped, GivesUpLate, Send
<1> QED BY <1>1, <1>2, <1>3, <1>4 DEF IInv

\* A success keeps the invariant.
LEMMA SucceedsInv ==
  ASSUME IInv, NEW c \in Callers, Succeeds(c) PROVE IInv'
<1>1. Typed'
  <2>1. HealthTyped'
    BY RecordTyped DEF IInv, Typed, Succeeds
  <2> QED BY <2>1 DEF IInv, Typed, Succeeds, stateVars, historyVars
<1>2. Counted'
  BY DEF IInv, Typed, HealthTyped, Counted, Succeeds, stateVars, historyVars
<1>3. Marked'
  BY DEF IInv, Typed, HealthTyped, Marked, Succeeds, stateVars, historyVars
<1>4. GivesUpLate'
  BY DEF IInv, Typed, HealthTyped, GivesUpLate, Succeeds, historyVars
<1> QED BY <1>1, <1>2, <1>3, <1>4 DEF IInv

\* Giving up keeps the invariant: a rate limit had no retry or no model left.
LEMMA SurfaceInv ==
  ASSUME IInv, NEW c \in Callers, NEW class \in Classes, Surface(c, class) PROVE IInv'
<1>0. /\ pc[c] = "calling" /\ Len(chain[c]) \in Nat /\ attempt[c] \in 0..MaxRetries
      /\ gaveUp' = [gaveUp EXCEPT ![c] = [class |-> class, attempt |-> attempt[c],
                                          left |-> Len(chain[c]) - model[c]]]
  BY ChainFacts DEF IInv, Typed, HealthTyped, Surface, FailsWith
<1>1. Typed'
  <2>1. HealthTyped'
    BY RecordTyped DEF IInv, Typed, Surface, FailsWith
  <2> QED BY <1>0, <2>1 DEF IInv, Typed, Surface, FailsWith, stateVars
<1>2. Counted'
  BY DEF IInv, Typed, HealthTyped, Counted, Surface, FailsWith, stateVars
<1>3. Marked'
  BY DEF IInv, Typed, HealthTyped, Marked, Surface, FailsWith, stateVars
<1>4. GivesUpLate'
  BY <1>0, Bounds
  DEF IInv, Typed, HealthTyped, GivesUpLate, Surface, Fallbacks, RetriesLeft, Rotates
<1> QED BY <1>1, <1>2, <1>3, <1>4 DEF IInv

\* Moving to the next model keeps the invariant.
LEMMA RotateInv ==
  ASSUME IInv, NEW c \in Callers, NEW class \in Classes, Rotate(c, class) PROVE IInv'
<1>0. /\ pc[c] = "calling" /\ chain[c] \in Chains /\ Len(chain[c]) \in Nat
      /\ model[c] + 1 \in 1..Len(chain[c])
      /\ attempt[c] + 1 \in 0..MaxRetries
  BY ChainFacts, Bounds
  DEF IInv, Typed, HealthTyped, Rotate, FailsWith, Fallbacks, Rotates, RetriesLeft
<1>1. Typed'
  <2>1. HealthTyped'
    BY RecordTyped DEF IInv, Typed, Rotate, FailsWith
  <2> QED BY <1>0, <2>1, Bounds DEF IInv, Typed, Rotate, MoveTo, FailsWith
<1>2. Counted'
  BY <1>0 DEF IInv, Typed, HealthTyped, Counted, Rotate, MoveTo
<1>3. Marked'
  BY <1>0 DEF IInv, Typed, HealthTyped, Marked, Rotate, MoveTo
<1>4. GivesUpLate'
  BY DEF IInv, Typed, HealthTyped, GivesUpLate, Rotate
<1> QED BY <1>1, <1>2, <1>3, <1>4 DEF IInv

\* A wait keeps the invariant: the current model was asked.
LEMMA BackOffInv ==
  ASSUME IInv, NEW c \in Callers, NEW class \in Classes, BackOff(c, class) PROVE IInv'
<1>0. /\ pc[c] = "calling" /\ key[c] \in 0..(Keys - 1)
      /\ (key[c] + 1) % Keys \in 0..(Keys - 1)
  BY Bounds DEF IInv, Typed, HealthTyped, BackOff, FailsWith
<1>1. Typed'
  <2>1. HealthTyped'
    BY RecordTyped DEF IInv, Typed, BackOff, FailsWith
  <2> QED BY <1>0, <2>1 DEF IInv, Typed, BackOff, FailsWith, historyVars
<1>2. Counted'
  BY <1>0, Bounds DEF IInv, Typed, HealthTyped, Counted, BackOff, RetriesLeft, historyVars
<1>3. Marked'
  BY <1>0 DEF IInv, Typed, HealthTyped, Marked, BackOff, historyVars
<1>4. GivesUpLate'
  BY DEF IInv, Typed, HealthTyped, GivesUpLate, BackOff, historyVars
<1> QED BY <1>1, <1>2, <1>3, <1>4 DEF IInv

\* The end of a wait keeps the invariant.
LEMMA WakeInv ==
  ASSUME IInv, NEW c \in Callers, Wake(c) PROVE IInv'
<1>0. pc[c] = "backoff" /\ attempt[c] + 1 \in 0..MaxRetries
  BY Bounds DEF IInv, Typed, HealthTyped, Counted, Wake
<1>1. Typed'
  BY <1>0 DEF IInv, Typed, HealthTyped, Wake, healthVars, historyVars
<1>2. Counted'
  BY <1>0 DEF IInv, Typed, HealthTyped, Counted, Wake, historyVars
<1>3. Marked'
  BY <1>0 DEF IInv, Typed, HealthTyped, Marked, Wake, historyVars
<1>4. GivesUpLate'
  BY DEF IInv, Typed, HealthTyped, GivesUpLate, Wake, historyVars
<1> QED BY <1>1, <1>2, <1>3, <1>4 DEF IInv

\* Forgetting a model's health keeps the invariant: no call depends on it.
LEMMA ForgetInv ==
  ASSUME IInv, NEW m \in Models, Forget(m) PROVE IInv'
  BY DEF IInv, Typed, HealthTyped, Counted, Marked, GivesUpLate, Forget, stateVars, historyVars

\* A stuttering step keeps the invariant.
LEMMA StutterInv == IInv /\ UNCHANGED vars => IInv'
  BY DEF IInv, Typed, HealthTyped, Counted, Marked, GivesUpLate, vars, healthVars, stateVars, historyVars

\* Every step keeps the invariant.
LEMMA NextInv == IInv /\ [Next]_vars => IInv'
  BY BeginInv, ChooseInv, SkipInv, SendInv, SucceedsInv, SurfaceInv, RotateInv, BackOffInv,
     WakeInv, ForgetInv, StutterInv
  DEF Next, Proceeds, Fails

\* The invariant of every behaviour.
THEOREM RetryInvariance == Spec => []IInv
  BY InitInv, NextInv, PTL DEF Spec

\* The state of every call keeps its type, however it skips, rotates and backs off.
THEOREM CallsAreTyped == Spec => []TypeOK
  <1>1. IInv => TypeOK
  BY TypedIsTypeOK DEF IInv
<1> QED BY <1>1, RetryInvariance, PTL

\* "Number of retries after the first attempt": a call never makes more than
\* maxRetries + 1 requests, for any chain of models and pool of keys.
THEOREM RequestsAreBounded == Spec => []RequestsBounded
<1>1. IInv => RequestsBounded
  BY DEF IInv, Counted, RequestsBounded
<1> QED BY <1>1, RetryInvariance, PTL

\* A rate limit reaches the caller only with no retry or no model left.
THEOREM LimitsAreHandled == Spec => []GivesUpLate
<1>1. IInv => GivesUpLate
  BY DEF IInv
<1> QED BY <1>1, RetryInvariance, PTL

\* No model is given up for the next one after a single request.
THEOREM ModelsAreRetried == Spec => RetriedBeforeRotation
<1> DEFINE Kept == \A c \in Callers :
                     pc[c] = "calling" /\ pc'[c] = "choosing" => onModel[c] >= 2
<1>1. ASSUME IInv, [Next]_vars PROVE [Kept]_vars
  <2>1. ASSUME NEW c \in Callers, pc[c] = "calling", pc'[c] = "choosing" PROVE onModel[c] >= 2
    <3>1. retried[c]
      BY <1>1, <2>1
      DEF IInv, Typed, HealthTyped, Next, Proceeds, Fails, Begin, Choose, SkipTo, Send, Succeeds, Surface,
          Rotate, BackOff, Wake, Forget, Rotates, vars
    <3> QED BY <1>1, <2>1, <3>1 DEF IInv, Marked
  <2> QED BY <2>1
<1> QED BY <1>1, RetryInvariance, PTL DEF Spec, RetriedBeforeRotation

-----------------------------------------------------------------------------
(***************************************************************************)
(* The caches of model metadata (ModelCache), and all three together       *)
(* (MCProviders).                                                          *)
(***************************************************************************)

\* A call that asks waits for its own request; one that asks for the context lengths is the
\* one that others join.
AskersAreJoined ==
  \A c \in Asking :
    calling[c].joined = c /\ (calling[c].cache = "context" => fetching["context"] = c)

\* The request that others join is under way, in the fields of its call.
JoinedIsAsking ==
  \A k \in Caches : fetching[k] # NoFetcher =>
    calling[fetching[k]].at = "asking" /\ calling[fetching[k]].cache = k

CacheInv == CacheTypeOK /\ AskersAreJoined /\ JoinedIsAsking

\* Nothing is asked for at first.
LEMMA CacheInitInv == CacheInit => CacheInv
<1> SUFFICES ASSUME CacheInit PROVE CacheInv
  OBVIOUS
<1>1. Resting \in [at : {"idle"}, cache : Caches, joined : {NoFetcher}]
  BY DEF Resting, Caches
<1>2. calling \in [Fetchers -> [at : {"idle", "disk", "asking", "joined"}, cache : Caches,
                                joined : Fetchers \cup {NoFetcher}]]
      /\ \A c \in Fetchers : calling[c].at = "idle"
  BY <1>1 DEF CacheInit
<1>3. CacheTypeOK
  BY <1>2 DEF CacheInit, CacheTypeOK
<1> QED
  BY <1>2, <1>3 DEF CacheInit, CacheInv, AskersAreJoined, JoinedIsAsking, Asking

\* What the property says of whole calls and of how many they are.
LEMMA CacheInvShares == CacheInv => InFlightIsRunning /\ ContextFetchedOnce
<1> SUFFICES ASSUME CacheInv PROVE InFlightIsRunning /\ ContextFetchedOnce
  OBVIOUS
<1>1. InFlightIsRunning
  <2>1. SUFFICES ASSUME NEW k \in Caches, fetching[k] # NoFetcher
                 PROVE  calling[fetching[k]] = [at |-> "asking", cache |-> k, joined |-> fetching[k]]
    BY DEF InFlightIsRunning
  <2> DEFINE c == fetching[k]
  <2>2. c \in Fetchers /\ calling[c].at = "asking" /\ calling[c].cache = k
    BY <2>1 DEF CacheInv, CacheTypeOK, JoinedIsAsking
  <2>3. calling[c].joined = c
    BY <2>2 DEF CacheInv, AskersAreJoined, Asking
  <2>4. calling[c] \in [at : {"idle", "disk", "asking", "joined"}, cache : Caches,
                        joined : Fetchers \cup {NoFetcher}]
    BY <2>2 DEF CacheInv, CacheTypeOK
  <2> HIDE DEF c
  <2>5. calling[c] = [at |-> "asking", cache |-> k, joined |-> c]
    BY <2>2, <2>3, <2>4
  <2> QED
    BY <2>5 DEF c
<1>2. ContextFetchedOnce
  <2> DEFINE S == {c \in Asking : calling[c].cache = "context"}
  <2>1. S \subseteq {fetching["context"]}
    BY DEF CacheInv, AskersAreJoined
  <2>2. Cardinality(S) <= Cardinality({fetching["context"]}) /\ Cardinality({fetching["context"]}) = 1
    BY <2>1, FS_Singleton, FS_Subset
  <2> QED
    BY <2>2 DEF ContextFetchedOnce
<1> QED
  BY <1>1, <1>2

\* A call starts a request of its own, of a cache that is not fetched, or of the rest.
LEMMA AskKeeps ==
  ASSUME CacheInv, NEW c \in Fetchers, NEW k \in Caches, Ask(c, k),
         calling[c].at \in {"idle", "disk"}, k = "context" => fetching[k] = NoFetcher
  PROVE  CacheInv'
<1>1. [at |-> "asking", cache |-> k, joined |-> c]
        \in [at : {"idle", "disk", "asking", "joined"}, cache : Caches, joined : Fetchers \cup {NoFetcher}]
  OBVIOUS
<1>2. /\ calling' \in [Fetchers -> [at : {"idle", "disk", "asking", "joined"}, cache : Caches,
                                    joined : Fetchers \cup {NoFetcher}]]
      /\ calling'[c].at = "asking" /\ calling'[c].cache = k /\ calling'[c].joined = c
      /\ \A d \in Fetchers : d # c => calling'[d] = calling[d]
  BY <1>1 DEF CacheInv, CacheTypeOK, Ask
<1>3. /\ fetching' \in [Caches -> Fetchers \cup {NoFetcher}] /\ fetching'[k] = c
      /\ \A l \in Caches : l # k => fetching'[l] = fetching[l]
  BY DEF CacheInv, CacheTypeOK, Ask
<1>4. CacheTypeOK'
  BY <1>2, <1>3 DEF CacheInv, CacheTypeOK, Ask
<1>5. ASSUME NEW d \in Asking'
      PROVE  calling'[d].joined = d /\ (calling'[d].cache = "context" => fetching'["context"] = d)
  <2>1. CASE d = c
    BY <1>2, <1>3, <2>1
  <2>2. CASE d # c
    <3>1. d \in Asking /\ calling'[d] = calling[d]
      BY <1>2, <2>2 DEF Asking
    <3>2. d \in Fetchers /\ d # NoFetcher
      BY <3>1, ModelCacheAssumption DEF Asking
    <3> QED
      BY <1>3, <3>1, <3>2 DEF CacheInv, AskersAreJoined, Caches
  <2> QED
    BY <2>1, <2>2
<1>6. JoinedIsAsking'
  BY <1>2, <1>3, ModelCacheAssumption DEF CacheInv, JoinedIsAsking, CacheTypeOK
<1> QED
  BY <1>4, <1>5, <1>6 DEF CacheInv, AskersAreJoined

\* A request is over, for its caller and for all who joined it.
LEMMA EndKeeps ==
  ASSUME CacheInv, NEW c \in Asking, calling' = Released(c),
         fetching' = [fetching EXCEPT ![calling[c].cache] = NoFetcher],
         filled' \in [Caches -> {"never", "fresh", "expired"}], onDisk' \in BOOLEAN
  PROVE  CacheInv'
<1>1. Resting \in [at : {"idle"}, cache : Caches, joined : {NoFetcher}] /\ Resting.at = "idle"
  BY DEF Resting, Caches
<1>2. /\ c \in Fetchers /\ calling[c].cache \in Caches /\ calling[c].joined = c
      /\ calling[c].cache = "context" => fetching["context"] = c
  BY DEF CacheInv, CacheTypeOK, Asking, AskersAreJoined
<1>3. /\ calling' \in [Fetchers -> [at : {"idle", "disk", "asking", "joined"}, cache : Caches,
                                    joined : Fetchers \cup {NoFetcher}]]
      /\ calling'[c] = Resting
      /\ \A d \in Fetchers : calling'[d] = Resting \/ calling'[d] = calling[d]
      /\ \A d \in Asking : d # c => calling'[d] = calling[d]
  <2> DEFINE Calls == [at : {"idle", "disk", "asking", "joined"}, cache : Caches,
                       joined : Fetchers \cup {NoFetcher}]
  <2>1. calling' = [d \in Fetchers |-> IF calling[d].joined = c THEN Resting ELSE calling[d]]
    BY DEF Released
  <2>2. Resting \in Calls /\ calling \in [Fetchers -> Calls]
    BY DEF CacheInv, CacheTypeOK, Resting, Caches
  <2>3. \A d \in Asking : d \in Fetchers /\ calling[d].joined = d
    BY DEF CacheInv, AskersAreJoined, Asking
  <2> HIDE DEF Calls
  <2>4. /\ calling' \in [Fetchers -> Calls] /\ calling'[c] = Resting
        /\ \A d \in Fetchers : calling'[d] = Resting \/ calling'[d] = calling[d]
        /\ \A d \in Asking : d # c => calling'[d] = calling[d]
    BY <1>2, <2>1, <2>2, <2>3
  <2> QED
    BY <2>4 DEF Calls
<1>4. /\ fetching' \in [Caches -> Fetchers \cup {NoFetcher}] /\ fetching'[calling[c].cache] = NoFetcher
      /\ \A l \in Caches : l # calling[c].cache => fetching'[l] = fetching[l]
  BY <1>2 DEF CacheInv, CacheTypeOK
<1>5. CacheTypeOK'
  BY <1>3, <1>4 DEF CacheTypeOK
<1>6. ASSUME NEW d \in Asking'
      PROVE  calling'[d].joined = d /\ (calling'[d].cache = "context" => fetching'["context"] = d)
  <2>1. d \in Asking /\ d # c /\ calling'[d] = calling[d]
    BY <1>1, <1>3 DEF Asking
  <2> QED
    BY <1>2, <1>4, <2>1 DEF CacheInv, AskersAreJoined, Caches
<1>7. ASSUME NEW k \in Caches, fetching'[k] # NoFetcher
      PROVE  calling'[fetching'[k]].at = "asking" /\ calling'[fetching'[k]].cache = k
  <2>1. k # calling[c].cache /\ fetching'[k] = fetching[k]
    BY <1>4, <1>7
  <2>2. fetching[k] \in Asking /\ calling[fetching[k]].cache = k
    BY <1>7, <2>1 DEF CacheInv, CacheTypeOK, JoinedIsAsking, Asking
  <2> QED
    BY <1>3, <2>1, <2>2 DEF Asking
<1> QED
  BY <1>5, <1>6, <1>7 DEF CacheInv, AskersAreJoined, JoinedIsAsking

\* A request is only replaced by another one, and forgotten when it, or a later one, is
\* over.
LEMMA CacheStep == CacheInv /\ [CacheNext]_cacheVars => CacheInv'
<1> SUFFICES ASSUME CacheInv, [CacheNext]_cacheVars PROVE CacheInv'
  OBVIOUS
<1>0. Resting \in [at : {"idle"}, cache : Caches, joined : {NoFetcher}] /\ Resting.at = "idle"
  BY DEF Resting, Caches
\* One call changes, from one that does not ask to one that does not.
<1>a. ASSUME NEW c \in Fetchers, NEW x, calling' = [calling EXCEPT ![c] = x],
             x \in [at : {"idle", "disk", "joined"}, cache : Caches, joined : Fetchers \cup {NoFetcher}],
             calling[c].at # "asking", fetching' = fetching, onDisk' = onDisk,
             filled' \in [Caches -> {"never", "fresh", "expired"}]
      PROVE  CacheInv'
  <2>1. /\ calling' \in [Fetchers -> [at : {"idle", "disk", "asking", "joined"}, cache : Caches,
                                      joined : Fetchers \cup {NoFetcher}]]
        /\ calling'[c].at # "asking" /\ \A d \in Fetchers : d # c => calling'[d] = calling[d]
    BY <1>a DEF CacheInv, CacheTypeOK
  <2>2. CacheTypeOK'
    BY <1>a, <2>1 DEF CacheInv, CacheTypeOK
  <2>3. AskersAreJoined'
    BY <1>a, <2>1 DEF CacheInv, AskersAreJoined, Asking
  <2>4. JoinedIsAsking'
    BY <1>a, <2>1 DEF CacheInv, CacheTypeOK, JoinedIsAsking
  <2> QED
    BY <2>2, <2>3, <2>4 DEF CacheInv
<1>1. ASSUME NEW c \in Fetchers, NEW k \in Caches, Join(c, k) PROVE CacheInv'
  <2> DEFINE x == [at |-> "joined", cache |-> k, joined |-> fetching[k]]
  <2>1. x \in [at : {"idle", "disk", "joined"}, cache : Caches, joined : Fetchers \cup {NoFetcher}]
    BY DEF CacheInv, CacheTypeOK
  <2>2. calling' = [calling EXCEPT ![c] = x] /\ calling[c].at # "asking" /\ UNCHANGED <<filled, onDisk, fetching>>
    BY <1>1 DEF Join
  <2> HIDE DEF x
  <2> QED
    BY <1>a, <2>1, <2>2 DEF CacheInv, CacheTypeOK
<1>2. ASSUME NEW c \in Fetchers, NEW k \in Caches, BeginFetch(c, k) PROVE CacheInv'
  <2>1. CASE k = "meta" /\ filled[k] = "never"
    <3> DEFINE x == [calling[c] EXCEPT !.at = "disk", !.cache = k]
    <3>1. x \in [at : {"idle", "disk", "joined"}, cache : Caches, joined : Fetchers \cup {NoFetcher}]
      BY DEF CacheInv, CacheTypeOK
    <3>2. calling' = [calling EXCEPT ![c] = x] /\ calling[c].at # "asking" /\ UNCHANGED <<filled, onDisk, fetching>>
      BY <1>2, <2>1 DEF BeginFetch
    <3> HIDE DEF x
    <3> QED
      BY <1>a, <3>1, <3>2 DEF CacheInv, CacheTypeOK
  <2>2. CASE ~(k = "meta" /\ filled[k] = "never")
    BY <1>2, <2>2, AskKeeps DEF BeginFetch
  <2> QED
    BY <2>1, <2>2
<1>3. ASSUME NEW c \in Fetchers, ReadDisk(c) PROVE CacheInv'
  <2>1. CASE Ask(c, "meta")
    BY <1>3, <2>1, AskKeeps DEF ReadDisk, Caches
  <2>2. CASE ~Ask(c, "meta")
    <3>1. /\ calling' = [calling EXCEPT ![c] = Resting] /\ calling[c].at # "asking"
          /\ filled' = [filled EXCEPT !["meta"] = "fresh"] /\ UNCHANGED <<onDisk, fetching>>
      BY <1>3, <2>2 DEF ReadDisk
    <3>2. filled' \in [Caches -> {"never", "fresh", "expired"}]
      BY <3>1 DEF CacheInv, CacheTypeOK
    <3> QED
      BY <1>0, <1>a, <3>1, <3>2
  <2> QED
    BY <2>1, <2>2
<1>4. ASSUME NEW c \in Asking, FetchFails(c) PROVE CacheInv'
  BY <1>4, EndKeeps DEF FetchFails, CacheInv, CacheTypeOK
<1>5. ASSUME NEW c \in Asking, FetchSucceeds(c) PROVE CacheInv'
  <2>1. filled' \in [Caches -> {"never", "fresh", "expired"}] /\ onDisk' \in BOOLEAN
    BY <1>5 DEF FetchSucceeds, CacheInv, CacheTypeOK
  <2> QED
    BY <1>5, <2>1, EndKeeps DEF FetchSucceeds
<1>6. ASSUME NEW k \in Caches, Expire(k) PROVE CacheInv'
  BY <1>6 DEF Expire, CacheInv, CacheTypeOK, AskersAreJoined, JoinedIsAsking, Asking
<1>7. CASE UNCHANGED cacheVars
  BY <1>7 DEF cacheVars, CacheInv, CacheTypeOK, AskersAreJoined, JoinedIsAsking, Asking
<1> QED
  BY <1>1, <1>2, <1>3, <1>4, <1>5, <1>6, <1>7 DEF CacheNext

\* For any number of calls: a request that calls join is under way, and there is one for
\* the context lengths at most.
THEOREM CacheInvariance == CacheSpec => []CacheInv
  BY CacheInitInv, CacheStep, PTL DEF CacheSpec

\* Every step of the whole is a step of the caches or a stutter.
LEMMA CacheSteps == [ProvidersNext]_providerVars => [CacheNext]_cacheVars
  BY DEF ProvidersNext, InBreaker, InRetry, InCache, providerVars, cacheVars

\* Requests for the metadata of models are shared while they run, and only then, for any
\* number of calls that overlap in any way.
THEOREM RequestsAreShared == ProvidersSpec => []FetchesAreShared
<1>1. ProvidersInit => CacheInit
  BY DEF ProvidersInit
<1>2. ProvidersSpec => []CacheInv
  BY <1>1, CacheSteps, CacheInitInv, CacheStep, PTL DEF ProvidersSpec
<1>3. CacheInv => FetchesAreShared
  BY CacheInvShares DEF CacheInv, FetchesAreShared
<1> QED
  BY <1>2, <1>3, PTL
==============================================================================

------------------------------- MODULE Retry --------------------------------
(***************************************************************************)
(* callWithRetry (retry.ts): one call of a model with its backoff, its     *)
(* rotation through API keys and fallback models, and the table of         *)
(* provider health (provider-health.ts) that all calls of the process      *)
(* share.  The wait for a rate limit (rate-limit-gate.ts) is a delay of    *)
(* at most a minute between choosing a model and calling it.               *)
(*                                                                         *)
(* An error has the class classifyError gives it.  An aborted call fails   *)
(* with an error of class "retry" like any other: nothing in retry.ts      *)
(* looks at the signal.                                                    *)
(***************************************************************************)
EXTENDS Integers, Sequences

CONSTANTS Callers,      \* concurrent calls (slots: one ends, another begins)
          Models,
          Chains,       \* [opts.model, ...opts.models] of the calls
          MaxRetries,   \* maxRetries
          Keys,         \* size of the key pool
          Streak,       \* consecutive errors of a degraded model (3)
          RateFloor,    \* requests before the error rate counts (5)
          MaxStarted    \* bound: calls begun

ASSUME RetryAssumption ==
  /\ Chains \subseteq Seq(Models) \ {<<>>}
  /\ MaxRetries \in Nat
  /\ {Keys, Streak, RateFloor, MaxStarted} \subseteq Nat \ {0}

VARIABLES streak,    \* consecutiveErrors of each model
          requests,  \* totalRequests
          errors,    \* errorCount
          pc,        \* where each call is
          chain,     \* its models
          model,     \* modelIndex + 1: the current one's place in the chain
          key,       \* keyIndex
          attempt,   \* state.attempt
          retried,   \* retriedCurrentModel
          sent,      \* history: requests made
          onModel,   \* history: requests made of the current model
          gaveUp,    \* history: how the latest call of a slot failed
          started    \* calls begun

healthVars == <<streak, requests, errors>>
stateVars == <<chain, model, key, attempt, retried>>
historyVars == <<sent, onModel, gaveUp, started>>
vars == <<healthVars, pc, stateVars, historyVars>>

Classes == {"fatal", "rotate", "retry"}

TypeOK ==
  /\ {streak, requests, errors} \subseteq [Models -> Nat]
  /\ pc \in [Callers -> {"idle", "choosing", "gated", "calling", "backoff"}]
  /\ chain \in [Callers -> Chains \cup {<<>>}]
  /\ model \in [Callers -> Nat]
  /\ \A c \in Callers : pc[c] # "idle" => model[c] \in DOMAIN chain[c]
  /\ key \in [Callers -> 0..(Keys - 1)]
  /\ attempt \in [Callers -> 0..MaxRetries]
  /\ retried \in [Callers -> BOOLEAN]
  /\ {sent, onModel} \subseteq [Callers -> Nat]
  /\ gaveUp \in [Callers -> [class : Classes \cup {"none"}, attempt : Nat, left : Int]]
  /\ started \in 0..MaxStarted

Never == [class |-> "none", attempt |-> 0, left |-> 0]

Init ==
  /\ streak = [m \in Models |-> 0]
  /\ requests = [m \in Models |-> 0]
  /\ errors = [m \in Models |-> 0]
  /\ pc = [c \in Callers |-> "idle"]
  /\ chain = [c \in Callers |-> <<>>]
  /\ model = [c \in Callers |-> 1]
  /\ key = [c \in Callers |-> 0]
  /\ attempt = [c \in Callers |-> 0]
  /\ retried = [c \in Callers |-> FALSE]
  /\ sent = [c \in Callers |-> 0]
  /\ onModel = [c \in Callers |-> 0]
  /\ gaveUp = [c \in Callers |-> Never]
  /\ started = 0

\* currentModel().
Current(c) == chain[c][model[c]]

\* The models of the chain that are left after the current one.
Fallbacks(c) == Len(chain[c]) - model[c]

-----------------------------------------------------------------------------
(***************************************************************************)
(* provider-health.ts                                                      *)
(***************************************************************************)

Degraded(m) ==
  \/ streak[m] >= Streak
  \/ requests[m] >= RateFloor /\ 2 * errors[m] > requests[m]

RecordProviderSuccess(m) ==
  /\ streak' = [streak EXCEPT ![m] = 0]
  /\ requests' = [requests EXCEPT ![m] = @ + 1]
  /\ UNCHANGED errors

RecordProviderError(m) ==
  /\ streak' = [streak EXCEPT ![m] = @ + 1]
  /\ requests' = [requests EXCEPT ![m] = @ + 1]
  /\ errors' = [errors EXCEPT ![m] = @ + 1]

\* The first request of yet another model drops the entries that were not used
\* for STATS_TTL_MS, or the least recently used one of too many.
Forget(m) ==
  /\ requests[m] > 0
  /\ streak' = [streak EXCEPT ![m] = 0]
  /\ requests' = [requests EXCEPT ![m] = 0]
  /\ errors' = [errors EXCEPT ![m] = 0]
  /\ UNCHANGED <<pc, stateVars, historyVars>>

-----------------------------------------------------------------------------
(***************************************************************************)
(* callWithRetry                                                           *)
(***************************************************************************)

Begin(c) ==
  /\ pc[c] = "idle" /\ started < MaxStarted
  /\ \E models \in Chains : chain' = [chain EXCEPT ![c] = models]
  /\ started' = started + 1
  /\ model' = [model EXCEPT ![c] = 1]
  /\ key' = [key EXCEPT ![c] = 0]
  /\ attempt' = [attempt EXCEPT ![c] = 0]
  /\ retried' = [retried EXCEPT ![c] = FALSE]
  /\ sent' = [sent EXCEPT ![c] = 0]
  /\ onModel' = [onModel EXCEPT ![c] = 0]
  /\ gaveUp' = [gaveUp EXCEPT ![c] = Never]
  /\ pc' = [pc EXCEPT ![c] = "choosing"]
  /\ UNCHANGED healthVars

\* Mutant: the new model counts as retried.
MoveToKeepsRetried(c, i) ==
  /\ model' = [model EXCEPT ![c] = i]
  /\ key' = [key EXCEPT ![c] = 0]
  /\ onModel' = [onModel EXCEPT ![c] = 0]
  /\ UNCHANGED retried

\* The call moves on to the model at place i of its chain.
MoveTo(c, i) ==
  /\ model' = [model EXCEPT ![c] = i]
  /\ key' = [key EXCEPT ![c] = 0]
  /\ retried' = [retried EXCEPT ![c] = FALSE]
  /\ onModel' = [onModel EXCEPT ![c] = 0]

\* The current model is good enough: it is not degraded, or it is the last ...
Choose(c) ==
  /\ pc[c] = "choosing"
  /\ Degraded(Current(c)) => Fallbacks(c) = 0
  /\ pc' = [pc EXCEPT ![c] = "gated"]
  /\ UNCHANGED <<healthVars, stateVars, historyVars>>

\* ... or the first of the rest that is good enough is taken instead.
SkipTo(c, i) ==
  /\ pc[c] = "choosing"
  /\ i \in DOMAIN chain[c] /\ i > model[c]
  /\ \A j \in model[c]..(i - 1) : Degraded(chain[c][j])
  /\ Degraded(chain[c][i]) => i = Len(chain[c])
  /\ MoveTo(c, i)
  /\ pc' = [pc EXCEPT ![c] = "gated"]
  /\ UNCHANGED <<healthVars, chain, attempt, sent, gaveUp, started>>

\* The rate limit gate is open: the request goes out.
Send(c) ==
  /\ pc[c] = "gated"
  /\ pc' = [pc EXCEPT ![c] = "calling"]
  /\ sent' = [sent EXCEPT ![c] = @ + 1]
  /\ onModel' = [onModel EXCEPT ![c] = @ + 1]
  /\ UNCHANGED <<healthVars, stateVars, gaveUp, started>>

Succeeds(c) ==
  /\ pc[c] = "calling"
  /\ RecordProviderSuccess(Current(c))
  /\ pc' = [pc EXCEPT ![c] = "idle"]
  /\ UNCHANGED <<stateVars, historyVars>>

\* The request fails with an error of the class.
FailsWith(c) ==
  /\ pc[c] = "calling"
  /\ RecordProviderError(Current(c))

RetriesLeft(c) == attempt[c] < MaxRetries

\* A second rate limit on the model: the next one's turn, without a wait.
Rotates(c, class) == class = "rotate" /\ RetriesLeft(c) /\ retried[c]

\* The decision "surface": the error is the caller's.
Surface(c, class) ==
  /\ FailsWith(c)
  /\ \/ class = "fatal" \/ ~RetriesLeft(c)
     \/ Rotates(c, class) /\ Fallbacks(c) = 0 /\ Len(chain[c]) > 1
  /\ pc' = [pc EXCEPT ![c] = "idle"]
  /\ gaveUp' = [gaveUp EXCEPT ![c] =
       [class |-> class, attempt |-> attempt[c],
        left |-> Len(chain[c]) - model[c]]]
  /\ UNCHANGED <<stateVars, sent, onModel, started>>

Rotate(c, class) ==
  /\ FailsWith(c)
  /\ Rotates(c, class) /\ Fallbacks(c) > 0
  /\ MoveTo(c, model[c] + 1)
  /\ attempt' = [attempt EXCEPT ![c] = @ + 1]
  /\ pc' = [pc EXCEPT ![c] = "choosing"]
  /\ UNCHANGED <<chain, sent, gaveUp, started>>

\* Wait, and try again: a rate limit with the next API key.
BackOff(c, class) ==
  /\ FailsWith(c)
  /\ class # "fatal" /\ RetriesLeft(c)
  /\ Rotates(c, class) => Len(chain[c]) = 1
  /\ key' = [key EXCEPT ![c] = IF class = "rotate" THEN (@ + 1) % Keys ELSE @]
  /\ retried' = [retried EXCEPT ![c] = TRUE]
  /\ pc' = [pc EXCEPT ![c] = "backoff"]
  /\ UNCHANGED <<chain, model, attempt, historyVars>>

Wake(c) ==
  /\ pc[c] = "backoff"
  /\ attempt' = [attempt EXCEPT ![c] = @ + 1]
  /\ pc' = [pc EXCEPT ![c] = "choosing"]
  /\ UNCHANGED <<healthVars, chain, model, key, retried, historyVars>>

Fails(c) == \E class \in Classes : Surface(c, class) \/ Rotate(c, class) \/ BackOff(c, class)

Proceeds(c) ==
  \/ Choose(c) \/ (\E i \in DOMAIN chain[c] : SkipTo(c, i))
  \/ Send(c) \/ Succeeds(c) \/ Fails(c) \/ Wake(c)

Next ==
  \/ \E c \in Callers : Begin(c) \/ Proceeds(c)
  \/ \E m \in Models : Forget(m)

\* Requests are answered or time out, and the waits are timers.
Fairness == \A c \in Callers : WF_vars(Proceeds(c))

Spec == Init /\ [][Next]_vars
FairSpec == Spec /\ Fairness

-----------------------------------------------------------------------------
(***************************************************************************)
(* Properties                                                              *)
(***************************************************************************)

\* "Number of retries after the first attempt": a call makes no more requests than
\* that, however it rotates keys and models and skips degraded ones.
RequestsBounded == \A c \in Callers : sent[c] <= MaxRetries + 1

\* "Each model gets one retry attempt before rotating": a rate limit moves the
\* call to the next model only when the current one was asked twice.
RetriedBeforeRotation ==
  [][\A c \in Callers :
       pc[c] = "calling" /\ pc'[c] = "choosing" => onModel[c] >= 2]_vars

\* A rate limit is the caller's problem only when the retries are used up, or no
\* model is left that could take over.
GivesUpLate ==
  \A c \in Callers :
    gaveUp[c].class # "none" /\ gaveUp[c].class # "fatal" =>
      gaveUp[c].attempt = MaxRetries \/ (gaveUp[c].class = "rotate" /\ gaveUp[c].left = 0)

\* Every call ends, degraded models and rate limits or not.
CallEnds == \A c \in Callers : (pc[c] # "idle") ~> (pc[c] = "idle")
=============================================================================

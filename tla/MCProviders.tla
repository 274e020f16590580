---------------------------- MODULE MCProviders -----------------------------
(* What stands between a run and the model services, one part at a time:    *)
(* the circuit breakers of the agents, the retries of a call, and the       *)
(* caches of what is known of the models.  The parts that are not looked at *)
(* stay in one of their initial states.                                     *)
EXTENDS CircuitBreaker, Retry, ModelCache

CONSTANTS m1, m2, m3  \* models

VARIABLE part

providerVars == <<cbVars, vars, cacheVars, part>>

InBreaker == part = "breaker" /\ UNCHANGED <<vars, cacheVars, part>>
InRetry == part = "retry" /\ UNCHANGED <<cbVars, cacheVars, part>>
InCache == part = "cache" /\ UNCHANGED <<cbVars, vars, part>>

ProvidersInit ==
  /\ part \in {"breaker", "retry", "cache"}
  /\ BreakerInit /\ Init /\ CacheInit
  /\ part # "cache" => ~onDisk

ProvidersNext ==
  \/ BreakerNext /\ InBreaker
  \/ Next /\ InRetry
  \/ CacheNext /\ InCache

\* The fairness of CircuitBreaker with its demand, and of Retry.
ProvidersFairness ==
  /\ \A r \in Runs :
       /\ WF_providerVars(EndCall(r) /\ InBreaker)
       /\ WF_providerVars(Start(r) /\ InBreaker)
       /\ SF_providerVars((BeginTurn(r) \/ CircuitOpen(r)) /\ InBreaker)
  /\ WF_providerVars(Tick /\ InBreaker)
  /\ \A c \in Callers : WF_providerVars(Proceeds(c) /\ InRetry)

ProvidersSpec == ProvidersInit /\ [][ProvidersNext]_providerVars /\ ProvidersFairness

\* What a call may ask in a row: three models, or one.
McChains == {<<m1, m2, m3>>, <<m2>>}

\* A call ends, refused or not (CallEnds, Retry), and a circuit that opened is tested
\* again (OpenIsTested, CircuitBreaker).
RefusalsEnd == /\ part = "breaker" => OpenIsTested
               /\ part = "retry" => CallEnds

\* Requests for the metadata of models are shared while they run, and only then.
FetchesAreShared == CacheTypeOK /\ InFlightIsRunning /\ ContextFetchedOnce
=============================================================================

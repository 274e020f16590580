----------------------------- MODULE ModelCache -----------------------------
(***************************************************************************)
(* The two caches of what OpenRouter says about its models, which all runs *)
(* of a process share: context lengths (model-cache.ts) in memory, the     *)
(* rest (openrouter-model-meta.ts) in memory and on disk.  A call fetches  *)
(* unless the cache is fresh, joins a request that is in flight, and reads *)
(* the file first if it has never been filled.                             *)
(***************************************************************************)
EXTENDS Naturals, FiniteSets

CONSTANTS Fetchers,  \* calls, one after another in each
          NoFetcher

ASSUME ModelCacheAssumption == NoFetcher \notin Fetchers

Caches == {"context", "meta"}

VARIABLES filled,    \* "never", "fresh" or "expired", in memory
          onDisk,    \* the file holds entries that are fresh
          fetching,  \* the caller whose request the others join
          calling    \* where each call is: with which cache and whose request

cacheVars == <<filled, onDisk, fetching, calling>>

Resting == [at |-> "idle", cache |-> "meta", joined |-> NoFetcher]

CacheTypeOK ==
  /\ filled \in [Caches -> {"never", "fresh", "expired"}] /\ onDisk \in BOOLEAN
  /\ fetching \in [Caches -> Fetchers \cup {NoFetcher}]
  /\ calling \in [Fetchers -> [at : {"idle", "disk", "asking", "joined"}, cache : Caches,
                               joined : Fetchers \cup {NoFetcher}]]

CacheInit ==
  /\ filled = [k \in Caches |-> "never"] /\ onDisk \in BOOLEAN
  /\ fetching = [k \in Caches |-> NoFetcher]
  /\ calling = [c \in Fetchers |-> Resting]

Asking == {c \in Fetchers : calling[c].at = "asking"}

-----------------------------------------------------------------------------
Ask(c, k) ==
  /\ fetching' = [fetching EXCEPT ![k] = c]
  /\ calling' = [calling EXCEPT ![c] = [at |-> "asking", cache |-> k, joined |-> c]]
  /\ UNCHANGED <<filled, onDisk>>

\* A fresh cache returns at once and changes nothing.
Join(c, k) ==
  /\ calling[c].at = "idle" /\ filled[k] # "fresh" /\ fetching[k] # NoFetcher
  /\ calling' = [calling EXCEPT ![c] = [at |-> "joined", cache |-> k, joined |-> fetching[k]]]
  /\ UNCHANGED <<filled, onDisk, fetching>>

BeginFetch(c, k) ==
  /\ calling[c].at = "idle" /\ filled[k] # "fresh" /\ fetching[k] = NoFetcher
  /\ IF k = "meta" /\ filled[k] = "never"
       THEN /\ calling' = [calling EXCEPT ![c].at = "disk", ![c].cache = k]
            /\ UNCHANGED <<filled, onDisk, fetching>>
       ELSE Ask(c, k)

\* The file may also be damaged or from another day.
ReadDisk(c) ==
  /\ calling[c].at = "disk"
  /\ \/ /\ onDisk
        /\ filled' = [filled EXCEPT !["meta"] = "fresh"]
        /\ calling' = [calling EXCEPT ![c] = Resting]
        /\ UNCHANGED <<onDisk, fetching>>
     \/ Ask(c, "meta")

\* Whoever has joined the request returns with it.
Released(c) ==
  [d \in Fetchers |-> IF calling[d].joined = c THEN Resting ELSE calling[d]]

\* Mutant: only a response clears the way for the next request.
FailAndStay(c) ==
  /\ calling' = Released(c)
  /\ UNCHANGED <<filled, onDisk, fetching>>

\* Not ok, malformed, or eight seconds: errors are swallowed.
FetchFails(c) ==
  /\ calling' = Released(c)
  /\ fetching' = [fetching EXCEPT ![calling[c].cache] = NoFetcher]
  /\ UNCHANGED <<filled, onDisk>>

\* The file is written, or is not, by itself.
FetchSucceeds(c) ==
  /\ filled' = [filled EXCEPT ![calling[c].cache] = "fresh"]
  /\ onDisk' \in IF calling[c].cache = "meta" THEN {onDisk, TRUE} ELSE {onDisk}
  /\ calling' = Released(c)
  /\ fetching' = [fetching EXCEPT ![calling[c].cache] = NoFetcher]

\* Six hours pass.
Expire(k) ==
  /\ filled[k] = "fresh"
  /\ filled' = [filled EXCEPT ![k] = "expired"]
  /\ onDisk' = IF k = "meta" THEN FALSE ELSE onDisk
  /\ UNCHANGED <<fetching, calling>>

CacheNext ==
  \/ \E c \in Fetchers, k \in Caches : Join(c, k) \/ BeginFetch(c, k)
  \/ \E c \in Fetchers : ReadDisk(c)
  \/ \E c \in Asking : FetchFails(c) \/ FetchSucceeds(c)
  \/ \E k \in Caches : Expire(k)

CacheSpec == CacheInit /\ [][CacheNext]_cacheVars

-----------------------------------------------------------------------------
(***************************************************************************)
(* Properties                                                              *)
(***************************************************************************)

\* Nobody joins a request that is over: after one that failed, also of two
\* that overlapped, the next call fetches again.
InFlightIsRunning ==
  \A k \in Caches : fetching[k] # NoFetcher =>
    calling[fetching[k]] = [at |-> "asking", cache |-> k, joined |-> fetching[k]]

\* Runs that start together send one request for the context lengths.  (Not
\* so for the rest: calls that read the file at once each send their own.)
ContextFetchedOnce ==
  Cardinality({c \in Asking : calling[c].cache = "context"}) <= 1
=============================================================================

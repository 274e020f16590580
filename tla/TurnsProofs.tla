----------------------------- MODULE TurnsProofs -----------------------------
(***************************************************************************)
(* Proofs about what a turn of a run does, for any calls, any answers, any *)
(* rules and any number of runs of a session: the tool calls it executes,  *)
(* the history it leaves and the model it asks.  Each part has an          *)
(* inductive invariant, with a lemma of a "step" for each part of it; the  *)
(* last section brings the parts together for the specification that the   *)
(* run checks.                                                             *)
(***************************************************************************)
EXTENDS MCTurns, SequenceTheorems, FiniteSetTheorems, WellFoundedInduction, TLAPS

-----------------------------------------------------------------------------
(***************************************************************************)
(* The tool calls of a turn (ToolExec).                                    *)
(***************************************************************************)

\* Where a call can be.
CallPhases == {"waiting", "asking", "denied", "hook", "running", "landed", "post", "done"}
\* What the cache has of a read.
CacheEntry == [call : ReadOnly, version : Nat, young : BOOLEAN]

\* The types the proofs need.
CallsTyped ==
  /\ phase \in [Slots -> CallPhases]
  /\ reply \in [Slots -> {"none", "ok", "error", "pending"}]
  /\ began \in [Slots -> Nat] /\ seen \in [Slots -> Nat]
  /\ cache \in Seq(CacheEntry)
  /\ version \in Nat /\ ghosts \in Nat /\ taken \in Nat
  /\ plan \in BOOLEAN /\ raced \in BOOLEAN

\* Calls are taken in order, one that was not taken has no state, and only a call
\* whose tool is through, or that was refused, has a result.
InTurn ==
  /\ \A i \in Slots : i > taken \/ status # "acting" => phase[i] = "waiting"
  /\ \A i \in Slots : phase[i] \in {"waiting", "asking", "hook", "running", "landed"} => reply[i] = "none"

\* A file tool in flight has noted its file.
Tracked ==
  /\ ChangesAreTracked
  /\ \A i \in Slots : phase[i] \notin {"waiting", "done"} /\ batch[i] \in FileTools => batch[i] \in changed

\* In plan mode no change is in flight.
Planned ==
  /\ PlanTouchesNothing
  /\ plan => \A i \in Slots : phase[i] \notin {"waiting", "done"} => batch[i] \notin Changes

\* What is cached was granted when it was read.
Granted ==
  /\ GrantedFirst
  /\ \A k \in DOMAIN cache : cache[k].call \in Guarded \ Delegated => cache[k].call \in granted

\* A call cannot have begun at a version that is not there yet.
BeganBefore == \A i \in Slots : began[i] <= version

\* No change is in flight beside a read.
Unmixed ==
  \A i, j \in Slots :
    phase[i] \notin {"waiting", "done"} /\ phase[j] \notin {"waiting", "done"} =>
      ~(batch[i] \in Changes /\ batch[j] \in ReadOnly)

\* What is cached is what the workspace holds, unless a change has just landed.
CacheFresh ==
  (\A i \in Slots : ~(phase[i] = "landed" /\ batch[i] \in Changes)) =>
    \A k \in DOMAIN cache : cache[k].version = version

\* A read that has its answer has seen what the workspace holds.
SeenFresh == \A i \in Slots : phase[i] = "landed" /\ batch[i] \in ReadOnly => seen[i] = version

\* Without a race: no change is in flight beside a read, what is cached is what the
\* workspace holds unless a change has just landed, and so is what a read has seen.
ReadsFresh ==
  /\ BeganBefore
  /\ ~raced => ghosts = 0 /\ Unmixed /\ CacheFresh /\ SeenFresh
  /\ ReadsAreFresh

\* The constants.
LEMMA CallBounds == /\ CacheSize \in Nat /\ CacheSize >= 1 /\ Limit \in Nat /\ Limit >= 1
                /\ MaxCalls \in Nat
  BY ToolsAssumption

\* Reads, exits and changes are different things, and only changes have files.
LEMMA Classes == /\ ReadOnly \cap Changes = {} /\ ReadOnly \cap FileTools = {}
                 /\ ReadOnly \subseteq Calls
  BY ToolsAssumption DEF Changes

\* setCached adds the new entry, keeps the values of some old ones, and stays within
\* the limit.
LEMMA CacheFacts ==
  ASSUME cache \in Seq(CacheEntry), Len(cache) <= CacheSize,
         NEW c \in ReadOnly, NEW v \in Nat, SetCached(c, v)
  PROVE  /\ cache' \in Seq(CacheEntry)
         /\ Len(cache') <= CacheSize
         /\ \A k \in DOMAIN cache' :
              \/ cache'[k].call = c /\ cache'[k].version = v
              \/ \E j \in DOMAIN cache : cache'[k] = cache[j]
<1> DEFINE kept == Evicted
           new == [call |-> c, version |-> v, young |-> TRUE]
<1>1. /\ kept \in Seq(CacheEntry) /\ Len(kept) <= CacheSize
      /\ Len(kept) < CacheSize \/ Len(cache) < CacheSize
      /\ \A k \in DOMAIN kept : \E j \in DOMAIN cache : kept[k] = cache[j]
  <2>1. CASE Len(cache) >= CacheSize
    <3>1. cache # <<>> /\ kept = Tail(cache)
      BY <2>1, CallBounds DEF Evicted
    <3>2. \A k \in DOMAIN kept : k + 1 \in DOMAIN cache /\ kept[k] = cache[k + 1]
      BY <3>1
    <3> QED BY <2>1, <3>1, <3>2, CallBounds
  <2>2. CASE ~(Len(cache) >= CacheSize)
    BY <2>2, CallBounds DEF Evicted
  <2> QED BY <2>1, <2>2
<1>2. new \in CacheEntry /\ new.call = c /\ new.version = v
  BY DEF CacheEntry
<1>3. CASE \E k \in DOMAIN kept : kept[k].call = c
  <2>1. cache' = [k \in DOMAIN kept |-> IF kept[k].call = c THEN new ELSE kept[k]]
    BY <1>3 DEF SetCached
  <2> HIDE DEF kept, new
  <2>2. cache' \in [1..Len(kept) -> CacheEntry] /\ Len(kept) \in Nat
    BY <1>1, <1>2, <2>1
  <2>3. cache' \in Seq(CacheEntry) /\ Len(cache') = Len(kept)
    BY <2>2
  <2> QED BY <1>1, <1>2, <2>1, <2>3
<1>4. CASE ~\E k \in DOMAIN kept : kept[k].call = c
  <2>1. cache' = Append(kept, new)
    BY <1>4 DEF SetCached
  <2>2. Len(kept) < CacheSize
    BY <1>1, CallBounds DEF Evicted
  <2> HIDE DEF kept, new
  <2> QED BY <1>1, <1>2, <2>1, <2>2, CallBounds
<1> QED BY <1>3, <1>4

\* Sequences of entries.
LEMMA CacheEntries ==
  /\ <<>> \in Seq(CacheEntry) /\ Len(<<>>) = 0 /\ DOMAIN <<>> = {}
  /\ \A s \in Seq(CacheEntry) : \A k \in DOMAIN s :
       /\ s[k] \in CacheEntry /\ s[k].version \in Nat
       /\ [s EXCEPT ![k].young = FALSE] \in Seq(CacheEntry)
       /\ Len([s EXCEPT ![k].young = FALSE]) = Len(s)
<1>1. <<>> \in Seq(CacheEntry) /\ Len(<<>>) = 0 /\ DOMAIN <<>> = {}
  OBVIOUS
<1>2. ASSUME NEW s \in Seq(CacheEntry), NEW k \in DOMAIN s
      PROVE  /\ s[k] \in CacheEntry /\ s[k].version \in Nat
             /\ [s EXCEPT ![k].young = FALSE] \in Seq(CacheEntry)
             /\ Len([s EXCEPT ![k].young = FALSE]) = Len(s)
  <2> DEFINE e == [s[k] EXCEPT !.young = FALSE]
             t == [s EXCEPT ![k].young = FALSE]
  <2>1. s[k] \in CacheEntry /\ s[k].version \in Nat
    <3>1. s[k] \in CacheEntry
      OBVIOUS
    <3> QED BY <3>1 DEF CacheEntry
  <2>2. e \in CacheEntry
    BY <2>1 DEF CacheEntry
  <2>3. t = [s EXCEPT ![k] = e]
    OBVIOUS
  <2> HIDE DEF e, t
  <2>4. t \in Seq(CacheEntry) /\ Len(t) = Len(s)
    BY <2>2, <2>3
  <2> QED BY <2>1, <2>4 DEF t
<1> QED BY <1>1, <1>2

\* The invariant holds initially.
LEMMA ToolsInitInv == Init => CallsTyped /\ InTurn /\ CacheBounded /\ Tracked /\ Planned /\ Granted /\ ReadsFresh
<1> SUFFICES ASSUME Init PROVE CallsTyped /\ InTurn /\ CacheBounded /\ Tracked /\ Planned /\ Granted /\ ReadsFresh
  OBVIOUS
<1>1. CallsTyped /\ CacheBounded
  <2>1. cache \in Seq(CacheEntry) /\ Len(cache) <= CacheSize
    <3>1. cache = <<>>
      BY DEF Init
    <3>2. <<>> \in Seq(CacheEntry) /\ Len(<<>>) <= CacheSize
      BY CacheEntries, CallBounds
    <3> QED BY <3>1, <3>2
  <2> QED BY <2>1 DEF Init, CallsTyped, CacheBounded, Blank, CallPhases
<1>2. InTurn
  BY DEF Init, InTurn, Blank
<1>3. Tracked /\ Planned
  BY DEF Init, Tracked, ChangesAreTracked, Planned, PlanTouchesNothing, Blank
<1>4. Granted
  BY DEF Init, Granted, GrantedFirst, Blank
<1>5. ReadsFresh
  BY DEF Init, ReadsFresh, BeganBefore, Unmixed, CacheFresh, SeenFresh, ReadsAreFresh, Blank
<1> QED BY <1>1, <1>2, <1>3, <1>4, <1>5

\* The types, and the limit of the cache.
CallsAndCache == CallsTyped /\ CacheBounded

\* Every step keeps the types and the limit of the cache.
LEMMA CallsStep ==
  ASSUME CallsAndCache, [Next]_vars PROVE CallsAndCache'
<1>1. CASE StartTurn
  BY <1>1, CallBounds, CacheEntries
    DEF CallsAndCache, CallsTyped, CacheBounded, CallPhases, StartTurn, workVars, turnVars
<1>2. CASE Finish
  BY <1>2, CallBounds, CacheEntries
    DEF CallsAndCache, CallsTyped, CacheBounded, CallPhases, Finish, turnVars, workVars
<1>3. CASE EndTurn
  BY <1>3, CallBounds, CacheEntries
    DEF CallsAndCache, CallsTyped, CacheBounded, CallPhases, EndTurn, Settled, InFlight, ClearTurn,
        Blank, workVars
<1>4. CASE TurnThrows
  BY <1>4, CallBounds, CacheEntries
    DEF CallsAndCache, CallsTyped, CacheBounded, CallPhases, TurnThrows, Settled, InFlight, ClearTurn,
        Blank, workVars
<1>5. ASSUME NEW i \in Slots, Reject(i) PROVE CallsAndCache'
  BY <1>5, CallBounds, CacheEntries
    DEF CallsAndCache, CallsTyped, CacheBounded, CallPhases, Reject, Take, Enter, TakeFrame, workVars
<1>6. ASSUME NEW i \in Slots, AnswerFromCache(i) PROVE CallsAndCache'
  <2>1. PICK k \in Hits(batch[i]) : seen' = [seen EXCEPT ![i] = cache[k].version]
    BY <1>6 DEF AnswerFromCache
  <2>2. cache[k].version \in Nat
    BY <2>1, CacheEntries DEF Hits, Cached, CallsAndCache, CallsTyped
  <2> QED BY <1>6, <2>1, <2>2
    DEF CallsAndCache, CallsTyped, CacheBounded, CallPhases, AnswerFromCache, Admitted, Take, Enter,
        Races, TakeFrame, workVars
<1>7. ASSUME NEW i \in Slots, Delegate(i) PROVE CallsAndCache'
  BY <1>7, CallBounds, CacheEntries
    DEF CallsAndCache, CallsTyped, CacheBounded, CallPhases, Delegate, Misses, Admitted, Take, Enter,
        TrackFile, Races, TakeFrame, InFlight, BarredByPlan, workVars
<1>8. ASSUME NEW i \in Slots, PutOff(i) PROVE CallsAndCache'
  BY <1>8, CallBounds, CacheEntries
    DEF CallsAndCache, CallsTyped, CacheBounded, CallPhases, PutOff, Misses, Admitted, Take, Enter,
        TrackFile, Races, TakeFrame, InFlight, BarredByPlan, workVars
<1>9. ASSUME NEW i \in Slots, Ask(i) PROVE CallsAndCache'
  BY <1>9, CallBounds, CacheEntries
    DEF CallsAndCache, CallsTyped, CacheBounded, CallPhases, Ask, Misses, Admitted, Take, Enter,
        TrackFile, Races, TakeFrame, InFlight, BarredByPlan, workVars
<1>10. ASSUME NEW i \in Slots, Proceed(i) PROVE CallsAndCache'
  BY <1>10, CallBounds, CacheEntries
    DEF CallsAndCache, CallsTyped, CacheBounded, CallPhases, Proceed, Misses, Admitted, Take, Enter,
        TrackFile, Races, TakeFrame, InFlight, BarredByPlan, workVars
<1>11. ASSUME NEW i \in Slots, Approve(i) PROVE CallsAndCache'
  BY <1>11, CallBounds, CacheEntries
    DEF CallsAndCache, CallsTyped, CacheBounded, CallPhases, Approve, Moves, Enter, CallFrame,
        workVars
<1>12. ASSUME NEW i \in Slots, Deny(i) PROVE CallsAndCache'
  BY <1>12, CallBounds, CacheEntries
    DEF CallsAndCache, CallsTyped, CacheBounded, CallPhases, Deny, Moves, Enter, CallFrame, workVars
<1>13. ASSUME NEW i \in Slots, Denied(i) PROVE CallsAndCache'
  BY <1>13, CallBounds, CacheEntries
    DEF CallsAndCache, CallsTyped, CacheBounded, CallPhases, Denied, Moves, Enter, CallFrame, workVars
<1>14. ASSUME NEW i \in Slots, ApprovalThrows(i) PROVE CallsAndCache'
  BY <1>14, CallBounds, CacheEntries
    DEF CallsAndCache, CallsTyped, CacheBounded, CallPhases, ApprovalThrows, Moves, Enter, CallFrame,
        workVars
<1>15. ASSUME NEW i \in Slots, PreHookPasses(i) PROVE CallsAndCache'
  BY <1>15, CallBounds, CacheEntries
    DEF CallsAndCache, CallsTyped, CacheBounded, CallPhases, PreHookPasses, Moves, Enter, CallFrame,
        workVars
<1>16. ASSUME NEW i \in Slots, PreHookFails(i) PROVE CallsAndCache'
  BY <1>16, CallBounds, CacheEntries
    DEF CallsAndCache, CallsTyped, CacheBounded, CallPhases, PreHookFails, Moves, Enter, CallFrame,
        workVars
<1>17. ASSUME NEW i \in Slots, Works(i) PROVE CallsAndCache'
  <2>1. version' \in Nat /\ seen' \in [Slots -> Nat]
    <3>1. CASE batch[i] \in Changes
      BY <1>17, <3>1 DEF CallsAndCache, CallsTyped, Works
    <3>2. CASE batch[i] \notin Changes
      BY <1>17, <3>2 DEF CallsAndCache, CallsTyped, Works
    <3> QED BY <3>1, <3>2
  <2> QED BY <1>17, <2>1
    DEF CallsAndCache, CallsTyped, CacheBounded, CallPhases, Works, CallFrame, workVars
<1>18. ASSUME NEW i \in Slots, Returns(i) PROVE CallsAndCache'
  <2>0. IF batch[i] \in ReadOnly THEN SetCached(batch[i], seen[i]) ELSE cache' = <<>>
    BY <1>18 DEF Returns
  <2>1. seen[i] \in Nat
    BY DEF CallsAndCache, CallsTyped
  <2>2. cache' \in Seq(CacheEntry) /\ Len(cache') <= CacheSize
    <3>1. CASE batch[i] \in ReadOnly
      BY <2>0, <2>1, <3>1, CacheFacts DEF CallsAndCache, CallsTyped, CacheBounded
    <3>2. CASE batch[i] \notin ReadOnly
      BY <2>0, <3>2, CacheEntries, CallBounds
    <3> QED BY <3>1, <3>2
  <2> QED BY <1>18, <2>2
    DEF CallsAndCache, CallsTyped, CacheBounded, CallPhases, Returns, After, Moves, Enter, CallFrame,
        workVars
<1>19. ASSUME NEW i \in Slots, ReturnsError(i) PROVE CallsAndCache'
  <2>1. cache' \in Seq(CacheEntry) /\ Len(cache') <= CacheSize
    <3>1. cache' = cache \/ cache' = <<>>
      BY <1>19 DEF ReturnsError
    <3>2. <<>> \in Seq(CacheEntry) /\ Len(<<>>) <= CacheSize
      BY CacheEntries, CallBounds
    <3> QED BY <3>1, <3>2 DEF CallsAndCache, CallsTyped, CacheBounded
  <2> QED BY <1>19, <2>1
    DEF CallsAndCache, CallsTyped, CacheBounded, CallPhases, ReturnsError, After, Enter, CallFrame,
        workVars
<1>20. ASSUME NEW i \in Slots, Throws(i) PROVE CallsAndCache'
  BY <1>20, CallBounds, CacheEntries
    DEF CallsAndCache, CallsTyped, CacheBounded, CallPhases, Throws, After, Moves, Enter, CallFrame,
        workVars
<1>21. ASSUME NEW i \in Slots, TimesOut(i) PROVE CallsAndCache'
  BY <1>21, CallBounds, CacheEntries
    DEF CallsAndCache, CallsTyped, CacheBounded, CallPhases, TimesOut, After, Moves, Enter, CallFrame,
        workVars
<1>22. CASE GhostLands
  BY <1>22, CallBounds, CacheEntries
    DEF CallsAndCache, CallsTyped, CacheBounded, CallPhases, GhostLands, turnVars
<1>23. ASSUME NEW i \in Slots, PostHookPasses(i) PROVE CallsAndCache'
  BY <1>23, CallBounds, CacheEntries
    DEF CallsAndCache, CallsTyped, CacheBounded, CallPhases, PostHookPasses, Moves, Enter, CallFrame,
        workVars
<1>24. ASSUME NEW i \in Slots, PostHookFails(i) PROVE CallsAndCache'
  BY <1>24, CallBounds, CacheEntries
    DEF CallsAndCache, CallsTyped, CacheBounded, CallPhases, PostHookFails, Moves, Enter, CallFrame,
        workVars
<1>25. ASSUME NEW k \in 1..CacheSize, Ages(k) PROVE CallsAndCache'
  <2>1. [cache EXCEPT ![k].young = FALSE] \in Seq(CacheEntry) /\ Len([cache EXCEPT ![k].young = FALSE]) = Len(cache)
    BY <1>25, CacheEntries DEF Ages, CallsAndCache, CallsTyped
  <2> QED BY <1>25, <2>1 DEF CallsAndCache, CallsTyped, CacheBounded, Ages, turnVars, workVars
<1>26. CASE UNCHANGED vars
  BY <1>26, CallBounds, CacheEntries
    DEF CallsAndCache, CallsTyped, CacheBounded, CallPhases, vars, turnVars, workVars
<1> QED
  BY <1>1, <1>2, <1>3, <1>4, <1>5, <1>6, <1>7, <1>8, <1>9, <1>10, <1>11, <1>12, <1>13, <1>14,
     <1>15, <1>16, <1>17, <1>18, <1>19, <1>20, <1>21, <1>22, <1>23, <1>24, <1>25, <1>26
  DEF Next, TakeOne, CallStep

\* Every step takes calls in order.
LEMMA InTurnStep ==
  ASSUME CallsAndCache, InTurn, [Next]_vars PROVE InTurn'
<1>1. CASE StartTurn
  BY <1>1, CallBounds DEF CallsAndCache, CallsTyped, InTurn, Slots, StartTurn, workVars, turnVars
<1>2. CASE Finish
  BY <1>2, CallBounds DEF CallsAndCache, CallsTyped, InTurn, Slots, Finish, turnVars, workVars
<1>3. CASE EndTurn
  BY <1>3, CallBounds
    DEF CallsAndCache, CallsTyped, InTurn, Slots, EndTurn, Settled, InFlight, ClearTurn, Blank,
        workVars
<1>4. CASE TurnThrows
  BY <1>4, CallBounds
    DEF CallsAndCache, CallsTyped, InTurn, Slots, TurnThrows, Settled, InFlight, ClearTurn,
        Blank, workVars
<1>5. ASSUME NEW i \in Slots, Reject(i) PROVE InTurn'
  BY <1>5, CallBounds
    DEF CallsAndCache, CallsTyped, InTurn, Slots, Reject, Take, Enter, TakeFrame, workVars
<1>6. ASSUME NEW i \in Slots, AnswerFromCache(i) PROVE InTurn'
  BY <1>6, CallBounds
    DEF CallsAndCache, CallsTyped, InTurn, Slots, AnswerFromCache, Admitted, Take, Enter, Races,
        Hits, Cached, TakeFrame, InFlight, BarredByPlan, workVars
<1>7. ASSUME NEW i \in Slots, Delegate(i) PROVE InTurn'
  BY <1>7, CallBounds
    DEF CallsAndCache, CallsTyped, InTurn, Slots, Delegate, Misses, Admitted, Take, Enter,
        TrackFile, Races, TakeFrame, InFlight, BarredByPlan, workVars
<1>8. ASSUME NEW i \in Slots, PutOff(i) PROVE InTurn'
  BY <1>8, CallBounds
    DEF CallsAndCache, CallsTyped, InTurn, Slots, PutOff, Misses, Admitted, Take, Enter,
        TrackFile, Races, TakeFrame, InFlight, BarredByPlan, workVars
<1>9. ASSUME NEW i \in Slots, Ask(i) PROVE InTurn'
  BY <1>9, CallBounds
    DEF CallsAndCache, CallsTyped, InTurn, Slots, Ask, Misses, Admitted, Take, Enter, TrackFile,
        Races, TakeFrame, InFlight, BarredByPlan, workVars
<1>10. ASSUME NEW i \in Slots, Proceed(i) PROVE InTurn'
  BY <1>10, CallBounds
    DEF CallsAndCache, CallsTyped, InTurn, Slots, Proceed, Misses, Admitted, Take, Enter,
        TrackFile, Races, TakeFrame, InFlight, BarredByPlan, workVars
<1>11. ASSUME NEW i \in Slots, Approve(i) PROVE InTurn'
  BY <1>11, CallBounds
    DEF CallsAndCache, CallsTyped, InTurn, Slots, Approve, Moves, Enter, CallFrame, workVars
<1>12. ASSUME NEW i \in Slots, Deny(i) PROVE InTurn'
  BY <1>12, CallBounds
    DEF CallsAndCache, CallsTyped, InTurn, Slots, Deny, Moves, Enter, CallFrame, workVars
<1>13. ASSUME NEW i \in Slots, Denied(i) PROVE InTurn'
  BY <1>13, CallBounds
    DEF CallsAndCache, CallsTyped, InTurn, Slots, Denied, Moves, Enter, CallFrame, workVars
<1>14. ASSUME NEW i \in Slots, ApprovalThrows(i) PROVE InTurn'
  BY <1>14, CallBounds
    DEF CallsAndCache, CallsTyped, InTurn, Slots, ApprovalThrows, Moves, Enter, CallFrame,
        workVars
<1>15. ASSUME NEW i \in Slots, PreHookPasses(i) PROVE InTurn'
  BY <1>15, CallBounds
    DEF CallsAndCache, CallsTyped, InTurn, Slots, PreHookPasses, Moves, Enter, CallFrame,
        workVars
<1>16. ASSUME NEW i \in Slots, PreHookFails(i) PROVE InTurn'
  BY <1>16, CallBounds
    DEF CallsAndCache, CallsTyped, InTurn, Slots, PreHookFails, Moves, Enter, CallFrame, workVars
<1>17. ASSUME NEW i \in Slots, Works(i) PROVE InTurn'
  BY <1>17, CallBounds
    DEF CallsAndCache, CallsTyped, InTurn, Slots, Works, Moves, Enter, CallFrame, workVars
<1>18. ASSUME NEW i \in Slots, Returns(i) PROVE InTurn'
  BY <1>18, CallBounds
    DEF CallsAndCache, CallsTyped, InTurn, Slots, Returns, After, Moves, Enter, CallFrame,
        workVars
<1>19. ASSUME NEW i \in Slots, ReturnsError(i) PROVE InTurn'
  BY <1>19, CallBounds
    DEF CallsAndCache, CallsTyped, InTurn, Slots, ReturnsError, After, Moves, Enter, CallFrame,
        workVars
<1>20. ASSUME NEW i \in Slots, Throws(i) PROVE InTurn'
  BY <1>20, CallBounds
    DEF CallsAndCache, CallsTyped, InTurn, Slots, Throws, After, Moves, Enter, CallFrame,
        workVars
<1>21. ASSUME NEW i \in Slots, TimesOut(i) PROVE InTurn'
  BY <1>21, CallBounds
    DEF CallsAndCache, CallsTyped, InTurn, Slots, TimesOut, After, Moves, Enter, CallFrame,
        workVars
<1>22. CASE GhostLands
  BY <1>22, CallBounds DEF CallsAndCache, CallsTyped, InTurn, Slots, GhostLands, turnVars
<1>23. ASSUME NEW i \in Slots, PostHookPasses(i) PROVE InTurn'
  BY <1>23, CallBounds
    DEF CallsAndCache, CallsTyped, InTurn, Slots, PostHookPasses, Moves, Enter, CallFrame,
        workVars
<1>24. ASSUME NEW i \in Slots, PostHookFails(i) PROVE InTurn'
  BY <1>24, CallBounds
    DEF CallsAndCache, CallsTyped, InTurn, Slots, PostHookFails, Moves, Enter, CallFrame,
        workVars
<1>25. ASSUME NEW k \in 1..CacheSize, Ages(k) PROVE InTurn'
  BY <1>25, CallBounds DEF CallsAndCache, CallsTyped, InTurn, Slots, Ages, turnVars, workVars
<1>26. CASE UNCHANGED vars
  BY <1>26, CallBounds DEF CallsAndCache, CallsTyped, InTurn, Slots, vars, turnVars, workVars
<1> QED
  BY <1>1, <1>2, <1>3, <1>4, <1>5, <1>6, <1>7, <1>8, <1>9, <1>10, <1>11, <1>12, <1>13, <1>14,
     <1>15, <1>16, <1>17, <1>18, <1>19, <1>20, <1>21, <1>22, <1>23, <1>24, <1>25, <1>26
  DEF Next, TakeOne, CallStep

\* No step changes a file before it is noted.
LEMMA TrackedStep ==
  ASSUME CallsAndCache, InTurn, Tracked, [Next]_vars PROVE Tracked'
<1>1. CASE StartTurn
  BY <1>1
    DEF CallsAndCache, CallsTyped, InTurn, Tracked, ChangesAreTracked, StartTurn, workVars,
        turnVars
<1>2. CASE Finish
  BY <1>2
    DEF CallsAndCache, CallsTyped, InTurn, Tracked, ChangesAreTracked, Finish, turnVars, workVars
<1>3. CASE EndTurn
  BY <1>3
    DEF CallsAndCache, CallsTyped, InTurn, Tracked, ChangesAreTracked, EndTurn, Settled,
        InFlight, ClearTurn, Blank, workVars
<1>4. CASE TurnThrows
  BY <1>4
    DEF CallsAndCache, CallsTyped, InTurn, Tracked, ChangesAreTracked, TurnThrows, Settled,
        InFlight, ClearTurn, Blank, workVars
<1>5. ASSUME NEW i \in Slots, Reject(i) PROVE Tracked'
  BY <1>5
    DEF CallsAndCache, CallsTyped, InTurn, Tracked, ChangesAreTracked, Reject, Take, Enter,
        TakeFrame, workVars
<1>6. ASSUME NEW i \in Slots, AnswerFromCache(i) PROVE Tracked'
  BY <1>6
    DEF CallsAndCache, CallsTyped, InTurn, Tracked, ChangesAreTracked, AnswerFromCache, Admitted,
        Take, Enter, Races, Hits, Cached, TakeFrame, InFlight, BarredByPlan, workVars
<1>7. ASSUME NEW i \in Slots, Delegate(i) PROVE Tracked'
  BY <1>7
    DEF CallsAndCache, CallsTyped, InTurn, Tracked, ChangesAreTracked, Delegate, Misses,
        Admitted, Take, Enter, TrackFile, Races, TakeFrame, InFlight, BarredByPlan,
        workVars
<1>8. ASSUME NEW i \in Slots, PutOff(i) PROVE Tracked'
  BY <1>8
    DEF CallsAndCache, CallsTyped, InTurn, Tracked, ChangesAreTracked, PutOff, Misses, Admitted,
        Take, Enter, TrackFile, Races, TakeFrame, InFlight, BarredByPlan, workVars
<1>9. ASSUME NEW i \in Slots, Ask(i) PROVE Tracked'
  BY <1>9
    DEF CallsAndCache, CallsTyped, InTurn, Tracked, ChangesAreTracked, Ask, Misses, Admitted,
        Take, Enter, TrackFile, Races, TakeFrame, InFlight, BarredByPlan, workVars
<1>10. ASSUME NEW i \in Slots, Proceed(i) PROVE Tracked'
  BY <1>10
    DEF CallsAndCache, CallsTyped, InTurn, Tracked, ChangesAreTracked, Proceed, Misses, Admitted,
        Take, Enter, TrackFile, Races, TakeFrame, InFlight, BarredByPlan, workVars
<1>11. ASSUME NEW i \in Slots, Approve(i) PROVE Tracked'
  BY <1>11
    DEF CallsAndCache, CallsTyped, InTurn, Tracked, ChangesAreTracked, Approve, Moves, Enter,
        CallFrame, workVars
<1>12. ASSUME NEW i \in Slots, Deny(i) PROVE Tracked'
  BY <1>12
    DEF CallsAndCache, CallsTyped, InTurn, Tracked, ChangesAreTracked, Deny, Moves, Enter,
        CallFrame, workVars
<1>13. ASSUME NEW i \in Slots, Denied(i) PROVE Tracked'
  BY <1>13
    DEF CallsAndCache, CallsTyped, InTurn, Tracked, ChangesAreTracked, Denied, Moves, Enter,
        CallFrame, workVars
<1>14. ASSUME NEW i \in Slots, ApprovalThrows(i) PROVE Tracked'
  BY <1>14
    DEF CallsAndCache, CallsTyped, InTurn, Tracked, ChangesAreTracked, ApprovalThrows, Moves,
        Enter, CallFrame, workVars
<1>15. ASSUME NEW i \in Slots, PreHookPasses(i) PROVE Tracked'
  BY <1>15
    DEF CallsAndCache, CallsTyped, InTurn, Tracked, ChangesAreTracked, PreHookPasses, Moves,
        Enter, CallFrame, workVars
<1>16. ASSUME NEW i \in Slots, PreHookFails(i) PROVE Tracked'
  BY <1>16
    DEF CallsAndCache, CallsTyped, InTurn, Tracked, ChangesAreTracked, PreHookFails, Moves,
        Enter, CallFrame, workVars
<1>17. ASSUME NEW i \in Slots, Works(i) PROVE Tracked'
  BY <1>17
    DEF CallsAndCache, CallsTyped, InTurn, Tracked, ChangesAreTracked, Works, Moves, Enter,
        CallFrame, workVars
<1>18. ASSUME NEW i \in Slots, Returns(i) PROVE Tracked'
  BY <1>18
    DEF CallsAndCache, CallsTyped, InTurn, Tracked, ChangesAreTracked, Returns, After, Moves,
        Enter, CallFrame, workVars
<1>19. ASSUME NEW i \in Slots, ReturnsError(i) PROVE Tracked'
  BY <1>19
    DEF CallsAndCache, CallsTyped, InTurn, Tracked, ChangesAreTracked, ReturnsError, After,
        Moves, Enter, CallFrame, workVars
<1>20. ASSUME NEW i \in Slots, Throws(i) PROVE Tracked'
  BY <1>20
    DEF CallsAndCache, CallsTyped, InTurn, Tracked, ChangesAreTracked, Throws, After, Moves,
        Enter, CallFrame, workVars
<1>21. ASSUME NEW i \in Slots, TimesOut(i) PROVE Tracked'
  BY <1>21
    DEF CallsAndCache, CallsTyped, InTurn, Tracked, ChangesAreTracked, TimesOut, After, Moves,
        Enter, CallFrame, workVars
<1>22. CASE GhostLands
  BY <1>22 DEF CallsAndCache, CallsTyped, InTurn, Tracked, ChangesAreTracked, GhostLands, turnVars
<1>23. ASSUME NEW i \in Slots, PostHookPasses(i) PROVE Tracked'
  BY <1>23
    DEF CallsAndCache, CallsTyped, InTurn, Tracked, ChangesAreTracked, PostHookPasses, Moves,
        Enter, CallFrame, workVars
<1>24. ASSUME NEW i \in Slots, PostHookFails(i) PROVE Tracked'
  BY <1>24
    DEF CallsAndCache, CallsTyped, InTurn, Tracked, ChangesAreTracked, PostHookFails, Moves,
        Enter, CallFrame, workVars
<1>25. ASSUME NEW k \in 1..CacheSize, Ages(k) PROVE Tracked'
  BY <1>25
    DEF CallsAndCache, CallsTyped, InTurn, Tracked, ChangesAreTracked, Ages, turnVars, workVars
<1>26. CASE UNCHANGED vars
  BY <1>26
    DEF CallsAndCache, CallsTyped, InTurn, Tracked, ChangesAreTracked, vars, turnVars, workVars
<1> QED
  BY <1>1, <1>2, <1>3, <1>4, <1>5, <1>6, <1>7, <1>8, <1>9, <1>10, <1>11, <1>12, <1>13, <1>14,
     <1>15, <1>16, <1>17, <1>18, <1>19, <1>20, <1>21, <1>22, <1>23, <1>24, <1>25, <1>26
  DEF Next, TakeOne, CallStep

\* No step lets a change through in plan mode.
LEMMA PlannedStep ==
  ASSUME CallsAndCache, InTurn, Planned, [Next]_vars PROVE Planned'
<1>1. CASE StartTurn
  BY <1>1
    DEF CallsAndCache, CallsTyped, InTurn, Planned, PlanTouchesNothing, Changes, StartTurn,
        workVars, turnVars
<1>2. CASE Finish
  BY <1>2
    DEF CallsAndCache, CallsTyped, InTurn, Planned, PlanTouchesNothing, Changes, Finish,
        turnVars, workVars
<1>3. CASE EndTurn
  BY <1>3
    DEF CallsAndCache, CallsTyped, InTurn, Planned, PlanTouchesNothing, Changes, EndTurn,
        Settled, InFlight, ClearTurn, Blank, workVars
<1>4. CASE TurnThrows
  BY <1>4
    DEF CallsAndCache, CallsTyped, InTurn, Planned, PlanTouchesNothing, Changes, TurnThrows,
        Settled, InFlight, ClearTurn, Blank, workVars
<1>5. ASSUME NEW i \in Slots, Reject(i) PROVE Planned'
  BY <1>5
    DEF CallsAndCache, CallsTyped, InTurn, Planned, PlanTouchesNothing, Changes, Reject, Take,
        Enter, TakeFrame, workVars
<1>6. ASSUME NEW i \in Slots, AnswerFromCache(i) PROVE Planned'
  BY <1>6
    DEF CallsAndCache, CallsTyped, InTurn, Planned, PlanTouchesNothing, Changes, AnswerFromCache,
        Admitted, Take, Enter, Races, Hits, Cached, TakeFrame, InFlight, BarredByPlan,
        workVars
<1>7. ASSUME NEW i \in Slots, Delegate(i) PROVE Planned'
  BY <1>7
    DEF CallsAndCache, CallsTyped, InTurn, Planned, PlanTouchesNothing, Changes, Delegate,
        Misses, Admitted, Take, Enter, TrackFile, Races, TakeFrame, InFlight,
        BarredByPlan, workVars
<1>8. ASSUME NEW i \in Slots, PutOff(i) PROVE Planned'
  BY <1>8
    DEF CallsAndCache, CallsTyped, InTurn, Planned, PlanTouchesNothing, Changes, PutOff, Misses,
        Admitted, Take, Enter, TrackFile, Races, TakeFrame, InFlight, BarredByPlan,
        workVars
<1>9. ASSUME NEW i \in Slots, Ask(i) PROVE Planned'
  BY <1>9
    DEF CallsAndCache, CallsTyped, InTurn, Planned, PlanTouchesNothing, Changes, Ask, Misses,
        Admitted, Take, Enter, TrackFile, Races, TakeFrame, InFlight, BarredByPlan,
        workVars
<1>10. ASSUME NEW i \in Slots, Proceed(i) PROVE Planned'
  BY <1>10
    DEF CallsAndCache, CallsTyped, InTurn, Planned, PlanTouchesNothing, Changes, Proceed, Misses,
        Admitted, Take, Enter, TrackFile, Races, TakeFrame, InFlight, BarredByPlan,
        workVars
<1>11. ASSUME NEW i \in Slots, Approve(i) PROVE Planned'
  BY <1>11
    DEF CallsAndCache, CallsTyped, InTurn, Planned, PlanTouchesNothing, Changes, Approve, Moves,
        Enter, CallFrame, workVars
<1>12. ASSUME NEW i \in Slots, Deny(i) PROVE Planned'
  BY <1>12
    DEF CallsAndCache, CallsTyped, InTurn, Planned, PlanTouchesNothing, Changes, Deny, Moves,
        Enter, CallFrame, workVars
<1>13. ASSUME NEW i \in Slots, Denied(i) PROVE Planned'
  BY <1>13
    DEF CallsAndCache, CallsTyped, InTurn, Planned, PlanTouchesNothing, Changes, Denied, Moves,
        Enter, CallFrame, workVars
<1>14. ASSUME NEW i \in Slots, ApprovalThrows(i) PROVE Planned'
  BY <1>14
    DEF CallsAndCache, CallsTyped, InTurn, Planned, PlanTouchesNothing, Changes, ApprovalThrows,
        Moves, Enter, CallFrame, workVars
<1>15. ASSUME NEW i \in Slots, PreHookPasses(i) PROVE Planned'
  BY <1>15
    DEF CallsAndCache, CallsTyped, InTurn, Planned, PlanTouchesNothing, Changes, PreHookPasses,
        Moves, Enter, CallFrame, workVars
<1>16. ASSUME NEW i \in Slots, PreHookFails(i) PROVE Planned'
  BY <1>16
    DEF CallsAndCache, CallsTyped, InTurn, Planned, PlanTouchesNothing, Changes, PreHookFails,
        Moves, Enter, CallFrame, workVars
<1>17. ASSUME NEW i \in Slots, Works(i) PROVE Planned'
  BY <1>17
    DEF CallsAndCache, CallsTyped, InTurn, Planned, PlanTouchesNothing, Changes, Works, Moves,
        Enter, CallFrame, workVars
<1>18. ASSUME NEW i \in Slots, Returns(i) PROVE Planned'
  BY <1>18
    DEF CallsAndCache, CallsTyped, InTurn, Planned, PlanTouchesNothing, Changes, Returns, After,
        Moves, Enter, CallFrame, workVars
<1>19. ASSUME NEW i \in Slots, ReturnsError(i) PROVE Planned'
  BY <1>19
    DEF CallsAndCache, CallsTyped, InTurn, Planned, PlanTouchesNothing, Changes, ReturnsError,
        After, Moves, Enter, CallFrame, workVars
<1>20. ASSUME NEW i \in Slots, Throws(i) PROVE Planned'
  BY <1>20
    DEF CallsAndCache, CallsTyped, InTurn, Planned, PlanTouchesNothing, Changes, Throws, After,
        Moves, Enter, CallFrame, workVars
<1>21. ASSUME NEW i \in Slots, TimesOut(i) PROVE Planned'
  BY <1>21
    DEF CallsAndCache, CallsTyped, InTurn, Planned, PlanTouchesNothing, Changes, TimesOut, After,
        Moves, Enter, CallFrame, workVars
<1>22. CASE GhostLands
  BY <1>22
    DEF CallsAndCache, CallsTyped, InTurn, Planned, PlanTouchesNothing, Changes, GhostLands,
        turnVars
<1>23. ASSUME NEW i \in Slots, PostHookPasses(i) PROVE Planned'
  BY <1>23
    DEF CallsAndCache, CallsTyped, InTurn, Planned, PlanTouchesNothing, Changes, PostHookPasses,
        Moves, Enter, CallFrame, workVars
<1>24. ASSUME NEW i \in Slots, PostHookFails(i) PROVE Planned'
  BY <1>24
    DEF CallsAndCache, CallsTyped, InTurn, Planned, PlanTouchesNothing, Changes, PostHookFails,
        Moves, Enter, CallFrame, workVars
<1>25. ASSUME NEW k \in 1..CacheSize, Ages(k) PROVE Planned'
  BY <1>25
    DEF CallsAndCache, CallsTyped, InTurn, Planned, PlanTouchesNothing, Changes, Ages, turnVars,
        workVars
<1>26. CASE UNCHANGED vars
  BY <1>26
    DEF CallsAndCache, CallsTyped, InTurn, Planned, PlanTouchesNothing, Changes, vars, turnVars,
        workVars
<1> QED
  BY <1>1, <1>2, <1>3, <1>4, <1>5, <1>6, <1>7, <1>8, <1>9, <1>10, <1>11, <1>12, <1>13, <1>14,
     <1>15, <1>16, <1>17, <1>18, <1>19, <1>20, <1>21, <1>22, <1>23, <1>24, <1>25, <1>26
  DEF Next, TakeOne, CallStep

\* No step carries out a call, or caches a result, that was not granted.
LEMMA GrantedStep ==
  ASSUME CallsAndCache, InTurn, Granted, [Next]_vars PROVE Granted'
<1>1. CASE StartTurn
  BY <1>1
    DEF CallsAndCache, CallsTyped, InTurn, Granted, GrantedFirst, StartTurn, workVars, turnVars
<1>2. CASE Finish
  BY <1>2 DEF CallsAndCache, CallsTyped, InTurn, Granted, GrantedFirst, Finish, turnVars, workVars
<1>3. CASE EndTurn
  BY <1>3
    DEF CallsAndCache, CallsTyped, InTurn, Granted, GrantedFirst, EndTurn, Settled, InFlight,
        ClearTurn, Blank, workVars
<1>4. CASE TurnThrows
  BY <1>4
    DEF CallsAndCache, CallsTyped, InTurn, Granted, GrantedFirst, TurnThrows, Settled, InFlight,
        ClearTurn, Blank, workVars
<1>5. ASSUME NEW i \in Slots, Reject(i) PROVE Granted'
  BY <1>5
    DEF CallsAndCache, CallsTyped, InTurn, Granted, GrantedFirst, Reject, Take, Enter, TakeFrame,
        workVars
<1>6. ASSUME NEW i \in Slots, AnswerFromCache(i) PROVE Granted'
  BY <1>6
    DEF CallsAndCache, CallsTyped, InTurn, Granted, GrantedFirst, AnswerFromCache, Admitted,
        Take, Enter, Races, Hits, Cached, TakeFrame, InFlight, BarredByPlan, workVars
<1>7. ASSUME NEW i \in Slots, Delegate(i) PROVE Granted'
  BY <1>7
    DEF CallsAndCache, CallsTyped, InTurn, Granted, GrantedFirst, Delegate, Misses, Admitted,
        Take, Enter, TrackFile, Races, TakeFrame, InFlight, BarredByPlan, workVars
<1>8. ASSUME NEW i \in Slots, PutOff(i) PROVE Granted'
  BY <1>8
    DEF CallsAndCache, CallsTyped, InTurn, Granted, GrantedFirst, PutOff, Misses, Admitted, Take,
        Enter, TrackFile, Races, TakeFrame, InFlight, BarredByPlan, workVars
<1>9. ASSUME NEW i \in Slots, Ask(i) PROVE Granted'
  BY <1>9
    DEF CallsAndCache, CallsTyped, InTurn, Granted, GrantedFirst, Ask, Misses, Admitted, Take,
        Enter, TrackFile, Races, TakeFrame, InFlight, BarredByPlan, workVars
<1>10. ASSUME NEW i \in Slots, Proceed(i) PROVE Granted'
  BY <1>10
    DEF CallsAndCache, CallsTyped, InTurn, Granted, GrantedFirst, Proceed, Misses, Admitted,
        Take, Enter, TrackFile, Races, TakeFrame, InFlight, BarredByPlan, workVars
<1>11. ASSUME NEW i \in Slots, Approve(i) PROVE Granted'
  BY <1>11
    DEF CallsAndCache, CallsTyped, InTurn, Granted, GrantedFirst, Approve, Moves, Enter,
        CallFrame, workVars
<1>12. ASSUME NEW i \in Slots, Deny(i) PROVE Granted'
  BY <1>12
    DEF CallsAndCache, CallsTyped, InTurn, Granted, GrantedFirst, Deny, Moves, Enter, CallFrame,
        workVars
<1>13. ASSUME NEW i \in Slots, Denied(i) PROVE Granted'
  BY <1>13
    DEF CallsAndCache, CallsTyped, InTurn, Granted, GrantedFirst, Denied, Moves, Enter,
        CallFrame, workVars
<1>14. ASSUME NEW i \in Slots, ApprovalThrows(i) PROVE Granted'
  BY <1>14
    DEF CallsAndCache, CallsTyped, InTurn, Granted, GrantedFirst, ApprovalThrows, Moves, Enter,
        CallFrame, workVars
<1>15. ASSUME NEW i \in Slots, PreHookPasses(i) PROVE Granted'
  BY <1>15
    DEF CallsAndCache, CallsTyped, InTurn, Granted, GrantedFirst, PreHookPasses, Moves, Enter,
        CallFrame, workVars
<1>16. ASSUME NEW i \in Slots, PreHookFails(i) PROVE Granted'
  BY <1>16
    DEF CallsAndCache, CallsTyped, InTurn, Granted, GrantedFirst, PreHookFails, Moves, Enter,
        CallFrame, workVars
<1>17. ASSUME NEW i \in Slots, Works(i) PROVE Granted'
  BY <1>17
    DEF CallsAndCache, CallsTyped, InTurn, Granted, GrantedFirst, Works, Moves, Enter, CallFrame,
        workVars
<1>18. ASSUME NEW i \in Slots, Returns(i) PROVE Granted'
  <2>1. CASE batch[i] \in ReadOnly
    <3>1. SetCached(batch[i], seen[i]) /\ seen[i] \in Nat
      BY <1>18, <2>1 DEF Returns, CallsAndCache, CallsTyped
    <3>2. \A k \in DOMAIN cache' :
            cache'[k].call = batch[i] \/ \E j \in DOMAIN cache : cache'[k] = cache[j]
      BY <2>1, <3>1, CacheFacts DEF CallsAndCache, CallsTyped, CacheBounded
    <3> QED BY <1>18, <3>2
      DEF CallsAndCache, CallsTyped, InTurn, Granted, GrantedFirst, Returns, After, Moves, Enter,
          CallFrame, workVars
  <2>2. CASE batch[i] \notin ReadOnly
    BY <1>18, <2>2
      DEF CallsAndCache, CallsTyped, InTurn, Granted, GrantedFirst, Returns, After, Moves, Enter,
          CallFrame, workVars
  <2> QED BY <2>1, <2>2
<1>19. ASSUME NEW i \in Slots, ReturnsError(i) PROVE Granted'
  BY <1>19
    DEF CallsAndCache, CallsTyped, InTurn, Granted, GrantedFirst, ReturnsError, After, Moves,
        Enter, CallFrame, workVars
<1>20. ASSUME NEW i \in Slots, Throws(i) PROVE Granted'
  BY <1>20
    DEF CallsAndCache, CallsTyped, InTurn, Granted, GrantedFirst, Throws, After, Moves, Enter,
        CallFrame, workVars
<1>21. ASSUME NEW i \in Slots, TimesOut(i) PROVE Granted'
  BY <1>21
    DEF CallsAndCache, CallsTyped, InTurn, Granted, GrantedFirst, TimesOut, After, Moves, Enter,
        CallFrame, workVars
<1>22. CASE GhostLands
  BY <1>22 DEF CallsAndCache, CallsTyped, InTurn, Granted, GrantedFirst, GhostLands, turnVars
<1>23. ASSUME NEW i \in Slots, PostHookPasses(i) PROVE Granted'
  BY <1>23
    DEF CallsAndCache, CallsTyped, InTurn, Granted, GrantedFirst, PostHookPasses, Moves, Enter,
        CallFrame, workVars
<1>24. ASSUME NEW i \in Slots, PostHookFails(i) PROVE Granted'
  BY <1>24
    DEF CallsAndCache, CallsTyped, InTurn, Granted, GrantedFirst, PostHookFails, Moves, Enter,
        CallFrame, workVars
<1>25. ASSUME NEW k \in 1..CacheSize, Ages(k) PROVE Granted'
  <2>1. DOMAIN cache' = DOMAIN cache /\ \A j \in DOMAIN cache : cache'[j].call = cache[j].call
    BY <1>25 DEF Ages, CallsAndCache, CallsTyped, CacheEntry
  <2> QED BY <1>25, <2>1
    DEF CallsAndCache, CallsTyped, InTurn, Granted, GrantedFirst, Ages, turnVars, workVars
<1>26. CASE UNCHANGED vars
  BY <1>26 DEF CallsAndCache, CallsTyped, InTurn, Granted, GrantedFirst, vars, turnVars, workVars
<1> QED
  BY <1>1, <1>2, <1>3, <1>4, <1>5, <1>6, <1>7, <1>8, <1>9, <1>10, <1>11, <1>12, <1>13, <1>14,
     <1>15, <1>16, <1>17, <1>18, <1>19, <1>20, <1>21, <1>22, <1>23, <1>24, <1>25, <1>26
  DEF Next, TakeOne, CallStep

\* No step caches, or answers a read with, anything stale without a race.
LEMMA ReadsFreshStep ==
  ASSUME CallsAndCache, InTurn, ReadsFresh, [Next]_vars PROVE ReadsFresh'
<1>1. CASE StartTurn
  BY <1>1, Classes, CallBounds
    DEF CallsAndCache, CallsTyped, InTurn, ReadsFresh, BeganBefore, Unmixed, CacheFresh, SeenFresh,
        ReadsAreFresh, Slots, StartTurn, workVars, turnVars
<1>2. CASE Finish
  BY <1>2, Classes, CallBounds
    DEF CallsAndCache, CallsTyped, InTurn, ReadsFresh, BeganBefore, Unmixed, CacheFresh, SeenFresh,
        ReadsAreFresh, Slots, Finish, turnVars, workVars
<1>3. CASE EndTurn
  <2>1. BeganBefore'
    BY <1>3, CallBounds
      DEF CallsAndCache, CallsTyped, InTurn, ReadsFresh, Slots, BeganBefore, EndTurn, Settled,
          InFlight, ClearTurn, Blank, workVars
  <2>2. ~raced' => ~raced /\ ghosts' = 0
    BY <1>3
      DEF CallsAndCache, CallsTyped, InTurn, ReadsFresh, Slots, EndTurn, Settled, InFlight, ClearTurn,
          Blank, workVars
  <2>3. ~raced' => Unmixed'
    BY <1>3, <2>2, Classes, CallBounds
      DEF CallsAndCache, CallsTyped, InTurn, ReadsFresh, Slots, Unmixed, EndTurn, Settled, InFlight,
          ClearTurn, Blank, workVars
  <2>4. ~raced' => CacheFresh'
    BY <1>3, <2>2, Classes, CallBounds
      DEF CallsAndCache, CallsTyped, InTurn, ReadsFresh, Slots, Unmixed, CacheFresh, EndTurn, Settled,
          InFlight, ClearTurn, Blank, workVars
  <2>5. ~raced' => SeenFresh'
    BY <1>3, <2>2, Classes, CallBounds
      DEF CallsAndCache, CallsTyped, InTurn, ReadsFresh, Slots, Unmixed, SeenFresh, EndTurn, Settled,
          InFlight, ClearTurn, Blank, workVars
  <2>6. ReadsAreFresh'
    BY <1>3, <2>2, Classes, CallBounds
      DEF CallsAndCache, CallsTyped, InTurn, ReadsFresh, Slots, BeganBefore, Unmixed, CacheFresh,
          SeenFresh, ReadsAreFresh, EndTurn, Settled, InFlight, ClearTurn, Blank, workVars
  <2> QED BY <2>1, <2>2, <2>3, <2>4, <2>5, <2>6 DEF ReadsFresh
<1>4. CASE TurnThrows
  <2>1. BeganBefore'
    BY <1>4, CallBounds
      DEF CallsAndCache, CallsTyped, InTurn, ReadsFresh, Slots, BeganBefore, TurnThrows, Settled,
          InFlight, ClearTurn, Blank, workVars
  <2>2. ~raced' => ~raced /\ ghosts' = 0
    BY <1>4
      DEF CallsAndCache, CallsTyped, InTurn, ReadsFresh, Slots, TurnThrows, Settled, InFlight,
          ClearTurn, Blank, workVars
  <2>3. ~raced' => Unmixed'
    BY <1>4, <2>2, Classes, CallBounds
      DEF CallsAndCache, CallsTyped, InTurn, ReadsFresh, Slots, Unmixed, TurnThrows, Settled,
          InFlight, ClearTurn, Blank, workVars
  <2>4. ~raced' => CacheFresh'
    BY <1>4, <2>2, Classes, CallBounds
      DEF CallsAndCache, CallsTyped, InTurn, ReadsFresh, Slots, Unmixed, CacheFresh, TurnThrows,
          Settled, InFlight, ClearTurn, Blank, workVars
  <2>5. ~raced' => SeenFresh'
    BY <1>4, <2>2, Classes, CallBounds
      DEF CallsAndCache, CallsTyped, InTurn, ReadsFresh, Slots, Unmixed, SeenFresh, TurnThrows,
          Settled, InFlight, ClearTurn, Blank, workVars
  <2>6. ReadsAreFresh'
    BY <1>4, <2>2, Classes, CallBounds
      DEF CallsAndCache, CallsTyped, InTurn, ReadsFresh, Slots, BeganBefore, Unmixed, CacheFresh,
          SeenFresh, ReadsAreFresh, TurnThrows, Settled, InFlight, ClearTurn, Blank,
          workVars
  <2> QED BY <2>1, <2>2, <2>3, <2>4, <2>5, <2>6 DEF ReadsFresh
<1>5. ASSUME NEW i \in Slots, Reject(i) PROVE ReadsFresh'
  BY <1>5, Classes, CallBounds
    DEF CallsAndCache, CallsTyped, InTurn, ReadsFresh, BeganBefore, Unmixed, CacheFresh, SeenFresh,
        ReadsAreFresh, Slots, Reject, Take, Enter, TakeFrame, workVars
<1>6. ASSUME NEW i \in Slots, AnswerFromCache(i) PROVE ReadsFresh'
  <2>1. BeganBefore'
    BY <1>6, CallBounds
      DEF CallsAndCache, CallsTyped, InTurn, ReadsFresh, Slots, BeganBefore, AnswerFromCache,
          Admitted, Take, Enter, Races, Hits, Cached, TakeFrame, InFlight, BarredByPlan,
          workVars
  <2>2. ~raced' => ~raced /\ ghosts' = 0
    BY <1>6
      DEF CallsAndCache, CallsTyped, InTurn, ReadsFresh, Slots, AnswerFromCache, Admitted, Take,
          Enter, Races, Hits, Cached, TakeFrame, InFlight, BarredByPlan, workVars
  <2>3. ~raced' => Unmixed'
    BY <1>6, <2>2, Classes, CallBounds
      DEF CallsAndCache, CallsTyped, InTurn, ReadsFresh, Slots, Unmixed, AnswerFromCache, Admitted,
          Take, Enter, Races, Hits, Cached, TakeFrame, InFlight, BarredByPlan, workVars
  <2>4. ~raced' => CacheFresh'
    BY <1>6, <2>2, Classes, CallBounds
      DEF CallsAndCache, CallsTyped, InTurn, ReadsFresh, Slots, Unmixed, CacheFresh, AnswerFromCache,
          Admitted, Take, Enter, Races, Hits, Cached, TakeFrame, InFlight, BarredByPlan,
          workVars
  <2>5. ~raced' => SeenFresh'
    BY <1>6, <2>2, Classes, CallBounds
      DEF CallsAndCache, CallsTyped, InTurn, ReadsFresh, Slots, Unmixed, SeenFresh, AnswerFromCache,
          Admitted, Take, Enter, Races, Hits, Cached, TakeFrame, InFlight, BarredByPlan,
          workVars
  <2>6. ReadsAreFresh'
    <3>1. PICK k \in Hits(batch[i]) : seen' = [seen EXCEPT ![i] = cache[k].version]
      BY <1>6 DEF AnswerFromCache
    <3>2. k \in DOMAIN cache /\ batch[i] \in ReadOnly
      BY <3>1 DEF Hits, Cached
    <3>3. ~raced' => ~raced /\ cache[k].version = version
      BY <1>6, <3>2, Classes
        DEF CallsTyped, CallsAndCache, ReadsFresh, CacheFresh, AnswerFromCache, Races, InFlight
    <3>4. began' = [began EXCEPT ![i] = version] /\ reply' = [reply EXCEPT ![i] = "ok"] /\ batch' = batch
      BY <1>6 DEF AnswerFromCache, Enter, TakeFrame
    <3> QED BY <3>1, <3>2, <3>3, <3>4 DEF CallsTyped, CallsAndCache, ReadsFresh, ReadsAreFresh
  <2> QED BY <2>1, <2>2, <2>3, <2>4, <2>5, <2>6 DEF ReadsFresh
<1>7. ASSUME NEW i \in Slots, Delegate(i) PROVE ReadsFresh'
  <2>1. BeganBefore'
    BY <1>7, CallBounds
      DEF CallsAndCache, CallsTyped, InTurn, ReadsFresh, Slots, BeganBefore, Delegate, Misses,
          Admitted, Take, Enter, TrackFile, Races, TakeFrame, InFlight, BarredByPlan,
          workVars
  <2>2. ~raced' => ~raced /\ ghosts' = 0
    BY <1>7
      DEF CallsAndCache, CallsTyped, InTurn, ReadsFresh, Slots, Delegate, Misses, Admitted, Take,
          Enter, TrackFile, Races, TakeFrame, InFlight, BarredByPlan, workVars
  <2>3. ~raced' => Unmixed'
    BY <1>7, <2>2, Classes, CallBounds
      DEF CallsAndCache, CallsTyped, InTurn, ReadsFresh, Slots, Unmixed, Delegate, Misses, Admitted,
          Take, Enter, TrackFile, Races, TakeFrame, InFlight, BarredByPlan, workVars
  <2>4. ~raced' => CacheFresh'
    BY <1>7, <2>2, Classes, CallBounds
      DEF CallsAndCache, CallsTyped, InTurn, ReadsFresh, Slots, Unmixed, CacheFresh, Delegate, Misses,
          Admitted, Take, Enter, TrackFile, Races, TakeFrame, InFlight, BarredByPlan,
          workVars
  <2>5. ~raced' => SeenFresh'
    BY <1>7, <2>2, Classes, CallBounds
      DEF CallsAndCache, CallsTyped, InTurn, ReadsFresh, Slots, Unmixed, SeenFresh, Delegate, Misses,
          Admitted, Take, Enter, TrackFile, Races, TakeFrame, InFlight, BarredByPlan,
          workVars
  <2>6. ReadsAreFresh'
    BY <1>7, <2>2, Classes, CallBounds
      DEF CallsAndCache, CallsTyped, InTurn, ReadsFresh, Slots, BeganBefore, Unmixed, CacheFresh,
          SeenFresh, ReadsAreFresh, Delegate, Misses, Admitted, Take, Enter, TrackFile,
          Races, TakeFrame, InFlight, BarredByPlan, workVars
  <2> QED BY <2>1, <2>2, <2>3, <2>4, <2>5, <2>6 DEF ReadsFresh
<1>8. ASSUME NEW i \in Slots, PutOff(i) PROVE ReadsFresh'
  <2>1. BeganBefore'
    BY <1>8, CallBounds
      DEF CallsAndCache, CallsTyped, InTurn, ReadsFresh, Slots, BeganBefore, PutOff, Misses, Admitted,
          Take, Enter, TrackFile, Races, TakeFrame, InFlight, BarredByPlan, workVars
  <2>2. ~raced' => ~raced /\ ghosts' = 0
    BY <1>8
      DEF CallsAndCache, CallsTyped, InTurn, ReadsFresh, Slots, PutOff, Misses, Admitted, Take, Enter,
          TrackFile, Races, TakeFrame, InFlight, BarredByPlan, workVars
  <2>3. ~raced' => Unmixed'
    BY <1>8, <2>2, Classes, CallBounds
      DEF CallsAndCache, CallsTyped, InTurn, ReadsFresh, Slots, Unmixed, PutOff, Misses, Admitted,
          Take, Enter, TrackFile, Races, TakeFrame, InFlight, BarredByPlan, workVars
  <2>4. ~raced' => CacheFresh'
    BY <1>8, <2>2, Classes, CallBounds
      DEF CallsAndCache, CallsTyped, InTurn, ReadsFresh, Slots, Unmixed, CacheFresh, PutOff, Misses,
          Admitted, Take, Enter, TrackFile, Races, TakeFrame, InFlight, BarredByPlan,
          workVars
  <2>5. ~raced' => SeenFresh'
    BY <1>8, <2>2, Classes, CallBounds
      DEF CallsAndCache, CallsTyped, InTurn, ReadsFresh, Slots, Unmixed, SeenFresh, PutOff, Misses,
          Admitted, Take, Enter, TrackFile, Races, TakeFrame, InFlight, BarredByPlan,
          workVars
  <2>6. ReadsAreFresh'
    BY <1>8, <2>2, Classes, CallBounds
      DEF CallsAndCache, CallsTyped, InTurn, ReadsFresh, Slots, BeganBefore, Unmixed, CacheFresh,
          SeenFresh, ReadsAreFresh, PutOff, Misses, Admitted, Take, Enter, TrackFile,
          Races, TakeFrame, InFlight, BarredByPlan, workVars
  <2> QED BY <2>1, <2>2, <2>3, <2>4, <2>5, <2>6 DEF ReadsFresh
<1>9. ASSUME NEW i \in Slots, Ask(i) PROVE ReadsFresh'
  <2>1. BeganBefore'
    BY <1>9, CallBounds
      DEF CallsAndCache, CallsTyped, InTurn, ReadsFresh, Slots, BeganBefore, Ask, Misses, Admitted,
          Take, Enter, TrackFile, Races, TakeFrame, InFlight, BarredByPlan, workVars
  <2>2. ~raced' => ~raced /\ ghosts' = 0
    BY <1>9
      DEF CallsAndCache, CallsTyped, InTurn, ReadsFresh, Slots, Ask, Misses, Admitted, Take, Enter,
          TrackFile, Races, TakeFrame, InFlight, BarredByPlan, workVars
  <2>3. ~raced' => Unmixed'
    BY <1>9, <2>2, Classes, CallBounds
      DEF CallsAndCache, CallsTyped, InTurn, ReadsFresh, Slots, Unmixed, Ask, Misses, Admitted, Take,
          Enter, TrackFile, Races, TakeFrame, InFlight, BarredByPlan, workVars
  <2>4. ~raced' => CacheFresh'
    BY <1>9, <2>2, Classes, CallBounds
      DEF CallsAndCache, CallsTyped, InTurn, ReadsFresh, Slots, Unmixed, CacheFresh, Ask, Misses,
          Admitted, Take, Enter, TrackFile, Races, TakeFrame, InFlight, BarredByPlan,
          workVars
  <2>5. ~raced' => SeenFresh'
    BY <1>9, <2>2, Classes, CallBounds
      DEF CallsAndCache, CallsTyped, InTurn, ReadsFresh, Slots, Unmixed, SeenFresh, Ask, Misses,
          Admitted, Take, Enter, TrackFile, Races, TakeFrame, InFlight, BarredByPlan,
          workVars
  <2>6. ReadsAreFresh'
    BY <1>9, <2>2, Classes, CallBounds
      DEF CallsAndCache, CallsTyped, InTurn, ReadsFresh, Slots, BeganBefore, Unmixed, CacheFresh,
          SeenFresh, ReadsAreFresh, Ask, Misses, Admitted, Take, Enter, TrackFile, Races,
          TakeFrame, InFlight, BarredByPlan, workVars
  <2> QED BY <2>1, <2>2, <2>3, <2>4, <2>5, <2>6 DEF ReadsFresh
<1>10. ASSUME NEW i \in Slots, Proceed(i) PROVE ReadsFresh'
  <2>1. BeganBefore'
    BY <1>10, CallBounds
      DEF CallsAndCache, CallsTyped, InTurn, ReadsFresh, Slots, BeganBefore, Proceed, Misses,
          Admitted, Take, Enter, TrackFile, Races, TakeFrame, InFlight, BarredByPlan,
          workVars
  <2>2. ~raced' => ~raced /\ ghosts' = 0
    BY <1>10
      DEF CallsAndCache, CallsTyped, InTurn, ReadsFresh, Slots, Proceed, Misses, Admitted, Take,
          Enter, TrackFile, Races, TakeFrame, InFlight, BarredByPlan, workVars
  <2>3. ~raced' => Unmixed'
    BY <1>10, <2>2, Classes, CallBounds
      DEF CallsAndCache, CallsTyped, InTurn, ReadsFresh, Slots, Unmixed, Proceed, Misses, Admitted,
          Take, Enter, TrackFile, Races, TakeFrame, InFlight, BarredByPlan, workVars
  <2>4. ~raced' => CacheFresh'
    BY <1>10, <2>2, Classes, CallBounds
      DEF CallsAndCache, CallsTyped, InTurn, ReadsFresh, Slots, Unmixed, CacheFresh, Proceed, Misses,
          Admitted, Take, Enter, TrackFile, Races, TakeFrame, InFlight, BarredByPlan,
          workVars
  <2>5. ~raced' => SeenFresh'
    BY <1>10, <2>2, Classes, CallBounds
      DEF CallsAndCache, CallsTyped, InTurn, ReadsFresh, Slots, Unmixed, SeenFresh, Proceed, Misses,
          Admitted, Take, Enter, TrackFile, Races, TakeFrame, InFlight, BarredByPlan,
          workVars
  <2>6. ReadsAreFresh'
    BY <1>10, <2>2, Classes, CallBounds
      DEF CallsAndCache, CallsTyped, InTurn, ReadsFresh, Slots, BeganBefore, Unmixed, CacheFresh,
          SeenFresh, ReadsAreFresh, Proceed, Misses, Admitted, Take, Enter, TrackFile,
          Races, TakeFrame, InFlight, BarredByPlan, workVars
  <2> QED BY <2>1, <2>2, <2>3, <2>4, <2>5, <2>6 DEF ReadsFresh
<1>11. ASSUME NEW i \in Slots, Approve(i) PROVE ReadsFresh'
  BY <1>11, Classes, CallBounds
    DEF CallsAndCache, CallsTyped, InTurn, ReadsFresh, BeganBefore, Unmixed, CacheFresh, SeenFresh,
        ReadsAreFresh, Slots, Approve, Moves, Enter, CallFrame, workVars
<1>12. ASSUME NEW i \in Slots, Deny(i) PROVE ReadsFresh'
  BY <1>12, Classes, CallBounds
    DEF CallsAndCache, CallsTyped, InTurn, ReadsFresh, BeganBefore, Unmixed, CacheFresh, SeenFresh,
        ReadsAreFresh, Slots, Deny, Moves, Enter, CallFrame, workVars
<1>13. ASSUME NEW i \in Slots, Denied(i) PROVE ReadsFresh'
  BY <1>13, Classes, CallBounds
    DEF CallsAndCache, CallsTyped, InTurn, ReadsFresh, BeganBefore, Unmixed, CacheFresh, SeenFresh,
        ReadsAreFresh, Slots, Denied, Moves, Enter, CallFrame, workVars
<1>14. ASSUME NEW i \in Slots, ApprovalThrows(i) PROVE ReadsFresh'
  BY <1>14, Classes, CallBounds
    DEF CallsAndCache, CallsTyped, InTurn, ReadsFresh, BeganBefore, Unmixed, CacheFresh, SeenFresh,
        ReadsAreFresh, Slots, ApprovalThrows, Moves, Enter, CallFrame, workVars
<1>15. ASSUME NEW i \in Slots, PreHookPasses(i) PROVE ReadsFresh'
  BY <1>15, Classes, CallBounds
    DEF CallsAndCache, CallsTyped, InTurn, ReadsFresh, BeganBefore, Unmixed, CacheFresh, SeenFresh,
        ReadsAreFresh, Slots, PreHookPasses, Moves, Enter, CallFrame, workVars
<1>16. ASSUME NEW i \in Slots, PreHookFails(i) PROVE ReadsFresh'
  BY <1>16, Classes, CallBounds
    DEF CallsAndCache, CallsTyped, InTurn, ReadsFresh, BeganBefore, Unmixed, CacheFresh, SeenFresh,
        ReadsAreFresh, Slots, PreHookFails, Moves, Enter, CallFrame, workVars
<1>17. ASSUME NEW i \in Slots, Works(i) PROVE ReadsFresh'
  <2>1. BeganBefore'
    BY <1>17, CallBounds
      DEF CallsAndCache, CallsTyped, InTurn, ReadsFresh, Slots, BeganBefore, Works, Moves, Enter,
          CallFrame, workVars
  <2>2. ~raced' => ~raced /\ ghosts' = 0
    BY <1>17
      DEF CallsAndCache, CallsTyped, InTurn, ReadsFresh, Slots, Works, Moves, Enter, CallFrame,
          workVars
  <2>3. ~raced' => Unmixed'
    BY <1>17, <2>2, Classes, CallBounds
      DEF CallsAndCache, CallsTyped, InTurn, ReadsFresh, Slots, Unmixed, Works, Moves, Enter,
          CallFrame, workVars
  <2>4. ~raced' => CacheFresh'
    BY <1>17, <2>2, Classes, CallBounds
      DEF CallsAndCache, CallsTyped, InTurn, ReadsFresh, Slots, Unmixed, CacheFresh, Works, Moves,
          Enter, CallFrame, workVars
  <2>5. ~raced' => SeenFresh'
    BY <1>17, <2>2, Classes, CallBounds
      DEF CallsAndCache, CallsTyped, InTurn, ReadsFresh, Slots, Unmixed, SeenFresh, Works, Moves,
          Enter, CallFrame, workVars
  <2>6. ReadsAreFresh'
    BY <1>17, <2>2, Classes, CallBounds
      DEF CallsAndCache, CallsTyped, InTurn, ReadsFresh, Slots, BeganBefore, Unmixed, CacheFresh,
          SeenFresh, ReadsAreFresh, Works, Moves, Enter, CallFrame, workVars
  <2> QED BY <2>1, <2>2, <2>3, <2>4, <2>5, <2>6 DEF ReadsFresh
<1>18. ASSUME NEW i \in Slots, Returns(i) PROVE ReadsFresh'
  <2>1. CASE batch[i] \in ReadOnly
    <3>1. SetCached(batch[i], seen[i]) /\ seen[i] \in Nat
      BY <1>18, <2>1 DEF Returns, CallsAndCache, CallsTyped
    <3>2. \A k \in DOMAIN cache' :
            cache'[k].version = seen[i] \/ \E j \in DOMAIN cache : cache'[k] = cache[j]
      BY <2>1, <3>1, CacheFacts DEF CallsAndCache, CallsTyped, CacheBounded
    <3> QED BY <1>18, <2>1, <3>2, Classes
      DEF CallsAndCache, CallsTyped, InTurn, ReadsFresh, BeganBefore, Unmixed, CacheFresh, SeenFresh,
          ReadsAreFresh, Slots, Returns, After, Moves, Enter, CallFrame, workVars
  <2>2. CASE batch[i] \notin ReadOnly
    BY <1>18, <2>2, Classes
      DEF CallsAndCache, CallsTyped, InTurn, ReadsFresh, BeganBefore, Unmixed, CacheFresh, SeenFresh,
          ReadsAreFresh, Slots, Returns, After, Moves, Enter, CallFrame, workVars
  <2> QED BY <2>1, <2>2
<1>19. ASSUME NEW i \in Slots, ReturnsError(i) PROVE ReadsFresh'
  <2>1. BeganBefore'
    BY <1>19, CallBounds
      DEF CallsAndCache, CallsTyped, InTurn, ReadsFresh, Slots, BeganBefore, ReturnsError, After,
          Moves, Enter, CallFrame, workVars
  <2>2. ~raced' => ~raced /\ ghosts' = 0
    BY <1>19
      DEF CallsAndCache, CallsTyped, InTurn, ReadsFresh, Slots, ReturnsError, After, Moves, Enter,
          CallFrame, workVars
  <2>3. ~raced' => Unmixed'
    BY <1>19, <2>2, Classes, CallBounds
      DEF CallsAndCache, CallsTyped, InTurn, ReadsFresh, Slots, Unmixed, ReturnsError, After, Moves,
          Enter, CallFrame, workVars
  <2>4. ~raced' => CacheFresh'
    BY <1>19, <2>2, Classes, CallBounds
      DEF CallsAndCache, CallsTyped, InTurn, ReadsFresh, Slots, Unmixed, CacheFresh, ReturnsError,
          After, Moves, Enter, CallFrame, workVars
  <2>5. ~raced' => SeenFresh'
    BY <1>19, <2>2, Classes, CallBounds
      DEF CallsAndCache, CallsTyped, InTurn, ReadsFresh, Slots, Unmixed, SeenFresh, ReturnsError,
          After, Moves, Enter, CallFrame, workVars
  <2>6. ReadsAreFresh'
    BY <1>19, <2>2, Classes, CallBounds
      DEF CallsAndCache, CallsTyped, InTurn, ReadsFresh, Slots, BeganBefore, Unmixed, CacheFresh,
          SeenFresh, ReadsAreFresh, ReturnsError, After, Moves, Enter, CallFrame, workVars
  <2> QED BY <2>1, <2>2, <2>3, <2>4, <2>5, <2>6 DEF ReadsFresh
<1>20. ASSUME NEW i \in Slots, Throws(i) PROVE ReadsFresh'
  BY <1>20, Classes, CallBounds
    DEF CallsAndCache, CallsTyped, InTurn, ReadsFresh, BeganBefore, Unmixed, CacheFresh, SeenFresh,
        ReadsAreFresh, Slots, Throws, After, Moves, Enter, CallFrame, workVars
<1>21. ASSUME NEW i \in Slots, TimesOut(i) PROVE ReadsFresh'
  BY <1>21, Classes, CallBounds
    DEF CallsAndCache, CallsTyped, InTurn, ReadsFresh, BeganBefore, Unmixed, CacheFresh, SeenFresh,
        ReadsAreFresh, Slots, TimesOut, After, Moves, Enter, CallFrame, workVars
<1>22. CASE GhostLands
  BY <1>22, Classes, CallBounds
    DEF CallsAndCache, CallsTyped, InTurn, ReadsFresh, BeganBefore, Unmixed, CacheFresh, SeenFresh,
        ReadsAreFresh, Slots, GhostLands, turnVars
<1>23. ASSUME NEW i \in Slots, PostHookPasses(i) PROVE ReadsFresh'
  BY <1>23, Classes, CallBounds
    DEF CallsAndCache, CallsTyped, InTurn, ReadsFresh, BeganBefore, Unmixed, CacheFresh, SeenFresh,
        ReadsAreFresh, Slots, PostHookPasses, Moves, Enter, CallFrame, workVars
<1>24. ASSUME NEW i \in Slots, PostHookFails(i) PROVE ReadsFresh'
  BY <1>24, Classes, CallBounds
    DEF CallsAndCache, CallsTyped, InTurn, ReadsFresh, BeganBefore, Unmixed, CacheFresh, SeenFresh,
        ReadsAreFresh, Slots, PostHookFails, Moves, Enter, CallFrame, workVars
<1>25. ASSUME NEW k \in 1..CacheSize, Ages(k) PROVE ReadsFresh'
  <2>1. DOMAIN cache' = DOMAIN cache /\ \A j \in DOMAIN cache : cache'[j].version = cache[j].version
    BY <1>25 DEF Ages, CallsAndCache, CallsTyped, CacheEntry
  <2> QED BY <1>25, <2>1
    DEF CallsAndCache, CallsTyped, InTurn, ReadsFresh, BeganBefore, Unmixed, CacheFresh, SeenFresh,
        ReadsAreFresh, Slots, Ages, turnVars, workVars
<1>26. CASE UNCHANGED vars
  BY <1>26, Classes, CallBounds
    DEF CallsAndCache, CallsTyped, InTurn, ReadsFresh, BeganBefore, Unmixed, CacheFresh, SeenFresh,
        ReadsAreFresh, Slots, vars, turnVars, workVars
<1> QED
  BY <1>1, <1>2, <1>3, <1>4, <1>5, <1>6, <1>7, <1>8, <1>9, <1>10, <1>11, <1>12, <1>13, <1>14,
     <1>15, <1>16, <1>17, <1>18, <1>19, <1>20, <1>21, <1>22, <1>23, <1>24, <1>25, <1>26
  DEF Next, TakeOne, CallStep

\* The inductive invariant.
ToolsInv == CallsAndCache /\ InTurn /\ Tracked /\ Planned /\ Granted /\ ReadsFresh

\* The invariant holds in every state.
THEOREM ToolsInvariance == Spec => []ToolsInv
<1>1. Init => ToolsInv
  BY ToolsInitInv DEF ToolsInv, CallsAndCache
<1>2. ToolsInv /\ [Next]_vars => ToolsInv'
  BY CallsStep, InTurnStep, TrackedStep, PlannedStep, GrantedStep, ReadsFreshStep DEF ToolsInv
<1> QED BY <1>1, <1>2, PTL DEF Spec

\* Reads are fresh, for any number of workers: the cache never answers with less than
\* the workspace held when the read was called, unless a change was abandoned or ran
\* beside a read.
THEOREM NoStaleReads == Spec => []ReadsAreFresh
<1>1. ToolsInv => ReadsAreFresh
  BY DEF ToolsInv, ReadsFresh, ReadsAreFresh
<1> QED BY <1>1, ToolsInvariance, PTL

\* No local tool that needs approval runs, and no result of it is shown, before the
\* user has approved a call like it.
THEOREM NothingUngranted == Spec => []GrantedFirst
<1>1. ToolsInv => GrantedFirst
  BY DEF ToolsInv, Granted
<1> QED BY <1>1, ToolsInvariance, PTL

\* The workspace is untouched as long as plan mode lasts.
THEOREM PlanIsHarmless == Spec => []PlanTouchesNothing
<1>1. ToolsInv => PlanTouchesNothing
  BY DEF ToolsInv, Planned
<1> QED BY <1>1, ToolsInvariance, PTL

\* filesChanged misses no file, whatever became of the call that changed it.
THEOREM NoFileIsMissed == Spec => []ChangesAreTracked
<1>1. ToolsInv => ChangesAreTracked
  BY DEF ToolsInv, Tracked
<1> QED BY <1>1, ToolsInvariance, PTL

\* The result cache never exceeds its limit.
THEOREM CacheIsBounded == Spec => []CacheBounded
<1>1. ToolsInv => CacheBounded
  BY DEF ToolsInv, CallsAndCache
<1> QED BY <1>1, ToolsInvariance, PTL

-----------------------------------------------------------------------------
(***************************************************************************)
(* The history of a session (Conversation).                                *)
(***************************************************************************)

\* The first k messages are in order, each result within the answer it belongs to.
OrderedTo(ms, k) ==
  /\ \A i \in 1..k : ms[i].role = "assistant" =>
       \A c \in 1..ms[i].index : i + c <= k /\ ms[i + c] = Result(ms[i].turn, c)
  /\ \A i \in 1..k : ms[i].role = "tool" =>
       /\ ms[i].index >= 1 /\ i - ms[i].index >= 1
       /\ ms[i - ms[i].index].role = "assistant" /\ ms[i - ms[i].index].turn = ms[i].turn
       /\ ms[i].index <= ms[i - ms[i].index].index
  /\ \A i, j \in 1..k : ms[i].role = "assistant" /\ ms[j].role = "assistant" /\ ms[i].turn = ms[j].turn => i = j
  /\ \A i \in 1..k : ms[i].role = "system" <=> i = 1

\* A turn is told of by the answer in its place, or covered by a summary.
Told(ms, told) ==
  \A t \in told : \E i \in DOMAIN ms : (ms[i].role = "assistant" /\ ms[i].turn = t) \/ t \in ms[i].covers

\* A history that begins with the system prompt and a prompt or a summary, and tells what
\* it should; before the first summary nothing is covered.
Kept(ms, k, told, s) ==
  /\ OrderedTo(ms, k) /\ k >= 1
  /\ k >= 2 => ms[2].role = "user"
  /\ s = 0 => \A i \in DOMAIN ms : ms[i].covers = {}
  /\ s <= 1 => Told(ms, told)

\* The same of a session file; a question in it is not of a turn that the history has.
KeptFile(f, s) ==
  /\ Kept(f.messages, Len(f.messages), f.said, s)
  /\ f.turnCount > 0 => Len(f.messages) >= 2
  /\ f.pending # Nil => f.pending.turn \notin Turns(f.messages)

\* A message of n answers.
IsMessage(m, n) == m \in Messages /\ m.covers \subseteq 1..n /\ (m.role = "assistant" => m.turn \in 1..n)
\* ... and the messages together.
IsHistory(ms, n) == ms \in Seq(Messages) /\ \A i \in DOMAIN ms : IsMessage(ms[i], n)
\* A question put to the user.
IsQuestion(p, n) == p.turn \in 1..n /\ p.calls \in Answers /\ p.asked \in DOMAIN p.calls
\* The fields of a session file.
FileRecord == [messages : Seq(Messages), pending : {Nil} \cup [turn : Nat, calls : Answers, asked : Nat],
               turnCount : 0..MaxAnswers, summarized : BOOLEAN, said : SUBSET (1..MaxAnswers)]
\* A session file of n answers.
IsSession(f, n) ==
  /\ f \in FileRecord
  /\ IsHistory(f.messages, n) /\ f.said \subseteq 1..n
  /\ f.pending # Nil => IsQuestion(f.pending, n)

\* What a run has.
RunTyped ==
  /\ stage \in Phases /\ approvalMode \in Modes \cup {"open"}
  /\ decision \in {"none", "approve", "deny"}
  /\ IsHistory(messages, answers)
  /\ calls \in Answers /\ turn \in Nat /\ failedAt \in -Cooldown - 1..MaxAnswers
  /\ stage = "resolve" => pending # Nil
  /\ pending # Nil => IsQuestion(pending, answers)
  /\ said \subseteq 1..answers

\* The session file, and the copy of it that maintenance works on: there is a file as long
\* as maintenance is under way.
FilesTyped ==
  /\ savedData # Nil \/ maint # Nil => IsSession(savedData, answers)
  /\ maint # Nil => /\ IsSession(maint.data, answers)
                    /\ maint \in [tool : Tools, data : FileRecord, locked : BOOLEAN]
                    /\ maint.tool = "rollback" => maint.data.turnCount > 0
                    /\ maint.locked => maint.tool = "compact"

\* The counters.
CountsTyped ==
  /\ runs \in 0..MaxRuns /\ answers \in 0..MaxAnswers
  /\ ignored \in BOOLEAN /\ summaries \in 0..2 /\ damaged \in BOOLEAN

\* Only a turn with an answer is counted.
TurnsCounted ==
  /\ turn <= answers
  /\ stage \in {"tools", "judge", "turnEnd"} => turn < answers

\* The types the proofs need.
ConversationTyped == RunTyped /\ FilesTyped /\ CountsTyped /\ TurnsCounted

\* What a run has is kept; between an answer and its results it is not complete.
RunKept ==
  /\ Len(messages) >= 2
  /\ stage # "tools" => Kept(messages, Len(messages), said, summaries)
  /\ stage = "resolve" => pending.turn \notin Turns(messages)
  /\ stage = "tools" => /\ Len(messages) >= 3
                        /\ Kept(messages, Len(messages) - 1, said, summaries)
                        /\ messages[Len(messages)] = Assistant(answers, Len(calls))
                        /\ \A i \in 1..Len(messages) - 1 :
                             messages[i].role = "assistant" => messages[i].turn # answers
  /\ stage = "judge" => \E p \in DOMAIN messages : messages[p] = Assistant(answers, Len(calls))

\* Both files are kept.
FilesKept ==
  /\ savedData # Nil \/ maint # Nil => KeptFile(savedData, summaries)
  /\ maint # Nil => KeptFile(maint.data, summaries)

\* The inductive invariant: unless something damaged the history, the run and both files
\* are kept.
ConversationInv ==
  /\ ConversationTyped
  /\ ~damaged => (stage # "idle" => RunKept) /\ FilesKept

\* The bounds are numbers.
LEMMA HistoryBounds ==
  /\ MaxTurnCalls \in Nat \ {0} /\ MaxAnswers \in Nat \ {0} /\ MaxRuns \in Nat \ {0}
  /\ KeepTurns \in Nat /\ KeepLast \in Nat /\ Cooldown \in Nat
BY ConversationAssumption

\* What a history is made of.
LEMMA HistoryIs ==
  ASSUME NEW ms, NEW n, IsHistory(ms, n)
  PROVE  /\ ms \in Seq(Messages) /\ Len(ms) \in Nat /\ DOMAIN ms = 1..Len(ms)
         /\ \A i \in 1..Len(ms) :
              /\ ms[i] \in Messages /\ ms[i].role \in {"system", "user", "assistant", "tool"}
              /\ ms[i].turn \in Nat /\ ms[i].index \in Nat /\ ms[i].covers \subseteq 1..n
              /\ ms[i].role = "assistant" => ms[i].turn \in 1..n
              /\ IsMessage(ms[i], n)
<1>1. ms \in Seq(Messages) /\ \A i \in DOMAIN ms : IsMessage(ms[i], n)
  BY DEF IsHistory
<1>2. Len(ms) \in Nat /\ DOMAIN ms = 1..Len(ms) /\ \A i \in 1..Len(ms) : ms[i] \in Messages
  BY <1>1
<1>3. \A m \in Messages : /\ m.role \in {"system", "user", "assistant", "tool"}
                          /\ m.turn \in Nat /\ m.index \in Nat
  BY HistoryBounds DEF Messages
<1> QED
  BY <1>1, <1>2, <1>3 DEF IsMessage

\* The messages there are.
LEMMA MessagesAre ==
  /\ System \in Messages /\ System.role = "system" /\ System.covers = {}
  /\ User \in Messages /\ User.role = "user" /\ User.covers = {}
  /\ \A c \in SUBSET (1..MaxAnswers) :
       Summary(c) \in Messages /\ Summary(c).role = "user" /\ Summary(c).covers = c
  /\ \A t \in 0..MaxAnswers, n \in 0..MaxTurnCalls :
       /\ Assistant(t, n) \in Messages /\ Assistant(t, n).role = "assistant"
       /\ Assistant(t, n).turn = t /\ Assistant(t, n).index = n /\ Assistant(t, n).covers = {}
  /\ \A t \in 0..MaxAnswers, i \in 0..MaxTurnCalls :
       /\ Result(t, i) \in Messages /\ Result(t, i).role = "tool"
       /\ Result(t, i).turn = t /\ Result(t, i).index = i /\ Result(t, i).covers = {}
<1> USE HistoryBounds DEF System, User, Summary, Assistant, Result, Message, Messages
<1>1. System \in Messages /\ System.role = "system" /\ System.covers = {}
  OBVIOUS
<1>2. User \in Messages /\ User.role = "user" /\ User.covers = {}
  OBVIOUS
<1>3. ASSUME NEW c \in SUBSET (1..MaxAnswers)
      PROVE  Summary(c) \in Messages /\ Summary(c).role = "user" /\ Summary(c).covers = c
  OBVIOUS
<1>4. ASSUME NEW t \in 0..MaxAnswers, NEW n \in 0..MaxTurnCalls
      PROVE  /\ Assistant(t, n) \in Messages /\ Assistant(t, n).role = "assistant"
             /\ Assistant(t, n).turn = t /\ Assistant(t, n).index = n /\ Assistant(t, n).covers = {}
  OBVIOUS
<1>5. ASSUME NEW t \in 0..MaxAnswers, NEW i \in 0..MaxTurnCalls
      PROVE  /\ Result(t, i) \in Messages /\ Result(t, i).role = "tool"
             /\ Result(t, i).turn = t /\ Result(t, i).index = i /\ Result(t, i).covers = {}
  OBVIOUS
<1> QED
  BY <1>1, <1>2, <1>3, <1>4, <1>5

\* A message is added.
LEMMA Added ==
  ASSUME NEW ms, NEW n, IsHistory(ms, n), NEW m, IsMessage(m, n)
  PROVE  /\ IsHistory(Append(ms, m), n) /\ Len(Append(ms, m)) = Len(ms) + 1
         /\ Append(ms, m)[Len(ms) + 1] = m
         /\ \A i \in 1..Len(ms) : Append(ms, m)[i] = ms[i]
<1>1. ms \in Seq(Messages) /\ Len(ms) \in Nat
  BY HistoryIs
<1>a. m \in Messages
  BY DEF IsMessage
<1>2. /\ Append(ms, m) \in Seq(Messages) /\ Len(Append(ms, m)) = Len(ms) + 1
      /\ Append(ms, m)[Len(ms) + 1] = m /\ DOMAIN Append(ms, m) = 1..Len(ms) + 1
      /\ \A i \in 1..Len(ms) : Append(ms, m)[i] = ms[i]
  BY <1>1, <1>a
<1> HIDE DEF Messages
<1>3. ASSUME NEW i \in DOMAIN Append(ms, m) PROVE IsMessage(Append(ms, m)[i], n)
  <2>1. CASE i = Len(ms) + 1
    BY <1>2, <1>3, <2>1
  <2>2. CASE i # Len(ms) + 1
    <3>1. i \in 1..Len(ms)
      BY <1>1, <1>2, <2>2
    <3> QED
      BY <1>2, <1>3, <3>1, HistoryIs
  <2> QED
    BY <2>1, <2>2
<1> QED
  BY <1>2, <1>3 DEF IsHistory

\* The first messages.
LEMMA CutOff ==
  ASSUME NEW ms, NEW n, IsHistory(ms, n), NEW k \in Int, k <= Len(ms)
  PROVE  /\ IsHistory(SubSeq(ms, 1, k), n)
         /\ Len(SubSeq(ms, 1, k)) = IF k >= 0 THEN k ELSE 0
         /\ \A i \in 1..k : SubSeq(ms, 1, k)[i] = ms[i]
<1>1. ms \in Seq(Messages) /\ Len(ms) \in Nat
  BY HistoryIs
<1>2. /\ SubSeq(ms, 1, k) \in Seq(Messages)
      /\ Len(SubSeq(ms, 1, k)) = IF k >= 0 THEN k ELSE 0
      /\ DOMAIN SubSeq(ms, 1, k) = 1..k
      /\ \A i \in 1..k : SubSeq(ms, 1, k)[i] = ms[i]
  BY <1>1
<1>3. ASSUME NEW i \in 1..k PROVE i \in 1..Len(ms)
  BY <1>1
<1> QED
  BY <1>2, <1>3, HistoryIs DEF IsHistory

\* The calls of an answer.
LEMMA CallsAre ==
  ASSUME NEW cs \in Answers
  PROVE  /\ Len(cs) \in 0..MaxTurnCalls /\ DOMAIN cs = 1..Len(cs) /\ cs \in [1..Len(cs) -> Kinds]
         /\ cs = <<>> <=> Len(cs) = 0
<1>1. PICK k \in 0..MaxTurnCalls : cs \in [1..k -> Kinds]
  BY DEF Answers
<1>2. k \in Nat
  BY HistoryBounds
<1>3. Len(cs) = k
  BY <1>1, <1>2, LenProperties, SeqDef
<1> QED
  BY <1>1, <1>2, <1>3

\* More messages are added.
Joins(r, p, q) ==
  /\ Len(r) = Len(p) + Len(q)
  /\ \A i \in 1..Len(p) : r[i] = p[i]
  /\ \A i \in 1..Len(q) : r[Len(p) + i] = q[i]

\* Two histories make one.
LEMMA Joined ==
  ASSUME NEW ms, NEW n, IsHistory(ms, n), NEW q, IsHistory(q, n)
  PROVE  IsHistory(ms \o q, n) /\ Joins(ms \o q, ms, q)
<1>1. /\ ms \in Seq(Messages) /\ Len(ms) \in Nat /\ q \in Seq(Messages) /\ Len(q) \in Nat
      /\ DOMAIN q = 1..Len(q)
  BY HistoryIs
<1>2. /\ ms \o q \in Seq(Messages) /\ Len(ms \o q) = Len(ms) + Len(q)
      /\ DOMAIN (ms \o q) = 1..Len(ms) + Len(q)
      /\ \A i \in 1..Len(ms) + Len(q) : (ms \o q)[i] = IF i <= Len(ms) THEN ms[i] ELSE q[i - Len(ms)]
  BY <1>1
<1> DEFINE r == ms \o q
<1> HIDE DEF r, Messages
<1>3. \A i \in 1..Len(ms) : r[i] = ms[i]
  BY <1>1, <1>2 DEF r
<1>4. ASSUME NEW i \in 1..Len(q) PROVE r[Len(ms) + i] = q[i]
  <2>1. Len(ms) + i \in 1..Len(ms) + Len(q) /\ ~(Len(ms) + i <= Len(ms)) /\ Len(ms) + i - Len(ms) = i
    BY <1>1
  <2> QED
    BY <1>2, <2>1 DEF r
<1>5. ASSUME NEW i \in DOMAIN r PROVE IsMessage(r[i], n)
  <2>1. CASE i <= Len(ms)
    <3>1. i \in 1..Len(ms)
      BY <1>1, <1>2, <2>1 DEF r
    <3> QED
      BY <1>3, <1>5, <3>1, HistoryIs
  <2>2. CASE ~(i <= Len(ms))
    <3>1. i - Len(ms) \in 1..Len(q) /\ r[i] = q[i - Len(ms)]
      BY <1>1, <1>2, <2>2 DEF r
    <3> QED
      BY <3>1, HistoryIs
  <2> QED
    BY <2>1, <2>2
<1> QED
  BY <1>2, <1>3, <1>4, <1>5 DEF IsHistory, Joins, r

\* The results of an answer.
LEMMA ResultsAre ==
  ASSUME NEW t \in 0..MaxAnswers, NEW n \in 0..MaxTurnCalls, NEW m
  PROVE  /\ IsHistory(Results(t, n), m) /\ Len(Results(t, n)) = n
         /\ \A i \in 1..n : Results(t, n)[i] = Result(t, i)
<1>1. n \in Nat /\ \A i \in 1..n : i \in 0..MaxTurnCalls
  BY HistoryBounds
<1>2. \A i \in 1..n : Result(t, i) \in Messages /\ IsMessage(Result(t, i), m)
  BY <1>1, MessagesAre DEF IsMessage
<1> HIDE DEF Messages, Result
<1>3. Results(t, n) = [i \in 1..n |-> Result(t, i)]
  BY DEF Results
<1>4. Results(t, n) \in [1..n -> Messages]
  BY <1>2, <1>3
<1>5. Results(t, n) \in Seq(Messages) /\ Len(Results(t, n)) = n
  BY <1>1, <1>4, LenProperties, SeqDef
<1> QED
  BY <1>2, <1>3, <1>5 DEF IsHistory

\* The order of messages depends on them alone.
LEMMA SameOrder ==
  ASSUME NEW p, NEW n, IsHistory(p, n), NEW k \in 0..Len(p), OrderedTo(p, k),
         NEW q, \A i \in 1..k : q[i] = p[i]
  PROVE  OrderedTo(q, k)
<1>1. \A i \in 1..k : p[i].index \in Nat /\ i \in Nat
  BY HistoryIs
<1>2. k \in Nat
  BY HistoryIs
<1>3. ASSUME NEW i \in 1..k, q[i].role = "assistant", NEW c \in 1..q[i].index
      PROVE  i + c <= k /\ q[i + c] = Result(q[i].turn, c)
  <2>1. i + c <= k /\ p[i + c] = Result(p[i].turn, c)
    BY <1>3 DEF OrderedTo
  <2>2. i + c \in 1..k
    BY <1>1, <1>2, <2>1
  <2> QED
    BY <2>1, <2>2
<1>4. ASSUME NEW i \in 1..k, q[i].role = "tool"
      PROVE  /\ q[i].index >= 1 /\ i - q[i].index >= 1
             /\ q[i - q[i].index].role = "assistant" /\ q[i - q[i].index].turn = q[i].turn
             /\ q[i].index <= q[i - q[i].index].index
  <2>1. /\ p[i].index >= 1 /\ i - p[i].index >= 1
        /\ p[i - p[i].index].role = "assistant" /\ p[i - p[i].index].turn = p[i].turn
        /\ p[i].index <= p[i - p[i].index].index
    BY <1>4 DEF OrderedTo
  <2>2. i - p[i].index \in 1..k
    BY <1>1, <1>2, <2>1
  <2> QED
    BY <2>1, <2>2
<1>5. /\ \A i, j \in 1..k : q[i].role = "assistant" /\ q[j].role = "assistant" /\ q[i].turn = q[j].turn => i = j
      /\ \A i \in 1..k : q[i].role = "system" <=> i = 1
  BY DEF OrderedTo
<1> QED
  BY <1>3, <1>4, <1>5 DEF OrderedTo

\* Messages are in order up to one that is not a result.
LEMMA CutOrder ==
  ASSUME NEW p, NEW n, IsHistory(p, n), NEW k \in 0..Len(p), OrderedTo(p, k),
         NEW j \in 0..k, j = k \/ p[j + 1].role # "tool"
  PROVE  OrderedTo(p, j)
<1>1. \A i \in 1..k : p[i].index \in Nat /\ i \in Nat
  BY HistoryIs
<1>2. k \in Nat /\ j \in Nat /\ j <= k
  BY HistoryIs
<1>3. ASSUME NEW i \in 1..j, p[i].role = "assistant", NEW c \in 1..p[i].index
      PROVE  i + c <= j /\ p[i + c] = Result(p[i].turn, c)
  <2>1. i \in 1..k /\ i + c <= k /\ p[i + c] = Result(p[i].turn, c)
    BY <1>2, <1>3 DEF OrderedTo
  <2>2. CASE i + c > j
    <3> DEFINE d == j + 1 - i
    <3>1. d \in 1..p[i].index /\ i + d = j + 1
      BY <1>1, <1>2, <1>3, <2>1, <2>2
    <3>2. p[i + d] = Result(p[i].turn, d)
      BY <1>3, <2>1, <3>1 DEF OrderedTo
    <3>3. Result(p[i].turn, d).role = "tool"
      BY DEF Result, Message
    <3>4. j # k
      BY <1>2, <2>1, <2>2
    <3> QED
      BY <3>1, <3>2, <3>3, <3>4
  <2> QED
    BY <1>1, <1>2, <2>1, <2>2
<1>4. \A i \in 1..j : i \in 1..k
  BY <1>2
<1> QED
  BY <1>3, <1>4 DEF OrderedTo

\* A prompt, a warning or an image is added.
LEMMA UserOrder ==
  ASSUME NEW p, NEW n, IsHistory(p, n), NEW k \in Nat \ {0}, k + 1 \in 1..Len(p), OrderedTo(p, k),
         p[k + 1].role = "user"
  PROVE  OrderedTo(p, k + 1)
<1>1. \A i \in 1..k + 1 : i \in 1..k \/ i = k + 1
  OBVIOUS
<1>2. \A i \in 1..k : i # k + 1 /\ i \in 1..k + 1
  OBVIOUS
<1>3. ASSUME NEW i \in 1..k + 1, p[i].role = "assistant", NEW c \in 1..p[i].index
      PROVE  i + c <= k + 1 /\ p[i + c] = Result(p[i].turn, c)
  <2>1. i \in 1..k
    BY <1>1, <1>3
  <2>2. i + c <= k /\ p[i + c] = Result(p[i].turn, c)
    BY <1>3, <2>1 DEF OrderedTo
  <2> QED
    BY <2>1, <2>2
<1>4. ASSUME NEW i \in 1..k + 1, p[i].role = "tool" PROVE i \in 1..k
  BY <1>1, <1>4
<1>5. ASSUME NEW i \in 1..k + 1, NEW j \in 1..k + 1, p[i].role = "assistant", p[j].role = "assistant",
             p[i].turn = p[j].turn
      PROVE  i = j
  <2>1. i \in 1..k /\ j \in 1..k
    BY <1>1, <1>5
  <2> QED
    BY <1>5, <2>1 DEF OrderedTo
<1>6. ASSUME NEW i \in 1..k + 1 PROVE p[i].role = "system" <=> i = 1
  <2>1. CASE i \in 1..k
    BY <2>1 DEF OrderedTo
  <2>2. CASE i = k + 1
    BY <2>2
  <2> QED
    BY <1>1, <2>1, <2>2
<1> QED
  BY <1>3, <1>4, <1>5, <1>6 DEF OrderedTo

\* The d-th result, at place i, of an answer with c calls after the first k messages.
IsResultOf(i, d, k, c) == i - d = k + 1 /\ d >= 1 /\ d <= c /\ k + 1 >= 1

\* The place of a result says which of its turn it is.
LEMMA ResultPlace ==
  ASSUME NEW i \in Nat, NEW k \in Nat, NEW c \in Nat, NEW d, d = i - k - 1, d \in 1..c
  PROVE  IsResultOf(i, d, k, c)
BY DEF IsResultOf

\* An answer is added, with all its results.
LEMMA TurnOrder ==
  ASSUME NEW p, NEW n, IsHistory(p, n), NEW k \in Nat \ {0}, NEW c \in Nat, NEW t \in 0..MaxAnswers,
         c \in 0..MaxTurnCalls, k + 1 + c \in 1..Len(p), OrderedTo(p, k),
         p[k + 1] = Assistant(t, c),
         \A i \in 1..c : p[k + 1 + i] = Result(t, i),
         \A i \in 1..k : p[i].role = "assistant" => p[i].turn # t
  PROVE  OrderedTo(p, k + 1 + c)
<1>1. /\ p[k + 1].role = "assistant" /\ p[k + 1].turn = t /\ p[k + 1].index = c
      /\ \A i \in 1..c : p[k + 1 + i].role = "tool" /\ p[k + 1 + i].turn = t /\ p[k + 1 + i].index = i
  <2>1. \A i \in 1..c : i \in 0..MaxTurnCalls
    BY HistoryBounds
  <2> QED
    BY <2>1, MessagesAre
<1>2. ASSUME NEW i \in 1..k + 1 + c
      PROVE  \/ i \in 1..k
             \/ i = k + 1
             \/ i - k - 1 \in 1..c /\ i = k + 1 + (i - k - 1)
  OBVIOUS
<1>3. \A i \in 1..k : i \in 1..k + 1 + c
  OBVIOUS
<1>4. ASSUME NEW i \in 1..k + 1 + c, i \notin 1..k, i # k + 1
      PROVE  p[i].role = "tool" /\ p[i].turn = t /\ p[i].index = i - k - 1 /\ i - k - 1 \in 1..c
  BY <1>1, <1>2, <1>4
<1>5. ASSUME NEW i \in 1..k + 1 + c, p[i].role = "assistant", NEW d \in 1..p[i].index
      PROVE  i + d <= k + 1 + c /\ p[i + d] = Result(p[i].turn, d)
  <2>1. CASE i \in 1..k
    <3>1. i + d <= k /\ p[i + d] = Result(p[i].turn, d)
      BY <1>5, <2>1 DEF OrderedTo
    <3> QED
      BY <2>1, <3>1
  <2>2. CASE i = k + 1
    BY <1>1, <1>5, <2>2
  <2> QED
    BY <1>4, <1>5, <2>1, <2>2
<1>6. ASSUME NEW i \in 1..k + 1 + c, p[i].role = "tool"
      PROVE  /\ p[i].index >= 1 /\ i - p[i].index >= 1
             /\ p[i - p[i].index].role = "assistant" /\ p[i - p[i].index].turn = p[i].turn
             /\ p[i].index <= p[i - p[i].index].index
  <2>1. CASE i \in 1..k
    BY <1>6, <2>1 DEF OrderedTo
  <2>2. CASE i \notin 1..k
    <3>1. i # k + 1
      BY <1>1, <1>6
    <3>2. p[i].turn = t /\ p[i].index = i - k - 1 /\ i - k - 1 \in 1..c
      BY <1>4, <2>2, <3>1
    <3>3. i \in Nat /\ k \in Nat
      OBVIOUS
    <3>4. IsResultOf(i, p[i].index, k, c)
      BY <3>2, <3>3, ResultPlace
    <3>5. i - p[i].index = k + 1 /\ p[i].index >= 1 /\ p[i].index <= c /\ k + 1 >= 1
      BY <3>4 DEF IsResultOf
    <3>6. p[k + 1].role = "assistant" /\ p[k + 1].turn = p[i].turn /\ p[k + 1].index = c
      BY <1>1, <3>2
    <3> QED
      BY <3>5, <3>6
  <2> QED
    BY <2>1, <2>2
<1>7. ASSUME NEW i \in 1..k + 1 + c, NEW j \in 1..k + 1 + c, p[i].role = "assistant", p[j].role = "assistant",
             p[i].turn = p[j].turn
      PROVE  i = j
  <2>1. (i \in 1..k \/ i = k + 1) /\ (j \in 1..k \/ j = k + 1)
    BY <1>4, <1>7
  <2> QED
    BY <1>1, <1>7, <2>1 DEF OrderedTo
<1>8. ASSUME NEW i \in 1..k + 1 + c PROVE p[i].role = "system" <=> i = 1
  <2>1. CASE i \in 1..k
    BY <2>1 DEF OrderedTo
  <2>2. CASE i = k + 1
    BY <1>1, <2>2
  <2>3. CASE i \notin 1..k /\ i # k + 1
    BY <1>4, <2>3
  <2> QED
    BY <2>1, <2>2, <2>3
<1> QED
  BY <1>5, <1>6, <1>7, <1>8 DEF OrderedTo

\* Every set of numbers has a least one.
LEMMA LeastNumber ==
  ASSUME NEW S, S \subseteq Nat, S # {}
  PROVE  \E n \in S : \A m \in S : n <= m
<1>1. IsWellFoundedOn(OpToRel(<,Nat), Nat)
  BY NatLessThanWellFounded
<1>2. PICK n \in S : \A m \in S : <<m, n>> \notin OpToRel(<,Nat)
  BY <1>1, WFMin
<1>3. ASSUME NEW m \in S PROVE n <= m
  <2>1. n \in Nat /\ m \in Nat
    OBVIOUS
  <2>2. ~(m < n)
    <3>1. <<m, n>> \in Nat \X Nat
      BY <2>1
    <3> QED
      BY <1>2, <2>1, <3>1 DEF OpToRel
  <2> QED
    BY <2>1, <2>2
<1> QED
  BY <1>3

\* Every set of numbers with a bound has a greatest one.
LEMMA GreatestNumber ==
  ASSUME NEW S, NEW bound \in Nat, S \subseteq 0..bound, S # {}
  PROVE  \E n \in S : \A m \in S : m <= n
<1> DEFINE R == {bound - n : n \in S}
<1>1. R \subseteq Nat /\ R # {}
  <2>1. \A n \in S : bound - n \in Nat
    OBVIOUS
  <2> QED
    BY <2>1
<1> HIDE DEF R
<1>2. PICK r \in R : \A m \in R : r <= m
  BY <1>1, LeastNumber
<1>3. PICK n \in S : r = bound - n
  BY DEF R
<1>4. ASSUME NEW m \in S PROVE m <= n
  <2>1. bound - m \in R
    BY DEF R
  <2>2. bound - n <= bound - m /\ m \in 0..bound /\ n \in 0..bound
    BY <1>2, <1>3, <2>1
  <2> QED
    BY <2>2
<1> QED
  BY <1>4

\* The least and the greatest of some positions.
LEMMA Extremes ==
  ASSUME NEW k \in Nat, NEW S, S \subseteq 1..k, S # {}
  PROVE  /\ Max(S) \in S /\ \A m \in S : m <= Max(S)
         /\ Min(S) \in S /\ \A m \in S : Min(S) <= m
<1>1. S \subseteq Nat /\ S \subseteq 0..k /\ S \subseteq Int
  OBVIOUS
<1>2. PICK n \in S : \A m \in S : m <= n
  BY <1>1, GreatestNumber
<1>3. PICK l \in S : \A m \in S : l <= m
  BY <1>1, LeastNumber
<1>4. Max(S) \in S /\ \A m \in S : Max(S) >= m
  <2>1. \E x \in S : \A y \in S : x >= y
    BY <1>1, <1>2
  <2> QED
    BY <2>1 DEF Max
<1>5. Min(S) \in S /\ \A m \in S : Min(S) <= m
  BY <1>3 DEF Min
<1> QED
  BY <1>1, <1>4, <1>5

\* Where the messages begin that a summary leaves: at an answer, or there are none.
LEMMA KeptFromIs ==
  ASSUME NEW ms, NEW n, IsHistory(ms, n)
  PROVE  \/ KeptFrom(ms) = 1
         \/ KeptFrom(ms) \in 1..Len(ms) /\ ms[KeptFrom(ms)].role = "assistant"
<1> DEFINE starts == {i \in Indices(ms, "assistant") :
                        Cardinality({j \in Indices(ms, "assistant") : j >= i}) = KeepTurns}
<1>1. KeptFrom(ms) = IF starts = {} THEN 1 ELSE Max(starts)
  BY DEF KeptFrom
<1>2. \A i \in starts : i \in 1..Len(ms) /\ ms[i].role = "assistant"
  BY HistoryIs DEF Indices
<1>3. Len(ms) \in Nat
  BY HistoryIs
<1> HIDE DEF starts
<1>4. CASE starts # {}
  <2>1. Max(starts) \in starts
    BY <1>2, <1>3, <1>4, Extremes
  <2> QED
    BY <1>1, <1>2, <1>4, <2>1
<1> QED
  BY <1>1, <1>4

\* Where the messages begin that come after a turn.
LEMMA AfterTurnIs ==
  ASSUME NEW ms, NEW n, IsHistory(ms, n), NEW t
  PROVE  \/ AfterTurn(ms, t) = 1
         \/ /\ AfterTurn(ms, t) \in 2..Len(ms) + 1
            /\ \E a \in 1..AfterTurn(ms, t) - 1 : ms[a].role = "assistant"
            /\ AfterTurn(ms, t) \in 1..Len(ms) => ms[AfterTurn(ms, t)].role # "tool"
<1> DEFINE as == {i \in Indices(ms, "assistant") :
                    Cardinality({j \in Indices(ms, "assistant") : j <= i}) = t}
           rest(a) == {i \in a + 1..Len(ms) : ms[i].role # "tool"}
           a == Max(as)
<1>1. AfterTurn(ms, t) = IF as = {} THEN 1
                         ELSE IF rest(a) = {} THEN Len(ms) + 1 ELSE Min(rest(a))
  BY DEF AfterTurn
<1>2. \A i \in as : i \in 1..Len(ms) /\ ms[i].role = "assistant"
  BY HistoryIs DEF Indices
<1>3. Len(ms) \in Nat
  BY HistoryIs
<1> HIDE DEF as
<1>4. CASE as # {}
  <2>1. a \in as
    BY <1>2, <1>3, <1>4, Extremes
  <2>2. a \in 1..Len(ms) /\ ms[a].role = "assistant"
    BY <1>2, <2>1
  <2> DEFINE R == rest(a)
  <2>3. \A i \in R : i \in a + 1..Len(ms) /\ ms[i].role # "tool"
    OBVIOUS
  <2>4. AfterTurn(ms, t) = IF R = {} THEN Len(ms) + 1 ELSE Min(R)
    BY <1>1, <1>4
  <2> HIDE DEF R, a
  <2>5. CASE R = {}
    BY <1>3, <2>2, <2>4, <2>5
  <2>6. CASE R # {}
    <3>1. R \subseteq 1..Len(ms)
      BY <1>3, <2>2, <2>3
    <3>2. Min(R) \in R
      BY <1>3, <2>6, <3>1, Extremes
    <3>3. Min(R) \in a + 1..Len(ms) /\ ms[Min(R)].role # "tool"
      BY <2>3, <3>2
    <3>4. AfterTurn(ms, t) = Min(R)
      BY <2>4, <2>6
    <3> QED
      BY <1>3, <2>2, <3>3, <3>4
  <2> QED
    BY <2>5, <2>6
<1> QED
  BY <1>1, <1>4

\* The system prompt, if there is one.
LEMMA SystemOfIs ==
  ASSUME NEW ms, NEW n, IsHistory(ms, n)
  PROVE  /\ IsHistory(SystemOf(ms), n) /\ Len(SystemOf(ms)) \in 0..1
         /\ Len(ms) >= 1 /\ ms[1].role = "system" => Len(SystemOf(ms)) = 1 /\ SystemOf(ms)[1] = ms[1]
<1>1. ms \in Seq(Messages) /\ Len(ms) \in Nat
  BY HistoryIs
<1>2. IsHistory(<<>>, n) /\ Len(<<>>) = 0
  BY DEF IsHistory
<1>3. CASE ms # <<>> /\ ms[1].role = "system"
  <2>1. SystemOf(ms) = <<ms[1]>>
    BY <1>3 DEF SystemOf
  <2>2. 1 \in 1..Len(ms)
    BY <1>1, <1>3
  <2>3. IsMessage(ms[1], n) /\ ms[1] \in Messages
    BY <2>2, HistoryIs
  <2>4. /\ <<ms[1]>> \in Seq(Messages) /\ Len(<<ms[1]>>) = 1 /\ <<ms[1]>>[1] = ms[1]
        /\ DOMAIN <<ms[1]>> = 1..1
    BY <2>3
  <2>5. IsHistory(<<ms[1]>>, n)
    BY <2>3, <2>4 DEF IsHistory
  <2> QED
    BY <2>1, <2>4, <2>5
<1>4. CASE ~(ms # <<>> /\ ms[1].role = "system")
  <2>1. SystemOf(ms) = <<>>
    BY <1>4 DEF SystemOf
  <2>2. ~(Len(ms) >= 1 /\ ms[1].role = "system")
    BY <1>1, <1>4
  <2> QED
    BY <1>2, <2>1, <2>2
<1> QED
  BY <1>3, <1>4

\* A summary in the place of what comes before the messages that are kept.
Shorter(ms, c, kept) == SystemOf(ms) \o <<Summary(c)>> \o kept

\* ... which are as they were.
Summarizes(q, ms, c, kept) ==
  /\ Len(q) = 2 + Len(kept) /\ q[1] = ms[1] /\ q[2] = Summary(c)
  /\ \A i \in 1..Len(kept) : q[2 + i] = kept[i]

\* A history of a system prompt, a summary and some messages is one, and its parts are
\* where they should be.
LEMMA Shortened ==
  ASSUME NEW n \in 0..MaxAnswers, NEW ms, IsHistory(ms, n), NEW c \in SUBSET (1..n),
         NEW kept, IsHistory(kept, n), NEW new, new = Shorter(ms, c, kept)
  PROVE  /\ IsHistory(new, n)
         /\ Len(ms) >= 1 /\ ms[1].role = "system" => Summarizes(new, ms, c, kept)
<1> DEFINE s == SystemOf(ms)
           p == s \o <<Summary(c)>>
           q == p \o kept
<1>1. IsHistory(s, n) /\ Len(s) \in 0..1
  BY SystemOfIs
<1>2. c \in SUBSET (1..MaxAnswers)
  BY HistoryBounds
<1>3. IsMessage(Summary(c), n) /\ Summary(c) \in Messages
  <2>1. Summary(c) \in Messages /\ Summary(c).role = "user" /\ Summary(c).covers = c
    BY <1>2, MessagesAre
  <2>2. c \subseteq 1..n
    OBVIOUS
  <2> QED
    BY <2>1, <2>2 DEF IsMessage
<1>4. /\ <<Summary(c)>> \in Seq(Messages) /\ Len(<<Summary(c)>>) = 1 /\ <<Summary(c)>>[1] = Summary(c)
      /\ DOMAIN <<Summary(c)>> = 1..1
  BY <1>3
<1>5. IsHistory(<<Summary(c)>>, n)
  BY <1>3, <1>4 DEF IsHistory
<1> HIDE DEF s
<1>6. /\ IsHistory(p, n) /\ Len(p) = Len(s) + 1 /\ \A i \in 1..Len(s) : p[i] = s[i]
      /\ p[Len(s) + 1] = Summary(c)
  <2>1. 1 \in 1..Len(<<Summary(c)>>)
    BY <1>4
  <2> QED
    BY <1>1, <1>4, <1>5, <2>1, Joined
<1> HIDE DEF p
<1>a. IsHistory(p, n)
  BY <1>6
<1>7. /\ IsHistory(q, n) /\ Len(q) = Len(p) + Len(kept) /\ \A i \in 1..Len(p) : q[i] = p[i]
      /\ \A i \in 1..Len(kept) : q[Len(p) + i] = kept[i]
  BY <1>a, Joined
<1> HIDE DEF q
<1>8. ASSUME Len(ms) >= 1, ms[1].role = "system"
      PROVE  Summarizes(q, ms, c, kept)
  <2>1. Len(s) = 1 /\ s[1] = ms[1]
    BY <1>8, SystemOfIs DEF s
  <2>2. Len(p) = 2 /\ 1 \in 1..Len(s) /\ 1 \in 1..Len(p) /\ 2 \in 1..Len(p)
    BY <1>6, <2>1
  <2> QED
    BY <1>6, <1>7, <2>1, <2>2 DEF Summarizes
<1>9. new = q
  BY DEF q, p, s, Shorter
<1> QED
  BY <1>7, <1>8, <1>9

\* ... which are in order if they begin with an answer, or there are none.
LEMMA ShortenedOrder ==
  ASSUME NEW p, NEW n, IsHistory(p, n), OrderedTo(p, Len(p)), NEW from \in 2..Len(p) + 1,
         from <= Len(p) => p[from].role = "assistant",
         NEW q, Len(q) = Len(p) + 3 - from, q[1].role = "system", q[2].role = "user",
         \A i \in from..Len(p) : q[i + 3 - from] = p[i]
  PROVE  OrderedTo(q, Len(q))
<1> DEFINE l == Len(p)
           d == from - 3
<1>1. l \in Nat /\ from \in Nat /\ d \in Int /\ Len(q) = l - d
  BY HistoryIs
<1>2. \A i \in 1..l : p[i].index \in Nat /\ p[i].turn \in Nat
  BY HistoryIs
<1>3. ASSUME NEW i \in 1..Len(q)
      PROVE  i = 1 \/ i = 2 \/ (i + d \in from..l /\ i + d \in 1..l /\ q[i] = p[i + d])
  <2>1. CASE i > 2
    <3>1. i + d \in from..l /\ i + d + 3 - from = i
      BY <1>1, <1>3, <2>1
    <3>2. q[i + d + 3 - from] = p[i + d]
      BY <3>1
    <3> QED
      BY <1>1, <3>1, <3>2
  <2>2. i \in Nat /\ i >= 1
    BY <1>1
  <2> QED
    BY <2>1, <2>2
<1>4. \A i \in from..l : q[i - d] = p[i] /\ i - d \in 1..Len(q) /\ i \in 1..l
  BY <1>1
<1>5. ASSUME NEW i \in 1..Len(q), q[i].role \notin {"system", "user"}
      PROVE  i + d \in from..l /\ i + d \in 1..l /\ q[i] = p[i + d]
  BY <1>3, <1>5
<1>a. d = from - 3
  OBVIOUS
<1> HIDE DEF l, d
<1>6. ASSUME NEW i \in 1..Len(q), q[i].role = "assistant", NEW c \in 1..q[i].index
      PROVE  i + c <= Len(q) /\ q[i + c] = Result(q[i].turn, c)
  <2>1. i + d \in from..l /\ i + d \in 1..l /\ q[i] = p[i + d]
    BY <1>5, <1>6
  <2>2. (i + d) + c <= l /\ p[(i + d) + c] = Result(p[i + d].turn, c)
    BY <1>6, <2>1 DEF OrderedTo, l
  <2>a. q[i].index \in Nat
    BY <1>2, <2>1
  <2>3. c \in Nat /\ (i + d) + c \in from..l
    BY <1>1, <2>1, <2>2, <2>a
  <2>4. q[(i + d) + c - d] = p[(i + d) + c] /\ (i + d) + c - d = i + c
    BY <1>1, <1>4, <2>3
  <2> QED
    BY <1>1, <2>1, <2>2, <2>3, <2>4
<1>7. ASSUME NEW i \in 1..Len(q), q[i].role = "tool"
      PROVE  /\ q[i].index >= 1 /\ i - q[i].index >= 1
             /\ q[i - q[i].index].role = "assistant" /\ q[i - q[i].index].turn = q[i].turn
             /\ q[i].index <= q[i - q[i].index].index
  <2>1. PICK j \in from..l : j = i + d /\ j \in 1..l /\ q[i] = p[j]
    BY <1>5, <1>7
  <2>2. /\ p[j].index >= 1 /\ j - p[j].index >= 1
        /\ p[j - p[j].index].role = "assistant" /\ p[j - p[j].index].turn = p[j].turn
        /\ p[j].index <= p[j - p[j].index].index
    BY <1>7, <2>1 DEF OrderedTo, l
  <2>3. p[j].index \in Nat /\ j \in Nat
    BY <1>1, <1>2, <2>1
  <2>4. PICK x \in Nat : x = p[j].index
    BY <2>3
  <2>5. PICK a \in 1..l : a = j - x
    BY <1>1, <2>1, <2>2, <2>3, <2>4
  <2>6. /\ x >= 1 /\ p[a].role = "assistant" /\ p[a].turn = p[j].turn /\ x <= p[a].index
    BY <2>2, <2>4, <2>5
  <2>7. p[a].index \in Nat /\ a \in Nat
    BY <1>1, <1>2
  <2>8. a >= from
    <3>1. CASE a < from
      <4>1. PICK y \in 1..x : a + y = from
        <5>1. from - a \in 1..x /\ a + (from - a) = from
          BY <1>1, <2>1, <2>3, <2>5, <2>7, <3>1
        <5> QED
          BY <5>1
      <4>2. y \in 1..p[a].index
        BY <2>6, <2>7
      <4>3. p[a + y] = Result(p[a].turn, y)
        BY <2>6, <4>2 DEF OrderedTo, l
      <4>4. p[from].role = "tool"
        BY <4>1, <4>3 DEF Result, Message
      <4>5. p[from].role = "assistant"
        BY <1>1, <2>1 DEF l
      <4> QED
        BY <4>4, <4>5
    <3> QED
      BY <1>1, <2>7, <3>1
  <2>9. a \in from..l
    BY <1>1, <2>7, <2>8
  <2>10. q[a - d] = p[a] /\ a - d \in 1..Len(q)
    BY <1>4, <2>9
  <2>11. a - d = i - q[i].index /\ a - d >= 1
    <3>1. q[i].index = x
      BY <2>1, <2>4
    <3>2. a = i + d - x /\ i \in Int /\ d \in Int /\ x \in Int
      BY <1>1, <2>1, <2>5
    <3>3. a - d = i - x
      BY <3>2
    <3>4. a - d >= 1
      BY <1>1, <2>10
    <3> QED
      BY <3>1, <3>3, <3>4
  <2> QED
    BY <2>1, <2>4, <2>6, <2>10, <2>11
<1>8. ASSUME NEW i \in 1..Len(q), NEW j \in 1..Len(q), q[i].role = "assistant", q[j].role = "assistant",
             q[i].turn = q[j].turn
      PROVE  i = j
  <2>1. i + d \in 1..l /\ q[i] = p[i + d] /\ j + d \in 1..l /\ q[j] = p[j + d]
    BY <1>5, <1>8
  <2>2. i + d = j + d
    BY <1>8, <2>1 DEF OrderedTo, l
  <2> QED
    BY <1>1, <2>2
<1>9. ASSUME NEW i \in 1..Len(q) PROVE q[i].role = "system" <=> i = 1
  <2>1. CASE i = 1 \/ i = 2
    BY <2>1
  <2>2. CASE i # 1 /\ i # 2
    <3>1. i + d \in from..l /\ i + d \in 1..l /\ q[i] = p[i + d]
      BY <1>3, <2>2
    <3>2. i + d # 1
      BY <1>1, <3>1
    <3> QED
      BY <2>2, <3>1, <3>2 DEF OrderedTo, l
  <2> QED
    BY <2>1, <2>2
<1> QED
  BY <1>6, <1>7, <1>8, <1>9 DEF OrderedTo

\* Messages are added that cover no turn.
Continues(q, p) ==
  /\ Len(p) <= Len(q) /\ \A i \in 1..Len(p) : q[i] = p[i]
  /\ \A i \in Len(p) + 1..Len(q) : q[i].covers = {}

\* What there was is kept then.
LEMMA Longer ==
  ASSUME NEW p, NEW n, IsHistory(p, n), NEW q, IsHistory(q, n), Continues(q, p),
         NEW l, l = Len(p), NEW k \in 1..l, NEW told, NEW s, Kept(p, k, told, s)
  PROVE  Kept(q, k, told, s)
<1>0. /\ Len(p) <= Len(q) /\ \A i \in 1..Len(p) : q[i] = p[i]
      /\ \A i \in Len(p) + 1..Len(q) : q[i].covers = {}
  BY DEF Continues
<1>1. /\ Len(p) \in Nat /\ Len(q) \in Nat /\ DOMAIN p = 1..Len(p) /\ DOMAIN q = 1..Len(q) /\ k \in Nat
      /\ k \in 0..Len(p)
  BY HistoryIs
<1>2. OrderedTo(q, k)
  <2>1. OrderedTo(p, k) /\ \A i \in 1..k : q[i] = p[i]
    BY <1>0, <1>1 DEF Kept
  <2> QED
    BY <1>1, <2>1, SameOrder
<1>3. k >= 2 => q[2].role = "user"
  BY <1>0, <1>1 DEF Kept
<1>4. ASSUME s = 0, NEW i \in DOMAIN q PROVE q[i].covers = {}
  <2>1. CASE i \in 1..Len(p)
    BY <1>0, <1>1, <1>4, <2>1 DEF Kept
  <2>2. CASE i \notin 1..Len(p)
    BY <1>0, <1>1, <2>2
  <2> QED
    BY <2>1, <2>2
<1>5. s <= 1 => Told(q, told)
  <2>1. \A i \in DOMAIN p : i \in DOMAIN q /\ q[i] = p[i]
    BY <1>0, <1>1
  <2> QED
    BY <2>1 DEF Kept, Told
<1> QED
  BY <1>1, <1>2, <1>3, <1>4, <1>5 DEF Kept

\* One turn more is told of.
LEMMA ToldOne ==
  ASSUME NEW q, NEW n, IsHistory(q, n), NEW k, NEW told, NEW s, Kept(q, k, told, s),
         NEW i \in 1..Len(q), q[i].role = "assistant"
  PROVE  Kept(q, k, told \cup {q[i].turn}, s)
<1>1. i \in DOMAIN q
  BY HistoryIs
<1> QED
  BY <1>1 DEF Kept, Told

\* With the results of its last answer a history is complete.
LEMMA TurnKept ==
  ASSUME NEW p, NEW n, IsHistory(p, n), NEW k \in Nat \ {0}, NEW c \in 0..MaxTurnCalls,
         NEW t \in 0..MaxAnswers, k + 1 + c \in 1..Len(p), NEW told, NEW s, Kept(p, k, told, s), k + 1 >= 3,
         p[k + 1] = Assistant(t, c),
         \A i \in 1..c : p[k + 1 + i] = Result(t, i),
         \A i \in 1..k : p[i].role = "assistant" => p[i].turn # t
  PROVE  Kept(p, k + 1 + c, told, s)
<1>1. c \in Nat
  BY HistoryBounds
<1>2. OrderedTo(p, k + 1 + c)
  BY <1>1, TurnOrder DEF Kept
<1>3. k >= 2
  OBVIOUS
<1> QED
  BY <1>1, <1>2, <1>3 DEF Kept

\* So it is with a prompt, a warning or an image after it.
LEMMA UserKept ==
  ASSUME NEW p, NEW n, IsHistory(p, n), NEW k \in Nat \ {0}, k + 1 \in 1..Len(p), NEW told, NEW s,
         Kept(p, k, told, s), p[k + 1].role = "user"
  PROVE  Kept(p, k + 1, told, s)
<1>1. OrderedTo(p, k + 1)
  BY UserOrder DEF Kept
<1>2. p[2].role = "user"
  <2>1. CASE k = 1
    BY <2>1
  <2>2. CASE k # 1
    <3>1. k >= 2
      BY <2>2
    <3> QED
      BY <3>1 DEF Kept
  <2> QED
    BY <2>1, <2>2
<1> QED
  BY <1>1, <1>2 DEF Kept

\* A message of the user is added.
LEMMA UserAdded ==
  ASSUME NEW p, NEW n, IsHistory(p, n), NEW told, NEW s, Kept(p, Len(p), told, s)
  PROVE  /\ IsHistory(Append(p, User), n) /\ Len(Append(p, User)) = Len(p) + 1
         /\ Append(p, User)[Len(p) + 1] = User
         /\ \A i \in 1..Len(p) : Append(p, User)[i] = p[i]
         /\ Kept(Append(p, User), Len(p) + 1, told, s)
<1>1. User \in Messages /\ User.role = "user" /\ User.covers = {}
  BY MessagesAre
<1>2. IsMessage(User, n)
  BY <1>1 DEF IsMessage
<1> DEFINE q == Append(p, User)
<1>3. /\ IsHistory(q, n) /\ Len(q) = Len(p) + 1 /\ q[Len(p) + 1] = User
      /\ \A i \in 1..Len(p) : q[i] = p[i]
  BY <1>2, Added
<1> HIDE DEF q
<1>4. Len(p) \in Nat \ {0}
  BY HistoryIs DEF Kept
<1>5. Kept(q, Len(p), told, s)
  <2>1. \A i \in Len(p) + 1..Len(q) : q[i].covers = {}
    <3>1. \A i \in Len(p) + 1..Len(q) : i = Len(p) + 1
      BY <1>3, <1>4
    <3> QED
      BY <1>1, <1>3, <3>1
  <2>2. Continues(q, p)
    BY <1>3, <1>4, <2>1 DEF Continues
  <2>3. PICK l : l = Len(p) /\ l \in 1..l /\ Kept(p, l, told, s)
    BY <1>4
  <2> QED
    BY <1>3, <2>2, <2>3, Longer
<1>6. Kept(q, Len(p) + 1, told, s)
  <2>1. Len(p) + 1 \in 1..Len(q) /\ q[Len(p) + 1].role = "user"
    BY <1>1, <1>3, <1>4
  <2> QED
    BY <1>3, <1>4, <1>5, <2>1, UserKept
<1> QED
  BY <1>3, <1>6 DEF q

\* After more summaries less is asked of a history.
LEMMA KeptOn ==
  ASSUME NEW p, NEW k, NEW told, NEW s \in Nat, NEW r \in Nat, s <= r, Kept(p, k, told, s)
  PROVE  Kept(p, k, told, r)
BY DEF Kept

\* The first messages, up to one that is not a result, tell of less.
LEMMA CutKept ==
  ASSUME NEW p, NEW n, IsHistory(p, n), NEW l, l = Len(p), NEW told, NEW s, Kept(p, l, told, s),
         NEW k \in 1..l, k = l \/ p[k + 1].role # "tool"
  PROVE  /\ IsHistory(SubSeq(p, 1, k), n) /\ Len(SubSeq(p, 1, k)) = k
         /\ \A i \in 1..k : SubSeq(p, 1, k)[i] = p[i]
         /\ \A less : (s <= 1 => Told(SubSeq(p, 1, k), less)) => Kept(SubSeq(p, 1, k), k, less, s)
<1>1. l \in Nat /\ k \in Int /\ k <= l /\ k \in 0..l /\ DOMAIN p = 1..l /\ k \in Nat /\ k >= 1
  BY HistoryIs
<1> DEFINE q == SubSeq(p, 1, k)
<1>2. IsHistory(q, n) /\ Len(q) = k /\ \A i \in 1..k : q[i] = p[i]
  <2>1. k <= Len(p) /\ k >= 0
    BY <1>1
  <2> QED
    BY <1>1, <2>1, CutOff
<1>3. DOMAIN q = 1..k
  BY <1>2, HistoryIs
<1> HIDE DEF q
<1>4. OrderedTo(p, k)
  <2>1. OrderedTo(p, l) /\ l \in 0..Len(p)
    BY <1>1 DEF Kept
  <2> QED
    BY <1>1, <2>1, CutOrder
<1>5. OrderedTo(q, k)
  BY <1>1, <1>2, <1>4, SameOrder
<1>6. k >= 2 => q[2].role = "user"
  BY <1>1, <1>2 DEF Kept
<1>7. s = 0 => \A i \in DOMAIN q : q[i].covers = {}
  BY <1>1, <1>2, <1>3 DEF Kept
<1>8. ASSUME NEW less, s <= 1 => Told(q, less) PROVE Kept(q, k, less, s)
  BY <1>1, <1>5, <1>6, <1>7, <1>8 DEF Kept
<1> QED
  BY <1>2, <1>8 DEF q

\* Everything is remembered that is told.
LEMMA ToldIsRemembered ==
  ASSUME NEW ms, NEW n, IsHistory(ms, n)
  PROVE  /\ Told(ms, Remembered(ms)) /\ Remembered(ms) \subseteq 1..n
         /\ \A told : Told(ms, told) => told \subseteq Remembered(ms)
<1>1. DOMAIN ms = 1..Len(ms) /\ \A i \in DOMAIN ms : ms[i].covers \subseteq 1..n
  BY HistoryIs
<1>2. \A t : t \in Remembered(ms) <=>
        \E i \in DOMAIN ms : (ms[i].role = "assistant" /\ ms[i].turn = t) \/ t \in ms[i].covers
  BY DEF Remembered, Turns, Indices
<1>3. Remembered(ms) \subseteq 1..n
  BY <1>1, <1>2, HistoryIs
<1> QED
  BY <1>2, <1>3 DEF Told

\* The messages from a place on, and the turns before it.
IsEnd(kept, ms, from) == Len(kept) = Len(ms) + 1 - from /\ \A i \in 1..Len(kept) : kept[i] = ms[from - 1 + i]
\* The turns before a place are in c.
IncludesTo(c, ms, from) == \A i \in 1..from - 1 : ms[i].role = "assistant" => ms[i].turn \in c

\* A summary keeps what it replaces, if it covers the answers that are not kept.
LEMMA SummaryKept ==
  ASSUME NEW n \in 0..MaxAnswers, NEW ms, IsHistory(ms, n), NEW l, l = Len(ms), NEW told,
         NEW s \in 0..2, Kept(ms, l, told, s),
         NEW from \in 2..l + 1, from <= l => ms[from].role = "assistant",
         NEW kept, IsHistory(kept, n), IsEnd(kept, ms, from),
         NEW c \in SUBSET (1..n), IncludesTo(c, ms, from)
  PROVE  /\ IsHistory(Shorter(ms, c, kept), n)
         /\ Len(Shorter(ms, c, kept)) >= 2
         /\ Kept(Shorter(ms, c, kept), Len(Shorter(ms, c, kept)),
                 told, IF s < 2 THEN s + 1 ELSE 2)
<1>1. l \in Nat /\ DOMAIN ms = 1..l /\ l >= 1 /\ OrderedTo(ms, l) /\ Len(kept) \in Nat
  BY HistoryIs DEF Kept
<1>2. Len(ms) >= 1 /\ ms[1].role = "system"
  <2>1. 1 \in 1..l
    BY <1>1
  <2> QED
    BY <1>1, <2>1 DEF OrderedTo
<1> DEFINE q == Shorter(ms, c, kept)
<1>3. /\ IsHistory(q, n) /\ Len(q) = 2 + Len(kept) /\ q[1] = ms[1] /\ q[2] = Summary(c)
      /\ \A i \in 1..Len(kept) : q[2 + i] = kept[i]
  <2>1. q = Shorter(ms, c, kept)
    OBVIOUS
  <2> HIDE DEF q
  <2>2. IsHistory(q, n) /\ Summarizes(q, ms, c, kept)
    BY <1>2, <2>1, Shortened
  <2> QED
    BY <2>2 DEF Summarizes
<1> HIDE DEF q
<1>4. c \in SUBSET (1..MaxAnswers)
  BY HistoryBounds
<1>5. q[2].role = "user" /\ q[2].covers = c
  BY <1>3, <1>4, MessagesAre
<1>6. DOMAIN q = 1..Len(q) /\ Len(q) = l + 3 - from /\ Len(q) \in Nat /\ Len(q) >= 2
  BY <1>1, <1>3, HistoryIs DEF IsEnd
<1>7. ASSUME NEW i \in from..l PROVE q[i + 3 - from] = ms[i]
  <2>0. i \in Int /\ from \in Int /\ from <= i /\ i <= l /\ Len(kept) = l + 1 - from
    BY <1>1 DEF IsEnd
  <2>1. i + 1 - from \in 1..Len(kept) /\ 2 + (i + 1 - from) = i + 3 - from /\ from - 1 + (i + 1 - from) = i
    <3> HIDE DEF q
    <3> QED
      BY <2>0, SMT
  <2>2. q[2 + (i + 1 - from)] = kept[i + 1 - from] /\ kept[i + 1 - from] = ms[from - 1 + (i + 1 - from)]
    BY <1>3, <2>1 DEF IsEnd
  <2> QED
    BY <2>1, <2>2
<1>8. OrderedTo(q, Len(q))
  <2>1. OrderedTo(ms, Len(ms)) /\ from \in 2..Len(ms) + 1 /\ (from <= Len(ms) => ms[from].role = "assistant")
    BY <1>1
  <2>2. Len(q) = Len(ms) + 3 - from /\ q[1].role = "system" /\ q[2].role = "user"
    BY <1>2, <1>3, <1>5, <1>6
  <2>3. \A i \in from..Len(ms) : q[i + 3 - from] = ms[i]
    BY <1>7
  <2> QED
    BY <2>1, <2>2, <2>3, ShortenedOrder
<1> DEFINE r == IF s < 2 THEN s + 1 ELSE 2
<1>9. r # 0 /\ (r <= 1 => s = 0)
  OBVIOUS
<1>10. ASSUME s = 0 PROVE Told(q, told)
  <2>1. Told(ms, told) /\ \A i \in DOMAIN ms : ms[i].covers = {}
    BY <1>10 DEF Kept
  <2>2. ASSUME NEW t \in told
        PROVE  \E i \in DOMAIN q : (q[i].role = "assistant" /\ q[i].turn = t) \/ t \in q[i].covers
    <3>1. PICK i \in 1..l : ms[i].role = "assistant" /\ ms[i].turn = t
      BY <1>1, <2>1 DEF Told
    <3>2. CASE i < from
      <4>1. i \in 1..from - 1
        BY <1>1, <3>2
      <4>2. t \in q[2].covers /\ 2 \in DOMAIN q
        BY <1>5, <1>6, <3>1, <4>1 DEF IncludesTo
      <4> QED
        BY <4>2
    <3>3. CASE ~(i < from)
      <4>1. i \in from..l /\ i + 3 - from \in DOMAIN q
        BY <1>1, <1>6, <3>3
      <4>2. q[i + 3 - from] = ms[i]
        BY <1>7, <4>1
      <4> QED
        BY <3>1, <4>1, <4>2
    <3> QED
      BY <3>2, <3>3
  <2> QED
    BY <2>2 DEF Told
<1>11. Kept(q, Len(q), told, r)
  <2> HIDE DEF r
  <2> QED
    BY <1>5, <1>6, <1>8, <1>9, <1>10 DEF Kept
<1> QED
  BY <1>3, <1>6, <1>11 DEF q

\* The turns of some messages.
LEMMA TurnsAre ==
  ASSUME NEW ms, NEW n, IsHistory(ms, n)
  PROVE  /\ Turns(ms) \in SUBSET (1..n)
         /\ \A i \in 1..Len(ms) : ms[i].role = "assistant" => ms[i].turn \in Turns(ms)
<1>1. DOMAIN ms = 1..Len(ms) /\ \A i \in 1..Len(ms) : ms[i].role = "assistant" => ms[i].turn \in 1..n
  BY HistoryIs
<1> QED
  BY <1>1 DEF Turns, Indices

\* The last messages.
LEMMA TheEnd ==
  ASSUME NEW ms, NEW n, IsHistory(ms, n), NEW from \in 1..Len(ms)
  PROVE  /\ IsHistory(SubSeq(ms, from, Len(ms)), n)
         /\ Len(SubSeq(ms, from, Len(ms))) = Len(ms) + 1 - from
         /\ \A i \in 1..Len(ms) + 1 - from : SubSeq(ms, from, Len(ms))[i] = ms[from - 1 + i]
<1>1. ms \in Seq(Messages) /\ Len(ms) \in Nat
  BY HistoryIs
<1> DEFINE q == SubSeq(ms, from, Len(ms))
<1>2. \A i \in from..Len(ms) : i \in 1..Len(ms)
  BY <1>1
<1>3. \A i \in from..Len(ms) : ms[i] \in Messages
  BY <1>2, HistoryIs
<1>4. from \in Int /\ Len(ms) \in Int /\ from <= Len(ms) /\ Len(ms) - from + 1 = Len(ms) + 1 - from
  BY <1>1
<1> HIDE DEF Messages
<1>5. /\ q \in Seq(Messages) /\ Len(q) = Len(ms) - from + 1
      /\ \A i \in 1..Len(ms) - from + 1 : q[i] = ms[from + i - 1]
  BY <1>3, <1>4, SubSeqProperties
<1> HIDE DEF q
<1>6. ASSUME NEW i \in 1..Len(ms) + 1 - from PROVE q[i] = ms[from - 1 + i] /\ from - 1 + i \in 1..Len(ms)
  <2>1. from + i - 1 = from - 1 + i /\ from - 1 + i \in 1..Len(ms)
    BY <1>1
  <2> QED
    BY <1>4, <1>5, <2>1
<1>7. DOMAIN q = 1..Len(ms) + 1 - from
  BY <1>4, <1>5
<1>8. \A i \in DOMAIN q : IsMessage(q[i], n)
  BY <1>6, <1>7, HistoryIs
<1> QED
  BY <1>4, <1>5, <1>6, <1>8 DEF IsHistory, q

\* A summarized history.
LEMMA CompactedIs ==
  ASSUME NEW n \in 0..MaxAnswers, NEW ms, IsHistory(ms, n)
  PROVE  /\ IsHistory(Compacted(ms), n)
         /\ \A told : \A s \in 0..2 : Kept(ms, Len(ms), told, s) =>
              /\ Len(Compacted(ms)) >= 2
              /\ Kept(Compacted(ms), Len(Compacted(ms)), told, IF s < 2 THEN s + 1 ELSE 2)
<1> DEFINE l == Len(ms)
           from == KeptFrom(ms)
           old == IF from > 1 THEN SubSeq(ms, 1, from - 1) ELSE ms
           kept == IF from > 1 THEN SubSeq(ms, from, Len(ms)) ELSE <<>>
           q == Shorter(ms, Turns(old), kept)
<1>1. l \in Nat /\ DOMAIN ms = 1..l /\ ms \in Seq(Messages)
  BY HistoryIs
<1>2. from = 1 \/ (from \in 1..l /\ ms[from].role = "assistant")
  BY KeptFromIs
<1>3. IsHistory(old, n) /\ IsHistory(kept, n)
  <2>1. CASE from > 1
    <3>1. from \in 1..l /\ from - 1 \in Int /\ from - 1 <= Len(ms)
      BY <1>1, <1>2, <2>1
    <3>2. IsHistory(SubSeq(ms, 1, from - 1), n)
      BY <3>1, CutOff
    <3>3. IsHistory(SubSeq(ms, from, Len(ms)), n)
      BY <3>1, TheEnd
    <3> QED
      BY <2>1, <3>2, <3>3
  <2>2. CASE ~(from > 1)
    <3>1. IsHistory(<<>>, n)
      BY DEF IsHistory
    <3> QED
      BY <2>2, <3>1
  <2> QED
    BY <2>1, <2>2
<1>k. ASSUME l >= 1
      PROVE  \E f \in 2..l + 1 :
               /\ f <= l => ms[f].role = "assistant"
               /\ \A i \in 1..f - 1 : i \in 1..Len(old) /\ old[i] = ms[i]
               /\ Len(kept) = l + 1 - f
               /\ \A i \in 1..Len(kept) : kept[i] = ms[f - 1 + i]
  <2>1. CASE from > 1
    <3>1. from \in 1..l /\ from - 1 \in Int /\ from - 1 <= Len(ms) /\ from \in 2..l + 1
      BY <1>1, <1>2, <2>1
    <3>2. Len(SubSeq(ms, 1, from - 1)) = from - 1 /\ \A i \in 1..from - 1 : SubSeq(ms, 1, from - 1)[i] = ms[i]
      BY <3>1, CutOff
    <3>3. /\ Len(SubSeq(ms, from, Len(ms))) = l + 1 - from
          /\ \A i \in 1..l + 1 - from : SubSeq(ms, from, Len(ms))[i] = ms[from - 1 + i]
      BY <3>1, TheEnd
    <3>4. old = SubSeq(ms, 1, from - 1) /\ kept = SubSeq(ms, from, Len(ms))
      BY <2>1
    <3> HIDE DEF old, kept
    <3>5. \A i \in 1..from - 1 : i \in 1..Len(old) /\ old[i] = ms[i]
      BY <3>2, <3>4
    <3>6. Len(kept) = l + 1 - from /\ \A i \in 1..Len(kept) : kept[i] = ms[from - 1 + i]
      BY <3>3, <3>4
    <3>7. from <= l => ms[from].role = "assistant"
      BY <1>2, <2>1
    <3> HIDE DEF from
    <3> QED
      BY <3>1, <3>5, <3>6, <3>7
  <2>2. CASE ~(from > 1)
    <3>1. old = ms /\ kept = <<>>
      BY <2>2
    <3>2. Len(<<>>) = 0
      OBVIOUS
    <3> HIDE DEF old, kept
    <3>3. \A i \in 1..l + 1 - 1 : i \in 1..Len(old) /\ old[i] = ms[i]
      BY <1>1, <3>1
    <3>4. Len(kept) = l + 1 - (l + 1) /\ \A i \in 1..Len(kept) : kept[i] = ms[l + 1 - 1 + i]
      BY <1>1, <3>1, <3>2
    <3>5. l + 1 \in 2..l + 1 /\ ~(l + 1 <= l)
      BY <1>1, <1>k
    <3> DEFINE f == l + 1
    <3>6. /\ f \in 2..l + 1 /\ (f <= l => ms[f].role = "assistant")
          /\ \A i \in 1..f - 1 : i \in 1..Len(old) /\ old[i] = ms[i]
          /\ Len(kept) = l + 1 - f
          /\ \A i \in 1..Len(kept) : kept[i] = ms[f - 1 + i]
      BY <3>3, <3>4, <3>5
    <3> HIDE DEF l, f
    <3> QED
      BY <3>6
  <2> QED
    BY <2>1, <2>2
<1>q. Compacted(ms) = q
  BY DEF Compacted, Shorter
<1> HIDE DEF l, from, old, kept
<1>4. Turns(old) \in SUBSET (1..n) /\ \A i \in 1..Len(old) : old[i].role = "assistant" => old[i].turn \in Turns(old)
  BY <1>3, TurnsAre
<1>5. IsHistory(q, n)
  <2>1. q = Shorter(ms, Turns(old), kept)
    OBVIOUS
  <2> HIDE DEF q
  <2> QED
    BY <1>3, <1>4, <2>1, Shortened
<1>6. ASSUME NEW told, NEW s \in 0..2, Kept(ms, l, told, s)
      PROVE  Len(q) >= 2 /\ Kept(q, Len(q), told, IF s < 2 THEN s + 1 ELSE 2)
  <2>1. l >= 1
    BY <1>6 DEF Kept
  <2>f. PICK f \in 2..l + 1 :
               /\ f <= l => ms[f].role = "assistant"
               /\ \A i \in 1..f - 1 : i \in 1..Len(old) /\ old[i] = ms[i]
               /\ Len(kept) = l + 1 - f
               /\ \A i \in 1..Len(kept) : kept[i] = ms[f - 1 + i]
    BY <1>k, <2>1
  <2>2. IncludesTo(Turns(old), ms, f)
    BY <1>4, <2>f DEF IncludesTo
  <2>4. IsEnd(kept, ms, f)
    BY <2>f DEF IsEnd, l
  <2>3. l = Len(ms)
    BY DEF l
  <2> QED
    BY <1>3, <1>4, <1>6, <2>f, <2>2, <2>3, <2>4, SummaryKept
<1> QED
  BY <1>q, <1>5, <1>6 DEF l

\* The fields of a session file.
LEMMA SessionIs ==
  ASSUME NEW n \in 0..MaxAnswers, NEW f, IsSession(f, n)
  PROVE  /\ f \in FileRecord /\ IsHistory(f.messages, n) /\ f.said \in SUBSET (1..n)
         /\ f.turnCount \in 0..MaxAnswers /\ f.summarized \in BOOLEAN
         /\ f.pending \in {Nil} \cup [turn : Nat, calls : Answers, asked : Nat]
         /\ f.pending # Nil => IsQuestion(f.pending, n)
<1> HIDE DEF Messages, Answers
<1> QED
  BY DEF IsSession, FileRecord

\* What a file holds, but for its flag.
Holds(f, ms, q, count, told) ==
  f.messages = ms /\ f.pending = q /\ f.turnCount = count /\ f.said = told

\* A file with the fields of one.
LEMMA SessionOf ==
  ASSUME NEW n \in 0..MaxAnswers, NEW f, NEW ms, IsHistory(ms, n), NEW told \in SUBSET (1..n),
         NEW q \in {Nil} \cup [turn : Nat, calls : Answers, asked : Nat], q # Nil => IsQuestion(q, n),
         NEW count \in 0..MaxAnswers, NEW b \in BOOLEAN,
         f = SessionData(ms, q, count, b, told)
  PROVE  IsSession(f, n) /\ Holds(f, ms, q, count, told)
<1> HIDE DEF Messages, Answers
<1>1. ms \in Seq(Messages)
  BY HistoryIs
<1>2. told \in SUBSET (1..MaxAnswers)
  BY HistoryBounds
<1>3. f = [messages |-> ms, pending |-> q, turnCount |-> count, summarized |-> b, said |-> told]
  BY DEF SessionData
<1> DEFINE S == Seq(Messages)
           Q == {Nil} \cup [turn : Nat, calls : Answers, asked : Nat]
           N == 0..MaxAnswers
           T == SUBSET (1..MaxAnswers)
<1>4. ms \in S /\ q \in Q /\ count \in N /\ told \in T
  BY <1>1, <1>2
<1>5. FileRecord = [messages : S, pending : Q, turnCount : N, summarized : BOOLEAN, said : T]
  BY DEF FileRecord
<1> HIDE DEF S, Q, N, T
<1>6. /\ f \in FileRecord /\ f.messages = ms /\ f.pending = q /\ f.turnCount = count /\ f.said = told
  BY <1>3, <1>4, <1>5
<1>7. told \subseteq 1..n
  OBVIOUS
<1> QED
  BY <1>6, <1>7 DEF IsSession, Holds

\* A session file is given another history: compacted, rolled back, or forked.
Rewrites(g, f, ms, q, count, told) ==
  \/ /\ g = [f EXCEPT !.messages = ms, !.summarized = TRUE, !.said = told]
     /\ q = f.pending /\ count = f.turnCount
  \/ /\ g = [f EXCEPT !.messages = ms, !.turnCount = count, !.said = told]
     /\ q = f.pending
  \/ /\ g = [f EXCEPT !.messages = ms, !.pending = Nil, !.turnCount = count, !.said = told]
     /\ q = Nil

\* A session file with other messages is one.
LEMMA Rewritten ==
  ASSUME NEW n \in 0..MaxAnswers, NEW f, IsSession(f, n), NEW ms, IsHistory(ms, n),
         NEW told \in SUBSET (1..n), NEW count \in 0..MaxAnswers, NEW q,
         NEW g, Rewrites(g, f, ms, q, count, told)
  PROVE  IsSession(g, n) /\ Holds(g, ms, q, count, told)
<1> DEFINE S == Seq(Messages)
           Q == {Nil} \cup [turn : Nat, calls : Answers, asked : Nat]
           N == 0..MaxAnswers
           T == SUBSET (1..MaxAnswers)
<1>1. f \in [messages : S, pending : Q, turnCount : N, summarized : BOOLEAN, said : T]
  BY DEF IsSession, FileRecord
<1>2. told \in T
  BY HistoryBounds
<1>3. ms \in S /\ count \in N /\ Nil \in Q
  BY HistoryIs
<1>4. FileRecord = [messages : S, pending : Q, turnCount : N, summarized : BOOLEAN, said : T]
  BY DEF FileRecord
<1> HIDE DEF S, Q, N, T
<1>5. g \in FileRecord
  BY <1>1, <1>2, <1>3, <1>4 DEF Rewrites
<1>6. g.messages = ms /\ g.pending = q /\ g.turnCount = count /\ g.said = told
  BY <1>1 DEF Rewrites
<1>7. q # Nil => IsQuestion(q, n)
  BY DEF IsSession, Rewrites
<1>8. told \subseteq 1..n
  OBVIOUS
<1> QED
  BY <1>5, <1>6, <1>7, <1>8 DEF IsSession, Holds

\* compactSession keeps the session, of which it saw the last state.
LEMMA CompactedFileIs ==
  ASSUME NEW n \in 0..MaxAnswers, NEW f, IsSession(f, n), NEW told \in SUBSET (1..n),
         NEW g, g = [CompactedFile(f) EXCEPT !.said = told]
  PROVE  /\ IsSession(g, n)
         /\ \A s \in 0..2 : KeptFile(f, s) /\ told = f.said => KeptFile(g, IF s < 2 THEN s + 1 ELSE 2)
<1> DEFINE ms == f.messages
           c == Turns(ms)
           q == SystemOf(ms) \o <<Summary(c)>>
<1>1. IsHistory(ms, n) /\ f.turnCount \in 0..MaxAnswers
  BY SessionIs
<1>2. c \in SUBSET (1..n) /\ \A i \in 1..Len(ms) : ms[i].role = "assistant" => ms[i].turn \in c
  BY <1>1, TurnsAre
<1>3. IsHistory(<<>>, n) /\ Len(<<>>) = 0
  BY DEF IsHistory
<1>4. q \in Seq(Messages)
  <2>1. SystemOf(ms) \in Seq(Messages)
    BY <1>1, SystemOfIs DEF IsHistory
  <2>2. Summary(c) \in Messages
    BY <1>2, HistoryBounds, MessagesAre
  <2> HIDE DEF ms, c, Messages
  <2>3. <<Summary(c)>> \in Seq(Messages)
    BY <2>2
  <2> QED
    BY <2>1, <2>3
<1>5. q = Shorter(ms, c, <<>>)
  BY <1>4, ConcatEmptySeq DEF Shorter
<1>6. g = [f EXCEPT !.messages = q, !.summarized = TRUE, !.said = told]
  BY DEF CompactedFile
<1> HIDE DEF c, q
<1>7. IsHistory(q, n)
  BY <1>1, <1>2, <1>3, <1>5, Shortened
<1>8. IsSession(g, n) /\ g.messages = q /\ g.pending = f.pending /\ g.turnCount = f.turnCount /\ g.said = told
  <2>2. PICK pend : pend = f.pending
    OBVIOUS
  <2>c. PICK count \in 0..MaxAnswers : count = f.turnCount
    BY <1>1
  <2>3. Rewrites(g, f, q, pend, count, told)
    BY <1>6, <2>2, <2>c DEF Rewrites
  <2>4. IsSession(g, n) /\ Holds(g, q, pend, count, told)
    BY <1>7, <2>3, Rewritten
  <2> QED
    BY <2>2, <2>c, <2>4 DEF Holds
<1>9. ASSUME NEW s \in 0..2, KeptFile(f, s), told = f.said PROVE KeptFile(g, IF s < 2 THEN s + 1 ELSE 2)
  <2> DEFINE r == IF s < 2 THEN s + 1 ELSE 2
  <2>1. Kept(ms, Len(ms), told, s)
    BY <1>9 DEF KeptFile
  <2>2. Len(ms) \in Nat /\ Len(ms) >= 1 /\ OrderedTo(ms, Len(ms)) /\ DOMAIN ms = 1..Len(ms)
    BY <1>1, <2>1, HistoryIs DEF Kept
  <2>3. ms[1].role = "system"
    <3>1. 1 \in 1..Len(ms)
      BY <2>2
    <3> QED
      BY <2>2, <3>1 DEF OrderedTo
  <2>4. Len(q) >= 2 /\ Kept(q, Len(q), told, r)
    <3> DEFINE l == Len(ms)
               from == l + 1
    <3>1. l = Len(ms) /\ from \in 2..l + 1 /\ ~(from <= l)
      BY <2>2
    <3>2. IsEnd(<<>>, ms, from)
      BY <1>3, <2>2 DEF IsEnd
    <3>3. IncludesTo(c, ms, from)
      <4>1. \A i \in 1..from - 1 : i \in 1..Len(ms)
        BY <2>2
      <4> QED
        BY <1>2, <4>1 DEF IncludesTo
    <3>4. Kept(ms, l, told, s)
      BY <2>1
    <3> HIDE DEF l, from, ms
    <3> QED
      BY <1>1, <1>2, <1>3, <1>5, <1>9, <3>1, <3>2, <3>3, <3>4, SummaryKept DEF r
  <2>5. Summarizes(q, ms, c, <<>>)
    BY <1>1, <1>2, <1>3, <1>5, <2>2, <2>3, Shortened
  <2>6. Len(q) = 2 /\ q[1].role = "system" /\ q[2].role = "user"
    <3>1. c \in SUBSET (1..MaxAnswers)
      BY <1>2, HistoryBounds
    <3> QED
      BY <1>3, <2>3, <2>5, <3>1, MessagesAre DEF Summarizes
  <2>7. \A i \in DOMAIN q : q[i].role # "assistant"
    <3>1. DOMAIN q = 1..2
      BY <1>7, <2>6, HistoryIs
    <3>2. \A i \in 1..2 : i = 1 \/ i = 2
      OBVIOUS
    <3> QED
      BY <2>6, <3>1, <3>2
  <2>8. Turns(q) = {}
    BY <2>7 DEF Turns, Indices
  <2> HIDE DEF r
  <2>9. KeptFile(g, r)
    BY <1>8, <2>4, <2>8 DEF KeptFile
  <2> QED
    BY <2>9 DEF r
<1> QED
  BY <1>8, <1>9

\* Where no result is separated from its turn.
IsTurnEnd(p, l, k) == k \in 1..l /\ (k = l \/ p[k + 1].role # "tool")

\* A history that is the first part of another, and remembers what that part tells.
IsPart(q, p, k, n, s) ==
  IsHistory(q, n) /\ Len(q) = k /\ Kept(q, k, Remembered(q), s) /\ Turns(q) \subseteq Turns(p)

\* The first messages, up to one that is not a result, are a history.
LEMMA HistoryCut ==
  ASSUME NEW p, NEW n, IsHistory(p, n), NEW l, l = Len(p), NEW told, NEW s, Kept(p, l, told, s),
         NEW k, IsTurnEnd(p, l, k), NEW q, q = SubSeq(p, 1, k)
  PROVE  IsPart(q, p, k, n, s)
<1>0. k \in 1..l /\ (k = l \/ p[k + 1].role # "tool")
  BY DEF IsTurnEnd
<1>1. /\ IsHistory(q, n) /\ Len(q) = k /\ \A i \in 1..k : q[i] = p[i]
  BY <1>0, CutKept
<1>2. Told(q, Remembered(q))
  BY <1>1, ToldIsRemembered
<1>3. Kept(q, k, Remembered(q), s)
  BY <1>0, <1>2, CutKept
<1>4. Turns(q) \subseteq Turns(p)
  <2>1. DOMAIN q = 1..k /\ DOMAIN p = 1..l /\ l \in Nat
    BY <1>1, HistoryIs
  <2>2. \A i \in DOMAIN q : i \in DOMAIN p /\ q[i] = p[i]
    BY <1>0, <1>1, <2>1
  <2> QED
    BY <2>2 DEF Turns, Indices
<1> QED
  BY <1>1, <1>3, <1>4 DEF IsPart

\* The last of the messages of a turn.
IsLastOf(p, t, k) == k = AfterTurn(p, t) - 1 /\ k # 0

\* A session is cut off after a turn that it has.
LEMMA CutAfterTurn ==
  ASSUME NEW p, NEW n, IsHistory(p, n), NEW l, l = Len(p), NEW told, NEW s, Kept(p, l, told, s), l >= 2,
         NEW t, NEW k, IsLastOf(p, t, k), NEW q, q = SubSeq(p, 1, k)
  PROVE  IsPart(q, p, k, n, s) /\ k >= 2
<1>1. l \in Nat
  BY HistoryIs
<1>k. k = AfterTurn(p, t) - 1 /\ k # 0
  BY DEF IsLastOf
<1>2. PICK after \in 1..l + 1 : /\ after = AfterTurn(p, t) /\ after \in 2..l + 1
                                /\ \E a \in 1..after - 1 : p[a].role = "assistant"
                                /\ after \in 1..l => p[after].role # "tool"
  <2>1. \/ AfterTurn(p, t) = 1
        \/ /\ AfterTurn(p, t) \in 2..l + 1
           /\ \E a \in 1..AfterTurn(p, t) - 1 : p[a].role = "assistant"
           /\ AfterTurn(p, t) \in 1..l => p[AfterTurn(p, t)].role # "tool"
    BY AfterTurnIs
  <2>2. AfterTurn(p, t) # 1
    BY <1>k
  <2>3. AfterTurn(p, t) \in 1..l + 1
    BY <1>1, <2>1
  <2> QED
    BY <2>1, <2>2, <2>3
<1>3. k \in 1..l /\ (k = l \/ p[k + 1].role # "tool")
  <2>1. k = after - 1 /\ k + 1 = after
    BY <1>2, <1>k
  <2>2. k \in 1..l /\ (k = l \/ after \in 1..l)
    BY <1>1, <1>2, <1>k, <2>1
  <2> QED
    BY <1>2, <2>1, <2>2
<1>4. k >= 2
  <2>1. PICK a \in 1..k : p[a].role = "assistant"
    BY <1>2, <1>k
  <2>2. a # 1
    <3>1. 1 \in 1..l /\ OrderedTo(p, l)
      BY <1>1 DEF Kept
    <3> QED
      BY <2>1, <3>1 DEF OrderedTo
  <2> QED
    BY <1>3, <2>1, <2>2
<1>5. IsPart(q, p, k, n, s)
  <2>1. IsTurnEnd(p, l, k)
    BY <1>3 DEF IsTurnEnd
  <2> QED
    BY <2>1, HistoryCut
<1> QED
  BY <1>4, <1>5

\* A rolled back session keeps its question, and a history that it is not part of.
LEMMA RewrittenKept ==
  ASSUME NEW n \in 0..MaxAnswers, NEW f, NEW p, p = f.messages, NEW s, KeptFile(f, s),
         NEW g, NEW ms, NEW q, q = f.pending \/ q = Nil, NEW count, Holds(g, ms, q, count, Remembered(ms)),
         NEW k, IsPart(ms, p, k, n, s), count > 0 => k >= 2
  PROVE  KeptFile(g, s)
<1>1. Len(ms) = k /\ Kept(ms, Len(ms), Remembered(ms), s) /\ Turns(ms) \subseteq Turns(p)
  BY DEF IsPart
<1>2. g.messages = ms /\ g.pending = q /\ g.turnCount = count /\ g.said = Remembered(ms)
  BY DEF Holds
<1>3. q # Nil => q.turn \notin Turns(ms)
  BY <1>1 DEF KeptFile
<1> QED
  BY <1>1, <1>2, <1>3 DEF KeptFile

\* A history is a part of itself.
LEMMA WholePart ==
  ASSUME NEW n, NEW p, IsHistory(p, n), NEW l, l = Len(p), NEW told, NEW s, Kept(p, l, told, s)
  PROVE  IsPart(p, p, l, n, s)
<1>1. Told(p, Remembered(p))
  BY ToldIsRemembered
<1> QED
  BY <1>1 DEF IsPart, Kept

\* The first two messages are the system prompt and a prompt or a summary.
LEMMA FirstTwo ==
  ASSUME NEW n, NEW p, IsHistory(p, n), NEW l, l = Len(p), NEW told, NEW s, Kept(p, l, told, s), l >= 2
  PROVE  /\ p[1].role = "system" /\ p[2].role = "user"
         /\ IsTurnEnd(p, l, 1) /\ IsTurnEnd(p, l, 2)
<1>1. l \in Nat /\ OrderedTo(p, l) /\ p[2].role = "user" /\ 1 \in 1..l /\ 2 \in 1..l
  BY HistoryIs DEF Kept
<1>2. p[1].role = "system"
  BY <1>1 DEF OrderedTo
<1>3. IsTurnEnd(p, l, 1)
  <2>1. p[1 + 1].role # "tool"
    BY <1>1
  <2> QED
    BY <1>1, <2>1 DEF IsTurnEnd
<1>4. IsTurnEnd(p, l, 2)
  <2>1. CASE l >= 3
    <3>1. 3 \in 1..l
      BY <1>1, <2>1
    <3>2. ASSUME p[3].role = "tool" PROVE FALSE
      <4>1. PICK i \in Nat : i = p[3].index
        BY <3>1, HistoryIs
      <4>2. i >= 1 /\ 3 - i >= 1 /\ p[3 - i].role = "assistant"
        BY <1>1, <3>1, <3>2, <4>1 DEF OrderedTo
      <4>3. 3 - i = 1 \/ 3 - i = 2
        BY <4>1, <4>2
      <4>4. p[1].role = "assistant" \/ p[2].role = "assistant"
        BY <4>2, <4>3
      <4> QED
        BY <1>1, <1>2, <4>4
    <3> QED
      BY <1>1, <3>2 DEF IsTurnEnd
  <2>2. CASE ~(l >= 3)
    BY <1>1, <2>2 DEF IsTurnEnd
  <2> QED
    BY <2>1, <2>2
<1> QED
  BY <1>1, <1>2, <1>3, <1>4

\* rollbackSession keeps a session.
LEMMA RolledBackIs ==
  ASSUME NEW n \in 0..MaxAnswers, NEW f, IsSession(f, n), NEW t \in Nat, t <= f.turnCount,
         NEW g, g = RolledBack(f, t)
  PROVE  /\ IsSession(g, n)
         /\ \A s : KeptFile(f, s) /\ f.turnCount > 0 => KeptFile(g, s)
<1> DEFINE p == f.messages
           l == Len(p)
           users == Indices(p, "user")
           firstUser == IF users = {} THEN 0 ELSE Min(users)
           to == IF t = 0 THEN firstUser ELSE AfterTurn(p, t) - 1
           ms == IF t > 0 /\ to = 0 THEN p ELSE SubSeq(p, 1, to)
<1>1. IsHistory(p, n) /\ f.turnCount \in 0..MaxAnswers
  BY SessionIs
<1>2. l \in Nat /\ DOMAIN p = 1..l
  BY <1>1, HistoryIs
<1>3. g = [f EXCEPT !.messages = ms, !.turnCount = t, !.said = Remembered(ms)]
  BY DEF RolledBack
<1>4. users \subseteq 1..l /\ \A i \in 1..l : p[i].role = "user" => i \in users
  BY <1>2 DEF Indices
<1>5. firstUser \in 0..l /\ (users # {} => firstUser \in users /\ \A i \in users : firstUser <= i)
  <2>1. CASE users = {}
    BY <1>2, <2>1
  <2>2. CASE users # {}
    <3>1. Min(users) \in users /\ \A i \in users : Min(users) <= i
      BY <1>2, <1>4, <2>2, Extremes
    <3> QED
      BY <1>2, <1>4, <2>2, <3>1
  <2> QED
    BY <2>1, <2>2
<1> HIDE DEF firstUser
<1>6. PICK after \in 1..l + 1 : after = AfterTurn(p, t)
  BY <1>1, <1>2, AfterTurnIs
<1>7. to \in 0..l
  BY <1>2, <1>5, <1>6
<1> HIDE DEF to
<1>8. IsHistory(ms, n)
  <2>1. IsHistory(SubSeq(p, 1, to), n)
    BY <1>1, <1>2, <1>7, CutOff
  <2> QED
    BY <1>1, <2>1
<1> HIDE DEF ms
<1>9. Remembered(ms) \in SUBSET (1..n)
  BY <1>8, ToldIsRemembered
<1>10. IsSession(g, n) /\ Holds(g, ms, f.pending, t, Remembered(ms))
  <2>1. Rewrites(g, f, ms, f.pending, t, Remembered(ms))
    BY <1>3 DEF Rewrites
  <2>2. t \in 0..MaxAnswers
    BY <1>1, HistoryBounds
  <2> QED
    BY <1>8, <1>9, <2>1, <2>2, Rewritten
<1>11. ASSUME NEW s, KeptFile(f, s), f.turnCount > 0 PROVE KeptFile(g, s)
  <2>1. Kept(p, l, f.said, s) /\ l >= 2
    BY <1>11 DEF KeptFile
  <2>2. \E k : IsPart(ms, p, k, n, s) /\ (t > 0 => k >= 2)
    <3>1. CASE t = 0
      <4>1. 2 \in users /\ 1 \notin users
        <5>1. p[1].role = "system" /\ p[2].role = "user" /\ 2 \in 1..l
          BY <1>1, <1>2, <2>1, FirstTwo
        <5> QED
          BY <1>4, <5>1 DEF Indices
      <4>2. firstUser = 2
        <5>1. firstUser \in users /\ firstUser <= 2 /\ firstUser \in 1..l
          BY <1>4, <1>5, <4>1
        <5>2. firstUser # 1
          BY <4>1, <5>1
        <5> QED
          BY <1>2, <5>1, <5>2
      <4>3. ms = SubSeq(p, 1, 2)
        BY <3>1, <4>2 DEF ms, to
      <4>4. IsTurnEnd(p, l, 2)
        BY <1>1, <2>1, FirstTwo
      <4>5. IsPart(ms, p, 2, n, s)
        BY <1>1, <2>1, <4>3, <4>4, HistoryCut
      <4> QED
        BY <3>1, <4>5
    <3>2. CASE t # 0 /\ to = 0
      <4>1. ms = p
        BY <3>2 DEF ms
      <4>2. IsPart(ms, p, l, n, s)
        BY <1>1, <2>1, <4>1, WholePart
      <4> QED
        BY <2>1, <4>2
    <3>3. CASE t # 0 /\ to # 0
      <4>1. to = AfterTurn(p, t) - 1 /\ ms = SubSeq(p, 1, to)
        BY <3>3 DEF to, ms
      <4>0. IsLastOf(p, t, to)
        BY <3>3, <4>1 DEF IsLastOf
      <4>2. IsPart(ms, p, to, n, s) /\ to >= 2
        <5>1. IsHistory(p, n) /\ l = Len(p) /\ Kept(p, l, f.said, s) /\ l >= 2
          BY <1>1, <2>1
        <5> HIDE DEF p, l
        <5> QED
          BY <4>0, <4>1, <5>1, CutAfterTurn
      <4> QED
        BY <4>2
    <3> QED
      BY <3>1, <3>2, <3>3
  <2> QED
    BY <1>10, <1>11, <2>2, RewrittenKept
<1> QED
  BY <1>10, <1>11

\* forkSession keeps a session, unless it leaves nothing of it.
LEMMA ForkedIs ==
  ASSUME NEW n \in 0..MaxAnswers, NEW f, IsSession(f, n), NEW t \in Nat, t <= f.turnCount,
         NEW g, g = Forked(f, t)
  PROVE  /\ IsSession(g, n)
         /\ \A s : KeptFile(f, s) /\ g.messages # <<>> => KeptFile(g, s)
<1> DEFINE p == f.messages
           l == Len(p)
           to == AfterTurn(p, t) - 1
           ms == IF t = f.turnCount THEN p ELSE IF t = 0 THEN SystemOf(p) ELSE SubSeq(p, 1, to)
<1>1. IsHistory(p, n) /\ f.turnCount \in 0..MaxAnswers
  BY SessionIs
<1>2. l \in Nat /\ DOMAIN p = 1..l
  BY <1>1, HistoryIs
<1>3. g = [f EXCEPT !.messages = ms, !.pending = Nil, !.turnCount = t, !.said = Remembered(ms)]
  BY DEF Forked
<1>6. PICK after \in 1..l + 1 : after = AfterTurn(p, t)
  BY <1>1, <1>2, AfterTurnIs
<1>7. to \in 0..l
  BY <1>2, <1>6
<1>t. to = AfterTurn(p, t) - 1
  OBVIOUS
<1> HIDE DEF to
<1>8. IsHistory(ms, n)
  <2>1. IsHistory(SubSeq(p, 1, to), n)
    BY <1>1, <1>2, <1>7, CutOff
  <2>2. IsHistory(SystemOf(p), n)
    BY <1>1, SystemOfIs
  <2> QED
    BY <1>1, <2>1, <2>2
<1> HIDE DEF ms
<1>9. Remembered(ms) \in SUBSET (1..n)
  BY <1>8, ToldIsRemembered
<1>10. IsSession(g, n) /\ Holds(g, ms, Nil, t, Remembered(ms))
  <2>1. Rewrites(g, f, ms, Nil, t, Remembered(ms))
    BY <1>3 DEF Rewrites
  <2>2. t \in 0..MaxAnswers
    BY <1>1, HistoryBounds
  <2> QED
    BY <1>8, <1>9, <2>1, <2>2, Rewritten
<1>11. ASSUME NEW s, KeptFile(f, s), g.messages # <<>> PROVE KeptFile(g, s)
  <2>1. Kept(p, l, f.said, s) /\ (f.turnCount > 0 => l >= 2)
    BY <1>11 DEF KeptFile
  <2>2. \E k : IsPart(ms, p, k, n, s) /\ (t > 0 => k >= 2)
    <3>1. CASE t = f.turnCount
      <4>1. ms = p
        BY <3>1 DEF ms
      <4>2. IsPart(ms, p, l, n, s)
        BY <1>1, <2>1, <4>1, WholePart
      <4> QED
        BY <2>1, <3>1, <4>2
    <3>2. CASE t # f.turnCount /\ t = 0
      <4>1. l >= 2
        BY <1>1, <2>1, <3>2
      <4>2. p[1].role = "system" /\ IsTurnEnd(p, l, 1)
        BY <1>1, <2>1, <4>1, FirstTwo
      <4>3. ms = SubSeq(p, 1, 1)
        <5>1. p \in Seq(Messages) /\ p # <<>>
          BY <1>1, <1>2, <4>1 DEF IsHistory
        <5>2. ms = <<p[1]>>
          BY <3>2, <4>2, <5>1 DEF ms, SystemOf
        <5>3. /\ SubSeq(p, 1, 1) \in Seq(Messages) /\ Len(SubSeq(p, 1, 1)) = 1
              /\ SubSeq(p, 1, 1)[1] = p[1]
          <6>1. \A i \in 1..1 : i \in 1..l /\ p[i] \in Messages
            BY <1>1, <1>2, <4>1, HistoryIs
          <6> HIDE DEF p, Messages
          <6> QED
            BY <6>1, SubSeqProperties
        <5> HIDE DEF p, Messages
        <5> QED
          BY <5>2, <5>3
      <4>4. IsPart(ms, p, 1, n, s)
        BY <1>1, <2>1, <4>2, <4>3, HistoryCut
      <4> QED
        BY <3>2, <4>4
    <3>3. CASE t # f.turnCount /\ t # 0
      <4>1. ms = SubSeq(p, 1, to)
        BY <3>3 DEF ms
      <4>2. to # 0
        <5>1. ms # <<>>
          BY <1>10, <1>11 DEF Holds
        <5>2. SubSeq(p, 1, 0) = <<>>
          BY SubSeqEmpty
        <5> QED
          BY <4>1, <5>1, <5>2
      <4>3. l >= 2
        BY <1>1, <2>1, <3>3
      <4>0. IsLastOf(p, t, to)
        BY <1>t, <4>2 DEF IsLastOf
      <4>4. IsPart(ms, p, to, n, s) /\ to >= 2
        BY <1>1, <2>1, <4>0, <4>1, <4>3, CutAfterTurn
      <4> QED
        BY <4>4
    <3> QED
      BY <3>1, <3>2, <3>3
  <2> QED
    BY <1>10, <1>11, <2>2, RewrittenKept
<1> QED
  BY <1>10, <1>11

\* With more answers a history is still one.
LEMMA MoreAnswers ==
  ASSUME NEW n \in Nat, NEW m \in Nat, n <= m
  PROVE  /\ \A ms : IsHistory(ms, n) => IsHistory(ms, m)
         /\ \A q : IsQuestion(q, n) => IsQuestion(q, m)
         /\ \A f : IsSession(f, n) => IsSession(f, m)
<1>1. 1..n \subseteq 1..m
  OBVIOUS
<1>2. ASSUME NEW ms, IsHistory(ms, n) PROVE IsHistory(ms, m)
  <2> HIDE DEF Messages
  <2> QED
    BY <1>1, <1>2 DEF IsHistory, IsMessage
<1>3. ASSUME NEW q, IsQuestion(q, n) PROVE IsQuestion(q, m)
  BY <1>1, <1>3 DEF IsQuestion
<1>4. ASSUME NEW f, IsSession(f, n) PROVE IsSession(f, m)
  BY <1>1, <1>2, <1>3, <1>4 DEF IsSession
<1> QED
  BY <1>2, <1>3, <1>4

\* An answer may have no calls.
LEMMA NoCalls == <<>> \in Answers
<1>1. 0 \in 0..MaxTurnCalls
  BY HistoryBounds
<1>2. <<>> \in [1..0 -> Kinds]
  OBVIOUS
<1> QED
  BY <1>1, <1>2 DEF Answers

\* A truncated history.
LEMMA TruncatedIs ==
  ASSUME NEW n, NEW ms, IsHistory(ms, n)
  PROVE  IsHistory(Truncated(ms), n)
<1>1. IsHistory(Recent(ms), n)
  <2>1. CASE KeepLast = 0 \/ Len(ms) <= KeepLast
    BY <2>1 DEF Recent
  <2>2. CASE ~(KeepLast = 0 \/ Len(ms) <= KeepLast)
    <3>1. Len(ms) \in Nat
      BY HistoryIs
    <3>2. Len(ms) - KeepLast + 1 \in 1..Len(ms)
      BY <2>2, <3>1, HistoryBounds
    <3>3. IsHistory(SubSeq(ms, Len(ms) - KeepLast + 1, Len(ms)), n)
      BY <3>2, TheEnd
    <3> QED
      BY <2>2, <3>3 DEF Recent
  <2> QED
    BY <2>1, <2>2
<1>2. IsHistory(SystemOf(ms), n)
  BY SystemOfIs
<1> QED
  BY <1>1, <1>2, Joined DEF Truncated

\* A message of the user, and one of the model.
LEMMA OneMore ==
  ASSUME NEW n, NEW ms, IsHistory(ms, n)
  PROVE  /\ IsHistory(Append(ms, User), n)
         /\ \A c \in 0..MaxTurnCalls : n \in 1..MaxAnswers => IsHistory(Append(ms, Assistant(n, c)), n)
<1>1. IsMessage(User, n)
  BY MessagesAre DEF IsMessage
<1>2. ASSUME NEW c \in 0..MaxTurnCalls, n \in 1..MaxAnswers PROVE IsMessage(Assistant(n, c), n)
  <2>1. n \in 0..MaxAnswers /\ n \in 1..n
    BY <1>2, HistoryBounds
  <2>2. /\ Assistant(n, c) \in Messages /\ Assistant(n, c).role = "assistant"
        /\ Assistant(n, c).turn = n /\ Assistant(n, c).covers = {}
    BY <2>1, MessagesAre
  <2> QED
    BY <2>1, <2>2 DEF IsMessage
<1> QED
  BY <1>1, <1>2, Added

\* A history with one turn more, or part of its results.
LEMMA TurnPutBack ==
  ASSUME NEW n \in 0..MaxAnswers, NEW ms, IsHistory(ms, n), NEW t \in 1..n, NEW c \in 0..MaxTurnCalls,
         NEW r \in 0..c
  PROVE  IsHistory(ms \o <<Assistant(t, c)>> \o Results(t, r), n)
<1>1. t \in 0..MaxAnswers /\ r \in 0..MaxTurnCalls
  BY HistoryBounds
<1>2. IsHistory(Results(t, r), n)
  BY <1>1, ResultsAre
<1>3. Assistant(t, c) \in Messages /\ IsMessage(Assistant(t, c), n)
  <2>1. /\ Assistant(t, c) \in Messages /\ Assistant(t, c).role = "assistant"
        /\ Assistant(t, c).turn = t /\ Assistant(t, c).covers = {}
    BY <1>1, MessagesAre
  <2> QED
    BY <2>1 DEF IsMessage
<1>4. IsHistory(<<Assistant(t, c)>>, n)
  <2>1. <<Assistant(t, c)>> \in Seq(Messages) /\ DOMAIN <<Assistant(t, c)>> = 1..1
    BY <1>3
  <2> QED
    BY <1>3, <2>1 DEF IsHistory
<1>5. IsHistory(ms \o <<Assistant(t, c)>>, n)
  BY <1>4, Joined
<1> QED
  BY <1>2, <1>5, Joined

\* Once a run is over, it has nothing.
LEMMA RunOverTyped ==
  ASSUME ConversationTyped, RunIsOver, UNCHANGED answers
  PROVE  RunTyped' /\ TurnsCounted'
<1>1. IsHistory(<<>>, answers')
  BY DEF IsHistory
<1>2. <<>> \in Answers
  BY NoCalls
<1>3. -Cooldown - 1 \in -Cooldown - 1..MaxAnswers /\ 0 \in Nat /\ 0 <= answers /\ {} \subseteq 1..answers'
  BY HistoryBounds DEF ConversationTyped, CountsTyped
<1>4. stage' \in Phases /\ approvalMode' \in Modes \cup {"open"} /\ decision' \in {"none", "approve", "deny"}
  BY DEF RunIsOver, Phases
<1> HIDE DEF Answers
<1>5. RunTyped'
  BY <1>1, <1>2, <1>3, <1>4 DEF RunIsOver, RunTyped
<1>6. TurnsCounted'
  BY <1>3 DEF RunIsOver, TurnsCounted
<1> QED
  BY <1>5, <1>6

\* Files that are not written stay as they are.
LEMMA FilesLeft ==
  ASSUME ConversationTyped, UNCHANGED <<savedData, maint, answers>>
  PROVE  FilesTyped'
BY DEF ConversationTyped, FilesTyped

\* A session is saved, or it could not be.
LEMMA FilesSaved ==
  ASSUME ConversationTyped, UNCHANGED <<maint, answers>>, NEW f, IsSession(f, answers), Save(f)
  PROVE  FilesTyped'
<1>1. CASE savedData' = f
  BY <1>1 DEF ConversationTyped, FilesTyped
<1>2. CASE UNCHANGED savedData
  BY <1>2, FilesLeft
<1> QED
  BY <1>1, <1>2 DEF Save

\* What a run saves is a session.
LEMMA RunSession ==
  ASSUME ConversationTyped, NEW ms, IsHistory(ms, answers), NEW told \in SUBSET (1..answers),
         NEW count \in 0..MaxAnswers, NEW b \in BOOLEAN, NEW f, f = SessionData(ms, Nil, count, b, told)
  PROVE  IsSession(f, answers) /\ Holds(f, ms, Nil, count, told)
<1>1. answers \in 0..MaxAnswers
  BY DEF ConversationTyped, CountsTyped
<1>2. Nil \in {Nil} \cup [turn : Nat, calls : Answers, asked : Nat]
  OBVIOUS
<1> QED
  BY <1>1, <1>2, SessionOf

\* The bounds of the counters.
LEMMA TypedFacts ==
  ASSUME ConversationTyped
  PROVE  /\ answers \in 0..MaxAnswers /\ answers \in Nat /\ turn \in 0..MaxAnswers /\ turn <= answers
         /\ said \in SUBSET (1..answers) /\ IsHistory(messages, answers) /\ runs \in 0..MaxRuns
         /\ summaries \in 0..2 /\ ignored \in BOOLEAN /\ damaged \in BOOLEAN /\ calls \in Answers
         /\ stage \in Phases /\ failedAt \in -Cooldown - 1..MaxAnswers
         /\ approvalMode \in Modes \cup {"open"} /\ decision \in {"none", "approve", "deny"}
<1> HIDE DEF Answers, Phases
<1> QED
  BY HistoryBounds DEF ConversationTyped, CountsTyped, RunTyped, TurnsCounted

\* A run begins.
LEMMA LoadRunTyped ==
  ASSUME ConversationTyped, LoadRun
  PROVE  ConversationTyped'
<1> USE DEF LoadRun
<1>1. FilesTyped'
  BY FilesLeft DEF conversationHistory
<1>2. CountsTyped'
  BY TypedFacts, HistoryBounds DEF CountsTyped, conversationHistory
<1>3. TurnsCounted'
  BY TypedFacts DEF TurnsCounted, conversationHistory
<1>4. savedData # Nil => IsSession(savedData, answers)
  BY DEF ConversationTyped, FilesTyped
<1>5. IsHistory(messages', answers) /\ said' \subseteq 1..answers
  <2>1. CASE savedData = Nil
    <3>1. IsHistory(<<System>>, answers)
      <4>1. System \in Messages /\ IsMessage(System, answers)
        BY MessagesAre DEF IsMessage
      <4> HIDE DEF System, Messages
      <4>2. <<System>> \in Seq(Messages) /\ DOMAIN <<System>> = 1..1
        BY <4>1
      <4> QED
        BY <4>1, <4>2 DEF IsHistory
    <3>2. messages' = Append(<<System>>, User) /\ said' = {}
      BY <2>1
    <3> QED
      BY <3>1, <3>2, OneMore
  <2>2. CASE savedData # Nil
    <3>1. IsHistory(savedData.messages, answers) /\ savedData.said \in SUBSET (1..answers)
      BY <1>4, <2>2, TypedFacts, SessionIs
    <3>2. messages' = Append(savedData.messages, User) /\ said' = savedData.said
      BY <2>2
    <3> QED
      BY <3>1, <3>2, OneMore
  <2> QED
    BY <2>1, <2>2
<1>6. /\ stage' \in Phases /\ approvalMode' \in Modes \cup {"open"}
      /\ decision' \in {"none", "approve", "deny"}
      /\ stage' = "resolve" => pending' # Nil
  BY DEF Phases
<1>7. pending' # Nil => IsQuestion(pending', answers)
  <2>1. savedData # Nil /\ savedData.pending # Nil => IsQuestion(savedData.pending, answers)
    BY <1>4, TypedFacts, SessionIs
  <2> QED
    BY <2>1
<1>8. UNCHANGED <<calls, turn, failedAt, answers>>
  BY DEF conversationHistory
<1>9. RunTyped'
  <2> HIDE DEF LoadRun, Answers
  <2> QED
    BY <1>5, <1>6, <1>7, <1>8, TypedFacts DEF RunTyped
<1> QED
  BY <1>1, <1>2, <1>3, <1>9 DEF ConversationTyped

\* A run resolves the question it found.
LEMMA ResolveTyped ==
  ASSUME ConversationTyped, ResolveApproval \/ ResolveThrows
  PROVE  ConversationTyped'
<1> DEFINE n == Len(pending.calls)
           all == messages \o <<Assistant(pending.turn, n)>> \o Results(pending.turn, n)
           told == said \cup {pending.turn}
<1>1. stage = "resolve" /\ IsQuestion(pending, answers)
  BY DEF ConversationTyped, RunTyped, ResolveApproval, ResolveThrows
<1>2. n \in 0..MaxTurnCalls /\ pending.turn \in 1..answers
  BY <1>1, CallsAre DEF IsQuestion
<1>3. \A r \in 0..n : IsHistory(messages \o <<Assistant(pending.turn, n)>> \o Results(pending.turn, r), answers)
  BY <1>2, TypedFacts, TurnPutBack
<1>4. IsHistory(all, answers) /\ told \in SUBSET (1..answers)
  <2>1. n \in 0..n
    BY <1>2
  <2> HIDE DEF n
  <2> QED
    BY <1>2, <1>3, <2>1, TypedFacts
<1>5. CASE ResolveApproval
  <2> USE <1>5 DEF ResolveApproval
  <2>1. messages' = all /\ said' = told
    OBVIOUS
  <2> HIDE DEF all, told, n
  <2>2. FilesTyped'
    <3>1. PICK f : f = SessionData(all, Nil, 0, FALSE, told)
      OBVIOUS
    <3>2. 0 \in 0..MaxAnswers
      BY HistoryBounds
    <3>3. IsSession(f, answers)
      BY <1>4, <3>1, <3>2, RunSession
    <3> QED
      BY <2>1, <3>1, <3>3, FilesSaved
  <2>3. CountsTyped'
    BY TypedFacts DEF CountsTyped
  <2>4. TurnsCounted'
    BY TypedFacts DEF TurnsCounted
  <2>5. stage' \in Phases /\ decision' \in {"none", "approve", "deny"} /\ stage' # "resolve" /\ pending' = Nil
    BY DEF Phases
  <2>6. UNCHANGED <<approvalMode, calls, turn, failedAt, answers>>
    OBVIOUS
  <2>7. RunTyped'
    <3> HIDE DEF ResolveApproval, Answers, Phases
    <3> QED
      BY <1>4, <2>1, <2>5, <2>6, TypedFacts DEF RunTyped
  <2> QED
    BY <2>2, <2>3, <2>4, <2>7 DEF ConversationTyped
<1>6. CASE ResolveThrows
  <2> USE <1>6 DEF ResolveThrows
  <2>1. PICK r \in 0..n - 1 :
          Save(SessionData(messages \o <<Assistant(pending.turn, n)>> \o Results(pending.turn, r), Nil, turn,
                           FALSE, said \cup {pending.turn}))
    OBVIOUS
  <2>2. r \in 0..n
    BY <1>2
  <2>3. PICK ms : ms = messages \o <<Assistant(pending.turn, n)>> \o Results(pending.turn, r)
    OBVIOUS
  <2>4. IsHistory(ms, answers)
    BY <1>3, <2>2, <2>3
  <2>5. PICK f : f = SessionData(ms, Nil, turn, FALSE, told)
    OBVIOUS
  <2>6. IsSession(f, answers)
    <3> HIDE DEF told
    <3> QED
      BY <1>4, <2>4, <2>5, TypedFacts, RunSession
  <2>7. FilesTyped'
    BY <2>1, <2>3, <2>5, <2>6, FilesSaved
  <2>8. CountsTyped'
    BY TypedFacts DEF CountsTyped
  <2>9. RunTyped' /\ TurnsCounted'
    BY RunOverTyped
  <2> QED
    BY <2>7, <2>8, <2>9 DEF ConversationTyped
<1> QED
  BY <1>5, <1>6

\* The model answers.
LEMMA ModelAnswersTyped ==
  ASSUME ConversationTyped, ModelAnswers
  PROVE  ConversationTyped'
<1>1. PICK cs \in Answers :
        LET ms == Append(messages, Assistant(answers', Len(cs)))
        IN /\ calls' = cs
           /\ \/ cs # <<>> /\ messages' = ms /\ stage' = "tools"
              \/ cs = <<>> /\ messages' = ms /\ stage' = "end"
              \/ cs = <<>> /\ messages' = Append(ms, User) /\ stage' = "top"
  BY DEF ModelAnswers
<1>2. /\ answers' = answers + 1 /\ answers < MaxAnswers /\ said' = said \cup {answers'}
      /\ UNCHANGED <<runs, approvalMode, decision, pending, turn, failedAt, savedData, maint, ignored,
                     summaries, damaged>>
  BY DEF ModelAnswers
<1>3. answers \in Nat /\ answers' \in Nat /\ answers <= answers' /\ answers' \in 1..MaxAnswers
  BY <1>2, TypedFacts, HistoryBounds
<1>4. Len(cs) \in 0..MaxTurnCalls
  BY CallsAre
<1>5. PICK m \in 1..MaxAnswers : m = answers'
  BY <1>3
<1>6. PICK ms : ms = Append(messages, Assistant(m, Len(cs)))
  OBVIOUS
<1>7. IsHistory(messages, m)
  BY <1>3, <1>5, TypedFacts, MoreAnswers
<1>8. IsHistory(ms, m) /\ IsHistory(Append(ms, User), m)
  BY <1>4, <1>6, <1>7, OneMore
<1>9. IsHistory(messages', answers')
  BY <1>1, <1>5, <1>6, <1>8
<1>10. FilesTyped'
  <2>1. \A f : IsSession(f, answers) => IsSession(f, answers')
    <3>1. m \in Nat
      OBVIOUS
    <3> QED
      BY <1>3, <1>5, <3>1, MoreAnswers
  <2> QED
    BY <1>2, <2>1 DEF ConversationTyped, FilesTyped
<1>11. CountsTyped'
  BY <1>2, <1>3, TypedFacts DEF CountsTyped
<1>12. TurnsCounted'
  BY <1>2, <1>3, TypedFacts DEF TurnsCounted
<1>13. pending' # Nil => IsQuestion(pending', answers')
  <2>1. \A q : IsQuestion(q, answers) => IsQuestion(q, answers')
    <3>1. m \in Nat
      OBVIOUS
    <3> QED
      BY <1>3, <1>5, <3>1, MoreAnswers
  <2> QED
    BY <1>2, <2>1 DEF ConversationTyped, RunTyped
<1>14. said' \subseteq 1..answers'
  BY <1>2, <1>3, TypedFacts
<1>15. stage' \in Phases /\ stage' # "resolve" /\ calls' \in Answers
  BY <1>1 DEF Phases
<1>16. RunTyped'
  <2> HIDE DEF Answers, Phases
  <2> QED
    BY <1>2, <1>9, <1>13, <1>14, <1>15, TypedFacts DEF RunTyped
<1> QED
  BY <1>10, <1>11, <1>12, <1>16 DEF ConversationTyped

\* A run fails, and nothing is left of it.
LEMMA RunThrowsTyped ==
  ASSUME ConversationTyped, RunThrows \/ FinishRun \/ DropRun
  PROVE  ConversationTyped'
<1>1. RunIsOver /\ UNCHANGED <<runs, maint, answers, ignored, summaries>> /\ damaged' \in BOOLEAN
  BY TypedFacts DEF RunThrows, FinishRun, DropRun, conversationHistory
<1>2. RunTyped' /\ TurnsCounted' /\ CountsTyped'
  BY <1>1, RunOverTyped, TypedFacts DEF CountsTyped
<1>3. FilesTyped'
  <2>1. CASE Save(SessionData(messages, Nil, turn, FALSE, said))
    <3>1. PICK f : f = SessionData(messages, Nil, turn, FALSE, said)
      OBVIOUS
    <3>2. IsSession(f, answers)
      BY <3>1, TypedFacts, RunSession
    <3> QED
      BY <1>1, <2>1, <3>1, <3>2, FilesSaved
  <2>2. CASE UNCHANGED savedData
    BY <1>1, <2>2, FilesLeft
  <2> QED
    BY <2>1, <2>2 DEF RunThrows, FinishRun, DropRun
<1> QED
  BY <1>2, <1>3 DEF ConversationTyped

\* The images of the results.
LEMMA ImagesAre ==
  ASSUME NEW n, NEW i \in {0, 1}
  PROVE  /\ IsHistory([j \in 1..i |-> User], n) /\ Len([j \in 1..i |-> User]) = i
         /\ \A j \in 1..i : [k \in 1..i |-> User][j] = User
<1> DEFINE q == [j \in 1..i |-> User]
<1>1. User \in Messages /\ IsMessage(User, n)
  BY MessagesAre DEF IsMessage
<1> HIDE DEF User, Messages
<1>2. q \in [1..i -> Messages] /\ i \in Nat /\ \A j \in 1..i : q[j] = User
  BY <1>1
<1> HIDE DEF q
<1>3. q \in Seq(Messages) /\ Len(q) = i
  BY <1>2, LenProperties, SeqDef
<1>4. IsHistory(q, n)
  BY <1>1, <1>2, <1>3 DEF IsHistory
<1> QED
  BY <1>2, <1>3, <1>4 DEF q

\* The tools of a turn are run.
LEMMA RunToolsTyped ==
  ASSUME ConversationTyped, RunTools
  PROVE  ConversationTyped'
<1>1. PICK images \in {0, 1} :
        messages' = messages \o Results(answers, Len(calls)) \o [i \in 1..images |-> User]
  <2>1. PICK images \in 0..(IF "image" \in Mishaps THEN 1 ELSE 0) :
          messages' = messages \o Results(answers, Len(calls)) \o [i \in 1..images |-> User]
    BY DEF RunTools
  <2>2. images \in {0, 1}
    OBVIOUS
  <2> QED
    BY <2>1, <2>2
<1>2. /\ stage = "tools" /\ stage' = "judge"
      /\ UNCHANGED <<runs, approvalMode, decision, pending, calls, turn, failedAt, said, savedData,
                     maint, answers, ignored, summaries, damaged>>
  BY DEF RunTools, conversationHistory
<1>3. IsHistory(messages', answers)
  <2>1. Len(calls) \in 0..MaxTurnCalls
    BY TypedFacts, CallsAre
  <2>2. IsHistory(Results(answers, Len(calls)), answers)
    BY <2>1, TypedFacts, ResultsAre
  <2>3. IsHistory(messages \o Results(answers, Len(calls)), answers)
    BY <2>2, TypedFacts, Joined
  <2>4. IsHistory([i \in 1..images |-> User], answers)
    BY ImagesAre
  <2> QED
    BY <1>1, <2>3, <2>4, Joined
<1>4. FilesTyped'
  BY <1>2, FilesLeft
<1>5. CountsTyped'
  BY <1>2, TypedFacts DEF CountsTyped
<1>6. TurnsCounted'
  BY <1>2 DEF ConversationTyped, TurnsCounted
<1>7. stage' \in Phases /\ stage' # "resolve"
  BY <1>2 DEF Phases
<1>8. RunTyped'
  <2> HIDE DEF Answers, Phases
  <2> QED
    BY <1>2, <1>3, <1>7 DEF ConversationTyped, RunTyped
<1> QED
  BY <1>4, <1>5, <1>6, <1>8 DEF ConversationTyped

\* The history to be saved may have a warning at its end.
LEMMA WarnedIs ==
  ASSUME ConversationTyped, NEW ms \in Warned
  PROVE  /\ IsHistory(ms, answers)
         /\ ms = messages \/ ms = Append(messages, User)
<1>1. ms = messages \/ ms = Append(messages, User)
  BY DEF Warned
<1>2. IsHistory(messages, answers)
  BY TypedFacts
<1> QED
  BY <1>1, <1>2, OneMore

\* The calls that are put off, and the one asked about.
LEMMA TurnPutOff ==
  ASSUME ConversationTyped, PutOffCalls # {}
  PROVE  Max(PutOffCalls) \in DOMAIN calls /\ Max(PutOffCalls) \in Nat
<1>1. Len(calls) \in Nat /\ DOMAIN calls = 1..Len(calls)
  BY TypedFacts, CallsAre, HistoryBounds
<1>2. PutOffCalls \subseteq 1..Len(calls)
  BY <1>1 DEF PutOffCalls
<1>3. Max(PutOffCalls) \in PutOffCalls
  BY <1>1, <1>2, Extremes
<1> DEFINE m == Max(PutOffCalls)
<1>4. m \in 1..Len(calls)
  BY <1>2, <1>3
<1> HIDE DEF m
<1>5. m \in DOMAIN calls /\ m \in Nat
  BY <1>1, <1>4
<1> QED
  BY <1>5 DEF m

\* What is saved with a question is a session.
LEMMA QuestionSession ==
  ASSUME ConversationTyped, PutOffCalls # {}, answers \in 1..answers,
         NEW ms, IsHistory(ms, answers), NEW told \in SUBSET (1..answers), NEW q,
         q = [turn |-> answers, calls |-> calls, asked |-> Max(PutOffCalls)],
         NEW f, f = SessionData(ms, q, turn, FALSE, told)
  PROVE  IsSession(f, answers) /\ Holds(f, ms, q, turn, told)
<1>1. /\ answers \in 0..MaxAnswers /\ answers \in Nat /\ turn \in 0..MaxAnswers /\ calls \in Answers
  BY TypedFacts
<1>2. PICK a \in Nat : a = Max(PutOffCalls) /\ a \in DOMAIN calls
  BY TurnPutOff
<1> HIDE DEF Answers
<1>3. q \in [turn : Nat, calls : Answers, asked : Nat] /\ IsQuestion(q, answers)
  BY <1>1, <1>2 DEF IsQuestion
<1>4. PICK c \in 0..MaxAnswers : c = turn
  BY <1>1
<1>5. FALSE \in BOOLEAN /\ q \in {Nil} \cup [turn : Nat, calls : Answers, asked : Nat]
  BY <1>3
<1> QED
  BY <1>1, <1>3, <1>4, <1>5, SessionOf

\* A turn is put off until the user has answered.
LEMMA AskApprovalTyped ==
  ASSUME ConversationTyped, AskApproval
  PROVE  ConversationTyped'
<1>1. /\ stage = "judge" /\ PutOffCalls # {} /\ RunIsOver
      /\ UNCHANGED <<runs, maint, answers, ignored, summaries>>
  BY DEF AskApproval
<1>2. PICK ms \in Warned :
        LET kept == SubSeq(ms, 1, Len(ms) - 1 - Len(calls))
            question == [turn |-> answers, calls |-> calls, asked |-> Max(PutOffCalls)]
        IN /\ Save(SessionData(kept, question, turn, FALSE, said \ {answers}))
           /\ damaged' = (damaged \/ answers \in Turns(kept))
  BY DEF AskApproval
<1>3. PICK kept : kept = SubSeq(ms, 1, Len(ms) - 1 - Len(calls))
  OBVIOUS
<1>4. PICK q : q = [turn |-> answers, calls |-> calls, asked |-> Max(PutOffCalls)]
  OBVIOUS
<1>5. PICK f : f = SessionData(kept, q, turn, FALSE, said \ {answers})
  OBVIOUS
<1>6. Save(f) /\ damaged' \in BOOLEAN
  BY <1>2, <1>3, <1>4, <1>5, TypedFacts
<1>7. IsHistory(kept, answers)
  <2>1. IsHistory(ms, answers) /\ Len(ms) \in Nat
    BY WarnedIs, HistoryIs
  <2>2. Len(calls) \in Nat
    BY TypedFacts, CallsAre, HistoryBounds
  <2> QED
    BY <1>3, <2>1, <2>2, CutOff
<1>8. answers \in 1..answers
  BY <1>1, TypedFacts DEF ConversationTyped, TurnsCounted
<1>9. IsSession(f, answers)
  <2>1. PICK told \in SUBSET (1..answers) : told = said \ {answers}
    BY TypedFacts
  <2> QED
    BY <1>1, <1>4, <1>5, <1>7, <1>8, <2>1, QuestionSession
<1>10. FilesTyped'
  BY <1>1, <1>6, <1>9, FilesSaved
<1>11. CountsTyped'
  BY <1>1, <1>6, TypedFacts DEF CountsTyped
<1> QED
  BY <1>1, <1>10, <1>11, RunOverTyped DEF ConversationTyped

\* A turn is judged.
LEMMA JudgeTurnTyped ==
  ASSUME ConversationTyped, JudgeTurn
  PROVE  ConversationTyped'
<1>1. /\ stage = "judge" /\ stage' \in {"turnEnd", "end"} /\ calls' = <<>>
      /\ UNCHANGED <<runs, approvalMode, decision, pending, turn, failedAt, said, savedData, maint,
                     answers, ignored, summaries, damaged>>
  BY DEF JudgeTurn, conversationHistory
<1>2. IsHistory(messages', answers)
  BY WarnedIs DEF JudgeTurn
<1>3. FilesTyped' /\ CountsTyped' /\ TurnsCounted'
  <2>1. FilesTyped'
    BY <1>1, FilesLeft
  <2>2. CountsTyped'
    BY <1>1, TypedFacts DEF CountsTyped
  <2>3. TurnsCounted'
    BY <1>1 DEF ConversationTyped, TurnsCounted
  <2> QED
    BY <2>1, <2>2, <2>3
<1>4. stage' \in Phases /\ stage' # "resolve" /\ calls' \in Answers
  BY <1>1, NoCalls DEF Phases
<1>5. RunTyped'
  <2> HIDE DEF Answers, Phases
  <2> QED
    BY <1>1, <1>2, <1>4 DEF ConversationTyped, RunTyped
<1> QED
  BY <1>3, <1>5 DEF ConversationTyped

\* A turn is closed: with a summary, or not.
LEMMA CloseTurnTyped ==
  ASSUME ConversationTyped, CloseTurn
  PROVE  ConversationTyped'
<1>1. /\ stage = "turnEnd" /\ stage' \in {"top", "end"} /\ turn' \in {turn, turn + 1}
      /\ UNCHANGED <<runs, approvalMode, decision, pending, calls, said, maint, answers, ignored>>
  BY DEF CloseTurn
<1>2. turn < answers
  BY <1>1 DEF ConversationTyped, TurnsCounted
<1>3. turn' \in Nat /\ turn' <= answers
  BY <1>1, <1>2, TypedFacts
<1>4. /\ IsHistory(messages', answers) /\ failedAt' \in -Cooldown - 1..MaxAnswers
      /\ summaries' \in 0..2 /\ damaged' \in BOOLEAN /\ FilesTyped'
  <2>1. CASE Summarize
    <3>1. IsHistory(Compacted(messages), answers)
      BY TypedFacts, CompactedIs
    <3>2. /\ messages' = Compacted(messages) /\ Save(SessionData(messages', Nil, turn, TRUE, said))
          /\ summaries' \in 0..2 /\ UNCHANGED <<failedAt, damaged>>
      <4>1. /\ messages' = Compacted(messages) /\ Save(SessionData(messages', Nil, turn, TRUE, said))
            /\ summaries' = (IF summaries < 2 THEN summaries + 1 ELSE 2) /\ UNCHANGED <<failedAt, damaged>>
        BY <2>1 DEF Summarize
      <4>2. summaries' \in 0..2
        BY <4>1, TypedFacts
      <4> QED
        BY <4>1, <4>2
    <3>3. PICK ms : ms = messages'
      OBVIOUS
    <3>4. PICK f : f = SessionData(ms, Nil, turn, TRUE, said)
      OBVIOUS
    <3>5. IsSession(f, answers)
      BY <3>1, <3>2, <3>3, <3>4, TypedFacts, RunSession
    <3>6. FilesTyped'
      BY <1>1, <3>2, <3>3, <3>4, <3>5, FilesSaved
    <3> QED
      BY <3>1, <3>2, <3>6, TypedFacts
  <2>2. CASE SummarizeFails
    <3>1. failedAt' = turn /\ UNCHANGED <<messages, savedData, summaries, damaged>>
      BY <2>2 DEF SummarizeFails
    <3>2. turn \in -Cooldown - 1..MaxAnswers
      BY TypedFacts, HistoryBounds
    <3>3. FilesTyped'
      BY <1>1, <3>1, FilesLeft
    <3> QED
      BY <3>1, <3>2, <3>3, TypedFacts
  <2>3. CASE Truncate
    <3>1. /\ messages' = Truncated(messages) /\ damaged' = TRUE
          /\ UNCHANGED <<failedAt, savedData, summaries>>
      BY <2>3 DEF Truncate
    <3>2. IsHistory(Truncated(messages), answers)
      BY TypedFacts, TruncatedIs
    <3>3. FilesTyped'
      BY <1>1, <3>1, FilesLeft
    <3> QED
      BY <3>1, <3>2, <3>3, TypedFacts
  <2>4. CASE NothingToDo
    <3>1. UNCHANGED <<messages, failedAt, savedData, summaries, damaged>>
      BY <2>4 DEF NothingToDo
    <3>2. FilesTyped'
      BY <1>1, <3>1, FilesLeft
    <3> QED
      BY <3>1, <3>2, TypedFacts
  <2> QED
    BY <2>1, <2>2, <2>3, <2>4 DEF CloseTurn
<1>5. CountsTyped' /\ TurnsCounted'
  BY <1>1, <1>3, <1>4, TypedFacts DEF CountsTyped, TurnsCounted
<1>6. stage' \in Phases /\ stage' # "resolve"
  BY <1>1 DEF Phases
<1>7. RunTyped'
  <2> HIDE DEF Answers, Phases
  <2> QED
    BY <1>1, <1>3, <1>4, <1>6 DEF ConversationTyped, RunTyped
<1> QED
  BY <1>4, <1>5, <1>7 DEF ConversationTyped

\* Maintenance of the session.
LEMMA MaintainTyped ==
  ASSUME ConversationTyped, Maintain
  PROVE  ConversationTyped'
<1>1. UNCHANGED <<stage, runs, approvalMode, decision, pending, messages, calls, turn, failedAt, said,
                  answers, ignored>>
  BY DEF Maintain, LoadData, LockSession, GiveUp, FinishCompact, FinishRollback, FinishFork, run, work,
         conversationHistory
<1>2. RunTyped' /\ TurnsCounted'
  <2> HIDE DEF Answers, Phases
  <2>1. RunTyped'
    BY <1>1 DEF ConversationTyped, RunTyped
  <2>2. TurnsCounted'
    BY <1>1 DEF ConversationTyped, TurnsCounted
  <2> QED
    BY <2>1, <2>2
<1>3. summaries' \in 0..2 /\ damaged' \in BOOLEAN
  <2>1. summaries' = summaries \/ summaries' = IF summaries < 2 THEN summaries + 1 ELSE 2
    BY DEF Maintain, LoadData, LockSession, GiveUp, FinishCompact, FinishRollback, FinishFork,
           conversationHistory
  <2>2. damaged' = damaged \/ damaged' = (damaged \/ Stale) \/ damaged' = (damaged \/ savedData'.messages = <<>>)
    BY DEF Maintain, LoadData, LockSession, GiveUp, FinishCompact, FinishRollback, FinishFork,
           conversationHistory
  <2>3. damaged' \in BOOLEAN
    BY <2>2, TypedFacts
  <2>4. summaries' \in 0..2
    BY <2>1, TypedFacts
  <2> QED
    BY <2>3, <2>4
<1>4. CountsTyped'
  BY <1>1, <1>3, TypedFacts DEF CountsTyped
<1> HIDE DEF FileRecord
<1>5. FilesTyped
  BY DEF ConversationTyped
<1>6. FilesTyped'
  <2>1. CASE LoadData
    <3>1. PICK tool \in Tools :
            /\ tool = "rollback" => savedData.turnCount > 0
            /\ maint' = [tool |-> tool, data |-> savedData, locked |-> FALSE]
      BY <2>1 DEF LoadData
    <3>2. savedData # Nil /\ UNCHANGED <<savedData, answers>>
      BY <2>1 DEF LoadData, conversationHistory
    <3>3. IsSession(savedData, answers) /\ savedData \in FileRecord
      BY <1>5, <3>2 DEF FilesTyped, IsSession
    <3>4. /\ maint' \in [tool : Tools, data : FileRecord, locked : BOOLEAN]
          /\ maint'.data = savedData /\ maint'.tool = tool /\ maint'.locked = FALSE
      BY <3>1, <3>3
    <3> QED
      BY <3>1, <3>2, <3>3, <3>4 DEF FilesTyped
  <2>2. CASE LockSession
    <3>1. /\ maint # Nil /\ maint.tool = "compact" /\ UNCHANGED <<savedData, answers>>
          /\ maint' = [maint EXCEPT !.locked = TRUE]
      BY <2>2 DEF LockSession, conversationHistory
    <3>2. IsSession(maint.data, answers) /\ maint \in [tool : Tools, data : FileRecord, locked : BOOLEAN]
      BY <1>5, <3>1 DEF FilesTyped
    <3>3. /\ maint' \in [tool : Tools, data : FileRecord, locked : BOOLEAN]
          /\ maint'.data = maint.data /\ maint'.tool = "compact"
      BY <3>1, <3>2
    <3> QED
      BY <1>5, <3>1, <3>2, <3>3 DEF FilesTyped
  <2>3. CASE GiveUp
    BY <1>5, <2>3 DEF GiveUp, conversationHistory, FilesTyped
  <2>4. CASE FinishCompact
    <3>1. /\ maint # Nil /\ maint' = Nil
          /\ savedData' = [CompactedFile(maint.data) EXCEPT !.said = savedData.said]
      BY <2>4 DEF FinishCompact
    <3>2. IsSession(maint.data, answers) /\ IsSession(savedData, answers)
      BY <1>5, <3>1 DEF FilesTyped
    <3>3. PICK f, told, g : f = maint.data /\ told = savedData.said /\ g = savedData'
      OBVIOUS
    <3>4. told \in SUBSET (1..answers)
      BY <3>2, <3>3, TypedFacts, SessionIs
    <3>5. IsSession(g, answers)
      BY <3>1, <3>2, <3>3, <3>4, TypedFacts, CompactedFileIs
    <3> QED
      BY <1>1, <3>1, <3>3, <3>5 DEF FilesTyped
  <2>5. CASE FinishRollback
    <3>1. PICK t \in 0..maint.data.turnCount - 1 : savedData' = RolledBack(maint.data, t)
      BY <2>5 DEF FinishRollback
    <3>2. maint # Nil /\ maint' = Nil
      BY <2>5 DEF FinishRollback
    <3>3. IsSession(maint.data, answers)
      BY <1>5, <3>2 DEF FilesTyped
    <3>4. PICK f, g : f = maint.data /\ g = savedData'
      OBVIOUS
    <3>5. t \in Nat /\ t <= f.turnCount
      BY <3>3, <3>4, TypedFacts, SessionIs, HistoryBounds
    <3>6. IsSession(g, answers)
      BY <3>1, <3>3, <3>4, <3>5, TypedFacts, RolledBackIs
    <3> QED
      BY <1>1, <3>2, <3>4, <3>6 DEF FilesTyped
  <2>6. CASE FinishFork
    <3>1. PICK t \in 0..maint.data.turnCount : savedData' = Forked(maint.data, t)
      BY <2>6 DEF FinishFork
    <3>2. maint # Nil /\ maint' = Nil
      BY <2>6 DEF FinishFork
    <3>3. IsSession(maint.data, answers)
      BY <1>5, <3>2 DEF FilesTyped
    <3>4. PICK f, g : f = maint.data /\ g = savedData'
      OBVIOUS
    <3>5. t \in Nat /\ t <= f.turnCount
      BY <3>3, <3>4, TypedFacts, SessionIs, HistoryBounds
    <3>6. IsSession(g, answers)
      BY <3>1, <3>3, <3>4, <3>5, TypedFacts, ForkedIs
    <3> QED
      BY <1>1, <3>2, <3>4, <3>6 DEF FilesTyped
  <2> QED
    BY <2>1, <2>2, <2>3, <2>4, <2>5, <2>6 DEF Maintain
<1> QED
  BY <1>2, <1>4, <1>6 DEF ConversationTyped

\* All steps keep the types.
LEMMA ConversationTypedStep ==
  ASSUME ConversationTyped, [ConversationNext]_conversationVars
  PROVE  ConversationTyped'
<1>1. CASE LoadRun
  BY <1>1, LoadRunTyped
<1>2. CASE ResolveApproval \/ ResolveThrows
  BY <1>2, ResolveTyped
<1>3. CASE ModelAnswers
  BY <1>3, ModelAnswersTyped
<1>4. CASE RunThrows \/ FinishRun \/ DropRun
  BY <1>4, RunThrowsTyped
<1>5. CASE RunTools
  BY <1>5, RunToolsTyped
<1>6. CASE AskApproval
  BY <1>6, AskApprovalTyped
<1>7. CASE JudgeTurn
  BY <1>7, JudgeTurnTyped
<1>8. CASE CloseTurn
  BY <1>8, CloseTurnTyped
<1>9. CASE Maintain
  BY <1>9, MaintainTyped
<1>10. CASE UNCHANGED conversationVars
  <2>1. UNCHANGED <<stage, runs, approvalMode, decision, pending, messages, calls, turn, failedAt, said,
                    savedData, maint, answers, ignored, summaries, damaged>>
    BY <1>10 DEF conversationVars, run, work, conversationHistory
  <2>2. RunTyped'
    <3> HIDE DEF Answers, Phases
    <3> QED
      BY <2>1 DEF ConversationTyped, RunTyped
  <2>3. FilesTyped'
    BY <2>1, FilesLeft
  <2>4. CountsTyped' /\ TurnsCounted'
    BY <2>1 DEF ConversationTyped, CountsTyped, TurnsCounted
  <2> QED
    BY <2>2, <2>3, <2>4 DEF ConversationTyped
<1> QED
  BY <1>1, <1>2, <1>3, <1>4, <1>5, <1>6, <1>7, <1>8, <1>9, <1>10 DEF ConversationNext, Stopped

\* After more summaries less is asked of a file.
LEMMA FileKeptOn ==
  ASSUME NEW f, NEW s \in Nat, NEW r \in Nat, s <= r, KeptFile(f, s)
  PROVE  KeptFile(f, r)
BY KeptOn DEF KeptFile

\* Files that are not written are kept.
LEMMA FilesKeptLeft ==
  ASSUME ConversationTyped, FilesKept, UNCHANGED <<savedData, maint>>, summaries' \in Nat,
         summaries <= summaries'
  PROVE  FilesKept'
<1>1. summaries \in Nat
  BY TypedFacts
<1>2. PICK s \in Nat, r \in Nat : s = summaries /\ r = summaries' /\ s <= r
  BY <1>1
<1>3. \A f : KeptFile(f, s) => KeptFile(f, r)
  BY <1>2, FileKeptOn
<1> QED
  BY <1>2, <1>3 DEF FilesKept

\* A session is saved, or it could not be.
LEMMA FilesKeptSaved ==
  ASSUME ConversationTyped, FilesKept, UNCHANGED maint, summaries' \in Nat, summaries <= summaries',
         NEW f, KeptFile(f, summaries'), Save(f)
  PROVE  FilesKept'
<1>1. CASE savedData' = f
  <2>1. summaries \in Nat
    BY TypedFacts
  <2>2. PICK s \in Nat, r \in Nat : s = summaries /\ r = summaries' /\ s <= r
    BY <2>1
  <2>3. \A g : KeptFile(g, s) => KeptFile(g, r)
    BY <2>2, FileKeptOn
  <2> QED
    BY <1>1, <2>2, <2>3 DEF FilesKept
<1>2. CASE UNCHANGED savedData
  BY <1>2, FilesKeptLeft
<1> QED
  BY <1>1, <1>2 DEF Save

\* What a run saves is kept, if the run is.
LEMMA RunSaved ==
  ASSUME ConversationTyped, NEW ms, IsHistory(ms, answers), NEW told \in SUBSET (1..answers),
         NEW count \in 0..MaxAnswers, NEW b \in BOOLEAN, NEW f, f = SessionData(ms, Nil, count, b, told),
         NEW s, Kept(ms, Len(ms), told, s), Len(ms) >= 2
  PROVE  KeptFile(f, s)
<1>1. Holds(f, ms, Nil, count, told)
  BY RunSession
<1> QED
  BY <1>1 DEF Holds, KeptFile

\* A run goes on as it is.
LEMMA RunKeptOn ==
  ASSUME ConversationTyped, RunKept, UNCHANGED <<stage, messages, said, pending, answers, calls>>,
         summaries' \in Nat, summaries <= summaries'
  PROVE  RunKept'
<1>1. summaries \in Nat
  BY TypedFacts
<1>2. PICK s \in Nat, r \in Nat : s = summaries /\ r = summaries' /\ s <= r
  BY <1>1
<1>3. \A k, told : Kept(messages, k, told, s) => Kept(messages, k, told, r)
  BY <1>2, KeptOn
<1> QED
  BY <1>2, <1>3 DEF RunKept

\* A new session.
LEMMA FirstHistory ==
  ASSUME NEW n, NEW s
  PROVE  /\ IsHistory(<<System>>, n) /\ Len(<<System>>) = 1
         /\ Kept(<<System>>, Len(<<System>>), {}, s)
<1>1. System \in Messages /\ System.role = "system" /\ System.covers = {} /\ IsMessage(System, n)
  BY MessagesAre DEF IsMessage
<1> HIDE DEF System, Messages
<1>2. <<System>> \in Seq(Messages) /\ DOMAIN <<System>> = 1..1 /\ Len(<<System>>) = 1 /\ <<System>>[1] = System
  BY <1>1
<1>3. IsHistory(<<System>>, n)
  BY <1>1, <1>2 DEF IsHistory
<1>4. \A i \in 1..1 : i = 1
  OBVIOUS
<1> DEFINE q == <<System>>
<1> HIDE DEF q
<1>5. OrderedTo(q, 1)
  BY <1>1, <1>2, <1>4 DEF OrderedTo, q
<1>6. Kept(q, 1, {}, s)
  BY <1>1, <1>2, <1>4, <1>5 DEF Kept, Told, q
<1> QED
  BY <1>2, <1>3, <1>6 DEF q

\* The prompt is no answer.
LEMMA SameTurns ==
  ASSUME NEW n, NEW p, IsHistory(p, n)
  PROVE  Turns(Append(p, User)) = Turns(p)
<1>1. /\ User.role = "user" /\ IsMessage(User, n)
  BY MessagesAre DEF IsMessage
<1> DEFINE q == Append(p, User)
<1>2. /\ IsHistory(q, n) /\ Len(q) = Len(p) + 1 /\ q[Len(p) + 1] = User
      /\ \A i \in 1..Len(p) : q[i] = p[i]
  BY <1>1, Added
<1> HIDE DEF q, User
<1>3. Len(p) \in Nat /\ DOMAIN p = 1..Len(p) /\ DOMAIN q = 1..Len(p) + 1
  BY <1>2, HistoryIs
<1>4. \A i \in DOMAIN q : q[i].role = "assistant" => i \in DOMAIN p
  <2>1. \A i \in DOMAIN q : i = Len(p) + 1 \/ i \in DOMAIN p
    BY <1>3
  <2> QED
    BY <1>1, <1>2, <2>1
<1>5. \A i \in DOMAIN p : i \in DOMAIN q /\ q[i] = p[i]
  BY <1>2, <1>3
<1>6. Turns(q) = Turns(p)
  BY <1>4, <1>5 DEF Turns, Indices
<1> QED
  BY <1>6 DEF q

\* A run begins with the history of the file.
LEMMA LoadRunKept ==
  ASSUME ConversationTyped, FilesKept, LoadRun
  PROVE  RunKept' /\ FilesKept'
<1> USE DEF LoadRun, conversationHistory
<1>1. FilesKept'
  BY TypedFacts, FilesKeptLeft
<1>2. PICK p, told : /\ IsHistory(p, answers) /\ Kept(p, Len(p), told, summaries)
                     /\ messages' = Append(p, User) /\ said' = told
                     /\ savedData # Nil => p = savedData.messages
  <2>1. CASE savedData = Nil
    <3>1. IsHistory(<<System>>, answers) /\ Kept(<<System>>, Len(<<System>>), {}, summaries)
      BY FirstHistory
    <3>2. messages' = Append(<<System>>, User) /\ said' = {}
      BY <2>1
    <3> QED
      BY <2>1, <3>1, <3>2
  <2>2. CASE savedData # Nil
    <3>1. IsHistory(savedData.messages, answers)
      BY <2>2, TypedFacts, SessionIs DEF ConversationTyped, FilesTyped
    <3>2. Kept(savedData.messages, Len(savedData.messages), savedData.said, summaries)
      BY <2>2 DEF FilesKept, KeptFile
    <3> QED
      BY <2>2, <3>1, <3>2
  <2> QED
    BY <2>1, <2>2
<1>3. PICK q : q = Append(p, User)
  OBVIOUS
<1>4. IsHistory(q, answers) /\ Len(q) = Len(p) + 1 /\ Kept(q, Len(p) + 1, told, summaries)
  BY <1>2, <1>3, UserAdded
<1>5. Len(p) \in Nat /\ Len(p) >= 1
  BY <1>2, HistoryIs DEF Kept
<1>6. /\ Len(messages') >= 2 /\ Kept(messages', Len(messages'), said', summaries')
  <2>1. messages' = q /\ said' = told /\ summaries' = summaries
    BY <1>2, <1>3
  <2>2. Len(q) >= 2 /\ Kept(q, Len(q), told, summaries)
    BY <1>4, <1>5
  <2> HIDE DEF LoadRun
  <2> QED
    BY <2>1, <2>2
<1>7. stage' = "resolve" => pending'.turn \notin Turns(messages')
  <2>1. ASSUME stage' = "resolve" PROVE pending'.turn \notin Turns(messages')
    <3>1. savedData # Nil /\ savedData.pending # Nil /\ pending' = savedData.pending
      BY <2>1
    <3>2. savedData.pending.turn \notin Turns(p)
      BY <1>2, <3>1 DEF FilesKept, KeptFile
    <3>3. Turns(messages') = Turns(p)
      BY <1>2, SameTurns
    <3> QED
      BY <3>1, <3>2, <3>3
  <2> QED
    BY <2>1
<1>8. stage' \notin {"tools", "judge"}
  OBVIOUS
<1>9. RunKept'
  BY <1>6, <1>7, <1>8 DEF RunKept
<1> QED
  BY <1>1, <1>9

\* The turn with the question is put back.
PutBack(p, t, c) == p \o <<Assistant(t, c)>> \o Results(t, c)

\* A turn that was put off comes back at the end.
LEMMA RestoredKept ==
  ASSUME NEW n \in 0..MaxAnswers, NEW p, IsHistory(p, n), NEW l, l = Len(p), l >= 2, NEW told, NEW s,
         Kept(p, l, told, s), NEW t \in 1..n, t \notin Turns(p), NEW c \in 0..MaxTurnCalls,
         NEW q, q = PutBack(p, t, c)
  PROVE  Len(q) >= 2 /\ Kept(q, Len(q), told \cup {t}, s)
<1>1. t \in 0..MaxAnswers /\ c \in Nat /\ l \in Nat
  BY HistoryBounds, HistoryIs
<1> DEFINE a == Assistant(t, c)
           w == <<a>>
           m == p \o w
           r == Results(t, c)
<1>2. /\ a \in Messages /\ a.role = "assistant" /\ a.turn = t /\ a.covers = {} /\ IsMessage(a, n)
  BY <1>1, MessagesAre DEF IsMessage
<1>3. IsHistory(w, n) /\ Len(w) = 1 /\ w[1] = a
  <2> HIDE DEF a, Messages
  <2>1. w \in Seq(Messages) /\ DOMAIN w = 1..1 /\ Len(w) = 1 /\ w[1] = a
    BY <1>2
  <2> QED
    BY <1>2, <2>1 DEF IsHistory
<1>4. IsHistory(r, n) /\ Len(r) = c /\ \A i \in 1..c : r[i] = Result(t, i)
  BY <1>1, ResultsAre
<1> HIDE DEF w, r
<1>5. IsHistory(m, n) /\ Len(m) = l + 1 /\ (\A i \in 1..l : m[i] = p[i]) /\ m[l + 1] = a
  <2>1. IsHistory(m, n) /\ Joins(m, p, w)
    BY <1>3, Joined
  <2> HIDE DEF m
  <2> QED
    BY <1>1, <1>3, <2>1 DEF Joins
<1>q. q = m \o r
  BY DEF w, r, PutBack
<1> HIDE DEF m
<1>6. /\ IsHistory(q, n) /\ Len(q) = l + 1 + c /\ (\A i \in 1..l + 1 : q[i] = m[i])
      /\ \A i \in 1..c : q[l + 1 + i] = r[i]
  <2>1. IsHistory(q, n) /\ Joins(q, m, r)
    BY <1>4, <1>5, <1>q, Joined
  <2> QED
    BY <1>1, <1>4, <1>5, <2>1 DEF Joins
<1>7. (\A i \in 1..l : q[i] = p[i]) /\ q[l + 1] = a
  <2>1. l + 1 \in 1..l + 1 /\ \A i \in 1..l : i \in 1..l + 1
    BY <1>1
  <2> QED
    BY <1>5, <1>6, <2>1
<1>8. \A i \in 1..c : q[l + 1 + i] = Result(t, i)
  BY <1>4, <1>6
<1>9. \A i \in l + 1..Len(q) : q[i].covers = {}
  <2>1. ASSUME NEW i \in l + 1..Len(q) PROVE q[i].covers = {}
    <3>1. CASE i = l + 1
      BY <1>2, <1>7, <3>1
    <3>2. CASE i # l + 1
      <4>1. PICK j \in 1..c : i = l + 1 + j
        <5>1. i - l - 1 \in 1..c /\ i = l + 1 + (i - l - 1)
          BY <1>1, <1>6, <3>2
        <5> QED
          BY <5>1
      <4>2. j \in 0..MaxTurnCalls
        BY HistoryBounds
      <4> QED
        BY <1>1, <1>8, <4>1, <4>2, MessagesAre
    <3> QED
      BY <3>1, <3>2
  <2> QED
    BY <2>1
<1>10. Kept(q, l, told, s)
  <2>1. Continues(q, p) /\ l \in 1..l
    BY <1>1, <1>6, <1>7, <1>9 DEF Continues
  <2> QED
    BY <1>6, <2>1, Longer
<1>11. \A i \in 1..l : q[i].role = "assistant" => q[i].turn # t
  BY <1>7, TurnsAre
<1>12. Kept(q, l + 1 + c, told, s)
  <2>1. l \in Nat \ {0} /\ l + 1 >= 3 /\ l + 1 + c \in 1..Len(q) /\ q[l + 1] = Assistant(t, c)
    BY <1>1, <1>6, <1>7 DEF a
  <2> HIDE DEF a
  <2> QED
    BY <1>1, <1>6, <1>8, <1>10, <1>11, <2>1, TurnKept
<1>13. Kept(q, l + 1 + c, told \cup {t}, s)
  <2>1. l + 1 \in 1..Len(q) /\ q[l + 1].role = "assistant" /\ q[l + 1].turn = t
    BY <1>1, <1>2, <1>6, <1>7
  <2>2. Kept(q, l + 1 + c, told \cup {q[l + 1].turn}, s)
    BY <1>6, <1>12, <2>1, ToldOne
  <2> QED
    BY <2>1, <2>2
<1> QED
  BY <1>1, <1>6, <1>13

\* A run that resolves a question has the turn in its history.
LEMMA ResolveKept ==
  ASSUME ConversationTyped, RunKept, FilesKept, ResolveApproval
  PROVE  RunKept' /\ FilesKept'
<1> USE DEF ResolveApproval
<1>1. IsQuestion(pending, answers) /\ pending.turn \notin Turns(messages)
  BY DEF ConversationTyped, RunTyped, RunKept
<1>2. PICK n \in 0..MaxTurnCalls : n = Len(pending.calls)
  BY <1>1, CallsAre DEF IsQuestion
<1>3. PICK t \in 1..answers : t = pending.turn
  BY <1>1 DEF IsQuestion
<1>4. PICK q, told : q = PutBack(messages, t, n) /\ messages' = q /\ told = said \cup {t} /\ said' = told
  BY <1>2, <1>3 DEF PutBack
<1>5. PICK l : l = Len(messages) /\ l >= 2 /\ Kept(messages, l, said, summaries)
  BY DEF RunKept
<1>6. Len(q) >= 2 /\ Kept(q, Len(q), told, summaries)
  BY <1>1, <1>3, <1>4, <1>5, TypedFacts, RestoredKept
<1>7. IsHistory(q, answers) /\ told \in SUBSET (1..answers)
  <2>1. n \in 0..n
    OBVIOUS
  <2>2. IsHistory(q, answers)
    BY <1>4, <2>1, TypedFacts, TurnPutBack DEF PutBack
  <2> QED
    BY <1>4, <2>2, TypedFacts
<1>8. FilesKept'
  <2>1. PICK f : f = SessionData(q, Nil, 0, FALSE, told)
    OBVIOUS
  <2>2. Save(f)
    BY <1>4, <2>1
  <2>5. UNCHANGED maint /\ summaries' = summaries /\ summaries' \in Nat /\ summaries <= summaries'
    BY TypedFacts
  <2>3. 0 \in 0..MaxAnswers
    BY HistoryBounds
  <2>4. KeptFile(f, summaries)
    BY <1>6, <1>7, <2>1, <2>3, RunSaved
  <2> HIDE DEF ResolveApproval
  <2> QED
    BY <2>2, <2>4, <2>5, FilesKeptSaved
<1>9. RunKept'
  <2>1. stage' = "top" /\ summaries' = summaries
    OBVIOUS
  <2> HIDE DEF ResolveApproval
  <2> QED
    BY <1>4, <1>6, <2>1 DEF RunKept
<1> QED
  BY <1>8, <1>9

\* The last message is a new answer.
IsAnswered(q, l, m, c, told, s) ==
  /\ IsHistory(q, m) /\ Len(q) = l + 1 /\ q[l + 1] = Assistant(m, c)
  /\ Kept(q, l, told, s) /\ (c = 0 => Kept(q, l + 1, told, s))
  /\ \A i \in 1..l : q[i].role = "assistant" => q[i].turn # m

\* An answer is added.
LEMMA Answered ==
  ASSUME NEW n \in Nat, NEW m \in 1..MaxAnswers, m = n + 1, NEW p, IsHistory(p, n), NEW l, l = Len(p), l >= 2,
         NEW told, NEW s, Kept(p, l, told, s), NEW c \in 0..MaxTurnCalls,
         NEW q, q = Append(p, Assistant(m, c))
  PROVE  IsAnswered(q, l, m, c, told \cup {m}, s)
<1>1. m \in 0..MaxAnswers /\ m \in Nat /\ l \in Nat /\ n <= m /\ m \in 1..m
  BY HistoryBounds, HistoryIs
<1>2. IsHistory(p, m)
  BY <1>1, MoreAnswers
<1> DEFINE a == Assistant(m, c)
<1>3. /\ a \in Messages /\ a.role = "assistant" /\ a.turn = m /\ a.covers = {}
  BY <1>1, MessagesAre
<1>4. IsMessage(a, m)
  BY <1>1, <1>3 DEF IsMessage
<1>a. q = Append(p, a)
  OBVIOUS
<1> HIDE DEF a
<1>5. IsHistory(q, m) /\ Len(q) = l + 1 /\ q[l + 1] = a /\ \A i \in 1..l : q[i] = p[i]
  BY <1>2, <1>4, <1>a, Added
<1>6. Kept(q, l, told, s)
  <2>1. \A i \in Len(p) + 1..Len(q) : i = l + 1
    BY <1>1, <1>5
  <2>2. Continues(q, p)
    BY <1>1, <1>3, <1>5, <2>1 DEF Continues
  <2>3. l \in 1..l
    BY <1>1
  <2> QED
    BY <1>2, <1>5, <2>2, <2>3, Longer
<1>7. \A i \in 1..l : q[i].role = "assistant" => q[i].turn # m
  <2>1. \A i \in 1..l : p[i].role = "assistant" => p[i].turn \in 1..n
    BY HistoryIs
  <2> QED
    BY <1>5, <2>1
<1>8. \A k : Kept(q, k, told, s) => Kept(q, k, told \cup {m}, s)
  <2>1. l + 1 \in 1..Len(q) /\ q[l + 1].role = "assistant" /\ q[l + 1].turn = m
    BY <1>1, <1>3, <1>5
  <2>2. \A k : Kept(q, k, told, s) => Kept(q, k, told \cup {q[l + 1].turn}, s)
    BY <1>5, <2>1, ToldOne
  <2> QED
    BY <2>1, <2>2
<1>9. c = 0 => Kept(q, l + 1, told, s)
  <2>1. l \in Nat \ {0} /\ l + 1 >= 3 /\ l + 1 + 0 \in 1..Len(q) /\ q[l + 1] = Assistant(m, c) /\ l + 1 + 0 = l + 1
    BY <1>1, <1>5 DEF a
  <2>2. \A i \in 1..0 : q[l + 1 + i] = Result(m, i)
    OBVIOUS
  <2>3. ASSUME c = 0 PROVE Kept(q, l + 1 + 0, told, s)
    <3>1. 0 \in 0..MaxTurnCalls /\ q[l + 1] = Assistant(m, 0)
      BY <2>1, <2>3
    <3> QED
      BY <1>1, <1>5, <1>6, <1>7, <2>1, <2>2, <3>1, TurnKept
  <2> QED
    BY <2>1, <2>3
<1> QED
  BY <1>5, <1>6, <1>7, <1>8, <1>9 DEF a, IsAnswered

\* An answer is added, without its results.
LEMMA ModelAnswersKept ==
  ASSUME ConversationTyped, RunKept, FilesKept, ModelAnswers
  PROVE  RunKept' /\ FilesKept'
<1>1. PICK cs \in Answers :
        LET ms == Append(messages, Assistant(answers', Len(cs)))
        IN /\ calls' = cs
           /\ \/ cs # <<>> /\ messages' = ms /\ stage' = "tools"
              \/ cs = <<>> /\ messages' = ms /\ stage' = "end"
              \/ cs = <<>> /\ messages' = Append(ms, User) /\ stage' = "top"
  BY DEF ModelAnswers
<1>2. /\ stage = "top" /\ answers' = answers + 1 /\ answers < MaxAnswers /\ said' = said \cup {answers'}
      /\ UNCHANGED <<savedData, maint, summaries>>
  BY DEF ModelAnswers
<1>3. PICK m \in 1..MaxAnswers : m = answers' /\ m = answers + 1 /\ answers \in Nat
  BY <1>2, TypedFacts, HistoryBounds
<1>4. PICK c \in 0..MaxTurnCalls : c = Len(cs) /\ (cs = <<>> <=> c = 0)
  BY CallsAre
<1>5. PICK q : q = Append(messages, Assistant(m, c))
  OBVIOUS
<1>6. PICK l : l = Len(messages) /\ l >= 2 /\ Kept(messages, l, said, summaries) /\ l \in Nat
  BY <1>2, TypedFacts, HistoryIs DEF RunKept
<1>7. IsHistory(messages, answers)
  BY TypedFacts
<1>8. PICK n \in Nat : n = answers
  BY <1>3
<1>9. PICK told : told = said'
  OBVIOUS
<1>10. /\ IsHistory(q, m) /\ Len(q) = l + 1 /\ q[l + 1] = Assistant(m, c)
       /\ Kept(q, l, told, summaries) /\ (c = 0 => Kept(q, l + 1, told, summaries))
       /\ \A i \in 1..l : q[i].role = "assistant" => q[i].turn # m
  <2>1. told = said \cup {m}
    BY <1>2, <1>3, <1>9
  <2>2. m = n + 1 /\ IsHistory(messages, n)
    BY <1>3, <1>7, <1>8
  <2>3. IsAnswered(q, l, m, c, said \cup {m}, summaries)
    BY <1>5, <1>6, <2>2, Answered
  <2> QED
    BY <2>1, <2>3 DEF IsAnswered
<1>11. RunKept'
  <2>1. CASE c # 0
    <3>1. messages' = q /\ stage' = "tools" /\ calls' = cs
      BY <1>1, <1>3, <1>4, <1>5, <2>1
    <3>2. Len(q) >= 3 /\ Len(q) - 1 = l
      BY <1>6, <1>10
    <3>3. /\ Kept(q, Len(q) - 1, told, summaries) /\ q[Len(q)] = Assistant(m, Len(cs))
          /\ \A i \in 1..Len(q) - 1 : q[i].role = "assistant" => q[i].turn # m
      BY <1>4, <1>10, <3>2
    <3> QED
      BY <1>2, <1>3, <1>9, <3>1, <3>2, <3>3 DEF RunKept
  <2>2. CASE c = 0
    <3>1. Kept(q, Len(q), told, summaries) /\ Len(q) >= 3 /\ Len(q) \in Nat
      BY <1>6, <1>10, <2>2
    <3>2. PICK r : r = Append(q, User)
      OBVIOUS
    <3>3. Kept(r, Len(r), told, summaries) /\ Len(r) >= 2
      <4>1. Len(r) = Len(q) + 1 /\ Kept(r, Len(q) + 1, told, summaries)
        BY <1>10, <3>1, <3>2, UserAdded
      <4> QED
        BY <3>1, <4>1
    <3>4. /\ stage' \in {"end", "top"} /\ messages' \in {q, r}
      BY <1>1, <1>3, <1>4, <1>5, <2>2, <3>2
    <3>5. Len(messages') >= 2 /\ Kept(messages', Len(messages'), told, summaries)
      BY <3>1, <3>3, <3>4
    <3> QED
      BY <1>2, <1>9, <3>4, <3>5 DEF RunKept
  <2> QED
    BY <2>1, <2>2
<1>12. FilesKept'
  BY <1>2, TypedFacts, FilesKeptLeft
<1> QED
  BY <1>11, <1>12

\* A run ends and saves what it has.
LEMMA RunEndsKept ==
  ASSUME ConversationTyped, RunKept, FilesKept, RunThrows \/ FinishRun \/ DropRun, ~damaged'
  PROVE  FilesKept' /\ stage' = "idle"
<1>1. /\ stage' = "idle" /\ UNCHANGED <<maint, summaries>>
      /\ summaries' \in Nat /\ summaries <= summaries'
  <2>1. stage' = "idle" /\ maint' = maint /\ summaries' = summaries
    BY DEF RunThrows, FinishRun, DropRun, RunIsOver, conversationHistory
  <2> QED
    BY <2>1, TypedFacts
<1>2. CASE stage # "tools" /\ Save(SessionData(messages, Nil, turn, FALSE, said))
  <2>1. PICK ms : ms = messages /\ IsHistory(ms, answers) /\ Len(ms) >= 2 /\ Kept(ms, Len(ms), said, summaries)
    BY <1>2, TypedFacts DEF RunKept
  <2>2. PICK f : f = SessionData(ms, Nil, turn, FALSE, said)
    OBVIOUS
  <2>3. KeptFile(f, summaries)
    BY <2>1, <2>2, TypedFacts, RunSaved
  <2>4. Save(f) /\ KeptFile(f, summaries')
    BY <1>1, <1>2, <2>1, <2>2, <2>3
  <2>5. FilesKept'
    BY <1>1, <2>4, FilesKeptSaved
  <2> QED
    BY <1>1, <2>5
<1>3. CASE UNCHANGED savedData
  BY <1>1, <1>3, FilesKeptLeft
<1> QED
  BY <1>2, <1>3 DEF RunThrows, FinishRun, DropRun

\* The last message is the answer of this turn.
IsLastAnswer(p, k, n, c) ==
  /\ Len(p) = k + 1 /\ p[k + 1] = Assistant(n, c)
  /\ \A i \in 1..k : p[i].role = "assistant" => p[i].turn # n
\* An answer with c calls is there.
HasAnswer(q, n, c) == \E i \in DOMAIN q : q[i] = Assistant(n, c)
\* The results of a turn are added, with images after them.
WithResults(p, n, c, images) == p \o Results(n, c) \o [i \in 1..images |-> User]

\* The results, and perhaps an image, follow the answer.
LEMMA ResultsKept ==
  ASSUME NEW n \in 0..MaxAnswers, NEW p, IsHistory(p, n), NEW k \in Nat, k >= 2,
         NEW c \in 0..MaxTurnCalls, IsLastAnswer(p, k, n, c),
         NEW told, NEW s, Kept(p, k, told, s),
         NEW images \in {0, 1}, NEW q, q = WithResults(p, n, c, images)
  PROVE  Len(q) >= 2 /\ Kept(q, Len(q), told, s) /\ HasAnswer(q, n, c)
<1>0. /\ Len(p) = k + 1 /\ p[k + 1] = Assistant(n, c)
      /\ \A i \in 1..k : p[i].role = "assistant" => p[i].turn # n
  BY DEF IsLastAnswer
<1>w. q = p \o Results(n, c) \o [i \in 1..images |-> User]
  BY DEF WithResults
<1> DEFINE r == Results(n, c)
           m == p \o r
           v == [i \in 1..images |-> User]
<1>1. IsHistory(r, n) /\ Len(r) = c /\ \A i \in 1..c : r[i] = Result(n, i)
  BY ResultsAre
<1>2. IsHistory(v, n) /\ Len(v) = images /\ \A i \in 1..images : v[i] = User
  BY ImagesAre
<1>3. IsHistory(m, n) /\ Joins(m, p, r)
  BY <1>1, Joined
<1>4. IsHistory(q, n) /\ Joins(q, m, v)
  BY <1>2, <1>3, <1>w, Joined
<1> HIDE DEF r, m, v
<1>5. c \in Nat /\ images \in Nat /\ Len(m) = k + 1 + c /\ Len(q) = k + 1 + c + images
  BY <1>0, <1>1, <1>2, <1>3, <1>4, HistoryBounds DEF Joins
<1>6. \A i \in 1..k + 1 : q[i] = p[i]
  <2>1. \A i \in 1..k + 1 : i \in 1..k + 1 + c
    BY <1>5
  <2> QED
    BY <1>0, <1>3, <1>4, <1>5, <2>1 DEF Joins
<1>7. \A i \in 1..c : q[k + 1 + i] = Result(n, i)
  <2>0. Len(p) = k + 1 /\ Len(r) = c
    BY <1>0, <1>1
  <2>a. \A i \in 1..c : m[Len(p) + i] = r[i]
    BY <1>3, <2>0 DEF Joins
  <2>b. \A i \in 1..c : m[k + 1 + i] = r[i]
    BY <2>0, <2>a
  <2>c. \A i \in 1..c : k + 1 + i \in 1..k + 1 + c
    BY <1>5
  <2>1. \A i \in 1..c : k + 1 + i \in 1..k + 1 + c /\ m[k + 1 + i] = r[i]
    BY <2>b, <2>c
  <2> QED
    BY <1>1, <1>4, <1>5, <2>1 DEF Joins
<1>8. images = 1 => q[k + 1 + c + 1] = User
  <2>1. images = 1 => q[k + 1 + c + 1] = v[1]
    BY <1>2, <1>4, <1>5 DEF Joins
  <2>2. images = 1 => 1 \in 1..images
    OBVIOUS
  <2> QED
    BY <1>2, <2>1, <2>2
<1>9. ASSUME NEW i \in Len(p) + 1..Len(q) PROVE q[i].covers = {}
  <2>0. i \in k + 2..k + 1 + c + images
    BY <1>0, <1>5, <1>9
  <2>1. CASE i <= k + 1 + c
    <3>1. PICK j \in 1..c : i = k + 1 + j
      <4>1. i - k - 1 \in 1..c /\ i = k + 1 + (i - k - 1)
        BY <1>5, <2>0, <2>1
      <4> QED
        BY <4>1
    <3>2. j \in 0..MaxTurnCalls
      BY HistoryBounds
    <3> QED
      BY <1>7, <3>1, <3>2, MessagesAre
  <2>2. CASE ~(i <= k + 1 + c)
    <3>1. images = 1 /\ i = k + 1 + c + 1
      BY <1>5, <2>0, <2>2
    <3> QED
      BY <1>8, <3>1, MessagesAre
  <2> QED
    BY <2>1, <2>2
<1>10. Kept(q, k, told, s)
  <2>1. Continues(q, p)
    <3>1. Len(p) <= Len(q)
      BY <1>0, <1>5
    <3>2. \A i \in 1..Len(p) : q[i] = p[i]
      BY <1>0, <1>6
    <3> QED
      BY <1>9, <3>1, <3>2 DEF Continues
  <2>2. PICK l : l = Len(p) /\ k \in 1..l
    BY <1>0
  <2> QED
    BY <1>4, <2>1, <2>2, Longer
<1>11. Kept(q, k + 1 + c, told, s)
  <2>1. k \in Nat \ {0} /\ k + 1 + c \in 1..Len(q) /\ k + 1 >= 3
    BY <1>5
  <2>2. q[k + 1] = Assistant(n, c) /\ \A i \in 1..k : q[i].role = "assistant" => q[i].turn # n
    <3>1. \A i \in 1..k : i \in 1..k + 1
      OBVIOUS
    <3> QED
      BY <1>0, <1>6, <3>1
  <2> QED
    BY <1>4, <1>7, <1>10, <2>1, <2>2, TurnKept
<1>12. Kept(q, Len(q), told, s)
  <2>1. CASE images = 0
    BY <1>5, <1>11, <2>1
  <2>2. CASE images = 1
    <3>1. PICK j \in Nat \ {0} : j = k + 1 + c
      BY <1>5
    <3>2. j + 1 \in 1..Len(q) /\ j + 1 = Len(q) /\ q[j + 1].role = "user" /\ Kept(q, j, told, s)
      BY <1>5, <1>8, <1>11, <2>2, <3>1, MessagesAre
    <3>3. Kept(q, j + 1, told, s)
      BY <1>4, <3>2, UserKept
    <3> QED
      BY <3>2, <3>3
  <2> QED
    BY <2>1, <2>2
<1>13. k + 1 \in DOMAIN q /\ q[k + 1] = Assistant(n, c)
  <2>1. k + 1 \in 1..Len(q) /\ DOMAIN q = 1..Len(q)
    BY <1>4, <1>5, HistoryIs
  <2> QED
    BY <1>0, <1>6, <2>1
<1> QED
  BY <1>5, <1>12, <1>13 DEF HasAnswer

\* The results follow the answer.
LEMMA RunToolsKept ==
  ASSUME ConversationTyped, RunKept, FilesKept, RunTools
  PROVE  RunKept' /\ FilesKept'
<1>1. PICK images \in {0, 1} :
        messages' = messages \o Results(answers, Len(calls)) \o [i \in 1..images |-> User]
  <2>1. PICK images \in 0..(IF "image" \in Mishaps THEN 1 ELSE 0) :
          messages' = messages \o Results(answers, Len(calls)) \o [i \in 1..images |-> User]
    BY DEF RunTools
  <2>2. images \in {0, 1}
    OBVIOUS
  <2> QED
    BY <2>1, <2>2
<1>2. stage = "tools" /\ stage' = "judge" /\ UNCHANGED <<calls, said, savedData, maint, answers, summaries>>
  BY DEF RunTools, conversationHistory
<1>3. PICK c \in 0..MaxTurnCalls : c = Len(calls)
  BY TypedFacts, CallsAre
<1>4. PICK n \in 0..MaxAnswers : n = answers
  BY TypedFacts
<1>5. PICK p : p = messages /\ IsHistory(p, n)
  BY <1>4, TypedFacts
<1>6. PICK k \in Nat : k >= 2 /\ Len(p) = k + 1 /\ Len(p) - 1 = k
  <2>1. Len(p) >= 3 /\ Len(p) \in Nat
    BY <1>2, <1>5, HistoryIs DEF RunKept
  <2>2. Len(p) - 1 \in Nat /\ Len(p) - 1 >= 2 /\ Len(p) = (Len(p) - 1) + 1
    BY <2>1
  <2> QED
    BY <2>2
<1>7. Kept(p, k, said, summaries) /\ IsLastAnswer(p, k, n, c)
  BY <1>2, <1>3, <1>4, <1>5, <1>6 DEF RunKept, IsLastAnswer
<1>8. PICK q : q = WithResults(p, n, c, images) /\ messages' = q
  BY <1>1, <1>3, <1>4, <1>5 DEF WithResults
<1>9. Len(q) >= 2 /\ Kept(q, Len(q), said, summaries) /\ HasAnswer(q, n, c)
  BY <1>5, <1>6, <1>7, <1>8, ResultsKept
<1>10. RunKept'
  BY <1>2, <1>3, <1>4, <1>8, <1>9 DEF RunKept, HasAnswer
<1>11. FilesKept'
  BY <1>2, TypedFacts, FilesKeptLeft
<1> QED
  BY <1>10, <1>11

\* The history without its last turn, which has c calls.
WithoutTurn(q, p, c) == \E ms \in {p, Append(p, User)} : q = SubSeq(ms, 1, Len(ms) - 1 - c)

\* The turn with the question is cut off, and nothing else.
LEMMA AskedKept ==
  ASSUME NEW n \in 0..MaxAnswers, NEW p, IsHistory(p, n), NEW l, l = Len(p), l >= 2, NEW told, NEW s,
         Kept(p, l, told, s), NEW c \in 0..MaxTurnCalls, HasAnswer(p, n, c),
         NEW q, WithoutTurn(q, p, c), n \notin Turns(q)
  PROVE  Len(q) >= 2 /\ Kept(q, Len(q), told \ {n}, s)
<1>0. PICK ms \in {p, Append(p, User)} : q = SubSeq(ms, 1, Len(ms) - 1 - c)
  BY DEF WithoutTurn
<1>1. l \in Nat /\ DOMAIN p = 1..l /\ c \in Nat /\ OrderedTo(p, l)
  BY HistoryIs, HistoryBounds DEF Kept
<1>2. PICK a \in 1..l : p[a] = Assistant(n, c)
  BY <1>1 DEF HasAnswer
<1>3. /\ p[a].role = "assistant" /\ p[a].turn = n /\ p[a].index = c /\ p[a].covers = {}
  BY <1>2, MessagesAre
<1>4. \A d \in 1..c : a + d <= l /\ p[a + d] = Result(n, d)
  BY <1>3, <1>1 DEF OrderedTo
<1>5. a + c <= l
  <2>1. c # 0 => c \in 1..c
    BY <1>1
  <2> QED
    BY <1>1, <1>4, <2>1
<1>6. /\ IsHistory(ms, n) /\ Len(ms) \in {l, l + 1} /\ (Len(ms) = l => ms = p)
      /\ \A i \in 1..l : ms[i] = p[i]
  <2>1. CASE ms = p
    BY <1>1, <2>1
  <2>2. CASE ms = Append(p, User)
    <3>1. IsHistory(ms, n) /\ Len(ms) = l + 1 /\ \A i \in 1..l : ms[i] = p[i]
      BY <2>2, UserAdded
    <3> QED
      BY <1>1, <3>1
  <2> QED
    BY <2>1, <2>2
<1>7. PICK k \in Int : k = Len(ms) - 1 - c /\ k <= Len(ms) /\ k <= l
  <2>1. Len(ms) - 1 - c \in Int /\ Len(ms) - 1 - c <= Len(ms) /\ Len(ms) - 1 - c <= l
    BY <1>1, <1>6
  <2> QED
    BY <2>1
<1>8. q = SubSeq(ms, 1, k)
  BY <1>0, <1>7
<1>9. IsHistory(q, n) /\ Len(q) = (IF k >= 0 THEN k ELSE 0) /\ \A i \in 1..k : q[i] = ms[i]
  BY <1>6, <1>7, <1>8, CutOff
<1>10. a \notin 1..k
  <2>1. ASSUME a \in 1..k PROVE FALSE
    <3>1. a \in 1..Len(q) /\ q[a] = p[a]
      BY <1>6, <1>7, <1>9, <2>1
    <3>2. n \in Turns(q)
      BY <1>3, <1>9, <3>1, TurnsAre
    <3> QED
      BY <3>2
  <2> QED
    BY <2>1
<1>11. Len(ms) = l /\ a = k + 1
  BY <1>1, <1>5, <1>6, <1>7, <1>10
<1>12. ms = p
  BY <1>6, <1>11
<1>13. a # 1 /\ a # 2
  BY <1>3, FirstTwo
<1>14. k \in 1..l /\ k >= 2 /\ p[k + 1].role # "tool"
  BY <1>1, <1>3, <1>11, <1>13
<1>15. /\ Len(q) = k /\ \A i \in 1..k : q[i] = p[i]
  BY <1>9, <1>12, <1>14
<1>16. DOMAIN q = 1..k
  BY <1>9, <1>15, HistoryIs
<1>17. ASSUME NEW i \in 1..l, i > k, p[i].role = "assistant" \/ p[i].covers # {}
       PROVE  p[i].role = "assistant" /\ p[i].turn = n /\ p[i].covers = {}
  <2>1. CASE i = a
    BY <1>3, <2>1
  <2>2. CASE i # a
    <3>1. PICK d \in 1..c : i = a + d
      <4>1. i - a \in 1..c /\ i = a + (i - a)
        BY <1>1, <1>6, <1>7, <1>11, <1>12, <1>17, <2>2
      <4> QED
        BY <4>1
    <3>2. p[i] = Result(n, d) /\ d \in 0..MaxTurnCalls
      BY <1>4, <3>1, HistoryBounds
    <3> QED
      BY <1>17, <3>2, MessagesAre
  <2> QED
    BY <2>1, <2>2
<1>18. ASSUME s <= 1 PROVE Told(q, told \ {n})
  <2>1. ASSUME NEW t \in told \ {n}
        PROVE  \E i \in DOMAIN q : (q[i].role = "assistant" /\ q[i].turn = t) \/ t \in q[i].covers
    <3>1. PICK i \in 1..l : (p[i].role = "assistant" /\ p[i].turn = t) \/ t \in p[i].covers
      BY <1>1, <1>18, <2>1 DEF Kept, Told
    <3>2. ~(i > k)
      BY <1>17, <2>1, <3>1
    <3>3. i \in 1..k
      BY <1>1, <1>7, <3>2
    <3> QED
      BY <1>15, <1>16, <3>1, <3>3
  <2> QED
    BY <2>1 DEF Told
<1>19. Kept(q, k, told \ {n}, s)
  <2>1. q = SubSeq(p, 1, k)
    BY <1>8, <1>12
  <2>2. k = l \/ p[k + 1].role # "tool"
    BY <1>14
  <2> QED
    BY <1>14, <1>18, <2>1, <2>2, CutKept
<1> QED
  BY <1>14, <1>15, <1>19

\* A turn that is put off leaves the history complete.
LEMMA AskApprovalKept ==
  ASSUME ConversationTyped, RunKept, FilesKept, AskApproval, ~damaged'
  PROVE  FilesKept' /\ stage' = "idle"
<1>1. /\ stage = "judge" /\ PutOffCalls # {} /\ stage' = "idle" /\ UNCHANGED <<maint, summaries>>
  BY DEF AskApproval, RunIsOver
<1>2. PICK ms \in Warned :
        LET kept == SubSeq(ms, 1, Len(ms) - 1 - Len(calls))
            question == [turn |-> answers, calls |-> calls, asked |-> Max(PutOffCalls)]
        IN /\ Save(SessionData(kept, question, turn, FALSE, said \ {answers}))
           /\ damaged' = (damaged \/ answers \in Turns(kept))
  BY DEF AskApproval
<1>3. PICK c \in 0..MaxTurnCalls : c = Len(calls)
  BY TypedFacts, CallsAre
<1>4. PICK n \in 0..MaxAnswers : n = answers /\ n \in 1..n
  BY <1>1, TypedFacts DEF ConversationTyped, TurnsCounted
<1>5. PICK p : p = messages /\ IsHistory(p, n)
  BY <1>4, TypedFacts
<1>6. PICK kept : kept = SubSeq(ms, 1, Len(ms) - 1 - c)
  OBVIOUS
<1>7. PICK q : q = [turn |-> answers, calls |-> calls, asked |-> Max(PutOffCalls)]
  OBVIOUS
<1>8. PICK told \in SUBSET (1..answers) : told = said \ {n}
  BY TypedFacts
<1>9. PICK f : f = SessionData(kept, q, turn, FALSE, told)
  OBVIOUS
<1>10. Save(f) /\ n \notin Turns(kept)
  BY <1>2, <1>3, <1>4, <1>6, <1>7, <1>8, <1>9
<1>11. Len(kept) >= 2 /\ Kept(kept, Len(kept), told, summaries)
  <2>1. PICK l : l = Len(p) /\ l >= 2 /\ Kept(p, l, said, summaries)
    BY <1>1, <1>5 DEF RunKept
  <2>2. HasAnswer(p, n, c)
    BY <1>1, <1>3, <1>4, <1>5 DEF RunKept, HasAnswer
  <2>3. ms \in {p, Append(p, User)}
    BY <1>5, WarnedIs
  <2>4. WithoutTurn(kept, p, c)
    BY <1>6, <2>3 DEF WithoutTurn
  <2>5. Len(kept) >= 2 /\ Kept(kept, Len(kept), said \ {n}, summaries)
    BY <1>5, <1>10, <2>1, <2>2, <2>4, AskedKept
  <2> QED
    BY <1>8, <2>5
<1>12. IsHistory(kept, answers)
  <2>1. IsHistory(ms, answers) /\ Len(ms) \in Nat /\ c \in Nat
    BY WarnedIs, HistoryIs, HistoryBounds
  <2> QED
    BY <1>6, <2>1, CutOff
<1>13. Holds(f, kept, q, turn, told)
  BY <1>1, <1>4, <1>7, <1>9, <1>12, QuestionSession
<1>14. KeptFile(f, summaries)
  <2>1. q.turn = n
    BY <1>4, <1>7
  <2> QED
    BY <1>10, <1>11, <1>13, <2>1 DEF Holds, KeptFile
<1>15. summaries' = summaries /\ summaries' \in Nat /\ summaries <= summaries' /\ UNCHANGED maint
  BY <1>1, TypedFacts
<1>16. KeptFile(f, summaries')
  BY <1>14, <1>15
<1> QED
  BY <1>1, <1>10, <1>15, <1>16, FilesKeptSaved

\* The turn may get one more message from the user.
LEMMA JudgeTurnKept ==
  ASSUME ConversationTyped, RunKept, FilesKept, JudgeTurn
  PROVE  RunKept' /\ FilesKept'
<1>1. /\ stage = "judge" /\ stage' \in {"turnEnd", "end"}
      /\ UNCHANGED <<said, savedData, maint, answers, summaries>>
  BY DEF JudgeTurn, conversationHistory
<1>2. messages' \in {messages, Append(messages, User)}
  BY DEF JudgeTurn, Warned
<1>3. PICK p : p = messages /\ IsHistory(p, answers) /\ Len(p) >= 2 /\ Kept(p, Len(p), said, summaries)
  BY <1>1, TypedFacts DEF RunKept
<1>4. PICK r : r = Append(p, User)
  OBVIOUS
<1>5. Kept(r, Len(r), said, summaries) /\ Len(r) >= 2
  <2>1. Len(r) = Len(p) + 1 /\ Kept(r, Len(p) + 1, said, summaries) /\ Len(p) \in Nat
    BY <1>3, <1>4, UserAdded, HistoryIs
  <2> QED
    BY <1>3, <2>1
<1>6. PICK q : q = messages' /\ Len(q) >= 2 /\ Kept(q, Len(q), said, summaries)
  BY <1>2, <1>3, <1>4, <1>5
<1>7. RunKept'
  BY <1>1, <1>6 DEF RunKept
<1>8. FilesKept'
  BY <1>1, TypedFacts, FilesKeptLeft
<1> QED
  BY <1>7, <1>8

\* A summary takes the place of whole turns.
LEMMA CloseTurnKept ==
  ASSUME ConversationTyped, RunKept, FilesKept, CloseTurn, ~damaged'
  PROVE  RunKept' /\ FilesKept'
<1>1. /\ stage = "turnEnd" /\ stage' \in {"top", "end"}
      /\ UNCHANGED <<said, maint>>
  BY DEF CloseTurn
<1>2. PICK p : p = messages /\ IsHistory(p, answers) /\ Len(p) >= 2 /\ Kept(p, Len(p), said, summaries)
  BY <1>1, TypedFacts DEF RunKept
<1>3. CASE Summarize
  <2>1. /\ messages' = Compacted(p) /\ Save(SessionData(messages', Nil, turn, TRUE, said))
        /\ summaries' = (IF summaries < 2 THEN summaries + 1 ELSE 2)
    BY <1>2, <1>3 DEF Summarize
  <2>2. PICK q : q = Compacted(p)
    OBVIOUS
  <2>3. PICK s \in 0..2 : s = summaries
    BY TypedFacts
  <2>4. PICK r : r = IF s < 2 THEN s + 1 ELSE 2
    OBVIOUS
  <2>5. IsHistory(q, answers) /\ Len(q) >= 2 /\ Kept(q, Len(q), said, r)
    BY <1>2, <2>2, <2>3, <2>4, TypedFacts, CompactedIs
  <2>6. PICK f : f = SessionData(q, Nil, turn, TRUE, said)
    OBVIOUS
  <2>7. KeptFile(f, r)
    BY <2>5, <2>6, TypedFacts, RunSaved
  <2>8. summaries' = r /\ r \in Nat /\ s <= r
    BY <2>1, <2>3, <2>4
  <2>9. messages' = q /\ Save(f)
    BY <2>1, <2>2, <2>6
  <2>10. FilesKept'
    <3>1. summaries' \in Nat /\ summaries <= summaries' /\ KeptFile(f, summaries')
      BY <2>3, <2>7, <2>8
    <3> QED
      BY <1>1, <2>9, <3>1, FilesKeptSaved
  <2>11. RunKept'
    BY <1>1, <2>5, <2>8, <2>9 DEF RunKept
  <2> QED
    BY <2>10, <2>11
<1>4. CASE SummarizeFails \/ NothingToDo
  <2>1. UNCHANGED <<messages, savedData, summaries>>
    BY <1>4 DEF SummarizeFails, NothingToDo
  <2>2. RunKept'
    BY <1>1, <1>2, <2>1 DEF RunKept
  <2>3. FilesKept'
    BY <1>1, <2>1, TypedFacts, FilesKeptLeft
  <2> QED
    BY <2>2, <2>3
<1>5. CASE Truncate
  BY <1>5 DEF Truncate
<1> QED
  BY <1>3, <1>4, <1>5 DEF CloseTurn

\* Maintenance cuts between turns.
LEMMA MaintainKept ==
  ASSUME ConversationTyped, stage # "idle" => RunKept, FilesKept, Maintain, ~damaged'
  PROVE  (stage' # "idle" => RunKept') /\ FilesKept'
<1>1. /\ summaries' = summaries \/ summaries' = IF summaries < 2 THEN summaries + 1 ELSE 2
      /\ UNCHANGED <<stage, messages, said, pending, answers, calls>>
  BY DEF Maintain, LoadData, LockSession, GiveUp, FinishCompact, FinishRollback, FinishFork,
         run, work, conversationHistory
<1>2. PICK s \in 0..2, r \in 0..2 : s = summaries /\ r = summaries' /\ s <= r /\ s \in Nat /\ r \in Nat
  <2>1. summaries \in 0..2
    BY TypedFacts
  <2>2. summaries' \in 0..2 /\ summaries <= summaries'
    BY <1>1, <2>1
  <2> QED
    BY <2>1, <2>2
<1>3. stage' # "idle" => RunKept'
  BY <1>1, <1>2, RunKeptOn
<1>4. \A f : KeptFile(f, s) => KeptFile(f, r)
  BY <1>2, FileKeptOn
<1>5. FilesKept'
  <2>1. CASE LoadData
    <3>1. savedData # Nil /\ UNCHANGED savedData /\ \E tool \in Tools : maint' = [tool |-> tool, data |-> savedData, locked |-> FALSE]
      BY <2>1 DEF LoadData
    <3>2. maint'.data = savedData /\ savedData' = savedData
      BY <3>1
    <3>3. KeptFile(savedData, summaries')
      BY <1>2, <1>4, <3>1 DEF FilesKept
    <3> QED
      BY <3>2, <3>3 DEF FilesKept
  <2>2. CASE LockSession
    <3>1. maint # Nil /\ UNCHANGED savedData /\ maint' = [maint EXCEPT !.locked = TRUE]
      BY <2>2 DEF LockSession
    <3>2. maint \in [tool : Tools, data : FileRecord, locked : BOOLEAN]
      BY <3>1 DEF ConversationTyped, FilesTyped
    <3> HIDE DEF FileRecord
    <3>3. maint'.data = maint.data
      BY <3>1, <3>2
    <3>4. KeptFile(savedData, summaries') /\ KeptFile(maint.data, summaries')
      BY <1>2, <1>4, <3>1 DEF FilesKept
    <3> QED
      BY <3>1, <3>3, <3>4 DEF FilesKept
  <2>3. CASE GiveUp
    <3>1. maint # Nil /\ UNCHANGED savedData /\ maint' = Nil
      BY <2>3 DEF GiveUp
    <3>2. KeptFile(savedData, summaries')
      BY <1>2, <1>4, <3>1 DEF FilesKept
    <3> QED
      BY <3>1, <3>2 DEF FilesKept
  <2>4. CASE FinishCompact
    <3>1. /\ maint # Nil /\ maint' = Nil /\ maint.data = savedData
          /\ savedData' = [CompactedFile(maint.data) EXCEPT !.said = savedData.said]
          /\ summaries' = (IF summaries < 2 THEN summaries + 1 ELSE 2)
      BY <2>4 DEF FinishCompact, Stale
    <3>2. PICK f, g : f = maint.data /\ g = savedData'
      OBVIOUS
    <3>3. IsSession(f, answers) /\ KeptFile(f, s)
      BY <1>2, <3>1, <3>2 DEF ConversationTyped, FilesTyped, FilesKept
    <3>4. f.said \in SUBSET (1..answers)
      BY <3>3, TypedFacts, SessionIs
    <3>5. PICK told \in SUBSET (1..answers) : told = f.said
      BY <3>4
    <3>6. g = [CompactedFile(f) EXCEPT !.said = told]
      BY <3>1, <3>2, <3>5
    <3>7. KeptFile(g, IF s < 2 THEN s + 1 ELSE 2)
      BY <3>3, <3>5, <3>6, TypedFacts, CompactedFileIs
    <3>8. KeptFile(savedData', summaries')
      BY <1>2, <3>1, <3>2, <3>7
    <3> QED
      BY <3>1, <3>8 DEF FilesKept
  <2>5. CASE FinishRollback
    <3>1. PICK t \in 0..maint.data.turnCount - 1 : savedData' = RolledBack(maint.data, t)
      BY <2>5 DEF FinishRollback
    <3>2. maint # Nil /\ maint' = Nil /\ maint.tool = "rollback"
      BY <2>5 DEF FinishRollback
    <3>3. PICK f, g : f = maint.data /\ g = savedData'
      OBVIOUS
    <3>4. IsSession(f, answers) /\ f.turnCount > 0 /\ KeptFile(f, r)
      BY <1>2, <1>4, <3>2, <3>3 DEF ConversationTyped, FilesTyped, FilesKept
    <3>5. t \in Nat /\ t <= f.turnCount
      BY <3>3, <3>4, TypedFacts, SessionIs, HistoryBounds
    <3>6. KeptFile(g, r)
      BY <3>1, <3>3, <3>4, <3>5, TypedFacts, RolledBackIs
    <3> QED
      BY <1>2, <3>2, <3>3, <3>6 DEF FilesKept
  <2>6. CASE FinishFork
    <3>1. PICK t \in 0..maint.data.turnCount : savedData' = Forked(maint.data, t)
      BY <2>6 DEF FinishFork
    <3>2. maint # Nil /\ maint' = Nil /\ savedData'.messages # <<>>
      BY <2>6 DEF FinishFork
    <3>3. PICK f, g : f = maint.data /\ g = savedData'
      OBVIOUS
    <3>4. IsSession(f, answers) /\ KeptFile(f, r)
      BY <1>2, <1>4, <3>2, <3>3 DEF ConversationTyped, FilesTyped, FilesKept
    <3>5. t \in Nat /\ t <= f.turnCount
      BY <3>3, <3>4, TypedFacts, SessionIs, HistoryBounds
    <3>6. KeptFile(g, r)
      BY <3>1, <3>2, <3>3, <3>4, <3>5, TypedFacts, ForkedIs
    <3> QED
      BY <1>2, <3>2, <3>3, <3>6 DEF FilesKept
  <2> QED
    BY <2>1, <2>2, <2>3, <2>4, <2>5, <2>6 DEF Maintain
<1> QED
  BY <1>3, <1>5

\* All steps of the runs and of the maintenance.
LEMMA ConversationStep ==
  ASSUME ConversationInv, [ConversationNext]_conversationVars
  PROVE  ConversationInv'
<1>1. ConversationTyped /\ ConversationTyped'
  BY ConversationTypedStep DEF ConversationInv
<1>2. ASSUME ~damaged' PROVE (stage' # "idle" => RunKept') /\ FilesKept'
  <2>1. ~damaged
    BY <1>2, TypedFacts, <1>1
       DEF ConversationNext, LoadRun, ResolveApproval, ResolveThrows, ModelAnswers, RunThrows, RunTools,
           AskApproval, JudgeTurn, CloseTurn, Summarize, SummarizeFails, Truncate, NothingToDo, FinishRun,
           DropRun, Maintain, LoadData, LockSession, GiveUp, FinishCompact, FinishRollback, FinishFork,
           Stopped, conversationVars, run, work, conversationHistory
  <2>2. (stage # "idle" => RunKept) /\ FilesKept
    BY <2>1 DEF ConversationInv
  <2>3. CASE LoadRun
    BY <1>1, <2>2, <2>3, LoadRunKept
  <2>4. CASE ResolveApproval
    <3>1. stage # "idle"
      BY <2>4 DEF ResolveApproval
    <3> QED
      BY <1>1, <2>2, <2>4, <3>1, ResolveKept
  <2>5. CASE ResolveThrows
    BY <1>2, <2>5 DEF ResolveThrows
  <2>6. CASE ModelAnswers
    <3>1. stage # "idle"
      BY <2>6 DEF ModelAnswers
    <3> QED
      BY <1>1, <2>2, <2>6, <3>1, ModelAnswersKept
  <2>7. CASE RunThrows \/ FinishRun \/ DropRun
    <3>1. stage # "idle"
      BY <2>7 DEF RunThrows, FinishRun, DropRun
    <3> QED
      BY <1>1, <1>2, <2>2, <2>7, <3>1, RunEndsKept
  <2>8. CASE RunTools
    <3>1. stage # "idle"
      BY <2>8 DEF RunTools
    <3> QED
      BY <1>1, <2>2, <2>8, <3>1, RunToolsKept
  <2>9. CASE AskApproval
    <3>1. stage # "idle"
      BY <2>9 DEF AskApproval
    <3> QED
      BY <1>1, <1>2, <2>2, <2>9, <3>1, AskApprovalKept
  <2>10. CASE JudgeTurn
    <3>1. stage # "idle"
      BY <2>10 DEF JudgeTurn
    <3> QED
      BY <1>1, <2>2, <2>10, <3>1, JudgeTurnKept
  <2>11. CASE CloseTurn
    <3>1. stage # "idle"
      BY <2>11 DEF CloseTurn
    <3> QED
      BY <1>1, <1>2, <2>2, <2>11, <3>1, CloseTurnKept
  <2>12. CASE Maintain
    BY <1>1, <1>2, <2>2, <2>12, MaintainKept
  <2>13. CASE UNCHANGED conversationVars
    <3>1. UNCHANGED <<stage, messages, said, pending, answers, calls, savedData, maint, summaries>>
      BY <2>13 DEF conversationVars, run, work, conversationHistory
    <3>2. summaries' \in Nat /\ summaries <= summaries'
      BY <1>1, <3>1, TypedFacts
    <3> QED
      BY <1>1, <2>2, <3>1, <3>2, RunKeptOn, FilesKeptLeft
  <2> QED
    BY <2>3, <2>4, <2>5, <2>6, <2>7, <2>8, <2>9, <2>10, <2>11, <2>12, <2>13 DEF ConversationNext, Stopped
<1> QED
  BY <1>1, <1>2 DEF ConversationInv

\* There is no session at first.
LEMMA ConversationInitInv == ConversationInit => ConversationInv
<1> SUFFICES ASSUME ConversationInit PROVE ConversationInv
  OBVIOUS
<1> USE DEF ConversationInit
<1>1. IsHistory(<<>>, answers)
  BY DEF IsHistory
<1>2. <<>> \in Answers /\ -Cooldown - 1 \in -Cooldown - 1..MaxAnswers /\ 0 \in 0..MaxRuns /\ 0 \in 0..MaxAnswers
  BY NoCalls, HistoryBounds
<1>3. RunTyped
  <2>1. stage \in Phases /\ approvalMode \in Modes \cup {"open"} /\ decision \in {"none", "approve", "deny"}
    BY DEF Phases
  <2> HIDE DEF Answers, Phases
  <2> QED
    BY <1>1, <1>2, <2>1 DEF RunTyped
<1>4. FilesTyped /\ FilesKept
  BY DEF FilesTyped, FilesKept
<1>5. CountsTyped
  <2>1. runs = 0 /\ answers = 0 /\ ignored = FALSE /\ summaries = 0 /\ damaged = FALSE
    OBVIOUS
  <2>2. ignored \in BOOLEAN /\ damaged \in BOOLEAN
    BY <2>1, Zenon
  <2>3. summaries \in 0..2
    BY <2>1
  <2> HIDE DEF ConversationInit
  <2> QED
    BY <1>2, <2>1, <2>2, <2>3 DEF CountsTyped
<1>6. TurnsCounted
  BY HistoryBounds DEF TurnsCounted
<1> QED
  BY <1>3, <1>4, <1>5, <1>6 DEF ConversationInv, ConversationTyped

\* What is kept is ordered and remembered.
LEMMA KeptIsOrdered ==
  ASSUME NEW n, NEW ms, IsHistory(ms, n), NEW told, NEW s, Kept(ms, Len(ms), told, s)
  PROVE  Ordered(ms) /\ (s <= 1 => told \subseteq Remembered(ms))
<1>1. OrderedTo(ms, Len(ms)) /\ (s <= 1 => Told(ms, told))
  BY DEF Kept
<1>2. PICK l : l = Len(ms) /\ l \in Nat /\ DOMAIN ms = 1..l
  BY HistoryIs
<1>3. \A i \in 1..l : ms[i].index \in Nat
  BY <1>2, HistoryIs
<1>4. OrderedTo(ms, l)
  BY <1>1, <1>2
<1>5. ASSUME NEW i \in Indices(ms, "assistant"), NEW c \in 1..ms[i].index
      PROVE  i + c \in DOMAIN ms /\ ms[i + c] = Result(ms[i].turn, c)
  <2>1. i \in 1..l /\ ms[i].role = "assistant"
    BY <1>2, <1>5 DEF Indices
  <2>2. i + c <= l /\ ms[i + c] = Result(ms[i].turn, c)
    BY <1>4, <1>5, <2>1 DEF OrderedTo
  <2>3. c \in Nat
    BY <1>3, <2>1
  <2> QED
    BY <1>2, <2>1, <2>2, <2>3
<1>6. ASSUME NEW i \in Indices(ms, "tool")
      PROVE  LET a == i - ms[i].index
             IN a > 0 /\ ms[a].role = "assistant" /\ ms[a].turn = ms[i].turn
  <2>1. i \in 1..l /\ ms[i].role = "tool"
    BY <1>2, <1>6 DEF Indices
  <2>2. /\ i - ms[i].index >= 1
        /\ ms[i - ms[i].index].role = "assistant" /\ ms[i - ms[i].index].turn = ms[i].turn
    BY <1>4, <2>1 DEF OrderedTo
  <2>3. ms[i].index \in Nat
    BY <1>3, <2>1
  <2> QED
    BY <1>2, <2>1, <2>2, <2>3
<1>7. \A i, j \in Indices(ms, "assistant") : ms[i].turn = ms[j].turn => i = j
  BY <1>2, <1>4 DEF OrderedTo, Indices
<1>8. \A i \in DOMAIN ms : ms[i].role = "system" <=> i = 1
  BY <1>2, <1>4 DEF OrderedTo
<1>9. Ordered(ms)
  BY <1>5, <1>6, <1>7, <1>8 DEF Ordered
<1> QED
  BY <1>1, <1>9, ToldIsRemembered

\* What a file needs to be one.
LEMMA SessionIsFile ==
  ASSUME NEW f, NEW n \in 0..MaxAnswers, IsSession(f, n), n = answers
  PROVE  IsFile(f)
<1>1. /\ IsHistory(f.messages, n) /\ f.said \in SUBSET (1..n)
      /\ f.turnCount \in 0..MaxAnswers /\ f.summarized \in BOOLEAN
      /\ f.pending # Nil => IsQuestion(f.pending, n)
  BY SessionIs
<1>2. Range(f.messages) \subseteq Messages
  <2>1. f.messages \in Seq(Messages)
    BY <1>1, HistoryIs
  <2> HIDE DEF Messages
  <2> QED
    BY <2>1 DEF Range
<1>3. IsPending(f.pending)
  BY <1>1 DEF IsPending, IsQuestion
<1> QED
  BY <1>1, <1>2, <1>3 DEF IsFile

\* The invariant is stronger than the types and the properties.
LEMMA ConversationImplies ==
  ConversationInv => ConversationTypeOK /\ HistoryOrdered /\ TurnsRemembered
<1> SUFFICES ASSUME ConversationInv PROVE ConversationTypeOK /\ HistoryOrdered /\ TurnsRemembered
  OBVIOUS
<1>1. ConversationTyped
  BY DEF ConversationInv
<1>2. ConversationTypeOK
  <2>1. Range(messages) \subseteq Messages
    <3>1. messages \in Seq(Messages)
      BY <1>1, TypedFacts, HistoryIs
    <3> HIDE DEF Messages
    <3> QED
      BY <3>1 DEF Range
  <2>2. IsPending(pending)
    BY <1>1 DEF ConversationTyped, RunTyped, IsPending, IsQuestion
  <2>3. IsFile(savedData)
    <3>1. CASE savedData = Nil
      BY <3>1 DEF IsFile
    <3>2. CASE savedData # Nil
      BY <1>1, <3>2, TypedFacts, SessionIsFile DEF ConversationTyped, FilesTyped
    <3> QED
      BY <3>1, <3>2
  <2>4. maint # Nil => IsFile(maint.data) /\ maint.tool \in Tools /\ maint.locked \in BOOLEAN
    <3>1. ASSUME maint # Nil PROVE IsFile(maint.data) /\ maint.tool \in Tools /\ maint.locked \in BOOLEAN
      <4>1. IsSession(maint.data, answers) /\ maint \in [tool : Tools, data : FileRecord, locked : BOOLEAN]
        BY <1>1, <3>1 DEF ConversationTyped, FilesTyped
      <4>2. IsFile(maint.data)
        BY <1>1, <4>1, TypedFacts, SessionIsFile
      <4> HIDE DEF FileRecord
      <4> QED
        BY <4>1, <4>2
    <3> QED
      BY <3>1
  <2>5. said \subseteq 1..answers
    BY <1>1, TypedFacts
  <2> HIDE DEF Answers, Phases, Messages
  <2> QED
    BY <1>1, <2>1, <2>2, <2>3, <2>4, <2>5, TypedFacts DEF ConversationTypeOK
<1>3. ASSUME ~damaged, stage \in {"top", "end"}
      PROVE  Ordered(messages) /\ (summaries <= 1 => said \subseteq Remembered(messages))
  <2>1. Kept(messages, Len(messages), said, summaries)
    BY <1>3 DEF ConversationInv, RunKept
  <2> QED
    BY <1>1, <2>1, TypedFacts, KeptIsOrdered
<1>4. ASSUME ~damaged, savedData # Nil
      PROVE  /\ Ordered(savedData.messages)
             /\ summaries <= 1 => savedData.said \subseteq Remembered(savedData.messages)
  <2>1. Kept(savedData.messages, Len(savedData.messages), savedData.said, summaries)
    BY <1>4 DEF ConversationInv, FilesKept, KeptFile
  <2>2. IsHistory(savedData.messages, answers)
    BY <1>1, <1>4, TypedFacts, SessionIs DEF ConversationTyped, FilesTyped
  <2> QED
    BY <2>1, <2>2, KeptIsOrdered
<1>5. HistoryOrdered
  BY <1>3, <1>4 DEF HistoryOrdered
<1>6. TurnsRemembered
  BY <1>3, <1>4 DEF TurnsRemembered
<1> QED
  BY <1>2, <1>5, <1>6

-----------------------------------------------------------------------------
(***************************************************************************)
(* The model of a turn (Router).                                           *)
(***************************************************************************)

\* A rule for turns.
Rule == [model : RoutedModels, once : BOOLEAN, afterTurn : Nat, costAbove : Int]
\* A turn that was asked.
AskedTurn == [rule : Nat, model : RoutedModels, verdict : RoutedModels \cup {NoModel},
              priced : RoutedModels, spent : Nat]
\* A request for the metadata of an answer.
Due == [before : Nat, turn : Nat]

\* A rule that has matched is used up, or was within its limits and is past its turn.
WasMatched(i, used, number, cost) ==
  IF TurnRules[i].once THEN i \in used
  ELSE number >= TurnRules[i].afterTurn /\ cost > TurnRules[i].costAbove

\* No turn saw a total above this one.
NoneSaw(turns, total) == \A s \in DOMAIN turns : turns[s].spent <= total

\* The inductive invariant: a rule that matched once is used up, or matches again while
\* the total is above its limit; as long as no metadata came late, the total only grows,
\* and what is still due for the last turn cannot bring it below what a turn has seen.
RouterInv ==
  /\ RouterTypeOK
  /\ routing.at \in {"setup", "rules", "route", "ask"} => routing.turn < MaxRouted
  /\ routing.at = "setup" => asked = <<>>
  /\ routing.at \in {"route", "ask"} => asked # <<>>
  /\ \A s \in DOMAIN asked : asked[s].rule # 0 =>
       /\ asked[s].rule \in DOMAIN TurnRules
       /\ WasMatched(asked[s].rule, fired, routing.turn, asked[s].spent)
  /\ late \/ NoneSaw(asked, billed)
  /\ late \/ \A m \in metaDue : m.turn <= Len(asked) /\ (m.turn = Len(asked) => NoneSaw(asked, m.before))
  /\ RulesStick

\* The rules are what they should be.
LEMMA RulesAre ==
  /\ DOMAIN TurnRules \subseteq Nat \ {0}
  /\ \A i \in DOMAIN TurnRules : /\ TurnRules[i] \in Rule /\ TurnRules[i].once \in BOOLEAN
                                 /\ TurnRules[i].model \in RoutedModels
                                 /\ TurnRules[i].afterTurn \in Nat /\ TurnRules[i].costAbove \in Int
<1>1. TurnRules \in Seq(Rule)
  BY RouterAssumption DEF Rule
<1>2. \A i \in DOMAIN TurnRules : TurnRules[i] \in Rule
  BY <1>1
<1>3. DOMAIN TurnRules = 1..Len(TurnRules) /\ Len(TurnRules) \in Nat
  BY <1>1
<1> QED
  BY <1>2, <1>3 DEF Rule

\* The first rule that matches is the first one.
LEMMA FirstMatchIs ==
  \/ FirstMatch = 0 /\ \A i \in DOMAIN TurnRules : ~Matches(i)
  \/ /\ FirstMatch \in DOMAIN TurnRules /\ Matches(FirstMatch)
     /\ \A i \in DOMAIN TurnRules : Matches(i) => FirstMatch <= i
<1> DEFINE hits == {i \in DOMAIN TurnRules : Matches(i)}
<1>1. FirstMatch = IF hits = {} THEN 0 ELSE CHOOSE i \in hits : \A j \in hits : i <= j
  BY DEF FirstMatch
<1>2. hits \subseteq Nat
  BY RulesAre
<1>3. \A i \in DOMAIN TurnRules : i \in hits <=> Matches(i)
  OBVIOUS
<1>4. hits \subseteq DOMAIN TurnRules
  OBVIOUS
<1> HIDE DEF hits
<1>5. CASE hits = {}
  BY <1>1, <1>3, <1>5
<1>6. CASE hits # {}
  <2>1. \E i \in hits : \A j \in hits : i <= j
    BY <1>2, <1>6, LeastNumber
  <2>2. FirstMatch \in hits /\ \A j \in hits : FirstMatch <= j
    BY <1>1, <1>6, <2>1
  <2> QED
    BY <1>3, <1>4, <2>2
<1> QED
  BY <1>5, <1>6

\* What the turns saw of the total, and what is due, are numbers.
LEMMA SeenIs ==
  ASSUME RouterTypeOK
  PROVE  /\ \A s \in DOMAIN asked : asked[s] \in AskedTurn /\ asked[s].spent \in Nat
         /\ \A m \in metaDue : m.turn \in Nat /\ m.before \in Nat
<1>1. asked \in Seq(AskedTurn)
  BY DEF RouterTypeOK, AskedTurn
<1>2. \A s \in DOMAIN asked : asked[s] \in AskedTurn
  BY <1>1
<1>3. \A m \in metaDue : m \in [before : Nat, turn : Nat]
  BY DEF RouterTypeOK
<1> QED
  BY <1>2, <1>3 DEF AskedTurn

\* No turn was asked at first.
LEMMA RouterInitInv == RouterInit => RouterInv
<1> SUFFICES ASSUME RouterInit PROVE RouterInv
  OBVIOUS
<1>1. DOMAIN asked = {} /\ asked \in Seq(AskedTurn)
  BY DEF RouterInit
<1>3. metaDue \subseteq [before : Nat, turn : Nat] /\ late \in BOOLEAN
  BY DEF RouterInit
<1>2. RouterTypeOK
  BY <1>1, <1>3, RouterAssumption DEF RouterInit, RouterTypeOK, RoutedModels, AskedTurn
<1> QED
  BY <1>1, <1>2, RouterAssumption DEF RouterInit, RouterInv, RulesStick, NoneSaw

\* A turn begins with the first rule that matches.
LEMMA TurnStep ==
  ASSUME RouterInv, NEW callback \in {NoModel, RuleModel}, BeginTurn(callback)
  PROVE  RouterInv'
<1> DEFINE rule == FirstMatch
           overriding == IF callback # NoModel THEN callback
                         ELSE IF rule = 0 THEN NoModel ELSE TurnRules[rule].model
           new == [rule |-> rule, model |-> OrBase(overriding), verdict |-> NoModel,
                   priced |-> OrBase(overriding), spent |-> billed]
           n == Len(asked)
<1>1. /\ asked \in Seq(AskedTurn) /\ routing \in [at : {"setup", "rules", "route", "ask", "done"}, turn : 0..MaxRouted]
      /\ fired \subseteq DOMAIN TurnRules /\ n \in Nat /\ DOMAIN asked = 1..n
      /\ billed \in Nat /\ metaDue \subseteq Due /\ late \in BOOLEAN
  BY DEF RouterInv, RouterTypeOK, AskedTurn, Due
<1>s. \A s \in DOMAIN asked : asked[s].spent \in Nat
  BY SeenIs DEF RouterInv
<1>2. /\ fired' = IF rule # 0 /\ TurnRules[rule].once THEN fired \cup {rule} ELSE fired
      /\ override' = overriding /\ asking' = OrBase(overriding) /\ asked' = Append(asked, new)
      /\ routing.at = "rules" /\ routing' = [routing EXCEPT !.at = "route"]
      /\ UNCHANGED <<setup, verdict, billed, metaDue, late>>
  BY DEF BeginTurn, RouterAt, RouterTo, costs
<1>3. /\ rule \in Nat /\ (rule # 0 => rule \in DOMAIN TurnRules /\ Matches(rule))
      /\ \A i \in DOMAIN TurnRules : Matches(i) => rule # 0 /\ rule <= i
  BY FirstMatchIs, RulesAre
<1>4. overriding \in RoutedModels \cup {NoModel} /\ OrBase(overriding) \in RoutedModels
  BY <1>3, RulesAre DEF RoutedModels, OrBase
<1>5. new \in AskedTurn /\ new.rule = rule /\ new.spent = billed
  BY <1>1, <1>3, <1>4 DEF AskedTurn
<1> HIDE DEF new, overriding, rule
<1>6. /\ asked' \in Seq(AskedTurn) /\ asked'[n + 1] = new /\ DOMAIN asked' = 1..n + 1 /\ asked' # <<>>
      /\ Len(asked') = n + 1
      /\ \A s \in 1..n : asked'[s] = asked[s]
  BY <1>1, <1>2, <1>5
<1>7. /\ routing' \in [at : {"setup", "rules", "route", "ask", "done"}, turn : 0..MaxRouted]
      /\ routing'.at = "route" /\ routing'.turn = routing.turn
  BY <1>1, <1>2
<1>8. fired' \subseteq DOMAIN TurnRules /\ fired \subseteq fired' /\ (rule # 0 /\ TurnRules[rule].once => rule \in fired')
  BY <1>1, <1>2, <1>3
<1>9. RouterTypeOK'
  BY <1>1, <1>2, <1>4, <1>6, <1>7, <1>8 DEF RouterInv, RouterTypeOK, AskedTurn, Due
<1>10. ASSUME NEW s \in DOMAIN asked', asked'[s].rule # 0
       PROVE  /\ asked'[s].rule \in DOMAIN TurnRules
              /\ WasMatched(asked'[s].rule, fired', routing'.turn, asked'[s].spent)
  <2>1. CASE s = n + 1
    <3>1. asked'[s].rule = rule /\ asked'[s].spent = billed /\ rule \in DOMAIN TurnRules /\ Matches(rule)
      BY <1>3, <1>5, <1>6, <1>10, <2>1
    <3>2. WasMatched(rule, fired', routing'.turn, billed)
      BY <1>7, <1>8, <3>1, RulesAre DEF WasMatched, Matches
    <3> QED
      BY <3>1, <3>2
  <2>2. CASE s # n + 1
    <3>1. s \in DOMAIN asked /\ asked'[s] = asked[s]
      BY <1>1, <1>6, <2>2
    <3>2. asked[s].rule \in DOMAIN TurnRules /\ WasMatched(asked[s].rule, fired, routing.turn, asked[s].spent)
      BY <1>10, <3>1 DEF RouterInv
    <3>3. WasMatched(asked[s].rule, fired', routing'.turn, asked[s].spent)
      BY <1>7, <1>8, <3>2 DEF WasMatched
    <3> QED
      BY <3>1, <3>2, <3>3
  <2> QED
    BY <2>1, <2>2
<1>11. ASSUME NEW s \in DOMAIN asked, asked[s].rule # 0
       PROVE  IF TurnRules[asked[s].rule].once THEN rule # asked[s].rule
              ELSE rule \in 1..asked[s].rule \/ (late /\ billed <= TurnRules[asked[s].rule].costAbove)
  <2> DEFINE i == asked[s].rule
             paid == asked[s].spent
  <2>1. i \in DOMAIN TurnRules /\ WasMatched(i, fired, routing.turn, paid) /\ TurnRules[i].once \in BOOLEAN
    BY <1>11, RulesAre DEF RouterInv
  <2>2. paid \in Nat /\ (late \/ paid <= billed)
    BY <1>s, <1>11 DEF RouterInv, NoneSaw
  <2> HIDE DEF i, paid
  <2>3. ASSUME TurnRules[i].once PROVE rule # i
    <3>1. ~Matches(i)
      BY <2>1, <2>3 DEF WasMatched, Matches
    <3> QED
      BY <1>3, <2>1, <3>1, RulesAre
  <2>4. ASSUME ~TurnRules[i].once PROVE rule \in 1..i \/ (late /\ billed <= TurnRules[i].costAbove)
    <3>1. TurnRules[i].costAbove \in Int /\ paid > TurnRules[i].costAbove
      BY <2>1, <2>4, RulesAre DEF WasMatched
    <3>2. CASE billed > TurnRules[i].costAbove
      <4>1. Matches(i)
        BY <2>1, <2>4, <3>2 DEF WasMatched, Matches
      <4> QED
        BY <1>3, <2>1, <4>1, RulesAre
    <3>3. CASE ~(billed > TurnRules[i].costAbove)
      BY <1>1, <2>2, <3>1, <3>3
    <3> QED
      BY <3>2, <3>3
  <2>5. IF TurnRules[i].once THEN rule # i ELSE rule \in 1..i \/ (late /\ billed <= TurnRules[i].costAbove)
    BY <2>3, <2>4
  <2> QED
    BY <2>5 DEF i
<1>12. RulesStick'
  <2> SUFFICES ASSUME NEW s \in DOMAIN asked', NEW t \in DOMAIN asked', s < t, asked'[s].rule # 0
               PROVE  IF TurnRules[asked'[s].rule].once THEN asked'[t].rule # asked'[s].rule
                      ELSE \/ asked'[t].rule \in 1..asked'[s].rule
                           \/ late' /\ asked'[t].spent <= TurnRules[asked'[s].rule].costAbove
    BY DEF RulesStick
  <2>1. s \in DOMAIN asked /\ asked'[s] = asked[s]
    BY <1>1, <1>6
  <2>2. CASE t = n + 1
    BY <1>2, <1>5, <1>6, <1>11, <2>1, <2>2
  <2>3. CASE t # n + 1
    <3>1. t \in DOMAIN asked /\ asked'[t] = asked[t]
      BY <1>1, <1>6, <2>3
    <3> QED
      BY <1>2, <2>1, <3>1 DEF RouterInv, RulesStick
  <2> QED
    BY <2>2, <2>3
<1>13. routing'.turn < MaxRouted
  BY <1>2, <1>7 DEF RouterInv
<1>14. late' \/ NoneSaw(asked', billed')
  <2> SUFFICES ASSUME ~late, NEW s \in DOMAIN asked' PROVE asked'[s].spent <= billed
    BY <1>2 DEF NoneSaw
  <2>1. CASE s = n + 1
    BY <1>1, <1>5, <1>6, <2>1
  <2>2. CASE s # n + 1
    BY <1>1, <1>6, <2>2 DEF RouterInv, NoneSaw
  <2> QED
    BY <2>1, <2>2
<1>15. late' \/ \A m \in metaDue' : m.turn < Len(asked')
  <2> SUFFICES ASSUME ~late, NEW m \in metaDue PROVE m.turn < n + 1
    BY <1>2, <1>6
  <2>1. m.turn \in Nat /\ m.turn <= n
    BY <1>1 DEF RouterInv, Due
  <2> QED
    BY <1>1, <2>1
<1>16. \A m \in metaDue' : m.turn \in Nat
  BY <1>1, <1>2 DEF Due
<1>17. late' \/ \A m \in metaDue' : m.turn <= Len(asked') /\ (m.turn = Len(asked') => NoneSaw(asked', m.before))
  BY <1>1, <1>6, <1>15, <1>16
<1> QED
  BY <1>6, <1>7, <1>9, <1>10, <1>12, <1>13, <1>14, <1>17 DEF RouterInv

\* The answer is priced, and the next turn begins.
LEMMA AnswerStep ==
  ASSUME RouterInv, NEW lastTurn \in BOOLEAN, NEW identified \in BOOLEAN,
         AskModel(lastTurn, identified)
  PROVE  RouterInv'
<1> DEFINE n == Len(asked)
           priced == OrBase(override)
           new == [asked[n] EXCEPT !.model = asking, !.verdict = verdict, !.priced = priced]
<1>1. /\ asked \in Seq(AskedTurn) /\ routing \in [at : {"setup", "rules", "route", "ask", "done"}, turn : 0..MaxRouted]
      /\ n \in Nat \ {0} /\ DOMAIN asked = 1..n /\ routing.at = "ask" /\ routing.turn < MaxRouted
      /\ MaxRouted \in Nat /\ billed \in Nat /\ metaDue \subseteq Due /\ late \in BOOLEAN
  BY RouterAssumption DEF RouterInv, RouterTypeOK, AskedTurn, AskModel, RouterAt, Due
<1>s. \A s \in DOMAIN asked : asked[s].spent \in Nat
  BY SeenIs DEF RouterInv
<1>2. priced \in RoutedModels /\ PriceOf[priced] \in Nat
  BY RouterAssumption DEF RouterInv, RouterTypeOK, OrBase, RoutedModels
<1>3. asked[n] \in AskedTurn
  BY <1>1
<1>4. new \in AskedTurn /\ new.rule = asked[n].rule /\ new.spent = asked[n].spent
  BY <1>2, <1>3 DEF AskedTurn, RouterInv, RouterTypeOK
<1>5. /\ asked' = [asked EXCEPT ![n] = new] /\ billed' = billed + PriceOf[priced]
      /\ routing' = IF lastTurn \/ routing.turn + 1 = MaxRouted THEN [routing EXCEPT !.at = "done"]
                    ELSE [at |-> "rules", turn |-> routing.turn + 1]
      /\ metaDue' = metaDue \cup (IF identified THEN {[before |-> billed, turn |-> n]} ELSE {})
      /\ UNCHANGED <<setup, override, asking, verdict, fired, late>>
  BY DEF AskModel
<1> HIDE DEF new, priced
<1>6. asked' \in Seq(AskedTurn) /\ DOMAIN asked' = DOMAIN asked /\ Len(asked') = n
  BY <1>1, <1>4, <1>5
<1>7. \A s \in DOMAIN asked : asked'[s].rule = asked[s].rule /\ asked'[s].spent = asked[s].spent
  BY <1>1, <1>4, <1>5
<1>8. /\ routing' \in [at : {"setup", "rules", "route", "ask", "done"}, turn : 0..MaxRouted]
      /\ routing'.turn >= routing.turn /\ routing'.at \in {"rules", "done"}
      /\ routing'.at = "rules" => routing'.turn < MaxRouted
  <2>1. routing.turn \in Nat
    BY <1>1
  <2>2. CASE lastTurn \/ routing.turn + 1 = MaxRouted
    BY <1>1, <1>5, <2>1, <2>2
  <2>3. CASE ~(lastTurn \/ routing.turn + 1 = MaxRouted)
    BY <1>1, <1>5, <2>1, <2>3
  <2> QED
    BY <2>2, <2>3
<1>9. billed' \in Nat /\ billed' >= billed
  BY <1>1, <1>2, <1>5
<1>10. metaDue' \subseteq Due /\ \A m \in metaDue' : m \in metaDue \/ (m.before = billed /\ m.turn = n)
  <2>1. [before |-> billed, turn |-> n] \in Due
    BY <1>1 DEF Due
  <2>2. ASSUME NEW m \in metaDue' PROVE m \in Due /\ (m \in metaDue \/ (m.before = billed /\ m.turn = n))
    <3>1. m \in metaDue \/ m = [before |-> billed, turn |-> n]
      BY <1>5
    <3> QED
      BY <1>1, <2>1, <3>1
  <2> QED
    BY <2>2
<1>11. RouterTypeOK'
  BY <1>1, <1>5, <1>6, <1>8, <1>9, <1>10 DEF RouterInv, RouterTypeOK, AskedTurn, Due
<1>12. ASSUME NEW i \in DOMAIN TurnRules, NEW paid, WasMatched(i, fired, routing.turn, paid)
       PROVE  WasMatched(i, fired', routing'.turn, paid)
  <2>1. routing.turn \in Nat /\ routing'.turn \in Nat
    BY <1>1, <1>8
  <2> QED
    BY <1>5, <1>8, <1>12, <2>1, RulesAre DEF WasMatched
<1>13. RulesStick'
  BY <1>5, <1>6, <1>7 DEF RouterInv, RulesStick
<1>14. late \/ (NoneSaw(asked, billed) /\ NoneSaw(asked', billed))
  <2>1. late \/ NoneSaw(asked, billed)
    BY DEF RouterInv
  <2>2. NoneSaw(asked, billed) => NoneSaw(asked', billed)
    BY <1>6, <1>7 DEF NoneSaw
  <2> QED
    BY <2>1, <2>2
<1>15. late' \/ NoneSaw(asked', billed')
  <2> SUFFICES ASSUME ~late, NEW s \in DOMAIN asked' PROVE asked'[s].spent <= billed'
    BY <1>5 DEF NoneSaw
  <2>1. asked'[s].spent <= billed /\ asked'[s].spent \in Nat
    BY <1>s, <1>6, <1>7, <1>14 DEF NoneSaw
  <2> QED
    BY <1>1, <1>9, <2>1
<1>16. ASSUME ~late, NEW m \in metaDue'
       PROVE  m.turn <= n /\ (m.turn = n => NoneSaw(asked', m.before))
  <2>1. CASE m \in metaDue
    <3>1. m.turn <= n /\ (m.turn = n => NoneSaw(asked, m.before))
      BY <1>16, <2>1 DEF RouterInv
    <3> QED
      BY <1>6, <1>7, <3>1 DEF NoneSaw
  <2>2. CASE m \notin metaDue
    BY <1>1, <1>10, <1>14, <1>16, <2>2
  <2> QED
    BY <2>1, <2>2
<1>17. late' \/ \A m \in metaDue' : m.turn <= Len(asked') /\ (m.turn = Len(asked') => NoneSaw(asked', m.before))
  BY <1>5, <1>6, <1>16
<1>18. \A s \in DOMAIN asked' : asked'[s].rule # 0 =>
         /\ asked'[s].rule \in DOMAIN TurnRules
         /\ WasMatched(asked'[s].rule, fired', routing'.turn, asked'[s].spent)
  BY <1>6, <1>7, <1>12 DEF RouterInv
<1>19. asked' # <<>>
  BY <1>1, <1>6
<1> QED
  BY <1>8, <1>11, <1>13, <1>15, <1>17, <1>18 DEF RouterInv

\* The metadata of an answer replaces its estimate.
LEMMA PriceStep ==
  ASSUME RouterInv, PriceArrives
  PROVE  RouterInv'
<1>1. PICK m \in metaDue, actual \in ActualPrices :
        /\ billed' = m.before + actual
        /\ metaDue' = metaDue \ {m}
        /\ late' = (late \/ m.turn < Len(asked))
  BY DEF PriceArrives
<1>2. UNCHANGED <<setup, routing, override, asking, verdict, fired, asked>>
  BY DEF PriceArrives
<1>3. /\ metaDue \subseteq Due /\ late \in BOOLEAN /\ Len(asked) \in Nat
      /\ \A s \in DOMAIN asked : asked[s].spent \in Nat
  BY SeenIs DEF RouterInv, RouterTypeOK, Due
<1>4. m.before \in Nat /\ m.turn \in Nat /\ actual \in Nat
  BY <1>3, RouterAssumption DEF Due
<1>5. billed' \in Nat /\ billed' >= m.before /\ late' \in BOOLEAN /\ metaDue' \subseteq metaDue
  BY <1>1, <1>3, <1>4
<1>6. RouterTypeOK'
  BY <1>2, <1>5 DEF RouterInv, RouterTypeOK
<1>7. late => late'
  BY <1>1
<1>8. late' \/ NoneSaw(asked, billed')
  <2> SUFFICES ASSUME ~late', NEW s \in DOMAIN asked PROVE asked[s].spent <= billed'
    BY DEF NoneSaw
  <2>1. ~late /\ ~(m.turn < Len(asked))
    BY <1>1
  <2>2. m.turn <= Len(asked) /\ (m.turn = Len(asked) => NoneSaw(asked, m.before))
    BY <2>1 DEF RouterInv
  <2>3. m.turn = Len(asked)
    BY <1>3, <1>4, <2>1, <2>2
  <2>4. asked[s].spent <= m.before /\ asked[s].spent \in Nat
    BY <1>3, <2>2, <2>3 DEF NoneSaw
  <2> QED
    BY <1>4, <1>5, <2>4
<1>9. late' \/ \A d \in metaDue' : d.turn <= Len(asked) /\ (d.turn = Len(asked) => NoneSaw(asked, d.before))
  BY <1>5, <1>7 DEF RouterInv
<1>10. RulesStick'
  BY <1>2, <1>7 DEF RouterInv, RulesStick
<1> QED
  BY <1>2, <1>6, <1>8, <1>9, <1>10 DEF RouterInv

\* What else happens leaves the turns that were asked alone.
LEMMA SameTurnStep ==
  ASSUME RouterInv, RouterTypeOK', UNCHANGED <<asked, fired, billed, metaDue, late>>, routing'.turn = routing.turn,
         routing'.at \in {"setup", "rules", "route", "ask"} => routing'.turn < MaxRouted,
         routing'.at # "setup", routing'.at \in {"route", "ask"} => asked # <<>>
  PROVE  RouterInv'
BY DEF RouterInv, RulesStick, WasMatched, NoneSaw

\* All steps of a turn.
LEMMA RouterStep == RouterInv /\ [RouterNext]_routerVars => RouterInv'
<1> SUFFICES ASSUME RouterInv, [RouterNext]_routerVars PROVE RouterInv'
  OBVIOUS
<1>a. routing \in [at : {"setup", "rules", "route", "ask", "done"}, turn : 0..MaxRouted]
  BY DEF RouterInv, RouterTypeOK
<1>1. ASSUME NEW found \in BOOLEAN, FindEndpoint(found) PROVE RouterInv'
  <2>1. routing.at = "setup" /\ routing' = [routing EXCEPT !.at = "rules"]
    BY <1>1 DEF FindEndpoint, RouterAt, RouterTo
  <2>2. /\ routing' \in [at : {"setup", "rules", "route", "ask", "done"}, turn : 0..MaxRouted]
        /\ routing'.at = "rules" /\ routing'.turn = routing.turn
    BY <1>a, <2>1
  <2>3. setup' \in [endpoint : {LocalModel, NoModel}, vision : BOOLEAN, sees : BOOLEAN]
    BY <1>1 DEF FindEndpoint, RouterInv, RouterTypeOK, costs
  <2>4. RouterTypeOK'
    BY <1>1, <2>2, <2>3 DEF FindEndpoint, RouterInv, RouterTypeOK, costs
  <2> QED
    BY <1>1, <2>1, <2>2, <2>4, SameTurnStep DEF FindEndpoint, RouterInv, costs
<1>2. ASSUME NEW callback \in {NoModel, RuleModel}, BeginTurn(callback) PROVE RouterInv'
  BY <1>2, TurnStep
<1>3. ASSUME NEW hard \in BOOLEAN, NEW divergent \in BOOLEAN, NEW fails \in BOOLEAN,
             Route(hard, divergent, fails)
      PROVE  RouterInv'
  <2>1. routing.at = "route" /\ routing' = [routing EXCEPT !.at = "ask"]
    BY <1>3 DEF Route, RouterAt, RouterTo
  <2>2. /\ routing' \in [at : {"setup", "rules", "route", "ask", "done"}, turn : 0..MaxRouted]
        /\ routing'.at = "ask" /\ routing'.turn = routing.turn
    BY <1>a, <2>1
  <2>3. RouteRequest(hard, divergent) \in RoutedModels \cup {NoModel}
    BY DEF RouteRequest, RouterInv, RouterTypeOK, RoutedModels
  <2>4. override' \in RoutedModels \cup {NoModel} /\ verdict' \in RoutedModels \cup {NoModel}
    BY <1>3, <2>3 DEF Route, RouterInv, RouterTypeOK, costs
  <2>5. RouterTypeOK'
    BY <1>3, <2>2, <2>4 DEF Route, RouterInv, RouterTypeOK, costs
  <2> QED
    BY <1>3, <2>1, <2>2, <2>5, SameTurnStep DEF Route, RouterInv, costs
<1>4. ASSUME NEW lastTurn \in BOOLEAN, NEW identified \in BOOLEAN, AskModel(lastTurn, identified)
      PROVE  RouterInv'
  BY <1>4, AnswerStep
<1>7. CASE PriceArrives
  BY <1>7, PriceStep
<1>5. CASE AskFails
  <2>1. routing' = [routing EXCEPT !.at = "done"]
    BY <1>5 DEF AskFails, RouterTo
  <2>2. /\ routing' \in [at : {"setup", "rules", "route", "ask", "done"}, turn : 0..MaxRouted]
        /\ routing'.at = "done" /\ routing'.turn = routing.turn
    BY <1>a, <2>1
  <2>3. RouterTypeOK'
    BY <1>5, <2>2 DEF AskFails, RouterInv, RouterTypeOK, costs
  <2> QED
    BY <1>5, <2>2, <2>3, SameTurnStep DEF AskFails, costs
<1>6. CASE UNCHANGED routerVars
  BY <1>6 DEF routerVars, costs, RouterInv, RouterTypeOK, RulesStick, WasMatched, NoneSaw
<1> QED
  BY <1>1, <1>2, <1>3, <1>4, <1>5, <1>6, <1>7 DEF RouterNext

-----------------------------------------------------------------------------
(***************************************************************************)
(* All parts together (MCTurns).                                           *)
(***************************************************************************)

\* Every step of the whole is a step, or a stutter, of each part.
LEMMA StepsOfTheTurns ==
  [TurnsNext]_partVars =>
    [Next]_vars /\ [ConversationNext]_conversationVars /\ [RouterNext]_routerVars
<1> SUFFICES ASSUME [TurnsNext]_partVars
             PROVE  [Next]_vars /\ [ConversationNext]_conversationVars /\ [RouterNext]_routerVars
  OBVIOUS
<1>1. CASE UNCHANGED partVars
  BY <1>1 DEF partVars
<1>2. CASE TurnsNext
  BY <1>2 DEF TurnsNext, InTools, InHistory, InRouting
<1> QED
  BY <1>1, <1>2

\* The whole starts where the parts do.
LEMMA StartsOfTheTurns == TurnsInit => Init /\ ConversationInit /\ RouterInit
  BY DEF TurnsInit

\* Every run of a session, and every rewriting of its file, keeps the history in order:
\* the results of a turn follow it at once and in full, and no turn is there twice.
\* What the history should tell of is in it, or covered by its first summary.
THEOREM HistoriesAreKept == TurnsSpec => []HistoryIsKept
<1>1. TurnsInit => ConversationInv
  BY StartsOfTheTurns, ConversationInitInv
<1>2. ConversationInv /\ [TurnsNext]_partVars => ConversationInv'
  BY StepsOfTheTurns, ConversationStep
<1>3. ConversationInv => HistoryIsKept
  BY ConversationImplies DEF HistoryIsKept
<1> QED
  BY <1>1, <1>2, <1>3, PTL DEF TurnsSpec

\* The calls of a turn keep what they keep on their own: reads are fresh and nothing
\* guarded runs ungranted.
THEOREM ToolsOfTheTurns == TurnsSpec => [](ReadsAreFresh /\ GrantedFirst)
<1>1. TurnsInit => ToolsInv
  BY StartsOfTheTurns, ToolsInitInv DEF ToolsInv, CallsAndCache
<1>2. ToolsInv /\ [TurnsNext]_partVars => ToolsInv'
  BY StepsOfTheTurns, CallsStep, InTurnStep, TrackedStep, PlannedStep, GrantedStep, ReadsFreshStep
     DEF ToolsInv
<1>3. ToolsInv => ReadsAreFresh /\ GrantedFirst
  BY DEF ToolsInv, ReadsFresh, ReadsAreFresh, Granted
<1> QED
  BY <1>1, <1>2, <1>3, PTL DEF TurnsSpec

\* A rule that applies once is not applied again, and after another rule has been
\* applied no rule below it is, unless metadata that came late has brought the total
\* down to the rule's limit.
THEOREM RulesAreSticky == TurnsSpec => []TurnRulesStick
<1>1. TurnsInit => RouterInv
  BY StartsOfTheTurns, RouterInitInv
<1>2. RouterInv /\ [TurnsNext]_partVars => RouterInv'
  BY StepsOfTheTurns, RouterStep
<1>3. RouterInv => TurnRulesStick
  BY DEF RouterInv, TurnRulesStick
<1> QED
  BY <1>1, <1>2, <1>3, PTL DEF TurnsSpec
==============================================================================

SPECIFICATION ProvidersSpec
CONSTANTS
  r1 = r1
  r2 = r2
  b1 = b1
  b2 = b2
  Runs = {r1, r2}
  Breakers = {b1, b2}
  None = None
  Threshold = 2
  ResetAfter = 2
  EvictAfter = 2
  c1 = c1
  c2 = c2
  m1 = m1
  m2 = m2
  m3 = m3
  Callers = {c1, c2}
  Models = {m1, m2, m3}
  Chains <- McChains
  MaxRetries = 3
  Keys = 2
  Streak = 2
  RateFloor = 3
  MaxStarted = 2
  f1 = f1
  f2 = f2
  f3 = f3
  Fetchers = {f1, f2, f3}
  NoFetcher = NoFetcher
CHECK_DEADLOCK FALSE
INVARIANTS ProbeIsInFlight FetchesAreShared
PROPERTIES RetriedBeforeRotation RefusalsEnd

SPECIFICATION LocksSpec
CONSTANTS
  r1 = r1
  r2 = r2
  r3 = r3
  Runs = {r1, r2, r3}
  NoRow = NoRow
  StaleAfter = 2
  MaxAttempts = 2
  MaxRun = 1
  MaxClock = 5
  p1 = p1
  p2 = p2
  p3 = p3
  Procs = {p1, p2, p3}
  NoPid = NoPid
  NoFile = NoFile
  FileStale = 2
  MaxTries = 2
INVARIANTS HolderOwnsRow FileLockExcludes
PROPERTIES ImplementsMutex EveryLockWaitEnds
CHECK_DEADLOCK FALSE

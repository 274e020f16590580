SPECIFICATION Spec
CONSTANTS
  p1 = p1
  p2 = p2
  Procs = {p1, p2}
  None = None
  Unreadable = Unreadable
  Maintenance = {}
  Faults = {"crash", "torn"}
  MaxVersions = 3
  MaxNow = 2
CHECK_DEADLOCK FALSE
INVARIANTS CrashLosesOneLine

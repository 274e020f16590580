SPECIFICATION ProcessesSpec
CONSTANTS
  None = None
  a1 = a1
  a2 = a2
  finish = finish
  t1 = t1
  Tools = {t1, finish}
  Args = {a1, a2}
  MaxCalls = 1
  FinishTool = finish
  QuestionMode = TRUE
  JsonMode = TRUE
  MaxTurns = 5
  TurnBound = 4
  MaxIdentical = 2
  StuckLimit = 3
  ErrorBudget = 2
  BudgetHardStop = TRUE
  SoftLimit = 1
  HardLimit = None
  TurnCosts = {0, 1}
  ActualCosts = {}
  PromptMeta = TRUE
  Interrupts = {"abort", "shutdown"}
  Failures = {"setup", "cycle", "call", "callback", "save", "emit", "circuit"}
  MaxRuns = 1
  MaxLines = 3
  c1 = c1
  c2 = c2
  Absent = Absent
  Blank = Blank
  Ghost = Ghost
  Retries = 3
  Clis = {c1, c2}
  Calls = {c1, c2}
  ConnectAttempts = 2
  CallRetries = 1
  MaxReconnects = 2
  MaxClients = 4
  w1 = w1
  w2 = w2
  w3 = w3
  Writers = {w1, w2, w3}
  ProcessOf <- McProcessOf
  MaxEntries = 2
  k1 = k1
  k2 = k2
  j1 = j1
  j2 = j2
  Trainings = {k1, k2}
  Trajectories = {j1, j2}
  MinBatch = 1
  Deployed = 1
  p1 = p1
  p2 = p2
  p3 = p3
  Procs = {p1, p2, p3}
  Shell = p1
  g1 = g1
  g2 = g2
  g3 = g3
  AgentCalls = {g1, g2, g3}
  MaxRedirects = 3
CHECK_DEADLOCK FALSE
INVARIANTS RepetitionIsCut ChildIsBelieved OneInstanceButForGaps ServersAreSpared ChangesAreOfTheFile
           BilledOnlyIfUnreachable OnlyTheDeafRemain ProcessTypesOK
PROPERTIES NothingEndsTooSoon EveryWaitEnds

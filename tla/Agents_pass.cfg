SPECIFICATION AgentsSpec
CONSTANTS
  None = None
  a1 = a1
  tool = tool
  Tools = {tool}
  Args = {a1}
  MaxCalls = 1
  FinishTool = None
  QuestionMode = TRUE
  JsonMode = TRUE
  MaxTurns = 4
  TurnBound = 4
  MaxIdentical = 0
  StuckLimit = 3
  ErrorBudget = 2
  BudgetHardStop = FALSE
  SoftLimit = None
  HardLimit = 4
  TurnCosts = {0, 1}
  ActualCosts = {1, 2}
  PromptMeta = TRUE
  Interrupts = {"abort", "shutdown"}
  Failures = {"setup", "cycle", "call", "callback"}
  MaxRuns = 2
  Families = {"anthropic", "openai", "deepseek", "gemini", "other"}
  Lines <- McLines
  MaxLines = 3
  r1 = r1
  r2 = r2
  f1 = f1
  f2 = f2
  Runs = {r1, r2}
  Facts = {f1, f2}
  Levels = {2}
  Threshold = 1
  BatchSize = 2
  MinBatch = 2
  MaxSummary = 1
  MaxRows = 3
  p1 = p1
  p2 = p2
  t1 = t1
  t2 = t2
  Vague = Vague
  Banks = {p1, p2}
  Topics = {t1, t2}
  AreaOf <- McAreaOf
  MaxSkills = 2
  MergeAt = 2
  MinCluster = 2
  MaxIds = 4
  MinUses = 10
  MaxUses = 20
  c1 = c1
  c2 = c2
  c3 = c3
  SubRuns = {c1, c2, c3}
  RootRun = RootRun
  MaxDepth = 2
  fa = fa
  fb = fb
  e1 = e1
  e2 = e2
  e3 = e3
  Calls = {c1, c2}
  Files = {fa, fb}
  Edits = {e1, e2, e3}
  EditedFile <- McEditedFile
  Cut = Cut
  u1 = u1
  u2 = u2
  u3 = u3
  k1 = k1
  k2 = k2
  b1 = b1
  b2 = b2
  b3 = b3
  Users = {u1, u2, u3}
  PoolKeys = {k1, k2}
  Browsers = {b1, b2, b3}
  NoBrowser = NoBrowser
  Threads = {t1, t2}
  Contexts = {"k1", "k2"}
  MaxSummaries = 2
  MaxSecond = 1
CHECK_DEADLOCK FALSE
INVARIANTS OneOutcome SavedAtExit MoneyIsCounted ResultIsWhatArrived NothingForgotten SkillsAreKept
           LimitsAreInherited ToolsLeaveOrder WarmStartsStay AgentTypesOK

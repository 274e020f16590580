SPECIFICATION Spec
CONSTANTS
  None = None
  a1 = a1
  t1 = t1
  Tools = {t1}
  Args = {a1}
  MaxCalls = 1
  FinishTool = None
  QuestionMode = FALSE
  JsonMode = FALSE
  MaxTurns = 3
  TurnBound = 4
  MaxIdentical = 0
  StuckLimit = 3
  ErrorBudget = 2
  BudgetHardStop = FALSE
  SoftLimit = None
  HardLimit = 4
  TurnCosts = {1}
  ActualCosts = {1, 2}
  PromptMeta = FALSE
  Interrupts = {}
  Failures = {}
  MaxRuns = 1
INVARIANTS CostIsExact

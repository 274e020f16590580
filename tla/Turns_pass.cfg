SPECIFICATION TurnsSpec
CONSTANTS
  look = look
  list = list
  edit = edit
  exit = exit
  Calls = {look, list, edit, exit}
  Broken = {}
  ReadOnly = {look, list}
  Exits = {exit}
  Delegated = {list}
  Guarded = {look, list, edit}
  FileTools = {edit}
  MaxCalls = 3
  MaxMade = 3
  Limit = 2
  CacheSize = 1
  Nil = Nil
  Modes = {"question", "open"}
  MaxTurnCalls = 2
  MaxAnswers = 3
  MaxRuns = 2
  KeepTurns = 2
  KeepLast = 2
  Cooldown = 1
  Mishaps = {"save", "throw", "crash", "image", "summarize"}
  Tools = {"compact", "rollback", "fork"}
  Concurrent = TRUE
  base = base
  local = local
  teacher = teacher
  ruled = ruled
  BaseModel = base
  LocalModel = local
  TeacherModel = teacher
  RuleModel = ruled
  NoModel = NoModel
  TurnRules <- McRules
  PriceOf <- McPrices
  ActualPrices = {1, 3}
  MaxRouted = 4
  Parts = {"tools", "history", "routing"}
CHECK_DEADLOCK FALSE
CONSTRAINT Undamaged
INVARIANTS ReadsAreFresh GrantedFirst HistoryIsKept TurnRulesStick
PROPERTIES ToolTurnsEnd

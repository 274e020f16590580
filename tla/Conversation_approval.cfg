SPECIFICATION ConversationSpec
CONSTANTS
  Nil = Nil
  Modes = {"question"}
  MaxTurnCalls = 2
  MaxAnswers = 3
  MaxRuns = 2
  KeepTurns = 1
  KeepLast = 2
  Cooldown = 1
  Mishaps = {}
  Tools = {}
  Concurrent = FALSE
INVARIANTS
  ApprovedCallRuns

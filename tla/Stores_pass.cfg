SPECIFICATION StoresSpec
CONSTANTS
  c1 = c1
  c2 = c2
  s1 = s1
  s2 = s2
  Procs = {c1, c2}
  None = None
  Unreadable = Unreadable
  Maintenance = {"trash", "restore", "delete", "prune", "emptyTrash"}
  Faults = {"crash", "torn", "io"}
  MaxVersions = 2
  MaxNow = 2
  Clients = {c1, c2}
  Sessions = {s1, s2}
  Missing = Missing
  PageSize = 1
  MaxEntries = 1
  MaxPending = 2
  w = w
  Requests = {c1, c2}
  Wizards = {w}
  Loaders = {s1, s2}
  Hidden = Hidden
  Cut = Cut
  Loggers = {c1, c2}
  MaxBackups = 1
  MaxLogs = 4
  SkillNames = {"n1"}
  SkillLoads = {"l1", "l2"}
  MaxTrained = 3
  MaxServers = 2
  z = z
  Servers = {c1, c2, z}
  Ports = {1, 2}
  DefaultPort = 1
  Ghost = Ghost
  NoServer = NoServer
  Tails = {w}
  MaxDay = 2
  MaxLines = 3
CHECK_DEADLOCK FALSE
SYMMETRY Symmetry
INVARIANTS SavesSurvive LoadFollowsRequests SessionFilesAreKept SavesKeepTheFile CachedLoadsAreCurrent NamedServersRun LogsAreKept

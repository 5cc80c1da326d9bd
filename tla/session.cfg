CONSTANTS
  c1 = c1
  c2 = c2
  Clients = {c1, c2}
  Commands <- MCCommands
  SliceCount = 2
  RedisList <- MCRedisList
  Connecting <- MCConnecting
  Databases = {0, 1}
  HasPassword = TRUE
  Breakable <- MCBreakable
  Leaving = {c2}
  NoClient = NoClient
  NoInfo = NoInfo
  NoRedis = NoRedis
SPECIFICATION Spec
INVARIANTS TypeOK RightPlace AnsweredOnce SelectedExists CreatesMissing
CHECK_DEADLOCK FALSE
PROPERTY EveryCommandAnswered

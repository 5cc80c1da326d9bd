CONSTANTS
  c1 = c1
  c2 = c2
  Clients = {c1}
  Commands <- MCPipelined
  SliceCount = 2
  RedisList <- MCRedisList
  Connecting <- MCConnecting
  Databases = {0, 1}
  HasPassword = FALSE
  Breakable <- MCBreakable
  Leaving = {}
  NoClient = NoClient
  NoInfo = NoInfo
  NoRedis = NoRedis
SPECIFICATION Spec
INVARIANT RepliesInOrder
CHECK_DEADLOCK FALSE

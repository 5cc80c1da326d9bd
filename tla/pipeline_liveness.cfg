CONSTANTS
  a = a
  b = b
  r1 = r1
  r2 = r2
  flushAll = flushAll
  ping = ping
  promotion = promotion
  auth = auth
  select = select
  slaveof = slaveof
  Callers = {a, b}
  Timer = Timer
  Loop = Loop
  Requests = {r1}
  FlushAlls = {}
  Pings = {}
  Promotions = {promotion}
  Setup <- MCSelect
  Late <- MCSlaveof
  Untimed = {promotion}
  BatchSize = 2
  Database0 = TRUE
  SetConnected = SetConnected
  NoThread = NoThread
  NoTask = NoTask
  NoAnswer = NoAnswer
  ServiceIsBusy = ServiceIsBusy
SPECIFICATION FairSpec
PROPERTY AnsweredOrDown
CHECK_DEADLOCK FALSE

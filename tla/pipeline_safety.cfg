CONSTANTS
  a = a
  b = b
  r1 = r1
  r2 = r2
  flushAll = flushAll
  ping = ping
  promotion = promotion
  auth = auth
  select = select
  slaveof = slaveof
  Callers = {a, b}
  Timer = Timer
  Loop = Loop
  Requests = {r1, r2}
  FlushAlls = {flushAll}
  Pings = {ping}
  Promotions = {}
  Setup <- MCSetup
  Late <- MCEmpty
  Untimed = {}
  BatchSize = 2
  Database0 = TRUE
  SetConnected = SetConnected
  NoThread = NoThread
  NoTask = NoTask
  NoAnswer = NoAnswer
  ServiceIsBusy = ServiceIsBusy
SPECIFICATION Spec
INVARIANTS TypeOK ReplyMatches QueuesAligned SetupFirst UnflushedOwed
PROPERTY ImplementsService
CHECK_DEADLOCK FALSE
SYMMETRY MCSymmetry

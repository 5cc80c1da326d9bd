CONSTANTS
  MasterHost = MasterHost
  SlaveHost = SlaveHost
  p1 = p1
  p2 = p2
  Pullers = {p1, p2}
  Viewers = {p2}
  DayLength = 1
  MaxTime = 1
  Failures = {"break", "silence", "refused", "first", "zip"}
  Failing = {MasterHost}
  MaxFailures = 1
  NoHost = NoHost
SPECIFICATION Spec
INVARIANTS TypeOK CleanBackups FreshState
CHECK_DEADLOCK FALSE
PROPERTIES Reconnects PullArrives

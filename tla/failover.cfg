CONSTANTS
  Local = Local
  Remote = Remote
  Databases = {0, 1}
  s1 = s1
  Selectors = {s1}
  Heart = Heart
  Failures = {"crash", "hang", "link", "proxy"}
  StartVip = {TRUE}
  Calm = TRUE
  MaxFailures = 2
  MaxClients = 11
  NoRedis = NoRedis
  NoThread = NoThread
SPECIFICATION Spec
INVARIANTS TypeOK OneRedisPerMap RoutedByFlag OneMaster WritesToMaster
PROPERTY ImplementsStandby
CHECK_DEADLOCK FALSE

CONSTANTS
  Local = Local
  Remote = Remote
  Databases = {0, 1}
  s1 = s1
  Selectors = {s1}
  Heart = Heart
  Failures = {}
  StartVip = {TRUE}
  Calm = FALSE
  MaxFailures = 0
  MaxClients = 12
  NoRedis = NoRedis
  NoThread = NoThread
SPECIFICATION Spec
INVARIANT NoDuplicate
CHECK_DEADLOCK FALSE

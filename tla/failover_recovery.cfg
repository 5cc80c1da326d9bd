CONSTANTS
  Local = Local
  Remote = Remote
  Databases = {0}
  s1 = s1
  Selectors = {s1}
  Heart = Heart
  Failures = {"crash", "hang", "link", "proxy"}
  StartVip = {TRUE, FALSE}
  Calm = TRUE
  MaxFailures = 3
  MaxClients = 9
  NoRedis = NoRedis
  NoThread = NoThread
SPECIFICATION FairSpec
INVARIANT RoutedByFlag
PROPERTY Recovers
CHECK_DEADLOCK FALSE

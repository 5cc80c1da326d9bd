CONSTANTS
  a = a
  b = b
  k1 = k1
  k2 = k2
  k3 = k3
  k4 = k4
  Nodes = {a, b}
  MasterNode = a
  Links = {k1, k2, k3, k4}
  Failures = {"process", "host", "break", "silence"}
  MaxFailures = 2
  Timely = TRUE
  StartSpeeds = {TRUE, FALSE}
  Calm = TRUE
  NoNode = NoNode
  NoAnswer = NoAnswer
SPECIFICATION Spec
INVARIANTS TypeOK OneAddress FlagTrue RolesAgree
PROPERTIES AddressServed TwoAgain
CHECK_DEADLOCK FALSE

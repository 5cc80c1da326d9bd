CONSTANTS
  a = a
  b = b
  k1 = k1
  k2 = k2
  k3 = k3
  k4 = k4
  Nodes = {a, b}
  MasterNode = a
  Links = {k1, k2, k3, k4}
  Failures = {"silence"}
  MaxFailures = 2
  Timely = TRUE
  StartSpeeds = {TRUE}
  Calm = FALSE
  NoNode = NoNode
  NoAnswer = NoAnswer
SPECIFICATION Spec
INVARIANT FlagTrue
CHECK_DEADLOCK FALSE

\* The handler as it is reached through the logging middleware
CONSTANTS
  Conns = {n1}
  NoConn = NoConn
  Hijackable = FALSE
  MaxAttempts = 3
  MaxFaults = 0
SPECIFICATION Spec
PROPERTY FeedConnects
CHECK_DEADLOCK FALSE

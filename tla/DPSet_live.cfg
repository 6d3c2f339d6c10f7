SPECIFICATION FairSpec
CONSTANTS
  c1 = c1
  c2 = c2
  c3 = c3
  d1 = d1
  d2 = d2
  Dp <- MC2Dp
  Dpid <- MC2Dpid
  IdOf <- MC2IdOf
  Port = {p1}
  None = None
  NoPort = NoPort
  QMax = 1
  AppMax = 1
PROPERTIES
  DeadIsForgotten
  ViewsConverge
CHECK_DEADLOCK FALSE

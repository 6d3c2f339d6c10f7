SPECIFICATION Spec
CONSTANTS
  c1 = c1
  c2 = c2
  c3 = c3
  d1 = d1
  d2 = d2
  Dp <- MCDp
  Dpid <- MCDpid
  IdOf <- MCIdOf
  Port = {p1}
  None = None
  NoPort = NoPort
  QMax = 1
  AppMax = 1
INVARIANTS
  TypeOK
  DeadIsOnItsWay
  LiveIsRegistered
  PortStateFollowsDps
  EventDPAlternates
  PortStateTracksPorts
PROPERTY
  RefinesSwitchFeed
CHECK_DEADLOCK FALSE

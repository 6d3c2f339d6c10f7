SPECIFICATION FairSpec
CONSTANTS
  App = {a1}
  Recv = Recv
  Echo = Echo
  Ext = Ext
  Ctl = Ctl
  EchoReq = EchoReq
  Data = Data
  HelloError = HelloError
  SMax = 2
  EchoMax = 1
INVARIANTS
  TypeOK
  SlotsBalance
  LinesMatch
  EventsInOrder
PROPERTIES
  StateGoesForward
  RefinesFifoChannel
  SendersReleased
  DeadEndsAll
  SilentSwitchIsClosed
CHECK_DEADLOCK FALSE

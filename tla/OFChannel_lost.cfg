SPECIFICATION Spec
CONSTANTS
  App = {a1}
  Recv = Recv
  Echo = Echo
  Ext = Ext
  Ctl = Ctl
  EchoReq = EchoReq
  Data = Data
  HelloError = HelloError
  SMax = 2
  EchoMax = 1
INVARIANT DeadIsAnnounced
CHECK_DEADLOCK FALSE

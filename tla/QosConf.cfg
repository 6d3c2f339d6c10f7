SPECIFICATION FairSpec
CONSTANTS
  a1 = a1
  a2 = a2
  tun = tun
  eth = eth
  Req = {r1}
  Addr = {a1, a2}
  NoAddr = NoAddr
  Flaky = {a2}
  Port = {tun, eth}
  Tunnel = {tun}
  AnyPort = AnyPort
  PortsAt <- MCPortsAt
  MaxPut = 3
  MaxObj = 2
  MaxQ = 1
  MaxEvents = 2
INVARIANTS
  TypeOK
  QueuesShownExist
PROPERTIES
  RefinesRegister
  PutTakesEffect
CHECK_DEADLOCK FALSE

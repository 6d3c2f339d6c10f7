SPECIFICATION FairSpec
CONSTANTS
  Sw = {s1, s2}
  Req = {r1, r2}
  None = None
  MaxConn = 3
  MaxXid = 3
  MaxParts = 2
  MaxEvents = 1
INVARIANTS
  TypeOK
  WaitersAreWaiting
  AnswerIsOwnReply
  SetMeansComplete
PROPERTIES
  AllMeansAll
  EveryRequestEnds
CHECK_DEADLOCK FALSE

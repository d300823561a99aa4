SPECIFICATION Spec
CONSTANTS
  r1 = r1
  r2 = r2
  r3 = r3
  r4 = r4
  m1 = m1
  m2 = m2
  Requests <- ThreeRequests
  Channel <- SmsSmsWeb
  MessageId <- SameMessage
  Rows <- OneRow3
  Workers = 2
  MsgLimit = 1
  SubLimit = 3
  NearMsg = 1
  NearSub = 1
  MaxMonth = 1
  Events = {}
INVARIANTS BasicAllowance

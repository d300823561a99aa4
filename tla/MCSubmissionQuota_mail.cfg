SPECIFICATION Spec
CONSTANTS
  r1 = r1
  r2 = r2
  r3 = r3
  r4 = r4
  m1 = m1
  m2 = m2
  Requests <- ThreeRequests
  Channel <- SmsSmsWeb
  MessageId <- SameMessage
  Rows <- OneRow3
  Workers = 1
  MsgLimit = 2
  SubLimit = 2
  NearMsg = 1
  NearSub = 1
  MaxMonth = 1
  Events = {}
INVARIANTS ReachedMailTruthful

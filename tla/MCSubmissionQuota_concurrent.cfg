SPECIFICATION FairSpec
CONSTANTS
  r1 = r1
  r2 = r2
  r3 = r3
  r4 = r4
  m1 = m1
  m2 = m2
  Requests <- FourRequests
  Channel <- SmsSmsPhoneReceipt
  MessageId <- SameMessage4
  Rows <- OneRow4
  Workers = 2
  MsgLimit = 1
  SubLimit = 1
  NearMsg = 1
  NearSub = 1
  MaxMonth = 1
  Events = {"abort", "deactivate"}
INVARIANTS TypeOK NoPhantomCount SmsRefusalJustified CountedAgainstStored
PROPERTIES EveryRequestEnds

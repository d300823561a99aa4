SPECIFICATION Spec
CONSTANTS
  r1 = r1
  r2 = r2
  r3 = r3
  r4 = r4
  m1 = m1
  m2 = m2
  Requests <- FourRequests
  Channel <- SmsSmsImportTest
  MessageId <- SameMessage4
  Rows <- TwoRows4
  Workers = 1
  MsgLimit = 1
  SubLimit = 3
  NearMsg = 1
  NearSub = 1
  MaxMonth = 2
  Events = {"upgrade", "month", "expire"}
INVARIANTS CountersExact BasicAllowance SubmissionRefusalJustified
PROPERTIES ImplementsLedger

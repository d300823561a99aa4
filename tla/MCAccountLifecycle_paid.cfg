SPECIFICATION Spec
CONSTANTS
  Year = 2
  MaxDay = 5
INVARIANTS PaidAccountHasAccess
CHECK_DEADLOCK FALSE

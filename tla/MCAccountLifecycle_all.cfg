SPECIFICATION FairSpec
CONSTANTS
  Year = 2
  MaxDay = 5
INVARIANTS TypeOK FirstYearKept RenewalKept ClosedForUsers
PROPERTIES PaidStaysPaid ExpiredGetsClosed
CHECK_DEADLOCK FALSE

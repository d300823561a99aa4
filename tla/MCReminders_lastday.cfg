CONSTANTS
  None = None
  Months = 17
  FirstDay <- MCCalendar
  Projects = {p1}
  Senders = {s1, s2}
  Users = {u1}
  Forms <- MCLastDay
  FirstToday = 181
  LastToday = 182
  MaxFailures = 0
  MaxEdits = 2
  MaxSubmissions = 1
SPECIFICATION Spec
INVARIANTS LastDayIsReminded
CHECK_DEADLOCK FALSE

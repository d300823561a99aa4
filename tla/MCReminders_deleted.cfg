CONSTANTS
  None = None
  Months = 17
  FirstDay <- MCCalendar
  Projects = {p1}
  Senders = {s1, s2}
  Users = {u1}
  Forms <- MCForms
  FirstToday = 183
  LastToday = 185
  MaxFailures = 0
  MaxEdits = 2
  MaxSubmissions = 1
SPECIFICATION Spec
INVARIANTS DeletedIsSilent
CHECK_DEADLOCK FALSE

CONSTANTS
  None = None
  Months = 17
  FirstDay <- MCCalendar
  Projects = {p1}
  Senders = {s1}
  Users = {}
  Forms <- MCEveryDeadline
  FirstToday = 62
  LastToday = 486
  MaxFailures = 0
  MaxEdits = 0
  MaxSubmissions = 0
SPECIFICATION DaysSpec
INVARIANTS DeadlinesInOrder PeriodsTile
CHECK_DEADLOCK FALSE

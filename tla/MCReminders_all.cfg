CONSTANTS
  None = None
  Months = 17
  FirstDay <- MCCalendar
  Projects = {p1}
  Senders = {s1}
  Users = {u1, u2}
  Forms <- MCForms
  FirstToday = 183
  LastToday = 185
  MaxFailures = 1
  MaxEdits = 2
  MaxSubmissions = 1
SPECIFICATION Spec
INVARIANTS TypeOK OnceADeadline PunctualAreSpared LateAreReminded NothingInvented SettingsTogether
CHECK_DEADLOCK FALSE

SYMMETRY Symmetric

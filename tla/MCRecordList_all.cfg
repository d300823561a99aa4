SPECIFICATION ListSpec
CONSTANTS
  ListKinds = {"datasenders", "project", "subjects", "submissions"}
  Records = {1, 2, 3}
  Searches = {"", "x"}
  NoSearch = ""
  Matching <- MCMatching
  PageLengths = {1, 2}
  Superusers = {3}
CHECK_DEADLOCK FALSE
INVARIANTS
  ActsOnWhatWasCounted

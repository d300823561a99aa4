SPECIFICATION AppSpec
CONSTANTS
  PageKinds = {"create", "edit", "subject", "tab"}
  Titles <- MCTitles
  FirstFields <- MCFirstFields
  MaxQuestions = 3
  MaxPosts = 2
  Letters = 2
  MaxOptions = 4
  Pages = {"p", "r"}
  FormCodes = {"f", "g"}
  FirstCode = "f"
  MaxAsked = 4
  MaxReceived = 2
  MaxJobs = 1
  ListKinds = {"datasenders", "project", "subjects", "submissions"}
  Records = {1, 2, 3}
  Searches = {"", "x"}
  NoSearch = ""
  Matching <- MCMatching
  PageLengths = {1, 2}
  Superusers = {3}
  ImportKinds = {"submissions", "senders", "things"}
  maxConnections = 2
  MaxFiles = 4
  LogKinds = {"log", "analysis"}
  Tabs = {"all", "error"}
  FirstTab = "all"
  LogFilters = {"", "x"}
  NoFilter = ""
  MaxRequests = 2
  FormKinds = {"submission", "subject", "sender"}
  Values = {"a", "b", "bad"}
  Invalid = {"bad"}
  SavedAtFirst = {"a", "bad"}
  Links = {"#", "elsewhere"}
  ProjectLinks = {"sms_tester", "delete_project"}
  Senders = {"s1", "s2"}
  Associated = {"s1"}
  Numbers = {"n", "h"}
  Hosted = {"h"}
  TooLong = {}
  Many = 2
  MaxTyped = 2
  MaxSendings = 2
  Organizations = {"o", "p"}
  PhoneNumbers = {1, 2}
  DataSenders <- MCDataSenders
  Requests = {1, 2}
  WebWorkers = {1}
  CeleryWorkers = {2}
  Responses = {1, 2}
  Entities = {"e"}
  About <- MCAbout
  Contents <- MCContents
  EntityNames = {"n", "m"}
  DateFormats = {"dd.mm.yyyy", "mm.yyyy"}
  MaxQueued = 1
  RowWriters = {1, 2}
  ProjectIds = {1, 2}
  ProjectNames = {"x", "y", "z"}
  Reporters = {1}
CHECK_DEADLOCK FALSE
INVARIANTS
  PagesTypeOK NoPageBlockedForGood
  QuestionnaireSound AnswersIdentified ListShownAsItIs ActsOnWhatWasTold IndexAgrees
  SmsReachItsOrganization
PROPERTIES
  DataLossConfirmed ChangesAnnounced ReportAndQuestionsAgree
  AnswersKept ImportsAccountedFor PageShowsWhatIsSet UnsavedHandled SentAsAgreed

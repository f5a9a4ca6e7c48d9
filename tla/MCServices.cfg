SPECIFICATION ServicesSpec
CONSTANTS
  q1 = q1
  q2 = q2
  x1 = x1
  x2 = x2
  y1 = y1
  y2 = y2
  FaqReads = {y1}
  FaqWrites = {q1, q2}
  FaqIds = {x1, x2}
  UrlForms = {y1, y2}
  Plain = y1
  ListKey = y2
  NoEntry = None
  MaxFaqWrites = 2
  RatingCalls = {q1, q2}
  Raters = {x1, x2}
  Scores = {2, 5}
  MaxRatingCalls = 4
  MaxRatingFaults = 1
  IdemCalls = {q1, q2}
  Keys = {y1}
  Users = {x1, x2}
  Paths = {y1, y2}
  NoRecord = None
  MaxIdemCalls = 5
  Catalogue = {x1, x2}
  Tutors = {y1}
  Buyers = {y1}
  Week = 1
  Month = 2
  NoReport = None
  MaxTime = 3
  Shown = {x1, x2, y1}
  SortKeys = {0, 1, 2}
  Limits = {0, 1, 3}
  DefaultLimit = 1
  MaxLimit = 2
  NoWalk = None
  NoRow = None
  DefiCalls = {q1, q2}
  Positions = {x1, x2}
  Transactions = {y1}
  Balances = {0, 3}
  Prices = {2}
  Borrowings <- Loans
  Scenarios <- StressScenarios
  MaxDefiCalls = 3
  Uuids = {x1, x2}
  ObjectIds = {y1, y2}
  Bodies = {q1, q2}
  NoRecordId = None
  NoBody = None
  MemberCalls = {q1, q2}
  Organizations = {y1}
  Persons = {x1, x2}
  MemberIds = {y1, y2}
  NoMember = None
  Verdicts = {y1, y2}
  Notes = {y1, y2}
  MaxMemberCalls = 3
  Labels = {y1}
  Durations = {0, 1, 2}
  Window = 2
  MaxRequests = 5
SYMMETRY Symmetric
INVARIANTS
  ServicesTypeOK
  FaqStaleOnlyByRace
  RatingStatsOffOnlyByRace
  RepeatedOnlyByRace
  ReportsAddUpUnlessOvertaken
  PagesPartitionUnlessTied
  ReopenedOnlyByStaleSave
  AaveNeverCritical
  MembershipsUnique
  MetricsRememberTheSlowest
PROPERTY
  ModeratorsKeepEachOthersFields
CHECK_DEADLOCK FALSE

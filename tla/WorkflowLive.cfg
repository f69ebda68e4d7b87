SPECIFICATION FairSpec
CONSTANTS
  Contents = {c1, c2, c3}
  Admissible = {c1, c2}
  RunId = run
  None = None
  Setups <- MCSetups
  Answers <- MCAnswers
  Samples = {0, 2, 3, 5}
  TotalDeadline = 2
  StoreTimeout = 1
  MaxSafe = 4
  MaxBudget = 1
  Modes = {"edit", "odd"}
  Stores = {"absent", "invalid", "callable"}
  Forms = {"bare", "built", "forged"}
INVARIANT AdmissibleCandidate
INVARIANT ReportIsHonest
PROPERTY ImplementsRun
PROPERTY OnlyInTime
PROPERTY EveryRunReports

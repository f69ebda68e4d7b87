SPECIFICATION Spec
CONSTANTS
  Contents = {c1, c2, c3}
  Admissible = {c1, c2, c3}
  RunId = run
  None = None
  Setups <- MCSetups
  Answers <- MCAnswers
  Samples = {0, 2}
  TotalDeadline = 2
  StoreTimeout = 1
  MaxSafe = 4
  MaxBudget = 2
  Modes = {"edit"}
  Stores = {"absent"}
  Forms = {"built"}
SYMMETRY Symmetry
INVARIANT TypeOK
INVARIANT CompletedRunPassedEveryGate
INVARIANT OneCandidatePerAttempt
INVARIANT RepairsAreEarned
INVARIANT AdaptersDoNotOverlap

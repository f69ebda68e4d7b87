SPECIFICATION Spec
CONSTANTS
  Contents = {c1, c2, c3}
  Admissible = {c1, c2}
  RunId = run
  None = None
  Setups <- MCSetups
  Answers <- MCAnswers
  Evidence <- MCEvidence
  MaxBudget = 2
  Forms = {"built", "forged"}
SYMMETRY Symmetry
INVARIANT JudgesAlike
INVARIANT LoopReportIsHonest
PROPERTY LoopImplementsRun

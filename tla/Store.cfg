SPECIFICATION Spec
CONSTANTS
  Attempts = {t1, t2, t3}
  Texts = {x, y}
  MaxCalls = 2
  MaxOutages = 1
  None = None
SYMMETRY StoreSymmetry
CHECK_DEADLOCK FALSE
INVARIANT DurableSurvives
INVARIANT UncommittedLeavesNoTrace
PROPERTY OnlyWholeJournals
PROPERTY ReplacesOnlyExpected

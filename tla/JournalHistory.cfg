SPECIFICATION Spec
CONSTANTS
  Inputs <- MCInputs
  Times = {0, 2}
  ProjectId = "project"
  MaxEntries = 2
  HeartbeatTtl = 1
  HistoryLimit = 3
  MaxSafe = 8
  None = None
  EntryIds = {a, b, c}
  Kinds = {"plain", "odd"}
SYMMETRY MCSymmetry
INVARIANT JournalTypeOK
INVARIANT NewestRetained
INVARIANT DamageIsNoticed
INVARIANT ReopensComplete

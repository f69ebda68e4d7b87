SPECIFICATION Spec
CONSTANTS
  Inputs <- MCInputs
  Times = {0, 1, 2}
  ProjectId = "project"
  MaxEntries = 3
  HeartbeatTtl = 1
  HistoryLimit = 3
  MaxSafe = 8
  None = None
  EntryIds = {a, b, c}
  Kinds = {"retries"}
SYMMETRY MCSymmetry
INVARIANT RetriesFollowEnds
INVARIANT ReplayIsDuplicate
PROPERTY HistoryOnlyGrows
PROPERTY LivenessOnlyDecays

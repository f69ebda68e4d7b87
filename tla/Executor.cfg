SPECIFICATION FairSpec
CONSTANTS
  Samples = {1, 2}
  Lifetime = 1
  MaxSafe = 8
  None = None
  Calls = {c1, c2}
  Contents = {x, y}
  Cap = 1
INVARIANT OneRecordPerCall
INVARIANT ReadingsAreConsented
INVARIANT NoChildLeftRunning
PROPERTY LaunchesNeedConsent
PROPERTY EveryCallReturns

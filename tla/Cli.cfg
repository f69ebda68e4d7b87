SPECIFICATION CliSpec
CONSTANTS
  Calls = {c1, c2}
  None = None
CHECK_DEADLOCK FALSE
INVARIANT ExitCodeIsTrue

SPECIFICATION TextSpec
CONSTANTS
  HighFirst = 6
  LowFirst = 8
  Width = 2
  Astral = 11
  Bytes = 13
  Depth = 2
  ObjectMembers = 2
  Largest <- MCLargest
  Space = 2
  NotNFC <- MCNotNFC
  Tokens <- MCTokens
  Characters <- MCCharacters
  Units <- MCUnits
  MaxTokens = 9
  Openings <- MCOpenings
  MaxMore = 5
  MaxCharacters = 4
INVARIANT CanonicalIsFaithful
CHECK_DEADLOCK FALSE

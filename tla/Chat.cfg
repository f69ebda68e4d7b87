SPECIFICATION FairSpec
CONSTANTS
  Calls = {c1, c2}
  Cap = 2
  TransportCodes = {"ABORTED", "LOCAL_CHAT_TIMEOUT", "ECONNRESET"}
  Text = Text
  None = None
INVARIANT OneTrueReceipt
INVARIANT ValidatedInTime
INVARIANT ConnectionsReleased
PROPERTY EveryChatReturns
CHECK_DEADLOCK FALSE

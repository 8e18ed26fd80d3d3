SPECIFICATION FairSpec
CONSTANTS
  None = None
  Requests = {r1, r2}
  MaxPieces = 2
  PromptTokens = 5
  ThinkingTokens = 3
  PromptBytes = 14
  PieceBytes = 6
  ClientTimeout <- MCClientTimeout
INVARIANTS
  TypeOK
  KeptWasRelayed
  OneTerminator
  BilledAsTold
  CountedOnce
PROPERTIES
  Relays
  TimedStreamsEnd
CHECK_DEADLOCK FALSE

SPECIFICATION Spec
CONSTANTS
  Word = 16
  HalfDuration = 64
  Day = 3
  Nil = Nil
  Bad = Bad
  Lost <- MCLost
  Payloads <- MCPayloads
  MaxTime = 28
  MaxConsumed = 6
CHECK_DEADLOCK FALSE
INVARIANTS
  TypeOK
  ExpiryAgrees
  
  UpdatesFollowDates
PROPERTIES
  StateMovesForward
  ConsumptionCounts

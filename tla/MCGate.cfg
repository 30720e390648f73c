SPECIFICATION FairSpec
CONSTANTS
  Word = 16
  HalfDuration = 64
  Day = 2
  Nil = Nil
  Bad = Bad
  Lost <- MCLost
  Callers = {g1, g2}
  Feature = "feature"
  Snapshots <- AllSnapshots
  GraceWindow = 1
  MaxTime = 3
  MaxUses = 3
  MaxSyncs = 1
  MaxFaults = 1
CHECK_DEADLOCK FALSE
INVARIANTS
  TypeOK
  OverdraftBounded
  DenialHonest
  DecisionFollowsRules
PROPERTY
  CheckReturns

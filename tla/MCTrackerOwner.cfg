SPECIFICATION FairTrackerSpec
CONSTANTS
  f1 = f1
  Units = {u1, u2}
  Features <- MCFeatures
  FeatureOf <- MCFeatureOf
  Flushers <- MCFlushers
  Calls = {c1, c2, c3, c4, c5}
  NoCall = NoCall
  MaxFaults = 1
  HasSerial = TRUE
  HasOnRefresh = TRUE
  BufferMayFail = TRUE
  MayCrash = FALSE
  Durable = FALSE
  Owners = {o1}
  Stoppers = {o1}
  Runs = {r1, r2}
  NoRun = NoRun
INVARIANTS
  TrackerTypeOK
  StopJoins
  StopDelivers
  OneLoop
PROPERTIES
  SnapshotMonotonic
  StopReturns
  UsageDelivered

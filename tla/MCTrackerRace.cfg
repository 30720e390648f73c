SPECIFICATION TrackerSpec
CONSTANTS
  f1 = f1
  Units = {u1}
  Features <- MCFeatures
  FeatureOf <- MCFeatureOf
  Flushers <- MCFlushers
  Calls = {c1, c2, c3}
  NoCall = NoCall
  MaxFaults = 0
  HasSerial = FALSE
  HasOnRefresh = FALSE
  BufferMayFail = FALSE
  MayCrash = FALSE
  Durable = FALSE
  Owners = {o1, o2}
  Stoppers = {o1, o2}
  Runs = {r1, r2}
  NoRun = NoRun
INVARIANT
  StopJoins

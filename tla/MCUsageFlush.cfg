SPECIFICATION Spec
CONSTANTS
  u1 = u1
  u2 = u2
  u3 = u3
  f1 = f1
  f2 = f2
  p1 = p1
  p2 = p2
  Units <- MCUnits
  Features <- MCFeatures
  FeatureOf <- MCFeatureOf
  Flushers <- MCFlushers
  Calls = {c1, c2, c3}
  NoCall = NoCall
  MaxFaults = 1
  HasSerial = TRUE
  HasOnRefresh = TRUE
  BufferMayFail = TRUE
  MayCrash = TRUE
  Durable = TRUE
SYMMETRY Symmetry
INVARIANTS
  TypeOK
  Conservation
  SingleLiveDelivery
  AckedApplied
PROPERTY
  LedgerSpec

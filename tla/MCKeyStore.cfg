SPECIFICATION Spec
CONSTANTS
  Instances = {i1, i2}
  Keys = {k1, k2, k3, k4}
  Nil = Nil
  Bad = Bad
  Setups <- Sound
  MaxFaults = 3
CHECK_DEADLOCK FALSE
INVARIANT
  TypeOK
PROPERTIES
  KeyShared
  BadEntryKept

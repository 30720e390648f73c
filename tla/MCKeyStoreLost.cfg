SPECIFICATION Spec
CONSTANTS
  Instances = {i1}
  Keys = {k1, k2, k3, k4, k5}
  Nil = Nil
  Bad = Bad
  Setups <- Release
  MaxFaults = 1
SYMMETRY Symmetry
CHECK_DEADLOCK FALSE
INVARIANT
  KeyStable

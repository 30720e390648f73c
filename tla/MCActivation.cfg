SPECIFICATION Spec
CONSTANTS
  Callers = {g1, g2}
  k1 = k1
  k2 = k2
  m1 = m1
  m2 = m2
  KeyIds <- MCKeyIds
  Materials <- MCMaterials
  Baked <- MCBaked
  NoKey = NoKey
  MaxFaults = 1
  MaxKeys = 1
  MaxRevokes = 1
SYMMETRY Symmetry
INVARIANTS
  TypeOK
  UnknownOnlyIfUnpublished
  VerifiedByKnownKey
  OneActivation
PROPERTY
  KeysKept

SPECIFICATION Spec
CONSTANTS
  a = a
  b = b
  t1 = t1
  t2 = t2
  Customers <- MCCustomers
  Tokens <- MCTokens
  OwnerOf <- MCOwnerOf
  Plans <- MCPlans
  Names = {"plain", "reserved", "dots"}
  Refreshers = {r1}
  NoToken = NoToken
  Nobody = Nobody
  MaxFaults = 2
  MaxChanges = 1
INVARIANTS
  SessionTypeOK
  SnapshotHonest
  LogoutSticks
PROPERTY
  RestartResumes

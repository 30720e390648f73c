SPECIFICATION Spec
CONSTANTS
  a = a
  b = b
  t1 = t1
  t2 = t2
  Customers <- MCCustomers
  Tokens <- MCTokens
  OwnerOf <- MCOwnerOf
  Plans <- MCPlans
  Names = {"plain", "reserved", "slashed", "dots", "empty"}
  Refreshers = {r1}
  NoToken = NoToken
  Nobody = Nobody
  MaxFaults = 0
  MaxChanges = 0
INVARIANT
  QueryArrives

SPECIFICATION Spec
CONSTANTS
  Logins = {l1, l2}
  Conns = {c1}
  NoConn = NoConn
  NoLogin = NoLogin
  MaxFaults = 0
CHECK_DEADLOCK FALSE
INVARIANT
  PageTellsTruth

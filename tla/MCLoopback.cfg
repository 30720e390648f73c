SPECIFICATION FairSpec
CONSTANTS
  Logins = {l1, l2}
  Conns = {c1, c2}
  NoConn = NoConn
  NoLogin = NoLogin
  MaxFaults = 1
CHECK_DEADLOCK FALSE
INVARIANTS
  TypeOK
  CodesStayApart
  ClosesUp
PROPERTIES
  LoginReturns
  AcceptorEnds

CONSTANTS
  s1 = s1
  s2 = s2
  a1 = a1
  a2 = a2
  a3 = a3
  b1 = b1
  NoConn = NoConn
  Session = {s1, s2}
  Conn = {a1, a2, a3}
  SessionOf <- MCSessionOf
  MaxClients = 2
  AutoDispose = TRUE
  Kicks = TRUE
  JoinTimeouts = TRUE
  SecondSockets = TRUE
SPECIFICATION Spec
SYMMETRY MCSymmetry
INVARIANTS ServerTypeOK OnLeaveIsFinal HeldSeatHasEntry ListingAgrees TokenUsedOnce
PROPERTY StaleConnectionIgnored
CHECK_DEADLOCK FALSE

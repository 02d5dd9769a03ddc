CONSTANTS
  s1 = s1
  s2 = s2
  a1 = a1
  a2 = a2
  a3 = a3
  b1 = b1
  NoConn = NoConn
  Session = {s1, s2}
  Conn = {a1, a2}
  SessionOf <- MCSessionOf
  MaxClients = 1
  AutoDispose = TRUE
  Kicks = FALSE
  JoinTimeouts = FALSE
  SecondSockets = FALSE
SPECIFICATION Spec
INVARIANT RejectedIsToldToClose

CHECK_DEADLOCK FALSE

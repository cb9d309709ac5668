CONSTANTS
  t1 = t1
  t2 = t2
  t3 = t3
  u1 = u1
  u2 = u2
  u3 = u3
  s1 = s1
  s2 = s2
  None = None
  Tcp = {t1, t2}
  Udp = {u1, u2}
  SessionIds = {s1}
  IpOf <- HostPerClient
  SocketOf <- Sockets
  MaxCommands <- OneCommand
  LeavesBeforeJoin = TRUE
  Faults = {"tcp"}
SPECIFICATION Spec
INVARIANTS NoGhost
SYMMETRY Symmetry
CHECK_DEADLOCK FALSE

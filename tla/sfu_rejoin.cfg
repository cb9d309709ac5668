CONSTANTS
  t1 = t1
  t2 = t2
  t3 = t3
  u1 = u1
  u2 = u2
  u3 = u3
  s1 = s1
  s2 = s2
  None = None
  Tcp = {t1, t2}
  Udp = {u1, u2}
  SessionIds = {s1, s2}
  IpOf <- SharedHost
  SocketOf <- Sockets
  MaxCommands <- OneRejoins
  LeavesBeforeJoin = TRUE
  Faults = {"tcp"}
SPECIFICATION Spec
INVARIANTS SfuTypeOK NoOrphanSession SeatsAgree PortsAgree MembersSeated MappingsLive PortsSeated
PROPERTIES UsesRegistry
SYMMETRY SessionSymmetry
CHECK_DEADLOCK FALSE

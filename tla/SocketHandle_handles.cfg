SPECIFICATION Spec
CONSTANTS
  Objs = {o1, o2, o3}
  Fds = {f1, f2, f3}
  Invalid = Invalid
  AnyAddr = AnyAddr
  NoAddr = NoAddr
  Loopback = Loopback
  Remote = Remote
  Addrs <- LoopbackAndRemote
  LocalAddrs <- LoopbackOnly
  Ports = {1, 2}
  PortMod = 3
  Backlog = 1
INVARIANTS OneOpenOwner FieldsTellTruth
PROPERTIES OrphanedOnlyByAssign ImplementsOwnership

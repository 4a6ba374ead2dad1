SPECIFICATION Spec
CONSTANTS
  Objs = {o1, o2, o3, o4}
  Handles = {h1, h2, h3}
  Invalid = Invalid
  AnyAddr = AnyAddr
  NoAddr = NoAddr
  Garbled = Garbled
  Remote = Remote
  Addrs <- Everywhere
SYMMETRY Symmetry
INVARIANTS CountedOnce StartedOnce OneOpenOwner

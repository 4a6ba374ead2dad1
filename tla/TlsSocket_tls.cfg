SPECIFICATION Spec
CONSTANTS
  Objs = {o1, o2, o3}
  Fds = {f1, f2, f3}
  None = None
  ReuseMoved = FALSE
SYMMETRY Symmetry
INVARIANTS HandleFitsSocket RoleFits NoOrphan DisconnectedIsClosed

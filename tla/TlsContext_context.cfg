SPECIFICATION Spec
CONSTANTS
  Threads = {t1, t2}
  Slots = {1, 2, 3}
  Ctxs = {c1, c2}
  Null = Null
  Programs <- Safe
  MaxBorrowed = 2
INVARIANTS Accounting SeenIsLive FreedOnce ContextOutlivesObjects
SYMMETRY Symmetry

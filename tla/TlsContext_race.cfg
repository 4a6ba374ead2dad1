SPECIFICATION Spec
CONSTANTS
  Threads = {t1, t2}
  Slots = {1}
  Ctxs = {c1, c2}
  Null = Null
  Programs <- Bare
  MaxBorrowed = 1
INVARIANTS SeenIsLive

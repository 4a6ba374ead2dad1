SPECIFICATION Spec
CONSTANTS
  Conns = {c1, c2}
  Senders = {c1}
  Bufs = {b1, b2}
  Nothing = Nothing
  MaxRetry = 1
  Room = 1
  MaxRecords = 2
  MaxSends = 2
  MaxArrive = 1
INVARIANTS WholeMessages FailuresAreOwn NothingDropped DisconnectedIsLast
PROPERTIES CallReturns

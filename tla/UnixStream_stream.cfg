SPECIFICATION Spec
CONSTANTS
  Systems = {"unix", "windows"}
  Packet = 2
  MaxRetry = 1
  SndCap = 2
  RcvCap = 2
  MaxWrite = 5
  MaxBytes = 5
INVARIANTS Conserved CleanClose SkippedOnlyWhenFull
PROPERTIES ImplementsStream SendReturns AcceptedArrives

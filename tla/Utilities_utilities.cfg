SPECIFICATION UtilSpec
CONSTANTS
  StepMin = 1
  StepMax = 3
  MaxRetry = 2
  Byte <- Bytes
  Delim <- TwoDs
  Requests <- Calls
  Jitter = 1
  RecvCost = 1
  MaxStream = 4
  LineLen = 8
  MaxText = 7
  Sample = {27, 228}
  Texts <- ShortTexts
  Base = 4
INVARIANTS CollectsTheStream NotYet Punctual RfcText RoundTrip ReadsBack
PROPERTIES CallEnds
CHECK_DEADLOCK FALSE

SPECIFICATION ByteSpec
CONSTANTS
  LineLen = 8
  MaxText = 7
  Sample = {27, 228}
  Texts <- ShortTexts
  Base = 4
INVARIANT EveryTypeReadsBack
CHECK_DEADLOCK FALSE

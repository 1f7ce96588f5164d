\* A buffer of four bytes: texts within it, beyond it, and more than twice as long.
SPECIFICATION FairSpec
CONSTANTS
  Texts <- MCTexts
  Buffer = 4
  MaxText = 4
INVARIANTS
  ShortTextExact
  OneLostPerBuffer
PROPERTIES
  ConversionEnds
CHECK_DEADLOCK FALSE

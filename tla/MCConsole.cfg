\* Typing ahead, correcting and printing, with pipes that can fill up and conversions that
\* lose characters.
SPECIFICATION FairSpec
CONSTANTS
  Words <- MCWords
  Invalid <- MCInvalid
  WideFits = 4
  NarrowFits = 4
  Garbled <- MCGarbled
  Recoded <- MCRecoded
  Typed <- MCTyped
  InCapacity = 6
  OutCapacity = 2
  MaxPrint = 2
  MaxOutput = 3
INVARIANTS
  EditedInOrder
  LineHeldOnlyAfterBurst
  TypeAheadOnlyFeedsBare
  NoWordLost
PROPERTIES
  LinesRead
  OutputShown
  HeldLinesDrain
CHECK_DEADLOCK FALSE

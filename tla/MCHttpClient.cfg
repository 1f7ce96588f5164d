\* The reader, in both builds, over whole and truncated responses.
SPECIFICATION FairSpec
CONSTANTS
  Wires <- MCWires
  SizeMod = 64
  HexMod = 64
  MaxFrame = 3
INVARIANTS
  DeliveredInOrder
  OverReadOnlyAtClose
  BlankOnlyAtClose
PROPERTIES
  FrameDelivery
  EveryFrameDelivered
  ReaderEnds
CHECK_DEADLOCK FALSE

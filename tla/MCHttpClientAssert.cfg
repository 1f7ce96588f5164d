\* The assertion of chunk_body_read_complete.
SPECIFICATION Spec
CONSTANTS
  Wires <- MCWires
  SizeMod = 64
  HexMod = 64
  MaxFrame = 3
INVARIANTS
  ChunkAssertion
CHECK_DEADLOCK FALSE

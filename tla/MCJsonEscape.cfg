\* Every escape of one code, surrogates in and out of pairs, and the other alternatives.
SPECIFICATION EscapeSpec
CONSTANTS
  Escapes <- MCEscapes
INVARIANTS
  EscapesDecoded
CHECK_DEADLOCK FALSE

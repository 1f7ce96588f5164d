CONSTANTS
  MaxSockets = 3
  MaxInherited = 2
SPECIFICATION Spec
INVARIANTS
  EndsAsItBegan
  NoStrayCall
\* The process ends.
CHECK_DEADLOCK FALSE

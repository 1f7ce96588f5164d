\* Reader threads against the destructor, on a console and on a pipe.
SPECIFICATION FairSpec
CONSTANTS
  MaxReads = 3
  MaxRecords = 3
INVARIANTS
  OneReadAtATime
  KeysArriveInOrder
PROPERTIES
  NoPostOnceDestroyed
  WaitersReleased
  DestructionEnds
CHECK_DEADLOCK FALSE

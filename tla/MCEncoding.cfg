CONSTANT Requests <- MCRequests
SPECIFICATION EncodingSpec
INVARIANTS
  ServerWritesMessage
  DigestArrives
  MessageHasOneReading
\* A request is sent once.
CHECK_DEADLOCK FALSE

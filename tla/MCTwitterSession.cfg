\* A session of up to four connections, every one of which may fail.
SPECIFICATION Spec
CONSTANTS
  token = token
  hello = hello
  world = world
  None = None
  Tokens <- MCTokens
  Texts <- MCTexts
  Pins <- MCPins
  Uris <- Apis
  UserToken = token
  MaxClients = 4
INVARIANTS
  EveryRequestVerifies
  StatusOnlyInItsPost
  StreamRequestedOnce
PROPERTIES
  QuietAfterExit
CHECK_DEADLOCK FALSE

\* The authorization flow over replies in one chunk or two.
SPECIFICATION AuthSpec
CONSTANTS
  pin = pin
  None = None
  Tokens <- MCTokens
  Texts = {}
  Pins <- MCPins
  Uris <- AuthUris
  Symbols <- MCSymbols
  Replies <- MCReplies
  RequestToken <- MCRequestToken
  AccessToken <- MCAccessToken
  Rests <- MCRests
  Junk <- MCJunk
  MaxClients = 3
INVARIANTS
  GrantedIffWhole
  PrintedIsGranted
CHECK_DEADLOCK FALSE

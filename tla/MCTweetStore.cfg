\* Stream chunks and timelines of two users who share a screen_name.
SPECIFICATION Spec
CONSTANTS
  alice = alice
  bob = bob
  nameA = nameA
  nameB = nameB
  t1 = t1
  t2 = t2
  t3 = t3
  NoField = NoField
  UserIds <- MCUserIds
  Names <- MCNames
  TweetIds <- MCTweetIds
  Responses <- MCResponses
INVARIANTS
  AuthorKnownOrRefused
  RetweetKept
  PassedAreStored
PROPERTIES
  FirstVersionWins
CHECK_DEADLOCK FALSE

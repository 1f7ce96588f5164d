\* A tweet and its retweet, pushed in any chunks, against timelines that come late.
SPECIFICATION FeedSpec
CONSTANTS
  alice = alice
  bob = bob
  nameA = nameA
  nameB = nameB
  NoField = NoField
  UserIds <- MCUserIds
  Names <- MCNames
  TweetIds = {1, 2}
  Responses <- MCResponses
  Catalogue <- MCCatalogue
  Before <- MCBefore
  Invented <- MCInvented
  MaxParts = 5
  MaxReplies = 2
INVARIANTS
  StaleOnlyIfOvertaken
  NothingMadeUp
  InSyncWhenQuiet
CHECK_DEADLOCK FALSE

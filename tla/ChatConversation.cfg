\* Buffered requests of three clients whose chats open alike, chained or in one
\* conversation, over two accounts.
SPECIFICATION FairSpec
CHECK_DEADLOCK FALSE
CONSTANTS
  Clients = {"c1", "c2", "c3"}
  Pools <- TwoAccounts
  NoAccount = "none"
  ConvOf <- ChainOrConversation
  NoConv = "noconv"
  Opening <- SameOpening
  FollowUps = {"more"}
  Answers = {"x"}
  Streaming = {FALSE}
  Uploading = {FALSE}
  Events = {}
  MaxRequests = 2
  MaxRestarts = 0
INVARIANTS
  RunnersSerialized
PROPERTIES
  NoLostTurn
  EveryRequestEnds

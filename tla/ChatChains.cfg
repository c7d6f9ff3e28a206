\* Chained chats with distinct openings: failed turns, resume errors, streams
\* and restarts.
SPECIFICATION Spec
CHECK_DEADLOCK FALSE
CONSTANTS
  Clients = {"c1", "c2"}
  Pools <- TwoAccounts
  NoAccount = "none"
  ConvOf <- AllChain
  NoConv = "noconv"
  Opening <- TwoOpenings
  FollowUps = {"more"}
  Answers = {"x", "y"}
  Streaming = {FALSE, TRUE}
  Uploading = {FALSE}
  Events = {"fail", "resume"}
  MaxRequests = 2
  MaxRestarts = 1
INVARIANTS
  ContextIsOwnHistory
  AnsweredChatsResume

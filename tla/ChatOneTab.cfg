\* One client after another: uploads, streams, expired sessions, purges and
\* restarts with another accounts.txt.
SPECIFICATION Spec
CHECK_DEADLOCK FALSE
CONSTANTS
  Clients = {"c1"}
  Pools <- GrowingPool
  NoAccount = "none"
  ConvOf <- AllChain
  NoConv = "noconv"
  Opening <- TwoOpenings
  FollowUps = {"more"}
  Answers = {"x"}
  Streaming = {FALSE, TRUE}
  Uploading = {FALSE, TRUE}
  Events = {"fail", "resume", "disconnect", "resend", "degrade"}
  MaxRequests = 3
  MaxRestarts = 2
INVARIANTS
  NoForeignContinuation
  FreshStartsFresh
  RowsMatchTheirAccount

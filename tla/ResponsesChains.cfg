\* Two clients in every good scene: failures, resume errors, lost replies,
\* disconnects, a restart with a purge or in the middle of a save.
SPECIFICATION Spec
CHECK_DEADLOCK FALSE
CONSTANTS
  Clients = {"c1", "c2"}
  Scenes <- GoodScenes
  Events = {"fail", "disconnect", "resume", "lost", "purge", "kill"}
  MaxRequests = 3
  MaxRestarts = 1
INVARIANTS
  ContextIsHistory
  NothingTwice
  NormWasSent
  ResponsesResume
  NewMessagesPass
  NoJunkRows
PROPERTIES
  ConversationsGrow

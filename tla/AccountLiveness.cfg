\* Buffered requests on two accounts: all of them and the healer end.
SPECIFICATION FairSpec
CHECK_DEADLOCK FALSE
CONSTANTS
  N = 2
  Requests = {"r1", "r2"}
  Healer = "healer"
  NoTask = "none"
  COOLDOWN_STRIKES = 1
  MaxTurns = 1
  MaxUploads = 1
  MaxServed = 1
  MaxClients = 3
  MaxStrikes = 1
  Streaming = {FALSE}
  Resuming = {FALSE, TRUE}
  Events = {"error", "stall", "degrade"}
INVARIANTS
  NoFileLeft
  ClientsAccounted
PROPERTIES
  EveryRequestEnds
  HealEnds

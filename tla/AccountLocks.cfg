\* Requests of up to two turns with files, retries and cancellations on one
\* account, and the healer.
SPECIFICATION Spec
CHECK_DEADLOCK FALSE
CONSTANTS
  N = 1
  Requests = {"r1", "r2"}
  Healer = "healer"
  NoTask = "none"
  COOLDOWN_STRIKES = 1
  MaxTurns = 2
  MaxUploads = 1
  MaxServed = 1
  MaxClients = 2
  MaxStrikes = 1
  Streaming = {FALSE, TRUE}
  Resuming = {FALSE, TRUE}
  Events = {"error", "resume", "stall", "cancel", "degrade"}
INVARIANTS
  OneTurnPerAccount
  LocksHaveOwners
  FilesPresent
PROPERTIES
  ServesInOrder

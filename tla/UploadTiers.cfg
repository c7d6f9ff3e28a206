\* Two clients of two processes; three files for two places, Redis fails, a
\* process restarts.
SPECIFICATION Spec
CHECK_DEADLOCK FALSE
CONSTANTS
  Procs = {p, q}
  Clients = {c1, c2}
  Files = {1, 2, 3}
  Cap = 2
  RedisFails = TRUE
  SameSecond = FALSE
  MaxCalls = 5
  MaxRestarts = 1
SYMMETRY Interchangeable
INVARIANTS
  UploadsSurvive
  EvictedIsForgotten
  DeletedIsGone
  SharedKeepsNewest

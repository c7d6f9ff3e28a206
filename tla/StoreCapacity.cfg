\* A chain and a conversation of two clients, room for two rows, four aliases and
\* two responses, five requests (four with Redis, where every call may be
\* interleaved), a shutdown or a kill.
SPECIFICATION Spec
CHECK_DEADLOCK FALSE
CONSTANTS
  ChainClients = {c}
  ConvClients = {v1,v2}
  Conv = conv
  Fresh = fresh
  Pinned = pinned
  Cap = 2
  SharedModes = {TRUE, FALSE}
  MaxTurns = 5
  MaxShared = 4
  MaxRestarts = 1

SYMMETRY Interchangeable
INVARIANTS
  TiersInStep
  AnswersAreKept
  ChainsResume
  ResponsesKept

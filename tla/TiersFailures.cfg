\* A turn that may fail, a lookup, and a purge in another process; or three turns of
\* one process that may fail.  Redis fails and a process restarts.
SPECIFICATION Spec
CHECK_DEADLOCK FALSE
CONSTANTS
  Procs = {"p", "q"}
  Tasks = {"pr", "pt1", "qt1", "qt2", "qt3", "qx"}
  ProcOf <- TaskProcess
  KindOf <- TaskKind
  Scenes = {{"pr", "pt1", "qx"}, {"qt1", "qt2", "qt3"}}
  Holders = {{"q"}}
  NoRow = NoRow
  RedisFails = TRUE
  TurnFails = TRUE
  SameSecond = FALSE
  MaxRestarts = 1
INVARIANTS
  WrittenThrough
  TurnsContinue
PROPERTIES
  CreationKeepsRows
  AnswersReachSQLite

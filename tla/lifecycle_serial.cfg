\* One request thread and no unlikely schedule; three searches of a chat after one another.
SPECIFICATION Spec
CONSTANTS
  Chats = {c1}
  Pids = {p1, p2, p3}
  Users = {poller}
  Poller = poller
  Watchdog = watchdog
  NoPid = nopid
  Limit = 0
  KeepsLogin = TRUE
  Scenarios = {}
SYMMETRY PidSymmetry
INVARIANTS
  TypeOK
  NoOrphan
  OneSearchPerChat
  TruthfulCrash
  RecordedKeepsLogin
  SessionAgrees
  FinishedNotRecorded
CHECK_DEADLOCK FALSE

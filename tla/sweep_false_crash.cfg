\* The administrator cancels every search while the watchdog makes its pass.
SPECIFICATION Spec
CONSTANTS
  Chats = {c1}
  Pids = {p1, p2}
  Users = {poller}
  Poller = poller
  Watchdog = watchdog
  NoPid = nopid
  Limit = 0
  KeepsLogin = TRUE
  Scenarios = {"cancel_all"}
INVARIANTS
  TruthfulCrash
CHECK_DEADLOCK FALSE

\* A chat starts its next search while the callback of its last one is being served.
SPECIFICATION Spec
CONSTANTS
  Chats = {c1}
  Pids = {p1, p2}
  Users = {poller}
  Poller = poller
  Watchdog = watchdog
  NoPid = nopid
  Limit = 0
  KeepsLogin = TRUE
  Scenarios = {"late_callback"}
INVARIANTS
  NoOrphan
CHECK_DEADLOCK FALSE

\* One request thread, every schedule.
SPECIFICATION Spec
CONSTANTS
  Chats = {c1}
  Pids = {p1, p2}
  Users = {poller}
  Poller = poller
  Watchdog = watchdog
  NoPid = nopid
  Limit = 0
  KeepsLogin = TRUE
  Scenarios = {"late_pass", "late_callback", "early_exit", "slow_callback", "cancel_all"}
SYMMETRY PidSymmetry
INVARIANTS
  EveryChildHasHandle
  CancelledStaysGone
  NoLiveSearchReportedDead
CHECK_DEADLOCK FALSE

\* Every record of a dead search goes away, whatever is under way when the next one starts,
\* and every record of an earlier run.
SPECIFICATION FairRecovery
CONSTANTS
  Chats = {c1}
  Pids = {p1, p2}
  Users = {poller}
  Poller = poller
  Watchdog = watchdog
  NoPid = nopid
  Limit = 0
  KeepsLogin = TRUE
  Scenarios = {"late_pass", "late_callback"}
  MaxStops = 1
  Accidents = {"resume_dies", "lost_callback", "cancel_dying"}
PROPERTIES
  DeadRecordCleared
  StaleRecordSettled
CHECK_DEADLOCK FALSE

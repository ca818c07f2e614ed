\* The poller and the Mini App book for the same chat.
SPECIFICATION Spec
CONSTANTS
  Chats = {c1}
  Pids = {p1, p2}
  Users = {poller, miniapp}
  Poller = poller
  Watchdog = watchdog
  NoPid = nopid
  Limit = 0
  KeepsLogin = TRUE
  Scenarios = {}
INVARIANTS
  OneSearchPerChat
CHECK_DEADLOCK FALSE

\* One request thread, the application stopping or crashing twice; no accident.
SPECIFICATION RecoverySpec
CONSTANTS
  Chats = {c1}
  Pids = {p1, p2, p3}
  Users = {poller}
  Poller = poller
  Watchdog = watchdog
  NoPid = nopid
  Limit = 0
  KeepsLogin = TRUE
  Scenarios = {}
  MaxStops = 2
  Accidents = {}
SYMMETRY PidSymmetry
INVARIANTS
  ShutdownStopsAll
  NothingLeftOver
  NoSilentEnd
  TruthfulResume
  OfferHasLogin
  NoOrphanAcrossRuns
  TruthfulCrash
CHECK_DEADLOCK FALSE

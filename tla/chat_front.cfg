SPECIFICATION Spec
CONSTANTS
  n1 = n1
  d1 = d1
  d2 = d2
  t1 = t1
  t2 = t2
  Numbers = {n1}
  NoNumber = none
  ServerNumber = n1
  Dates = {d1, d2}
  TrainsOn <- MCTrainsOn
  Appointment = {1, 2}
  TrialLimit = 1
  Preapproved = {}
  MaxFavourites = 1
  Worlds <- MCWorlds
INVARIANTS
  TypeOK
  AnswersComplete
  LoginFits
  ConditionsFitRailway
  WatchedTrainsRun
  AllowanceKept
  AppointmentHasLogin
PROPERTY
  AppointmentsKept

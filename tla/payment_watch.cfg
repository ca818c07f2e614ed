\* Two bookings one after the other, the application stopping once at any moment.
SPECIFICATION FairSpec
CONSTANTS
  Bookings = {b1, b2}
  NoBooking = nobooking
  App = app
  Nobody = nobody
  MaxStops = 1
  Scenarios = {}
INVARIANTS
  TypeOK
  PaidIsPaid
  ExpiredIsUnpaid
  VerdictOnce
  RecordKept
  SettledIsTold
  ReminderBacked
PROPERTIES
  OpenSettles
CHECK_DEADLOCK FALSE

\* The railway cannot be asked when the deadline comes.
SPECIFICATION Spec
CONSTANTS
  Bookings = {b1}
  NoBooking = nobooking
  App = app
  Nobody = nobody
  MaxStops = 0
  Scenarios = {"railway_silent"}
INVARIANTS
  ExpiredIsUnpaid
CHECK_DEADLOCK FALSE

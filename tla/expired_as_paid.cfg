\* The railway takes an expired seat off its list before a watcher looks again.
SPECIFICATION Spec
CONSTANTS
  Bookings = {b1}
  NoBooking = nobooking
  App = app
  Nobody = nobody
  MaxStops = 0
  Scenarios = {"prompt_drop"}
INVARIANTS
  PaidIsPaid
CHECK_DEADLOCK FALSE

\* Groups of two and three; an order, a second one, a stop.
SPECIFICATION Spec
CONSTANTS
  Reservations = {1, 2, 3, 4}
  MaxOrders = 2
  MaxStops = 1
  Worlds <- MCWorlds
INVARIANTS
  TypeOK
  SeatsAsAsked
  SeatsOnRecord
  VerdictsTrue
PROPERTY
  TurnsTaken
CHECK_DEADLOCK FALSE

SPECIFICATION LiveSpec
CONSTANTS
  r1 = r1
  r2 = r2
  Reservations = {r1, r2}
  Nights = {1, 2}
  Stay <- MCStay
  Rooms <- MCRooms
  Price = 1
  Sellable = 1
  Window = 1
  MaxWait = 0
  Horizon = 2
  Payments <- MCOnePayment
  MaxAnswers = 1
CHECK_DEADLOCK FALSE
INVARIANTS
  NightsMatchReservations
PROPERTIES
  ReservationsSettle

SPECIFICATION Spec
CONSTANTS
  r1 = r1
  r2 = r2
  Reservations = {r1}
  Nights = {2}
  Stay <- MCStay
  Rooms <- MCRooms
  Price = 2
  Sellable = 1
  Window = 2
  MaxWait = 1
  Horizon = 3
  Payments <- MCTwoPayments
  MaxAnswers = 1
CHECK_DEADLOCK FALSE
INVARIANTS
  MoneyIsAccounted
  OneWinner
PROPERTIES
  ExpiresOnTime

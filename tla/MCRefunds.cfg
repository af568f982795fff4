SPECIFICATION RefundsSpec
CONSTANTS
  Returns = {m1, m2}
  Direct = direct
  Sold = 2
  Net = 5
  Total = 5
  MaxRetries = 1
SYMMETRY Symmetry
INVARIANTS MoneyGoesBackOnce ShipOrRefund GoodsComeBackOnce CaseMatchesRefund
CHECK_DEADLOCK FALSE

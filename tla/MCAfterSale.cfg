SPECIFICATION Spec
CONSTANTS
  Returns = {m1}
  Direct = direct
  Sold = 2
  Net = 4
  Total = 4
  MaxRetries = 0
INVARIANT InvoiceMatchesRegister
CHECK_DEADLOCK FALSE

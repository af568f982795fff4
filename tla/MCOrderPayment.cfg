SPECIFICATION LiveSpec
CONSTANTS
  o1 = o1
  o2 = o2
  shirt = shirt
  mug = mug
  Orders = {o1}
  Products = {}
  Quantity <- MCQuantity
  Price <- MCPrice
  Wish <- MCWish
  CouponOrders = {o1}
  CouponLimit = 1
  Wallet = 1
  OnHand <- MCOnHand
  Reservation = 2
  MaxLag = 0
  Horizon = 4
  MaxPayments = 2
  MaxOnHand = 1
CHECK_DEADLOCK FALSE
INVARIANTS
  AttemptsMatchOrder
  NoAttemptIsForgotten
PROPERTIES
  OrdersSettle

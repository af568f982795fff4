SPECIFICATION Spec
CONSTANTS
  o1 = o1
  o2 = o2
  shirt = shirt
  mug = mug
  Orders = {o1, o2}
  Products = {shirt, mug}
  Quantity <- MCQuantity
  Price <- MCPrice
  Wish <- MCWish
  CouponOrders = {o1, o2}
  CouponLimit = 1
  Wallet = 1
  OnHand <- MCOnHand
  Reservation = 1
  MaxLag = 0
  Horizon = 2
  MaxPayments = 1
  MaxOnHand = 1
CHECK_DEADLOCK FALSE
INVARIANTS
  StockMatchesOrders
  BenefitsMatchOrders
PROPERTIES
  ImplementsSale

--------------------------- MODULE MCBookingRefund ---------------------------
EXTENDS BookingRefund

\* The older refund is retried once, the younger waits behind it.
OldestRetried == [r \in Refunds |-> IF r = 1 THEN 2 ELSE 1]
=============================================================================

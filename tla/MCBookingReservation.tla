----------------------- MODULE MCBookingReservation -----------------------
(* BookingReservation on small instances: r1 stays two nights and pays, r2
   wants the second night of the same single room. *)
EXTENDS BookingReservation

CONSTANTS r1, r2

MCStay == [r \in Reservations |-> IF r = r1 THEN Nights ELSE {2}]
MCRooms == [r \in Reservations |-> 1]
MCTwoPayments == [r \in Reservations |-> IF r = r1 THEN 2 ELSE 0]
MCOnePayment == [r \in Reservations |-> IF r = r1 THEN 1 ELSE 0]
=============================================================================

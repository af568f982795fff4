----------------------------- MODULE OrderSale -----------------------------
(***************************************************************************)
(* What checkout promises about the goods of an order, without payments,   *)
(* jobs, clocks or counters of reservations: an order holds its goods from *)
(* the moment it exists, and then either sells them or gives them back,    *)
(* once; sold goods may be taken back, once.  Goods are promised to an    *)
(* order only while they are free, so nothing is promised twice.           *)
(***************************************************************************)
EXTENDS Integers

CONSTANTS Orders, Products,
          Quantity  \* [Orders -> [Products -> Nat]]

VARIABLES
  sale,  \* [Orders -> "none", "held", "sold", "returned" or "refunded"]
  free   \* [Products -> Nat], goods promised to nobody

Init == /\ sale = [o \in Orders |-> "none"]
        /\ free \in [Products -> Nat]

\* The order takes its goods out of what is free.
Hold(o) == /\ sale[o] = "none"
           /\ \A p \in Products : Quantity[o][p] <= free[p]
           /\ sale' = [sale EXCEPT ![o] = "held"]
           /\ free' = [p \in Products |-> free[p] - Quantity[o][p]]

Sell(o) == /\ sale[o] = "held"
           /\ sale' = [sale EXCEPT ![o] = "sold"]
           /\ UNCHANGED free

\* The goods are free again, all of them.
Return(o) == /\ sale[o] = "held"
             /\ sale' = [sale EXCEPT ![o] = "returned"]
             /\ free' = [p \in Products |-> free[p] + Quantity[o][p]]

\* Sold goods come back, all of them.
TakeBack(o) == /\ sale[o] = "sold"
               /\ sale' = [sale EXCEPT ![o] = "refunded"]
               /\ free' = [p \in Products |-> free[p] + Quantity[o][p]]

\* Goods arrive, or free ones are written off.
Recount(p) == /\ free' \in [Products -> Nat]
              /\ \A q \in Products \ {p} : free'[q] = free[q]
              /\ UNCHANGED sale

Next == \/ \E o \in Orders : Hold(o) \/ Sell(o) \/ Return(o) \/ TakeBack(o)
        \/ \E p \in Products : Recount(p)

Spec == Init /\ [][Next]_<<sale, free>>
=============================================================================

------------------------- MODULE MCOrderLifecycle -------------------------
(* OrderLifecycle on small instances: two orders of one customer that share a
   product, a coupon and a wallet. *)
EXTENDS OrderLifecycle

CONSTANTS o1, o2, shirt, mug

\* The orders compete for the last shirt or mug; o1 wants both.
MCQuantity == [o \in Orders |-> [p \in Products |->
                 IF p = shirt \/ o = o1 THEN 1 ELSE 0]]
MCOnHand == [p \in Products |-> 1]

\* The wallet pays o2 in full, or part of o1.
MCPrice == [o \in Orders |-> IF o = o1 THEN 2 ELSE 1]
MCWish == [o \in Orders |-> 1]
=============================================================================

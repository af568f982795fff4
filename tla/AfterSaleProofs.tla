--------------------------- MODULE AfterSaleProofs ---------------------------
(***************************************************************************)
(* The safety properties of Refunds and AfterSale, for any number of        *)
(* return cases and retries.                                               *)
(***************************************************************************)
EXTENDS AfterSale, FiniteSetTheorems, TLAPS

-----------------------------------------------------------------------------
(***************************************************************************)
(* What a sum is when its set gains or loses a member                      *)
(***************************************************************************)

\* One member has as many units as the function says.
LEMMA UnitsOfOne ==
  ASSUME NEW x, NEW n \in Nat
  PROVE  /\ IsFiniteSet({x} \X (1..n))
         /\ Cardinality({x} \X (1..n)) = n
<1>1. IsFiniteSet({x}) /\ Cardinality({x}) = 1
  BY FS_Singleton
<1>2. IsFiniteSet(1..n) /\ Cardinality(1..n) = n
  BY FS_Interval
<1>3. /\ IsFiniteSet({x} \X (1..n))
      /\ Cardinality({x} \X (1..n)) = Cardinality({x}) * Cardinality(1..n)
  BY <1>1, <1>2, FS_Product
<1> QED
  BY <1>1, <1>2, <1>3

\* A finite sum of numbers is a number.
LEMMA SumType ==
  ASSUME NEW S, IsFiniteSet(S), NEW f, \A x \in S : f[x] \in Nat
  PROVE  IsFiniteSet(Units(f, S)) /\ SumOver(f, S) \in Nat
<1> DEFINE g == [x \in S |-> {x} \X (1..f[x])]
           T == {{x} \X (1..f[x]) : x \in S}
<1>1. g \in Surjection(S, T)
  BY DEF Surjection
<1>2. IsFiniteSet(T)
  BY <1>1, FS_Surjection
<1>3. \A U \in T : IsFiniteSet(U)
  <2> SUFFICES ASSUME NEW x \in S PROVE IsFiniteSet({x} \X (1..f[x]))
    OBVIOUS
  <2> QED
    BY UnitsOfOne
<1>4. IsFiniteSet(UNION T)
  <2> HIDE DEF T
  <2> QED
    BY <1>2, <1>3, FS_UNION
<1> QED
  BY <1>4, FS_CardinalityType DEF Units, SumOver

\* Nothing sums up to nothing.
LEMMA SumEmpty == \A f : SumOver(f, {}) = 0
<1>1. \A f : Units(f, {}) = {}
  BY DEF Units
<1> QED
  BY <1>1, FS_EmptySet DEF SumOver

\* A new member adds what it has.
LEMMA SumAdd ==
  ASSUME NEW S, IsFiniteSet(S), NEW f, NEW y, y \notin S,
         \A x \in S \cup {y} : f[x] \in Nat
  PROVE  SumOver(f, S \cup {y}) = SumOver(f, S) + f[y]
<1> DEFINE U == {y} \X (1..f[y])
<1>1. Units(f, S \cup {y}) = Units(f, S) \cup U
  BY DEF Units
<1>2. Units(f, S) \cap U = {}
  BY DEF Units
<1>3. IsFiniteSet(Units(f, S)) /\ Cardinality(Units(f, S)) \in Nat
  BY SumType DEF SumOver
<1>4. IsFiniteSet(U) /\ Cardinality(U) = f[y]
  BY UnitsOfOne
<1>5. Cardinality(Units(f, S) \cup U)
        = Cardinality(Units(f, S)) + Cardinality(U) - Cardinality(Units(f, S) \cap U)
  BY <1>3, <1>4, FS_Union
<1>6. Cardinality(Units(f, S) \cap U) = 0
  BY <1>2, FS_EmptySet
<1>7. /\ SumOver(f, S \cup {y}) = Cardinality(Units(f, S) \cup U)
      /\ SumOver(f, S) = Cardinality(Units(f, S))
  BY <1>1 DEF SumOver
<1> HIDE DEF U
<1> QED
  BY <1>3, <1>4, <1>5, <1>6, <1>7

\* A sum looks at the values of its members only.
LEMMA SumSame ==
  ASSUME NEW S, NEW f, NEW g, \A x \in S : f[x] = g[x]
  PROVE  SumOver(f, S) = SumOver(g, S)
<1>1. Units(f, S) = Units(g, S)
  BY DEF Units
<1> QED
  BY <1>1 DEF SumOver

\* A sum of which one member has anything is that member's.
LEMMA SumOfOne ==
  ASSUME NEW S, NEW f, NEW y \in S, f[y] \in Nat, \A x \in S \ {y} : f[x] = 0
  PROVE  SumOver(f, S) = f[y]
<1>1. Units(f, S) = {y} \X (1..f[y])
  <2>1. Units(f, S) \subseteq {y} \X (1..f[y])
    <3> SUFFICES ASSUME NEW x \in S, NEW u \in {x} \X (1..f[x])
                 PROVE  u \in {y} \X (1..f[y])
      BY DEF Units
    <3>1. 1..f[x] # {}
      OBVIOUS
    <3> QED
      BY <3>1
  <2> QED
    BY <2>1 DEF Units
<1>2. Cardinality({y} \X (1..f[y])) = f[y]
  BY UnitsOfOne
<1> QED
  BY <1>1, <1>2 DEF SumOver

\* A member joins, and brings its value under another function.
LEMMA SumGains ==
  ASSUME NEW S, IsFiniteSet(S), NEW f, NEW g, NEW y, y \notin S,
         \A x \in S : g[x] \in Nat, g[y] \in Nat, \A x \in S : f[x] = g[x]
  PROVE  SumOver(g, S \cup {y}) = SumOver(f, S) + g[y]
<1>1. \A x \in S \cup {y} : g[x] \in Nat
  OBVIOUS
<1>2. SumOver(g, S \cup {y}) = SumOver(g, S) + g[y]
  BY <1>1, SumAdd
<1>3. SumOver(g, S) = SumOver(f, S)
  BY SumSame
<1> QED
  BY <1>2, <1>3

\* Of fewer members a sum is not more.
LEMMA SumSubset ==
  ASSUME NEW T, IsFiniteSet(T), NEW S, S \subseteq T, NEW f, \A x \in T : f[x] \in Nat
  PROVE  SumOver(f, S) \in Nat /\ SumOver(f, T) \in Nat /\ SumOver(f, S) <= SumOver(f, T)
<1>1. IsFiniteSet(S) /\ \A x \in S : f[x] \in Nat
  BY FS_Subset
<1>2. Units(f, S) \subseteq Units(f, T)
  BY DEF Units
<1>3. IsFiniteSet(Units(f, T))
  BY SumType
<1>4. Cardinality(Units(f, S)) <= Cardinality(Units(f, T))
  BY <1>2, <1>3, FS_Subset
<1>5. SumOver(f, S) \in Nat /\ SumOver(f, T) \in Nat
  BY <1>1, SumType
<1> QED
  BY <1>4, <1>5 DEF SumOver

\* A sum whose members stand for different members of another, of the same
\* values, is not more.
LEMMA SumAlong ==
  ASSUME NEW T, IsFiniteSet(T), NEW S, NEW h \in Injection(S, T), NEW f, NEW g,
         \A x \in T : g[x] \in Nat, \A x \in S : f[x] = g[h[x]]
  PROVE  SumOver(f, S) <= SumOver(g, T)
<1> DEFINE H == [u \in Units(f, S) |-> <<h[u[1]], u[2]>>]
<1>1. \A u \in Units(f, S) : /\ u[1] \in S /\ u = <<u[1], u[2]>>
                             /\ u[2] \in 1..f[u[1]]
  BY DEF Units
<1>2. /\ \A x \in S : h[x] \in T
      /\ \A x, y \in S : h[x] = h[y] => x = y
  BY DEF Injection, IsInjective
<1>3. \A u \in Units(f, S) : <<h[u[1]], u[2]>> \in Units(g, T)
  BY <1>1, <1>2 DEF Units
<1>4. \A u, v \in Units(f, S) : H[u] = H[v] => u = v
  <2> SUFFICES ASSUME NEW u \in Units(f, S), NEW v \in Units(f, S), H[u] = H[v]
               PROVE  u = v
    OBVIOUS
  <2>1. h[u[1]] = h[v[1]] /\ u[2] = v[2]
    OBVIOUS
  <2>2. u[1] = v[1]
    BY <1>1, <1>2, <2>1
  <2> QED
    BY <1>1, <2>1, <2>2
<1>5. H \in Injection(Units(f, S), Units(g, T))
  <2>1. H \in [Units(f, S) -> Units(g, T)]
    BY <1>3
  <2> HIDE DEF H
  <2> QED
    BY <1>4, <2>1 DEF Injection, IsInjective
<1>6. IsFiniteSet(Units(g, T))
  BY SumType
<1>7. Cardinality(Units(f, S)) <= Cardinality(Units(g, T))
  BY <1>5, <1>6, FS_Injection
<1> QED
  BY <1>7 DEF SumOver

\* A claim pays under its newest reference: every earlier one was rejected for
\* good, and its refund says what the provider did.
RefundOK(c) ==
  LET r == refund[c]
  IN  /\ r.status = "none" <=> r.attempt = 0
      /\ \A n \in Attempts : <<c, n>> \in paidOut \cup refused => n <= r.attempt
      /\ \A n \in Attempts : n < r.attempt => <<c, n>> \in refused
      /\ r.status = "failed" => <<c, r.attempt>> \in refused
      /\ r.status = "succeeded" => <<c, r.attempt>> \in paidOut

\* What the provider keeps, and what workers have heard of it.
ProviderOK ==
  /\ paidOut \cap refused = {}
  /\ \A a \in answers :
       <<a.claim, a.attempt>> \in IF a.result = "succeeded" THEN paidOut ELSE refused

\* What the deliveries tell is true, though they may be late.
DeliveriesOK ==
  \A d \in deliveries :
    /\ d.event = "requested" => 0 < d.attempt /\ d.attempt <= refund[d.claim].attempt
    /\ d.event = "succeeded" => refund[d.claim].status = "succeeded"
    /\ d.to = "rma" => d.claim \in Returns

\* Goods that were not shipped do not come back, those that were are not
\* refunded directly.
ShipmentOK ==
  /\ refund[Direct].status \in {"requested", "succeeded"} => shipment = "none"
  /\ \A m \in Returns : shipment # "shipped" => rma[m].status = "none"

\* The cases that asked for money, and those whose goods are back.
Asked == {m \in Returns : refund[m].status # "none"}
Received == {m \in Returns : rma[m].status \in
               {"received", "refund_pending", "refund_failed", "completed"}}

Quantities == [m \in Returns |-> rma[m].quantity]
Amounts == [m \in Returns |-> refund[m].amount]

\* The cases pay back no more than the share of the goods they claim, claim no
\* more than was sold, and put back no more than they received.
SumsOK ==
  /\ Sold * SumOver(Amounts, Asked) <= Net * SumOver(Quantities, Asked)
  /\ Claimed <= Sold
  /\ restocked <= SumOver(Quantities, Received)
                    + IF refund[Direct].status = "succeeded" THEN Sold ELSE 0

RInv == /\ RefundsTypeOK
        /\ \A c \in Claims : RefundOK(c)
        /\ ProviderOK
        /\ DeliveriesOK
        /\ ShipmentOK
        /\ CaseFollows
        /\ SumsOK

-----------------------------------------------------------------------------
(***************************************************************************)
(* Arithmetic                                                              *)
(***************************************************************************)
LEMMA Quotient ==
  ASSUME NEW a \in Nat, NEW b \in Nat \ {0}
  PROVE  a \div b \in Nat /\ b * (a \div b) <= a
  OBVIOUS

LEMMA Cancel ==
  ASSUME NEW s \in Nat \ {0}, NEW x \in Nat, NEW y \in Nat, s * x <= s * y
  PROVE  x <= y
<1> SUFFICES ASSUME x >= y + 1 PROVE FALSE
  OBVIOUS
<1> DEFINE k == x - y - 1
<1>1. k \in Nat /\ x = y + 1 + k
  OBVIOUS
<1>2. s * x = s * y + s + s * k /\ s * k >= 0
  BY <1>1
<1> QED
  BY <1>2

LEMMA Grows ==
  ASSUME NEW n \in Nat, NEW x \in Nat, NEW y \in Nat, x <= y
  PROVE  n * x <= n * y
<1> DEFINE k == y - x
<1>1. k \in Nat /\ y = x + k
  OBVIOUS
<1>2. n * y = n * x + n * k /\ n * k >= 0
  BY <1>1
<1> QED
  BY <1>2

\* The share of the line: at most what the line cost.
LEMMA RefundableFacts ==
  ASSUME NEW q \in 0..Sold
  PROVE  /\ Refundable(q) \in 0..Total
         /\ Sold * Refundable(q) <= Net * q
<1>1. Net * q \in Nat /\ Net * q <= Net * Sold /\ Net * Sold = Sold * Net
  BY RefundsAssumption, Grows
<1>2. Refundable(q) \in Nat /\ Sold * Refundable(q) <= Net * q
  BY <1>1, Quotient, RefundsAssumption DEF Refundable
<1>3. Refundable(q) <= Net
  BY <1>1, <1>2, Cancel, RefundsAssumption
<1> QED
  BY <1>2, <1>3, RefundsAssumption

-----------------------------------------------------------------------------
(***************************************************************************)
(* Facts about the rows, the deliveries and the sums                       *)
(***************************************************************************)
RefundRow == [status : RefundStatus, attempt : {0} \cup Attempts, amount : 0..Total]
RmaRow == [status : RmaStatus, quantity : 0..Sold]
Answer == [claim : Claims, attempt : Attempts, result : {"succeeded", "rejected"}]

LEMMA Rows ==
  ASSUME RefundsTypeOK
  PROVE  /\ refund \in [Claims -> RefundRow] /\ rma \in [Returns -> RmaRow]
         /\ deliveries \subseteq Delivery /\ answers \subseteq Answer
         /\ paidOut \subseteq Claims \X Attempts /\ refused \subseteq Claims \X Attempts
         /\ restocked \in Nat
         /\ Returns \subseteq Claims /\ Direct \in Claims /\ Direct \notin Returns
  BY RefundsAssumption DEF RefundsTypeOK, RefundRow, RmaRow, Answer, Claims

LEMMA TypesTogether ==
  ASSUME RefundsTypeOK, shipment' \in {"none", "created", "shipped"},
         refund' \in [Claims -> RefundRow], rma' \in [Returns -> RmaRow],
         deliveries' \subseteq Delivery, answers' \subseteq Answer, restocked' \in Nat,
         paidOut' \subseteq Claims \X Attempts, refused' \subseteq Claims \X Attempts
  PROVE  RefundsTypeOK'
  BY DEF RefundsTypeOK, RefundRow, RmaRow, Answer

LEMMA PublishedFacts ==
  ASSUME NEW event \in {"paid", "requested", "succeeded", "failed"}, NEW c \in Claims,
         NEW n \in {0} \cup Attempts, NEW d \in Published(event, c, n)
  PROVE  /\ d \in Delivery /\ d.event = event /\ d.claim = c /\ d.attempt = n
         /\ d.to = "rma" => c \in Returns
<1>1. /\ DOMAIN Subscribers = {"paid", "requested", "succeeded", "failed"}
      /\ Subscribers[event] \subseteq {"refund", "rma", "invoice"}
  BY DEF Subscribers
<1>2. PICK s \in IF c = Direct THEN Subscribers[event] \ {"rma"} ELSE Subscribers[event] :
        d = [event |-> event, claim |-> c, attempt |-> n, to |-> s]
  BY DEF Published
<1> QED
  BY <1>1, <1>2 DEF Delivery, Claims

\* A claim that a step does not touch.
LEMMA OtherClaim ==
  ASSUME NEW c, RefundOK(c), refund'[c] = refund[c],
         \A n : (<<c, n>> \in paidOut' <=> <<c, n>> \in paidOut)
                /\ (<<c, n>> \in refused' <=> <<c, n>> \in refused)
  PROVE  RefundOK(c)'
  BY DEF RefundOK

\* The deliveries of before stay true while the refunds only move on.
LEMMA DeliveriesStay ==
  ASSUME RefundsTypeOK, DeliveriesOK, NEW New, deliveries' \subseteq deliveries \cup New,
         \A c \in Claims : /\ refund[c].attempt <= refund'[c].attempt
                           /\ refund'[c].attempt \in Nat
                           /\ refund[c].status = "succeeded" => refund'[c].status = "succeeded",
         \A d \in New :
           /\ d.event = "requested" => 0 < d.attempt /\ d.attempt <= refund'[d.claim].attempt
           /\ d.event = "succeeded" => refund'[d.claim].status = "succeeded"
           /\ d.to = "rma" => d.claim \in Returns
  PROVE  DeliveriesOK'
<1>1. \A d \in deliveries : /\ d.claim \in Claims /\ d.attempt \in Nat
                            /\ refund[d.claim].attempt \in Nat
  BY Rows, RefundsAssumption DEF Delivery, RefundRow, Attempts
<1>2. ASSUME NEW d \in deliveries
      PROVE  /\ d.event = "requested" => 0 < d.attempt /\ d.attempt <= refund'[d.claim].attempt
             /\ d.event = "succeeded" => refund'[d.claim].status = "succeeded"
             /\ d.to = "rma" => d.claim \in Returns
  BY <1>1 DEF DeliveriesOK
<1> QED
  BY <1>2 DEF DeliveriesOK

LEMMA SumFacts ==
  ASSUME RefundsTypeOK
  PROVE  /\ IsFiniteSet(Returns) /\ IsFiniteSet(Asked) /\ IsFiniteSet(Received)
         /\ IsFiniteSet(Claiming)
         /\ \A m \in Returns : /\ Quantities[m] = rma[m].quantity /\ Quantities[m] \in Nat
                               /\ Amounts[m] = refund[m].amount /\ Amounts[m] \in Nat
         /\ Claimed = SumOver(Quantities, Claiming)
<1>1. Asked \subseteq Returns /\ Received \subseteq Returns /\ Claiming \subseteq Returns
  BY DEF Asked, Received, Claiming
<1>2. \A m \in Returns : rma[m].quantity \in Nat /\ refund[m].amount \in Nat
  BY Rows, RefundsAssumption DEF RefundRow, RmaRow
<1> QED
  BY <1>1, <1>2, FS_Subset, RefundsAssumption DEF Quantities, Amounts, Claimed

LEMMA SumTypes ==
  ASSUME RefundsTypeOK
  PROVE  /\ SumOver(Amounts, Asked) \in Nat /\ SumOver(Quantities, Asked) \in Nat
         /\ SumOver(Quantities, Received) \in Nat /\ SumOver(Quantities, Claiming) \in Nat
<1>1. \A m \in Asked : m \in Returns
  BY DEF Asked
<1>2. \A m \in Received : m \in Returns
  BY DEF Received
<1>3. \A m \in Claiming : m \in Returns
  BY DEF Claiming
<1> QED
  BY <1>1, <1>2, <1>3, SumFacts, SumType

\* A step that moves neither goods nor amounts.
LEMMA SumsSame ==
  ASSUME RefundsTypeOK, SumsOK, UNCHANGED <<rma, restocked>>,
         \A m \in Returns : /\ refund'[m].amount = refund[m].amount
                            /\ refund'[m].status = "none" <=> refund[m].status = "none",
         refund[Direct].status = "succeeded" => refund'[Direct].status = "succeeded"
  PROVE  SumsOK'
<1>1. Amounts' = Amounts /\ Asked' = Asked
  BY DEF Amounts, Asked
<1>2. Quantities' = Quantities /\ Received' = Received /\ Claimed' = Claimed
  BY DEF Quantities, Received, Claimed, Claiming
<1>3. SumOver(Quantities, Received) \in Nat /\ restocked \in Nat
  BY SumTypes, Rows
<1> QED
  BY <1>1, <1>2, <1>3, RefundsAssumption DEF SumsOK

\* A case moves on with its quantity: it may give up what it claims.
LEMMA SumsOfMove ==
  ASSUME RefundsTypeOK, SumsOK, NEW m \in Returns, NEW s \in RmaStatus,
         rma' = [rma EXCEPT ![m].status = s],
         rma[m].status # "none", s # "none", rma[m].status # "rejected",
         \/ rma[m].status \in {"requested", "needs_information", "approved"}
            /\ s \in {"requested", "needs_information", "approved", "rejected"}
         \/ rma[m].status \in {"received", "refund_pending", "refund_failed", "completed"}
            /\ s \in {"received", "refund_pending", "refund_failed", "completed"},
         UNCHANGED <<refund, restocked>>
  PROVE  SumsOK'
<1>1. /\ \A x \in Returns \ {m} : rma'[x] = rma[x]
      /\ rma'[m].status = s /\ rma'[m].quantity = rma[m].quantity
  BY Rows DEF RmaRow
<1>2. Amounts' = Amounts /\ Asked' = Asked
  BY DEF Amounts, Asked
<1>3. Quantities' = Quantities
  BY <1>1 DEF Quantities
<1>4. Received' = Received
  BY <1>1 DEF Received
<1>5. Claiming' \subseteq Claiming /\ \A x \in Claiming : Quantities[x] \in Nat
  BY <1>1, SumFacts DEF Claiming
<1>6. SumOver(Quantities, Claiming') <= SumOver(Quantities, Claiming)
      /\ SumOver(Quantities, Claiming') \in Nat /\ SumOver(Quantities, Claiming) \in Nat
  BY <1>5, SumFacts, SumSubset
<1>7. Claimed' = SumOver(Quantities, Claiming') /\ Claimed = SumOver(Quantities, Claiming)
  BY <1>3 DEF Claimed, Quantities
<1> QED
  BY <1>2, <1>3, <1>4, <1>6, <1>7, RefundsAssumption DEF SumsOK

\* The reference of a retry is within the bound of the model.
LEMMA RetriesCount ==
  ASSUME RefundsTypeOK, NEW c \in Claims, refund[c].attempt # 0, Retries < MaxRetries
  PROVE  refund[c].attempt + 1 \in Attempts
<1> DEFINE k == refund[c].attempt
           All == {p \in Claims \X Attempts : 1 < p[2] /\ p[2] <= refund[p[1]].attempt}
           Mine == {c} \X (2..k)
<1>1. k \in 1..(MaxRetries + 1) /\ MaxRetries \in Nat
  BY Rows, RefundsAssumption DEF RefundRow, Attempts
<1>2. IsFiniteSet(All)
  <2>1. IsFiniteSet(Claims)
    <3>1. IsFiniteSet(Returns \cup {Direct})
      BY RefundsAssumption, FS_AddElement
    <3>2. Claims = Returns \cup {Direct}
      BY DEF Claims
    <3> QED
      BY <3>1, <3>2
  <2>2. IsFiniteSet(Attempts)
    BY <1>1, FS_Interval DEF Attempts
  <2>3. IsFiniteSet(Claims \X Attempts)
    BY <2>1, <2>2, FS_Product
  <2> QED
    BY <2>3, FS_Subset
<1>3. Mine \subseteq All
  BY <1>1 DEF Attempts
<1>4. IsFiniteSet(2..k) /\ Cardinality(2..k) = k - 1
  <2>1. k \in Int /\ (2 > k => k = 1)
    BY <1>1
  <2> HIDE DEF k
  <2>2. /\ IsFiniteSet(2..k)
        /\ Cardinality(2..k) = IF 2 > k THEN 0 ELSE k - 2 + 1
    BY <2>1, FS_Interval
  <2> QED
    BY <2>1, <2>2
<1>5. Cardinality(Mine) = k - 1
  <2>1. IsFiniteSet({c}) /\ Cardinality({c}) = 1
    BY FS_Singleton
  <2>2. Cardinality(Mine) = Cardinality({c}) * Cardinality(2..k)
    BY <1>4, <2>1, FS_Product
  <2> QED
    BY <1>1, <1>4, <2>1, <2>2
<1>6. Cardinality(Mine) <= Cardinality(All) /\ Cardinality(All) \in Nat
  <2> HIDE DEF Mine, All
  <2> QED
    BY <1>2, <1>3, FS_Subset, FS_CardinalityType
<1>7. Retries = Cardinality(All)
  BY DEF Retries
<1> HIDE DEF All, Mine
<1> QED
  BY <1>1, <1>5, <1>6, <1>7 DEF Attempts

-----------------------------------------------------------------------------
(***************************************************************************)
(* The steps of shipments and refunds                                      *)
(***************************************************************************)
LEMMA ShipmentStep ==
  ASSUME RInv, CreateShipment \/ AdvanceStage
  PROVE  RInv'
<1>1. /\ UNCHANGED <<refund, answers, paidOut, refused, rma, restocked, deliveries>>
      /\ \/ /\ shipment = "none" /\ shipment' = "created"
            /\ refund[Direct].status \notin {"requested", "succeeded"}
         \/ shipment = "created" /\ shipment' = "shipped"
  BY DEF CreateShipment, AdvanceStage, money
<1>2. RefundsTypeOK'
  BY <1>1 DEF RInv, RefundsTypeOK
<1>3. (\A c \in Claims : RefundOK(c))' /\ ProviderOK' /\ DeliveriesOK' /\ CaseFollows'
  BY <1>1 DEF RInv, RefundOK, ProviderOK, DeliveriesOK, CaseFollows
<1>4. ShipmentOK'
  BY <1>1 DEF RInv, ShipmentOK
<1>5. SumsOK'
  BY <1>1, SumsSame DEF RInv
<1> QED
  BY <1>2, <1>3, <1>4, <1>5 DEF RInv

\* requestFullRefund: nothing was paid back or shipped before.
LEMMA RequestFullRefundStep ==
  ASSUME RInv, RequestFullRefund
  PROVE  RInv'
<1> DEFINE row == [status |-> "requested", attempt |-> 1, amount |-> Total]
           New == Published("requested", Direct, 1)
<1>1. /\ shipment = "none" /\ refund[Direct].status = "none"
      /\ refund' = [refund EXCEPT ![Direct] = row]
      /\ deliveries' = deliveries \cup New
      /\ UNCHANGED <<shipment, rma, restocked, answers, paidOut, refused>>
  BY DEF RequestFullRefund, Request, goods
<1>2. /\ RefundsTypeOK /\ RefundOK(Direct) /\ 1 \in Attempts /\ 0 \notin Attempts
      /\ refund \in [Claims -> RefundRow] /\ Direct \in Claims /\ Direct \notin Returns
      /\ refund[Direct].attempt = 0
  <2>1. RefundsTypeOK /\ refund \in [Claims -> RefundRow] /\ Direct \in Claims /\ Direct \notin Returns
    BY Rows DEF RInv
  <2>2. RefundOK(Direct)
    BY <2>1 DEF RInv
  <2>3. 1 \in Attempts /\ 0 \notin Attempts
    BY RefundsAssumption DEF Attempts
  <2>4. refund[Direct].attempt = 0
    BY <1>1, <2>2 DEF RefundOK
  <2> QED
    BY <2>1, <2>2, <2>3, <2>4
<1>3. /\ row \in RefundRow /\ refund'[Direct] = row
      /\ \A c \in Claims \ {Direct} : refund'[c] = refund[c]
  BY <1>1, <1>2, RefundsAssumption DEF RefundRow, RefundStatus
<1>4. \A d \in New : /\ d \in Delivery /\ d.event = "requested" /\ d.claim = Direct
                     /\ d.attempt = 1 /\ d.to # "rma"
  BY <1>2, PublishedFacts
<1> HIDE DEF New, row
<1>5. RefundsTypeOK'
  <2>1. refund' \in [Claims -> RefundRow] /\ deliveries' \subseteq Delivery
    BY <1>1, <1>2, <1>3, <1>4, Rows
  <2>2. shipment' \in {"none", "created", "shipped"}
    BY <1>1
  <2> QED
    BY <1>1, <1>2, <2>1, <2>2, Rows, TypesTogether
<1>6. \A c \in Claims : RefundOK(c)'
  <2>1. \A c \in Claims \ {Direct} : RefundOK(c)'
    BY <1>1, <1>3, OtherClaim DEF RInv
  <2>2. RefundOK(Direct)'
    BY <1>1, <1>2, <1>3 DEF RefundOK, row, Attempts
  <2> QED
    BY <2>1, <2>2
<1>7. ProviderOK'
  BY <1>1 DEF RInv, ProviderOK
<1>8. DeliveriesOK'
  <2>1. \A c \in Claims : /\ refund[c].attempt <= refund'[c].attempt
                          /\ refund'[c].attempt \in Nat
                          /\ refund[c].status = "succeeded" => refund'[c].status = "succeeded"
    BY <1>1, <1>2, <1>3, RefundsAssumption DEF RefundRow, Attempts, row
  <2>2. \A d \in New : /\ 0 < d.attempt /\ d.attempt <= refund'[d.claim].attempt
                       /\ d.event = "requested" /\ d.to # "rma"
    BY <1>3, <1>4 DEF row
  <2> QED
    BY <1>1, <1>2, <2>1, <2>2, DeliveriesStay DEF RInv
<1>9. ShipmentOK' /\ CaseFollows'
  BY <1>1, <1>2, <1>3, Rows DEF RInv, ShipmentOK, CaseFollows
<1>10. SumsOK'
  BY <1>1, <1>2, <1>3, Rows, SumsSame DEF RInv
<1> QED
  BY <1>5, <1>6, <1>7, <1>8, <1>9, <1>10 DEF RInv

\* retryRefund: the reference of before was rejected for good.
LEMMA RetryRefundStep ==
  ASSUME RInv, NEW c \in Claims, RetryRefund(c)
  PROVE  RInv'
<1> DEFINE n == refund[c].attempt
           New == Published("requested", c, n + 1)
<1>1. /\ refund[c].status = "failed" /\ (c = Direct => shipment = "none")
      /\ Retries < MaxRetries
      /\ refund' = [refund EXCEPT ![c] = [refund[c] EXCEPT !.status = "requested",
                                                           !.attempt = n + 1]]
      /\ deliveries' = deliveries \cup New
      /\ UNCHANGED <<shipment, rma, restocked, answers, paidOut, refused>>
  BY DEF RetryRefund, goods
<1>2. /\ RefundsTypeOK /\ RefundOK(c) /\ refund \in [Claims -> RefundRow]
      /\ n \in Nat /\ n # 0 /\ Attempts \subseteq Nat
  BY <1>1, Rows, RefundsAssumption DEF RInv, RefundOK, Attempts, RefundRow
<1>3. n + 1 \in Attempts
  BY <1>1, <1>2, RetriesCount
<1>4. /\ refund'[c] \in RefundRow /\ refund'[c].status = "requested"
      /\ refund'[c].attempt = n + 1 /\ refund'[c].amount = refund[c].amount
      /\ \A x \in Claims \ {c} : refund'[x] = refund[x]
  BY <1>1, <1>2, <1>3 DEF RefundRow, RefundStatus
<1>5. \A d \in New : /\ d \in Delivery /\ d.event = "requested" /\ d.claim = c
                     /\ d.attempt = n + 1 /\ (d.to = "rma" => c \in Returns)
  <2>1. "requested" \in {"paid", "requested", "succeeded", "failed"} /\ n + 1 \in {0} \cup Attempts
    BY <1>3
  <2> DEFINE k == n + 1
  <2> HIDE DEF k
  <2> SUFFICES ASSUME NEW d \in Published("requested", c, k)
               PROVE  /\ d \in Delivery /\ d.event = "requested" /\ d.claim = c
                      /\ d.attempt = k /\ (d.to = "rma" => c \in Returns)
    BY DEF k
  <2>2. k \in {0} \cup Attempts
    BY <2>1 DEF k
  <2> QED
    BY <2>2, PublishedFacts
<1> HIDE DEF New, n
<1>6. RefundsTypeOK'
  <2>1. refund' = [refund EXCEPT ![c] = refund'[c]]
    BY <1>1, <1>2
  <2>2. refund' \in [Claims -> RefundRow] /\ deliveries' \subseteq Delivery
    BY <1>1, <1>2, <1>4, <1>5, <2>1, Rows
  <2>3. shipment' \in {"none", "created", "shipped"}
    BY <1>1, <1>2 DEF RefundsTypeOK
  <2> QED
    BY <1>1, <1>2, <2>2, <2>3, Rows, TypesTogether
<1>7. \A x \in Claims : RefundOK(x)'
  <2>1. \A x \in Claims \ {c} : RefundOK(x)'
    BY <1>1, <1>4, OtherClaim DEF RInv
  <2>2. RefundOK(c)'
    BY <1>1, <1>2, <1>4 DEF RefundOK, n
  <2> QED
    BY <2>1, <2>2
<1>8. ProviderOK'
  BY <1>1 DEF RInv, ProviderOK
<1>9. DeliveriesOK'
  <2>1. \A x \in Claims : /\ refund[x].attempt <= refund'[x].attempt
                          /\ refund'[x].attempt \in Nat
                          /\ refund[x].status = "succeeded" => refund'[x].status = "succeeded"
    BY <1>1, <1>2, <1>4 DEF RefundRow, n
  <2>2. \A d \in New : /\ 0 < d.attempt /\ d.attempt <= refund'[d.claim].attempt
                       /\ d.event = "requested" /\ (d.to = "rma" => d.claim \in Returns)
    BY <1>2, <1>4, <1>5
  <2> QED
    BY <1>1, <1>2, <2>1, <2>2, DeliveriesStay DEF RInv
<1>10. ShipmentOK' /\ CaseFollows'
  BY <1>1, <1>4, Rows DEF RInv, ShipmentOK, CaseFollows
<1>11. SumsOK'
  BY <1>1, <1>2, <1>4, Rows, SumsSame DEF RInv
<1> QED
  BY <1>6, <1>7, <1>8, <1>9, <1>10, <1>11 DEF RInv

\* The provider answers a reference once and for all.
LEMMA CallProviderStep ==
  ASSUME RInv, NEW c \in Claims, NEW n \in Attempts,
         NEW result \in {"succeeded", "lost", "rejected"}, CallProvider(c, n, result)
  PROVE  RInv'
<1>1. /\ UNCHANGED <<shipment, rma, restocked, refund, deliveries>>
      /\ paidOut' \in {paidOut, paidOut \cup {<<c, n>>}}
      /\ refused' \in {refused, refused \cup {<<c, n>>}}
      /\ paidOut \subseteq paidOut' /\ refused \subseteq refused'
      /\ \/ paidOut' = paidOut \cup {<<c, n>>} /\ refused' = refused /\ <<c, n>> \notin refused
            /\ answers' \subseteq answers \cup
                 {[claim |-> c, attempt |-> n, result |-> "succeeded"]}
         \/ refused' = refused \cup {<<c, n>>} /\ paidOut' = paidOut /\ <<c, n>> \notin paidOut
            /\ answers' = answers \cup {[claim |-> c, attempt |-> n, result |-> "rejected"]}
  BY DEF CallProvider, goods
<1>2. n <= refund[c].attempt
  <2>1. PICK d \in deliveries : d.event = "requested" /\ d.claim = c /\ d.attempt = n
    BY DEF CallProvider
  <2> QED
    BY <2>1 DEF RInv, DeliveriesOK
<1>3. RefundsTypeOK'
  <2>1. /\ paidOut' \subseteq Claims \X Attempts /\ refused' \subseteq Claims \X Attempts
        /\ answers' \subseteq Answer
    BY <1>1, Rows DEF RInv, Answer
  <2> QED
    BY <1>1, <2>1 DEF RInv, RefundsTypeOK, Answer
<1>4. \A x \in Claims : RefundOK(x)'
  <2>1. \A x \in Claims \ {c} : RefundOK(x)'
    BY <1>1, OtherClaim DEF RInv
  <2>2. RefundOK(c)'
    BY <1>1, <1>2 DEF RInv, RefundOK
  <2> QED
    BY <2>1, <2>2
<1>5. ProviderOK'
  BY <1>1 DEF RInv, ProviderOK
<1>6. DeliveriesOK' /\ CaseFollows' /\ ShipmentOK'
  BY <1>1 DEF RInv, DeliveriesOK, CaseFollows, ShipmentOK
<1>7. SumsOK'
  BY <1>1, SumsSame DEF RInv
<1> QED
  BY <1>3, <1>4, <1>5, <1>6, <1>7 DEF RInv

LEMMA LoseAnswerStep ==
  ASSUME RInv, NEW a \in answers, LoseAnswer(a)
  PROVE  RInv'
<1>1. /\ answers' \subseteq answers
      /\ UNCHANGED <<shipment, rma, restocked, refund, deliveries, paidOut, refused>>
  BY DEF LoseAnswer, goods
<1>2. RefundsTypeOK'
  BY <1>1 DEF RInv, RefundsTypeOK
<1>3. (\A c \in Claims : RefundOK(c))' /\ ProviderOK' /\ DeliveriesOK'
  BY <1>1 DEF RInv, RefundOK, ProviderOK, DeliveriesOK
<1>4. CaseFollows' /\ ShipmentOK'
  BY <1>1 DEF RInv, CaseFollows, ShipmentOK
<1>5. SumsOK'
  BY <1>1, SumsSame DEF RInv
<1> QED
  BY <1>2, <1>3, <1>4, <1>5 DEF RInv

\* recordRefundResult: the row takes over what the provider has answered to the
\* reference it waits for.
LEMMA RecordRefundResultStep ==
  ASSUME RInv, NEW c \in Claims, NEW n \in Attempts,
         NEW result \in {"succeeded", "rejected"}, RecordRefundResult(c, n, result)
  PROVE  RInv'
<1> DEFINE status == IF result = "succeeded" THEN "succeeded" ELSE "failed"
           New == Published(status, c, n)
<1>1. /\ [claim |-> c, attempt |-> n, result |-> result] \in answers
      /\ answers' \subseteq answers
      /\ UNCHANGED <<shipment, rma, paidOut, refused>>
      /\ \/ /\ UNCHANGED <<refund, restocked>> /\ deliveries' \subseteq deliveries
         \/ /\ refund[c].attempt = n /\ refund[c].status = "requested"
            /\ refund' = [refund EXCEPT ![c].status = status]
            /\ restocked' = IF status = "succeeded" THEN Finalized(c) ELSE restocked
            /\ deliveries' \subseteq deliveries \cup New
  BY DEF RecordRefundResult
<1>2. /\ RefundsTypeOK /\ RefundOK(c) /\ refund \in [Claims -> RefundRow]
      /\ answers' \subseteq Answer
      /\ <<c, n>> \in IF result = "succeeded" THEN paidOut ELSE refused
  BY <1>1, Rows DEF RInv, ProviderOK
<1>3. CASE UNCHANGED <<refund, restocked>> /\ deliveries' \subseteq deliveries
  <2>1. RefundsTypeOK'
    BY <1>1, <1>2, <1>3 DEF RefundsTypeOK, Answer
  <2>2. (\A x \in Claims : RefundOK(x))' /\ ProviderOK' /\ DeliveriesOK'
    BY <1>1, <1>3 DEF RInv, RefundOK, ProviderOK, DeliveriesOK
  <2>3. CaseFollows' /\ ShipmentOK'
    BY <1>1, <1>3 DEF RInv, CaseFollows, ShipmentOK
  <2>4. SumsOK'
    BY <1>1, <1>3, SumsSame DEF RInv
  <2> QED
    BY <2>1, <2>2, <2>3, <2>4 DEF RInv
<1>4. CASE /\ refund[c].attempt = n /\ refund[c].status = "requested"
           /\ refund' = [refund EXCEPT ![c].status = status]
           /\ restocked' = IF status = "succeeded" THEN Finalized(c) ELSE restocked
           /\ deliveries' \subseteq deliveries \cup New
  <2>1. status \in {"succeeded", "failed"} /\ (status = "succeeded" <=> result = "succeeded")
    OBVIOUS
  <2>2. \A d \in New : /\ d \in Delivery /\ d.event = status /\ d.claim = c
                       /\ (d.to = "rma" => c \in Returns)
    <3> HIDE DEF status
    <3> SUFFICES ASSUME NEW d \in Published(status, c, n)
                 PROVE  /\ d \in Delivery /\ d.event = status /\ d.claim = c
                        /\ (d.to = "rma" => c \in Returns)
      OBVIOUS
    <3>1. status \in {"paid", "requested", "succeeded", "failed"} /\ n \in {0} \cup Attempts
      BY <2>1
    <3> QED
      BY <3>1, PublishedFacts
  <2> HIDE DEF New, status
  <2>3. /\ refund' \in [Claims -> RefundRow]
        /\ refund'[c].status = status
        /\ refund'[c].attempt = n /\ refund'[c].amount = refund[c].amount
        /\ \A x \in Claims \ {c} : refund'[x] = refund[x]
    BY <1>2, <1>4, <2>1 DEF RefundRow, RefundStatus
  <2>4. RefundsTypeOK'
    <3>1. restocked' \in Nat
      BY <1>2, <1>4, Rows, RefundsAssumption DEF Finalized
    <3>2. deliveries' \subseteq Delivery
      BY <1>2, <1>4, <2>2, Rows
    <3>3. shipment' \in {"none", "created", "shipped"}
      BY <1>1, <1>2 DEF RefundsTypeOK
    <3> QED
      BY <1>1, <1>2, <2>3, <3>1, <3>2, <3>3, Rows, TypesTogether
  <2>5. \A x \in Claims : RefundOK(x)'
    <3>1. \A x \in Claims \ {c} : RefundOK(x)'
      BY <1>1, <2>3, OtherClaim DEF RInv
    <3>2. RefundOK(c)'
      BY <1>1, <1>2, <1>4, <2>1, <2>3 DEF RefundOK
    <3> QED
      BY <3>1, <3>2
  <2>6. ProviderOK'
    BY <1>1 DEF RInv, ProviderOK
  <2>7. DeliveriesOK'
    <3>1. \A x \in Claims : /\ refund[x].attempt <= refund'[x].attempt
                            /\ refund'[x].attempt \in Nat
                            /\ refund[x].status = "succeeded" => refund'[x].status = "succeeded"
      BY <1>2, <1>4, <2>3, RefundsAssumption DEF RefundRow, Attempts
    <3>2. \A d \in New :
            /\ d.event = "requested" => 0 < d.attempt /\ d.attempt <= refund'[d.claim].attempt
            /\ d.event = "succeeded" => refund'[d.claim].status = "succeeded"
            /\ d.to = "rma" => d.claim \in Returns
      BY <2>1, <2>2, <2>3
    <3> QED
      BY <1>2, <1>4, <3>1, <3>2, DeliveriesStay DEF RInv
  <2>8. ShipmentOK'
    BY <1>1, <1>4, <2>1, <2>3, Rows DEF RInv, ShipmentOK
  <2>9. CaseFollows'
    BY <1>1, <1>4, <2>1, <2>3, Rows DEF RInv, CaseFollows
  <2>10. SumsOK'
    <3>1. \A m \in Returns : /\ refund'[m].amount = refund[m].amount
                             /\ refund'[m].status = "none" <=> refund[m].status = "none"
      BY <1>2, <1>4, <2>1, <2>3, Rows
    <3>2. Amounts' = Amounts /\ Asked' = Asked
      BY <3>1 DEF Amounts, Asked
    <3>3. Quantities' = Quantities /\ Received' = Received /\ Claimed' = Claimed
      BY <1>1 DEF Quantities, Received, Claimed, Claiming
    <3>4. SumOver(Quantities, Received) \in Nat /\ restocked \in Nat /\ Sold \in Nat
      BY <1>2, SumTypes, Rows, RefundsAssumption
    <3>5. /\ refund'[Direct].status = "succeeded" <=>
              refund[Direct].status = "succeeded" \/ (c = Direct /\ status = "succeeded")
          /\ c = Direct => refund[Direct].status # "succeeded"
      BY <1>2, <1>4, <2>1, <2>3, Rows
    <3>6. restocked' = IF c = Direct /\ status = "succeeded" THEN restocked + Sold ELSE restocked
      BY <1>4, <3>4 DEF Finalized
    <3>7. restocked' <= SumOver(Quantities, Received)
                          + IF refund'[Direct].status = "succeeded" THEN Sold ELSE 0
      BY <3>4, <3>5, <3>6 DEF RInv, SumsOK
    <3> QED
      BY <3>2, <3>3, <3>7 DEF RInv, SumsOK
  <2> QED
    BY <2>4, <2>5, <2>6, <2>7, <2>8, <2>9, <2>10 DEF RInv
<1> QED
  BY <1>1, <1>3, <1>4

-----------------------------------------------------------------------------
(***************************************************************************)
(* The steps of the return cases                                           *)
(***************************************************************************)

\* What a step of a case leaves alone.
LEMMA CaseSteps ==
  ASSUME RInv, UNCHANGED <<refund, answers, paidOut, refused, shipment>>,
         deliveries' \subseteq deliveries
  PROVE  (\A c \in Claims : RefundOK(c))' /\ ProviderOK' /\ DeliveriesOK'
<1>1. (\A c \in Claims : RefundOK(c))' /\ ProviderOK'
  BY DEF RInv, RefundOK, ProviderOK
<1>2. DeliveriesOK'
  BY DEF RInv, DeliveriesOK
<1> QED
  BY <1>1, <1>2

\* A case that is open moves on, and its quantity and refund stay.
LEMMA CaseMoves ==
  ASSUME RInv, NEW m \in Returns, NEW s \in RmaStatus,
         rma' = [rma EXCEPT ![m].status = s], rma[m].status # "none",
         \/ rma[m].status \in {"requested", "needs_information", "approved"}
            /\ s \in {"requested", "needs_information", "approved", "rejected"}
         \/ rma[m].status \in {"refund_pending", "refund_failed", "completed"}
            /\ s \in {"refund_pending", "refund_failed", "completed"},
         s = "completed" => refund[m].status = "succeeded",
         UNCHANGED <<refund, answers, paidOut, refused, restocked, shipment>>,
         deliveries' \subseteq deliveries
  PROVE  RInv'
<1>1. /\ RefundsTypeOK /\ rma \in [Returns -> RmaRow]
      /\ rma' \in [Returns -> RmaRow] /\ rma'[m].status = s
      /\ \A x \in Returns \ {m} : rma'[x] = rma[x]
  BY Rows DEF RInv, RmaRow
<1>2. RefundsTypeOK'
  BY <1>1 DEF RefundsTypeOK, RmaRow
<1>3. ShipmentOK'
  BY <1>1 DEF RInv, ShipmentOK
<1>4. CaseFollows'
  BY <1>1 DEF RInv, CaseFollows
<1>5. SumsOK'
  BY <1>1, SumsOfMove DEF RInv
<1> QED
  BY <1>2, <1>3, <1>4, <1>5, CaseSteps DEF RInv

LEMMA DecideStep ==
  ASSUME RInv, NEW m \in Returns, NEW from \in RmaStatus, NEW to \in RmaStatus,
         Decide(m, from, to)
  PROVE  RInv'
<1>1. /\ rma[m].status \in {"requested", "needs_information", "approved"}
      /\ to \in {"requested", "needs_information", "approved", "rejected"}
      /\ rma' = [rma EXCEPT ![m].status = to]
      /\ UNCHANGED <<refund, answers, paidOut, refused, restocked, shipment, deliveries>>
  BY DEF Decide, Decisions, money
<1> QED
  BY <1>1, CaseMoves

LEMMA RmaRefundRequestedStep ==
  ASSUME RInv, NEW d \in deliveries, RmaRefundRequested(d)
  PROVE  RInv'
<1>1. /\ d.claim \in Returns
      /\ UNCHANGED <<refund, answers, paidOut, refused, restocked, shipment>>
      /\ deliveries' \subseteq deliveries
      /\ \/ UNCHANGED rma
         \/ /\ rma[d.claim].status = "refund_failed"
            /\ rma' = [rma EXCEPT ![d.claim].status = "refund_pending"]
  BY DEF RmaRefundRequested, RInv, DeliveriesOK, RmaIs, money
<1>2. CASE UNCHANGED rma
  <2>1. RefundsTypeOK'
    BY <1>1, <1>2 DEF RInv, RefundsTypeOK
  <2>2. CaseFollows' /\ ShipmentOK'
    BY <1>1, <1>2 DEF RInv, CaseFollows, ShipmentOK
  <2>3. SumsOK'
    BY <1>1, <1>2, SumsSame DEF RInv
  <2> QED
    BY <1>1, <2>1, <2>2, <2>3, CaseSteps DEF RInv
<1>3. CASE /\ rma[d.claim].status = "refund_failed"
           /\ rma' = [rma EXCEPT ![d.claim].status = "refund_pending"]
  <2>1. "refund_pending" \in RmaStatus
    BY DEF RmaStatus
  <2> QED
    BY <1>1, <1>3, <2>1, CaseMoves
<1> QED
  BY <1>1, <1>2, <1>3

LEMMA RmaRefundResultStep ==
  ASSUME RInv, NEW d \in deliveries, RmaRefundResult(d)
  PROVE  RInv'
<1>1. PICK to \in {"completed", "refund_failed"} :
        /\ to = "completed" => d.event = "succeeded"
        /\ \/ UNCHANGED rma
           \/ /\ rma[d.claim].status = "refund_pending"
              /\ rma' = [rma EXCEPT ![d.claim].status = to]
  BY DEF RmaRefundResult, RmaIs
<1>2. /\ d.claim \in Returns
      /\ to = "completed" => refund[d.claim].status = "succeeded"
      /\ UNCHANGED <<refund, answers, paidOut, refused, restocked, shipment>>
      /\ deliveries' \subseteq deliveries
  BY <1>1 DEF RmaRefundResult, RInv, DeliveriesOK, money
<1>3. CASE UNCHANGED rma
  <2>1. RefundsTypeOK'
    BY <1>2, <1>3 DEF RInv, RefundsTypeOK
  <2>2. CaseFollows' /\ ShipmentOK'
    BY <1>2, <1>3 DEF RInv, CaseFollows, ShipmentOK
  <2>3. SumsOK'
    BY <1>2, <1>3, SumsSame DEF RInv
  <2> QED
    BY <1>2, <2>1, <2>2, <2>3, CaseSteps DEF RInv
<1>4. CASE /\ rma[d.claim].status = "refund_pending"
           /\ rma' = [rma EXCEPT ![d.claim].status = to]
  <2>1. to \in RmaStatus
    BY DEF RmaStatus
  <2> QED
    BY <1>2, <1>4, <2>1, CaseMoves
<1> QED
  BY <1>1, <1>3, <1>4

\* createRma: the new case claims what the others leave.
LEMMA CreateRmaStep ==
  ASSUME RInv, NEW m \in Returns, NEW q \in 1..Sold, CreateRma(m, q)
  PROVE  RInv'
<1> DEFINE row == [status |-> "requested", quantity |-> q]
<1>1. /\ rma[m].status = "none" /\ shipment = "shipped" /\ q + Claimed <= Sold
      /\ rma' = [rma EXCEPT ![m] = row]
      /\ UNCHANGED <<refund, answers, paidOut, refused, restocked, shipment, deliveries>>
  BY DEF CreateRma, money
<1>2. /\ RefundsTypeOK /\ rma \in [Returns -> RmaRow] /\ q \in Nat /\ q \in 0..Sold
      /\ refund[m].status = "none"
  BY <1>1, Rows, RefundsAssumption DEF RInv, CaseFollows
<1>3. /\ row \in RmaRow /\ rma' \in [Returns -> RmaRow] /\ rma'[m] = row
      /\ \A x \in Returns \ {m} : rma'[x] = rma[x]
  BY <1>1, <1>2 DEF RmaRow, RmaStatus
<1>4. rma'[m].status = "requested" /\ rma'[m].quantity = q
  BY <1>3
<1> HIDE DEF row
<1>5. RefundsTypeOK'
  BY <1>1, <1>2, <1>3 DEF RefundsTypeOK, RmaRow
<1>6. ShipmentOK'
  BY <1>1, <1>3, <1>4 DEF RInv, ShipmentOK
<1>7. CaseFollows'
  BY <1>1, <1>2, <1>3, <1>4 DEF RInv, CaseFollows
<1>8. SumsOK'
  <2>1. Amounts' = Amounts /\ Asked' = Asked /\ m \notin Asked /\ Asked \subseteq Returns
    BY <1>1, <1>2 DEF Amounts, Asked
  <2>2. Received' = Received /\ m \notin Received /\ Received \subseteq Returns
    BY <1>1, <1>3, <1>4 DEF Received
  <2>3. Claiming' = Claiming \cup {m} /\ m \notin Claiming /\ Claiming \subseteq Returns
    BY <1>1, <1>3, <1>4 DEF Claiming
  <2>4. /\ \A x \in Returns \ {m} : Quantities'[x] = Quantities[x]
        /\ Quantities'[m] = q
        /\ \A x \in Returns : Quantities[x] \in Nat
    BY <1>2, <1>3, <1>4, SumFacts DEF Quantities
  <2>5. SumOver(Quantities', Asked) = SumOver(Quantities, Asked)
    BY <2>1, <2>4, SumSame
  <2>6. SumOver(Quantities', Received) = SumOver(Quantities, Received)
    BY <2>2, <2>4, SumSame
  <2>7. SumOver(Quantities', Claiming \cup {m}) = SumOver(Quantities, Claiming) + q
    <3>1. /\ \A x \in Claiming : Quantities'[x] \in Nat /\ Quantities[x] = Quantities'[x]
          /\ Quantities'[m] \in Nat /\ IsFiniteSet(Claiming)
      BY <1>2, <2>3, <2>4, SumFacts
    <3> QED
      <4>1. SumOver(Quantities', Claiming \cup {m})
              = SumOver(Quantities, Claiming) + Quantities'[m]
        <5> DEFINE f == Quantities
                   g == Quantities'
                   S == Claiming
        <5>1. IsFiniteSet(S) /\ m \notin S /\ (\A x \in S : g[x] \in Nat) /\ g[m] \in Nat
              /\ (\A x \in S : f[x] = g[x])
          BY <2>3, <3>1
        <5> HIDE DEF f, g, S
        <5>2. SumOver(g, S \cup {m}) = SumOver(f, S) + g[m]
          BY <5>1, SumGains
        <5> QED
          BY <5>2 DEF f, g, S
      <4> QED
        BY <2>4, <4>1
  <2>8. Claimed' = SumOver(Quantities', Claiming') /\ Claimed = SumOver(Quantities, Claiming)
        /\ Claimed \in Nat
    BY <1>2, SumTypes DEF Claimed, Quantities
  <2>9. Claimed' <= Sold
    BY <1>1, <1>2, <2>3, <2>7, <2>8, RefundsAssumption
  <2> QED
    BY <1>1, <2>1, <2>2, <2>5, <2>6, <2>9 DEF RInv, SumsOK
<1> QED
  BY <1>1, <1>5, <1>6, <1>7, <1>8, CaseSteps DEF RInv

\* receiveRma: the case brings its goods with it.
LEMMA ReceiveRmaStep ==
  ASSUME RInv, NEW m \in Returns, NEW restock \in BOOLEAN, ReceiveRma(m, restock)
  PROVE  RInv'
<1>1. /\ rma[m].status = "approved"
      /\ restocked' = restocked + IF restock THEN rma[m].quantity ELSE 0
      /\ rma' = [rma EXCEPT ![m].status = "received"]
      /\ UNCHANGED <<refund, answers, paidOut, refused, shipment, deliveries>>
  BY DEF ReceiveRma, money
<1>2. /\ RefundsTypeOK /\ rma \in [Returns -> RmaRow] /\ restocked \in Nat
      /\ rma[m].quantity \in Nat
  BY <1>1, Rows, RefundsAssumption DEF RInv, RmaRow
<1>3. /\ rma' \in [Returns -> RmaRow] /\ rma'[m].status = "received"
      /\ rma'[m].quantity = rma[m].quantity
      /\ \A x \in Returns \ {m} : rma'[x] = rma[x]
  BY <1>1, <1>2 DEF RmaRow, RmaStatus
<1>4. RefundsTypeOK'
  BY <1>1, <1>2, <1>3 DEF RefundsTypeOK, RmaRow
<1>5. ShipmentOK'
  BY <1>1, <1>3 DEF RInv, ShipmentOK
<1>6. CaseFollows'
  BY <1>1, <1>3 DEF RInv, CaseFollows
<1>7. SumsOK'
  <2>1. Amounts' = Amounts /\ Asked' = Asked
    BY <1>1 DEF Amounts, Asked
  <2>2. Received' = Received \cup {m} /\ m \notin Received /\ Received \subseteq Returns
    BY <1>1, <1>3 DEF Received
  <2>3. Quantities' = Quantities
    BY <1>3 DEF Quantities
  <2>4. Claiming' = Claiming
    BY <1>1, <1>3 DEF Claiming
  <2>5. Claimed' = Claimed
    BY <2>3, <2>4 DEF Claimed, Quantities
  <2>6. SumOver(Quantities, Received \cup {m}) = SumOver(Quantities, Received) + rma[m].quantity
    <3>1. /\ IsFiniteSet(Received) /\ Quantities[m] = rma[m].quantity
          /\ \A x \in Received \cup {m} : Quantities[x] \in Nat
      BY <1>2, <2>2, SumFacts
    <3> QED
      BY <2>2, <3>1, SumAdd
  <2>7. SumOver(Quantities, Received) \in Nat
    BY <1>2, SumTypes
  <2>8. restocked' <= SumOver(Quantities', Received')
                        + IF refund'[Direct].status = "succeeded" THEN Sold ELSE 0
    BY <1>1, <1>2, <2>2, <2>3, <2>6, <2>7, RefundsAssumption DEF RInv, SumsOK
  <2> QED
    BY <1>1, <2>1, <2>3, <2>5, <2>8 DEF RInv, SumsOK
<1> QED
  BY <1>1, <1>4, <1>5, <1>6, <1>7, CaseSteps DEF RInv

\* requestRefund: of the share of the goods that came back.
LEMMA RequestRmaRefundStep ==
  ASSUME RInv, NEW m \in Returns, RequestRmaRefund(m)
  PROVE  RInv'
<1> DEFINE x == Refundable(rma[m].quantity)
           row == [status |-> "requested", attempt |-> 1, amount |-> x]
           New == Published("requested", m, 1)
<1>1. /\ rma[m].status = "received"
      /\ rma' = [rma EXCEPT ![m].status = "refund_pending"]
      /\ refund' = [refund EXCEPT ![m] = row]
      /\ deliveries' = deliveries \cup New
      /\ UNCHANGED <<shipment, restocked, answers, paidOut, refused>>
  BY DEF RequestRmaRefund, Request
<1>2. /\ RefundsTypeOK /\ refund \in [Claims -> RefundRow] /\ rma \in [Returns -> RmaRow]
      /\ m \in Claims /\ m # Direct /\ Direct \in Claims
      /\ refund[m].status = "none" /\ RefundOK(m)
      /\ shipment = "shipped" /\ rma[m].quantity \in 0..Sold
  <2>1. RefundsTypeOK
    BY DEF RInv
  <2>2. /\ refund \in [Claims -> RefundRow] /\ rma \in [Returns -> RmaRow]
        /\ m \in Claims /\ m # Direct /\ Direct \in Claims
    BY <2>1, Rows
  <2>3. refund[m].status = "none" /\ shipment = "shipped"
    BY <1>1 DEF RInv, CaseFollows, ShipmentOK
  <2> QED
    BY <2>1, <2>2, <2>3 DEF RInv, RmaRow
<1>3. refund[m].attempt = 0 /\ 1 \in Attempts /\ 0 \notin Attempts
  BY <1>2, RefundsAssumption DEF RefundOK, Attempts
<1>4. x \in 0..Total /\ Sold * x <= Net * rma[m].quantity
  BY <1>2, RefundableFacts
<1> HIDE DEF x
<1>5. /\ row \in RefundRow /\ refund' \in [Claims -> RefundRow] /\ refund'[m] = row
      /\ \A c \in Claims \ {m} : refund'[c] = refund[c]
  BY <1>1, <1>2, <1>3, <1>4 DEF RefundRow, RefundStatus
<1>6. refund'[m].status = "requested" /\ refund'[m].attempt = 1 /\ refund'[m].amount = x
  BY <1>5
<1>7. /\ rma' \in [Returns -> RmaRow] /\ rma'[m].status = "refund_pending"
      /\ rma'[m].quantity = rma[m].quantity
      /\ \A y \in Returns \ {m} : rma'[y] = rma[y]
  BY <1>1, <1>2 DEF RmaRow, RmaStatus
<1>8. \A d \in New : /\ d \in Delivery /\ d.event = "requested" /\ d.claim = m
                     /\ d.attempt = 1
  BY <1>2, <1>3, PublishedFacts
<1> HIDE DEF New, row
<1>9. RefundsTypeOK'
  <2>1. deliveries' \subseteq Delivery
    BY <1>1, <1>2, <1>8, Rows
  <2>2. shipment' \in {"none", "created", "shipped"}
    BY <1>1, <1>2
  <2> QED
    BY <1>1, <1>2, <1>5, <1>7, <2>1, <2>2, Rows, TypesTogether
<1>10. \A c \in Claims : RefundOK(c)'
  <2>1. \A c \in Claims \ {m} : RefundOK(c)'
    BY <1>1, <1>5, OtherClaim DEF RInv
  <2>2. RefundOK(m)'
    BY <1>1, <1>2, <1>3, <1>6 DEF RefundOK, Attempts
  <2> QED
    BY <2>1, <2>2
<1>11. ProviderOK'
  BY <1>1 DEF RInv, ProviderOK
<1>12. DeliveriesOK'
  <2>1. \A c \in Claims : /\ refund[c].attempt <= refund'[c].attempt
                          /\ refund'[c].attempt \in Nat
                          /\ refund[c].status = "succeeded" => refund'[c].status = "succeeded"
    BY <1>2, <1>3, <1>5, <1>6, RefundsAssumption DEF RefundRow, Attempts
  <2>2. \A d \in New : /\ 0 < d.attempt /\ d.attempt <= refund'[d.claim].attempt
                       /\ d.event = "requested" /\ d.claim \in Returns
    BY <1>6, <1>8
  <2> QED
    BY <1>1, <1>2, <2>1, <2>2, DeliveriesStay DEF RInv
<1>13. ShipmentOK'
  BY <1>1, <1>2, <1>5, <1>7 DEF RInv, ShipmentOK
<1>14. CaseFollows'
  BY <1>1, <1>2, <1>5, <1>6, <1>7, Rows DEF RInv, CaseFollows
<1>15. SumsOK'
  <2>1. \A y \in Returns \ {m} : refund'[y] = refund[y]
    BY <1>2, <1>5, Rows
  <2>2. Asked' = Asked \cup {m} /\ m \notin Asked /\ Asked \subseteq Returns
    BY <1>2, <1>6, <2>1 DEF Asked
  <2>3. /\ \A y \in Returns \ {m} : Amounts'[y] = Amounts[y]
        /\ Amounts'[m] = x
    BY <1>6, <2>1 DEF Amounts
  <2>4. Quantities' = Quantities
    BY <1>7 DEF Quantities
  <2>5. Received' = Received /\ Claiming' = Claiming
    BY <1>1, <1>7 DEF Received, Claiming
  <2>6. Claimed' = Claimed
    BY <2>4, <2>5 DEF Claimed, Quantities
  <2>7. SumOver(Amounts', Asked \cup {m}) = SumOver(Amounts, Asked) + x
    <3>1. /\ \A y \in Asked : Amounts'[y] \in Nat /\ Amounts[y] = Amounts'[y]
          /\ Amounts'[m] \in Nat /\ IsFiniteSet(Asked)
      BY <1>2, <1>4, <2>2, <2>3, SumFacts, RefundsAssumption
    <3> QED
      BY <2>2, <2>3, <3>1, SumGains
  <2>8. SumOver(Quantities, Asked \cup {m}) = SumOver(Quantities, Asked) + rma[m].quantity
    <3>1. /\ IsFiniteSet(Asked) /\ Quantities[m] = rma[m].quantity
          /\ \A y \in Asked \cup {m} : Quantities[y] \in Nat
      BY <1>2, <2>2, SumFacts
    <3> QED
      <4>1. SumOver(Quantities, Asked \cup {m}) = SumOver(Quantities, Asked) + Quantities[m]
        BY <2>2, <3>1, SumAdd
      <4> QED
        BY <3>1, <4>1
  <2>9. SumOver(Amounts, Asked) \in Nat /\ SumOver(Quantities, Asked) \in Nat
    BY <1>2, SumTypes
  <2>10. Sold * (SumOver(Amounts, Asked) + x)
           <= Net * (SumOver(Quantities, Asked) + rma[m].quantity)
    <3> DEFINE a == SumOver(Amounts, Asked)
               b == SumOver(Quantities, Asked)
               q == rma[m].quantity
    <3>1. Sold * a <= Net * b /\ Sold * x <= Net * q
      BY <1>4 DEF RInv, SumsOK
    <3>2. a \in Nat /\ b \in Nat /\ q \in Nat /\ x \in Nat /\ Sold \in Nat /\ Net \in Nat
      BY <1>2, <1>4, <2>9, RefundsAssumption
    <3> HIDE DEF a, b, q
    <3>3. Sold * (a + x) = Sold * a + Sold * x /\ Net * (b + q) = Net * b + Net * q
      BY <3>2
    <3>4. /\ Sold * a \in Nat /\ Sold * x \in Nat /\ Net * b \in Nat /\ Net * q \in Nat
      BY <3>2
    <3>5. Sold * (a + x) <= Net * (b + q)
      BY <3>1, <3>3, <3>4
    <3> QED
      BY <3>5 DEF a, b, q
  <2>11. refund'[Direct] = refund[Direct]
    BY <1>2, <1>5
  <2> QED
    BY <1>1, <2>2, <2>4, <2>5, <2>6, <2>7, <2>8, <2>10, <2>11 DEF RInv, SumsOK
<1> QED
  BY <1>9, <1>10, <1>11, <1>12, <1>13, <1>14, <1>15 DEF RInv

-----------------------------------------------------------------------------
(***************************************************************************)
(* The inductive invariant of Refunds                                      *)
(***************************************************************************)
LEMMA RInit == RefundsInit => RInv
<1> SUFFICES ASSUME RefundsInit PROVE RInv
  OBVIOUS
<1>1. /\ refund \in [Claims -> RefundRow] /\ rma \in [Returns -> RmaRow]
      /\ \A c \in Claims : refund[c].status = "none" /\ refund[c].attempt = 0
      /\ \A m \in Returns : rma[m].status = "none"
  BY RefundsAssumption DEF RefundsInit, RefundRow, RmaRow, RefundStatus, RmaStatus
<1>2. Direct \in Claims /\ Returns \subseteq Claims
  BY DEF Claims
<1>3. \A d \in deliveries : d \in Delivery /\ d.event = "paid" /\ d.to # "rma"
  <2>1. deliveries = Published("paid", Direct, 0) /\ 0 \in {0} \cup Attempts
    BY DEF RefundsInit
  <2>2. \A d \in Published("paid", Direct, 0) : /\ d \in Delivery /\ d.event = "paid"
                                               /\ (d.to = "rma" => Direct \in Returns)
    BY <1>2, <2>1, PublishedFacts
  <2> QED
    BY <2>1, <2>2, RefundsAssumption
<1>4. RefundsTypeOK
  BY <1>1, <1>3 DEF RefundsInit, RefundsTypeOK, RefundRow, RmaRow
<1>5. \A c \in Claims : RefundOK(c)
  BY <1>1, RefundsAssumption DEF RefundsInit, RefundOK, Attempts
<1>6. ProviderOK
  BY DEF RefundsInit, ProviderOK
<1>7. DeliveriesOK
  BY <1>3 DEF DeliveriesOK
<1>8. ShipmentOK /\ CaseFollows
  BY <1>1, <1>2 DEF ShipmentOK, CaseFollows
<1>9. SumsOK
  <2>1. Asked = {} /\ Received = {} /\ Claiming = {}
    BY <1>1, <1>2 DEF Asked, Received, Claiming
  <2>2. SumOver(Amounts, {}) = 0 /\ SumOver(Quantities, {}) = 0
    BY SumEmpty
  <2>3. Claimed = 0
    BY <2>1, SumEmpty DEF Claimed
  <2>4. restocked = 0 /\ refund[Direct].status # "succeeded"
    BY <1>1, <1>2 DEF RefundsInit
  <2> QED
    BY <2>1, <2>2, <2>3, <2>4, RefundsAssumption DEF SumsOK
<1> QED
  BY <1>4, <1>5, <1>6, <1>7, <1>8, <1>9 DEF RInv

LEMMA RStep == RInv /\ RefundsNext => RInv'
<1> SUFFICES ASSUME RInv, RefundsNext PROVE RInv'
  OBVIOUS
<1>1. CASE CreateShipment \/ AdvanceStage
  BY <1>1, ShipmentStep
<1>2. CASE RequestFullRefund
  BY <1>2, RequestFullRefundStep
<1>3. ASSUME NEW c \in Claims, ClaimStep(c) PROVE RInv'
  BY <1>3, RetryRefundStep, CallProviderStep, RecordRefundResultStep DEF ClaimStep
<1>4. ASSUME NEW m \in Returns, RmaStep(m) PROVE RInv'
  BY <1>4, CreateRmaStep, DecideStep, ReceiveRmaStep, RequestRmaRefundStep DEF RmaStep
<1>5. ASSUME NEW a \in answers, LoseAnswer(a) PROVE RInv'
  BY <1>5, LoseAnswerStep
<1>6. ASSUME NEW d \in deliveries, RmaRefundRequested(d) \/ RmaRefundResult(d) PROVE RInv'
  BY <1>6, RmaRefundRequestedStep, RmaRefundResultStep
<1> QED
  BY <1>1, <1>2, <1>3, <1>4, <1>5, <1>6 DEF RefundsNext

\* Deliveries that others take change nothing.
LEMMA RDeliveriesTaken ==
  ASSUME RInv, UNCHANGED <<money, goods>>, deliveries' \subseteq deliveries
  PROVE  RInv'
<1>1. UNCHANGED <<refund, answers, paidOut, refused, shipment, rma, restocked>>
  BY DEF money, goods
<1>2. RefundsTypeOK'
  BY <1>1 DEF RInv, RefundsTypeOK
<1>3. CaseFollows' /\ ShipmentOK'
  BY <1>1 DEF RInv, CaseFollows, ShipmentOK
<1>4. SumsOK'
  BY <1>1, SumsSame DEF RInv
<1> QED
  BY <1>1, <1>2, <1>3, <1>4, CaseSteps DEF RInv

-----------------------------------------------------------------------------
(***************************************************************************)
(* What the cases hear                                                     *)
(***************************************************************************)

\* The failure that a delivery tells of is that of the newest attempt, or of one
\* before it.
FailuresOK ==
  \A d \in deliveries : d.event = "failed" =>
    /\ 0 < d.attempt /\ d.attempt <= refund[d.claim].attempt
    /\ d.attempt = refund[d.claim].attempt => refund[d.claim].status = "failed"

NewsOK == FailuresOK /\ \A m \in Returns : CaseHears(m)

LEMMA AttemptNumbers ==
  ASSUME RefundsTypeOK
  PROVE  \A c \in Claims : refund[c].attempt \in Nat
  BY Rows, RefundsAssumption DEF RefundRow, Attempts

\* A refund keeps its failure until it gets a new reference.
LEMMA FailuresStay ==
  ASSUME RefundsTypeOK, FailuresOK, NEW New, deliveries' \subseteq deliveries \cup New,
         \A c \in Claims :
           /\ refund'[c].attempt \in Nat
           /\ \/ refund[c].attempt < refund'[c].attempt
              \/ /\ refund'[c].attempt = refund[c].attempt
                 /\ refund[c].status = "failed" => refund'[c].status = "failed",
         \A d \in New : d.event = "failed" =>
           /\ 0 < d.attempt /\ d.attempt <= refund'[d.claim].attempt
           /\ refund'[d.claim].status = "failed"
  PROVE  FailuresOK'
<1>1. \A d \in deliveries : /\ d.claim \in Claims /\ d.attempt \in Nat
                            /\ refund[d.claim].attempt \in Nat
  BY Rows, RefundsAssumption DEF Delivery, RefundRow, Attempts
<1>2. ASSUME NEW d \in deliveries, d.event = "failed"
      PROVE  /\ 0 < d.attempt /\ d.attempt <= refund'[d.claim].attempt
             /\ d.attempt = refund'[d.claim].attempt => refund'[d.claim].status = "failed"
  BY <1>1, <1>2 DEF FailuresOK
<1> QED
  BY <1>2 DEF FailuresOK

\* A case that a step does not touch, and whose news it leaves.
LEMMA CaseHearsOn ==
  ASSUME NEW m \in Returns, CaseHears(m), refund'[m] = refund[m],
         rma'[m].status = rma[m].status,
         News(m) \in deliveries => News(m) \in deliveries'
  PROVE  CaseHears(m)'
  BY DEF CaseHears, CaseSays, News

\* A step that touches neither refunds nor cases, and no delivery to a case.
LEMMA NewsKept ==
  ASSUME RefundsTypeOK, NewsOK, UNCHANGED <<refund, rma>>, deliveries' \subseteq deliveries,
         \A d \in deliveries : d.to = "rma" => d \in deliveries'
  PROVE  NewsOK'
<1>1. FailuresOK'
  BY DEF NewsOK, FailuresOK
<1>2. ASSUME NEW m \in Returns PROVE CaseHears(m)'
  <2>1. News(m) \in deliveries => News(m) \in deliveries'
    BY DEF News
  <2> QED
    BY <2>1, CaseHearsOn DEF NewsOK
<1> QED
  BY <1>1, <1>2 DEF NewsOK

\* A refund that was never asked for has no news.
LEMMA NothingToHear ==
  ASSUME RInv, NEW m \in Returns,
         rma[m].status \notin {"refund_pending", "refund_failed", "completed"}
  PROVE  refund[m].status = "none" /\ refund[m].attempt = 0
<1>1. refund[m].status = "none"
  BY DEF RInv, CaseFollows
<1>2. RefundOK(m)
  BY Rows DEF RInv
<1> QED
  BY <1>1, <1>2 DEF RefundOK

\* createRma, the decisions and receiveRma: the money is not asked for yet.
LEMMA EarlyCaseNews ==
  ASSUME RInv, NewsOK, NEW m \in Returns,
         rma[m].status \notin {"refund_pending", "refund_failed", "completed"},
         UNCHANGED <<refund, deliveries>>, \A x \in Returns \ {m} : rma'[x] = rma[x]
  PROVE  NewsOK'
<1>1. FailuresOK'
  BY DEF NewsOK, FailuresOK
<1>2. ASSUME NEW x \in Returns \ {m} PROVE CaseHears(x)'
  BY <1>2, CaseHearsOn DEF NewsOK, News
<1>3. CaseHears(m)'
  BY NothingToHear DEF CaseHears
<1> QED
  BY <1>1, <1>2, <1>3 DEF NewsOK

\* requestFullRefund: not of a case.
LEMMA RequestFullRefundNews ==
  ASSUME RInv, NewsOK, RequestFullRefund
  PROVE  NewsOK'
<1> DEFINE New == Published("requested", Direct, 1)
<1>1. /\ refund[Direct].status = "none"
      /\ refund' = [refund EXCEPT ![Direct] =
           [status |-> "requested", attempt |-> 1, amount |-> Total]]
      /\ deliveries' = deliveries \cup New /\ UNCHANGED rma
  BY DEF RequestFullRefund, Request, goods
<1>2. /\ RefundsTypeOK /\ refund \in [Claims -> RefundRow]
      /\ Direct \in Claims /\ Direct \notin Returns /\ Returns \subseteq Claims
      /\ 1 \in Attempts /\ Attempts \subseteq Nat
  BY Rows, RefundsAssumption DEF RInv, Attempts
<1>3. \A d \in New : d.event = "requested"
  BY <1>2, PublishedFacts
<1>4. refund[Direct].attempt = 0
  BY <1>1, <1>2 DEF RInv, RefundOK
<1> HIDE DEF New
<1>5. \A c \in Claims : /\ refund'[c].attempt \in Nat
                        /\ \/ refund[c].attempt < refund'[c].attempt
                           \/ refund'[c] = refund[c]
  BY <1>1, <1>2, <1>4, AttemptNumbers
<1>6. FailuresOK'
  BY <1>1, <1>2, <1>3, <1>5, FailuresStay DEF NewsOK
<1>7. ASSUME NEW m \in Returns PROVE CaseHears(m)'
  BY <1>1, <1>2, CaseHearsOn DEF NewsOK
<1> QED
  BY <1>6, <1>7 DEF NewsOK

\* retryRefund: a second reference, of which nothing has been heard yet.
LEMMA RetryRefundNews ==
  ASSUME RInv, NewsOK, NEW c \in Claims, RetryRefund(c)
  PROVE  NewsOK'
<1> DEFINE n == refund[c].attempt + 1
           New == Published("requested", c, n)
<1>1. /\ refund[c].status = "failed" /\ Retries < MaxRetries
      /\ refund' = [refund EXCEPT ![c] = [@ EXCEPT !.status = "requested", !.attempt = n]]
      /\ deliveries' = deliveries \cup New /\ UNCHANGED rma
  BY DEF RetryRefund, goods
<1>2. /\ RefundsTypeOK /\ refund \in [Claims -> RefundRow] /\ Returns \subseteq Claims
      /\ Attempts \subseteq Nat /\ RefundOK(c)
  BY Rows, RefundsAssumption DEF RInv, Attempts
<1>3. refund[c].attempt # 0 /\ refund[c].attempt \in Nat
  BY <1>1, <1>2 DEF RefundOK, RefundRow
<1>4. n \in Attempts
  BY <1>1, <1>2, <1>3, RetriesCount
<1>5. /\ refund'[c].attempt = refund[c].attempt + 1 /\ refund'[c].status = "requested"
      /\ \A x \in Claims \ {c} : refund'[x] = refund[x]
  BY <1>1, <1>2 DEF RefundRow
<1> HIDE DEF n
<1>6. \A d \in New : d.event = "requested"
  <2> SUFFICES ASSUME NEW d \in Published("requested", c, n) PROVE d.event = "requested"
    OBVIOUS
  <2>1. n \in {0} \cup Attempts /\ "requested" \in {"paid", "requested", "succeeded", "failed"}
    BY <1>4
  <2> QED
    BY <2>1, PublishedFacts
<1> HIDE DEF New
<1>7. \A x \in Claims : /\ refund'[x].attempt \in Nat
                        /\ \/ refund[x].attempt < refund'[x].attempt
                           \/ refund'[x] = refund[x]
  BY <1>2, <1>3, <1>5, AttemptNumbers
<1>8. FailuresOK'
  BY <1>1, <1>2, <1>6, <1>7, FailuresStay DEF NewsOK
<1>9. ASSUME NEW m \in Returns \ {c} PROVE CaseHears(m)'
  BY <1>1, <1>2, <1>5, CaseHearsOn DEF NewsOK
<1>10. CaseHears(c)'
  BY <1>3, <1>5 DEF CaseHears
<1> QED
  BY <1>8, <1>9, <1>10 DEF NewsOK

\* recordRefundResult of the refund: a result that applies is published to the
\* case, which waits for it unless the refund was retried.
LEMMA RecordRefundResultNews ==
  ASSUME RInv, NewsOK, NEW c \in Claims, NEW n \in Attempts,
         NEW result \in {"succeeded", "rejected"}, RecordRefundResult(c, n, result)
  PROVE  NewsOK'
<1> DEFINE status == IF result = "succeeded" THEN "succeeded" ELSE "failed"
           New == Published(status, c, n)
           d0 == [event |-> "requested", claim |-> c, attempt |-> n, to |-> "refund"]
<1>1. /\ UNCHANGED rma
      /\ \/ /\ refund[c].attempt = n /\ refund[c].status = "requested"
            /\ refund' = [refund EXCEPT ![c].status = status]
            /\ deliveries' \in {deliveries \cup New, (deliveries \ {d0}) \cup New}
         \/ UNCHANGED refund /\ deliveries' \in {deliveries, deliveries \ {d0}}
  BY DEF RecordRefundResult
<1>2. /\ RefundsTypeOK /\ refund \in [Claims -> RefundRow] /\ Returns \subseteq Claims
      /\ Direct \notin Returns /\ Attempts \subseteq Nat
  BY Rows, RefundsAssumption DEF RInv, Attempts
<1>3. CASE UNCHANGED refund /\ deliveries' \in {deliveries, deliveries \ {d0}}
  <2>1. deliveries' \subseteq deliveries /\ \A d \in deliveries : d.to = "rma" => d \in deliveries'
    BY <1>3
  <2> QED
    BY <1>1, <1>2, <1>3, <2>1, NewsKept
<1>4. CASE /\ refund[c].attempt = n /\ refund[c].status = "requested"
           /\ refund' = [refund EXCEPT ![c].status = status]
           /\ deliveries' \in {deliveries \cup New, (deliveries \ {d0}) \cup New}
  <2>1. /\ refund'[c].attempt = n /\ refund'[c].status = status
        /\ \A x \in Claims \ {c} : refund'[x] = refund[x]
    BY <1>2, <1>4 DEF RefundRow
  <2>2. status \in {"succeeded", "failed"}
    OBVIOUS
  <2>3. c # Direct => [event |-> status, claim |-> c, attempt |-> n, to |-> "rma"] \in New
    BY <2>2 DEF Published, Subscribers
  <2> HIDE DEF status
  <2>4. \A d \in New : d.event = status /\ d.claim = c /\ d.attempt = n
    <3> SUFFICES ASSUME NEW d \in Published(status, c, n)
                 PROVE  d.event = status /\ d.claim = c /\ d.attempt = n
      OBVIOUS
    <3>1. status \in {"paid", "requested", "succeeded", "failed"} /\ n \in {0} \cup Attempts
      BY <2>2
    <3> QED
      BY <3>1, PublishedFacts
  <2>5. /\ deliveries' \subseteq deliveries \cup New /\ New \subseteq deliveries'
        /\ \A d \in deliveries : d.to = "rma" => d \in deliveries'
    BY <1>4
  <2> HIDE DEF New, d0
  <2>6. \A x \in Claims : /\ refund'[x].attempt \in Nat
                          /\ refund'[x].attempt = refund[x].attempt
                          /\ refund[x].status = "failed" => refund'[x].status = "failed"
    BY <1>2, <1>4, <2>1 DEF RefundRow
  <2>7. FailuresOK'
    <3>1. \A d \in New : d.event = "failed" =>
            /\ 0 < d.attempt /\ d.attempt <= refund'[d.claim].attempt
            /\ refund'[d.claim].status = "failed"
      BY <2>1, <2>4, RefundsAssumption DEF Attempts
    <3> QED
      BY <1>2, <2>5, <2>6, <3>1, FailuresStay DEF NewsOK
  <2>8. ASSUME NEW m \in Returns \ {c} PROVE CaseHears(m)'
    <3>1. News(m) \in deliveries => News(m) \in deliveries'
      BY <2>5 DEF News
    <3> QED
      BY <1>1, <1>2, <2>1, <3>1, CaseHearsOn DEF NewsOK
  <2>9. ASSUME c \in Returns PROVE CaseHears(c)'
    <3>1. News(c)' \in deliveries'
      BY <1>2, <2>1, <2>3, <2>5, <2>9 DEF News
    <3>2. n = 1 => rma[c].status = "refund_pending"
      BY <1>4, <2>9 DEF NewsOK, CaseHears, CaseSays, Saying
    <3> QED
      BY <1>1, <2>1, <3>1, <3>2 DEF CaseHears
  <2> QED
    BY <2>7, <2>8, <2>9 DEF NewsOK
<1> QED
  BY <1>1, <1>3, <1>4

\* requestRefund of a case: the case waits from the start.
LEMMA RequestRmaRefundNews ==
  ASSUME RInv, NewsOK, NEW m \in Returns, RequestRmaRefund(m)
  PROVE  NewsOK'
<1> DEFINE amount == Refundable(rma[m].quantity)
           New == Published("requested", m, 1)
<1>1. /\ rma[m].status = "received" /\ rma' = [rma EXCEPT ![m].status = "refund_pending"]
      /\ refund' = [refund EXCEPT ![m] =
           [status |-> "requested", attempt |-> 1, amount |-> amount]]
      /\ deliveries' = deliveries \cup New
  BY DEF RequestRmaRefund, Request
<1>2. /\ RefundsTypeOK /\ refund \in [Claims -> RefundRow] /\ Returns \subseteq Claims
      /\ rma \in [Returns -> RmaRow] /\ 1 \in Attempts /\ Attempts \subseteq Nat
  BY Rows, RefundsAssumption DEF RInv, Attempts
<1>3. refund[m].attempt = 0
  BY <1>1, NothingToHear
<1>4. \A d \in New : d.event = "requested"
  BY <1>2, PublishedFacts
<1> HIDE DEF New, amount
<1>5. /\ refund'[m].attempt = 1 /\ refund'[m].status = "requested"
      /\ rma'[m].status = "refund_pending"
      /\ \A x \in Claims \ {m} : refund'[x] = refund[x]
      /\ \A x \in Returns \ {m} : rma'[x] = rma[x]
  BY <1>1, <1>2 DEF RmaRow
<1>6. \A x \in Claims : /\ refund'[x].attempt \in Nat
                        /\ \/ refund[x].attempt < refund'[x].attempt
                           \/ refund'[x] = refund[x]
  BY <1>2, <1>3, <1>5, AttemptNumbers
<1>7. FailuresOK'
  BY <1>1, <1>2, <1>4, <1>6, FailuresStay DEF NewsOK
<1>8. ASSUME NEW x \in Returns \ {m} PROVE CaseHears(x)'
  BY <1>1, <1>2, <1>5, CaseHearsOn DEF NewsOK
<1>9. CaseHears(m)'
  BY <1>5 DEF CaseHears, CaseSays, Saying
<1> QED
  BY <1>7, <1>8, <1>9 DEF NewsOK

\* recordRefundRequested of a case: only a retry reopens it.
LEMMA RmaRefundRequestedNews ==
  ASSUME RInv, NewsOK, NEW d \in deliveries, RmaRefundRequested(d)
  PROVE  NewsOK'
<1> DEFINE m == d.claim
<1>1. /\ d.event = "requested" /\ d.to = "rma" /\ deliveries' = deliveries \ {d}
      /\ UNCHANGED refund
      /\ \/ UNCHANGED rma
         \/ /\ rma[m].status = "refund_failed" /\ d.attempt > 1
            /\ rma' = [rma EXCEPT ![m].status = "refund_pending"]
  BY DEF RmaRefundRequested, RmaIs, money
<1>2. /\ RefundsTypeOK /\ refund \in [Claims -> RefundRow] /\ rma \in [Returns -> RmaRow]
      /\ Returns \subseteq Claims /\ Attempts \subseteq Nat
      /\ m \in Returns /\ d.attempt \in Nat /\ d.attempt <= refund[m].attempt
  BY <1>1, Rows, RefundsAssumption DEF RInv, DeliveriesOK, Delivery, Attempts
<1>3. FailuresOK'
  BY <1>1 DEF NewsOK, FailuresOK
<1>4. ASSUME NEW x \in Returns, News(x).event # "requested", rma'[x].status = rma[x].status
      PROVE  CaseHears(x)'
  BY <1>1, <1>4, CaseHearsOn DEF NewsOK
<1>5. ASSUME NEW x \in Returns, News(x).event = "requested", rma'[x].status = rma[x].status
      PROVE  CaseHears(x)'
  BY <1>1, <1>5 DEF NewsOK, CaseHears, CaseSays, Saying, News
<1>6. ASSUME NEW x \in Returns, rma'[x].status # rma[x].status PROVE CaseHears(x)'
  <2>1. /\ x = m /\ rma[m].status = "refund_failed" /\ d.attempt > 1
    BY <1>1, <1>2, <1>6
  <2>2. refund[m].attempt \in Nat /\ refund[m].attempt # 1
    BY <1>2, <2>1, AttemptNumbers
  <2>3. /\ refund[m].status = "succeeded" => News(m) \in deliveries
        /\ d # News(m) \/ refund[m].status # "succeeded"
    BY <1>1, <1>2, <2>1 DEF NewsOK, CaseHears, CaseSays, Saying, News
  <2> QED
    BY <1>1, <2>1, <2>2, <2>3 DEF CaseHears, News
<1> QED
  BY <1>3, <1>4, <1>5, <1>6 DEF NewsOK

\* recordRefundResult of a case.
LEMMA RmaRefundResultNews ==
  ASSUME RInv, NewsOK, NEW d \in deliveries, RmaRefundResult(d)
  PROVE  NewsOK'
<1> DEFINE m == d.claim
           to == IF d.event = "succeeded" THEN "completed" ELSE "refund_failed"
<1>1. /\ d.event \in {"succeeded", "failed"} /\ d.to = "rma"
      /\ deliveries' = deliveries \ {d} /\ UNCHANGED refund
      /\ rma[m].status \in {"refund_pending", to}
      /\ rma' = [rma EXCEPT ![m].status = to] \/ (rma[m].status = to /\ UNCHANGED rma)
  BY DEF RmaRefundResult, RmaIs, money
<1>2. /\ RefundsTypeOK /\ refund \in [Claims -> RefundRow] /\ rma \in [Returns -> RmaRow]
      /\ Returns \subseteq Claims /\ Attempts \subseteq Nat
      /\ m \in Returns /\ d.attempt \in Nat /\ RefundOK(m)
  BY <1>1, Rows, RefundsAssumption DEF RInv, DeliveriesOK, Delivery, Attempts
<1>3. /\ rma'[m].status = to /\ \A x \in Returns \ {m} : rma'[x] = rma[x]
  BY <1>1, <1>2 DEF RmaRow
<1>4. FailuresOK'
  BY <1>1 DEF NewsOK, FailuresOK
<1>5. ASSUME NEW x \in Returns \ {m} PROVE CaseHears(x)'
  <2>1. News(x) # d
    BY <1>5 DEF News
  <2> QED
    BY <1>1, <1>3, <2>1, CaseHearsOn DEF NewsOK
<1>6. CASE d.event = "succeeded"
  <2>1. refund[m].status = "succeeded"
    BY <1>6 DEF RInv, DeliveriesOK
  <2>2. CaseHears(m)'
    BY <1>1, <1>3, <1>6, <2>1 DEF CaseHears, CaseSays, Saying
  <2> QED
    BY <1>4, <1>5, <2>2 DEF NewsOK
<1>7. CASE d.event = "failed"
  <2>1. refund[m].status = "succeeded" => News(m) \in deliveries'
    BY <1>1, <1>2, <1>7 DEF NewsOK, CaseHears, CaseSays, Saying, News
  <2>2. refund[m].attempt = 1 => d.attempt = 1 /\ refund[m].status = "failed"
    <3>1. 0 < d.attempt /\ d.attempt <= refund[m].attempt
             /\ (d.attempt = refund[m].attempt => refund[m].status = "failed")
      BY <1>7 DEF NewsOK, FailuresOK
    <3> QED
      BY <1>2, <3>1
  <2>3. CaseHears(m)'
    BY <1>1, <1>3, <1>7, <2>1, <2>2 DEF CaseHears, CaseSays, Saying, News
  <2> QED
    BY <1>4, <1>5, <2>3 DEF NewsOK
<1> QED
  BY <1>1, <1>6, <1>7

LEMMA NewsInit == RefundsInit => NewsOK
<1> SUFFICES ASSUME RefundsInit PROVE NewsOK
  OBVIOUS
<1>1. \A m \in Returns : refund[m].status = "none" /\ refund[m].attempt = 0
  BY DEF RefundsInit, Claims
<1>2. \A d \in deliveries : d.event = "paid"
  BY DEF RefundsInit, Published
<1> QED
  BY <1>1, <1>2 DEF NewsOK, FailuresOK, CaseHears

LEMMA NewsStep == RInv /\ NewsOK /\ RefundsNext => NewsOK'
<1> SUFFICES ASSUME RInv, NewsOK, RefundsNext PROVE NewsOK'
  OBVIOUS
<1>1. CASE CreateShipment \/ AdvanceStage
  BY <1>1, NewsKept DEF CreateShipment, AdvanceStage, money, RInv
<1>2. CASE RequestFullRefund
  BY <1>2, RequestFullRefundNews
<1>3. ASSUME NEW c \in Claims, ClaimStep(c) PROVE NewsOK'
  <2>1. ASSUME NEW n \in Attempts, NEW result \in {"succeeded", "lost", "rejected"},
               CallProvider(c, n, result)
        PROVE  NewsOK'
    BY <2>1, NewsKept DEF CallProvider, goods, RInv
  <2> QED
    BY <1>3, <2>1, RetryRefundNews, RecordRefundResultNews DEF ClaimStep
<1>4. ASSUME NEW m \in Returns, RmaStep(m) PROVE NewsOK'
  <2>1. ASSUME NEW q \in 1..Sold, CreateRma(m, q) PROVE NewsOK'
    BY <2>1, EarlyCaseNews, Rows DEF CreateRma, money, RInv
  <2>2. ASSUME NEW from, NEW to, Decide(m, from, to) PROVE NewsOK'
    BY <2>2, EarlyCaseNews, Rows DEF Decide, Decisions, money, RInv
  <2>3. ASSUME NEW restock \in BOOLEAN, ReceiveRma(m, restock) PROVE NewsOK'
    BY <2>3, EarlyCaseNews, Rows DEF ReceiveRma, money, RInv
  <2> QED
    BY <1>4, <2>1, <2>2, <2>3, RequestRmaRefundNews DEF RmaStep
<1>5. ASSUME NEW a \in answers, LoseAnswer(a) PROVE NewsOK'
  BY <1>5, NewsKept DEF LoseAnswer, goods, RInv
<1>6. ASSUME NEW d \in deliveries, RmaRefundRequested(d) \/ RmaRefundResult(d) PROVE NewsOK'
  BY <1>6, RmaRefundRequestedNews, RmaRefundResultNews
<1> QED
  BY <1>1, <1>2, <1>3, <1>4, <1>5, <1>6 DEF RefundsNext

\* Every command and delivery of refunds, returns and shipments keeps RInv, and
\* loses no news.
THEOREM RefundsInvariant == RefundsSpec => [](RInv /\ NewsOK)
<1>1. RInv /\ NewsOK /\ [RefundsNext]_afterSale => (RInv /\ NewsOK)'
  <2>1. RInv /\ NewsOK /\ UNCHANGED afterSale => RInv' /\ NewsOK'
    BY RDeliveriesTaken, NewsKept DEF afterSale, money, goods, RInv
  <2> QED
    BY <2>1, RStep, NewsStep
<1> QED
  BY <1>1, RInit, NewsInit, PTL DEF RefundsSpec

-----------------------------------------------------------------------------
(***************************************************************************)
(* What follows from it                                                    *)
(***************************************************************************)
LEMMA OneReferencePays ==
  ASSUME RInv, NEW c \in Claims
  PROVE  LET paid == {n \in Attempts : <<c, n>> \in paidOut}
         IN  /\ paid \subseteq {refund[c].attempt}
             /\ refund[c].status = "succeeded" => paid # {}
             /\ refund[c].status \in {"none", "failed"} => paid = {}
<1>1. RefundOK(c) /\ paidOut \cap refused = {} /\ refund[c].attempt \in {0} \cup Attempts
  BY Rows DEF RInv, ProviderOK, RefundRow
<1>2. Attempts \subseteq Nat \ {0}
  BY RefundsAssumption DEF Attempts
<1>3. ASSUME NEW n \in Attempts, <<c, n>> \in paidOut
      PROVE  n = refund[c].attempt /\ refund[c].status \notin {"none", "failed"}
  <2>1. <<c, n>> \notin refused
    BY <1>1, <1>3
  <2>2. n = refund[c].attempt
    BY <1>1, <1>2, <1>3, <2>1 DEF RefundOK
  <2> QED
    BY <1>1, <1>2, <2>1, <2>2 DEF RefundOK
<1>4. refund[c].status = "succeeded" =>
        refund[c].attempt \in Attempts /\ <<c, refund[c].attempt>> \in paidOut
  BY <1>1 DEF RefundOK
<1> QED
  BY <1>3, <1>4

\* What was paid: by the direct refund alone, or by the cases.
LEMMA PaidOutSum ==
  ASSUME RInv
  PROVE  SumOver([p \in Claims \X Attempts |-> refund[p[1]].amount], paidOut) <= Total
<1> DEFINE f == [p \in Claims \X Attempts |-> refund[p[1]].amount]
<1>1. /\ RefundsTypeOK /\ refund \in [Claims -> RefundRow]
      /\ paidOut \subseteq Claims \X Attempts /\ Direct \in Claims
      /\ Claims = {Direct} \cup Returns
  BY Rows DEF RInv, Claims
<1>2. \A p \in paidOut : /\ p[1] \in Claims /\ p[2] = refund[p[1]].attempt
                         /\ p = <<p[1], p[2]>>
                         /\ refund[p[1]].status \in {"requested", "succeeded"}
  <2> SUFFICES ASSUME NEW c \in Claims, NEW n \in Attempts, <<c, n>> \in paidOut
               PROVE  n = refund[c].attempt /\ refund[c].status \in {"requested", "succeeded"}
    BY <1>1
  <2> QED
    BY <1>1, OneReferencePays DEF RefundRow, RefundStatus
<1>3. \A p \in paidOut : f[p] = refund[p[1]].amount /\ f[p] \in 0..Total
  BY <1>1 DEF RefundRow
<1> HIDE DEF f
<1>4. CASE refund[Direct].status \in {"requested", "succeeded"}
  <2>1. \A m \in Returns : refund[m].status = "none"
    BY <1>4 DEF RInv, ShipmentOK, CaseFollows
  <2>2. \A p \in paidOut : p = <<Direct, refund[Direct].attempt>>
    BY <1>1, <1>2, <2>1
  <2>3. CASE paidOut = {}
    BY <2>3, SumEmpty, RefundsAssumption
  <2>4. CASE paidOut # {}
    <3>1. PICK p \in paidOut : \A x \in paidOut \ {p} : FALSE
      BY <2>2, <2>4
    <3>2. f[p] \in Nat /\ f[p] <= Total /\ \A x \in paidOut \ {p} : f[x] = 0
      BY <1>3, <3>1, RefundsAssumption
    <3>3. SumOver(f, paidOut) = f[p]
      BY <3>2, SumOfOne
    <3> QED
      BY <3>2, <3>3 DEF f
  <2> QED
    BY <2>3, <2>4
<1>5. CASE refund[Direct].status \notin {"requested", "succeeded"}
  <2> DEFINE h == [p \in paidOut |-> p[1]]
             g == Amounts
             a == SumOver(Amounts, Asked)
             b == SumOver(Quantities, Asked)
  <2>1. \A p \in paidOut : p[1] \in Asked
    BY <1>1, <1>2, <1>5 DEF Asked
  <2>2. h \in Injection(paidOut, Asked)
    BY <1>2, <2>1 DEF Injection, IsInjective
  <2>3. /\ IsFiniteSet(Asked) /\ (\A m \in Asked : g[m] \in Nat)
        /\ \A p \in paidOut : f[p] = g[h[p]]
    BY <1>1, <1>3, <2>1, SumFacts DEF Asked
  <2>4. SumOver(f, paidOut) <= a
    <3> HIDE DEF h, g
    <3>1. SumOver(f, paidOut) <= SumOver(g, Asked)
      BY <2>2, <2>3, SumAlong
    <3> QED
      BY <3>1 DEF g
  <2>5. b <= Sold
    <3>1. Asked \subseteq Claiming
      BY DEF RInv, CaseFollows, Asked, Claiming
    <3>2. IsFiniteSet(Claiming) /\ (\A m \in Claiming : Quantities[m] \in Nat)
          /\ Claimed = SumOver(Quantities, Claiming)
      BY <1>1, SumFacts DEF Claiming
    <3>3. b <= SumOver(Quantities, Claiming) /\ SumOver(Quantities, Claiming) \in Nat
      BY <3>1, <3>2, SumSubset
    <3> QED
      BY <1>1, <3>2, <3>3, SumTypes, RefundsAssumption DEF RInv, SumsOK
  <2>6. a \in Nat /\ b \in Nat /\ Sold * a <= Net * b
    BY <1>1, SumTypes DEF RInv, SumsOK
  <2>7. a <= Net
    <3> HIDE DEF a, b
    <3>1. Net * b <= Net * Sold /\ Net * Sold = Sold * Net
      BY <2>5, <2>6, Grows, RefundsAssumption
    <3>2. Sold * a \in Nat /\ Net * b \in Nat /\ Sold * Net \in Nat
      BY <2>6, RefundsAssumption
    <3>3. Sold * a <= Sold * Net
      BY <2>6, <3>1, <3>2
    <3> QED
      BY <2>6, <3>3, Cancel, RefundsAssumption
  <2>8. SumOver(f, paidOut) \in Nat
    <3>1. IsFiniteSet(paidOut)
      <4>1. IsFiniteSet(Claims)
        <5>1. IsFiniteSet(Returns \cup {Direct})
          BY RefundsAssumption, FS_AddElement
        <5>2. Claims = Returns \cup {Direct}
          BY DEF Claims
        <5> QED
          BY <5>1, <5>2
      <4>2. IsFiniteSet(Attempts)
        BY FS_Interval, RefundsAssumption DEF Attempts
      <4>3. IsFiniteSet(Claims \X Attempts)
        BY <4>1, <4>2, FS_Product
      <4> QED
        BY <1>1, <4>3, FS_Subset
    <3>2. \A p \in paidOut : f[p] \in Nat
      BY <1>3, RefundsAssumption
    <3> QED
      BY <3>1, <3>2, SumType
  <2> HIDE DEF a, h, g
  <2>9. SumOver(f, paidOut) <= Total
    BY <2>4, <2>6, <2>7, <2>8, RefundsAssumption
  <2> QED
    BY <2>9 DEF f
<1> QED
  BY <1>4, <1>5

LEMMA GoodsFollow ==
  ASSUME RInv
  PROVE  GoodsComeBackOnce
<1>1. /\ RefundsTypeOK /\ restocked \in Nat /\ Claimed <= Sold
      /\ restocked <= SumOver(Quantities, Received)
                        + IF refund[Direct].status = "succeeded" THEN Sold ELSE 0
  BY Rows DEF RInv, SumsOK
<1>2. CASE refund[Direct].status = "succeeded"
  <2>1. Received = {}
    BY <1>2 DEF RInv, ShipmentOK, Received
  <2>2. SumOver(Quantities, Received) = 0
    BY <2>1, SumEmpty
  <2> QED
    BY <1>1, <1>2, <2>2, RefundsAssumption DEF GoodsComeBackOnce
<1>3. CASE refund[Direct].status # "succeeded"
  <2>1. IsFiniteSet(Claiming) /\ (\A m \in Claiming : Quantities[m] \in Nat)
        /\ Claimed = SumOver(Quantities, Claiming) /\ Received \subseteq Claiming
    BY <1>1, SumFacts DEF Claiming, Received
  <2>2. /\ SumOver(Quantities, Received) <= SumOver(Quantities, Claiming)
        /\ SumOver(Quantities, Received) \in Nat /\ SumOver(Quantities, Claiming) \in Nat
    BY <2>1, SumSubset
  <2> QED
    BY <1>1, <1>3, <2>1, <2>2, RefundsAssumption DEF GoodsComeBackOnce
<1> QED
  BY <1>2, <1>3

LEMMA RefundsPromises ==
  RInv /\ NewsOK => RefundsTypeOK /\ MoneyGoesBackOnce /\ ShipOrRefund /\ GoodsComeBackOnce
                    /\ CaseMatchesRefund
<1> SUFFICES ASSUME RInv, NewsOK
             PROVE  RefundsTypeOK /\ MoneyGoesBackOnce /\ ShipOrRefund /\ GoodsComeBackOnce
                    /\ CaseMatchesRefund
  OBVIOUS
<1>1. MoneyGoesBackOnce
  BY OneReferencePays, PaidOutSum DEF MoneyGoesBackOnce
<1>2. ShipOrRefund
  BY DEF RInv, ShipmentOK, CaseFollows, ShipOrRefund
<1>3. CaseMatchesRefund
  BY DEF RInv, NewsOK, CaseMatchesRefund
<1> QED
  BY <1>1, <1>2, <1>3, GoodsFollow DEF RInv

\* The rows, the deliveries and the answers stay what the code declares.
THEOREM RefundsTypes == RefundsSpec => []RefundsTypeOK
  BY RefundsInvariant, RefundsPromises, PTL

\* requestFullRefund, retryRefund, recordRefundResult, requestRefund: the money
\* that left is what the refunds say, no claim is paid under two references, and
\* all the claims together never give back more than was paid, the shares of the
\* line being rounded down.
THEOREM MoneyIsNeverPaidTwice == RefundsSpec => []MoneyGoesBackOnce
  BY RefundsInvariant, RefundsPromises, PTL

\* createShipment and requestFullRefund: the goods leave or the money goes back
\* directly, never both.
THEOREM NothingShipsBesideARefund == RefundsSpec => []ShipOrRefund
  BY RefundsInvariant, RefundsPromises, PTL

\* createRma, receiveRma and finalizeDirectRefund: no unit comes back twice.
THEOREM NoUnitComesBackTwice == RefundsSpec => []GoodsComeBackOnce
  BY RefundsInvariant, RefundsPromises, PTL

\* recordRefundRequested and recordRefundResult of a case, by deliveries in any
\* order: a case is never ahead of its refund, the success of a refund is kept
\* for it until it has taken it, and unless the refund is retried it comes to say
\* what the refund says.
THEOREM CasesFollowTheMoney == RefundsSpec => []CaseMatchesRefund
  BY RefundsInvariant, RefundsPromises, PTL

-----------------------------------------------------------------------------
(***************************************************************************)
(* The invoice                                                             *)
(***************************************************************************)
Voiding == {"void_pending", "voided", "void_failed"}

\* What runs, rows and the register know of each other: a call to void is made,
\* and its answer is underway, only while the row is being voided, and a yes is
\* a yes of the register.
RunsOK ==
  /\ \A answer \in {"calling", "yes", "no"} :
       <<"void", answer>> \in runs => invoice \in Voiding
  /\ <<"issue", "yes">> \in runs => register.issued
  /\ <<"void", "yes">> \in runs => register.voided

\* The row is being voided only after the whole payment went back, of an invoice
\* that the register has.
RowOK ==
  /\ invoice \in Voiding => PaidBackInFull /\ register.issued
  /\ register.voided => invoice \in Voiding
  /\ invoice = "issued" => register.issued
  /\ invoice = "voided" => register.voided

AInv == RInv /\ NewsOK /\ InvoicesTypeOK /\ RunsOK /\ RowOK

\* A success is final, and the amount of a refund that was asked for stays.
LEMMA RefundsKeepSuccess ==
  ASSUME RInv, RefundsNext, PaidBackInFull
  PROVE  PaidBackInFull'
<1>1. PICK c \in Claims : refund[c].status = "succeeded" /\ refund[c].amount = Total
  BY DEF PaidBackInFull
<1>2. /\ refund \in [Claims -> RefundRow] /\ Direct \in Claims /\ Returns \subseteq Claims
  BY Rows DEF RInv
<1> SUFFICES refund'[c] = refund[c]
  BY <1>1 DEF PaidBackInFull
<1>3. CASE UNCHANGED refund
  BY <1>3
<1>4. CASE RequestFullRefund
  BY <1>1, <1>2, <1>4 DEF RequestFullRefund, Request
<1>5. ASSUME NEW x \in Claims, RetryRefund(x) PROVE refund'[c] = refund[c]
  BY <1>1, <1>2, <1>5 DEF RetryRefund
<1>6. ASSUME NEW x \in Claims, NEW n \in Attempts, NEW result \in {"succeeded", "rejected"},
             RecordRefundResult(x, n, result)
      PROVE  refund'[c] = refund[c]
  BY <1>1, <1>2, <1>6 DEF RecordRefundResult
<1>7. ASSUME NEW m \in Returns, RequestRmaRefund(m) PROVE refund'[c] = refund[c]
  BY <1>1, <1>2, <1>7 DEF RequestRmaRefund, Request, RInv, CaseFollows
<1>8. \/ UNCHANGED refund
      \/ RequestFullRefund
      \/ \E x \in Claims : RetryRefund(x)
      \/ \E x \in Claims, n \in Attempts, result \in {"succeeded", "rejected"} :
           RecordRefundResult(x, n, result)
      \/ \E m \in Returns : RequestRmaRefund(m)
  <2>1. CASE CreateShipment \/ AdvanceStage
    BY <2>1 DEF CreateShipment, AdvanceStage, money
  <2>2. CASE \E x \in Claims : ClaimStep(x)
    BY <2>2 DEF ClaimStep, CallProvider
  <2>3. CASE \E m \in Returns : RmaStep(m)
    BY <2>3 DEF RmaStep, CreateRma, Decide, ReceiveRma, money
  <2>4. CASE \E a \in answers : LoseAnswer(a)
    BY <2>4 DEF LoseAnswer
  <2>5. CASE \E d \in deliveries : RmaRefundRequested(d) \/ RmaRefundResult(d)
    BY <2>5 DEF RmaRefundRequested, RmaRefundResult, money
  <2> QED
    BY <2>1, <2>2, <2>3, <2>4, <2>5 DEF RefundsNext
<1> QED
  BY <1>3, <1>4, <1>5, <1>6, <1>7, <1>8

LEMMA AInit == Init => AInv
<1> SUFFICES ASSUME Init PROVE AInv
  OBVIOUS
<1>1. InvoicesTypeOK /\ RunsOK /\ RowOK
  BY DEF Init, InvoicesInit, InvoicesTypeOK, InvoiceStatus, JobState, RunsOK, RowOK, Voiding
<1> QED
  BY <1>1, RInit, NewsInit DEF Init, AInv

\* queueVoid: of a full refund that the delivery tells of.
LEMMA QueueVoidStep ==
  ASSUME AInv, NEW d \in deliveries, QueueVoid(d)
  PROVE  AInv'
<1>1. /\ UNCHANGED <<money, goods, issueJob, runs, register>>
      /\ deliveries' \subseteq deliveries /\ UNCHANGED refund
      /\ \/ invoice' = invoice /\ voidJob' = voidJob
         \/ /\ invoice' = "void_pending" /\ voidJob' = "open"
            /\ invoice = "issued" /\ refund[d.claim].amount = Total
  BY DEF QueueVoid, money
<1>2. refund[d.claim].status = "succeeded" /\ d.claim \in Claims
  BY Rows DEF QueueVoid, AInv, RInv, DeliveriesOK, Delivery
<1>3. invoice' = "void_pending" /\ invoice = "issued" => PaidBackInFull'
  BY <1>1, <1>2 DEF PaidBackInFull, QueueVoid
<1>4. PaidBackInFull => PaidBackInFull'
  BY <1>1 DEF PaidBackInFull
<1>5. RInv' /\ NewsOK'
  <2>1. \A x \in deliveries : x.to = "rma" => x \in deliveries'
    BY DEF QueueVoid
  <2> QED
    BY <1>1, <2>1, RDeliveriesTaken, NewsKept DEF AInv, RInv, goods
<1>6. InvoicesTypeOK'
  BY <1>1 DEF AInv, InvoicesTypeOK, InvoiceStatus, JobState
<1>7. RunsOK' /\ RowOK'
  BY <1>1, <1>3, <1>4 DEF AInv, RunsOK, RowOK, Voiding
<1> QED
  BY <1>5, <1>6, <1>7 DEF AInv

\* The steps of the jobs and of the operator, which do not touch the refunds.
JobSteps ==
  \/ RetryIssue \/ RetryVoid \/ StartIssue \/ StartVoid \/ SkipIssue \/ SkipVoid \/ JobDies
  \/ \E answer \in {"yes", "no", "lost"} : CallIssue(answer) \/ CallVoid(answer)
  \/ \E answer \in {"yes", "no"} : RecordIssue(answer) \/ RecordVoid(answer)
  \/ \E r \in runs : LoseRun(r)

LEMMA JobStepsTypes ==
  ASSUME InvoicesTypeOK, JobSteps
  PROVE  UNCHANGED afterSale /\ InvoicesTypeOK'
<1> USE DEF InvoicesTypeOK, InvoiceStatus, JobState, jobs
<1>1. CASE RetryIssue \/ RetryVoid \/ StartIssue \/ StartVoid \/ SkipIssue \/ SkipVoid \/ JobDies
  BY <1>1 DEF RetryIssue, RetryVoid, StartIssue, StartVoid, SkipIssue, SkipVoid, JobDies
<1>2. ASSUME NEW answer \in {"yes", "no", "lost"}, CallIssue(answer) \/ CallVoid(answer)
      PROVE  UNCHANGED afterSale /\ InvoicesTypeOK'
  <2>1. /\ UNCHANGED <<afterSale, invoice, issueJob, voidJob>>
        /\ register' \in [issued : BOOLEAN, voided : BOOLEAN]
    BY <1>2 DEF CallIssue, CallVoid
  <2>2. runs' \subseteq {"issue", "void"} \X {"calling", "yes", "no"}
    BY <1>2 DEF CallIssue, CallVoid, Answered
  <2> QED
    BY <2>1, <2>2
<1>3. ASSUME NEW answer \in {"yes", "no"}, RecordIssue(answer) \/ RecordVoid(answer)
      PROVE  UNCHANGED afterSale /\ InvoicesTypeOK'
  BY <1>3 DEF RecordIssue, RecordVoid, Failed
<1>4. ASSUME NEW r \in runs, LoseRun(r) PROVE UNCHANGED afterSale /\ InvoicesTypeOK'
  BY <1>4 DEF LoseRun
<1> QED
  BY <1>1, <1>2, <1>3, <1>4 DEF JobSteps

LEMMA JobStepsKeep ==
  ASSUME InvoicesTypeOK, RunsOK, RowOK, JobSteps, PaidBackInFull' <=> PaidBackInFull
  PROVE  RunsOK' /\ RowOK'
<1> USE DEF InvoicesTypeOK, RunsOK, RowOK, Voiding, jobs
<1>1. CASE RetryIssue \/ RetryVoid \/ StartIssue \/ StartVoid \/ SkipIssue \/ SkipVoid \/ JobDies
  BY <1>1 DEF RetryIssue, RetryVoid, StartIssue, StartVoid, SkipIssue, SkipVoid, JobDies
<1>2. ASSUME NEW answer \in {"yes", "no", "lost"}, CallIssue(answer) PROVE RunsOK' /\ RowOK'
  BY <1>2 DEF CallIssue, Answered
<1>3. ASSUME NEW answer \in {"yes", "no", "lost"}, CallVoid(answer) PROVE RunsOK' /\ RowOK'
  BY <1>3 DEF CallVoid, Answered
<1>4. ASSUME NEW answer \in {"yes", "no"}, RecordIssue(answer) PROVE RunsOK' /\ RowOK'
  BY <1>4 DEF RecordIssue
<1>5. ASSUME NEW answer \in {"yes", "no"}, RecordVoid(answer) PROVE RunsOK' /\ RowOK'
  BY <1>5 DEF RecordVoid
<1>6. ASSUME NEW r \in runs, LoseRun(r) PROVE RunsOK' /\ RowOK'
  BY <1>6 DEF LoseRun
<1> QED
  BY <1>1, <1>2, <1>3, <1>4, <1>5, <1>6 DEF JobSteps

LEMMA AStep == AInv /\ [Next]_vars => AInv'
<1> SUFFICES ASSUME AInv, [Next]_vars PROVE AInv'
  OBVIOUS
<1>1. CASE RefundsNext /\ UNCHANGED invoicing
  <2>1. RInv' /\ NewsOK' /\ (PaidBackInFull => PaidBackInFull')
    BY <1>1, RStep, NewsStep, RefundsKeepSuccess DEF AInv
  <2>2. UNCHANGED <<invoice, issueJob, voidJob, runs, register>>
    BY <1>1 DEF invoicing
  <2> QED
    BY <2>1, <2>2 DEF AInv, InvoicesTypeOK, RunsOK, RowOK
<1>2. ASSUME NEW d \in deliveries, QueueIssue(d) PROVE AInv'
  <2>1. /\ UNCHANGED <<money, goods, voidJob, runs, register>> /\ deliveries' \subseteq deliveries
        /\ UNCHANGED refund /\ invoice = "none" /\ invoice' = "pending" /\ issueJob' = "open"
    BY <1>2 DEF QueueIssue, money
  <2>2. RInv' /\ NewsOK'
    <3>1. \A x \in deliveries : x.to = "rma" => x \in deliveries'
      BY <1>2 DEF QueueIssue
    <3> QED
      BY <2>1, <3>1, RDeliveriesTaken, NewsKept DEF AInv, RInv, goods
  <2>3. InvoicesTypeOK' /\ RunsOK' /\ RowOK'
    BY <2>1 DEF AInv, InvoicesTypeOK, InvoiceStatus, JobState, RunsOK, RowOK, Voiding
  <2> QED
    BY <2>2, <2>3 DEF AInv
<1>3. ASSUME NEW d \in deliveries, QueueVoid(d) PROVE AInv'
  BY <1>3, QueueVoidStep
<1>4. CASE JobSteps
  <2>1. UNCHANGED afterSale /\ InvoicesTypeOK'
    BY <1>4, JobStepsTypes DEF AInv
  <2>2. RInv' /\ NewsOK' /\ (PaidBackInFull' <=> PaidBackInFull)
    BY <2>1, RDeliveriesTaken, NewsKept
       DEF AInv, RInv, afterSale, money, goods, PaidBackInFull
  <2>3. RunsOK' /\ RowOK'
    BY <1>4, <2>2, JobStepsKeep DEF AInv
  <2> QED
    BY <2>1, <2>2, <2>3 DEF AInv
<1>5. CASE UNCHANGED vars
  <2>1. UNCHANGED <<money, goods>> /\ UNCHANGED invoicing /\ deliveries' = deliveries
    BY <1>5 DEF vars, money, goods, invoicing
  <2>2. RInv' /\ NewsOK' /\ (PaidBackInFull => PaidBackInFull')
    BY <2>1, RDeliveriesTaken, NewsKept DEF AInv, RInv, money, goods, PaidBackInFull
  <2> QED
    BY <2>1, <2>2 DEF AInv, InvoicesTypeOK, RunsOK, RowOK, invoicing
<1> QED
  BY <1>1, <1>2, <1>3, <1>4, <1>5 DEF Next, InvoicesNext, JobSteps

\* Refunds, returns, shipment and invoice together keep AInv.
THEOREM AfterSaleInvariant == Spec => []AInv
  BY AInit, AStep, PTL DEF Spec

\* The invoice, beside the refunds it composes with, stays what the code declares.
THEOREM AfterSaleTypes == Spec => []TypeOK
<1>1. AInv => TypeOK
  BY RefundsPromises DEF AInv, TypeOK
<1> QED
  BY <1>1, AfterSaleInvariant, PTL

\* queueVoid, issueInvoice, voidInvoice and their recorders: the invoice does not
\* lie about the money or the register, however late, lost or repeated the
\* answers of both jobs are.
THEOREM InvoicesTellTheTruth == Spec => []InvoiceMatchesRegister
<1>1. AInv => InvoiceMatchesRegister
  BY DEF AInv, RowOK, InvoiceMatchesRegister, Voiding
<1> QED
  BY <1>1, AfterSaleInvariant, PTL

\* The promises of Refunds hold of the composition as well.
THEOREM RefundsKeepTheirPromises ==
  Spec => [](MoneyGoesBackOnce /\ ShipOrRefund /\ GoodsComeBackOnce /\ CaseMatchesRefund)
<1>1. AInv => MoneyGoesBackOnce /\ ShipOrRefund /\ GoodsComeBackOnce /\ CaseMatchesRefund
  BY RefundsPromises DEF AInv
<1> QED
  BY <1>1, AfterSaleInvariant, PTL
=============================================================================

------------------------ MODULE OrderLifecycleProofs ------------------------
(***************************************************************************)
(* The safety properties of OrderLifecycle, and that its commands keep the *)
(* promise of OrderSale, for any orders, lines, prices, limits and bounds.  *)
(***************************************************************************)
EXTENDS OrderLifecycle, FiniteSetTheorems, TLAPS

-----------------------------------------------------------------------------
(***************************************************************************)
(* What a sum is when its set gains or loses a member                      *)
(***************************************************************************)

\* One member has as many units as the function says.
LEMMA UnitsOfOne ==
  ASSUME NEW x, NEW n \in Nat
  PROVE  /\ IsFiniteSet({x} \X (1..n))
         /\ Cardinality({x} \X (1..n)) = n
<1>1. IsFiniteSet({x}) /\ Cardinality({x}) = 1
  BY FS_Singleton
<1>2. IsFiniteSet(1..n) /\ Cardinality(1..n) = n
  BY FS_Interval
<1>3. /\ IsFiniteSet({x} \X (1..n))
      /\ Cardinality({x} \X (1..n)) = Cardinality({x}) * Cardinality(1..n)
  BY <1>1, <1>2, FS_Product
<1> QED
  BY <1>1, <1>2, <1>3

\* A finite sum of numbers is a number.
LEMMA SumType ==
  ASSUME NEW S, IsFiniteSet(S), NEW f, \A x \in S : f[x] \in Nat
  PROVE  IsFiniteSet(Units(f, S)) /\ SumOver(f, S) \in Nat
<1> DEFINE g == [x \in S |-> {x} \X (1..f[x])]
           T == {{x} \X (1..f[x]) : x \in S}
<1>1. g \in Surjection(S, T)
  BY DEF Surjection
<1>2. IsFiniteSet(T)
  BY <1>1, FS_Surjection
<1>3. \A U \in T : IsFiniteSet(U)
  <2> SUFFICES ASSUME NEW x \in S PROVE IsFiniteSet({x} \X (1..f[x]))
    OBVIOUS
  <2> QED
    BY UnitsOfOne
<1>4. IsFiniteSet(UNION T)
  <2> HIDE DEF T
  <2> QED
    BY <1>2, <1>3, FS_UNION
<1> QED
  BY <1>4, FS_CardinalityType DEF Units, SumOver

\* Nothing sums up to nothing.
LEMMA SumEmpty == \A f : SumOver(f, {}) = 0
<1>1. \A f : Units(f, {}) = {}
  BY DEF Units
<1> QED
  BY <1>1, FS_EmptySet DEF SumOver

\* A new member adds what it has.
LEMMA SumAdd ==
  ASSUME NEW S, IsFiniteSet(S), NEW f, NEW y, y \notin S,
         \A x \in S \cup {y} : f[x] \in Nat
  PROVE  SumOver(f, S \cup {y}) = SumOver(f, S) + f[y]
<1> DEFINE U == {y} \X (1..f[y])
<1>1. Units(f, S \cup {y}) = Units(f, S) \cup U
  BY DEF Units
<1>2. Units(f, S) \cap U = {}
  BY DEF Units
<1>3. IsFiniteSet(Units(f, S)) /\ Cardinality(Units(f, S)) \in Nat
  BY SumType DEF SumOver
<1>4. IsFiniteSet(U) /\ Cardinality(U) = f[y]
  BY UnitsOfOne
<1>5. Cardinality(Units(f, S) \cup U)
        = Cardinality(Units(f, S)) + Cardinality(U) - Cardinality(Units(f, S) \cap U)
  BY <1>3, <1>4, FS_Union
<1>6. Cardinality(Units(f, S) \cap U) = 0
  BY <1>2, FS_EmptySet
<1>7. /\ SumOver(f, S \cup {y}) = Cardinality(Units(f, S) \cup U)
      /\ SumOver(f, S) = Cardinality(Units(f, S))
  BY <1>1 DEF SumOver
<1> HIDE DEF U
<1> QED
  BY <1>3, <1>4, <1>5, <1>6, <1>7

\* A member that leaves takes what it has.
LEMMA SumRemove ==
  ASSUME NEW S, IsFiniteSet(S), NEW f, NEW y \in S,
         \A x \in S : f[x] \in Nat
  PROVE  /\ SumOver(f, S \ {y}) = SumOver(f, S) - f[y]
         /\ SumOver(f, S) >= f[y]
<1>1. IsFiniteSet(S \ {y}) /\ (S \ {y}) \cup {y} = S
  BY FS_RemoveElement
<1>2. SumOver(f, S) = SumOver(f, S \ {y}) + f[y]
  BY <1>1, SumAdd
<1>3. SumOver(f, S \ {y}) \in Nat /\ SumOver(f, S) \in Nat
  BY <1>1, SumType
<1> QED
  BY <1>2, <1>3

\* A sum looks at the values of its members only.
LEMMA SumSame ==
  ASSUME NEW S, NEW f, NEW g, \A x \in S : f[x] = g[x]
  PROVE  SumOver(f, S) = SumOver(g, S)
<1>1. Units(f, S) = Units(g, S)
  BY DEF Units
<1> QED
  BY <1>1 DEF SumOver

\* A member joins, and brings its value under another function.
LEMMA SumGains ==
  ASSUME NEW S, IsFiniteSet(S), NEW f, NEW g, NEW y, y \notin S,
         \A x \in S : g[x] \in Nat, g[y] \in Nat, \A x \in S : f[x] = g[x]
  PROVE  SumOver(g, S \cup {y}) = SumOver(f, S) + g[y]
<1>1. \A x \in S \cup {y} : g[x] \in Nat
  OBVIOUS
<1>2. SumOver(g, S \cup {y}) = SumOver(g, S) + g[y]
  BY <1>1, SumAdd
<1>3. SumOver(g, S) = SumOver(f, S)
  BY SumSame
<1> QED
  BY <1>2, <1>3

\* An order has an attempt under way only while it is being paid, and then one,
\* at the stage its status says; it has a successful one when it is paid, and one.
AttemptsOK(o) ==
  LET s == order[o].status
  IN  /\ s \notin Paying => AttemptsOf(o, Active) = {}
      /\ s \in Paying => \E a \in Attempts : AttemptsOf(o, Active) = {a}
      /\ s = "payment_processing" =>
           \A a \in AttemptsOf(o, Active) : attempt[a] # "awaiting_payment"
      /\ s = "awaiting_payment" =>
           \A a \in AttemptsOf(o, Active) : attempt[a] = "awaiting_payment"
      /\ s # "paid" => AttemptsOf(o, {"succeeded"}) = {}
      /\ s = "paid" => \E a \in Attempts : AttemptsOf(o, {"succeeded"}) = {a}

CouponHolders == {o \in Orders : benefit[o].coupon = "active"}

\* What an order took is given back when it ended unpaid or was refunded, and
\* what it gave is clawed back only then.
BenefitOK(o) ==
  LET b == benefit[o]
      given == order[o].status \in {"expired", "cancelled"} \/ Refunded(o)
  IN  /\ order[o].status = "none" => b.coupon = "none" /\ b.ledger = {}
      /\ given => b.coupon # "active"
      /\ ~given => b.coupon # "reversed"
      /\ "refund" \in b.ledger <=> given /\ "redemption" \in b.ledger
      /\ "order-accrual" \in b.ledger <=> order[o].status = "paid" /\ Total(o) > 0
      /\ Refunded(o) => order[o].status = "paid"

BenefitsInv == /\ \A o \in Orders : BenefitOK(o)
               /\ redeemed = Cardinality(CouponHolders)
               /\ redeemed <= CouponLimit
               /\ Balance >= 0

IInv == /\ TypeOK
        /\ \A o \in Orders : AttemptsOK(o)
        /\ StockMatchesOrders
        /\ BenefitsInv

\* The deadline an open order has now is still to be acted on.
DeadlineOK(o) ==
  LET d == order[o].expiresAt
  IN  order[o].status \in Open =>
        /\ WillRun(expiry[o], d) /\ d > 0
        /\ <<"expiry", o, d>> \notin expired /\ <<"payment", o, d>> \notin expired

\* A deadline that is being acted on is over.
ExpiryOK(o) == expiry[o].state = "running" => expiry[o].at <= clock

\* The attempts made so far are numbered without a gap.
Numbered(o) == \E k \in 0..MaxPayments :
                 {n \in 1..MaxPayments : attempt[<<o, n>>] # "none"} = 1..k

\* What the payment job of an attempt knows of it.
PayOK(a) ==
  LET next == pay[a].next
  IN  /\ attempt[a] = "none" => pay[a].state = "none"
      /\ pay[a].state # "running" => next = Nothing
      /\ attempt[a] = "created" => pay[a].state \in {"pending", "running", "dead"}
      /\ next.kind = "expire" =>
           /\ next.expiresAt <= clock
           /\ attempt[a] = "created" => order[OrderOf(a)].expiresAt = next.expiresAt

\* What the jobs know of the orders while every process has the clock of the
\* database (MaxLag = 0).
JobsInv == /\ \A o \in Orders : DeadlineOK(o) /\ ExpiryOK(o) /\ Numbered(o)
           /\ \A a \in Attempts : PayOK(a)
           /\ \A key \in expired : key[3] <= clock

-----------------------------------------------------------------------------
(***************************************************************************)
(* Facts about the operators of the model                                  *)
(***************************************************************************)
OrderRow == [status : OrderStatus, expiresAt : Time]
StockRow == [onHand : Nat, reserved : Nat]

\* What TypeOK says of the columns that the proofs look at.
LEMMA Columns ==
  ASSUME TypeOK
  PROVE  /\ order \in [Orders -> OrderRow]
         /\ attempt \in [Attempts -> AttemptStatus]
         /\ stock \in [Products -> StockRow]
         /\ benefit \in [Orders -> Benefit]
         /\ redeemed \in Nat
  BY DEF TypeOK, OrderRow, StockRow

\* An attempt is a pair of an order and a number.
LEMMA AttemptPair ==
  ASSUME NEW a \in Attempts
  PROVE  OrderOf(a) \in Orders /\ a = <<OrderOf(a), a[2]>>
  BY DEF Attempts, OrderOf

LEMMA JobRowKept ==
  ASSUME NEW j \in JobRow(Time), NEW d \in Time, NEW s \in {"pending", "running", "done", "dead"}
  PROVE  /\ Enqueued(j, d) \in JobRow(Time)
         /\ Settled(j, s) \in JobRow(Time)
         /\ [j EXCEPT !.state = s] \in JobRow(Time)
<1>1. 0 \in Time
  BY OrderAssumption DEF Time
<1>2. \A e \in Time : JobAt(e) \in JobRow(Time)
  BY <1>1 DEF JobAt, JobRow
<1> QED
  BY <1>1, <1>2 DEF Enqueued, Settled, JobRow

LEMMA MaxMinOfTwo ==
  ASSUME NEW x \in Int, NEW y \in Int
  PROVE  /\ Max({x, y}) = IF x >= y THEN x ELSE y
         /\ Min({x, y}) = IF x <= y THEN x ELSE y
  BY DEF Max, Min

LEMMA MinOfThree ==
  ASSUME NEW x \in Int, NEW y \in Int, NEW z \in Int
  PROVE  /\ Min({x, y, z}) \in {x, y, z}
         /\ Min({x, y, z}) <= x /\ Min({x, y, z}) <= y /\ Min({x, y, z}) <= z
<1>1. \E m \in {x, y, z} : \A n \in {x, y, z} : m <= n
  OBVIOUS
<1> QED
  BY <1>1 DEF Min

-----------------------------------------------------------------------------
(***************************************************************************)
(* Stock                                                                   *)
(***************************************************************************)
\* What the orders want of a product, and what the open ones hold.
Lines(p) == [o \in Orders |-> Quantity[o][p]]
HeldOf(p) == SumOver(Lines(p), OpenOrders)

LEMMA HeldFacts ==
  ASSUME NEW p \in Products
  PROVE  /\ IsFiniteSet(OpenOrders)
         /\ \A o \in Orders : Quantity[o][p] \in Nat
         /\ HeldOf(p) \in Nat
<1>1. IsFiniteSet(OpenOrders)
  BY OrderAssumption, FS_Subset DEF OpenOrders
<1>2. \A o \in Orders : Quantity[o][p] \in Nat
  BY OrderAssumption
<1>3. \A o \in OpenOrders : Lines(p)[o] \in Nat
  BY <1>2 DEF OpenOrders, Lines
<1> QED
  BY <1>1, <1>2, <1>3, SumType DEF HeldOf

\* One more open order, or one less.
LEMMA HolderComesOrGoes ==
  ASSUME NEW H, IsFiniteSet(H), H \subseteq Orders, NEW o \in Orders, NEW p \in Products
  PROVE  /\ o \notin H => SumOver(Lines(p), H \cup {o}) = SumOver(Lines(p), H) + Quantity[o][p]
         /\ o \in H => /\ SumOver(Lines(p), H \ {o}) = SumOver(Lines(p), H) - Quantity[o][p]
                       /\ SumOver(Lines(p), H) >= Quantity[o][p]
<1>1. Lines(p)[o] = Quantity[o][p] /\ \A r \in H \cup {o} : Lines(p)[r] \in Nat
  BY OrderAssumption DEF Lines
<1>2. o \notin H => SumOver(Lines(p), H \cup {o}) = SumOver(Lines(p), H) + Lines(p)[o]
  BY <1>1, SumAdd
<1>3. o \in H => /\ SumOver(Lines(p), H \ {o}) = SumOver(Lines(p), H) - Lines(p)[o]
                 /\ SumOver(Lines(p), H) >= Lines(p)[o]
  BY <1>1, SumRemove
<1> QED
  BY <1>1, <1>2, <1>3

LEMMA HeldChanges ==
  ASSUME NEW o \in Orders, NEW p \in Products,
         \A r \in Orders \ {o} : order'[r] = order[r]
  PROVE  /\ o \notin OpenOrders /\ o \in OpenOrders' => HeldOf(p)' = HeldOf(p) + Quantity[o][p]
         /\ o \in OpenOrders /\ o \notin OpenOrders' => /\ HeldOf(p)' = HeldOf(p) - Quantity[o][p]
                                                        /\ HeldOf(p) >= Quantity[o][p]
         /\ (o \in OpenOrders <=> o \in OpenOrders') => HeldOf(p)' = HeldOf(p)
<1>1. IsFiniteSet(OpenOrders) /\ OpenOrders \subseteq Orders
  BY HeldFacts DEF OpenOrders
<1>2. /\ o \notin OpenOrders /\ o \in OpenOrders' => OpenOrders' = OpenOrders \cup {o}
      /\ o \in OpenOrders /\ o \notin OpenOrders' => OpenOrders' = OpenOrders \ {o}
      /\ (o \in OpenOrders <=> o \in OpenOrders') => OpenOrders' = OpenOrders
  BY DEF OpenOrders
<1>3. HeldOf(p) = SumOver(Lines(p), OpenOrders) /\ HeldOf(p)' = SumOver(Lines(p), OpenOrders')
  BY DEF HeldOf
<1>4. /\ o \notin OpenOrders =>
           SumOver(Lines(p), OpenOrders \cup {o}) = SumOver(Lines(p), OpenOrders) + Quantity[o][p]
      /\ o \in OpenOrders =>
           /\ SumOver(Lines(p), OpenOrders \ {o}) = SumOver(Lines(p), OpenOrders) - Quantity[o][p]
           /\ SumOver(Lines(p), OpenOrders) >= Quantity[o][p]
  BY <1>1, HolderComesOrGoes
<1> QED
  BY <1>2, <1>3, <1>4

LEMMA StockByProduct ==
  /\ StockMatchesOrders <=> \A p \in Products : /\ stock[p].reserved = HeldOf(p)
                                                /\ stock[p].reserved <= stock[p].onHand
  /\ StockMatchesOrders' <=> \A p \in Products : /\ stock'[p].reserved = HeldOf(p)'
                                                 /\ stock'[p].reserved <= stock'[p].onHand
  BY DEF StockMatchesOrders, HeldOf, Lines

\* A step of order o that changes no counter, and not whether o is open.
LEMMA StockSame ==
  ASSUME StockMatchesOrders, UNCHANGED stock, NEW o \in Orders,
         \A r \in Orders \ {o} : order'[r] = order[r],
         order[o].status \in Open <=> order'[o].status \in Open
  PROVE  StockMatchesOrders'
<1>1. \A p \in Products : HeldOf(p)' = HeldOf(p)
  BY HeldChanges DEF OpenOrders
<1> QED
  BY <1>1, StockByProduct

\* checkout: the lines are reserved.
LEMMA StockReserved ==
  ASSUME TypeOK, StockMatchesOrders, NEW o \in Orders, Reserve(o),
         \A r \in Orders \ {o} : order'[r] = order[r],
         order[o].status \notin Open, order'[o].status \in Open
  PROVE  StockMatchesOrders' /\ stock' \in [Products -> StockRow]
<1>1. ASSUME NEW p \in Products
      PROVE  /\ stock'[p] \in StockRow
             /\ stock'[p].reserved = HeldOf(p)'
             /\ stock'[p].reserved <= stock'[p].onHand
  <2>1. /\ stock[p] \in StockRow /\ Quantity[o][p] \in Nat
        /\ stock[p].reserved = HeldOf(p)
    BY Columns, StockByProduct, OrderAssumption
  <2>2. HeldOf(p)' = HeldOf(p) + Quantity[o][p]
    BY HeldChanges DEF OpenOrders
  <2>3. /\ stock'[p] = [stock[p] EXCEPT !.reserved = @ + Quantity[o][p]]
        /\ stock[p].onHand - stock[p].reserved >= Quantity[o][p]
    BY DEF Reserve
  <2>4. /\ stock'[p].onHand = stock[p].onHand
        /\ stock'[p].reserved = stock[p].reserved + Quantity[o][p]
        /\ stock'[p] \in StockRow
    BY <2>1, <2>3 DEF StockRow
  <2> QED
    BY <2>1, <2>2, <2>3, <2>4 DEF StockRow
<1>2. stock' = [p \in Products |-> stock'[p]]
  BY DEF Reserve
<1> QED
  BY <1>1, <1>2, StockByProduct

\* An order that ends unpaid: the reservations are released.
LEMMA StockReleased ==
  ASSUME TypeOK, StockMatchesOrders, NEW o \in Orders, Release(o),
         \A r \in Orders \ {o} : order'[r] = order[r],
         order[o].status \in Open, order'[o].status \notin Open
  PROVE  StockMatchesOrders' /\ stock' \in [Products -> StockRow]
<1>1. ASSUME NEW p \in Products
      PROVE  /\ stock'[p] \in StockRow
             /\ stock'[p].reserved = HeldOf(p)'
             /\ stock'[p].reserved <= stock'[p].onHand
  <2>1. /\ stock[p] \in StockRow /\ Quantity[o][p] \in Nat
        /\ stock[p].reserved = HeldOf(p) /\ stock[p].reserved <= stock[p].onHand
    BY Columns, StockByProduct, OrderAssumption
  <2>2. HeldOf(p)' = HeldOf(p) - Quantity[o][p]
    BY HeldChanges DEF OpenOrders
  <2>3. /\ stock'[p] = [stock[p] EXCEPT !.reserved = @ - Quantity[o][p]]
        /\ stock[p].reserved >= Quantity[o][p]
    BY DEF Release
  <2>4. /\ stock'[p].onHand = stock[p].onHand
        /\ stock'[p].reserved = stock[p].reserved - Quantity[o][p]
        /\ stock'[p] \in StockRow
    BY <2>1, <2>3 DEF StockRow
  <2> QED
    BY <2>1, <2>2, <2>3, <2>4 DEF StockRow
<1>2. stock' = [p \in Products |-> stock'[p]]
  BY DEF Release
<1> QED
  BY <1>1, <1>2, StockByProduct

\* An order that is paid: the goods leave with their reservation.
LEMMA StockCommitted ==
  ASSUME TypeOK, StockMatchesOrders, NEW o \in Orders, CommitReservation(o),
         \A r \in Orders \ {o} : order'[r] = order[r],
         order[o].status \in Open, order'[o].status \notin Open
  PROVE  StockMatchesOrders' /\ stock' \in [Products -> StockRow]
<1>1. ASSUME NEW p \in Products
      PROVE  /\ stock'[p] \in StockRow
             /\ stock'[p].reserved = HeldOf(p)'
             /\ stock'[p].reserved <= stock'[p].onHand
  <2>1. /\ stock[p] \in StockRow /\ Quantity[o][p] \in Nat
        /\ stock[p].reserved = HeldOf(p) /\ stock[p].reserved <= stock[p].onHand
    BY Columns, StockByProduct, OrderAssumption
  <2>2. HeldOf(p)' = HeldOf(p) - Quantity[o][p]
    BY HeldChanges DEF OpenOrders
  <2>3. /\ stock'[p] = [onHand |-> stock[p].onHand - Quantity[o][p],
                        reserved |-> stock[p].reserved - Quantity[o][p]]
        /\ stock[p].reserved >= Quantity[o][p] /\ stock[p].onHand >= Quantity[o][p]
    BY DEF CommitReservation
  <2> QED
    BY <2>1, <2>2, <2>3 DEF StockRow
<1>2. stock' = [p \in Products |-> stock'[p]]
  BY DEF CommitReservation
<1> QED
  BY <1>1, <1>2, StockByProduct

\* A step that leaves the orders and the reservations as they are, and as many
\* goods as are reserved.
LEMMA StockRecounted ==
  ASSUME TypeOK, StockMatchesOrders, UNCHANGED order, stock' \in [Products -> StockRow],
         \A p \in Products : /\ stock'[p].reserved = stock[p].reserved
                             /\ stock'[p].onHand >= stock[p].reserved
  PROVE  StockMatchesOrders'
<1>1. \A p \in Products : HeldOf(p)' = HeldOf(p)
  BY DEF HeldOf, OpenOrders, Lines
<1>2. \A p \in Products : stock[p] \in StockRow /\ stock'[p] \in StockRow
  BY Columns
<1> QED
  BY <1>1, <1>2, StockByProduct DEF StockRow

-----------------------------------------------------------------------------
(***************************************************************************)
(* Coupon, wallet and ledger                                               *)
(***************************************************************************)
Spent == [o \in Orders |-> benefit[o].spent]

LEMMA BalanceIs == /\ Balance = Wallet - SumOver(Spent, Spenders)
                   /\ Balance' = Wallet - SumOver(Spent', Spenders')
  BY DEF Balance, Spent

LEMMA SpentFacts ==
  ASSUME TypeOK
  PROVE  /\ IsFiniteSet(Spenders) /\ IsFiniteSet(CouponHolders)
         /\ \A o \in Orders : Spent[o] = benefit[o].spent /\ Spent[o] \in Nat
         /\ SumOver(Spent, Spenders) \in Nat
         /\ Balance \in Int
<1>1. IsFiniteSet(Spenders) /\ IsFiniteSet(CouponHolders)
  BY OrderAssumption, FS_Subset DEF Spenders, CouponHolders
<1>2. \A o \in Orders : Spent[o] = benefit[o].spent /\ Spent[o] \in Nat
  BY Columns DEF Spent, Benefit
<1>3. \A o \in Spenders : Spent[o] \in Nat
  BY <1>2 DEF Spenders
<1>4. SumOver(Spent, Spenders) \in Nat
  BY <1>1, <1>3, SumType
<1> QED
  BY <1>1, <1>2, <1>4, BalanceIs, OrderAssumption

\* An order begins to spend, and an order stops.
LEMMA SpenderComes ==
  ASSUME NEW o, IsFiniteSet(Spenders), o \notin Spenders, Spent'[o] \in Nat,
         \A r \in Spenders : Spent'[r] \in Nat, \A r \in Spenders : Spent[r] = Spent'[r]
  PROVE  SumOver(Spent', Spenders \cup {o}) = SumOver(Spent, Spenders) + Spent'[o]
  BY SumGains

LEMMA SpenderGoes ==
  ASSUME NEW o, o \in Spenders, IsFiniteSet(Spenders), \A r \in Spenders : Spent[r] \in Nat,
         \A r \in Spenders \ {o} : Spent[r] = Spent'[r]
  PROVE  SumOver(Spent', Spenders \ {o}) = SumOver(Spent, Spenders) - Spent[o]
<1>1. SumOver(Spent, Spenders \ {o}) = SumOver(Spent, Spenders) - Spent[o]
  BY SumRemove
<1>2. SumOver(Spent', Spenders \ {o}) = SumOver(Spent, Spenders \ {o})
  BY SumSame
<1> QED
  BY <1>1, <1>2

\* One order moves its books: the sum and the count lose what it had and gain
\* what it has.
LEMMA BooksMove ==
  ASSUME TypeOK, NEW o \in Orders, benefit' \in [Orders -> Benefit],
         \A r \in Orders \ {o} : benefit'[r] = benefit[r]
  PROVE  /\ o \notin Spenders /\ o \notin Spenders' => Balance' = Balance
         /\ o \notin Spenders /\ o \in Spenders' => Balance' = Balance - benefit'[o].spent
         /\ o \in Spenders /\ o \notin Spenders' => Balance' = Balance + benefit[o].spent
         /\ o \in Spenders /\ o \in Spenders' /\ benefit'[o].spent = benefit[o].spent =>
              Balance' = Balance
<1>1. /\ IsFiniteSet(Spenders) /\ Spenders \subseteq Orders
      /\ \A r \in Orders : Spent[r] = benefit[r].spent /\ Spent[r] \in Nat
  BY SpentFacts DEF Spenders
<1>2. /\ \A r \in Orders : Spent'[r] = benefit'[r].spent /\ Spent'[r] \in Nat
      /\ \A r \in Orders \ {o} : Spent[r] = Spent'[r]
  BY DEF Spent, Benefit
<1>3. Balance = Wallet - SumOver(Spent, Spenders) /\ Balance' = Wallet - SumOver(Spent', Spenders')
  BY BalanceIs
<1>4. SumOver(Spent, Spenders) \in Nat /\ Wallet \in Nat
  BY SpentFacts, OrderAssumption
<1>5. ASSUME o \notin Spenders, o \notin Spenders' PROVE Balance' = Balance
  <2>1. Spenders' = Spenders
    BY <1>5 DEF Spenders
  <2>2. \A r \in Spenders : Spent[r] = Spent'[r]
    BY <1>1, <1>2, <1>5
  <2>3. SumOver(Spent', Spenders) = SumOver(Spent, Spenders)
    BY <2>2, SumSame
  <2> QED
    BY <1>3, <2>1, <2>3
<1>6. ASSUME o \notin Spenders, o \in Spenders' PROVE Balance' = Balance - benefit'[o].spent
  <2>1. Spenders' = Spenders \cup {o}
    BY <1>6 DEF Spenders
  <2>2. /\ \A r \in Spenders : Spent'[r] \in Nat
        /\ \A r \in Spenders : Spent[r] = Spent'[r]
    BY <1>1, <1>2, <1>6
  <2>3. SumOver(Spent', Spenders \cup {o}) = SumOver(Spent, Spenders) + Spent'[o]
    BY <1>1, <1>2, <1>6, <2>2, SpenderComes
  <2> QED
    BY <1>2, <1>3, <1>4, <2>1, <2>3
<1>7. ASSUME o \in Spenders, o \notin Spenders' PROVE Balance' = Balance + benefit[o].spent
  <2>1. Spenders' = Spenders \ {o}
    BY <1>7 DEF Spenders
  <2>2. /\ \A r \in Spenders : Spent[r] \in Nat
        /\ \A r \in Spenders \ {o} : Spent[r] = Spent'[r]
    BY <1>1, <1>2
  <2>3. SumOver(Spent', Spenders \ {o}) = SumOver(Spent, Spenders) - Spent[o]
    BY <1>1, <1>7, <2>2, SpenderGoes
  <2> QED
    BY <1>1, <1>3, <1>4, <2>1, <2>3
<1>8. ASSUME o \in Spenders, o \in Spenders', benefit'[o].spent = benefit[o].spent
      PROVE  Balance' = Balance
  <2>1. Spenders' = Spenders
    BY <1>8 DEF Spenders
  <2>2. \A r \in Spenders : Spent[r] = Spent'[r]
    BY <1>1, <1>2, <1>8
  <2>3. SumOver(Spent', Spenders) = SumOver(Spent, Spenders)
    BY <2>2, SumSame
  <2> QED
    BY <1>3, <2>1, <2>3
<1> QED
  BY <1>5, <1>6, <1>7, <1>8

\* What reverseCouponForOrder and reverseForOrder make of the books of an order.
LEMMA ReversedBooks ==
  ASSUME NEW b \in Benefit
  PROVE  /\ Reversed(b) \in Benefit
         /\ Reversed(b).spent = b.spent
         /\ Reversed(b).coupon = IF b.coupon = "active" THEN "reversed" ELSE b.coupon
         /\ Reversed(b).ledger = b.ledger \cup
              {e \in {"refund", "clawback"} : \/ e = "refund" /\ "redemption" \in b.ledger
                                              \/ e = "clawback" /\ "order-accrual" \in b.ledger}
  BY DEF Reversed, Benefit, Entry

\* The coupon counts one more redemption, one less, or as many.
LEMMA CouponMoves ==
  ASSUME TypeOK, redeemed = Cardinality(CouponHolders), NEW o \in Orders,
         \A r \in Orders \ {o} : benefit'[r] = benefit[r]
  PROVE  /\ o \notin CouponHolders /\ o \in CouponHolders' =>
              Cardinality(CouponHolders') = redeemed + 1
         /\ o \in CouponHolders /\ o \notin CouponHolders' =>
              redeemed > 0 /\ Cardinality(CouponHolders') = redeemed - 1
         /\ (o \in CouponHolders <=> o \in CouponHolders') =>
              Cardinality(CouponHolders') = redeemed
<1>1. IsFiniteSet(CouponHolders) /\ redeemed \in Nat
  BY SpentFacts, Columns
<1>2. /\ o \notin CouponHolders /\ o \in CouponHolders' => CouponHolders' = CouponHolders \cup {o}
      /\ o \in CouponHolders /\ o \notin CouponHolders' => CouponHolders' = CouponHolders \ {o}
      /\ (o \in CouponHolders <=> o \in CouponHolders') => CouponHolders' = CouponHolders
  BY DEF CouponHolders
<1>3. o \notin CouponHolders => Cardinality(CouponHolders \cup {o}) = redeemed + 1
  BY <1>1, FS_AddElement
<1>4. o \in CouponHolders => redeemed > 0 /\ Cardinality(CouponHolders \ {o}) = redeemed - 1
  <2>1. o \in CouponHolders => Cardinality(CouponHolders \ {o}) = redeemed - 1
    BY <1>1, FS_RemoveElement
  <2>2. IsFiniteSet(CouponHolders \ {o}) /\ Cardinality(CouponHolders \ {o}) \in Nat
    BY <1>1, FS_Subset, FS_CardinalityType
  <2> QED
    BY <1>1, <2>1, <2>2
<1> QED
  BY <1>2, <1>3, <1>4

\* What an order says of its books depends on its own row and books only.
LEMMA OtherBooks ==
  ASSUME NEW r \in Orders, BenefitOK(r), benefit'[r] = benefit[r], order'[r] = order[r]
  PROVE  BenefitOK(r)'
  BY DEF BenefitOK, Refunded, Total

\* A step that moves an order among its open statuses, or none at all.
LEMMA BenefitsSame ==
  ASSUME BenefitsInv, UNCHANGED <<benefit, redeemed>>, NEW o \in Orders,
         \A r \in Orders \ {o} : order'[r] = order[r],
         \/ order'[o].status = order[o].status
         \/ order[o].status \in Open /\ order'[o].status \in Open
  PROVE  BenefitsInv'
<1>1. \A r \in Orders : BenefitOK(r)'
  <2>1. BenefitOK(o)'
    BY DEF BenefitsInv, BenefitOK, Refunded, Total, Open
  <2> QED
    BY <2>1, OtherBooks DEF BenefitsInv
<1>2. CouponHolders' = CouponHolders /\ Balance' = Balance
  BY DEF CouponHolders, Balance, Spenders
<1> QED
  BY <1>1, <1>2 DEF BenefitsInv

\* checkout: the coupon and the wallet are asked for no more than they have.
LEMMA BenefitsTaken ==
  ASSUME TypeOK, BenefitsInv, NEW o \in Orders, NEW t, Checkout(o, t)
  PROVE  BenefitsInv' /\ benefit' \in [Orders -> Benefit] /\ redeemed' \in Nat
<1> DEFINE x == Redeemable(o)
           b == [coupon |-> IF o \in CouponOrders THEN "active" ELSE "none",
                 spent |-> x, ledger |-> IF x > 0 THEN {"redemption"} ELSE {}]
<1>1. x \in Nat /\ x <= Balance
  <2>1. Balance \in Int /\ Wish[o] \in Int /\ Price[o] \in Int /\ Balance >= 0
    BY SpentFacts, OrderAssumption DEF BenefitsInv
  <2> DEFINE m == Min({Wish[o], Balance, Price[o]})
  <2>2. m \in Int /\ m <= Balance
    BY <2>1, MinOfThree
  <2>3. x = Max({0, m})
    BY DEF Redeemable
  <2> HIDE DEF m, x
  <2>4. Max({0, m}) = IF 0 >= m THEN 0 ELSE m
    BY <2>2, MaxMinOfTwo
  <2> QED
    BY <2>1, <2>2, <2>3, <2>4
<1>2. /\ benefit' = [benefit EXCEPT ![o] = b]
      /\ order'[o].status = "pending" /\ order[o].status = "none"
      /\ \A r \in Orders \ {o} : order'[r] = order[r]
  BY Columns DEF Checkout
<1> HIDE DEF x
<1>3. b \in Benefit
  BY <1>1 DEF Benefit, Entry
<1>4. /\ benefit' \in [Orders -> Benefit] /\ benefit'[o] = b
      /\ \A r \in Orders \ {o} : benefit'[r] = benefit[r]
  BY <1>2, <1>3, Columns
<1>5. benefit[o].coupon = "none" /\ benefit[o].ledger = {}
  BY <1>2 DEF BenefitsInv, BenefitOK
<1>6. BenefitOK(o)'
  BY <1>2, <1>4 DEF BenefitOK, Refunded
<1>7. \A r \in Orders : BenefitOK(r)'
  BY <1>2, <1>4, <1>6, OtherBooks DEF BenefitsInv
<1>8. Balance' >= 0
  <2>1. o \notin Spenders
    BY <1>5 DEF Spenders
  <2>2. o \in Spenders' => Balance' = Balance - x
    BY <1>4, <2>1, BooksMove
  <2>3. o \notin Spenders' => Balance' = Balance
    BY <1>4, <2>1, BooksMove
  <2> QED
    BY <1>1, <2>2, <2>3, SpentFacts DEF BenefitsInv
<1>9. redeemed' = Cardinality(CouponHolders') /\ redeemed' <= CouponLimit /\ redeemed' \in Nat
  <2>1. o \notin CouponHolders /\ (o \in CouponHolders' <=> o \in CouponOrders)
    BY <1>4, <1>5 DEF CouponHolders
  <2>2. /\ redeemed' = IF o \in CouponOrders THEN redeemed + 1 ELSE redeemed
        /\ o \in CouponOrders => redeemed < CouponLimit
    BY DEF Checkout
  <2>3. Cardinality(CouponHolders') = IF o \in CouponOrders THEN redeemed + 1 ELSE redeemed
    BY <1>4, <2>1, CouponMoves DEF BenefitsInv
  <2> QED
    BY <2>2, <2>3, Columns, OrderAssumption DEF BenefitsInv
<1> QED
  BY <1>4, <1>7, <1>8, <1>9 DEF BenefitsInv

\* reverseCouponForOrder and reverseForOrder: of an open order that ends unpaid,
\* or of a paid one that is refunded.
LEMMA BenefitsReversed ==
  ASSUME TypeOK, BenefitsInv, NEW o \in Orders, ReverseBenefits(o),
         \A r \in Orders \ {o} : order'[r] = order[r],
         \/ order[o].status \in Open /\ order'[o].status \in {"expired", "cancelled"}
         \/ /\ order[o].status = "paid" /\ order'[o].status = "paid"
            /\ Total(o) > 0 /\ ~Refunded(o)
  PROVE  BenefitsInv' /\ benefit' \in [Orders -> Benefit] /\ redeemed' \in Nat
<1> DEFINE b == Reversed(benefit[o])
<1>1. benefit[o] \in Benefit /\ BenefitOK(o)
  BY Columns DEF BenefitsInv
<1>2. /\ b \in Benefit /\ b.spent = benefit[o].spent
      /\ b.coupon = IF benefit[o].coupon = "active" THEN "reversed" ELSE benefit[o].coupon
      /\ "refund" \in b.ledger <=> "refund" \in benefit[o].ledger \/ "redemption" \in benefit[o].ledger
      /\ "clawback" \in b.ledger <=>
           "clawback" \in benefit[o].ledger \/ "order-accrual" \in benefit[o].ledger
      /\ \A e \in {"redemption", "order-accrual"} : e \in b.ledger <=> e \in benefit[o].ledger
  BY <1>1, ReversedBooks
<1>3. benefit' = [benefit EXCEPT ![o] = b]
  BY DEF ReverseBenefits
<1> HIDE DEF b
<1>4. /\ benefit' \in [Orders -> Benefit] /\ benefit'[o] = b
      /\ \A r \in Orders \ {o} : benefit'[r] = benefit[r]
  BY <1>2, <1>3, Columns
<1>5. BenefitOK(o)'
  <2>1. CASE order[o].status \in Open /\ order'[o].status \in {"expired", "cancelled"}
    BY <1>1, <1>2, <1>4, <2>1 DEF BenefitOK, Refunded, Total, Open
  <2>2. CASE /\ order[o].status = "paid" /\ order'[o].status = "paid"
             /\ Total(o) > 0 /\ ~Refunded(o)
    BY <1>1, <1>2, <1>4, <2>2 DEF BenefitOK, Refunded, Total
  <2> QED
    BY <2>1, <2>2
<1>6. \A r \in Orders : BenefitOK(r)'
  BY <1>4, <1>5, OtherBooks DEF BenefitsInv
<1>7. Balance' >= 0
  <2>1. o \notin Spenders'
    BY <1>2, <1>4 DEF Spenders
  <2>2. o \notin Spenders => Balance' = Balance
    BY <1>4, <2>1, BooksMove
  <2>3. o \in Spenders => Balance' = Balance + benefit[o].spent
    BY <1>4, <2>1, BooksMove
  <2> QED
    BY <1>1, <2>2, <2>3, SpentFacts DEF BenefitsInv, Benefit
<1>8. redeemed' = Cardinality(CouponHolders') /\ redeemed' <= CouponLimit /\ redeemed' \in Nat
  <2>1. (o \in CouponHolders <=> benefit[o].coupon = "active") /\ o \notin CouponHolders'
    BY <1>2, <1>4 DEF CouponHolders
  <2>2. redeemed' = IF benefit[o].coupon = "active" THEN Max({redeemed - 1, 0}) ELSE redeemed
    BY DEF ReverseBenefits
  <2>3. /\ o \in CouponHolders => redeemed > 0 /\ Cardinality(CouponHolders') = redeemed - 1
        /\ o \notin CouponHolders => Cardinality(CouponHolders') = redeemed
    BY <1>4, <2>1, CouponMoves DEF BenefitsInv
  <2>4. redeemed \in Nat /\ redeemed <= CouponLimit /\ CouponLimit \in Nat
    BY Columns, OrderAssumption DEF BenefitsInv
  <2>5. Max({redeemed - 1, 0}) = IF redeemed - 1 >= 0 THEN redeemed - 1 ELSE 0
    <3>1. \A k \in Int : Max({k, 0}) = IF k >= 0 THEN k ELSE 0
      BY MaxMinOfTwo
    <3>2. redeemed - 1 \in Int
      BY <2>4
    <3> QED
      BY <3>1, <3>2
  <2> QED
    BY <2>1, <2>2, <2>3, <2>4, <2>5
<1> QED
  BY <1>4, <1>6, <1>7, <1>8 DEF BenefitsInv

\* markOrderPaid: the order earns what it accrues.
LEMMA BenefitsEarned ==
  ASSUME TypeOK, BenefitsInv, NEW o \in Orders, NEW a, MarkOrderPaid(o, a),
         order[o].status \in Open
  PROVE  BenefitsInv' /\ benefit' \in [Orders -> Benefit] /\ redeemed' \in Nat
<1> DEFINE b == [benefit[o] EXCEPT !.ledger =
                   IF Total(o) > 0 THEN @ \cup {"order-accrual"} ELSE @]
<1>1. benefit[o] \in Benefit /\ BenefitOK(o)
  BY Columns DEF BenefitsInv
<1>2. /\ b \in Benefit /\ b.spent = benefit[o].spent /\ b.coupon = benefit[o].coupon
      /\ b.ledger = IF Total(o) > 0 THEN benefit[o].ledger \cup {"order-accrual"}
                    ELSE benefit[o].ledger
  BY <1>1 DEF Benefit, Entry
<1>3. /\ benefit' = [benefit EXCEPT ![o] = b] /\ redeemed' = redeemed
      /\ order'[o].status = "paid" /\ \A r \in Orders \ {o} : order'[r] = order[r]
  BY Columns DEF MarkOrderPaid, OrderRow
<1> HIDE DEF b
<1>4. /\ benefit' \in [Orders -> Benefit] /\ benefit'[o] = b
      /\ \A r \in Orders \ {o} : benefit'[r] = benefit[r]
  BY <1>2, <1>3, Columns
<1>5. BenefitOK(o)'
  BY <1>1, <1>2, <1>3, <1>4 DEF BenefitOK, Refunded, Total, Open
<1>6. \A r \in Orders : BenefitOK(r)'
  BY <1>3, <1>4, <1>5, OtherBooks DEF BenefitsInv
<1>7. Balance' >= 0
  <2>1. o \in Spenders' <=> o \in Spenders
    BY <1>2, <1>4 DEF Spenders
  <2> QED
    BY <1>2, <1>4, <2>1, BooksMove DEF BenefitsInv
<1>8. redeemed' = Cardinality(CouponHolders')
  <2>1. o \in CouponHolders' <=> o \in CouponHolders
    BY <1>2, <1>4 DEF CouponHolders
  <2> QED
    BY <1>3, <1>4, <2>1, CouponMoves DEF BenefitsInv
<1> QED
  BY <1>3, <1>4, <1>6, <1>7, <1>8, Columns DEF BenefitsInv

-----------------------------------------------------------------------------
(***************************************************************************)
(* Steps of the records                                                    *)
(***************************************************************************)
\* The part of TypeOK that is about jobs and time.
JobsOK == /\ expiry \in [Orders -> JobRow(Time)]
          /\ expired \subseteq {"expiry", "payment"} \X Orders \X Time
          /\ pay \in [Attempts -> PayJob]
          /\ initiated \subseteq Attempts
          /\ clock \in Time

\* The part that is about the orders and their attempts.
RecordsOK == /\ order \in [Orders -> OrderRow]
             /\ attempt \in [Attempts -> AttemptStatus]
             /\ published \in [Orders -> Seq({"placed", "paid", "cancelled"})]

LEMMA TypesTogether ==
  /\ TypeOK <=> /\ RecordsOK /\ JobsOK /\ stock \in [Products -> StockRow]
                /\ benefit \in [Orders -> Benefit] /\ redeemed \in Nat
  /\ TypeOK' <=> /\ RecordsOK' /\ JobsOK' /\ stock' \in [Products -> StockRow]
                 /\ benefit' \in [Orders -> Benefit] /\ redeemed' \in Nat
  BY DEF TypeOK, RecordsOK, JobsOK, OrderRow, StockRow

LEMMA PublishedOK ==
  ASSUME RecordsOK, NEW o \in Orders, NEW e \in {"placed", "paid", "cancelled"}, Publish(o, e)
  PROVE  published' \in [Orders -> Seq({"placed", "paid", "cancelled"})]
<1>1. Append(published[o], e) \in Seq({"placed", "paid", "cancelled"})
  BY DEF RecordsOK
<1> QED
  BY <1>1 DEF Publish, RecordsOK

LEMMA AttemptsOfFacts ==
  ASSUME NEW o, NEW S
  PROVE  /\ \A a \in Attempts : a \in AttemptsOf(o, S) <=> OrderOf(a) = o /\ attempt[a] \in S
         /\ \A a \in Attempts : a \in AttemptsOf(o, S)' <=> OrderOf(a) = o /\ attempt'[a] \in S
         /\ AttemptsOf(o, S) \subseteq Attempts /\ AttemptsOf(o, S)' \subseteq Attempts
  BY DEF AttemptsOf

\* The attempts of another order.
LEMMA OtherAttempts ==
  ASSUME NEW r \in Orders, AttemptsOK(r), order'[r] = order[r],
         \A a \in Attempts : OrderOf(a) = r => attempt'[a] = attempt[a]
  PROVE  AttemptsOK(r)'
<1>1. AttemptsOf(r, Active)' = AttemptsOf(r, Active)
      /\ AttemptsOf(r, {"succeeded"})' = AttemptsOf(r, {"succeeded"})
  BY DEF AttemptsOf
<1>2. \A a \in AttemptsOf(r, Active) : attempt'[a] = attempt[a]
  BY DEF AttemptsOf
<1> QED
  BY <1>1, <1>2 DEF AttemptsOK

\* An order that is neither paid nor being paid has no attempt under way and
\* none that succeeded.
LEMMA AttemptsOver ==
  ASSUME NEW o \in Orders, order'[o].status \notin Paying \cup {"paid"},
         \A a \in Attempts : OrderOf(a) = o => attempt'[a] \notin Active \cup {"succeeded"}
  PROVE  AttemptsOK(o)'
<1>1. AttemptsOf(o, Active)' = {} /\ AttemptsOf(o, {"succeeded"})' = {}
  BY DEF AttemptsOf
<1> QED
  BY <1>1 DEF AttemptsOK, Paying

\* The one attempt under way moves, with its order.
LEMMA OneAttemptMoves ==
  ASSUME NEW o \in Orders, AttemptsOK(o), order[o].status # "paid",
         NEW a \in Attempts, OrderOf(a) = o, AttemptsOf(o, Active) \subseteq {a},
         attempt' = [attempt EXCEPT ![a] = attempt'[a]],
         attempt \in [Attempts -> AttemptStatus],
         \/ order'[o].status = "payment_processing" /\ attempt'[a] \in {"created", "submitted"}
         \/ order'[o].status = "awaiting_payment" /\ attempt'[a] = "awaiting_payment"
         \/ order'[o].status = "pending" /\ attempt'[a] = "failed"
         \/ order'[o].status = "paid" /\ attempt'[a] = "succeeded"
  PROVE  AttemptsOK(o)'
<1>1. /\ \A b \in Attempts \ {a} : OrderOf(b) = o => attempt'[b] \notin Active
      /\ \A b \in Attempts \ {a} : OrderOf(b) = o => attempt'[b] # "succeeded"
  BY DEF AttemptsOf, AttemptsOK
<1>2. AttemptsOf(o, Active)' = IF attempt'[a] \in Active THEN {a} ELSE {}
  BY <1>1 DEF AttemptsOf
<1>3. AttemptsOf(o, {"succeeded"})' = IF attempt'[a] = "succeeded" THEN {a} ELSE {}
  BY <1>1 DEF AttemptsOf
<1> QED
  BY <1>2, <1>3 DEF AttemptsOK, Active, Paying

\* Who touches one order and the attempts of that order only.
OnlyMoves(o) ==
  /\ \A r \in Orders \ {o} : order'[r] = order[r]
  /\ \A a \in Attempts : OrderOf(a) # o => attempt'[a] = attempt[a]

LEMMA Together ==
  ASSUME IInv, NEW o \in Orders, OnlyMoves(o), RecordsOK', JobsOK', AttemptsOK(o)',
         StockMatchesOrders', stock' \in [Products -> StockRow],
         BenefitsInv', benefit' \in [Orders -> Benefit], redeemed' \in Nat
  PROVE  IInv'
<1>1. \A r \in Orders : AttemptsOK(r)'
  <2>1. \A r \in Orders \ {o} : AttemptsOK(r)'
    BY OtherAttempts DEF IInv, OnlyMoves
  <2> QED
    BY <2>1
<1> QED
  BY <1>1, TypesTogether DEF IInv

\* What IInv says of an order.
LEMMA OrderFacts ==
  ASSUME IInv, NEW o \in Orders
  PROVE  /\ RecordsOK /\ JobsOK /\ TypeOK /\ BenefitsInv /\ StockMatchesOrders
         /\ order[o] \in OrderRow /\ AttemptsOK(o)
         /\ order[o].status \notin Paying \cup {"paid"} =>
              \A a \in Attempts : OrderOf(a) = o => attempt[a] \notin Active \cup {"succeeded"}
         /\ \A a \in Attempts : OrderOf(a) = o /\ attempt[a] \in Active =>
              order[o].status \in Paying /\ AttemptsOf(o, Active) = {a}
<1>1. AttemptsOK(o) /\ RecordsOK
  BY TypesTogether DEF IInv
<1>2. order[o].status \notin Paying \cup {"paid"} =>
        \A a \in Attempts : OrderOf(a) = o => attempt[a] \notin Active \cup {"succeeded"}
  BY <1>1 DEF AttemptsOK, AttemptsOf
<1>3. \A a \in Attempts : OrderOf(a) = o /\ attempt[a] \in Active =>
        order[o].status \in Paying /\ AttemptsOf(o, Active) = {a}
  BY <1>1 DEF AttemptsOK, AttemptsOf
<1> QED
  BY <1>1, <1>2, <1>3, TypesTogether DEF IInv, RecordsOK

LEMMA CheckoutStep ==
  ASSUME IInv, NEW o \in Orders, NEW t \in ProcessClocks, Checkout(o, t)
  PROVE  IInv'
<1>1. /\ order' = [order EXCEPT ![o] = [status |-> "pending", expiresAt |-> t + Reservation]]
      /\ UNCHANGED <<attempt, expired, pay, initiated, clock>>
      /\ order[o].status = "none"
  BY DEF Checkout
<1>2. t + Reservation \in Time
  BY OrderAssumption DEF Checkout, ProcessClocks, Time
<1>3. /\ order'[o].status = "pending" /\ OnlyMoves(o)
      /\ order' \in [Orders -> OrderRow]
  BY <1>1, <1>2, OrderFacts DEF OnlyMoves, OrderRow, OrderStatus, Open, RecordsOK
<1>4. RecordsOK'
  BY <1>1, <1>3, OrderFacts, PublishedOK DEF Checkout, RecordsOK
<1>5. JobsOK'
  <2>1. expiry' \in [Orders -> JobRow(Time)]
    BY <1>2, JobRowKept, OrderFacts DEF Checkout, EnqueueExpiry, JobsOK
  <2> QED
    BY <1>1, <2>1, OrderFacts DEF JobsOK
<1>6. AttemptsOK(o)'
  BY <1>1, <1>3, OrderFacts, AttemptsOver DEF Paying
<1>7. StockMatchesOrders' /\ stock' \in [Products -> StockRow]
  BY <1>1, <1>3, OrderFacts, StockReserved DEF Checkout, Open, OnlyMoves
<1>8. BenefitsInv' /\ benefit' \in [Orders -> Benefit] /\ redeemed' \in Nat
  BY OrderFacts, BenefitsTaken
<1> QED
  BY <1>3, <1>4, <1>5, <1>6, <1>7, <1>8, Together

\* markOrderPaid of an open order by the only attempt that can be under way.
LEMMA MarkOrderPaidStep ==
  ASSUME IInv, NEW o \in Orders, NEW a \in Attempts, OrderOf(a) = o,
         order[o].status \in Open, AttemptsOf(o, Active) \subseteq {a},
         MarkOrderPaid(o, a), JobsOK'
  PROVE  IInv'
<1>1. /\ order' = [order EXCEPT ![o].status = "paid"]
      /\ attempt' = [attempt EXCEPT ![a] = "succeeded"]
      /\ CommitReservation(o) /\ Publish(o, "paid")
  BY DEF MarkOrderPaid
<1>2. /\ order'[o].status = "paid" /\ OnlyMoves(o)
      /\ order' \in [Orders -> OrderRow]
      /\ attempt' \in [Attempts -> AttemptStatus] /\ attempt'[a] = "succeeded"
  BY <1>1, OrderFacts DEF OnlyMoves, OrderRow, OrderStatus, Closed, RecordsOK, AttemptStatus
<1>3. RecordsOK'
  BY <1>1, <1>2, OrderFacts, PublishedOK DEF RecordsOK
<1>4. AttemptsOK(o)'
  BY <1>1, <1>2, OrderFacts, OneAttemptMoves DEF RecordsOK, Open
<1>5. StockMatchesOrders' /\ stock' \in [Products -> StockRow]
  BY <1>1, <1>2, OrderFacts, StockCommitted DEF OnlyMoves, Open
<1>6. BenefitsInv' /\ benefit' \in [Orders -> Benefit] /\ redeemed' \in Nat
  BY OrderFacts, BenefitsEarned
<1> QED
  BY <1>2, <1>3, <1>4, <1>5, <1>6, Together

\* An open order ends unpaid, and its attempts with it.
LEMMA GiveBackStep ==
  ASSUME IInv, NEW o \in Orders, NEW s \in {"cancelled", "expired"},
         order[o].status \in Open, GiveBack(o),
         order' = [order EXCEPT ![o].status = s],
         attempt' \in [Attempts -> AttemptStatus],
         \A b \in Attempts : IF OrderOf(b) = o THEN attempt'[b] \notin Active \cup {"succeeded"}
                             ELSE attempt'[b] = attempt[b],
         published' \in [Orders -> Seq({"placed", "paid", "cancelled"})], JobsOK'
  PROVE  IInv'
<1>1. /\ order'[o].status = s /\ OnlyMoves(o)
      /\ order' \in [Orders -> OrderRow]
  BY OrderFacts DEF OnlyMoves, OrderRow, OrderStatus, Closed, RecordsOK
<1>2. RecordsOK'
  BY <1>1 DEF RecordsOK
<1>3. AttemptsOK(o)'
  BY <1>1, AttemptsOver DEF Paying
<1>4. StockMatchesOrders' /\ stock' \in [Products -> StockRow]
  BY <1>1, OrderFacts, StockReleased DEF GiveBack, OnlyMoves, Open
<1>5. BenefitsInv' /\ benefit' \in [Orders -> Benefit] /\ redeemed' \in Nat
  BY <1>1, OrderFacts, BenefitsReversed DEF GiveBack, OnlyMoves
<1> QED
  BY <1>1, <1>2, <1>3, <1>4, <1>5, Together

\* A step that leaves every record as it is.
LEMMA RecordsSame ==
  ASSUME IInv, UNCHANGED records, JobsOK'
  PROVE  IInv'
<1>1. \A o \in Orders : AttemptsOK(o)'
  BY OtherAttempts DEF IInv, records
<1>2. StockMatchesOrders'
  BY DEF IInv, StockMatchesOrders, OpenOrders, records
<1>3. BenefitsInv'
  <2>1. \A o \in Orders : BenefitOK(o)'
    BY OtherBooks DEF IInv, BenefitsInv, records
  <2>2. CouponHolders' = CouponHolders /\ Balance' = Balance
    BY DEF CouponHolders, Balance, Spenders, records
  <2> QED
    BY <2>1, <2>2 DEF IInv, BenefitsInv, records
<1>4. TypeOK'
  BY TypesTogether DEF IInv, RecordsOK, records
<1> QED
  BY <1>1, <1>2, <1>3, <1>4 DEF IInv

\* A step that moves an open order among its open statuses, with its attempt.
LEMMA OpenMoves ==
  ASSUME IInv, NEW o \in Orders, order[o].status \in Open, order'[o].status \in Open,
         OnlyMoves(o), RecordsOK', JobsOK', AttemptsOK(o)',
         UNCHANGED <<stock, redeemed, benefit>>
  PROVE  IInv'
<1>1. StockMatchesOrders'
  BY OrderFacts, StockSame DEF OnlyMoves
<1>2. BenefitsInv'
  BY OrderFacts, BenefitsSame DEF OnlyMoves
<1> QED
  BY <1>1, <1>2, OrderFacts, TypesTogether, Together

LEMMA PayOrderStep ==
  ASSUME IInv, NEW o \in Orders, PayOrder(o)
  PROVE  IInv'
<1> DEFINE a == NextAttempt(o)
<1>1. /\ order[o].status = "pending" /\ a \in Attempts /\ OrderOf(a) = o
      /\ UNCHANGED <<expiry, expired, initiated, clock>>
      /\ AttemptsOf(o, Active) = {}
  BY OrderFacts DEF PayOrder, NextAttempt, OrderOf, AttemptsOK, Paying
<1>2. CASE MarkOrderPaid(o, a) /\ UNCHANGED pay
  <2>1. JobsOK'
    BY <1>1, <1>2, OrderFacts DEF JobsOK
  <2> HIDE DEF a
  <2> QED
    BY <1>1, <1>2, <2>1, MarkOrderPaidStep DEF Open
<1>3. CASE /\ order' = [order EXCEPT ![o].status = "payment_processing"]
           /\ attempt' = [attempt EXCEPT ![a] = "created"]
           /\ pay' = [pay EXCEPT ![a].state = "pending"]
           /\ UNCHANGED <<stock, redeemed, benefit, published>>
  <2> HIDE DEF a
  <2>1. pay' \in [Attempts -> PayJob]
    BY <1>1, <1>3, OrderFacts DEF JobsOK, PayJob
  <2>2. JobsOK'
    BY <1>1, <2>1, OrderFacts DEF JobsOK
  <2>3. /\ order'[o].status = "payment_processing" /\ OnlyMoves(o)
        /\ order' \in [Orders -> OrderRow]
        /\ attempt' \in [Attempts -> AttemptStatus] /\ attempt'[a] = "created"
    BY <1>1, <1>3, OrderFacts DEF OnlyMoves, OrderRow, OrderStatus, Open, RecordsOK,
                                  AttemptStatus, Active
  <2>4. RecordsOK'
    BY <1>3, <2>3, OrderFacts DEF RecordsOK
  <2>5. AttemptsOK(o)'
    BY <1>1, <1>3, <2>3, OrderFacts, OneAttemptMoves DEF RecordsOK
  <2> QED
    BY <1>1, <1>3, <2>2, <2>3, <2>4, <2>5, OpenMoves DEF Open
<1> QED
  BY <1>2, <1>3 DEF PayOrder

LEMMA CancelOrderStep ==
  ASSUME IInv, NEW o \in Orders, CancelOrder(o)
  PROVE  IInv'
<1>1. /\ order[o].status = "pending" /\ GiveBack(o)
      /\ order' = [order EXCEPT ![o].status = "cancelled"]
      /\ Publish(o, "cancelled")
      /\ UNCHANGED <<attempt, expiry, expired, pay, initiated, clock>>
  BY DEF CancelOrder, jobs
<1>2. JobsOK'
  BY <1>1, OrderFacts DEF JobsOK
<1>3. \A b \in Attempts : IF OrderOf(b) = o THEN attempt'[b] \notin Active \cup {"succeeded"}
                          ELSE attempt'[b] = attempt[b]
  BY <1>1, OrderFacts DEF Paying
<1>4. published' \in [Orders -> Seq({"placed", "paid", "cancelled"})]
  BY <1>1, OrderFacts, PublishedOK
<1>5. attempt' \in [Attempts -> AttemptStatus]
  BY <1>1, OrderFacts DEF RecordsOK
<1> QED
  BY <1>1, <1>2, <1>3, <1>4, <1>5, GiveBackStep DEF Open

\* finalizeDirectRefund: the goods are free again, and the order stays paid.
LEMMA FinalizeDirectRefundStep ==
  ASSUME IInv, NEW o \in Orders, FinalizeDirectRefund(o)
  PROVE  IInv'
<1>1. /\ order[o].status = "paid" /\ Total(o) > 0 /\ ~Refunded(o)
      /\ stock' = [p \in Products |-> [stock[p] EXCEPT !.onHand = @ + Quantity[o][p]]]
      /\ ReverseBenefits(o)
      /\ UNCHANGED <<order, attempt, published, expiry, expired, pay, initiated, clock>>
  BY DEF FinalizeDirectRefund, jobs
<1>2. JobsOK' /\ RecordsOK' /\ OnlyMoves(o)
  BY <1>1, OrderFacts DEF JobsOK, RecordsOK, OnlyMoves
<1>3. AttemptsOK(o)'
  BY <1>1, OrderFacts, OtherAttempts
<1>4. ASSUME NEW p \in Products
      PROVE  /\ stock'[p] \in StockRow /\ stock'[p].reserved = stock[p].reserved
             /\ stock'[p].onHand >= stock[p].reserved
  <2>1. /\ stock[p] \in StockRow /\ Quantity[o][p] \in Nat
        /\ stock[p].reserved <= stock[p].onHand
    BY OrderFacts, Columns, StockByProduct, OrderAssumption
  <2>2. stock'[p] = [stock[p] EXCEPT !.onHand = @ + Quantity[o][p]]
    BY <1>1
  <2>3. /\ stock'[p].reserved = stock[p].reserved
        /\ stock'[p].onHand = stock[p].onHand + Quantity[o][p]
        /\ stock'[p] \in StockRow
    BY <2>1, <2>2 DEF StockRow
  <2> QED
    BY <2>1, <2>3 DEF StockRow
<1>5. stock' \in [Products -> StockRow]
  BY <1>1, <1>4
<1>6. StockMatchesOrders'
  BY <1>1, <1>4, <1>5, OrderFacts, StockRecounted
<1>7. BenefitsInv' /\ benefit' \in [Orders -> Benefit] /\ redeemed' \in Nat
  BY <1>1, OrderFacts, BenefitsReversed
<1> QED
  BY <1>2, <1>3, <1>5, <1>6, <1>7, Together

LEMMA ExpireOrderStep ==
  ASSUME IInv, NEW o \in Orders, NEW t, ExpireOrder(o, t), JobsOK'
  PROVE  IInv'
<1>1. CASE UNCHANGED records
  BY <1>1, RecordsSame
<1>2. CASE /\ order[o].status \in Open /\ GiveBack(o)
           /\ attempt' = [a \in Attempts |->
                IF OrderOf(a) = o /\ attempt[a] \in Active THEN "expired" ELSE attempt[a]]
           /\ order' = [order EXCEPT ![o].status = "expired"]
           /\ UNCHANGED published
  <2>1. AttemptsOf(o, {"succeeded"}) = {}
    BY <1>2, OrderFacts DEF AttemptsOK, Open
  <2>2. attempt' \in [Attempts -> AttemptStatus]
    BY <1>2, OrderFacts DEF RecordsOK, AttemptStatus
  <2>3. \A b \in Attempts : IF OrderOf(b) = o THEN attempt'[b] \notin Active \cup {"succeeded"}
                            ELSE attempt'[b] = attempt[b]
    BY <1>2, <2>1 DEF AttemptsOf, Active
  <2>4. published' \in [Orders -> Seq({"placed", "paid", "cancelled"})]
    BY <1>2, OrderFacts DEF RecordsOK
  <2> QED
    BY <1>2, <2>2, <2>3, <2>4, GiveBackStep
<1> QED
  BY <1>1, <1>2 DEF ExpireOrder

\* recordPaymentResult keeps the invariant, whatever the result.
LEMMA RecordPaymentResultStep ==
  ASSUME IInv, NEW a \in Attempts, NEW r, NEW t, RecordPaymentResult(a, r, t),
         r.kind = "awaiting_payment" => r.expiresAt \in Time,
         expiry' \in [Orders -> JobRow(Time)] => JobsOK'
  PROVE  IInv'
<1> DEFINE o == OrderOf(a)
<1>0. o \in Orders /\ expiry \in [Orders -> JobRow(Time)]
  BY AttemptPair, OrderFacts DEF JobsOK
<1>1. CASE UNCHANGED <<records, expiry>>
  BY <1>0, <1>1, RecordsSame
<1>2. CASE ~Ignored(a, r)
  <2>1. /\ attempt[a] \in Active /\ order[o].status \in Paying
        /\ AttemptsOf(o, Active) = {a}
        /\ order[o].status \in Open /\ order[o].status # "paid"
    BY <1>0, <1>2, OrderFacts DEF Ignored, Paying, Open
  <2>2. /\ order \in [Orders -> OrderRow] /\ attempt \in [Attempts -> AttemptStatus]
        /\ published \in [Orders -> Seq({"placed", "paid", "cancelled"})]
        /\ AttemptsOK(o)
    BY <1>0, OrderFacts DEF RecordsOK
  <2>3. CASE MarkOrderPaid(o, a) /\ UNCHANGED expiry
    BY <1>0, <2>1, <2>3, MarkOrderPaidStep
  <2>4. CASE /\ r.kind = "redirect"
             /\ attempt' = [attempt EXCEPT ![a] = "submitted"]
             /\ UNCHANGED <<order, stock, redeemed, benefit, published, expiry>>
    <3>1. order[o].status = "payment_processing"
      BY <1>2, <2>4 DEF Ignored
    <3>2. /\ attempt' \in [Attempts -> AttemptStatus] /\ attempt'[a] = "submitted"
          /\ OnlyMoves(o) /\ RecordsOK'
      BY <2>2, <2>4 DEF OnlyMoves, RecordsOK, AttemptStatus, Active
    <3>3. AttemptsOK(o)'
      BY <1>0, <2>1, <2>2, <2>4, <3>1, <3>2, OneAttemptMoves
    <3> QED
      BY <1>0, <2>1, <2>4, <3>2, <3>3, OpenMoves
  <2>5. CASE r.kind = "awaiting_payment" /\ InfoIssued(o, a, r.expiresAt)
    <3>1. /\ order' = [order EXCEPT ![o] = [status |-> "awaiting_payment",
                                            expiresAt |-> r.expiresAt]]
          /\ attempt' = [attempt EXCEPT ![a] = "awaiting_payment"]
          /\ EnqueueExpiry(o, r.expiresAt)
          /\ UNCHANGED <<stock, redeemed, benefit, published>>
          /\ r.expiresAt \in Time
      BY <2>5 DEF InfoIssued
    <3>2. /\ order' \in [Orders -> OrderRow] /\ order'[o].status = "awaiting_payment"
          /\ attempt' \in [Attempts -> AttemptStatus] /\ attempt'[a] = "awaiting_payment"
          /\ OnlyMoves(o) /\ RecordsOK'
      BY <1>0, <2>2, <3>1 DEF OnlyMoves, RecordsOK, AttemptStatus, Active, OrderRow,
                              OrderStatus, Open
    <3>3. expiry' \in [Orders -> JobRow(Time)]
      BY <1>0, <3>1, JobRowKept DEF EnqueueExpiry
    <3>4. AttemptsOK(o)'
      BY <1>0, <2>1, <2>2, <3>1, <3>2, OneAttemptMoves
    <3> QED
      BY <1>0, <2>1, <3>1, <3>2, <3>3, <3>4, OpenMoves DEF Open
  <2>6. CASE PaymentFailed(o, a)
    <3>1. /\ order' = [order EXCEPT ![o].status = "pending"]
          /\ attempt' = [attempt EXCEPT ![a] = "failed"]
          /\ UNCHANGED <<stock, redeemed, benefit, published, expiry>>
      BY <2>1, <2>6 DEF PaymentFailed
    <3>2. /\ order' \in [Orders -> OrderRow] /\ order'[o].status = "pending"
          /\ attempt' \in [Attempts -> AttemptStatus] /\ attempt'[a] = "failed"
          /\ OnlyMoves(o) /\ RecordsOK'
      BY <1>0, <2>2, <3>1 DEF OnlyMoves, RecordsOK, AttemptStatus, OrderRow, OrderStatus, Open
    <3>3. AttemptsOK(o)'
      BY <1>0, <2>1, <2>2, <3>1, <3>2, OneAttemptMoves
    <3> QED
      BY <1>0, <2>1, <3>1, <3>2, <3>3, OpenMoves DEF Open
  <2> QED
    BY <1>2, <2>3, <2>4, <2>5, <2>6 DEF RecordPaymentResult
<1> QED
  BY <1>1, <1>2 DEF RecordPaymentResult

-----------------------------------------------------------------------------
(***************************************************************************)
(* Steps of the jobs, of the operator and of time                          *)
(***************************************************************************)
LEMMA CallbackStep ==
  ASSUME IInv, NEW a \in Attempts, NEW r \in Result, NEW t, Callback(a, r, t)
  PROVE  IInv'
<1>1. RecordPaymentResult(a, r, t) /\ UNCHANGED <<expired, pay, initiated, clock>>
  BY DEF Callback
<1>2. r.kind = "awaiting_payment" => r.expiresAt \in Time
  BY DEF Result
<1>3. expiry' \in [Orders -> JobRow(Time)] => JobsOK'
  BY <1>1, TypesTogether DEF IInv, JobsOK
<1> QED
  BY <1>1, <1>2, <1>3, RecordPaymentResultStep

\* The jobs of an attempt and of an order, as far as types go.
LEMMA PayJobKept ==
  ASSUME NEW j \in PayJob,
         NEW s \in {"none", "pending", "running", "recorded", "done", "dead"}
  PROVE  /\ [j EXCEPT !.state = s] \in PayJob
         /\ [state |-> s, next |-> Nothing] \in PayJob
         /\ \A n \in Result \cup Expire : [state |-> s, next |-> n] \in PayJob
  BY DEF PayJob

LEMMA FinishPaymentStep ==
  ASSUME IInv, NEW a \in Attempts, NEW t, FinishPayment(a, t)
  PROVE  IInv'
<1> DEFINE r == pay[a].next
           o == OrderOf(a)
<1>1. /\ pay[a] \in PayJob /\ o \in Orders /\ JobsOK
      /\ pay' = [pay EXCEPT ![a] = [state |-> "recorded", next |-> Nothing]]
      /\ UNCHANGED <<initiated, clock>>
  BY AttemptPair, TypesTogether DEF IInv, JobsOK, FinishPayment
<1>2. pay' \in [Attempts -> PayJob]
  BY <1>1, PayJobKept DEF JobsOK
<1>3. CASE /\ r.kind = "expire"
           /\ ExpireOnce("payment", o, r.expiresAt, t)
           /\ UNCHANGED expiry
  <2>1. r.expiresAt \in Time
    BY <1>1, <1>3 DEF PayJob, Result, Expire, Nothing
  <2>2. expired' = expired \cup {<<"payment", o, r.expiresAt>>}
    BY <1>3 DEF ExpireOnce
  <2>3. JobsOK'
    BY <1>1, <1>2, <1>3, <2>1, <2>2 DEF JobsOK
  <2>4. UNCHANGED records \/ ExpireOrder(o, t)
    BY <1>3 DEF ExpireOnce
  <2> QED
    BY <1>1, <2>3, <2>4, RecordsSame, ExpireOrderStep
<1>4. CASE r.kind # "expire" /\ RecordPaymentResult(a, r, t) /\ UNCHANGED expired
  <2>1. r.kind = "awaiting_payment" => r.expiresAt \in Time
    BY <1>1 DEF PayJob, Result, Expire, Nothing
  <2>2. expiry' \in [Orders -> JobRow(Time)] => JobsOK'
    BY <1>1, <1>2, <1>4 DEF JobsOK
  <2> QED
    BY <1>4, <2>1, <2>2, RecordPaymentResultStep
<1> QED
  BY <1>3, <1>4 DEF FinishPayment

\* The other steps of the payment job.
LEMMA PaymentJobStep ==
  ASSUME IInv, NEW a \in Attempts,
         \/ PaymentJobFails(a) \/ RetryPayment(a) \/ CompletePayment(a)
         \/ \E t \in ProcessClocks : ProcessPayment(a, t)
  PROVE  IInv'
<1>1. UNCHANGED <<records, expiry, expired, clock>>
  BY DEF PaymentJobFails, RetryPayment, CompletePayment, ProcessPayment
<1>2. /\ pay \in [Attempts -> PayJob] /\ OrderOf(a) \in Orders /\ JobsOK
      /\ order[OrderOf(a)].expiresAt \in Time
  BY AttemptPair, OrderFacts DEF JobsOK, OrderRow
<1>3. \E j \in PayJob : pay' = [pay EXCEPT ![a] = j]
  <2>1. CASE PaymentJobFails(a)
    <3>1. PICK s \in {"pending", "dead"} :
             pay' = [pay EXCEPT ![a] = [state |-> s, next |-> Nothing]]
      BY <2>1 DEF PaymentJobFails
    <3>2. [state |-> s, next |-> Nothing] \in PayJob
      BY <1>2, PayJobKept
    <3> QED
      BY <3>1, <3>2
  <2>2. CASE RetryPayment(a)
    <3> DEFINE j == [pay[a] EXCEPT !.state = "pending"]
    <3>1. j \in PayJob
      BY <1>2, PayJobKept
    <3>2. pay' = [pay EXCEPT ![a] = j]
      BY <2>2 DEF RetryPayment
    <3> QED
      BY <3>1, <3>2
  <2>3. ASSUME NEW t \in ProcessClocks, ProcessPayment(a, t)
        PROVE  \E j \in PayJob : pay' = [pay EXCEPT ![a] = j]
    <3>1. [kind |-> "expire", expiresAt |-> order[OrderOf(a)].expiresAt] \in Expire
      BY <1>2 DEF Expire
    <3> QED
      BY <1>2, <2>3, <3>1, PayJobKept DEF ProcessPayment
  <2>4. CASE CompletePayment(a)
    <3> DEFINE j == [pay[a] EXCEPT !.state = "done"]
    <3>1. j \in PayJob
      BY <1>2, PayJobKept
    <3>2. pay' = [pay EXCEPT ![a] = j]
      BY <2>4 DEF CompletePayment
    <3> QED
      BY <3>1, <3>2
  <2> QED
    BY <2>1, <2>2, <2>3, <2>4
<1>4. initiated' \subseteq Attempts
  BY <1>2 DEF PaymentJobFails, RetryPayment, CompletePayment, ProcessPayment, JobsOK
<1>5. JobsOK'
  BY <1>1, <1>2, <1>3, <1>4 DEF JobsOK
<1> QED
  BY <1>1, <1>5, RecordsSame

LEMMA RunExpiryStep ==
  ASSUME IInv, NEW o \in Orders, NEW t, RunExpiry(o, t)
  PROVE  IInv'
<1>1. /\ expired' = expired \cup {<<"expiry", o, expiry[o].at>>}
      /\ UNCHANGED records \/ ExpireOrder(o, t)
      /\ UNCHANGED <<expiry, pay, initiated, clock>>
  BY DEF RunExpiry, ExpireOnce
<1>2. expiry[o].at \in Time /\ JobsOK
  BY OrderFacts DEF JobsOK, JobRow
<1>3. JobsOK'
  BY <1>1, <1>2 DEF JobsOK
<1> QED
  BY <1>1, <1>3, RecordsSame, ExpireOrderStep

LEMMA ExpiryJobStep ==
  ASSUME IInv, NEW o \in Orders,
         ClaimExpiry(o) \/ CompleteExpiry(o) \/ ExpiryFails(o) \/ RetryExpiry(o)
  PROVE  IInv'
<1>1. UNCHANGED <<records, expired, pay, initiated, clock>>
  BY DEF ClaimExpiry, CompleteExpiry, ExpiryFails, RetryExpiry
<1>2. 0 \in Time /\ expiry \in [Orders -> JobRow(Time)] /\ JobsOK
  BY OrderAssumption, OrderFacts DEF Time, JobsOK
<1>3. \A s \in {"pending", "running", "done", "dead"} :
        /\ Settled(expiry[o], s) \in JobRow(Time)
        /\ [expiry[o] EXCEPT !.state = s] \in JobRow(Time)
  BY <1>2, JobRowKept
<1>4. \E j \in JobRow(Time) : expiry' = [expiry EXCEPT ![o] = j]
  BY <1>3 DEF ClaimExpiry, CompleteExpiry, ExpiryFails, RetryExpiry
<1>5. JobsOK'
  BY <1>1, <1>2, <1>4 DEF JobsOK
<1> QED
  BY <1>1, <1>5, RecordsSame

\* An operator books any stock that is enough for what is reserved.
LEMMA AdjustStockStep ==
  ASSUME IInv, NEW p \in Products, NEW delta \in {-1, 1}, AdjustStock(p, delta)
  PROVE  IInv'
<1> DEFINE next == stock[p].onHand + delta
<1>1. /\ next >= 0 /\ next >= stock[p].reserved
      /\ stock' = [stock EXCEPT ![p].onHand = next]
      /\ UNCHANGED <<order, attempt, redeemed, benefit, published, expiry, expired, pay,
                     initiated, clock>>
  BY DEF AdjustStock, jobs
<1>2. TypeOK /\ StockMatchesOrders /\ stock \in [Products -> StockRow]
  BY Columns DEF IInv
<1>3. next \in Nat
  BY <1>1, <1>2 DEF StockRow
<1> HIDE DEF next
<1>4. stock' \in [Products -> StockRow]
  BY <1>1, <1>2, <1>3 DEF StockRow
<1>5. \A q \in Products : /\ stock'[q].reserved = stock[q].reserved
                          /\ stock'[q].onHand >= stock[q].reserved
  <2>1. \A q \in Products : stock[q].reserved <= stock[q].onHand
    BY <1>2, StockByProduct
  <2> QED
    BY <1>1, <1>2, <1>3, <2>1 DEF StockRow
<1>6. StockMatchesOrders'
  BY <1>1, <1>2, <1>4, <1>5, StockRecounted
<1>7. TypeOK'
  BY <1>1, <1>4, TypesTogether DEF IInv, RecordsOK, JobsOK
<1>8. \A o \in Orders : AttemptsOK(o)'
  BY <1>1, OtherAttempts DEF IInv
<1>9. BenefitsInv'
  <2>1. \A o \in Orders : BenefitOK(o)'
    BY <1>1, OtherBooks DEF IInv, BenefitsInv
  <2>2. CouponHolders' = CouponHolders /\ Balance' = Balance
    BY <1>1 DEF CouponHolders, Balance, Spenders
  <2> QED
    BY <1>1, <2>1, <2>2 DEF IInv, BenefitsInv
<1> QED
  BY <1>6, <1>7, <1>8, <1>9 DEF IInv

LEMMA TickStep == IInv /\ Tick => IInv'
<1> SUFFICES ASSUME IInv, Tick PROVE IInv'
  OBVIOUS
<1>1. JobsOK'
  BY TypesTogether, OrderAssumption DEF Tick, jobs, IInv, JobsOK, Time
<1> QED
  BY <1>1, RecordsSame DEF Tick

LEMMA NextInv == IInv /\ [Next]_vars => IInv'
<1> SUFFICES ASSUME IInv, [Next]_vars PROVE IInv'
  OBVIOUS
<1>1. CASE UNCHANGED vars
  <2>1. JobsOK'
    BY <1>1, TypesTogether DEF IInv, JobsOK, vars
  <2> QED
    BY <1>1, <2>1, RecordsSame DEF vars, records
<1>2. ASSUME NEW o \in Orders, OrderStep(o) PROVE IInv'
  BY <1>2, PayOrderStep, CancelOrderStep, FinalizeDirectRefundStep, ExpiryJobStep,
     CheckoutStep, RunExpiryStep DEF OrderStep
<1>3. ASSUME NEW a \in Attempts, AttemptStep(a) PROVE IInv'
  BY <1>3, PaymentJobStep, FinishPaymentStep, CallbackStep DEF AttemptStep
<1>4. ASSUME NEW p \in Products, NEW delta \in {-1, 1}, AdjustStock(p, delta) PROVE IInv'
  BY <1>4, AdjustStockStep
<1> QED
  BY <1>1, <1>2, <1>3, <1>4, TickStep DEF Next

LEMMA InitInv == Init => IInv
<1> SUFFICES ASSUME Init PROVE IInv
  OBVIOUS
<1>1. 0 \in Time
  BY OrderAssumption DEF Time
<1>2. TypeOK
  <2>1. NoJob \in JobRow(Time) /\ [state |-> "none", next |-> Nothing] \in PayJob
    BY <1>1 DEF NoJob, JobRow, PayJob
  <2>2. <<>> \in Seq({"placed", "paid", "cancelled"})
    OBVIOUS
  <2> QED
    BY <1>1, <2>1, <2>2, OrderAssumption DEF Init, TypeOK, OrderStatus, AttemptStatus, Benefit
<1>3. ASSUME NEW o \in Orders PROVE AttemptsOK(o)
  <2>1. AttemptsOf(o, Active) = {} /\ AttemptsOf(o, {"succeeded"}) = {}
    BY DEF Init, AttemptsOf, Active
  <2> QED
    BY <2>1 DEF Init, AttemptsOK, Paying
<1>4. StockMatchesOrders
  <2>1. OpenOrders = {}
    BY DEF Init, OpenOrders, Open
  <2> QED
    BY <2>1, SumEmpty, OrderAssumption DEF Init, StockMatchesOrders
<1>5. BenefitsInv
  <2>1. CouponHolders = {} /\ Spenders = {}
    BY DEF Init, CouponHolders, Spenders
  <2>2. \A o \in Orders : BenefitOK(o)
    BY DEF Init, BenefitOK, Refunded
  <2>3. Cardinality(CouponHolders) = 0
    BY <2>1, FS_EmptySet
  <2>4. Balance = Wallet - 0
    BY <2>1, SumEmpty DEF Balance
  <2> QED
    BY <2>2, <2>3, <2>4, OrderAssumption DEF Init, BenefitsInv
<1> QED
  BY <1>2, <1>3, <1>4, <1>5 DEF IInv

\* The inductive invariant holds in every reachable state.
THEOREM OrderInvariant == Spec => []IInv
<1>1. Init => IInv
  BY InitInv
<1>2. IInv /\ [Next]_vars => IInv'
  BY NextInv
<1> QED
  BY <1>1, <1>2, PTL DEF Spec

\* Every column has a value of its type.
THEOREM OrderTypes == Spec => []TypeOK
<1>1. IInv => TypeOK
  BY DEF IInv
<1> QED
  BY <1>1, OrderInvariant, PTL

\* The reservations of a product are those of the open orders, each once, and
\* there is stock for all of them, whatever orders, lines and recounts.
THEOREM StockIsReservedOnce == Spec => []StockMatchesOrders
<1>1. IInv => StockMatchesOrders
  BY DEF IInv
<1> QED
  BY <1>1, OrderInvariant, PTL

\* An order that is being paid has exactly one attempt under way, and a paid
\* order exactly one that succeeded.
THEOREM OneAttemptUnderWay == Spec => []AttemptsMatchOrder
<1>1. ASSUME IInv, NEW o \in Orders
      PROVE  LET s == order[o].status
             IN  /\ Cardinality(AttemptsOf(o, Active)) = IF s \in Paying THEN 1 ELSE 0
                 /\ s = "payment_processing" =>
                      AttemptsOf(o, {"created", "submitted"}) # {}
                 /\ s = "awaiting_payment" => AttemptsOf(o, {"awaiting_payment"}) # {}
                 /\ Cardinality(AttemptsOf(o, {"succeeded"})) = IF s = "paid" THEN 1 ELSE 0
  <2> DEFINE under == AttemptsOf(o, Active)
             won == AttemptsOf(o, {"succeeded"})
             s == order[o].status
  <2>1. /\ s \notin Paying => under = {}
        /\ s \in Paying => \E a \in Attempts : under = {a}
        /\ s # "paid" => won = {}
        /\ s = "paid" => \E a \in Attempts : won = {a}
    BY <1>1 DEF IInv, AttemptsOK
  <2>2. s = "payment_processing" => AttemptsOf(o, {"created", "submitted"}) # {}
    <3>1. s = "payment_processing" =>
            \E a \in under : attempt[a] \in {"created", "submitted"}
      BY <1>1, <2>1 DEF IInv, AttemptsOK, AttemptsOf, Active, Paying
    <3> QED
      BY <3>1 DEF AttemptsOf
  <2>3. s = "awaiting_payment" => AttemptsOf(o, {"awaiting_payment"}) # {}
    <3>1. s = "awaiting_payment" => \E a \in under : attempt[a] = "awaiting_payment"
      BY <1>1, <2>1 DEF IInv, AttemptsOK, AttemptsOf, Paying
    <3> QED
      BY <3>1 DEF AttemptsOf
  <2> HIDE DEF under, won, s
  <2>4. /\ Cardinality(under) = IF s \in Paying THEN 1 ELSE 0
        /\ Cardinality(won) = IF s = "paid" THEN 1 ELSE 0
    BY <2>1, FS_EmptySet, FS_Singleton
  <2> QED
    BY <2>2, <2>3, <2>4 DEF under, won, s
<1>2. IInv => AttemptsMatchOrder
  BY <1>1 DEF AttemptsMatchOrder
<1> QED
  BY <1>2, OrderInvariant, PTL

\* Coupon and money follow the order through every path: given back once by an
\* order that ended unpaid or was refunded and by no other, the coupon never
\* above its limit and the wallet never overdrawn.
THEOREM BenefitsAreGivenBackOnce == Spec => []BenefitsMatchOrders
<1>1. IInv => BenefitsMatchOrders
  BY DEF IInv, BenefitsInv, BenefitOK, CouponHolders, BenefitsMatchOrders
<1> QED
  BY <1>1, OrderInvariant, PTL

-----------------------------------------------------------------------------
(***************************************************************************)
(* The commands keep the promise of OrderSale                              *)
(***************************************************************************)
Sold == [o \in Orders |-> SaleOf(o)]
Free == [p \in Products |-> stock[p].onHand - stock[p].reserved]

SaleStep == [Sale!Next]_<<Sold, Free>>

\* Who looks at one order moves the sale of that order only.
LEMMA SaleMoves ==
  ASSUME NEW o \in Orders, \A q \in Orders \ {o} : order'[q] = order[q] /\ benefit'[q] = benefit[q]
  PROVE  Sold' = [Sold EXCEPT ![o] = SaleOf(o)'] /\ Sold[o] = SaleOf(o)
<1>1. \A q \in Orders \ {o} : SaleOf(q)' = SaleOf(q)
  BY DEF SaleOf, Refunded
<1> QED
  BY <1>1 DEF Sold

LEMMA SaleStays ==
  ASSUME NEW o \in Orders, \A q \in Orders \ {o} : order'[q] = order[q] /\ benefit'[q] = benefit[q],
         SaleOf(o)' = SaleOf(o), UNCHANGED stock
  PROVE  SaleStep
<1>1. Sold' = Sold
  BY SaleMoves DEF Sold
<1>2. Free' = Free
  BY DEF Free
<1> QED
  BY <1>1, <1>2 DEF SaleStep

LEMMA FreeFacts ==
  ASSUME IInv
  PROVE  /\ stock \in [Products -> StockRow]
         /\ Free \in [Products -> Nat]
<1>1. /\ stock \in [Products -> StockRow]
      /\ \A p \in Products : stock[p].reserved <= stock[p].onHand
  BY Columns, StockByProduct DEF IInv
<1>2. \A p \in Products : stock[p].onHand - stock[p].reserved \in Nat
  BY <1>1 DEF StockRow
<1> QED
  BY <1>1, <1>2 DEF Free

\* Only a paid order was refunded.
LEMMA NotRefunded ==
  ASSUME IInv, NEW o \in Orders, order[o].status # "paid"
  PROVE  ~Refunded(o)
  BY DEF IInv, BenefitsInv, BenefitOK

LEMMA CheckoutSale ==
  ASSUME IInv, NEW o \in Orders, NEW t, Checkout(o, t)
  PROVE  SaleStep
<1>1. /\ Reserve(o) /\ order[o].status = "none"
      /\ order' = [order EXCEPT ![o] = [status |-> "pending", expiresAt |-> t + Reservation]]
      /\ \A q \in Orders \ {o} : benefit'[q] = benefit[q]
  BY OrderFacts, Columns DEF Checkout
<1>2. SaleOf(o) = "none" /\ SaleOf(o)' = "held"
  BY <1>1, OrderFacts DEF SaleOf, Open, RecordsOK
<1>3. Sold[o] = "none" /\ Sold' = [Sold EXCEPT ![o] = "held"]
  BY <1>1, <1>2, SaleMoves
<1>4. ASSUME NEW p \in Products
      PROVE  Quantity[o][p] <= Free[p] /\ Free'[p] = Free[p] - Quantity[o][p]
  <2>1. stock[p] \in StockRow /\ Quantity[o][p] \in Nat
    BY FreeFacts, OrderAssumption
  <2>2. /\ stock'[p].onHand = stock[p].onHand
        /\ stock'[p].reserved = stock[p].reserved + Quantity[o][p]
        /\ stock[p].onHand - stock[p].reserved >= Quantity[o][p]
    BY <1>1, <2>1 DEF Reserve, StockRow
  <2> QED
    BY <2>1, <2>2 DEF StockRow, Free
<1>5. Free' = [p \in Products |-> Free[p] - Quantity[o][p]]
  BY <1>4 DEF Free
<1>6. Sale!Hold(o)
  BY <1>3, <1>4, <1>5 DEF Sale!Hold, Sold, Free
<1> QED
  BY <1>6 DEF SaleStep, Sale!Next

\* markOrderPaid of an open order: what is free stays.
LEMMA MarkOrderPaidSale ==
  ASSUME IInv, NEW o \in Orders, NEW a, order[o].status \in Open, MarkOrderPaid(o, a)
  PROVE  SaleStep
<1>1. /\ CommitReservation(o)
      /\ order' = [order EXCEPT ![o].status = "paid"]
      /\ order \in [Orders -> OrderRow] /\ benefit \in [Orders -> Benefit]
      /\ \A q \in Orders \ {o} : order'[q] = order[q] /\ benefit'[q] = benefit[q]
  BY OrderFacts, Columns DEF MarkOrderPaid
<1>2. ~Refunded(o)'
  BY <1>1, NotRefunded DEF MarkOrderPaid, Refunded, Open, Benefit
<1>3. SaleOf(o) = "held" /\ SaleOf(o)' = "sold"
  BY <1>1, <1>2 DEF SaleOf, Open, OrderRow
<1>4. Sold[o] = "held" /\ Sold' = [Sold EXCEPT ![o] = "sold"]
  BY <1>1, <1>3, SaleMoves
<1>5. ASSUME NEW p \in Products
      PROVE  stock'[p].onHand - stock'[p].reserved = stock[p].onHand - stock[p].reserved
  <2>1. stock[p] \in StockRow /\ Quantity[o][p] \in Nat
    BY FreeFacts, OrderAssumption
  <2>2. /\ stock'[p].onHand = stock[p].onHand - Quantity[o][p]
        /\ stock'[p].reserved = stock[p].reserved - Quantity[o][p]
    BY <1>1 DEF CommitReservation
  <2> QED
    BY <2>1, <2>2 DEF StockRow
<1>6. Free' = Free
  BY <1>5 DEF Free
<1>7. Sale!Sell(o)
  BY <1>4, <1>6 DEF Sale!Sell, Sold, Free
<1> QED
  BY <1>7 DEF SaleStep, Sale!Next

LEMMA GiveBackSale ==
  ASSUME IInv, NEW o \in Orders, NEW s \in {"cancelled", "expired"},
         order[o].status \in Open, GiveBack(o), order' = [order EXCEPT ![o].status = s]
  PROVE  SaleStep
<1>1. /\ Release(o)
      /\ order \in [Orders -> OrderRow]
      /\ \A q \in Orders \ {o} : order'[q] = order[q] /\ benefit'[q] = benefit[q]
  BY OrderFacts, Columns DEF GiveBack, ReverseBenefits
<1>2. SaleOf(o) = "held" /\ SaleOf(o)' = "returned"
  BY <1>1 DEF SaleOf, Open, OrderRow
<1>3. Sold[o] = "held" /\ Sold' = [Sold EXCEPT ![o] = "returned"]
  BY <1>1, <1>2, SaleMoves
<1>4. ASSUME NEW p \in Products
      PROVE  stock'[p].onHand - stock'[p].reserved
               = (stock[p].onHand - stock[p].reserved) + Quantity[o][p]
  <2>1. stock[p] \in StockRow /\ Quantity[o][p] \in Nat
    BY FreeFacts, OrderAssumption
  <2>2. /\ stock'[p].onHand = stock[p].onHand
        /\ stock'[p].reserved = stock[p].reserved - Quantity[o][p]
    BY <1>1, <2>1 DEF Release, StockRow
  <2> QED
    BY <2>1, <2>2 DEF StockRow
<1>5. Free' = [p \in Products |-> Free[p] + Quantity[o][p]]
  BY <1>4 DEF Free
<1>6. Sale!Return(o)
  BY <1>3, <1>5 DEF Sale!Return, Sold, Free
<1> QED
  BY <1>6 DEF SaleStep, Sale!Next

LEMMA FinalizeDirectRefundSale ==
  ASSUME IInv, NEW o \in Orders, FinalizeDirectRefund(o)
  PROVE  SaleStep
<1>1. /\ order[o].status = "paid" /\ Total(o) > 0 /\ ~Refunded(o)
      /\ stock' = [p \in Products |-> [stock[p] EXCEPT !.onHand = @ + Quantity[o][p]]]
      /\ benefit' = [benefit EXCEPT ![o] = Reversed(@)]
      /\ UNCHANGED order
      /\ \A q \in Orders \ {o} : order'[q] = order[q] /\ benefit'[q] = benefit[q]
      /\ benefit \in [Orders -> Benefit]
  BY OrderFacts, Columns DEF FinalizeDirectRefund, ReverseBenefits
<1>2. Refunded(o)'
  <2>1. "order-accrual" \in benefit[o].ledger
    BY <1>1, OrderFacts DEF BenefitsInv, BenefitOK
  <2>2. "clawback" \in Reversed(benefit[o]).ledger
    BY <1>1, <2>1 DEF Reversed, Benefit
  <2> QED
    BY <1>1, <2>2 DEF Refunded
<1>3. SaleOf(o) = "sold" /\ SaleOf(o)' = "refunded"
  BY <1>1, <1>2 DEF SaleOf, Open
<1>4. Sold[o] = "sold" /\ Sold' = [Sold EXCEPT ![o] = "refunded"]
  BY <1>1, <1>3, SaleMoves
<1>5. ASSUME NEW p \in Products
      PROVE  stock'[p].onHand - stock'[p].reserved
               = (stock[p].onHand - stock[p].reserved) + Quantity[o][p]
  <2>1. stock[p] \in StockRow /\ Quantity[o][p] \in Nat
    BY FreeFacts, OrderAssumption
  <2>2. /\ stock'[p].onHand = stock[p].onHand + Quantity[o][p]
        /\ stock'[p].reserved = stock[p].reserved
    BY <1>1, <2>1 DEF StockRow
  <2> QED
    BY <2>1, <2>2 DEF StockRow
<1>6. Free' = [p \in Products |-> Free[p] + Quantity[o][p]]
  BY <1>5 DEF Free
<1>7. Sale!TakeBack(o)
  BY <1>4, <1>6 DEF Sale!TakeBack, Sold, Free
<1> QED
  BY <1>7 DEF SaleStep, Sale!Next

\* An operator moves what is free, and no sale.
LEMMA AdjustStockSale ==
  ASSUME IInv, IInv', NEW p \in Products, NEW delta, AdjustStock(p, delta)
  PROVE  SaleStep
<1>1. /\ stock' = [stock EXCEPT ![p].onHand = stock[p].onHand + delta]
      /\ UNCHANGED <<order, benefit>>
  BY DEF AdjustStock
<1>2. Free' \in [Products -> Nat] /\ stock \in [Products -> StockRow]
  <2>1. /\ stock' \in [Products -> StockRow]
        /\ \A q \in Products : stock'[q].reserved <= stock'[q].onHand
    BY StockByProduct, TypesTogether DEF IInv
  <2>2. \A q \in Products : stock'[q].onHand - stock'[q].reserved \in Nat
    BY <2>1 DEF StockRow
  <2> QED
    BY <2>2, FreeFacts DEF Free
<1>3. \A q \in Products \ {p} : Free'[q] = Free[q]
  BY <1>1, <1>2 DEF Free
<1>4. Sold' = Sold
  BY <1>1 DEF Sold, SaleOf, Refunded
<1>5. Sale!Recount(p)
  BY <1>2, <1>3, <1>4 DEF Sale!Recount, Sold, Free
<1> QED
  BY <1>5 DEF SaleStep, Sale!Next

\* An open order that stays open is held, whatever happens to its payment.
LEMMA OpenStaysHeld ==
  ASSUME IInv, NEW o \in Orders, order[o].status \in Open, order'[o].status \in Open,
         \A q \in Orders \ {o} : order'[q] = order[q],
         UNCHANGED <<stock, benefit>>
  PROVE  SaleStep
<1>1. SaleOf(o) = "held" /\ SaleOf(o)' = "held"
  BY DEF SaleOf, Open
<1> QED
  BY <1>1, SaleStays

LEMMA ExpireOrderSale ==
  ASSUME IInv, NEW o \in Orders, NEW t, ExpireOrder(o, t)
  PROVE  SaleStep
<1>1. CASE UNCHANGED records
  BY <1>1, SaleStays DEF records, SaleOf, Refunded
<1>2. CASE /\ order[o].status \in Open /\ GiveBack(o)
           /\ order' = [order EXCEPT ![o].status = "expired"]
  BY <1>2, GiveBackSale
<1> QED
  BY <1>1, <1>2 DEF ExpireOrder

LEMMA RecordPaymentResultSale ==
  ASSUME IInv, NEW a \in Attempts, NEW r, NEW t, RecordPaymentResult(a, r, t)
  PROVE  SaleStep
<1> DEFINE o == OrderOf(a)
<1>0. o \in Orders /\ order \in [Orders -> OrderRow]
  BY AttemptPair, Columns DEF IInv
<1>1. CASE UNCHANGED <<records, expiry>>
  BY <1>0, <1>1, SaleStays DEF records, SaleOf, Refunded
<1>2. CASE ~Ignored(a, r)
  <2>1. order[o].status \in Paying /\ order[o].status \in Open
    BY <1>0, <1>2, OrderFacts DEF Ignored, Paying, Open
  <2> HIDE DEF o
  <2>2. CASE MarkOrderPaid(o, a)
    BY <1>0, <2>1, <2>2, MarkOrderPaidSale
  <2>3. CASE UNCHANGED <<order, stock, redeemed, benefit, published, expiry>>
    BY <1>0, <2>1, <2>3, OpenStaysHeld
  <2>4. CASE InfoIssued(o, a, r.expiresAt)
    BY <1>0, <2>1, <2>4, OpenStaysHeld DEF InfoIssued, Open
  <2>5. CASE PaymentFailed(o, a)
    BY <1>0, <2>1, <2>5, OpenStaysHeld DEF PaymentFailed, Open, OrderRow
  <2> QED
    BY <1>2, <2>2, <2>3, <2>4, <2>5 DEF RecordPaymentResult, o
<1> QED
  BY <1>1, <1>2 DEF RecordPaymentResult

LEMMA OrderStepSale ==
  ASSUME IInv, NEW o \in Orders, OrderStep(o)
  PROVE  SaleStep
<1>1. CASE PayOrder(o)
  <2>1. CASE MarkOrderPaid(o, NextAttempt(o))
    BY <1>1, <2>1, MarkOrderPaidSale DEF PayOrder, Open
  <2>2. CASE /\ order' = [order EXCEPT ![o].status = "payment_processing"]
             /\ UNCHANGED <<stock, redeemed, benefit, published>>
    BY <1>1, <2>2, OpenStaysHeld, OrderFacts DEF PayOrder, Open, RecordsOK
  <2> QED
    BY <1>1, <2>1, <2>2 DEF PayOrder
<1>2. CASE CancelOrder(o)
  BY <1>2, GiveBackSale DEF CancelOrder, Open
<1>3. CASE FinalizeDirectRefund(o)
  BY <1>3, FinalizeDirectRefundSale
<1>4. CASE ClaimExpiry(o) \/ CompleteExpiry(o) \/ ExpiryFails(o) \/ RetryExpiry(o)
  BY <1>4, SaleStays DEF ClaimExpiry, CompleteExpiry, ExpiryFails, RetryExpiry, records,
                         SaleOf, Refunded
<1>5. ASSUME NEW t \in ProcessClocks, Checkout(o, t) PROVE SaleStep
  BY <1>5, CheckoutSale
<1>6. ASSUME NEW t \in ProcessClocks, RunExpiry(o, t) PROVE SaleStep
  <2>1. UNCHANGED records \/ ExpireOrder(o, t)
    BY <1>6 DEF RunExpiry, ExpireOnce
  <2> QED
    BY <2>1, ExpireOrderSale, SaleStays DEF records, SaleOf, Refunded
<1> QED
  BY <1>1, <1>2, <1>3, <1>4, <1>5, <1>6 DEF OrderStep

LEMMA AttemptStepSale ==
  ASSUME IInv, NEW a \in Attempts, AttemptStep(a)
  PROVE  SaleStep
<1>0. OrderOf(a) \in Orders
  BY AttemptPair
<1>1. CASE UNCHANGED records
  BY <1>0, <1>1, SaleStays DEF records, SaleOf, Refunded
<1>2. ASSUME NEW r, NEW t, RecordPaymentResult(a, r, t) PROVE SaleStep
  BY <1>2, RecordPaymentResultSale
<1>3. ASSUME NEW t, ExpireOrder(OrderOf(a), t) PROVE SaleStep
  BY <1>0, <1>3, ExpireOrderSale
<1>4. \/ UNCHANGED records
      \/ \E t, r : RecordPaymentResult(a, r, t)
      \/ \E t : ExpireOrder(OrderOf(a), t)
  BY DEF AttemptStep, PaymentJobFails, RetryPayment, CompletePayment, ProcessPayment,
         FinishPayment, Callback, ExpireOnce
<1> QED
  BY <1>1, <1>2, <1>3, <1>4

\* Every step of the commands and jobs moves the sale of one order as OrderSale
\* does, recounts the goods, or is no step of the sale.
LEMMA NextSale ==
  ASSUME IInv, IInv', [Next]_vars
  PROVE  SaleStep
<1>1. CASE UNCHANGED <<order, benefit, stock>>
  <2>1. Sold' = Sold /\ Free' = Free
    BY <1>1 DEF Sold, Free, SaleOf, Refunded
  <2> QED
    BY <2>1 DEF SaleStep
<1> QED
  BY <1>1, OrderStepSale, AttemptStepSale, AdjustStockSale DEF Next, vars, Tick, records

\* The commands keep the promise of OrderSale: goods are held once, then sold
\* or returned, taken back at most once, and what no order holds is free.
THEOREM OrdersKeepTheSale == Spec => ImplementsSale
<1>1. Init => Sale!Init
  <2> SUFFICES ASSUME Init PROVE Sale!Init
    OBVIOUS
  <2>1. \A o \in Orders : SaleOf(o) = "none"
    BY DEF Init, SaleOf, Open
  <2>2. Free \in [Products -> Nat]
    BY InitInv, FreeFacts
  <2> QED
    BY <2>1, <2>2 DEF Sale!Init, Free
<1>2. IInv /\ IInv' /\ [Next]_vars =>
        [Sale!Next]_<<[o \in Orders |-> SaleOf(o)],
                      [p \in Products |-> stock[p].onHand - stock[p].reserved]>>
  BY NextSale DEF SaleStep, Sold, Free
<1> QED
  BY <1>1, <1>2, OrderInvariant, PTL DEF Spec, ImplementsSale, Sale!Spec

-----------------------------------------------------------------------------
(***************************************************************************)
(* The jobs, while every process has the clock of the database             *)
(***************************************************************************)
LEMMA NoLag ==
  ASSUME MaxLag = 0, clock \in Time
  PROVE  \A t \in ProcessClocks : t = clock
  BY OrderAssumption DEF ProcessClocks, Time

\* The types that the lemmas below look at.
LEMMA JobTypes ==
  ASSUME IInv
  PROVE  /\ order \in [Orders -> OrderRow] /\ attempt \in [Attempts -> AttemptStatus]
         /\ expiry \in [Orders -> JobRow(Time)] /\ pay \in [Attempts -> PayJob]
         /\ \A key \in expired : key[2] \in Orders /\ key[3] \in Time
         /\ clock \in Time /\ Time \subseteq Int /\ clock >= 0
  BY TypesTogether, OrderAssumption DEF IInv, RecordsOK, JobsOK, Time

\* An attempt that the provider may not know of is one of an order whose
\* payment is being processed.
LEMMA CreatedIsProcessing ==
  ASSUME IInv, NEW a \in Attempts, attempt[a] = "created"
  PROVE  /\ OrderOf(a) \in Orders /\ order[OrderOf(a)].status = "payment_processing"
         /\ order[OrderOf(a)].status \in Open
<1>1. OrderOf(a) \in Orders
  BY AttemptPair
<1>2. /\ order[OrderOf(a)].status \in Paying /\ AttemptsOK(OrderOf(a))
      /\ a \in AttemptsOf(OrderOf(a), Active)
  BY <1>1, OrderFacts, AttemptsOfFacts DEF Active
<1> QED
  BY <1>1, <1>2 DEF AttemptsOK, Paying, Open

\* A deadline in the future has its job, and its execution is not spent.
LEMMA NewDeadline ==
  ASSUME IInv, JobsInv, NEW o \in Orders, NEW d \in Time, d > clock,
         order'[o].expiresAt = d, EnqueueExpiry(o, d), UNCHANGED <<expired, clock>>
  PROVE  /\ DeadlineOK(o)' /\ ExpiryOK(o)'
         /\ \A q \in Orders \ {o} : expiry'[q] = expiry[q]
<1>1. /\ expiry'[o] = Enqueued(expiry[o], d)
      /\ \A q \in Orders \ {o} : expiry'[q] = expiry[q]
      /\ expiry[o] \in JobRow(Time) /\ d > 0 /\ ExpiryOK(o)
  BY JobTypes DEF EnqueueExpiry, JobsInv
<1>2. <<"expiry", o, d>> \notin expired /\ <<"payment", o, d>> \notin expired
  <2>1. \A key \in expired : key[3] <= clock /\ key[3] \in Int
    BY JobTypes DEF JobsInv
  <2>2. \A via : <<via, o, d>> \in expired => d <= clock
    <3> SUFFICES ASSUME NEW via, <<via, o, d>> \in expired PROVE d <= clock
      OBVIOUS
    <3>1. <<via, o, d>>[3] <= clock
      BY <2>1
    <3> QED
      BY <3>1
  <2> QED
    BY <2>2, JobTypes
<1>3. WillRun(expiry'[o], d) /\ (expiry'[o].state = "running" => expiry'[o].at <= clock)
  BY <1>1 DEF Enqueued, JobAt, WillRun, JobRow, ExpiryOK
<1> QED
  BY <1>1, <1>2, <1>3 DEF DeadlineOK, ExpiryOK

\* An order whose deadline stays keeps its job, whatever other keys are spent.
LEMMA OtherDeadline ==
  ASSUME NEW q \in Orders, DeadlineOK(q), ExpiryOK(q),
         order'[q].status \in Open => order[q].status \in Open,
         order'[q].expiresAt = order[q].expiresAt,
         expiry'[q] = expiry[q], UNCHANGED clock,
         \A key \in expired' \ expired : key[2] # q
  PROVE  DeadlineOK(q)' /\ ExpiryOK(q)'
<1>1. \A via, d : <<via, q, d>> \in expired' => <<via, q, d>> \in expired
  <2> SUFFICES ASSUME NEW via, NEW d, <<via, q, d>> \in expired', <<via, q, d>> \notin expired
               PROVE  FALSE
    OBVIOUS
  <2>1. <<via, q, d>>[2] # q
    OBVIOUS
  <2> QED
    BY <2>1
<1> QED
  BY <1>1 DEF DeadlineOK, ExpiryOK

\* What the payment job of an attempt knows stays true while the attempt moves.
LEMMA PayStays ==
  ASSUME NEW a \in Attempts, PayOK(a), pay'[a] = pay[a], UNCHANGED clock,
         attempt'[a] = "none" <=> attempt[a] = "none",
         attempt'[a] = "created" =>
           attempt[a] = "created" /\ order'[OrderOf(a)].expiresAt = order[OrderOf(a)].expiresAt
  PROVE  PayOK(a)'
  BY DEF PayOK

LEMMA NumberedStays ==
  ASSUME NEW o \in Orders, Numbered(o),
         \A a \in Attempts : OrderOf(a) = o => (attempt'[a] = "none" <=> attempt[a] = "none")
  PROVE  Numbered(o)'
<1>1. \A n \in 1..MaxPayments : attempt'[<<o, n>>] = "none" <=> attempt[<<o, n>>] = "none"
  BY DEF Attempts, OrderOf
<1> QED
  BY <1>1 DEF Numbered

\* A step that touches order o and its attempts, and spends keys of o only.
LEMMA JobsTogether ==
  ASSUME IInv, JobsInv, NEW o \in Orders, UNCHANGED clock,
         \A q \in Orders \ {o} : order'[q] = order[q] /\ expiry'[q] = expiry[q],
         \A key \in expired' \ expired : key[2] = o /\ key[3] <= clock,
         DeadlineOK(o)', ExpiryOK(o)',
         \A a \in Attempts : attempt'[a] = "none" <=> attempt[a] = "none",
         \A a \in Attempts : OrderOf(a) # o => attempt'[a] = attempt[a] /\ pay'[a] = pay[a],
         \A a \in Attempts : OrderOf(a) = o => PayOK(a)'
  PROVE  JobsInv'
<1>1. \A q \in Orders \ {o} : DeadlineOK(q)' /\ ExpiryOK(q)'
  BY OtherDeadline DEF JobsInv
<1>2. \A q \in Orders : Numbered(q)'
  BY NumberedStays DEF JobsInv
<1>3. \A a \in Attempts : PayOK(a)'
  <2>1. \A a \in Attempts : OrderOf(a) # o => PayOK(a)'
    <3> SUFFICES ASSUME NEW a \in Attempts, OrderOf(a) # o PROVE PayOK(a)'
      OBVIOUS
    <3>1. OrderOf(a) \in Orders \ {o}
      BY AttemptPair
    <3> QED
      BY <3>1, PayStays DEF JobsInv
  <2> QED
    BY <2>1
<1>4. \A key \in expired' : key[3] <= clock'
  BY DEF JobsInv
<1> QED
  BY <1>1, <1>2, <1>3, <1>4 DEF JobsInv

\* The order ends or moves among the open statuses, and no created attempt is
\* left that is not kept with its deadline.
LEMMA RecordsMoveJobs ==
  ASSUME IInv, JobsInv, NEW o \in Orders, OnlyMoves(o),
         UNCHANGED <<expiry, expired, pay, clock>>,
         order'[o].status \in Open => order[o].status \in Open,
         order'[o].expiresAt = order[o].expiresAt,
         \A a \in Attempts : OrderOf(a) = o =>
           /\ attempt'[a] = "none" <=> attempt[a] = "none"
           /\ attempt'[a] = "created" => attempt[a] = "created"
  PROVE  JobsInv'
<1>1. DeadlineOK(o)' /\ ExpiryOK(o)'
  BY OtherDeadline DEF JobsInv
<1>2. \A a \in Attempts : OrderOf(a) = o => PayOK(a)'
  BY PayStays DEF JobsInv
<1> QED
  BY <1>1, <1>2, JobsTogether DEF OnlyMoves

LEMMA CheckoutJobs ==
  ASSUME IInv, JobsInv, NEW o \in Orders, Checkout(o, clock)
  PROVE  JobsInv'
<1>1. /\ order[o].status = "none"
      /\ order' = [order EXCEPT ![o] = [status |-> "pending",
                                        expiresAt |-> clock + Reservation]]
      /\ EnqueueExpiry(o, clock + Reservation)
      /\ clock + Reservation <= Horizon
      /\ UNCHANGED <<attempt, expired, pay, initiated, clock>>
  BY DEF Checkout
<1>2. clock + Reservation \in Time /\ clock + Reservation > clock
  BY <1>1, OrderAssumption, JobTypes DEF Time
<1>3. order'[o].expiresAt = clock + Reservation /\ \A q \in Orders \ {o} : order'[q] = order[q]
  BY <1>1, JobTypes
<1>4. /\ DeadlineOK(o)' /\ ExpiryOK(o)'
      /\ \A q \in Orders \ {o} : expiry'[q] = expiry[q]
  <2> HIDE <1>1
  <2>1. EnqueueExpiry(o, clock + Reservation) /\ UNCHANGED <<expired, clock>>
    BY <1>1
  <2> QED
    BY <1>2, <1>3, <2>1, NewDeadline
<1>5. \A a \in Attempts : OrderOf(a) = o => PayOK(a)'
  <2>1. \A a \in Attempts : OrderOf(a) = o => attempt[a] # "created"
    BY <1>1, CreatedIsProcessing
  <2> QED
    BY <1>1, <2>1, PayStays DEF JobsInv
<1> QED
  BY <1>1, <1>3, <1>4, <1>5, JobsTogether

\* The next attempt has not been made yet.
LEMMA NextAttemptIsNew ==
  ASSUME NEW o \in Orders, Numbered(o), NextAttempt(o) \in Attempts,
         attempt' = [attempt EXCEPT ![NextAttempt(o)] = attempt'[NextAttempt(o)]],
         attempt'[NextAttempt(o)] # "none", attempt \in [Attempts -> AttemptStatus]
  PROVE  attempt[NextAttempt(o)] = "none" /\ OrderOf(NextAttempt(o)) = o /\ Numbered(o)'
<1> DEFINE made == {n \in 1..MaxPayments : attempt[<<o, n>>] # "none"}
<1>1. PICK k \in 0..MaxPayments : made = 1..k
  BY DEF Numbered
<1>2. Cardinality(made) = k
  <2> HIDE DEF made
  <2>1. 1 \in Int /\ k \in Int /\ (1 > k => k = 0)
    BY OrderAssumption
  <2>2. Cardinality(1..k) = IF 1 > k THEN 0 ELSE k - 1 + 1
    BY <2>1, FS_Interval
  <2> QED
    BY <1>1, <2>1, <2>2
<1>3. NextAttempt(o) = <<o, k + 1>> /\ k + 1 \in 1..MaxPayments
  <2>1. NextAttempt(o) = <<o, 1 + k>>
    BY <1>2 DEF NextAttempt
  <2> QED
    BY <2>1, OrderAssumption DEF Attempts
<1>4. k + 1 \notin made
  BY <1>1
<1>5. attempt[<<o, k + 1>>] = "none"
  BY <1>3, <1>4
<1>6. \A n \in 1..MaxPayments : attempt'[<<o, n>>] # "none" <=> n = k + 1 \/ n \in made
  BY <1>3 DEF Attempts
<1>7. {n \in 1..MaxPayments : attempt'[<<o, n>>] # "none"} = 1..(k + 1)
  <2> HIDE DEF made
  <2>1. \A n \in 1..MaxPayments : n = k + 1 \/ n \in made <=> n \in 1..(k + 1)
    BY <1>1
  <2>2. 1..(k + 1) \subseteq 1..MaxPayments
    BY <1>3, OrderAssumption
  <2>3. \A n \in 1..MaxPayments : attempt'[<<o, n>>] # "none" <=> n \in 1..(k + 1)
    BY <1>6, <2>1
  <2> QED
    BY <2>2, <2>3
<1>8. Numbered(o)'
  BY <1>3, <1>7 DEF Numbered
<1> QED
  BY <1>3, <1>5, <1>8 DEF OrderOf

LEMMA PayOrderJobs ==
  ASSUME IInv, JobsInv, NEW o \in Orders, PayOrder(o), NEW a, a = NextAttempt(o)
  PROVE  JobsInv'
<1>1. /\ order[o].status = "pending" /\ a \in Attempts
      /\ UNCHANGED <<expiry, expired, initiated, clock>>
      /\ \E s \in {"paid", "payment_processing"} : order' = [order EXCEPT ![o].status = s]
      /\ \/ attempt' = [attempt EXCEPT ![a] = "succeeded"] /\ UNCHANGED pay
         \/ attempt' = [attempt EXCEPT ![a] = "created"]
            /\ pay' = [pay EXCEPT ![a].state = "pending"]
  BY DEF PayOrder, MarkOrderPaid
<1>2. /\ attempt' = [attempt EXCEPT ![a] = attempt'[a]] /\ attempt'[a] # "none"
  BY <1>1, JobTypes
<1>3. attempt[a] = "none" /\ OrderOf(a) = o /\ Numbered(o)'
  BY <1>1, <1>2, JobTypes, NextAttemptIsNew DEF JobsInv
<1>4. /\ \A q \in Orders \ {o} : order'[q] = order[q]
      /\ order'[o].expiresAt = order[o].expiresAt
      /\ order[o].status \in Open
  BY <1>1, JobTypes DEF OrderRow, Open
<1>5. \A q \in Orders : DeadlineOK(q)' /\ ExpiryOK(q)'
  BY <1>1, <1>4, OtherDeadline DEF JobsInv
<1>6. \A q \in Orders : Numbered(q)'
  <2>1. \A b \in Attempts \ {a} : attempt'[b] = attempt[b]
    BY <1>1, JobTypes
  <2>2. \A q \in Orders \ {o} : Numbered(q)'
    BY <1>3, <2>1, NumberedStays DEF JobsInv
  <2> QED
    BY <1>3, <2>2
<1>7. \A b \in Attempts : PayOK(b)'
  <2>1. PayOK(a) /\ pay[a].state = "none" /\ pay[a].next = Nothing
    BY <1>1, <1>3 DEF JobsInv, PayOK
  <2>2. PayOK(a)'
    <3>1. pay'[a].next = Nothing
          /\ (attempt'[a] = "created" => pay'[a].state = "pending")
      BY <1>1, <2>1, JobTypes DEF PayJob
    <3> QED
      BY <1>2, <3>1 DEF PayOK, Nothing
  <2>3. \A b \in Attempts \ {a} : PayOK(b)'
    <3> SUFFICES ASSUME NEW b \in Attempts \ {a} PROVE PayOK(b)'
      OBVIOUS
    <3>1. pay'[b] = pay[b] /\ attempt'[b] = attempt[b]
      BY <1>1, JobTypes
    <3>2. order'[OrderOf(b)].expiresAt = order[OrderOf(b)].expiresAt
      BY <1>4, AttemptPair
    <3> QED
      BY <1>1, <3>1, <3>2, PayStays DEF JobsInv
  <2> QED
    BY <2>2, <2>3
<1> QED
  BY <1>1, <1>5, <1>6, <1>7 DEF JobsInv

LEMMA CancelOrderJobs ==
  ASSUME IInv, JobsInv, NEW o \in Orders, CancelOrder(o)
  PROVE  JobsInv'
<1>1. /\ order' = [order EXCEPT ![o].status = "cancelled"]
      /\ UNCHANGED <<attempt, expiry, expired, pay, initiated, clock>>
  BY DEF CancelOrder, jobs
<1>2. OnlyMoves(o) /\ order'[o].status \notin Open /\ order'[o].expiresAt = order[o].expiresAt
  BY <1>1, JobTypes DEF OnlyMoves, Open, OrderRow
<1> QED
  BY <1>1, <1>2, RecordsMoveJobs

\* Steps that leave order, attempt and job alone.
LEMMA JobsSame ==
  ASSUME JobsInv, UNCHANGED <<order, attempt, jobs, clock>>
  PROVE  JobsInv'
  BY DEF JobsInv, DeadlineOK, ExpiryOK, Numbered, PayOK, jobs

\* The queue and the operator move the job of an order.
LEMMA ExpiryJobJobs ==
  ASSUME IInv, JobsInv, NEW o \in Orders,
         ClaimExpiry(o) \/ CompleteExpiry(o) \/ ExpiryFails(o) \/ RetryExpiry(o)
  PROVE  JobsInv'
<1> DEFINE d == order[o].expiresAt
           j == expiry[o]
<1>1. /\ UNCHANGED <<order, attempt, expired, pay, clock>>
      /\ \A q \in Orders \ {o} : expiry'[q] = expiry[q]
      /\ j \in JobRow(Time) /\ DeadlineOK(o) /\ ExpiryOK(o)
  BY JobTypes DEF ClaimExpiry, CompleteExpiry, ExpiryFails, RetryExpiry, records, JobsInv
<1>2. expiry'[o].state = "running" => expiry'[o].at <= clock
  BY <1>1, JobTypes DEF ClaimExpiry, CompleteExpiry, ExpiryFails, RetryExpiry, Settled, JobAt,
                        JobRow
<1>3. order[o].status \in Open => WillRun(expiry'[o], d)
  <2> SUFFICES ASSUME order[o].status \in Open PROVE WillRun(expiry'[o], d)
    OBVIOUS
  <2>1. WillRun(j, d) /\ d > 0 /\ <<"expiry", o, d>> \notin expired
    BY <1>1 DEF DeadlineOK
  <2>2. CASE ClaimExpiry(o)
    BY <1>1, <2>1, <2>2, JobTypes DEF ClaimExpiry, WillRun, JobRow
  <2>3. CASE CompleteExpiry(o)
    <3>1. expiry'[o] = Settled(j, "done") /\ j.state = "running" /\ j.at # d
      BY <2>1, <2>3, JobTypes DEF CompleteExpiry
    <3> QED
      BY <1>1, <2>1, <3>1 DEF WillRun, JobRow, Settled, JobAt
  <2>4. CASE ExpiryFails(o)
    <3>1. PICK s \in {"pending", "dead"} : expiry'[o] = Settled(j, s) /\ j.state = "running"
      BY <2>4, JobTypes DEF ExpiryFails
    <3> QED
      BY <1>1, <2>1, <3>1 DEF WillRun, JobRow, Settled, JobAt
  <2>5. CASE RetryExpiry(o)
    BY <1>1, <2>1, <2>5, JobTypes DEF RetryExpiry, WillRun, JobRow
  <2> QED
    BY <2>2, <2>3, <2>4, <2>5
<1>4. DeadlineOK(o)' /\ ExpiryOK(o)'
  BY <1>1, <1>2, <1>3 DEF DeadlineOK, ExpiryOK
<1>5. \A a \in Attempts : PayOK(a)'
  BY <1>1, PayStays DEF JobsInv
<1> QED
  BY <1>1, <1>4, <1>5, JobsTogether

\* expireOrder at the time of the database, under a key that is over: the order
\* ends, or the deadline it has now is another one and in the future.
LEMMA ExpireOrderJobs ==
  ASSUME IInv, JobsInv, NEW o \in Orders, NEW via \in {"expiry", "payment"}, NEW d \in Time,
         d <= clock, ExpireOnce(via, o, d, clock), UNCHANGED <<expiry, clock>>
  PROVE  /\ OnlyMoves(o) /\ DeadlineOK(o)' /\ ExpiryOK(o)'
         /\ order'[o].expiresAt = order[o].expiresAt
         /\ \A key \in expired' \ expired : key[2] = o /\ key[3] <= clock
         /\ \A a \in Attempts : attempt'[a] \in {attempt[a], "expired"}
                                /\ (attempt'[a] = "none" <=> attempt[a] = "none")
<1> DEFINE e == order[o].expiresAt
           k == <<via, o, d>>
<1>1. /\ expired' = expired \cup {k} /\ k[2] = o /\ k[3] = d
      /\ DeadlineOK(o) /\ ExpiryOK(o) /\ order[o] \in OrderRow
  BY JobTypes DEF ExpireOnce, JobsInv
<1>2. \A key \in expired' \ expired : key[2] = o /\ key[3] <= clock
  BY <1>1
<1>3. CASE UNCHANGED records /\ (k \in expired \/ order[o].status \notin Open \/ e > clock)
  <2>1. /\ UNCHANGED <<order, attempt>>
        /\ OnlyMoves(o)
    BY <1>3 DEF records, OnlyMoves
  <2>2. order[o].status \in Open => k \in expired \/ d # e
    BY <1>1, <1>3, JobTypes DEF OrderRow
  <2>3. order[o].status \in Open =>
          <<"expiry", o, e>> \notin expired' /\ <<"payment", o, e>> \notin expired'
    BY <1>1, <2>2 DEF DeadlineOK
  <2>4. DeadlineOK(o)' /\ ExpiryOK(o)'
    BY <1>1, <2>1, <2>3 DEF DeadlineOK, ExpiryOK
  <2> QED
    BY <1>2, <2>1, <2>4
<1>4. CASE /\ attempt' = [a \in Attempts |->
                IF OrderOf(a) = o /\ attempt[a] \in Active THEN "expired" ELSE attempt[a]]
           /\ order' = [order EXCEPT ![o].status = "expired"]
  <2>1. /\ order'[o].status \notin Open /\ order'[o].expiresAt = e
        /\ \A q \in Orders \ {o} : order'[q] = order[q]
    BY <1>1, <1>4, JobTypes DEF Open, OrderRow
  <2>2. OnlyMoves(o)
    BY <1>4, <2>1 DEF OnlyMoves
  <2>3. DeadlineOK(o)' /\ ExpiryOK(o)'
    BY <1>1, <2>1 DEF DeadlineOK, ExpiryOK
  <2>4. \A a \in Attempts : attempt'[a] \in {attempt[a], "expired"}
                            /\ (attempt'[a] = "none" <=> attempt[a] = "none")
    BY <1>4 DEF Active
  <2> QED
    BY <1>2, <2>1, <2>2, <2>3, <2>4
<1>5. k \in expired \/ ExpireOrder(o, clock)
  BY DEF ExpireOnce
<1>6. Open \cap Closed = {}
  BY DEF Open, Closed
<1> QED
  BY <1>3, <1>4, <1>5, <1>6 DEF ExpireOnce, ExpireOrder

LEMMA RunExpiryJobs ==
  ASSUME IInv, JobsInv, NEW o \in Orders, RunExpiry(o, clock)
  PROVE  JobsInv'
<1>1. /\ ExpireOnce("expiry", o, expiry[o].at, clock)
      /\ UNCHANGED <<expiry, pay, initiated, clock>>
      /\ expiry[o].at <= clock /\ expiry[o].at \in Time
  BY JobTypes DEF RunExpiry, JobsInv, ExpiryOK, JobRow
<1>2. /\ OnlyMoves(o) /\ DeadlineOK(o)' /\ ExpiryOK(o)'
      /\ order'[o].expiresAt = order[o].expiresAt
      /\ \A key \in expired' \ expired : key[2] = o /\ key[3] <= clock
      /\ \A a \in Attempts : attempt'[a] \in {attempt[a], "expired"}
                             /\ (attempt'[a] = "none" <=> attempt[a] = "none")
  BY <1>1, ExpireOrderJobs
<1>3. \A a \in Attempts : OrderOf(a) = o => PayOK(a)'
  BY <1>1, <1>2, PayStays DEF JobsInv
<1> QED
  BY <1>1, <1>2, <1>3, JobsTogether DEF OnlyMoves

\* What recordPaymentResult does, seen by the jobs: the attempt moves on, or
\* the result is ignored.
LEMMA RecordedFacts ==
  ASSUME IInv, JobsInv, NEW a \in Attempts, NEW r, RecordPaymentResult(a, r, clock),
         r.kind = "awaiting_payment" => r.expiresAt \in Time, UNCHANGED <<expired, clock>>
  PROVE  /\ OnlyMoves(OrderOf(a)) /\ DeadlineOK(OrderOf(a))' /\ ExpiryOK(OrderOf(a))'
         /\ \A q \in Orders \ {OrderOf(a)} : expiry'[q] = expiry[q]
         /\ \/ Ignored(a, r) /\ UNCHANGED <<order, attempt>>
            \/ /\ attempt[a] \in Active
               /\ attempt' = [attempt EXCEPT ![a] = attempt'[a]]
               /\ attempt'[a] \notin {"none", "created"}
               /\ \A b \in Attempts : OrderOf(b) = OrderOf(a) /\ b # a => attempt[b] # "created"
<1> DEFINE o == OrderOf(a)
<1>0. o \in Orders /\ DeadlineOK(o) /\ ExpiryOK(o) /\ order[o] \in OrderRow
  BY AttemptPair, JobTypes DEF JobsInv
<1>1. CASE Ignored(a, r) /\ UNCHANGED <<records, expiry>>
  <2>1. UNCHANGED <<order, attempt, expiry>> /\ OnlyMoves(o)
    BY <1>1 DEF records, OnlyMoves
  <2>2. DeadlineOK(o)' /\ ExpiryOK(o)'
    BY <1>0, <2>1, OtherDeadline
  <2> QED
    BY <1>1, <2>1, <2>2
<1>2. CASE ~Ignored(a, r)
  <2>1. /\ attempt[a] \in Active /\ order[o].status \in Paying
        /\ AttemptsOf(o, Active) = {a} /\ order[o].status \in Open
    BY <1>0, <1>2, OrderFacts DEF Ignored, Paying, Open
  <2>2. \A b \in Attempts : OrderOf(b) = o /\ b # a => attempt[b] # "created"
    BY <2>1 DEF AttemptsOf, Active
  <2>3. CASE /\ \E s \in {"succeeded", "submitted", "failed"} :
                  attempt' = [attempt EXCEPT ![a] = s]
             /\ \E s \in OrderStatus : order' = [order EXCEPT ![o].status = s]
             /\ UNCHANGED expiry
    <3>1. /\ attempt' = [attempt EXCEPT ![a] = attempt'[a]]
          /\ attempt'[a] \notin {"none", "created"}
          /\ order'[o].expiresAt = order[o].expiresAt
          /\ OnlyMoves(o)
      BY <1>0, <2>3, JobTypes DEF OnlyMoves, OrderRow
    <3>2. DeadlineOK(o)' /\ ExpiryOK(o)'
      BY <1>0, <2>1, <2>3, <3>1, OtherDeadline
    <3> QED
      BY <2>1, <2>2, <2>3, <3>1, <3>2
  <2>4. CASE r.kind = "awaiting_payment" /\ InfoIssued(o, a, r.expiresAt)
    <3>1. /\ attempt' = [attempt EXCEPT ![a] = "awaiting_payment"]
          /\ order' = [order EXCEPT ![o] = [status |-> "awaiting_payment",
                                            expiresAt |-> r.expiresAt]]
          /\ EnqueueExpiry(o, r.expiresAt) /\ r.expiresAt \in Time
      BY <2>4 DEF InfoIssued
    <3>2. r.expiresAt > clock
      <4>1. order[o].status \notin Closed
        BY <2>1 DEF Open, Closed
      <4> QED
        BY <2>4, <3>1, <4>1, JobTypes DEF RecordPaymentResult, Refused
    <3>3. /\ attempt' = [attempt EXCEPT ![a] = attempt'[a]]
          /\ attempt'[a] \notin {"none", "created"}
          /\ order'[o].expiresAt = r.expiresAt
          /\ OnlyMoves(o)
      BY <1>0, <3>1, JobTypes DEF OnlyMoves
    <3>4. /\ DeadlineOK(o)' /\ ExpiryOK(o)'
          /\ \A q \in Orders \ {o} : expiry'[q] = expiry[q]
      BY <1>0, <3>1, <3>2, <3>3, NewDeadline
    <3> QED
      BY <2>1, <2>2, <3>3, <3>4
  <2>5. CASE MarkOrderPaid(o, a) /\ UNCHANGED expiry
    BY <2>3, <2>5 DEF MarkOrderPaid, OrderStatus, Closed
  <2>6. CASE /\ attempt' = [attempt EXCEPT ![a] = "submitted"]
             /\ UNCHANGED <<order, stock, redeemed, benefit, published, expiry>>
    <3>1. order' = [order EXCEPT ![o].status = order[o].status]
          /\ order[o].status \in OrderStatus
      BY <1>0, <2>6, JobTypes DEF OrderRow
    <3> QED
      BY <2>3, <2>6, <3>1
  <2>7. CASE PaymentFailed(o, a)
    <3>1. /\ attempt' = [attempt EXCEPT ![a] = "failed"]
          /\ order' = [order EXCEPT ![o].status = "pending"]
          /\ UNCHANGED expiry
      BY <2>1, <2>7 DEF PaymentFailed
    <3> QED
      BY <2>3, <3>1 DEF OrderStatus, Open
  <2> QED
    BY <1>2, <2>4, <2>5, <2>6, <2>7 DEF RecordPaymentResult
<1> QED
  BY <1>1, <1>2 DEF RecordPaymentResult

LEMMA CallbackJobs ==
  ASSUME IInv, JobsInv, NEW a \in Attempts, NEW r \in Result, Callback(a, r, clock)
  PROVE  JobsInv'
<1> DEFINE o == OrderOf(a)
<1>1. /\ RecordPaymentResult(a, r, clock) /\ ~Ignored(a, r)
      /\ UNCHANGED <<expired, pay, initiated, clock>>
      /\ r.kind = "awaiting_payment" => r.expiresAt \in Time
  BY DEF Callback, Result
<1>2. /\ OnlyMoves(o) /\ DeadlineOK(o)' /\ ExpiryOK(o)' /\ o \in Orders
      /\ \A q \in Orders \ {o} : expiry'[q] = expiry[q]
      /\ attempt[a] \in Active
      /\ attempt' = [attempt EXCEPT ![a] = attempt'[a]]
      /\ attempt'[a] \notin {"none", "created"}
      /\ \A b \in Attempts : OrderOf(b) = o /\ b # a => attempt[b] # "created"
  BY <1>1, RecordedFacts, AttemptPair
<1>3. \A b \in Attempts \ {a} : attempt'[b] = attempt[b]
  BY <1>2, JobTypes
<1>4. \A b \in Attempts : attempt'[b] = "none" <=> attempt[b] = "none"
  BY <1>2, <1>3 DEF Active
<1>5. \A b \in Attempts : OrderOf(b) = o => attempt'[b] # "created"
  BY <1>2, <1>3
<1>6. \A b \in Attempts : OrderOf(b) = o => PayOK(b)'
  BY <1>1, <1>4, <1>5, PayStays DEF JobsInv
<1> QED
  BY <1>1, <1>2, <1>4, <1>6, JobsTogether DEF OnlyMoves

\* The payment job has recorded its result: the attempt it was for has moved on.
LEMMA FinishPaymentJobs ==
  ASSUME IInv, JobsInv, NEW a \in Attempts, FinishPayment(a, clock)
  PROVE  JobsInv'
<1> DEFINE o == OrderOf(a)
           r == pay[a].next
<1>1. /\ pay[a].state = "running" /\ PayOK(a) /\ o \in Orders
      /\ pay' = [pay EXCEPT ![a] = [state |-> "recorded", next |-> Nothing]]
      /\ UNCHANGED <<initiated, clock>>
      /\ r \in Result \cup Expire \cup {Nothing}
  BY AttemptPair, JobTypes DEF FinishPayment, JobsInv, PayJob
<1>2. /\ attempt[a] # "none"
      /\ pay'[a].state = "recorded" /\ pay'[a].next = Nothing
      /\ \A b \in Attempts \ {a} : pay'[b] = pay[b]
  BY <1>1, JobTypes DEF PayOK
<1>3. attempt'[a] \notin {"none", "created"} => PayOK(a)'
  BY <1>2 DEF PayOK, Nothing
<1>4. CASE r.kind = "expire" /\ ExpireOnce("payment", o, r.expiresAt, clock) /\ UNCHANGED expiry
  <2>1. r.expiresAt \in Time /\ r.expiresAt <= clock
    BY <1>1, <1>4 DEF PayOK, Expire, Result, Nothing
  <2>2. /\ OnlyMoves(o) /\ DeadlineOK(o)' /\ ExpiryOK(o)'
        /\ order'[o].expiresAt = order[o].expiresAt
        /\ \A key \in expired' \ expired : key[2] = o /\ key[3] <= clock
        /\ \A b \in Attempts : attempt'[b] \in {attempt[b], "expired"}
                               /\ (attempt'[b] = "none" <=> attempt[b] = "none")
    BY <1>1, <1>4, <2>1, ExpireOrderJobs
  <2>3. attempt'[a] # "created"
    <3> SUFFICES ASSUME attempt[a] = "created" PROVE attempt'[a] # "created"
      BY <2>2
    <3>1. order[o].expiresAt = r.expiresAt /\ order[o].status \in Open
      BY <1>1, <1>4, CreatedIsProcessing DEF PayOK
    <3>2. <<"payment", o, r.expiresAt>> \notin expired
      BY <1>1, <3>1 DEF JobsInv, DeadlineOK
    <3>3. ExpireOrder(o, clock)
      BY <1>4, <3>2 DEF ExpireOnce
    <3>4. ~(order[o].status \in Closed \/ order[o].expiresAt > clock)
      BY <2>1, <3>1, JobTypes DEF Open, Closed
    <3> QED
      BY <3>3, <3>4 DEF ExpireOrder, Active
  <2>4. \A b \in Attempts : OrderOf(b) = o => PayOK(b)'
    <3>1. \A b \in Attempts \ {a} : OrderOf(b) = o => PayOK(b)'
      BY <1>1, <1>2, <2>2, PayStays DEF JobsInv
    <3>2. PayOK(a)'
      BY <1>2, <1>3, <2>2, <2>3
    <3> QED
      BY <3>1, <3>2
  <2> QED
    BY <1>1, <1>2, <1>4, <2>2, <2>4, JobsTogether DEF OnlyMoves
<1>5. CASE r.kind # "expire" /\ RecordPaymentResult(a, r, clock) /\ UNCHANGED expired
  <2>1. r.kind = "awaiting_payment" => r.expiresAt \in Time
    BY <1>1 DEF Expire, Result, Nothing
  <2>2. /\ OnlyMoves(o) /\ DeadlineOK(o)' /\ ExpiryOK(o)'
        /\ \A q \in Orders \ {o} : expiry'[q] = expiry[q]
        /\ \/ Ignored(a, r) /\ UNCHANGED <<order, attempt>>
           \/ /\ attempt' = [attempt EXCEPT ![a] = attempt'[a]]
              /\ attempt'[a] \notin {"none", "created"}
              /\ \A b \in Attempts : OrderOf(b) = o /\ b # a => attempt[b] # "created"
    BY <1>1, <1>5, <2>1, RecordedFacts
  <2>3. attempt'[a] \notin {"none", "created"}
    <3>1. CASE Ignored(a, r) /\ UNCHANGED <<order, attempt>>
      <4>1. attempt[a] = "created" => ~Ignored(a, r)
        BY CreatedIsProcessing DEF Ignored, Active, Paying, Closed
      <4> QED
        BY <1>2, <3>1, <4>1
    <3> QED
      BY <2>2, <3>1
  <2>4. \A b \in Attempts : attempt'[b] = "none" <=> attempt[b] = "none"
    BY <1>2, <2>2, <2>3, JobTypes
  <2>5. \A b \in Attempts : OrderOf(b) = o => PayOK(b)'
    <3>1. ASSUME NEW b \in Attempts \ {a}, OrderOf(b) = o PROVE PayOK(b)'
      <4>1. /\ attempt'[b] = attempt[b]
            /\ attempt'[b] = "created" => UNCHANGED order
        BY <2>2, <3>1, JobTypes
      <4> QED
        BY <1>1, <1>2, <4>1, PayStays DEF JobsInv
    <3>2. PayOK(a)'
      BY <1>3, <2>3
    <3> QED
      BY <3>1, <3>2
  <2> QED
    BY <1>1, <1>2, <1>5, <2>2, <2>4, <2>5, JobsTogether DEF OnlyMoves
<1> QED
  BY <1>4, <1>5 DEF FinishPayment

LEMMA PaymentJobJobs ==
  ASSUME IInv, JobsInv, NEW a \in Attempts,
         \/ PaymentJobFails(a) \/ RetryPayment(a) \/ CompletePayment(a)
         \/ ProcessPayment(a, clock)
  PROVE  JobsInv'
<1> DEFINE o == OrderOf(a)
<1>1. /\ UNCHANGED <<order, attempt, expiry, expired, clock>> /\ o \in Orders
      /\ \A b \in Attempts \ {a} : pay'[b] = pay[b]
      /\ PayOK(a) /\ pay[a] \in PayJob
  BY AttemptPair, JobTypes DEF PaymentJobFails, RetryPayment, CompletePayment, ProcessPayment,
       records, JobsInv
<1>2. PayOK(a)'
  <2>1. CASE PaymentJobFails(a)
    <3>1. /\ pay'[a].state \in {"pending", "dead"} /\ pay'[a].next = Nothing
          /\ pay[a].state # "none"
      BY <2>1, JobTypes DEF PaymentJobFails
    <3> QED
      BY <1>1, <3>1 DEF PayOK, Nothing
  <2>2. CASE RetryPayment(a)
    <3>1. /\ pay'[a].state = "pending" /\ pay'[a].next = pay[a].next
          /\ pay[a].state = "dead"
      BY <1>1, <2>2, JobTypes DEF RetryPayment, PayJob
    <3> QED
      BY <1>1, <3>1 DEF PayOK
  <2>3. CASE ProcessPayment(a, clock)
    <3>1. /\ pay[a].state = "pending" /\ attempt[a] # "none"
      BY <1>1, <2>3 DEF ProcessPayment, PayOK
    <3>2. CASE /\ ~(/\ order[o].status = "payment_processing"
                    /\ attempt[a] \in {"created", "submitted"})
               /\ pay' = [pay EXCEPT ![a].state = "done"]
      <4>1. attempt[a] # "created"
        BY <3>2, CreatedIsProcessing
      <4>2. pay'[a].state = "done" /\ pay'[a].next = pay[a].next
        BY <1>1, <3>2, JobTypes DEF PayJob
      <4> QED
        BY <1>1, <3>1, <4>1, <4>2 DEF PayOK
    <3>3. CASE /\ order[o].expiresAt <= clock
               /\ pay' = [pay EXCEPT ![a] = [state |-> "running",
                    next |-> [kind |-> "expire", expiresAt |-> order[o].expiresAt]]]
      <4>1. /\ pay'[a].state = "running"
            /\ pay'[a].next.expiresAt = order[o].expiresAt
        BY <3>3, JobTypes
      <4> QED
        BY <1>1, <3>1, <3>3, <4>1 DEF PayOK
    <3>4. ASSUME NEW r \in Result,
                 pay' = [pay EXCEPT ![a] = [state |-> "running", next |-> r]]
          PROVE  PayOK(a)'
      <4>1. pay'[a].state = "running" /\ pay'[a].next.kind # "expire"
        BY <3>4, JobTypes DEF Result
      <4> QED
        BY <1>1, <3>1, <4>1 DEF PayOK
    <3> QED
      BY <2>3, <3>2, <3>3, <3>4 DEF ProcessPayment
  <2>4. CASE CompletePayment(a)
    <3>1. /\ pay'[a].state = "done" /\ pay'[a].next = pay[a].next
          /\ pay[a].state = "recorded"
      BY <1>1, <2>4, JobTypes DEF CompletePayment, PayJob
    <3> QED
      BY <1>1, <3>1 DEF PayOK
  <2> QED
    BY <2>1, <2>2, <2>3, <2>4
<1>3. \A b \in Attempts : OrderOf(b) = o => PayOK(b)'
  BY <1>1, <1>2, PayStays DEF JobsInv
<1>4. DeadlineOK(o)' /\ ExpiryOK(o)'
  BY <1>1, OtherDeadline DEF JobsInv
<1> QED
  BY <1>1, <1>3, <1>4, JobsTogether

\* Time moves on: what was over stays over.
LEMMA TickJobs ==
  ASSUME IInv, JobsInv, Tick
  PROVE  JobsInv'
<1>1. clock' = clock + 1 /\ UNCHANGED <<order, attempt, expiry, expired, pay>>
  BY DEF Tick, records, jobs
<1>2. /\ \A o \in Orders : DeadlineOK(o)' /\ Numbered(o)'
      /\ \A o \in Orders : expiry[o].at \in Int
      /\ \A a \in Attempts : pay[a].next.kind = "expire" => pay[a].next.expiresAt \in Int
  BY <1>1, JobTypes DEF JobsInv, DeadlineOK, Numbered, JobRow, PayJob, Result, Expire, Nothing
<1>3. \A o \in Orders : ExpiryOK(o)'
  BY <1>1, <1>2, JobTypes DEF JobsInv, ExpiryOK
<1>4. \A a \in Attempts : PayOK(a)'
  BY <1>1, <1>2, JobTypes DEF JobsInv, PayOK
<1>5. \A key \in expired' : key[3] <= clock'
  BY <1>1, JobTypes DEF JobsInv
<1> QED
  BY <1>2, <1>3, <1>4, <1>5 DEF JobsInv

LEMMA NextJobs ==
  ASSUME MaxLag = 0, IInv, JobsInv, [Next]_vars
  PROVE  JobsInv'
<1>0. \A t \in ProcessClocks : t = clock
  BY NoLag, JobTypes
<1>1. CASE UNCHANGED <<order, attempt, jobs, clock>>
  BY <1>1, JobsSame
<1>2. ASSUME NEW o \in Orders, OrderStep(o) PROVE JobsInv'
  <2>1. CASE PayOrder(o)
    <3>1. PICK a : a = NextAttempt(o)
      OBVIOUS
    <3> QED
      BY <2>1, <3>1, PayOrderJobs
  <2>2. CASE FinalizeDirectRefund(o)
    BY <2>2, JobsSame DEF FinalizeDirectRefund
  <2>3. ASSUME NEW t \in ProcessClocks, Checkout(o, t) \/ RunExpiry(o, t) PROVE JobsInv'
    BY <1>0, <2>3, CheckoutJobs, RunExpiryJobs
  <2> QED
    BY <1>2, <2>1, <2>2, <2>3, CancelOrderJobs, ExpiryJobJobs DEF OrderStep
<1>3. ASSUME NEW a \in Attempts, AttemptStep(a) PROVE JobsInv'
  BY <1>0, <1>3, PaymentJobJobs, FinishPaymentJobs, CallbackJobs DEF AttemptStep
<1>4. ASSUME NEW p \in Products, NEW delta \in {-1, 1}, AdjustStock(p, delta) PROVE JobsInv'
  BY <1>4, JobsSame DEF AdjustStock
<1> QED
  BY <1>1, <1>2, <1>3, <1>4, TickJobs DEF Next, vars, jobs

LEMMA InitJobs == Init => JobsInv
<1> SUFFICES ASSUME Init PROVE JobsInv
  OBVIOUS
<1>1. ASSUME NEW o \in Orders PROVE DeadlineOK(o) /\ ExpiryOK(o) /\ Numbered(o)
  <2>1. {n \in 1..MaxPayments : attempt[<<o, n>>] # "none"} = 1..0
    BY DEF Init, Attempts
  <2>2. Numbered(o)
    BY <2>1, OrderAssumption DEF Numbered
  <2> QED
    BY <2>2 DEF Init, DeadlineOK, ExpiryOK, Open, NoJob
<1>2. \A a \in Attempts : PayOK(a)
  BY DEF Init, PayOK, Nothing
<1> QED
  BY <1>1, <1>2 DEF Init, JobsInv

\* While no process clock is behind the one of the database, the jobs have what
\* they need of the orders.
THEOREM JobsInvariant == MaxLag = 0 => (Spec => []JobsInv)
<1> SUFFICES ASSUME MaxLag = 0 PROVE Spec => []JobsInv
  OBVIOUS
<1>1. Init => JobsInv
  BY InitJobs
<1>2. IInv /\ JobsInv /\ [Next]_vars => JobsInv'
  BY NextJobs
<1> QED
  BY <1>1, <1>2, OrderInvariant, PTL DEF Spec

\* Every open order has a job for the deadline it has now, whose execution is
\* not spent, while no process clock is behind the one of the database.
THEOREM OpenOrdersWillExpire == MaxLag = 0 => (Spec => []OpenOrdersHaveExpiry)
<1> SUFFICES ASSUME MaxLag = 0 PROVE Spec => []OpenOrdersHaveExpiry
  OBVIOUS
<1>1. JobsInv => OpenOrdersHaveExpiry
  BY DEF JobsInv, DeadlineOK, OpenOrdersHaveExpiry, OpenOrders
<1> QED
  BY <1>1, JobsInvariant, PTL

\* An attempt the provider may not have heard of has a job that will tell it,
\* or a dead one the operator sees.
THEOREM AttemptsAreRemembered == MaxLag = 0 => (Spec => []NoAttemptIsForgotten)
<1> SUFFICES ASSUME MaxLag = 0 PROVE Spec => []NoAttemptIsForgotten
  OBVIOUS
<1>1. JobsInv => NoAttemptIsForgotten
  BY DEF JobsInv, PayOK, NoAttemptIsForgotten
<1> QED
  BY <1>1, JobsInvariant, PTL
=============================================================================

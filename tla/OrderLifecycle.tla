--------------------------- MODULE OrderLifecycle ---------------------------
(***************************************************************************)
(* An order from checkout to its end: the commands and jobs of             *)
(* packages/commerce/order/src/commands.ts with what they do to            *)
(* inventory, coupon and loyalty in the same transaction.                  *)
(*                                                                         *)
(* Every command locks the order row first and reads everything else after *)
(* it, so one command is one step.  What interleaves are the steps of the  *)
(* two jobs, the payment provider outside every transaction, its callbacks *)
(* in any order and number, the customer and the clocks.                   *)
(*                                                                         *)
(* The two jobs run on the abstract queue that JobQueue is checked to      *)
(* implement (JobLifecycle): at least once, and never again once decided.  *)
(* Time is a bounded clock of the database; the clock of a process that    *)
(* runs a command may be behind it.                                        *)
(*                                                                         *)
(* Left out: the catalogue, shipping and price checks that refuse a        *)
(* checkout before it changes anything, the payment-info event, and the    *)
(* tier points, which are booked as the reward entries are.                *)
(***************************************************************************)
EXTENDS DeadlineJob, Sums, Sequences, FiniteSetsExt

CONSTANTS
  Orders,         \* order ids; a cart is the order it becomes
  Products,
  Quantity,       \* [Orders -> [Products -> Nat]], the lines of an order
  Price,          \* what an order costs before the wallet is used
  Wish,           \* cart.rewardRedeemCents
  CouponOrders,   \* orders whose cart carries the coupon and is discounted
  CouponLimit,    \* coupon.maxRedemptions
  Wallet,         \* reward balance of the customer at the start
  OnHand,         \* [Products -> Nat], stock at the start
  Reservation,    \* RESERVATION_MINUTES, in ticks
  MaxLag,         \* how far a process clock may be behind the database's
  Horizon,        \* bound: the last tick, and the last deadline
  MaxPayments,    \* bound: payment attempts of an order
  MaxOnHand       \* bound: stock an operator may book

ASSUME OrderAssumption ==
  /\ IsFiniteSet(Orders)
  /\ Quantity \in [Orders -> [Products -> Nat]]
  /\ Price \in [Orders -> Nat]
  /\ Wish \in [Orders -> Nat]
  /\ CouponOrders \subseteq Orders
  /\ CouponLimit \in Nat
  /\ Wallet \in Nat
  /\ OnHand \in [Products -> Nat]
  /\ Reservation \in Nat \ {0}
  /\ MaxLag \in Nat
  /\ Horizon \in Nat
  /\ MaxPayments \in Nat
  /\ MaxOnHand \in Nat

Attempts == Orders \X (1..MaxPayments)
OrderOf(a) == a[1]

VARIABLES
  order,      \* [Orders -> [status, expiresAt]]
  attempt,    \* [Attempts -> status], order_payments
  stock,      \* [Products -> [onHand, reserved]]
  redeemed,   \* coupon.redeemedCount
  benefit,    \* [Orders -> Benefit], what an order took and gave
  published,  \* [Orders -> Seq], the events of the order
  expiry,     \* [Orders -> JobRow], the job order:expire:<id>
  expired,    \* idempotency rows of expireOrder: <<via, order, deadline>>
  pay,        \* [Attempts -> PayJob], the job order:pay:<attemptRef>
  initiated,  \* attempts the provider has been told of
  clock       \* now() of the database

records == <<order, attempt, stock, redeemed, benefit, published>>
jobs == <<expiry, expired, pay, initiated>>
vars == <<order, attempt, stock, redeemed, benefit, published, expiry, expired,
          pay, initiated, clock>>

-----------------------------------------------------------------------------
Time == 0..Horizon

\* new Date() in a process, at the moment it runs a command.
ProcessClocks == {t \in Time : t <= clock /\ clock - t <= MaxLag}

Open == {"pending", "payment_processing", "awaiting_payment"}
Closed == {"paid", "expired", "cancelled"}
Paying == {"payment_processing", "awaiting_payment"}
OrderStatus == {"none"} \cup Open \cup Closed

Active == {"created", "submitted", "awaiting_payment"}
AttemptStatus == {"none"} \cup Active \cup {"succeeded", "failed", "expired"}

\* The books of an order: the coupon redemption, the reward money it spent and
\* the entries (source, reference) of the reward ledger, which is append-only.
Entry == {"redemption", "order-accrual", "refund", "clawback"}
Benefit == [coupon : {"none", "active", "reversed"}, spent : Nat,
            ledger : SUBSET Entry]

\* What the provider answers or calls back.
Result == [kind : {"confirmed", "redirect", "failed"}]
          \cup [kind : {"awaiting_payment"}, expiresAt : Time]
Expire == [kind : {"expire"}, expiresAt : Time]
Nothing == [kind |-> "nothing"]
PayJob == [state : {"none", "pending", "running", "recorded", "done", "dead"},
           next : Result \cup Expire \cup {Nothing}]

Init ==
  /\ order = [o \in Orders |-> [status |-> "none", expiresAt |-> 0]]
  /\ attempt = [a \in Attempts |-> "none"]
  /\ stock = [p \in Products |-> [onHand |-> OnHand[p], reserved |-> 0]]
  /\ redeemed = 0
  /\ benefit = [o \in Orders |-> [coupon |-> "none", spent |-> 0, ledger |-> {}]]
  /\ published = [o \in Orders |-> <<>>]
  /\ expiry = [o \in Orders |-> NoJob]
  /\ expired = {}
  /\ pay = [a \in Attempts |-> [state |-> "none", next |-> Nothing]]
  /\ initiated = {}
  /\ clock = 0

-----------------------------------------------------------------------------
(***************************************************************************)
(* inventory_stock, coupon and loyalty: their part of an order transaction *)
(***************************************************************************)

\* reserve of every line; on hand does not change.
Reserve(o) ==
  /\ \A p \in Products : stock[p].onHand - stock[p].reserved >= Quantity[o][p]
  /\ stock' = [p \in Products |->
                 [stock[p] EXCEPT !.reserved = @ + Quantity[o][p]]]

\* release of every line; a missing reservation refuses the whole command.
Release(o) ==
  /\ \A p \in Products : stock[p].reserved >= Quantity[o][p]
  /\ stock' = [p \in Products |->
                 [stock[p] EXCEPT !.reserved = @ - Quantity[o][p]]]

\* Mutant of CommitReservation: the goods leave, the reservation stays.
CommitKeepsReservation(o) ==
  stock' = [p \in Products |->
              [stock[p] EXCEPT !.onHand = Max({0, @ - Quantity[o][p]})]]

\* commitReservation of every line: the goods leave, what is free stays.
CommitReservation(o) ==
  /\ \A p \in Products : /\ stock[p].reserved >= Quantity[o][p]
                         /\ stock[p].onHand >= Quantity[o][p]
  /\ stock' = [p \in Products |->
                 [onHand |-> stock[p].onHand - Quantity[o][p],
                  reserved |-> stock[p].reserved - Quantity[o][p]]]

\* adjust by an operator: never below what is reserved.
AdjustStock(p, delta) ==
  LET next == stock[p].onHand + delta
  IN  /\ next >= 0 /\ next >= stock[p].reserved
      /\ next <= MaxOnHand
      /\ stock' = [stock EXCEPT ![p].onHand = next]
      /\ UNCHANGED <<order, attempt, redeemed, benefit, published, jobs, clock>>

\* The reward balance is derived from the ledger: what was spent and not
\* refunded.  What an order accrues is effective only days later.
Spenders == {o \in Orders : /\ "redemption" \in benefit[o].ledger
                            /\ "refund" \notin benefit[o].ledger}
Balance == Wallet - SumOver([o \in Orders |-> benefit[o].spent], Spenders)

\* maxRedeemableCents against the wish of the cart.
Redeemable(o) == Max({0, Min({Wish[o], Balance, Price[o]})})

\* orders.totalCents
Total(o) == Price[o] - benefit[o].spent

\* Mutant of Reversed: the money spent is not given back.
ReversedKeepsMoney(b) ==
  [b EXCEPT !.coupon = IF @ = "active" THEN "reversed" ELSE @]

\* reverseCouponForOrder and rewardService.reverseForOrder: what was taken is
\* given back and what was given is clawed back, as new entries and once.
Reversed(b) ==
  [b EXCEPT !.coupon = IF @ = "active" THEN "reversed" ELSE @,
            !.ledger = @ \cup {e \in {"refund", "clawback"} :
                                 \/ e = "refund" /\ "redemption" \in @
                                 \/ e = "clawback" /\ "order-accrual" \in @}]

ReverseBenefits(o) ==
  /\ benefit' = [benefit EXCEPT ![o] = Reversed(@)]
  /\ redeemed' = IF benefit[o].coupon = "active" THEN Max({redeemed - 1, 0})
                                                 ELSE redeemed

\* An order that ends unpaid gives goods, coupon and money back.
GiveBack(o) == Release(o) /\ ReverseBenefits(o)

-----------------------------------------------------------------------------
(***************************************************************************)
(* The commands                                                            *)
(***************************************************************************)
Publish(o, event) == published' = [published EXCEPT ![o] = Append(@, event)]

\* Mutant of EnqueueExpiry: the enqueue without replaceExisting.
EnqueueKeepsOld(o, d) ==
  expiry' = [expiry EXCEPT ![o] = EnqueuedOnce(@, d)]

\* The job of the deadline, by replaceExisting when one is there already.
EnqueueExpiry(o, d) == expiry' = [expiry EXCEPT ![o] = Enqueued(@, d)]

\* checkoutCart and placeOrder (which has neither coupon nor wallet): all the
\* lines are reserved or nothing happens.  A repeated checkout of the cart
\* finds the order and changes nothing.
Checkout(o, t) ==
  /\ order[o].status = "none"
  /\ t + Reservation <= Horizon
  /\ o \in CouponOrders => redeemed < CouponLimit
  /\ Reserve(o)
  /\ order' = [order EXCEPT ![o] = [status |-> "pending",
                                    expiresAt |-> t + Reservation]]
  /\ benefit' = [benefit EXCEPT ![o] =
       [coupon |-> IF o \in CouponOrders THEN "active" ELSE "none",
        spent |-> Redeemable(o),
        ledger |-> IF Redeemable(o) > 0 THEN {"redemption"} ELSE {}]]
  /\ redeemed' = IF o \in CouponOrders THEN redeemed + 1 ELSE redeemed
  /\ EnqueueExpiry(o, t + Reservation)
  /\ Publish(o, "placed")
  /\ UNCHANGED <<attempt, expired, pay, initiated, clock>>

\* markOrderPaid: the only step that commits stock and grants the customer value.
MarkOrderPaid(o, a) ==
  /\ attempt' = [attempt EXCEPT ![a] = "succeeded"]
  /\ CommitReservation(o)
  /\ order' = [order EXCEPT ![o].status = "paid"]
  /\ benefit' = [benefit EXCEPT ![o].ledger =
                   IF Total(o) > 0 THEN @ \cup {"order-accrual"} ELSE @]
  /\ Publish(o, "paid")
  /\ UNCHANGED redeemed

\* The attempts of an order are numbered in the order payOrder makes them.
NextAttempt(o) ==
  <<o, 1 + Cardinality({n \in 1..MaxPayments : attempt[<<o, n>>] # "none"})>>

\* Mutant of PayOrder: one dedupe key for all the attempts of an order.
PayOrderOneKey(o) ==
  LET a == NextAttempt(o)
  IN  /\ order[o].status = "pending"
      /\ a \in Attempts
      /\ order' = [order EXCEPT ![o].status = "payment_processing"]
      /\ attempt' = [attempt EXCEPT ![a] = "created"]
      /\ pay' = IF a[2] > 1 THEN pay ELSE [pay EXCEPT ![a].state = "pending"]
      /\ UNCHANGED <<stock, redeemed, benefit, published, expiry, expired,
                     initiated, clock>>

\* payOrder: a new attempt for a pending order, its job in the same
\* transaction; an order of total 0 is paid at once.
PayOrder(o) ==
  LET a == NextAttempt(o)
  IN  /\ order[o].status = "pending"
      /\ a \in Attempts
      /\ \/ /\ Total(o) = 0
            /\ MarkOrderPaid(o, a)
            /\ UNCHANGED pay
         \/ /\ Total(o) > 0
            /\ order' = [order EXCEPT ![o].status = "payment_processing"]
            /\ attempt' = [attempt EXCEPT ![a] = "created"]
            /\ pay' = [pay EXCEPT ![a].state = "pending"]
            /\ UNCHANGED <<stock, redeemed, benefit, published>>
      /\ UNCHANGED <<expiry, expired, initiated, clock>>

\* Mutant of CancelOrder: it takes orders whose payment is under way.
CancelAnyOpen(o) ==
  /\ order[o].status \in Open
  /\ GiveBack(o)
  /\ order' = [order EXCEPT ![o].status = "cancelled"]
  /\ Publish(o, "cancelled")
  /\ UNCHANGED <<attempt, jobs, clock>>

\* cancelOrder: only a pending order.  It can have no shipment: a shipment is
\* made for a paid order only.
CancelOrder(o) ==
  /\ order[o].status = "pending"
  /\ GiveBack(o)
  /\ order' = [order EXCEPT ![o].status = "cancelled"]
  /\ Publish(o, "cancelled")
  /\ UNCHANGED <<attempt, jobs, clock>>

\* The order was refunded directly: what it had accrued is clawed back.
Refunded(o) == "clawback" \in benefit[o].ledger

\* finalizeDirectRefund: the one direct refund of a paid order succeeded.  The
\* goods are free again, coupon and money are given back and what the order
\* gave is clawed back; the order stays paid.  An order of total 0 has no
\* payment of a provider and no refund.
FinalizeDirectRefund(o) ==
  /\ order[o].status = "paid" /\ Total(o) > 0 /\ ~Refunded(o)
  /\ \A p \in Products : stock[p].onHand + Quantity[o][p] <= MaxOnHand
  /\ stock' = [p \in Products |-> [stock[p] EXCEPT !.onHand = @ + Quantity[o][p]]]
  /\ ReverseBenefits(o)
  /\ UNCHANGED <<order, attempt, published, jobs, clock>>

\* Mutant of ExpireOrder: a paid order is not left alone.
ExpireForgetsPaid(o, t) ==
  \/ /\ order[o].status \in Open \cup {"paid"}
     /\ order[o].expiresAt <= t
     /\ benefit' = [benefit EXCEPT ![o] = Reversed(@)]
     /\ order' = [order EXCEPT ![o].status = "expired"]
     /\ UNCHANGED <<stock, redeemed, attempt, published>>
  \/ /\ order[o].status \in Closed \/ order[o].expiresAt > t
     /\ UNCHANGED records

\* expireOrder by the worker at its time t: a closed order is left alone, one
\* whose deadline was moved on too; neither is a failure of the job.
ExpireOrder(o, t) ==
  \/ /\ order[o].status \in Open
     /\ order[o].expiresAt <= t
     /\ GiveBack(o)
     /\ attempt' = [a \in Attempts |->
          IF OrderOf(a) = o /\ attempt[a] \in Active THEN "expired" ELSE attempt[a]]
     /\ order' = [order EXCEPT ![o].status = "expired"]
     /\ UNCHANGED published
  \/ /\ order[o].status \in Closed \/ order[o].expiresAt > t
     /\ UNCHANGED records

\* The command bus in front of expireOrder: the first execution under a key is
\* the only one, a later one replays its response.
ExpireOnce(via, o, d, t) ==
  LET key == <<via, o, d>>
  IN  /\ expired' = expired \cup {key}
      /\ IF key \in expired THEN UNCHANGED records ELSE ExpireOrder(o, t)

\* The results that change nothing: of a closed order, of a final attempt, and
\* a redirect after the provider gave payment instructions.
Ignored(a, r) ==
  \/ order[OrderOf(a)].status \in Closed
  \/ attempt[a] \notin Active
  \/ /\ r.kind = "redirect"
     /\ \/ order[OrderOf(a)].status # "payment_processing"
        \/ attempt[a] \notin {"created", "submitted"}
  \/ /\ r.kind = "awaiting_payment"
     /\ order[OrderOf(a)].status \notin Paying

\* The results a command refuses, with no effect: instructions that are over
\* already, and a confirmation of an order that is not being paid.
Refused(a, r, t) ==
  /\ order[OrderOf(a)].status \notin Closed
  /\ \/ r.kind = "awaiting_payment" /\ r.expiresAt <= t
     \/ /\ r.kind = "confirmed" /\ attempt[a] \in Active
        /\ order[OrderOf(a)].status \notin Paying

\* Payment instructions move the deadline of the order and its job with it.
InfoIssued(o, a, d) ==
  /\ attempt' = [attempt EXCEPT ![a] = "awaiting_payment"]
  /\ order' = [order EXCEPT ![o] = [status |-> "awaiting_payment",
                                    expiresAt |-> d]]
  /\ EnqueueExpiry(o, d)
  /\ UNCHANGED <<stock, redeemed, benefit, published>>

\* A failed attempt gives the order back to the customer.
PaymentFailed(o, a) ==
  /\ attempt' = [attempt EXCEPT ![a] = "failed"]
  /\ order' = [order EXCEPT ![o].status = IF @ \in Paying THEN "pending" ELSE @]
  /\ UNCHANGED <<stock, redeemed, benefit, published, expiry>>

\* recordPaymentResult at time t, of the payment job or of a callback.
RecordPaymentResult(a, r, t) ==
  LET o == OrderOf(a)
  IN  /\ ~Refused(a, r, t)
      /\ \/ Ignored(a, r) /\ UNCHANGED <<records, expiry>>
         \/ /\ ~Ignored(a, r)
            /\ \/ /\ r.kind = "confirmed"
                  /\ MarkOrderPaid(o, a)
                  /\ UNCHANGED expiry
               \/ /\ r.kind = "redirect"
                  /\ attempt' = [attempt EXCEPT ![a] = "submitted"]
                  /\ UNCHANGED <<order, stock, redeemed, benefit, published,
                                 expiry>>
               \/ /\ r.kind = "awaiting_payment"
                  /\ InfoIssued(o, a, r.expiresAt)
               \/ /\ r.kind = "failed"
                  /\ PaymentFailed(o, a)

\* A callback of the provider for an attempt it was told of: any, late, again
\* or never.  One that is ignored or replayed by the command bus is no step.
Callback(a, r, t) ==
  /\ a \in initiated
  /\ r.kind # "redirect"
  /\ ~Ignored(a, r)
  /\ RecordPaymentResult(a, r, t)
  /\ UNCHANGED <<expired, pay, initiated, clock>>

-----------------------------------------------------------------------------
(***************************************************************************)
(* The payment job of an attempt: read the order, call the provider outside*)
(* any transaction, record what it answered.                               *)
(***************************************************************************)

\* processPayment up to the answer of the provider.  Nothing else can tell the
\* read of the order from the call that follows it, so they are one step.
ProcessPayment(a, t) ==
  LET o == OrderOf(a)
      wanted == /\ order[o].status = "payment_processing"
                /\ attempt[a] \in {"created", "submitted"}
  IN  /\ pay[a].state = "pending"
      /\ \/ /\ ~wanted
            /\ pay' = [pay EXCEPT ![a].state = "done"]
            /\ UNCHANGED initiated
         \/ /\ wanted /\ order[o].expiresAt <= t
            /\ pay' = [pay EXCEPT ![a] =
                 [state |-> "running",
                  next |-> [kind |-> "expire", expiresAt |-> order[o].expiresAt]]]
            /\ UNCHANGED initiated
         \/ /\ wanted /\ order[o].expiresAt > t
            /\ \E r \in Result :
                 /\ r.kind = "awaiting_payment" => r.expiresAt > t
                 /\ pay' = [pay EXCEPT ![a] = [state |-> "running", next |-> r]]
            /\ initiated' = initiated \cup {a}
      /\ UNCHANGED <<records, expiry, expired, clock>>

\* The command the job ends with, in a transaction of its own.
FinishPayment(a, t) ==
  LET r == pay[a].next
  IN  /\ pay[a].state = "running"
      /\ pay' = [pay EXCEPT ![a] = [state |-> "recorded", next |-> Nothing]]
      /\ \/ /\ r.kind = "expire"
            /\ ExpireOnce("payment", OrderOf(a), r.expiresAt, t)
            /\ UNCHANGED expiry
         \/ /\ r.kind # "expire"
            /\ RecordPaymentResult(a, r, t)
            /\ UNCHANGED expired
      /\ UNCHANGED <<initiated, clock>>

\* The queue learns that the job is done.
CompletePayment(a) ==
  /\ pay[a].state = "recorded"
  /\ pay' = [pay EXCEPT ![a].state = "done"]
  /\ UNCHANGED <<records, expiry, expired, initiated, clock>>

\* The run fails or its worker dies: before the provider was called, between the
\* call and the command, or when the command has committed and the job is not
\* done; the queue tries again until the attempts are used up.
PaymentJobFails(a) ==
  /\ pay[a].state \in {"pending", "running", "recorded"}
  /\ \E s \in {"pending", "dead"} :
       pay' = [pay EXCEPT ![a] = [state |-> s, next |-> Nothing]]
  /\ UNCHANGED <<records, expiry, expired, initiated, clock>>

\* An operator retries a dead job.
RetryPayment(a) ==
  /\ pay[a].state = "dead"
  /\ pay' = [pay EXCEPT ![a].state = "pending"]
  /\ UNCHANGED <<records, expiry, expired, initiated, clock>>

-----------------------------------------------------------------------------
(***************************************************************************)
(* The expiry job of an order                                              *)
(***************************************************************************)

\* The queue hands out a row that is due by the clock of the database.
ClaimExpiry(o) ==
  /\ expiry[o].state = "pending"
  /\ expiry[o].at <= clock
  /\ expiry' = [expiry EXCEPT ![o].state = "running"]
  /\ UNCHANGED <<records, expired, pay, initiated, clock>>

\* The command of the job; it decides by the clock of the process.
RunExpiry(o, t) ==
  /\ expiry[o].state = "running"
  /\ <<"expiry", o, expiry[o].at>> \notin expired
  /\ ExpireOnce("expiry", o, expiry[o].at, t)
  /\ UNCHANGED <<expiry, pay, initiated, clock>>

CompleteExpiry(o) ==
  /\ expiry[o].state = "running"
  /\ <<"expiry", o, expiry[o].at>> \in expired
  /\ expiry' = [expiry EXCEPT ![o] = Settled(@, "done")]
  /\ UNCHANGED <<records, expired, pay, initiated, clock>>

\* The run fails or its worker dies, before or after its command committed.
ExpiryFails(o) ==
  /\ expiry[o].state = "running"
  /\ \E s \in {"pending", "dead"} :
       expiry' = [expiry EXCEPT ![o] = Settled(@, s)]
  /\ UNCHANGED <<records, expired, pay, initiated, clock>>

RetryExpiry(o) ==
  /\ expiry[o].state = "dead"
  /\ expiry' = [expiry EXCEPT ![o].state = "pending"]
  /\ UNCHANGED <<records, expired, pay, initiated, clock>>

-----------------------------------------------------------------------------
Tick == /\ clock < Horizon
        /\ clock' = clock + 1
        /\ UNCHANGED <<records, jobs>>

OrderStep(o) ==
  \/ PayOrder(o) \/ CancelOrder(o) \/ FinalizeDirectRefund(o)
  \/ ClaimExpiry(o) \/ CompleteExpiry(o) \/ ExpiryFails(o) \/ RetryExpiry(o)
  \/ \E t \in ProcessClocks : Checkout(o, t) \/ RunExpiry(o, t)

AttemptStep(a) ==
  \/ PaymentJobFails(a) \/ RetryPayment(a) \/ CompletePayment(a)
  \/ \E t \in ProcessClocks :
       \/ ProcessPayment(a, t) \/ FinishPayment(a, t)
       \/ \E r \in Result : Callback(a, r, t)

Next == \/ \E o \in Orders : OrderStep(o)
        \/ \E a \in Attempts : AttemptStep(a)
        \/ \E p \in Products, delta \in {-1, 1} : AdjustStock(p, delta)
        \/ Tick

Spec == Init /\ [][Next]_vars

\* Deadlines pass, and a due expiry job that is run again and again is at some
\* time run to its end, unless its attempts are used up first.  Nothing is
\* asked of customers, of the provider or of operators.
Fairness ==
  /\ WF_vars(Tick)
  /\ \A o \in Orders :
       /\ WF_vars(ClaimExpiry(o))
       /\ SF_vars(\E t \in ProcessClocks : RunExpiry(o, t))
       /\ WF_vars(CompleteExpiry(o))

LiveSpec == Spec /\ Fairness

-----------------------------------------------------------------------------
(***************************************************************************)
(* What is checked                                                         *)
(***************************************************************************)

\* Every column has a value of its type, and no amount is negative.
TypeOK ==
  /\ order \in [Orders -> [status : OrderStatus, expiresAt : Time]]
  /\ attempt \in [Attempts -> AttemptStatus]
  /\ stock \in [Products -> [onHand : Nat, reserved : Nat]]
  /\ redeemed \in Nat
  /\ benefit \in [Orders -> Benefit]
  /\ published \in [Orders -> Seq({"placed", "paid", "cancelled"})]
  /\ expiry \in [Orders -> JobRow(Time)]
  /\ expired \subseteq {"expiry", "payment"} \X Orders \X Time
  /\ pay \in [Attempts -> PayJob]
  /\ initiated \subseteq Attempts
  /\ clock \in Time

OpenOrders == {o \in Orders : order[o].status \in Open}
AttemptsOf(o, S) == {a \in Attempts : OrderOf(a) = o /\ attempt[a] \in S}

\* Whatever the order of checkouts, cancellations, payments, expiries and
\* recounts, the reservations of a product are those of the open orders, each
\* once, and there is stock for all of them.
StockMatchesOrders ==
  \A p \in Products :
    /\ stock[p].reserved = SumOver([o \in Orders |-> Quantity[o][p]], OpenOrders)
    /\ stock[p].reserved <= stock[p].onHand

\* An order that is being paid has exactly one attempt under way, at the stage
\* its status says; no other order has any, so a confirmation can be only of
\* the one attempt the customer was last sent to.  A paid order has exactly one
\* successful attempt.
AttemptsMatchOrder ==
  \A o \in Orders :
    LET s == order[o].status
    IN  /\ Cardinality(AttemptsOf(o, Active)) = IF s \in Paying THEN 1 ELSE 0
        /\ s = "payment_processing" =>
             AttemptsOf(o, {"created", "submitted"}) # {}
        /\ s = "awaiting_payment" => AttemptsOf(o, {"awaiting_payment"}) # {}
        /\ Cardinality(AttemptsOf(o, {"succeeded"})) = IF s = "paid" THEN 1 ELSE 0

\* expireOrder answers a job that came too early without a failure because "the
\* new expiry job stays in the queue" (commands.ts:594-595): every open order
\* has a job for the deadline it has now, whose one execution is not spent.
OpenOrdersHaveExpiry ==
  \A o \in OpenOrders :
    /\ WillRun(expiry[o], order[o].expiresAt)
    /\ <<"expiry", o, order[o].expiresAt>> \notin expired

\* Coupon and money follow the order through every path: what an order that
\* ended unpaid or was refunded took is given back, once, and what it gave is
\* clawed back; nothing is given back of any other; the coupon counts the redemptions that stand, never more
\* than its limit, and the wallet is never overdrawn.
BenefitsMatchOrders ==
  /\ redeemed = Cardinality({o \in Orders : benefit[o].coupon = "active"})
  /\ redeemed <= CouponLimit
  /\ Balance >= 0
  /\ \A o \in Orders :
       LET b == benefit[o]
           given == order[o].status \in {"expired", "cancelled"} \/ Refunded(o)
       IN  /\ given => b.coupon # "active"
           /\ ~given => b.coupon # "reversed"
           /\ "refund" \in b.ledger <=> given /\ "redemption" \in b.ledger
           /\ "order-accrual" \in b.ledger <=>
                order[o].status = "paid" /\ Total(o) > 0

\* An attempt the provider may not have heard of has a job that will tell it,
\* or a dead one the operator sees.
NoAttemptIsForgotten ==
  \A a \in Attempts :
    attempt[a] = "created" => pay[a].state \in {"pending", "running", "dead"}

\* What checkout promises about the goods.
SaleOf(o) ==
  LET status == order[o].status
  IN  CASE status = "none" -> "none"
        [] status \in Open -> "held"
        [] status = "paid" -> IF Refunded(o) THEN "refunded" ELSE "sold"
        [] status \in {"expired", "cancelled"} -> "returned"

Sale == INSTANCE OrderSale WITH
          sale <- [o \in Orders |-> SaleOf(o)],
          free <- [p \in Products |-> stock[p].onHand - stock[p].reserved]

\* The commands keep the promise of OrderSale: held once, then sold or
\* returned, taken back at most once after a sale, and what is free is what no order holds.
ImplementsSale == Sale!Spec

\* An order does not stay open: it is paid, cancelled or expired, unless its
\* expiry job used up its attempts and waits for an operator.
OrdersSettle ==
  \A o \in Orders : order[o].status \in Open ~>
    (order[o].status \in Closed \/ expiry[o].state = "dead")
=============================================================================

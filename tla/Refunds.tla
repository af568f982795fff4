------------------------------ MODULE Refunds ------------------------------
(***************************************************************************)
(* What happens to a paid order afterwards: packages/commerce/refund, rma   *)
(* and shipping, which decide together whether the goods go out, come back  *)
(* and how much money is returned.                                         *)
(*                                                                         *)
(* One order of one line is enough: refunds, shipments and returns of       *)
(* different orders share nothing but the stock.  Shipments and direct      *)
(* refunds are decided under the lock of the order, returns under that of   *)
(* the order (create) or of the case (the rest), results under that of the  *)
(* refund: each command is one step.  What interleaves are the staff, the   *)
(* customer, the payment provider outside every transaction, and the        *)
(* deliveries of the events, which arrive at least once and in any order,   *)
(* as EventDelivery promises; a command that a delivery executes carries    *)
(* the event's id as its idempotency key and takes effect once.  A delivery *)
(* that is refused is tried again, dies and is redriven: it stays.          *)
(***************************************************************************)
EXTENDS Sums

CONSTANTS
  Returns,      \* ids of return cases (RMAs)
  Direct,       \* the claim of a refund without a return
  Sold,         \* units of the order line
  Net,          \* what the line cost after its discounts
  Total,        \* what was paid: the line and the shipping fee
  MaxRetries    \* bound: retries of all the refunds together

ASSUME RefundsAssumption ==
  /\ IsFiniteSet(Returns) /\ Direct \notin Returns
  /\ Sold \in Nat \ {0}
  /\ Net \in Nat /\ Total \in Nat \ {0} /\ Net <= Total
  /\ MaxRetries \in Nat

Claims == {Direct} \cup Returns
Attempts == 1..MaxRetries + 1

VARIABLES
  shipment,    \* none, created, or shipped, arrived or completed as "shipped"
  refund,      \* [Claims -> [status, attempt, amount]], the refund of a claim
  rma,         \* [Returns -> [status, quantity]]
  restocked,   \* units put back on the shelf
  deliveries,  \* event deliveries that are not done
  answers,     \* results of the provider that a worker holds
  paidOut,     \* references the provider has paid: <<claim, attempt>>
  refused      \* references it has rejected

money == <<refund, answers, paidOut, refused>>
goods == <<shipment, rma, restocked>>
afterSale == <<shipment, refund, rma, restocked, deliveries, answers, paidOut,
               refused>>

RefundStatus == {"none", "requested", "succeeded", "failed"}
RmaStatus == {"none", "requested", "needs_information", "approved", "rejected",
              "received", "refund_pending", "refund_failed", "completed"}

\* The subscribers of an event.
Subscribers == [paid |-> {"invoice"}, requested |-> {"refund", "rma"},
                succeeded |-> {"rma", "invoice"}, failed |-> {"rma"}]

Delivery == [event : DOMAIN Subscribers, claim : Claims, attempt : {0} \cup Attempts,
             to : {"refund", "rma", "invoice"}]

\* The deliveries of an event of a refund; that of a direct refund means nothing
\* to the returns.
Published(event, c, n) ==
  {[event |-> event, claim |-> c, attempt |-> n, to |-> s] :
     s \in IF c = Direct THEN Subscribers[event] \ {"rma"} ELSE Subscribers[event]}

RefundsInit ==
  /\ shipment = "none"
  /\ refund = [c \in Claims |-> [status |-> "none", attempt |-> 0, amount |-> 0]]
  /\ rma = [m \in Returns |-> [status |-> "none", quantity |-> 0]]
  /\ restocked = 0
  /\ deliveries = Published("paid", Direct, 0)
  /\ answers = {}
  /\ paidOut = {}
  /\ refused = {}

-----------------------------------------------------------------------------
(***************************************************************************)
(* Staff: shipments and refunds                                            *)
(***************************************************************************)

\* Mutant of CreateShipment: only a completed direct refund stops it.
CreateShipmentUnlessPaidBack ==
  /\ shipment = "none"
  /\ refund[Direct].status # "succeeded"
  /\ shipment' = "created"
  /\ UNCHANGED <<money, rma, restocked, deliveries>>

\* createShipment: once, and not beside a direct refund under way or done.
CreateShipment ==
  /\ shipment = "none"
  /\ refund[Direct].status \notin {"requested", "succeeded"}
  /\ shipment' = "created"
  /\ UNCHANGED <<money, rma, restocked, deliveries>>

\* advanceStage, of the staff or by a carrier's query or callback; a stage that
\* is not later changes nothing.
AdvanceStage ==
  /\ shipment = "created"
  /\ shipment' = "shipped"
  /\ UNCHANGED <<money, rma, restocked, deliveries>>

Request(c, amount) ==
  /\ refund' = [refund EXCEPT ![c] =
       [status |-> "requested", attempt |-> 1, amount |-> amount]]
  /\ deliveries' = deliveries \cup Published("requested", c, 1)

\* requestFullRefund: everything that was paid, before anything is shipped.
RequestFullRefund ==
  /\ shipment = "none"
  /\ refund[Direct].status = "none"
  /\ Request(Direct, Total)
  /\ UNCHANGED <<goods, answers, paidOut, refused>>

Retries ==
  Cardinality({p \in Claims \X Attempts : 1 < p[2] /\ p[2] <= refund[p[1]].attempt})

\* Mutant of RetryRefund: a refund that takes too long is asked for again.
RetryPending(c) ==
  /\ refund[c].status \in {"requested", "failed"}
  /\ c = Direct => shipment = "none"
  /\ Retries < MaxRetries
  /\ refund' = [refund EXCEPT ![c] = [@ EXCEPT !.status = "requested",
                                                !.attempt = refund[c].attempt + 1]]
  /\ deliveries' = deliveries \cup Published("requested", c, refund[c].attempt + 1)
  /\ UNCHANGED <<goods, answers, paidOut, refused>>

\* retryRefund: a new request reference, after a definite rejection only.
RetryRefund(c) ==
  /\ refund[c].status = "failed"
  /\ c = Direct => shipment = "none"
  /\ Retries < MaxRetries
  /\ refund' = [refund EXCEPT ![c] = [@ EXCEPT !.status = "requested",
                                                !.attempt = refund[c].attempt + 1]]
  /\ deliveries' = deliveries \cup Published("requested", c, refund[c].attempt + 1)
  /\ UNCHANGED <<goods, answers, paidOut, refused>>

-----------------------------------------------------------------------------
(***************************************************************************)
(* The subscriber of refund requests, and the payment provider             *)
(***************************************************************************)

\* The provider keeps its answer to a reference: one that is paid stays paid,
\* one that is rejected stays rejected.  Its answer may get lost on the way
\* (transport), after it has paid or before it was asked.
CallProvider(c, n, result) ==
  /\ \E d \in deliveries : d.event = "requested" /\ d.to = "refund"
                           /\ d.claim = c /\ d.attempt = n
  /\ \/ /\ result \in {"succeeded", "lost"} /\ <<c, n>> \notin refused
        /\ paidOut' = paidOut \cup {<<c, n>>}
        /\ UNCHANGED refused
     \/ /\ result = "rejected" /\ <<c, n>> \notin paidOut
        /\ refused' = refused \cup {<<c, n>>}
        /\ UNCHANGED paidOut
  /\ answers' = IF result = "lost" THEN answers
                ELSE answers \cup {[claim |-> c, attempt |-> n, result |-> result]}
  /\ UNCHANGED <<goods, refund, deliveries>>

\* finalizeDirectRefund, in the transaction of the result: the goods never left.
Finalized(c) == restocked + IF c = Direct THEN Sold ELSE 0

\* Mutant of RecordRefundResult: whatever the row says, the answer is the result.
RecordAnyResult(c, n, result) ==
  /\ [claim |-> c, attempt |-> n, result |-> result] \in answers
  /\ answers' = answers \ {[claim |-> c, attempt |-> n, result |-> result]}
  /\ LET status == IF result = "succeeded" THEN "succeeded" ELSE "failed"
     IN  /\ refund' = [refund EXCEPT ![c].status = status]
         /\ restocked' = IF status = "succeeded" THEN Finalized(c) ELSE restocked
         /\ deliveries' = deliveries \cup Published(status, c, n)
  /\ UNCHANGED <<shipment, rma, paidOut, refused>>

\* recordRefundResult: only of the reference the row waits for.  The delivery is
\* done, or the worker has lost its claim and it is run again.
RecordRefundResult(c, n, result) ==
  LET d == [event |-> "requested", claim |-> c, attempt |-> n, to |-> "refund"]
      status == IF result = "succeeded" THEN "succeeded" ELSE "failed"
      current == refund[c].attempt = n
      applies == current /\ refund[c].status = "requested"
  IN  /\ [claim |-> c, attempt |-> n, result |-> result] \in answers
      /\ answers' = answers \ {[claim |-> c, attempt |-> n, result |-> result]}
      /\ refund' = IF applies THEN [refund EXCEPT ![c].status = status] ELSE refund
      /\ restocked' = IF applies /\ status = "succeeded" THEN Finalized(c)
                                                         ELSE restocked
      /\ \E open \in {deliveries} \cup (IF current THEN {deliveries \ {d}} ELSE {}) :
           deliveries' = open \cup IF applies THEN Published(status, c, n) ELSE {}
      /\ UNCHANGED <<shipment, rma, paidOut, refused>>

\* The worker that holds the answer dies.
LoseAnswer(a) ==
  /\ a \in answers
  /\ answers' = answers \ {a}
  /\ UNCHANGED <<goods, refund, deliveries, paidOut, refused>>

-----------------------------------------------------------------------------
(***************************************************************************)
(* Return cases                                                            *)
(***************************************************************************)

\* claimedQuantity: what a rejected case asked for can be asked for again.
Claiming == {m \in Returns : rma[m].status \notin {"none", "rejected"}}
Claimed == SumOver([m \in Returns |-> rma[m].quantity], Claiming)

\* Mutant of CreateRma: the quantity is compared with the line, not with what
\* other cases leave of it.
CreateRmaOfLine(m, q) ==
  /\ rma[m].status = "none"
  /\ shipment = "shipped"
  /\ q <= Sold
  /\ rma' = [rma EXCEPT ![m] = [status |-> "requested", quantity |-> q]]
  /\ UNCHANGED <<money, shipment, restocked, deliveries>>

\* createRma: of goods the carrier has, and no unit twice.
CreateRma(m, q) ==
  /\ rma[m].status = "none"
  /\ shipment = "shipped"
  /\ q + Claimed <= Sold
  /\ rma' = [rma EXCEPT ![m] = [status |-> "requested", quantity |-> q]]
  /\ UNCHANGED <<money, shipment, restocked, deliveries>>

Decisions == ({"requested", "needs_information"} \X {"approved", "rejected"})
             \cup ({"requested", "approved"} \X {"needs_information"})
             \cup {<<"approved", "rejected">>}

\* approveRma, requestInformation and rejectRma.
Decide(m, from, to) ==
  /\ <<from, to>> \in Decisions
  /\ rma[m].status = from
  /\ rma' = [rma EXCEPT ![m].status = to]
  /\ UNCHANGED <<money, shipment, restocked, deliveries>>

\* receiveRma: each unit is put back or discarded.
ReceiveRma(m, restock) ==
  /\ rma[m].status = "approved"
  /\ restocked' = restocked + IF restock THEN rma[m].quantity ELSE 0
  /\ rma' = [rma EXCEPT ![m].status = "received"]
  /\ UNCHANGED <<money, shipment, deliveries>>

\* The share of the line, rounded down.
Refundable(q) == (Net * q) \div Sold

\* requestRefund: for goods that have been received.
RequestRmaRefund(m) ==
  /\ rma[m].status = "received"
  /\ Refundable(rma[m].quantity) > 0
  /\ rma' = [rma EXCEPT ![m].status = "refund_pending"]
  /\ Request(m, Refundable(rma[m].quantity))
  /\ UNCHANGED <<shipment, restocked, answers, paidOut, refused>>

RmaIs(m, status) == rma' = [rma EXCEPT ![m].status = status]

\* Mutant of RmaRefundRequested: any request reopens a case that failed, also the
\* first one, that comes late.
ReopenOnAnyRequest(d) ==
  /\ d \in deliveries /\ d.to = "rma" /\ d.event = "requested"
  /\ rma[d.claim].status \in {"refund_failed", "refund_pending"}
  /\ RmaIs(d.claim, "refund_pending")
  /\ deliveries' = deliveries \ {d}
  /\ UNCHANGED <<money, shipment, restocked>>

\* recordRefundRequested: a retry of the refund reopens the case.
RmaRefundRequested(d) ==
  /\ d \in deliveries /\ d.to = "rma" /\ d.event = "requested"
  /\ \/ rma[d.claim].status = "refund_failed" /\ d.attempt > 1
        /\ RmaIs(d.claim, "refund_pending")
     \/ rma[d.claim].status = "refund_failed" /\ d.attempt = 1 /\ UNCHANGED rma
     \/ rma[d.claim].status = "refund_pending" /\ UNCHANGED rma
  /\ deliveries' = deliveries \ {d}
  /\ UNCHANGED <<money, shipment, restocked>>

\* recordRefundResult of the case; a result that does not fit is refused.
RmaRefundResult(d) ==
  /\ d \in deliveries /\ d.to = "rma" /\ d.event \in {"succeeded", "failed"}
  /\ LET to == IF d.event = "succeeded" THEN "completed" ELSE "refund_failed"
     IN  \/ rma[d.claim].status = "refund_pending" /\ RmaIs(d.claim, to)
         \/ rma[d.claim].status = to /\ UNCHANGED rma
  /\ deliveries' = deliveries \ {d}
  /\ UNCHANGED <<money, shipment, restocked>>

-----------------------------------------------------------------------------
ClaimStep(c) ==
  \/ RetryRefund(c)
  \/ \E n \in Attempts :
       \/ \E result \in {"succeeded", "lost", "rejected"} : CallProvider(c, n, result)
       \/ \E result \in {"succeeded", "rejected"} : RecordRefundResult(c, n, result)

RmaStep(m) ==
  \/ \E q \in 1..Sold : CreateRma(m, q)
  \/ \E from, to \in RmaStatus : Decide(m, from, to)
  \/ \E restock \in BOOLEAN : ReceiveRma(m, restock)
  \/ RequestRmaRefund(m)

RefundsNext ==
  \/ CreateShipment \/ AdvanceStage \/ RequestFullRefund
  \/ \E c \in Claims : ClaimStep(c)
  \/ \E m \in Returns : RmaStep(m)
  \/ \E a \in answers : LoseAnswer(a)
  \/ \E d \in deliveries : RmaRefundRequested(d) \/ RmaRefundResult(d)

RefundsSpec == RefundsInit /\ [][RefundsNext]_afterSale

-----------------------------------------------------------------------------
(***************************************************************************)
(* What is checked                                                         *)
(***************************************************************************)

RefundsTypeOK ==
  /\ shipment \in {"none", "created", "shipped"}
  /\ refund \in [Claims -> [status : RefundStatus, attempt : {0} \cup Attempts,
                            amount : 0..Total]]
  /\ rma \in [Returns -> [status : RmaStatus, quantity : 0..Sold]]
  /\ restocked \in Nat
  /\ deliveries \subseteq Delivery
  /\ answers \subseteq [claim : Claims, attempt : Attempts,
                        result : {"succeeded", "rejected"}]
  /\ paidOut \subseteq Claims \X Attempts
  /\ refused \subseteq Claims \X Attempts

\* The money that left is what the refunds say, and never more than was paid:
\* no claim is paid under two references, whatever was retried, redelivered or
\* lost; a refund that succeeded was paid, one that failed was not; and the
\* claims together do not give back more than the order cost.
MoneyGoesBackOnce ==
  /\ \A c \in Claims :
       LET paid == {n \in Attempts : <<c, n>> \in paidOut}
       IN  /\ paid \subseteq {refund[c].attempt}
           /\ refund[c].status = "succeeded" => paid # {}
           /\ refund[c].status \in {"none", "failed"} => paid = {}
  /\ SumOver([p \in Claims \X Attempts |-> refund[p[1]].amount], paidOut) <= Total

\* Before the shipment a direct refund, after it a return, never both: nothing is
\* shipped while a direct refund is under way or done, and no return pays back
\* what a direct refund already has.
ShipOrRefund ==
  refund[Direct].status \in {"requested", "succeeded"} =>
    shipment = "none" /\ \A m \in Returns : refund[m].status = "none"

\* A unit comes back once: by the direct refund, or by the one return that
\* claims it, never both, and never more units than were sold.
GoodsComeBackOnce == restocked <= Sold /\ Claimed <= Sold

\* The case follows the refund and is never ahead of it: it is closed as refunded
\* only when the money has gone back, and it waits for the money or says it
\* failed only beside a refund of its own.
CaseFollows ==
  \A m \in Returns :
    /\ rma[m].status = "completed" => refund[m].status = "succeeded"
    /\ refund[m].status = "none" <=>
         rma[m].status \notin {"refund_pending", "refund_failed", "completed"}

\* What a case says when it has heard what its refund says.
Saying == [none |-> "none", requested |-> "refund_pending",
           failed |-> "refund_failed", succeeded |-> "completed"]
CaseSays(m) == rma[m].status = Saying[refund[m].status]

\* The delivery that tells the case what its refund says.
News(m) == [event |-> refund[m].status, claim |-> m, attempt |-> refund[m].attempt,
            to |-> "rma"]

\* A success is with the case or on its way; and of a refund that was asked for
\* once, so is whatever it says, to a case that will take it.
CaseHears(m) ==
  /\ refund[m].status = "succeeded" => CaseSays(m) \/ News(m) \in deliveries
  /\ refund[m].attempt = 1 =>
       CaseSays(m) \/ (rma[m].status = "refund_pending" /\ News(m) \in deliveries)

\* The case follows the refund, and what the refund says is not lost on it,
\* however late, twice or out of order the events arrive.  Money that has gone
\* back is never forgotten: the case is completed, or the delivery that says so
\* has still to be taken.  And as long as the refund was asked for once, a case
\* that does not say what the refund says waits for the money, and the delivery
\* that will put it right is under way: no late request reopens it, and none of
\* its results is refused.
CaseMatchesRefund == CaseFollows /\ \A m \in Returns : CaseHears(m)

\* A delivery that its case would take, whether or not it changes it.
Fits(d) ==
  LET status == rma[d.claim].status
  IN  \/ status = "refund_pending"
      \/ status = "refund_failed" /\ d.event \in {"requested", "failed"}
      \/ status = "completed" /\ d.event = "succeeded"

\* What the documents say and the code does not do, once a refund is retried: a
\* case that has taken every delivery it can take says what its refund says.  The
\* failure of the first attempt may arrive after the request of the second, and
\* closes the case to the success that follows.
ResultsReachCase ==
  \A m \in Returns :
    \/ refund[m].status = "none" \/ CaseSays(m)
    \/ \E d \in deliveries : d.to = "rma" /\ d.claim = m /\ Fits(d)
=============================================================================

----------------------------- MODULE AfterSale -----------------------------
(***************************************************************************)
(* Refunds, returns, the shipment and the invoice of one order together.    *)
(* They meet in the deliveries of the outbox alone: the order's payment     *)
(* makes the invoice, the success of a refund voids it and closes the       *)
(* return case.  Nothing orders these deliveries.                          *)
(***************************************************************************)
EXTENDS Invoices

vars == <<shipment, refund, rma, restocked, deliveries, answers, paidOut,
          refused, invoice, issueJob, voidJob, runs, register>>

Init == RefundsInit /\ InvoicesInit

Next == (RefundsNext /\ UNCHANGED invoicing) \/ InvoicesNext

Spec == Init /\ [][Next]_vars

-----------------------------------------------------------------------------
TypeOK == RefundsTypeOK /\ InvoicesTypeOK

PaidBackInFull ==
  \E c \in Claims : refund[c].status = "succeeded" /\ refund[c].amount = Total

\* The invoice does not lie about the money or about the register: it is on its
\* way to be voided, or voided there, only when the whole payment went back; it
\* is called issued only when the register has it and nobody has voided it
\* there, and voided only when the register says so.  Late, lost and repeated
\* answers of both jobs do not break that.
InvoiceMatchesRegister ==
  /\ invoice \in {"void_pending", "voided", "void_failed"} \/ register.voided =>
       PaidBackInFull /\ register.issued
  /\ invoice = "issued" => register.issued /\ ~register.voided
  /\ invoice = "voided" => register.voided

-----------------------------------------------------------------------------
(***************************************************************************)
(* What the documents say and the code does not do                         *)
(***************************************************************************)

\* docs/research/66-ecpay-invoice-stage-contract.md: "A successful full refund
\* must void the invoice."  When every delivery is done and no job is left, an
\* order that was paid back in full has no valid invoice.
FullRefundVoids ==
  deliveries = {} /\ PaidBackInFull => invoice # "issued"
=============================================================================

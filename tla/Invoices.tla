----------------------------- MODULE Invoices -----------------------------
(***************************************************************************)
(* The invoice of a paid order, packages/commerce/invoice: issued when the  *)
(* order is paid, voided when it is refunded in full.  The commands run     *)
(* under the lock of the invoice row.  The two jobs call the provider       *)
(* outside any transaction, at least once, and a run may outlive its claim; *)
(* here a job is open while the queue will run it, done or dead.            *)
(***************************************************************************)
EXTENDS Refunds

VARIABLES
  invoice,    \* status of the row
  issueJob,   \* invoice:issue:<id>
  voidJob,    \* invoice:void:<id>
  runs,       \* <<job, "calling" or the provider's answer>> of the jobs' runs
  register    \* what the provider has on its books

jobs == <<issueJob, voidJob>>
invoicing == <<invoice, issueJob, voidJob, runs, register>>

InvoiceStatus == {"none", "pending", "issued", "issue_failed", "void_pending",
                  "voided", "void_failed"}
JobState == {"none", "open", "done", "dead"}

InvoicesInit ==
  /\ invoice = "none"
  /\ issueJob = "none"
  /\ voidJob = "none"
  /\ runs = {}
  /\ register = [issued |-> FALSE, voided |-> FALSE]

-----------------------------------------------------------------------------
\* queueIssue, by the order's paid event.
QueueIssue(d) ==
  /\ d \in deliveries /\ d.to = "invoice" /\ d.event = "paid"
  /\ deliveries' = deliveries \ {d}
  /\ invoice = "none"
  /\ invoice' = "pending"
  /\ issueJob' = "open"
  /\ UNCHANGED <<money, goods, voidJob, runs, register>>

\* Mutant of QueueVoid: any refund voids the invoice.
QueueVoidAny(d) ==
  /\ d \in deliveries /\ d.to = "invoice" /\ d.event = "succeeded"
  /\ deliveries' = deliveries \ {d}
  /\ IF invoice = "issued"
     THEN invoice' = "void_pending" /\ voidJob' = "open"
     ELSE UNCHANGED <<invoice, voidJob>>
  /\ UNCHANGED <<money, goods, issueJob, runs, register>>

\* queueVoid, by a refund's success: of the full amount, and of an invoice that
\* has been issued; else the delivery is done and nothing is.
QueueVoid(d) ==
  /\ d \in deliveries /\ d.to = "invoice" /\ d.event = "succeeded"
  /\ deliveries' = deliveries \ {d}
  /\ IF refund[d.claim].amount = Total /\ invoice = "issued"
     THEN invoice' = "void_pending" /\ voidJob' = "open"
     ELSE UNCHANGED <<invoice, voidJob>>
  /\ UNCHANGED <<money, goods, issueJob, runs, register>>

\* retryIssue and retryVoid of an operator, on the one job the invoice owns.
RetryIssue ==
  /\ invoice \in {"pending", "issue_failed"}
  /\ issueJob' = "open"
  /\ UNCHANGED <<afterSale, invoice, voidJob, runs, register>>

RetryVoid ==
  /\ invoice \in {"void_pending", "void_failed"}
  /\ invoice' = "void_pending"
  /\ voidJob' = "open"
  /\ UNCHANGED <<afterSale, issueJob, runs, register>>

-----------------------------------------------------------------------------
(***************************************************************************)
(* The jobs                                                                *)
(***************************************************************************)

\* A run of the job reads the row first; what it does then may be late.
StartIssue ==
  /\ issueJob = "open"
  /\ invoice \in {"pending", "issue_failed", "void_failed"}
  /\ runs' = runs \cup {<<"issue", "calling">>}
  /\ UNCHANGED <<afterSale, invoice, jobs, register>>

\* Mutant of StartVoid: the job does not look at the row.
StartVoidBlindly ==
  /\ voidJob = "open" \/ issueJob = "open"
  /\ runs' = runs \cup {<<"void", "calling">>}
  /\ UNCHANGED <<afterSale, invoice, jobs, register>>

StartVoid ==
  /\ voidJob = "open"
  /\ invoice = "void_pending"
  /\ runs' = runs \cup {<<"void", "calling">>}
  /\ UNCHANGED <<afterSale, invoice, jobs, register>>

\* The call.  The provider knows the reference: it can say yes or no whatever it
\* has on its books, and its answer can get lost.  Another run of the job may
\* still be about to call.
Answered(job, answer) ==
  /\ <<job, "calling">> \in runs
  /\ \E left \in {runs, runs \ {<<job, "calling">>}} :
       runs' = left \cup (IF answer = "lost" THEN {} ELSE {<<job, answer>>})

CallIssue(answer) ==
  /\ Answered("issue", answer)
  /\ register' = [register EXCEPT !.issued = @ \/ answer \in {"yes", "lost"}]
  /\ UNCHANGED <<afterSale, invoice, jobs>>

CallVoid(answer) ==
  /\ Answered("void", answer)
  /\ register' = [register EXCEPT !.voided = @ \/ answer \in {"yes", "lost"}]
  /\ UNCHANGED <<afterSale, invoice, jobs>>

\* The run finds that nothing is left to do, or that it must not.
SkipIssue ==
  /\ issueJob = "open"
  /\ invoice \in {"issued", "void_pending", "voided"}
  /\ issueJob' = "done"
  /\ UNCHANGED <<afterSale, invoice, voidJob, runs, register>>

SkipVoid ==
  /\ voidJob = "open"
  /\ invoice # "void_pending"
  /\ voidJob' = IF invoice = "voided" THEN "done" ELSE "dead"
  /\ UNCHANGED <<afterSale, invoice, issueJob, runs, register>>

\* A run that failed: it is tried again until its attempts are used up.
Failed(job) == job' \in {job, "dead"}

\* recordIssue: an issued invoice stays issued, and a late failure of another
\* run is refused.
RecordIssue(answer) ==
  /\ <<"issue", answer>> \in runs
  /\ runs' = runs \ {<<"issue", answer>>}
  /\ IF invoice \in {"pending", "issue_failed"}
     THEN invoice' = IF answer = "yes" THEN "issued" ELSE "issue_failed"
     ELSE UNCHANGED invoice
  /\ IF answer = "yes" /\ invoice \in {"pending", "issue_failed", "issued"}
     THEN issueJob' \in {issueJob, "done"} ELSE Failed(issueJob)
  /\ UNCHANGED <<afterSale, voidJob, register>>

\* recordVoid, in the same way.
RecordVoid(answer) ==
  /\ <<"void", answer>> \in runs
  /\ runs' = runs \ {<<"void", answer>>}
  /\ IF invoice \in {"void_pending", "void_failed"}
     THEN invoice' = IF answer = "yes" THEN "voided" ELSE "void_failed"
     ELSE UNCHANGED invoice
  /\ IF answer = "yes" THEN voidJob' \in {voidJob, "done"} ELSE Failed(voidJob)
  /\ UNCHANGED <<afterSale, issueJob, register>>

\* A run dies, with or without the provider's answer.
LoseRun(r) ==
  /\ r \in runs
  /\ runs' = runs \ {r}
  /\ UNCHANGED <<afterSale, invoice, jobs, register>>

JobDies ==
  /\ \/ issueJob = "open" /\ issueJob' = "dead" /\ UNCHANGED voidJob
     \/ voidJob = "open" /\ voidJob' = "dead" /\ UNCHANGED issueJob
  /\ UNCHANGED <<afterSale, invoice, runs, register>>

-----------------------------------------------------------------------------
InvoicesNext ==
  \/ \E d \in deliveries : QueueIssue(d) \/ QueueVoid(d)
  \/ RetryIssue \/ RetryVoid \/ StartIssue \/ StartVoid \/ SkipIssue \/ SkipVoid \/ JobDies
  \/ \E answer \in {"yes", "no", "lost"} : CallIssue(answer) \/ CallVoid(answer)
  \/ \E answer \in {"yes", "no"} : RecordIssue(answer) \/ RecordVoid(answer)
  \/ \E r \in runs : LoseRun(r)

InvoicesTypeOK ==
  /\ invoice \in InvoiceStatus
  /\ issueJob \in JobState
  /\ voidJob \in JobState
  /\ runs \subseteq {"issue", "void"} \X {"calling", "yes", "no"}
  /\ register \in [issued : BOOLEAN, voided : BOOLEAN]
=============================================================================

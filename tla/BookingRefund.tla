---------------------------- MODULE BookingRefund ----------------------------
(***************************************************************************)
(* How the refunds a Booking reservation owes are carried out: the header,  *)
(* the evidence of every call to the provider, the job of each generation   *)
(* of a refund and the hourly reconciliation that repairs what a crash left *)
(* behind (packages/booking/reservation: refunds.ts, jobs.ts).              *)
(*                                                                         *)
(* The commands lock the header, so each is one step.  The job reads the    *)
(* header and the number of its call in one query, calls the provider       *)
(* outside every transaction, and records the answer in a command of its    *)
(* own, under an idempotency key of refund, generation and number.          *)
(* Between these steps other runs of the same refund act: a worker that     *)
(* stalls loses its lease and goes on beside its successor, the operator    *)
(* retries, the reconciliation enqueues again.                              *)
(*                                                                         *)
(* The job rows are those of QueueRow; a run is told apart by its job while *)
(* it holds its claim, and by the stall that took the claim from then on.   *)
(***************************************************************************)
EXTENDS QueueRow, FiniteSets, FiniteSetsExt

CONSTANTS
  Refunds,         \* 1..n, in the order in which they are requested
  Batch,           \* refunds a reconciliation takes, the limit of its query
  MaxGenerations,  \* bound: [Refunds -> Nat], generations of a refund
  MaxRuns,         \* runs the workers have room for
  MaxFaults        \* bound: crashes, stalls, failed transactions and
                   \* reconciliations that come too early

ASSUME BookingRefundAssumption ==
  /\ Refunds \subseteq Nat \ {0}
  /\ Batch \in Nat \ {0}
  /\ MaxGenerations \in [Refunds -> Nat \ {0}]
  /\ MaxRuns \in Nat \ {0}
  /\ MaxFaults \in Nat

Generations == UNION {1..MaxGenerations[r] : r \in Refunds}

VARIABLES
  refund,    \* [Refunds -> [status, generation]], the header
  evidence,  \* rows of booking_reservation_refund_invocations
  recorded,  \* idempotency rows of recordRefundInvocation
  job,       \* [Refunds -> [Generations -> row]], refund:<id>:<generation>
  runs,      \* runs of the jobs in the workers; stall: which fault took the
             \* claim of the run, 0 while it holds it
  faults     \* counts up to MaxFaults

vars == <<refund, evidence, recorded, job, runs, faults>>

-----------------------------------------------------------------------------
\* The answers of a provider that settle a refund; "unsupported" is treated as
\* "rejected" is, to the last line.
Answers == {"succeeded", "rejected"}

Init ==
  /\ refund = [r \in Refunds |-> [status |-> "none", generation |-> 0]]
  /\ evidence = {}
  /\ recorded = {}
  /\ job = [r \in Refunds |-> [g \in Generations |-> NoJob]]
  /\ runs = {}
  /\ faults = 0

\* The numbers of the calls recorded for a generation.
Numbers(r, g) == {e.n : e \in {x \in evidence : x.refund = r /\ x.generation = g}}

Fault == faults < MaxFaults /\ faults' = faults + 1

-----------------------------------------------------------------------------
(***************************************************************************)
(* Commands: a refund falls due, the operator retries it, and the hour      *)
(***************************************************************************)

\* createRequiredBookingReservationRefund: once for a payment.
RequestRefund(r) ==
  /\ refund[r].status = "none"
  /\ \A q \in Refunds : q < r => refund[q].status # "none"
  /\ refund' = [refund EXCEPT ![r] = [status |-> "pending", generation |-> 1]]
  /\ job' = [job EXCEPT ![r][1] = Due]
  /\ UNCHANGED <<evidence, recorded, runs, faults>>

\* retryRefund: a failed refund starts a generation with a job of its own.
RetryRefund(r) ==
  LET g == refund[r].generation + 1
  IN  /\ refund[r].status = "failed"
      /\ g <= MaxGenerations[r]
      /\ refund' = [refund EXCEPT ![r] = [status |-> "pending", generation |-> g]]
      /\ job' = [job EXCEPT ![r][g] = Due]
      /\ UNCHANGED <<evidence, recorded, runs, faults>>

\* listPendingRefunds: the oldest of the pending ones.
Listed ==
  LET Pending == {r \in Refunds : refund[r].status = "pending"}
  IN  {r \in Pending : Cardinality({q \in Pending : q < r}) < Batch}

\* The five attempts of a job take about a minute and the reconciliation comes
\* every hour: one that finds a job on its way is a fault of the timing.
AtAnEnd(j) == j.state \in {"none", "dead", "done"}

\* reconcileRefunds.
Reconcile ==
  LET Job(r) == job[r][refund[r].generation]
  IN  /\ Listed # {}
      /\ IF \A r \in Listed : AtAnEnd(Job(r)) THEN UNCHANGED faults ELSE Fault
      /\ job' = [r \in Refunds |->
           IF r \in Listed
           THEN [job[r] EXCEPT ![refund[r].generation] = Enqueued(@)]
           ELSE job[r]]
      /\ UNCHANGED <<refund, evidence, recorded, runs>>

-----------------------------------------------------------------------------
(***************************************************************************)
(* The queue, as this component sees it                                    *)
(***************************************************************************)

Holds(u) == u.stall = 0
Holders(r, g) == {u \in runs : Holds(u) /\ u.refund = r /\ u.generation = g}

Claim(r, g) ==
  /\ job[r][g].state = "pending"
  /\ Cardinality(runs) < MaxRuns
  /\ job' = [job EXCEPT ![r][g] = Claimed(@)]
  /\ runs' = runs \cup {[refund |-> r, generation |-> g, stage |-> "claimed",
                         attempt |-> job[r][g].attempts + 1, n |-> 0,
                         stall |-> 0]}
  /\ UNCHANGED <<refund, evidence, recorded, faults>>

\* The run is over: the job is completed, retried or dead.  A run that has lost
\* its claim changes nothing.
End(u) ==
  /\ u.stage \in {"done", "thrown", "permanent"}
  /\ runs' = runs \ {u}
  /\ job' = IF ~Holds(u) THEN job
            ELSE [job EXCEPT ![u.refund][u.generation] =
                    IF u.stage = "done" THEN Completed(@)
                    ELSE Failed(@, u.stage = "permanent")]
  /\ UNCHANGED <<refund, evidence, recorded, faults>>

\* The process dies; what it told the provider stays told.  A run that throws
\* because the database fails every command of it leaves the same behind.
Crash(u) ==
  /\ Fault
  /\ runs' = runs \ {u}
  /\ UNCHANGED <<refund, evidence, recorded, job>>

\* reclaimStale: the lease ran out.  A worker that still runs has stalled, and
\* goes on without its claim.
Reclaim(r, g) ==
  /\ job[r][g].state = "running"
  /\ IF Holders(r, g) # {} THEN Fault ELSE UNCHANGED faults
  /\ runs' = (runs \ Holders(r, g)) \cup {[u EXCEPT !.stall = faults'] : u \in Holders(r, g)}
  /\ job' = [job EXCEPT ![r][g] = Failed(@, FALSE)]
  /\ UNCHANGED <<refund, evidence, recorded>>

-----------------------------------------------------------------------------
(***************************************************************************)
(* One run of the job                                                      *)
(***************************************************************************)

Becomes(u, v) == runs' = (runs \ {u}) \cup {v}
Goes(u, stage) == Becomes(u, [u EXCEPT !.stage = stage])

\* What a run that has said all has still to report: "done", "thrown" or
\* "permanent".
Ends(u, stage) == Becomes(u, [u EXCEPT !.stage = stage, !.attempt = 0, !.n = 0])

\* Mutants of Current: the generation is not compared; the status is not.
CurrentIfPending(u) == refund[u.refund].status = "pending"
CurrentIfSameGeneration(u) == refund[u.refund].generation = u.generation

\* Whether the refund still waits for this generation: what the query asks, and
\* the command again under the lock of the header.
Current(u) == refund[u.refund] = [status |-> "pending", generation |-> u.generation]

\* getRefundForProcessing: nothing to do, or the number of the next call.
Preflight(u) ==
  /\ u.stage = "claimed"
  /\ IF Current(u)
     THEN Becomes(u, [u EXCEPT !.stage = "calling",
                               !.n = Max({0} \cup Numbers(u.refund, u.generation)) + 1])
     ELSE Ends(u, "done")
  /\ UNCHANGED <<refund, evidence, recorded, job, faults>>

\* provider.refund, which knows a refund by its stable reference, answers.
Call(u) ==
  /\ u.stage = "calling"
  /\ \E answer \in Answers : Goes(u, answer)
  /\ UNCHANGED <<refund, evidence, recorded, job, faults>>

\* The call fails, or its answer is none the command accepts; the provider may
\* have paid all the same, and say so when it is asked again.
CallLost(u) ==
  /\ u.stage = "calling"
  /\ Goes(u, "lost")
  /\ UNCHANGED <<refund, evidence, recorded, job, faults>>

\* The provider configured now is not the one that took the payment: the
\* generation ends without a call.
ProviderMismatch(u) ==
  /\ u.stage = "calling"
  /\ Goes(u, "mismatch")
  /\ UNCHANGED <<refund, evidence, recorded, job, faults>>

\* The transaction of the answer fails: the run goes on as if the call had.
RecordFails(u) ==
  /\ u.stage \in Answers
  /\ Fault
  /\ Goes(u, "lost")
  /\ UNCHANGED <<refund, evidence, recorded, job>>

\* The idempotency keys of recordRefundInvocation: one for the answer, one for
\* the uncertainty and one for the mismatch of a call; a row keeps what it said.
Key(u, kind, says) == [refund |-> u.refund, generation |-> u.generation, n |-> u.n,
                       kind |-> kind, says |-> says]
Keys(u, kind) == {k \in recorded : /\ k.refund = u.refund
                                   /\ k.generation = u.generation
                                   /\ k.n = u.n /\ k.kind = kind}

\* The evidence, and the header unless more attempts follow.
Recorded(u, outcome, status) ==
  /\ evidence' = evidence \cup
       {[refund |-> u.refund, generation |-> u.generation, n |-> u.n,
         outcome |-> outcome]}
  /\ refund' = IF status = "pending" THEN refund
               ELSE [refund EXCEPT ![u.refund].status = status]

\* The command takes effect under its key, finds nothing to do, or is a replay.
Records(u, kind, says, outcome, status) ==
  \/ /\ Key(u, kind, says) \in recorded
     /\ UNCHANGED <<recorded, evidence, refund>>
  \/ /\ Keys(u, kind) = {}
     /\ Current(u) => u.n \notin Numbers(u.refund, u.generation)
     /\ recorded' = recorded \cup {Key(u, kind, says)}
     /\ IF Current(u) THEN Recorded(u, outcome, status)
                      ELSE UNCHANGED <<evidence, refund>>

\* The key was used for another answer, or the number for another call.
Refused(u, kind, says) ==
  \/ Keys(u, kind) # {} /\ Key(u, kind, says) \notin recorded
  \/ /\ Keys(u, kind) = {}
     /\ Current(u) /\ u.n \in Numbers(u.refund, u.generation)

\* The answer of the provider; when it is refused, the run goes on as if the
\* call had failed.
Record(u) ==
  /\ u.stage \in Answers
  /\ \/ /\ Records(u, "result", u.stage, u.stage,
                   IF u.stage = "succeeded" THEN "succeeded" ELSE "failed")
        /\ Ends(u, "done")
     \/ /\ Refused(u, "result", u.stage)
        /\ Goes(u, "lost")
        /\ UNCHANGED <<recorded, evidence, refund>>
  /\ UNCHANGED <<job, faults>>

\* The catch of the job: the call is recorded as uncertain, for good on the last
\* attempt, and the job fails either way.
RecordUncertain(u) ==
  LET final == u.attempt >= MaxAttempts
      says == IF final THEN "final" ELSE "more"
  IN  /\ u.stage = "lost"
      /\ \/ Records(u, "uncertain", says, "indeterminate",
                    IF final THEN "failed" ELSE "pending")
         \/ /\ Refused(u, "uncertain", says)
            /\ UNCHANGED <<recorded, evidence, refund>>
      /\ Ends(u, "thrown")
      /\ UNCHANGED <<job, faults>>

\* The record of a mismatch is outside the try: refused, it fails the job for
\* another attempt.
RecordMismatch(u) ==
  /\ u.stage = "mismatch"
  /\ \/ /\ Records(u, "mismatch", "final", "indeterminate", "failed")
        /\ Ends(u, "permanent")
     \/ /\ Refused(u, "mismatch", "final")
        /\ Ends(u, "thrown")
        /\ UNCHANGED <<recorded, evidence, refund>>
  /\ UNCHANGED <<job, faults>>

-----------------------------------------------------------------------------
Step(u) == \/ Preflight(u) \/ Call(u) \/ CallLost(u) \/ ProviderMismatch(u)
           \/ Record(u) \/ RecordUncertain(u) \/ RecordMismatch(u) \/ End(u)

Next ==
  \/ \E r \in Refunds : RequestRefund(r) \/ RetryRefund(r)
  \/ Reconcile
  \/ \E r \in Refunds, g \in Generations : Claim(r, g) \/ Reclaim(r, g)
  \/ \E u \in runs : Step(u) \/ Crash(u) \/ RecordFails(u)

\* Some run goes on, a worker that has room claims what is due, a lease whose
\* worker is gone runs out, and the schedule fires every hour.
Fairness ==
  /\ WF_vars(\E u \in runs : Step(u))
  /\ WF_vars(\E r \in Refunds, g \in Generations : Claim(r, g))
  /\ WF_vars(\E r \in Refunds, g \in Generations : Holders(r, g) = {} /\ Reclaim(r, g))
  /\ WF_vars(Reconcile)

Spec == Init /\ [][Next]_vars /\ Fairness

-----------------------------------------------------------------------------
Run == [refund : Refunds, generation : Generations,
        stage : Answers \cup {"claimed", "calling", "lost", "mismatch",
                              "done", "thrown", "permanent"},
        attempt : Nat, n : Nat, stall : 0..MaxFaults]

TypeOK ==
  /\ refund \in [Refunds -> [status : {"none", "pending", "succeeded", "failed"},
                             generation : {0} \cup Generations]]
  /\ evidence \subseteq
       [refund : Refunds, generation : Generations, n : Nat,
        outcome : Answers \cup {"indeterminate"}]
  /\ job \in [Refunds -> [Generations -> Row]]
  /\ runs \subseteq Run /\ Cardinality(runs) <= MaxRuns
  /\ faults \in 0..MaxFaults

Evidence(r, g) == {e \in evidence : e.refund = r /\ e.generation = g}

\* The evidence of a generation is numbered without gap or repetition, and only
\* its last row can be an answer.
Orderly(E) ==
  /\ {e.n : e \in E} = 1..Cardinality(E)
  /\ \A e \in E : e.n < Cardinality(E) => e.outcome = "indeterminate"

LastSays(E, outcomes) == \E e \in E : e.n = Cardinality(E) /\ e.outcome \in outcomes

\* The header tells what the evidence tells: a pending refund has no answer in
\* its generation, a settled one has the answer that settled it last, and every
\* earlier generation ended in a failure, whatever runs of it arrive late.
EvidenceMatchesHeader ==
  \A r \in Refunds :
    LET h == refund[r]
    IN  /\ \A g \in Generations :
             /\ Orderly(Evidence(r, g))
             /\ g < h.generation =>
                  LastSays(Evidence(r, g), {"rejected", "indeterminate"})
             /\ g > h.generation => Evidence(r, g) = {}
        /\ h.status = "pending" => ~LastSays(Evidence(r, h.generation), Answers)
        /\ h.status = "succeeded" =>
             LastSays(Evidence(r, h.generation), {"succeeded"})
        /\ h.status = "failed" =>
             LastSays(Evidence(r, h.generation), {"rejected", "indeterminate"})

\* What is settled stays as it is unless the operator retries a failure, which
\* is a new generation: no late answer rewrites the outcome, and no evidence is
\* changed or taken back.
OutcomeIsKept ==
  [][/\ evidence \subseteq evidence'
     /\ \A r \in Refunds :
          refund'[r] # refund[r] =>
            \/ refund[r].status \in {"none", "pending"}
            \/ /\ refund[r].status = "failed" /\ refund'[r].status = "pending"
               /\ refund'[r].generation = refund[r].generation + 1]_vars

\* Every refund that is owed is decided, although the provider may never answer,
\* jobs die with their worker and a reconciliation takes only the oldest.
RefundIsDecided ==
  \A r \in Refunds :
    refund[r].status = "pending" ~> refund[r].status \in {"succeeded", "failed"}
=============================================================================

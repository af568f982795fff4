---------------------------- MODULE DeadlineJob ----------------------------
(***************************************************************************)
(* The row of the queue that carries one deadline, such as order:expire:<id>*)
(* or booking-reservation:expire:<id>: what JobQueue does to the row of a  *)
(* dedupe key, seen by the component that enqueues it.  Only the deadlines  *)
(* are kept; JobQueue models the claims, attempts and tokens behind them.  *)
(***************************************************************************)
EXTENDS Integers

\* deferred is the deadline of a replacement accepted while the row ran, 0 when
\* there is none.
JobRow(Time) == [state : {"none", "pending", "running", "done", "dead"},
                 at : Time, deferred : Time]

NoJob == [state |-> "none", at |-> 0, deferred |-> 0]
JobAt(d) == [state |-> "pending", at |-> d, deferred |-> 0]

\* Without replaceExisting a row of the key, whatever its state, stays.
EnqueuedOnce(job, d) == IF job.state = "none" THEN JobAt(d) ELSE job

\* With replaceExisting the latest request wins; it waits while the old runs.
Enqueued(job, d) == IF job.state = "running" THEN [job EXCEPT !.deferred = d]
                                             ELSE JobAt(d)

\* The running row is settled: a deferred deadline is a new occurrence.
Settled(job, s) == IF job.deferred > 0 THEN JobAt(job.deferred)
                                       ELSE [job EXCEPT !.state = s]

\* A row that will still run for deadline d: now, after the run under way, or
\* when an operator retries it.
WillRun(job, d) ==
  \/ job.state \in {"pending", "running", "dead"} /\ job.at = d /\ job.deferred = 0
  \/ job.state = "running" /\ job.deferred = d
=============================================================================

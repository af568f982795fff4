------------------------------ MODULE QueueRow ------------------------------
(***************************************************************************)
(* A row of the job queue as a component sees it that enqueues under a      *)
(* dedupe key and whose handler runs at least once: what JobQueue does to   *)
(* the row, without occurrence ids, tokens, leases and backoff.  Whoever    *)
(* EXTENDS this module keeps the runs, and whether each still holds its     *)
(* claim.                                                                  *)
(***************************************************************************)
EXTENDS Integers

CONSTANT MaxAttempts  \* DEFAULT_JOB_MAX_ATTEMPTS

ASSUME QueueRowAssumption == MaxAttempts \in Nat \ {0}

\* again: a replacement was accepted while the row ran.
Row == [state : {"none", "pending", "running", "done", "dead"},
        attempts : 0..MaxAttempts, again : BOOLEAN]

Closed(state) == [state |-> state, attempts |-> 0, again |-> FALSE]
NoJob == Closed("none")
Due == Closed("pending")

\* enqueue without replaceExisting: a row of the key stays as it is.
EnqueuedOnce(j) == IF j.state = "none" THEN Due ELSE j

\* enqueue with it: a running row keeps the request for later.
Enqueued(j) == IF j.state = "running" THEN [j EXCEPT !.again = TRUE] ELSE Due

Claimed(j) == [j EXCEPT !.state = "running", !.attempts = @ + 1]

\* A settled row: a deferred replacement starts afresh.
Settled(j, new) == IF j.again THEN Due ELSE new

Completed(j) == Settled(j, Closed("done"))

Failed(j, permanent) ==
  Settled(j, IF permanent \/ j.attempts >= MaxAttempts THEN Closed("dead")
             ELSE [j EXCEPT !.state = "pending"])
=============================================================================

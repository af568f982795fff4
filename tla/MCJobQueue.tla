----------------------------- MODULE MCJobQueue -----------------------------
(* JobQueue on small instances: values of the functional constants. *)
EXTENDS JobQueue, TLC

CONSTANTS k1, a1, p1, p2, ck

\* p1 is tried once, p2 twice; only p1's type has a finite concurrency limit.
MCMaxAttempts == (p1 :> 1) @@ (p2 :> 2)
MCConcurrencyKey == (p1 :> ck) @@ (p2 :> None)
MCLimit == (ck :> 1)
=============================================================================

------------------------------ MODULE JobQueue ------------------------------
(***************************************************************************)
(* The durable job queue of packages/platform/jobs/src/jobs.ts: table      *)
(* platform_jobs, the evidence table platform_job_quarantine, the workers  *)
(* that claim rows and the transactions that enqueue into it.              *)
(*                                                                         *)
(* One SQL statement is one step.  Every queue operation but enqueue is a  *)
(* single fenced statement (claim reads and writes under advisory locks),  *)
(* so it is one action; enqueue is up to four statements at READ COMMITTED *)
(* and another transaction may commit between any two of them.             *)
(*                                                                         *)
(* A slot is an identity: a dedupe key, or a job without one.  A payload   *)
(* stands for the columns that are always written together (type, payload, *)
(* payload_version, max_attempts).  A timestamp column is "null", "future" *)
(* or "past" with respect to the database clock; TimePasses moves it.      *)
(***************************************************************************)
EXTENDS Naturals, FiniteSets

CONSTANTS
  Slots,           \* identities a row of platform_jobs may have
  Keyed,           \* the slots that are a dedupe_key (UNIQUE); others have none
  Payloads,        \* what can be requested
  None,            \* SQL NULL in deferred_*
  MaxAttempts,     \* max_attempts of a payload
  ConcurrencyKey,  \* concurrency key of a payload's type, or None
  Limit,           \* concurrency limit of a key
  Workers,         \* worker processes
  BatchSize,       \* worker.concurrency: rows one claim may take
  Enqueuers,       \* transactions that call enqueue
  MaxRequests      \* bound: enqueue calls and operator commands in a behaviour

ASSUME QueueAssumption ==
  /\ Keyed \subseteq Slots
  /\ None \notin Payloads
  /\ MaxAttempts \in [Payloads -> Nat \ {0}]
  /\ BatchSize \in Nat \ {0}
  /\ MaxRequests \in Nat

Keys == {ConcurrencyKey[p] : p \in Payloads} \ {None}

VARIABLES
  job,          \* [Slots -> Row], the row of each identity
  evidence,     \* platform_job_quarantine: <<slot, occurrence>>
  occurrences,  \* how many occurrence ids a slot has been given
  tokens,       \* how many claim tokens a slot has been given
  claims,       \* [Workers -> SUBSET Claim], the claims a process still holds
  enq,          \* [Enqueuers -> Call], where each enqueue transaction is
  requests,     \* requests made so far
  accepted      \* history: the last payload the queue accepted for a slot

vars == <<job, evidence, occurrences, tokens, claims, enq, requests, accepted>>

-----------------------------------------------------------------------------
Statuses == {"absent", "pending", "running", "completed", "dead", "cancelled",
             "quarantined", "dedupe_retained"}
Stamp == {"null", "future", "past"}

Row == [status : Statuses, payload : Payloads \cup {None}, attempts : Nat,
        runAt : Stamp, occurrence : Nat, claimToken : Nat, lease : Stamp,
        deferred : Payloads \cup {None}, cancel : BOOLEAN,
        retain : Stamp, dedupe : Stamp]

Claim == [slot : Slots, occurrence : Nat, token : Nat, attempts : Nat,
          payload : Payloads]

\* A call of enqueue after its first INSERT conflicted: the statement that is
\* next, the request, and whether the row's dedupe_until passed after the
\* transaction began (now() is the transaction's start, so it is not seen).
Call == [pc : {"delete", "reinsert", "settle"}, slot : Keyed,
         payload : Payloads, replace : BOOLEAN, late : BOOLEAN]
Idle == [pc |-> "idle"]

\* There is no row: never inserted, or deleted.
Absent == [status |-> "absent", payload |-> None, attempts |-> 0,
           runAt |-> "null", occurrence |-> 0, claimToken |-> 0,
           lease |-> "null", deferred |-> None, cancel |-> FALSE,
           retain |-> "null", dedupe |-> "null"]

\* A pending row for payload p under occurrence o, due at t.
FreshAt(p, o, t) ==
  [status |-> "pending", payload |-> p, attempts |-> 0, runAt |-> t,
   occurrence |-> o, claimToken |-> 0, lease |-> "null", deferred |-> None,
   cancel |-> FALSE, retain |-> "null", dedupe |-> "null"]

\* The same with the run_at of a request; a run_at of now() is "past" as soon
\* as time passes.
Fresh(p, o) == FreshAt(p, o, "future")

\* claim_token, lease and the deferred_* columns cleared, the status given.
Released(r, st) == [r EXCEPT !.status = st, !.claimToken = 0,
                             !.lease = "null", !.deferred = None]

\* The row after an accepted cancellation took effect.
Cancelled(r) == [Released(r, "cancelled") EXCEPT !.cancel = TRUE,
                              !.retain = "future", !.dedupe = "future"]

\* Mutant of Settled: the deferred replacement is forgotten.
SettledDropsDeferred(r, outcome, o) == IF r.cancel THEN Cancelled(r) ELSE outcome

\* A settled running row: an accepted cancellation decides first, then a
\* deferred replacement, then the outcome of the occurrence itself.
Settled(r, outcome, o) ==
  IF r.cancel THEN Cancelled(r)
  ELSE IF r.deferred # None THEN Fresh(r.deferred, o)
  ELSE outcome

\* Settling consumes a new occurrence id exactly when it promotes.
Promotes(r) == ~r.cancel /\ r.deferred # None

\* Mutant of UsedUp: off by one.
UsedUpLate(attempts, p) == attempts > MaxAttempts[p]

UsedUp(attempts, p) == attempts >= MaxAttempts[p]

NewOccurrence(s) == occurrences' = [occurrences EXCEPT ![s] = @ + 1]

Init ==
  /\ job = [s \in Slots |-> Absent]
  /\ evidence = {}
  /\ occurrences = [s \in Slots |-> 0]
  /\ tokens = [s \in Slots |-> 0]
  /\ claims = [w \in Workers |-> {}]
  /\ enq = [e \in Enqueuers |-> Idle]
  /\ requests = 0
  /\ accepted = [s \in Slots |-> None]

-----------------------------------------------------------------------------
(***************************************************************************)
(* enqueue                                                                 *)
(***************************************************************************)

\* INSERT of a new row under a new occurrence.
Insert(s, p) ==
  /\ job' = [job EXCEPT ![s] = Fresh(p, occurrences[s] + 1)]
  /\ NewOccurrence(s)
  /\ accepted' = [accepted EXCEPT ![s] = p]

\* The first INSERT ... ON CONFLICT DO NOTHING: it inserts, or the call goes on.
Enqueue(e, s, p, replace) ==
  /\ enq[e] = Idle
  /\ requests < MaxRequests
  /\ requests' = requests + 1
  /\ \/ /\ job[s].status = "absent"
        /\ Insert(s, p)
        /\ UNCHANGED enq
     \/ /\ job[s].status # "absent"
        /\ s \in Keyed
        /\ enq' = [enq EXCEPT ![e] = [pc |-> "delete", slot |-> s, payload |-> p,
                                      replace |-> replace, late |-> FALSE]]
        /\ UNCHANGED <<job, occurrences, accepted>>
  /\ UNCHANGED <<evidence, tokens, claims>>

\* DELETE of a tombstone whose horizon passed before this transaction, with the
\* INSERT that follows it under the same row lock; else on to the next statement.
DeleteExpired(e) ==
  LET c == enq[e]
      expired == /\ job[c.slot].status = "dedupe_retained"
                 /\ job[c.slot].dedupe = "past"
                 /\ ~c.late
  IN  /\ c.pc = "delete"
      /\ \/ /\ expired
            /\ Insert(c.slot, c.payload)
            /\ enq' = [enq EXCEPT ![e] = Idle]
         \/ /\ ~expired
            /\ enq' = [enq EXCEPT ![e].pc = "reinsert"]
            /\ UNCHANGED <<job, occurrences, accepted>>
      /\ UNCHANGED <<evidence, tokens, claims, requests>>

\* The INSERT retried once, for a row a cleanup deleted in between.
Reinsert(e) ==
  LET c == enq[e]
  IN  /\ c.pc = "reinsert"
      /\ \/ /\ job[c.slot].status = "absent"
            /\ Insert(c.slot, c.payload)
            /\ enq' = [enq EXCEPT ![e] = Idle]
         \/ /\ job[c.slot].status # "absent"
            /\ enq' = [enq EXCEPT ![e].pc = "settle"]
            /\ UNCHANGED <<job, occurrences, accepted>>
      /\ UNCHANGED <<evidence, tokens, claims, requests>>

\* Mutant of Replaced: it revokes the cancellation.
ReplacedRevokesCancel(r, p, o) ==
  IF r.status # "running" THEN Fresh(p, o)
  ELSE [r EXCEPT !.deferred = p, !.cancel = FALSE]

\* What UPDATE ... WHERE dedupe_key does to an existing row.
Replaced(r, p, o) ==
  IF r.status # "running" THEN Fresh(p, o)
  ELSE [r EXCEPT !.deferred = IF r.cancel THEN None ELSE p]

\* The last statement: the row found is the deduplicated one, or is replaced.
\* When there is none the result is dereferenced all the same and enqueue
\* throws, which rolls its transaction back.
SettleEnqueue(e) ==
  LET c == enq[e]
      r == job[c.slot]
  IN  /\ c.pc = "settle"
      /\ enq' = [enq EXCEPT ![e] = Idle]
      /\ \/ /\ r.status = "absent" \/ ~c.replace
            /\ UNCHANGED <<job, occurrences, accepted>>
         \/ /\ r.status # "absent" /\ c.replace
            /\ job' = [job EXCEPT ![c.slot] =
                         Replaced(r, c.payload, occurrences[c.slot] + 1)]
            /\ IF r.status = "running" THEN UNCHANGED occurrences
                                       ELSE NewOccurrence(c.slot)
            /\ accepted' = IF r.status = "running" /\ r.cancel THEN accepted
                           ELSE [accepted EXCEPT ![c.slot] = c.payload]
      /\ UNCHANGED <<evidence, tokens, claims, requests>>

-----------------------------------------------------------------------------
(***************************************************************************)
(* Workers: claim, heartbeat and the three fenced settlements              *)
(***************************************************************************)

KeyOf(s) == ConcurrencyKey[job[s].payload]
InKey(S, k) == {s \in S : KeyOf(s) = k}
Running == {s \in Slots : job[s].status = "running"}
Live == {s \in Running : job[s].lease = "future"}

Claimable(s) == /\ job[s].status = "pending"
                /\ job[s].runAt = "past"
                /\ ~job[s].cancel

\* Mutant of NextToken: a reclaimed row is claimed under its old token.
NextTokenReused(s) == IF tokens[s] = 0 THEN 1 ELSE tokens[s]

NextToken(s) == tokens[s] + 1

\* The claim a worker is handed for slot s of the batch.
Granted(s) == [slot |-> s, occurrence |-> job[s].occurrence,
               token |-> NextToken(s), attempts |-> job[s].attempts + 1,
               payload |-> job[s].payload]

\* claim: due pending rows, per concurrency key no more than its limit leaves
\* beside the unexpired leases, at most BatchSize; SKIP LOCKED may skip any.
ClaimJobs(w, S) ==
  /\ S # {} /\ Cardinality(S) <= BatchSize
  /\ \A s \in S : Claimable(s)
  /\ \A k \in Keys : LET mine == InKey(S, k) IN
       mine # {} => Cardinality(mine) + Cardinality(InKey(Live, k)) <= Limit[k]
  /\ job' = [s \in Slots |-> IF s \notin S THEN job[s] ELSE
               [job[s] EXCEPT !.status = "running", !.claimToken = NextToken(s),
                              !.lease = "future", !.attempts = @ + 1]]
  /\ tokens' = [s \in Slots |-> IF s \in S THEN NextToken(s) ELSE tokens[s]]
  /\ claims' = [claims EXCEPT ![w] = @ \cup {Granted(s) : s \in S}]
  /\ UNCHANGED <<evidence, occurrences, enq, requests, accepted>>

\* The fence of every mutation a worker makes.
Owns(c) == /\ job[c.slot].status = "running"
           /\ job[c.slot].occurrence = c.occurrence
           /\ job[c.slot].claimToken = c.token

\* The process ends: every lease it held is left for recovery.
StopWorker(w) ==
  /\ claims' = [claims EXCEPT ![w] = {}]
  /\ UNCHANGED <<job, evidence, occurrences, tokens, enq, requests, accepted>>

Crash(w) == claims[w] # {} /\ StopWorker(w)

\* heartbeat extends the lease of a claim it still owns; it does not ask
\* whether the lease has expired meanwhile.
Heartbeat(w, c) ==
  /\ Owns(c)
  /\ job' = [job EXCEPT ![c.slot].lease = "future"]
  /\ UNCHANGED <<evidence, occurrences, tokens, claims, enq, requests, accepted>>

\* A mutation that is not applied: the worker takes the fatal path (failStop).
LostFence(w, c) ==
  /\ ~Owns(c)
  /\ StopWorker(w)

\* A fenced settlement of claim c to the row `new`.
SettleClaim(w, c, new) ==
  /\ Owns(c)
  /\ job' = [job EXCEPT ![c.slot] = new]
  /\ IF Promotes(job[c.slot]) THEN NewOccurrence(c.slot)
                              ELSE UNCHANGED occurrences
  /\ UNCHANGED <<tokens, enq, requests, accepted>>

ReleaseClaim(w, c) == claims' = [claims EXCEPT ![w] = @ \ {c}]

\* complete.  Its CASE for retain_until and dedupe_until asks for a deferred
\* replacement first, where every other column asks for the cancellation first.
Complete(w, c) ==
  LET r == job[c.slot]
      done == [Released(r, "completed") EXCEPT !.retain = "future",
                                               !.dedupe = "future"]
      new == Settled(r, done, occurrences[c.slot] + 1)
  IN  /\ SettleClaim(w, c, IF r.deferred = None THEN new
                           ELSE [new EXCEPT !.retain = "null", !.dedupe = "null"])
      /\ ReleaseClaim(w, c)
      /\ UNCHANGED evidence

\* Back in the queue, due after the backoff.
Retried(r) == [Released(r, "pending") EXCEPT !.runAt = "future"]

\* fail: backoff until the attempts of the claim are used up, or at once dead
\* for a permanent error.
Fail(w, c, permanent) ==
  LET r == job[c.slot]
      exhausted == permanent \/ UsedUp(c.attempts, c.payload)
      failed == IF exhausted THEN Released(r, "dead") ELSE Retried(r)
  IN  /\ SettleClaim(w, c, Settled(r, failed, occurrences[c.slot] + 1))
      /\ ReleaseClaim(w, c)
      /\ UNCHANGED evidence

\* quarantine: the transition and the evidence are one statement, but it reports
\* "applied" only when the evidence was new; a worker told otherwise stops.
Quarantine(w, c) ==
  LET r == job[c.slot]
      id == <<c.slot, c.occurrence>>
  IN  /\ SettleClaim(w, c, Settled(r, Released(r, "quarantined"),
                                   occurrences[c.slot] + 1))
      /\ evidence' = evidence \cup {id}
      /\ IF id \in evidence THEN claims' = [claims EXCEPT ![w] = {}]
                            ELSE ReleaseClaim(w, c)

-----------------------------------------------------------------------------
(***************************************************************************)
(* Maintenance of every worker tick, and the operator's commands           *)
(***************************************************************************)

\* Mutant of ReclaimStale: it skips cancelling rows, as the claim does.
ReclaimSkipsCancelling(s) ==
  LET r == job[s]
      failed == IF UsedUp(r.attempts, r.payload) THEN Released(r, "dead")
                ELSE Retried(r)
  IN  /\ r.status = "running" /\ r.lease = "past" /\ ~r.cancel
      /\ job' = [job EXCEPT ![s] = Settled(r, failed, occurrences[s] + 1)]
      /\ IF Promotes(r) THEN NewOccurrence(s) ELSE UNCHANGED occurrences
      /\ UNCHANGED <<evidence, tokens, claims, enq, requests, accepted>>

\* reclaimStale: an expired lease ends like a failed attempt.
ReclaimStale(s) ==
  LET r == job[s]
      failed == IF UsedUp(r.attempts, r.payload) THEN Released(r, "dead")
                ELSE Retried(r)
  IN  /\ r.status = "running" /\ r.lease = "past"
      /\ job' = [job EXCEPT ![s] = Settled(r, failed, occurrences[s] + 1)]
      /\ IF Promotes(r) THEN NewOccurrence(s) ELSE UNCHANGED occurrences
      /\ UNCHANGED <<evidence, tokens, claims, enq, requests, accepted>>

\* All that is left of a keyed row: its key, occurrence id and horizon.
Tombstone(r) == [status |-> "dedupe_retained", payload |-> None, attempts |-> 0,
                 runAt |-> "past", occurrence |-> r.occurrence, claimToken |-> 0,
                 lease |-> "null", deferred |-> None, cancel |-> FALSE,
                 retain |-> "null", dedupe |-> r.dedupe]

\* Mutant of CleanupExpired: keyed rows are deleted at the end of retention.
CleanupDeletesKey(s) ==
  /\ job[s].retain = "past" \/ job[s].dedupe = "past"
  /\ job' = [job EXCEPT ![s] = Absent]
  /\ UNCHANGED <<evidence, occurrences, tokens, claims, enq, requests, accepted>>

\* cleanupExpired: a finished row past its retention keeps only its key, or is
\* deleted when it has none; a tombstone past its horizon is deleted.
CleanupExpired(s) ==
  LET r == job[s]
  IN  /\ \/ /\ r.status \in {"completed", "cancelled"}
            /\ r.retain = "past"
            /\ job' = [job EXCEPT ![s] = IF s \in Keyed THEN Tombstone(r)
                                                        ELSE Absent]
         \/ /\ r.status = "dedupe_retained"
            /\ r.dedupe = "past"
            /\ job' = [job EXCEPT ![s] = Absent]
      /\ UNCHANGED <<evidence, occurrences, tokens, claims, enq, requests,
                     accepted>>

\* What every operator command shares.
Command == /\ requests < MaxRequests
           /\ requests' = requests + 1
           /\ UNCHANGED <<evidence, tokens, claims, enq, accepted>>

\* cancel: a pending row at once, a running one cooperatively; either way the
\* deferred replacement goes.  (A stale occurrence is a CONFLICT: no change.)
Cancel(s) ==
  LET r == job[s]
  IN  /\ \/ /\ r.status = "pending"
            /\ job' = [job EXCEPT ![s] = Cancelled(r)]
         \/ /\ r.status = "running" /\ ~r.cancel
            /\ job' = [job EXCEPT ![s].cancel = TRUE, ![s].deferred = None]
      /\ UNCHANGED occurrences
      /\ Command

\* Mutant of RedriveQuarantined: the quarantined occurrence runs again.
RedriveKeepsOccurrence(s) ==
  /\ job[s].status = "quarantined"
  /\ job' = [job EXCEPT ![s] = FreshAt(@.payload, @.occurrence, @.runAt)]
  /\ UNCHANGED occurrences
  /\ Command

\* redriveQuarantined: the same payload as a new occurrence, evidence kept.
RedriveQuarantined(s) ==
  /\ job[s].status = "quarantined"
  /\ job' = [job EXCEPT ![s] =
               FreshAt(@.payload, occurrences[s] + 1, @.runAt)]
  /\ NewOccurrence(s)
  /\ Command

\* retryDead: due at once, under the same occurrence.
RetryDead(s) ==
  /\ job[s].status = "dead"
  /\ job' = [job EXCEPT ![s] = FreshAt(@.payload, @.occurrence, "past")]
  /\ UNCHANGED occurrences
  /\ Command

\* Mutant of Requeue: a completed occurrence runs again.
RequeueKeepsOccurrence(s) ==
  /\ job[s].status \in {"dead", "completed"}
  /\ job' = [job EXCEPT ![s] = FreshAt(@.payload, @.occurrence, "past")]
  /\ UNCHANGED occurrences
  /\ Command

\* requeue: as retryDead for a dead row; a completed one starts a new occurrence.
Requeue(s) ==
  \/ RetryDead(s)
  \/ /\ job[s].status = "completed"
     /\ job' = [job EXCEPT ![s] =
                  FreshAt(@.payload, occurrences[s] + 1, "past")]
     /\ NewOccurrence(s)
     /\ Command

-----------------------------------------------------------------------------
(***************************************************************************)
(* The database clock passes one of a row's timestamps.  dedupe_until is   *)
(* never before retain_until (setRetentionPolicy).                         *)
(***************************************************************************)
Passes(s, r) ==
  /\ job' = [job EXCEPT ![s] = r]
  /\ UNCHANGED <<evidence, occurrences, tokens, claims, requests, accepted>>

BecomesDue(s) ==
  /\ job[s].status = "pending" /\ job[s].runAt = "future"
  /\ Passes(s, [job[s] EXCEPT !.runAt = "past"])
  /\ UNCHANGED enq

LeaseExpires(s) ==
  /\ job[s].lease = "future"
  /\ Passes(s, [job[s] EXCEPT !.lease = "past"])
  /\ UNCHANGED enq

RetentionEnds(s) ==
  /\ job[s].retain = "future"
  /\ Passes(s, [job[s] EXCEPT !.retain = "past"])
  /\ UNCHANGED enq

HorizonEnds(s) ==
  /\ job[s].dedupe = "future" /\ job[s].retain # "future"
  /\ Passes(s, [job[s] EXCEPT !.dedupe = "past"])
  /\ enq' = [e \in Enqueuers |-> IF enq[e] # Idle /\ enq[e].slot = s
                                 THEN [enq[e] EXCEPT !.late = TRUE] ELSE enq[e]]

-----------------------------------------------------------------------------
EnqueueNext(e) ==
  \/ \E s \in Slots, p \in Payloads, replace \in BOOLEAN :
       Enqueue(e, s, p, replace)
  \/ DeleteExpired(e)
  \/ Reinsert(e)
  \/ SettleEnqueue(e)

\* The end of a handler: its claim is settled, or found to be lost.
Finish(w, c) ==
  \/ Complete(w, c)
  \/ \E permanent \in BOOLEAN : Fail(w, c, permanent)
  \/ Quarantine(w, c)
  \/ LostFence(w, c)

WorkerNext(w) ==
  \/ \E S \in SUBSET Slots : ClaimJobs(w, S)
  \/ \E c \in claims[w] : Heartbeat(w, c) \/ Finish(w, c)
  \/ Crash(w)

Maintenance(s) == ReclaimStale(s) \/ CleanupExpired(s)

Operator(s) ==
  Cancel(s) \/ RedriveQuarantined(s) \/ RetryDead(s) \/ Requeue(s)

TimePasses(s) ==
  BecomesDue(s) \/ LeaseExpires(s) \/ RetentionEnds(s) \/ HorizonEnds(s)

Next ==
  \/ \E e \in Enqueuers : EnqueueNext(e)
  \/ \E w \in Workers : WorkerNext(w)
  \/ \E s \in Slots : Maintenance(s) \/ Operator(s) \/ TimePasses(s)

Spec == Init /\ [][Next]_vars

\* What the deployment guarantees: time passes, every worker tick runs the
\* maintenance statements and claims due rows, a handler ends (its timeout and
\* abort grace bound it) and an enqueue transaction takes its next statement.
\* Nobody has to crash, to send a heartbeat, to enqueue or to use a command.
Fairness ==
  /\ \A s \in Slots : /\ WF_vars(TimePasses(s))
                      /\ WF_vars(Maintenance(s))
                      /\ WF_vars(\E w \in Workers : ClaimJobs(w, {s}))
  /\ \A w \in Workers : WF_vars(\E c \in claims[w] : Finish(w, c))
  /\ \A e \in Enqueuers : WF_vars(enq[e] # Idle /\ EnqueueNext(e))

FairSpec == Spec /\ Fairness

-----------------------------------------------------------------------------
(***************************************************************************)
(* Properties                                                              *)
(***************************************************************************)

\* Every column holds a value the schema allows, and the fence columns are set
\* exactly while the row is running.
TypeOK ==
  /\ job \in [Slots -> Row]
  /\ evidence \subseteq Slots \X Nat
  /\ occurrences \in [Slots -> Nat]
  /\ tokens \in [Slots -> Nat]
  /\ claims \in [Workers -> SUBSET Claim]
  /\ enq \in [Enqueuers -> Call \cup {Idle}]
  /\ requests \in 0..MaxRequests
  /\ accepted \in [Slots -> Payloads \cup {None}]
  /\ \A s \in Slots :
       /\ job[s].status = "running" <=> job[s].claimToken # 0
       /\ job[s].status = "running" <=> job[s].lease # "null"

\* A pending row can be claimed one day: it is due at some time, it carries no
\* cancel_requested_at (claim skips such rows, so it would be stuck for good)
\* and it has an attempt left, however its earlier attempts ended.
PendingCanRun ==
  \A s \in Slots : LET r == job[s] IN
    r.status = "pending" =>
      /\ r.runAt # "null" /\ ~r.cancel
      /\ r.attempts < MaxAttempts[r.payload]

\* The deferred slot is used only while the row is running and not cancelling:
\* the settlements and complete's CASE for retain_until rely on it.
DeferredWhileRunning ==
  \A s \in Slots :
    job[s].deferred # None => job[s].status = "running" /\ ~job[s].cancel

\* At most one claim in the whole fleet passes the fence of a row, and the
\* worker that holds it knows the row's attempts and payload.
OneOwner ==
  \A w1, w2 \in Workers : \A c1 \in claims[w1], c2 \in claims[w2] :
    (Owns(c1) /\ Owns(c2) /\ c1.slot = c2.slot) =>
      /\ w1 = w2 /\ c1 = c2
      /\ c1.attempts = job[c1.slot].attempts
      /\ c1.payload = job[c1.slot].payload

\* An occurrence with quarantine evidence never runs again, so a quarantine is
\* never refused because its evidence exists already.
EvidenceIsFinal ==
  \A s \in Slots :
    <<s, job[s].occurrence>> \in evidence =>
      job[s].status \in {"quarantined", "cancelled", "dedupe_retained"}

\* Latest wins, and nothing accepted is lost: unless a cancellation decides, the
\* row, or the replacement it defers, is the last request the queue accepted,
\* and what has completed is that request too.
LatestAccepted ==
  \A s \in Slots : LET r == job[s] IN
    r.status \notin {"absent", "cancelled", "dedupe_retained"} /\ ~r.cancel =>
      accepted[s] = IF r.deferred = None THEN r.payload ELSE r.deferred

\* Whatever ends leaves: completed and cancelled rows have a retention and a
\* horizon, tombstones a horizon, so that cleanupExpired will see them.
FinishedExpires ==
  \A s \in Slots : LET r == job[s] IN
    /\ r.status \in {"completed", "cancelled"} => r.retain # "null"
    /\ r.status \in {"completed", "cancelled", "dedupe_retained"} =>
         r.dedupe # "null"

\* A cancellation accepted while running is the decision: no completion,
\* failure, reclaim or replacement turns the row into anything but cancelled.
CancellationDecides ==
  [][\A s \in Slots : job[s].status = "running" /\ job[s].cancel =>
       \/ job'[s].status = "cancelled"
       \/ /\ job'[s].status = "running" /\ job'[s].cancel
          /\ job'[s].occurrence = job[s].occurrence]_vars

\* Within its dedupe horizon a key's row is not deleted, and its work is
\* started again only by a replacing enqueue or by requeue of a completed row.
HorizonOwnsKey ==
  [][\A s \in Keyed : job[s].dedupe = "future" =>
       /\ job'[s].status # "absent"
       /\ job'[s].occurrence # job[s].occurrence =>
            \/ \E e \in Enqueuers : /\ enq[e] # Idle /\ enq'[e] = Idle
                                    /\ enq[e].slot = s /\ enq[e].replace
            \/ /\ job[s].status = "completed"
               /\ enq' = enq /\ requests' # requests]_vars

\* The queue implements the life cycle of occurrences.
Phase(r) == CASE r.status \in {"absent", "dedupe_retained"} -> "none"
              [] r.status \in {"pending", "running"} -> "open"
              [] OTHER -> r.status

Lifecycle == INSTANCE JobLifecycle
               WITH current <- occurrences,
                    phase <- [s \in Slots |-> Phase(job[s])]

ImplementsLifecycle == Lifecycle!Spec

\* Work that was accepted is decided: a pending or running row, whatever
\* crashes and lost leases come in between, does not stay so for ever.
EveryJobSettles ==
  \A s \in Slots :
    job[s].status \in {"pending", "running"} ~>
      job[s].status \notin {"pending", "running"}
=============================================================================

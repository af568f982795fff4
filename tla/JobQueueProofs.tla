--------------------------- MODULE JobQueueProofs ---------------------------
(***************************************************************************)
(* The safety properties of JobQueue for every value of its constants.     *)
(*                                                                         *)
(* The properties say little about how a row, the claims on it and the     *)
(* evidence about it fit together, so none of them is inductive.  IInv is: *)
(*  - RowOK describes a row together with the number of occurrence ids its *)
(*    slot was given; it is kept by each of the row operators (Fresh,      *)
(*    Settled, Tombstone...), which is proved about rows, not about steps; *)
(*  - TokensOK, ClaimsUnique and ClaimsKnow say that a claim has a token   *)
(*    of its own and, while the row shows that token, knows the row's      *)
(*    occurrence, attempts and payload;                                    *)
(*  - EvidenceBounded bounds the occurrences evidence may name.            *)
(* RowMove is what every action but the claim does to the queue: it moves  *)
(* one row.  RowMoveInv proves once that such a move keeps the invariant.  *)
(***************************************************************************)
EXTENDS JobQueue, TLAPS

Open == {"pending", "running"}
Finished == {"completed", "cancelled"}

RowOK(r, n) ==
  /\ r \in Row
  /\ r.status = "running" <=> r.claimToken # 0
  /\ r.status = "running" <=> r.lease # "null"
  /\ r.status # "absent" => r.runAt # "null"
  /\ r.status = "pending" => r.attempts < MaxAttempts[r.payload]
  /\ r.deferred # None => r.status = "running" /\ ~r.cancel
  /\ r.cancel => r.status \in {"running", "cancelled"}
  /\ r.payload = None <=> r.status \in {"absent", "dedupe_retained"}
  /\ r.status = "absent" => r.occurrence = 0
  /\ r.status # "absent" => r.occurrence = n /\ n > 0
  /\ r.retain # "null" <=> r.status \in Finished
  /\ r.dedupe # "null" <=> r.status \in Finished \cup {"dedupe_retained"}

RowsOK == \A s \in Slots : RowOK(job[s], occurrences[s])

QueueOK ==
  /\ job \in [Slots -> Row]
  /\ evidence \subseteq Slots \X Nat
  /\ occurrences \in [Slots -> Nat]
  /\ tokens \in [Slots -> Nat]
  /\ claims \in [Workers -> SUBSET Claim]
  /\ accepted \in [Slots -> Payloads \cup {None}]

CallsOK ==
  /\ enq \in [Enqueuers -> Call \cup {Idle}]
  /\ requests \in 0..MaxRequests

TokensOK ==
  /\ \A s \in Slots : job[s].claimToken <= tokens[s]
  /\ \A w \in Workers : \A c \in claims[w] :
       0 < c.token /\ c.token <= tokens[c.slot]

ClaimsUnique ==
  \A w1, w2 \in Workers : \A c1 \in claims[w1], c2 \in claims[w2] :
    c1.slot = c2.slot /\ c1.token = c2.token => w1 = w2 /\ c1 = c2

ClaimsKnow ==
  \A w \in Workers : \A c \in claims[w] :
    c.token = job[c.slot].claimToken =>
      /\ c.occurrence = job[c.slot].occurrence
      /\ c.attempts = job[c.slot].attempts
      /\ c.payload = job[c.slot].payload

EvidenceBounded ==
  \A e \in evidence : 0 < e[2] /\ e[2] <= occurrences[e[1]]

RowsInv == /\ QueueOK /\ RowsOK /\ TokensOK /\ ClaimsUnique /\ ClaimsKnow
           /\ EvidenceBounded /\ EvidenceIsFinal /\ LatestAccepted

IInv == RowsInv /\ CallsOK
-----------------------------------------------------------------------------
(***************************************************************************)
(* The row operators.                                                      *)
(***************************************************************************)

\* There is no row without a slot's first occurrence or after a deletion.
LEMMA AbsentOK ==
  ASSUME NEW n \in Nat
  PROVE  RowOK(Absent, n)
BY QueueAssumption DEF RowOK, Absent, Row, Statuses, Stamp, Finished

\* A fresh row belongs to the occurrence it was given.
LEMMA FreshAtOK ==
  ASSUME NEW p \in Payloads, NEW n \in Nat, n > 0, NEW t \in {"future", "past"}
  PROVE  RowOK(FreshAt(p, n, t), n)
BY QueueAssumption DEF RowOK, FreshAt, Row, Statuses, Stamp, Finished

LEMMA FreshOK ==
  ASSUME NEW p \in Payloads, NEW n \in Nat, n > 0
  PROVE  RowOK(Fresh(p, n), n)
BY FreshAtOK DEF Fresh

\* Settling a running row keeps RowOK, with a new occurrence if it promotes.
LEMMA SettledOK ==
  ASSUME NEW n \in Nat, NEW r, RowOK(r, n), r.status = "running",
         NEW outcome, ~r.cancel => RowOK(outcome, n)
  PROVE  RowOK(Settled(r, outcome, n + 1), IF Promotes(r) THEN n + 1 ELSE n)
<1>1. CASE r.cancel
  BY <1>1, QueueAssumption
  DEF RowOK, Settled, Promotes, Cancelled, Released, Row, Statuses, Stamp, Finished
<1>2. CASE ~r.cancel /\ r.deferred # None
  <2>1. r.deferred \in Payloads
    BY <1>2 DEF RowOK, Row
  <2>2. Settled(r, outcome, n + 1) = Fresh(r.deferred, n + 1) /\ Promotes(r)
    BY <1>2 DEF Settled, Promotes
  <2> QED
    BY <2>1, <2>2, FreshOK
<1>3. CASE ~r.cancel /\ r.deferred = None
  BY <1>3 DEF Settled, Promotes
<1> QED
  BY <1>1, <1>2, <1>3

\* The outcomes an occurrence can settle to by itself are rows.
LEMMA OutcomesOK ==
  ASSUME NEW n \in Nat, NEW r, RowOK(r, n), r.status = "running", ~r.cancel
  PROVE  /\ RowOK([Released(r, "completed") EXCEPT !.retain = "future",
                                                   !.dedupe = "future"], n)
         /\ RowOK(Released(r, "dead"), n)
         /\ RowOK(Released(r, "quarantined"), n)
         /\ ~UsedUp(r.attempts, r.payload) => RowOK(Retried(r), n)
<1>1. RowOK([Released(r, "completed") EXCEPT !.retain = "future",
                                             !.dedupe = "future"], n)
  BY QueueAssumption DEF RowOK, Released, Row, Statuses, Stamp, Finished
<1>2. RowOK(Released(r, "dead"), n) /\ RowOK(Released(r, "quarantined"), n)
  BY QueueAssumption DEF RowOK, Released, Row, Statuses, Stamp, Finished
<1>3. ASSUME ~UsedUp(r.attempts, r.payload) PROVE RowOK(Retried(r), n)
  <2>1. /\ r.payload \in Payloads /\ r.attempts \in Nat
        /\ MaxAttempts[r.payload] \in Nat
    BY QueueAssumption DEF RowOK, Row
  <2>2. r.attempts < MaxAttempts[r.payload]
    BY <1>3, <2>1 DEF UsedUp
  <2>3. /\ Retried(r).attempts = r.attempts /\ Retried(r).payload = r.payload
        /\ Retried(r).status = "pending"
    BY DEF Retried, Released, RowOK, Row
  <2>4. Retried(r) \in Row
    BY DEF Retried, Released, RowOK, Row, Statuses, Stamp
  <2> QED
    BY <2>2, <2>3, <2>4 DEF RowOK, Retried, Released, Row, Finished
<1> QED
  BY <1>1, <1>2, <1>3

\* Claiming a pending row under a token, and extending or losing its lease.
LEMMA ClaimedOK ==
  ASSUME NEW n \in Nat, NEW r, RowOK(r, n), r.status = "pending",
         NEW t \in Nat, t > 0
  PROVE  RowOK([r EXCEPT !.status = "running", !.claimToken = t,
                         !.lease = "future", !.attempts = @ + 1], n)
<1> DEFINE q == [r EXCEPT !.status = "running", !.claimToken = t,
                          !.lease = "future", !.attempts = @ + 1]
<1>1. r.attempts + 1 \in Nat
  BY DEF RowOK, Row
<1>2. q \in Row
  BY <1>1 DEF RowOK, Row, Statuses, Stamp
<1>3. q.status = "running" /\ q.claimToken = t /\ q.lease = "future"
  BY DEF RowOK, Row
<1>4. \A f \in {"payload", "runAt", "occurrence", "deferred", "cancel", "retain",
                "dedupe"} : q[f] = r[f]
  BY DEF RowOK, Row
<1> QED
  BY <1>2, <1>3, <1>4 DEF RowOK, Finished

LEMMA LeaseOK ==
  ASSUME NEW n \in Nat, NEW r, RowOK(r, n), r.status = "running",
         NEW l \in {"future", "past"}
  PROVE  RowOK([r EXCEPT !.lease = l], n)
BY QueueAssumption DEF RowOK, Row, Statuses, Stamp, Finished

\* The UPDATE of a replacing enqueue: a running row keeps its occurrence.
LEMMA ReplacedOK ==
  ASSUME NEW n \in Nat, NEW r, RowOK(r, n), r.status # "absent",
         NEW p \in Payloads
  PROVE  RowOK(Replaced(r, p, n + 1), IF r.status = "running" THEN n ELSE n + 1)
<1>1. CASE r.status = "running"
  BY <1>1, QueueAssumption
  DEF RowOK, Replaced, Row, Statuses, Stamp, Finished
<1>2. CASE r.status # "running"
  BY <1>2, FreshOK DEF Replaced
<1> QED
  BY <1>1, <1>2

\* cleanupExpired's tombstone.
LEMMA TombstoneOK ==
  ASSUME NEW n \in Nat, NEW r, RowOK(r, n), r.status \in Finished
  PROVE  RowOK(Tombstone(r), n)
BY QueueAssumption DEF RowOK, Tombstone, Row, Statuses, Stamp, Finished

\* cancel of a pending row and of a running one.
LEMMA CancelOK ==
  ASSUME NEW n \in Nat, NEW r, RowOK(r, n)
  PROVE  /\ r.status = "pending" => RowOK(Cancelled(r), n)
         /\ r.status = "running" =>
              RowOK([r EXCEPT !.cancel = TRUE, !.deferred = None], n)
BY QueueAssumption
DEF RowOK, Cancelled, Released, Row, Statuses, Stamp, Finished

\* The clock passes a timestamp that was in the future.
LEMMA PassedOK ==
  ASSUME NEW n \in Nat, NEW r, RowOK(r, n)
  PROVE  /\ r.runAt = "future" => RowOK([r EXCEPT !.runAt = "past"], n)
         /\ r.lease = "future" => RowOK([r EXCEPT !.lease = "past"], n)
         /\ r.retain = "future" => RowOK([r EXCEPT !.retain = "past"], n)
         /\ r.dedupe = "future" => RowOK([r EXCEPT !.dedupe = "past"], n)
BY QueueAssumption DEF RowOK, Row, Statuses, Stamp, Finished

-----------------------------------------------------------------------------
(***************************************************************************)
(* One row moves.                                                          *)
(***************************************************************************)
SameClaim(r, new) ==
  /\ new.claimToken = r.claimToken
  /\ new.occurrence = r.occurrence
  /\ new.attempts = r.attempts
  /\ new.payload = r.payload

Latest(new, a) ==
  new.status \notin {"absent", "cancelled", "dedupe_retained"} /\ ~new.cancel =>
    a = IF new.deferred = None THEN new.payload ELSE new.deferred

Final == {"quarantined", "cancelled", "dedupe_retained"}

RowMove(s, new, m) ==
  /\ job' = [job EXCEPT ![s] = new]
  /\ occurrences' = [occurrences EXCEPT ![s] = m]
  /\ m = occurrences[s] \/ m = occurrences[s] + 1
  /\ RowOK(new, m)
  /\ new.claimToken = 0 \/ SameClaim(job[s], new)
  /\ tokens' = tokens
  /\ claims' \in [Workers -> SUBSET Claim]
  /\ \A w \in Workers : claims'[w] \subseteq claims[w]
  /\ \/ evidence' = evidence
     \/ /\ evidence' = evidence \cup {<<s, job[s].occurrence>>}
        /\ job[s].status = "running"
  /\ <<s, new.occurrence>> \in evidence' => new.status \in Final
  /\ accepted' \in [Slots -> Payloads \cup {None}]
  /\ \A t \in Slots \ {s} : accepted'[t] = accepted[t]
  /\ Latest(new, accepted'[s])

LEMMA RowMoveInv ==
  ASSUME RowsInv, NEW s \in Slots, NEW new, NEW m, RowMove(s, new, m)
  PROVE  RowsInv'
<1> USE DEF RowMove
<1>1. m \in Nat /\ m >= occurrences[s] /\ new \in Row
  BY DEF RowsInv, QueueOK, RowOK
<1>2. /\ job' \in [Slots -> Row] /\ job'[s] = new
      /\ \A t \in Slots \ {s} : job'[t] = job[t]
  BY <1>1 DEF RowsInv, QueueOK
<1>3. /\ occurrences' \in [Slots -> Nat] /\ occurrences'[s] = m
      /\ \A t \in Slots \ {s} : occurrences'[t] = occurrences[t]
  BY <1>1 DEF RowsInv, QueueOK
<1>4. RowOK(job[s], occurrences[s]) /\ job[s] \in Row
  BY DEF RowsInv, RowsOK, QueueOK
<1>5. QueueOK'
  <2>1. evidence' \subseteq Slots \X Nat
    BY <1>4 DEF RowsInv, QueueOK, Row
  <2> QED
    BY <1>2, <1>3, <2>1 DEF RowsInv, QueueOK
<1>6. RowsOK'
  BY <1>2, <1>3 DEF RowsInv, RowsOK
<1>7. TokensOK'
  <2>1. \A t \in Slots : job'[t].claimToken <= tokens'[t]
    BY <1>2, <1>4 DEF RowsInv, TokensOK, SameClaim, QueueOK, Row
  <2> QED
    BY <2>1 DEF RowsInv, TokensOK
<1>8. ClaimsUnique'
  BY DEF RowsInv, ClaimsUnique
<1>9. ClaimsKnow'
  <2> SUFFICES ASSUME NEW w \in Workers, NEW c \in claims'[w],
                      c.token = job'[c.slot].claimToken
               PROVE  /\ c.occurrence = job'[c.slot].occurrence
                      /\ c.attempts = job'[c.slot].attempts
                      /\ c.payload = job'[c.slot].payload
    BY DEF ClaimsKnow
  <2>1. c \in claims[w] /\ c \in Claim /\ c.slot \in Slots /\ c.token > 0
    BY DEF RowsInv, QueueOK, TokensOK, Claim
  <2>2. CASE c.slot # s
    BY <2>1, <2>2, <1>2 DEF RowsInv, ClaimsKnow
  <2>3. CASE c.slot = s
    BY <2>1, <2>3, <1>2 DEF RowsInv, ClaimsKnow, SameClaim
  <2> QED
    BY <2>2, <2>3
<1>10. EvidenceBounded'
  <2> SUFFICES ASSUME NEW e \in evidence'
               PROVE  0 < e[2] /\ e[2] <= occurrences'[e[1]]
    BY DEF EvidenceBounded
  <2>1. CASE e \in evidence
    <3>1. e[1] \in Slots /\ e[2] \in Nat /\ 0 < e[2] /\ e[2] <= occurrences[e[1]]
      BY <2>1 DEF RowsInv, QueueOK, EvidenceBounded
    <3>2. occurrences[e[1]] \in Nat /\ occurrences'[e[1]] \in Nat
      BY <3>1, <1>3 DEF RowsInv, QueueOK
    <3>3. occurrences[e[1]] <= occurrences'[e[1]]
      BY <3>1, <3>2, <1>1, <1>3
    <3> QED
      BY <3>1, <3>2, <3>3
  <2>2. CASE e \notin evidence
    <3>1. e = <<s, job[s].occurrence>> /\ job[s].status = "running"
      BY <2>2
    <3>2. job[s].occurrence = occurrences[s] /\ occurrences[s] > 0
      BY <3>1, <1>4 DEF RowOK
    <3> QED
      BY <3>1, <3>2, <1>1, <1>3
  <2> QED
    BY <2>1, <2>2
<1>11. EvidenceIsFinal'
  <2> SUFFICES ASSUME NEW t \in Slots, <<t, job'[t].occurrence>> \in evidence'
               PROVE  job'[t].status \in Final
    BY DEF EvidenceIsFinal, Final
  <2>1. CASE t = s
    BY <2>1, <1>2
  <2>2. CASE t # s
    BY <2>2, <1>2 DEF RowsInv, EvidenceIsFinal, Final
  <2> QED
    BY <2>1, <2>2
<1>12. LatestAccepted'
  BY <1>2 DEF RowsInv, LatestAccepted, Latest
<1> QED
  BY <1>5, <1>6, <1>7, <1>8, <1>9, <1>10, <1>11, <1>12 DEF RowsInv

\* A step that leaves the queue alone, or only ends claims.
LEMMA ClaimsEnd ==
  ASSUME RowsInv,
         UNCHANGED <<job, evidence, occurrences, tokens, accepted>>,
         claims' \in [Workers -> SUBSET Claim],
         \A w \in Workers : claims'[w] \subseteq claims[w]
  PROVE  RowsInv'
<1>1. QueueOK' /\ RowsOK' /\ EvidenceBounded' /\ EvidenceIsFinal' /\ LatestAccepted'
  BY DEF RowsInv, QueueOK, RowsOK, EvidenceBounded, EvidenceIsFinal, LatestAccepted
<1>2. TokensOK' /\ ClaimsUnique' /\ ClaimsKnow'
  BY DEF RowsInv, TokensOK, ClaimsUnique, ClaimsKnow
<1> QED
  BY <1>1, <1>2 DEF RowsInv
-----------------------------------------------------------------------------
(***************************************************************************)
(* The steps of enqueue.                                                   *)
(***************************************************************************)

\* What RowsInv says of one slot, in the form the step lemmas use.
LEMMA RowFacts ==
  ASSUME RowsInv, NEW s \in Slots
  PROVE  /\ RowOK(job[s], occurrences[s]) /\ job[s] \in Row
         /\ occurrences[s] \in Nat /\ occurrences[s] + 1 \in Nat
         /\ occurrences[s] + 1 > 0
         /\ <<s, occurrences[s] + 1>> \notin evidence
         /\ <<s, 0>> \notin evidence
         /\ <<s, job[s].occurrence>> \in evidence => job[s].status \in Final
         /\ Latest(job[s], accepted[s])
         /\ occurrences = [occurrences EXCEPT ![s] = occurrences[s]]
         /\ job = [job EXCEPT ![s] = job[s]]
         /\ claims \in [Workers -> SUBSET Claim]
         /\ accepted \in [Slots -> Payloads \cup {None}]
<1>1. /\ RowOK(job[s], occurrences[s]) /\ job[s] \in Row
      /\ occurrences[s] \in Nat /\ occurrences[s] + 1 \in Nat
      /\ occurrences[s] + 1 > 0
  BY DEF RowsInv, RowsOK, QueueOK
<1>2. \A e \in evidence : e[1] = s => 0 < e[2] /\ e[2] <= occurrences[s]
  BY DEF RowsInv, EvidenceBounded
<1>3. <<s, occurrences[s] + 1>> \notin evidence
  <2> SUFFICES ASSUME <<s, occurrences[s] + 1>> \in evidence PROVE FALSE
    OBVIOUS
  <2>1. occurrences[s] + 1 <= occurrences[s]
    BY <1>2
  <2> QED
    BY <2>1, <1>1
<1>4. <<s, 0>> \notin evidence
  BY <1>2
<1>5. /\ <<s, job[s].occurrence>> \in evidence => job[s].status \in Final
      /\ Latest(job[s], accepted[s])
  BY DEF RowsInv, EvidenceIsFinal, LatestAccepted, Final, Latest
<1>6. /\ occurrences = [occurrences EXCEPT ![s] = occurrences[s]]
      /\ job = [job EXCEPT ![s] = job[s]]
      /\ claims \in [Workers -> SUBSET Claim]
      /\ accepted \in [Slots -> Payloads \cup {None}]
  BY DEF RowsInv, QueueOK
<1> QED
  BY <1>1, <1>3, <1>4, <1>5, <1>6

\* A fresh row of the next occurrence may replace whatever the slot held.
LEMMA FreshMove ==
  ASSUME RowsInv, NEW s \in Slots, NEW p \in Payloads,
         NEW t \in {"future", "past"},
         job' = [job EXCEPT ![s] = FreshAt(p, occurrences[s] + 1, t)],
         NewOccurrence(s), UNCHANGED <<evidence, tokens, claims>>,
         accepted' \in [Slots -> Payloads \cup {None}],
         \A u \in Slots \ {s} : accepted'[u] = accepted[u],
         accepted'[s] = p
  PROVE  RowsInv'
<1> DEFINE m == occurrences[s] + 1
           new == FreshAt(p, m, t)
<1>1. /\ new.status = "pending" /\ new.claimToken = 0 /\ new.occurrence = m
      /\ new.deferred = None /\ new.payload = p
  BY DEF FreshAt
<1>2. RowOK(new, m)
  BY RowFacts, FreshAtOK
<1>3. m = occurrences[s] + 1 /\ <<s, m>> \notin evidence
  BY RowFacts
<1>4. job' = [job EXCEPT ![s] = new] /\ occurrences' = [occurrences EXCEPT ![s] = m]
  BY DEF NewOccurrence
<1> HIDE DEF m, new
<1>5. RowMove(s, new, m)
  BY <1>1, <1>2, <1>3, <1>4, RowFacts DEF RowMove, Latest
<1> QED
  BY <1>5, RowMoveInv

LEMMA InsertStep ==
  ASSUME RowsInv, NEW s \in Slots, NEW p \in Payloads, Insert(s, p),
         UNCHANGED <<evidence, tokens, claims>>
  PROVE  RowsInv'
<1>1. /\ accepted' \in [Slots -> Payloads \cup {None}] /\ accepted'[s] = p
      /\ \A u \in Slots \ {s} : accepted'[u] = accepted[u]
  BY RowFacts DEF Insert
<1> QED
  BY <1>1, FreshMove DEF Insert, Fresh

\* Every step of an enqueue transaction keeps the rows right.
LEMMA EnqueueStep ==
  ASSUME IInv, NEW e \in Enqueuers, EnqueueNext(e)
  PROVE  RowsInv'
<1> USE DEF IInv
<1>1. ASSUME NEW s \in Slots, NEW p \in Payloads, NEW replace \in BOOLEAN,
             Enqueue(e, s, p, replace)
      PROVE  RowsInv'
  <2>1. CASE job[s].status = "absent" /\ Insert(s, p)
    BY <1>1, <2>1, InsertStep DEF Enqueue
  <2>2. CASE UNCHANGED <<job, occurrences, accepted>>
    BY <1>1, <2>2, RowFacts, ClaimsEnd DEF Enqueue
  <2> QED
    BY <1>1, <2>1, <2>2 DEF Enqueue
<1>2. ASSUME enq[e].pc # "idle"
      PROVE  enq[e].slot \in Slots /\ enq[e].payload \in Payloads
  BY <1>2, QueueAssumption DEF CallsOK, Call, Idle
<1>3. ASSUME UNCHANGED <<job, evidence, occurrences, tokens, claims, accepted>>
      PROVE  RowsInv'
  <2>1. claims \in [Workers -> SUBSET Claim]
    BY DEF RowsInv, QueueOK
  <2> QED
    BY <1>3, <2>1, ClaimsEnd
<1>4. CASE DeleteExpired(e)
  BY <1>2, <1>3, <1>4, InsertStep DEF DeleteExpired
<1>5. CASE Reinsert(e)
  BY <1>2, <1>3, <1>5, InsertStep DEF Reinsert
<1>6. CASE SettleEnqueue(e)
  <2> DEFINE s == enq[e].slot
             p == enq[e].payload
             r == job[s]
             new == Replaced(r, p, occurrences[s] + 1)
             m == IF r.status = "running" THEN occurrences[s] ELSE occurrences[s] + 1
  <2>1. s \in Slots /\ p \in Payloads
    BY <1>2, <1>6 DEF SettleEnqueue
  <2>2. SUFFICES ASSUME r.status # "absent", job' = [job EXCEPT ![s] = new],
                        IF r.status = "running" THEN UNCHANGED occurrences
                                                ELSE NewOccurrence(s),
                        accepted' = IF r.status = "running" /\ r.cancel THEN accepted
                                    ELSE [accepted EXCEPT ![s] = p],
                        UNCHANGED <<evidence, tokens, claims>>
                 PROVE  RowsInv'
    BY <1>3, <1>6 DEF SettleEnqueue
  <2>3. CASE r.status # "running"
    <3>1. new = FreshAt(p, occurrences[s] + 1, "future")
      BY <2>3 DEF Replaced, Fresh
    <3>2. /\ accepted' \in [Slots -> Payloads \cup {None}] /\ accepted'[s] = p
          /\ \A u \in Slots \ {s} : accepted'[u] = accepted[u]
      BY <2>1, <2>2, <2>3, RowFacts
    <3> QED
      BY <2>1, <2>2, <2>3, <3>1, <3>2, FreshMove
  <2>4. CASE r.status = "running"
    <3> DEFINE d == IF r.cancel THEN None ELSE p
    <3>1. r \in Row /\ new = [r EXCEPT !.deferred = d] /\ p # None
      BY <2>1, <2>4, RowFacts, QueueAssumption DEF Replaced
    <3>2. /\ SameClaim(r, new) /\ new.status = r.status /\ new.cancel = r.cancel
          /\ new.deferred = d
      BY <3>1 DEF Row, SameClaim
    <3>3. RowOK(new, m)
      BY <2>1, <2>2, <2>4, ReplacedOK, RowFacts
    <3>4. /\ accepted' \in [Slots -> Payloads \cup {None}]
          /\ \A u \in Slots \ {s} : accepted'[u] = accepted[u]
          /\ ~r.cancel => accepted'[s] = p
      BY <2>1, <2>2, RowFacts
    <3>5. occurrences' = [occurrences EXCEPT ![s] = m] /\ m = occurrences[s]
      BY <2>1, <2>2, <2>4, RowFacts
    <3>6. RowMove(s, new, m)
      <4>1. <<s, new.occurrence>> \in evidence' => new.status \in Final
        BY <2>1, <2>2, <3>2, RowFacts DEF SameClaim
      <4>2. Latest(new, accepted'[s])
        BY <3>1, <3>2, <3>4 DEF Latest
      <4> HIDE DEF s, p, new, m
      <4> QED
        BY <2>1, <2>2, <3>2, <3>3, <3>4, <3>5, <4>1, <4>2, RowFacts DEF RowMove
    <3> HIDE DEF s, p, new, m
    <3> QED
      BY <2>1, <3>6, RowMoveInv
  <2> QED
    BY <2>3, <2>4
<1> QED
  BY <1>1, <1>4, <1>5, <1>6 DEF EnqueueNext
-----------------------------------------------------------------------------
(***************************************************************************)
(* The steps of the workers.                                               *)
(***************************************************************************)

\* The batch of a claim moves to running under new tokens; the claims handed
\* out know their rows, and older claims on those rows never will again.
LEMMA ClaimStep ==
  ASSUME RowsInv, NEW w \in Workers, NEW S \in SUBSET Slots, ClaimJobs(w, S)
  PROVE  RowsInv'
<1> DEFINE G == {Granted(s) : s \in S}
           Taken(s) == [job[s] EXCEPT !.status = "running",
                           !.claimToken = NextToken(s), !.lease = "future",
                           !.attempts = @ + 1]
<1>1. \A s \in S : /\ s \in Slots /\ job[s].status = "pending"
                   /\ tokens[s] \in Nat /\ NextToken(s) \in Nat
                   /\ NextToken(s) > 0 /\ NextToken(s) = tokens[s] + 1
  <2> TAKE s \in S
  <2>1. s \in Slots /\ job[s].status = "pending"
    BY DEF ClaimJobs, Claimable
  <2>2. tokens[s] \in Nat
    BY <2>1 DEF RowsInv, QueueOK
  <2> QED
    BY <2>1, <2>2 DEF NextToken
<1>2. \A s \in Slots : RowOK(job[s], occurrences[s]) /\ job[s] \in Row
                       /\ occurrences[s] \in Nat /\ tokens[s] \in Nat
  BY DEF RowsInv, RowsOK, QueueOK
<1>3. \A s \in S : RowOK(Taken(s), occurrences[s])
  BY <1>1, <1>2, ClaimedOK
<1>4. \A s \in S : /\ Taken(s).status = "running" /\ Taken(s).lease = "future"
                   /\ Taken(s).claimToken = NextToken(s)
                   /\ Taken(s).attempts = job[s].attempts + 1
                   /\ Taken(s).occurrence = job[s].occurrence
                   /\ Taken(s).payload = job[s].payload
                   /\ Taken(s).deferred = job[s].deferred
                   /\ Taken(s).cancel = job[s].cancel
  <2> SUFFICES ASSUME NEW s \in S
               PROVE  /\ Taken(s).status = "running" /\ Taken(s).lease = "future"
                      /\ Taken(s).claimToken = NextToken(s)
                      /\ Taken(s).attempts = job[s].attempts + 1
                      /\ Taken(s).occurrence = job[s].occurrence
                      /\ Taken(s).payload = job[s].payload
                      /\ Taken(s).deferred = job[s].deferred
                      /\ Taken(s).cancel = job[s].cancel
    OBVIOUS
  <2> DEFINE r == job[s]
  <2>1. r \in Row
    BY <1>1, <1>2
  <2> QED
    BY <2>1 DEF Row
<1>5. /\ job' = [s \in Slots |-> IF s \in S THEN Taken(s) ELSE job[s]]
      /\ tokens' = [s \in Slots |-> IF s \in S THEN NextToken(s) ELSE tokens[s]]
      /\ claims' = [claims EXCEPT ![w] = @ \cup G]
      /\ UNCHANGED <<evidence, occurrences, accepted>>
  BY DEF ClaimJobs
<1> HIDE DEF Taken
<1>6. \A s \in Slots : /\ s \in S => job'[s] = Taken(s) /\ tokens'[s] = NextToken(s)
                       /\ s \notin S => job'[s] = job[s] /\ tokens'[s] = tokens[s]
  BY <1>5
<1>7. \A c \in G : c \in Claim /\ c.slot \in S /\ c.token = NextToken(c.slot)
                   /\ c.occurrence = job[c.slot].occurrence
                   /\ c.attempts = job[c.slot].attempts + 1
                   /\ c.payload = job[c.slot].payload
                   /\ c = Granted(c.slot)
  <2> SUFFICES ASSUME NEW s \in S PROVE Granted(s) \in Claim
    BY DEF Granted
  <2>1. /\ job[s].occurrence \in Nat /\ job[s].attempts + 1 \in Nat
        /\ NextToken(s) \in Nat /\ s \in Slots
    BY <1>1, <1>2 DEF Row
  <2>2. job[s].payload \in Payloads
    BY <1>1, <1>2 DEF Row, RowOK
  <2> QED
    BY <2>1, <2>2 DEF Granted, Claim
<1>8. \A v \in Workers : \A c \in claims[v] :
        /\ c \in Claim /\ c.slot \in Slots /\ c.token \in Nat
        /\ 0 < c.token /\ c.token <= tokens[c.slot]
  BY DEF RowsInv, QueueOK, TokensOK, Claim
<1>9. \A v \in Workers : claims'[v] = IF v = w THEN claims[v] \cup G ELSE claims[v]
  BY <1>5 DEF RowsInv, QueueOK
<1> HIDE DEF G
<1>10. QueueOK'
  <2>1. job' \in [Slots -> Row]
    BY <1>2, <1>3, <1>5 DEF RowOK
  <2>2. tokens' \in [Slots -> Nat]
    BY <1>1, <1>2, <1>5
  <2>3. claims' \in [Workers -> SUBSET Claim]
    BY <1>5, <1>7 DEF RowsInv, QueueOK
  <2> QED
    BY <1>5, <2>1, <2>2, <2>3 DEF RowsInv, QueueOK
<1>11. RowsOK'
  BY <1>2, <1>3, <1>5, <1>6 DEF RowsOK
<1>12. TokensOK'
  <2>1. \A s \in Slots : job'[s].claimToken <= tokens'[s]
    BY <1>1, <1>4, <1>6 DEF RowsInv, TokensOK
  <2>2. \A s \in Slots : tokens[s] <= tokens'[s]
    BY <1>1, <1>2, <1>6
  <2>3. ASSUME NEW v \in Workers, NEW c \in claims'[v]
        PROVE  0 < c.token /\ c.token <= tokens'[c.slot]
    <3>1. CASE c \in claims[v]
      <4>1. /\ c.slot \in Slots /\ c.token \in Nat /\ 0 < c.token
            /\ c.token <= tokens[c.slot]
        BY <3>1, <1>8
      <4>2. tokens[c.slot] \in Nat /\ tokens'[c.slot] \in Nat
        BY <4>1, <1>1, <1>2, <1>6
      <4> QED
        BY <4>1, <4>2, <2>2
    <3>2. CASE c \in G
      BY <3>2, <1>1, <1>6, <1>7
    <3> QED
      BY <3>1, <3>2, <1>9
  <2> QED
    BY <2>1, <2>3 DEF TokensOK
<1>13. \A v \in Workers : \A c \in claims[v], g \in G :
         ~(c.slot = g.slot /\ c.token = g.token)
  BY <1>1, <1>7, <1>8
<1>14. ClaimsUnique'
  <2> SUFFICES ASSUME NEW w1 \in Workers, NEW w2 \in Workers,
                      NEW c1 \in claims'[w1], NEW c2 \in claims'[w2],
                      c1.slot = c2.slot, c1.token = c2.token
               PROVE  w1 = w2 /\ c1 = c2
    BY DEF ClaimsUnique
  <2>1. CASE c1 \in claims[w1] /\ c2 \in claims[w2]
    BY <2>1 DEF RowsInv, ClaimsUnique
  <2>2. CASE c1 \in claims[w1] /\ c2 \in G
    BY <2>2, <1>13
  <2>3. CASE c1 \in G /\ c2 \in claims[w2]
    BY <2>3, <1>13
  <2>4. CASE c1 \notin claims[w1] /\ c2 \notin claims[w2]
    <3>1. w1 = w /\ w2 = w /\ c1 \in G /\ c2 \in G
      BY <2>4, <1>9
    <3>2. c1 = Granted(c1.slot) /\ c2 = Granted(c2.slot)
      BY <3>1, <1>7
    <3> QED
      BY <3>1, <3>2
  <2> QED
    BY <2>1, <2>2, <2>3, <2>4, <1>9
<1>15. ClaimsKnow'
  <2> SUFFICES ASSUME NEW v \in Workers, NEW c \in claims'[v],
                      c.token = job'[c.slot].claimToken
               PROVE  /\ c.occurrence = job'[c.slot].occurrence
                      /\ c.attempts = job'[c.slot].attempts
                      /\ c.payload = job'[c.slot].payload
    BY DEF ClaimsKnow
  <2>1. CASE c \in G
    BY <2>1, <1>1, <1>4, <1>6, <1>7
  <2>2. CASE c \in claims[v] /\ c.slot \in S
    BY <2>2, <1>1, <1>4, <1>6, <1>8
  <2>3. CASE c \in claims[v] /\ c.slot \notin S
    BY <2>3, <1>6, <1>8 DEF RowsInv, ClaimsKnow
  <2> QED
    BY <2>1, <2>2, <2>3, <1>9
<1>16. EvidenceBounded' /\ EvidenceIsFinal' /\ LatestAccepted'
  <2>1. \A s \in S : <<s, job[s].occurrence>> \notin evidence
    BY <1>1 DEF RowsInv, EvidenceIsFinal
  <2>2. EvidenceBounded' /\ EvidenceIsFinal'
    BY <2>1, <1>4, <1>5, <1>6 DEF RowsInv, EvidenceBounded, EvidenceIsFinal
  <2>3. LatestAccepted'
    <3> SUFFICES ASSUME NEW s \in Slots PROVE Latest(job'[s], accepted'[s])
      BY DEF LatestAccepted, Latest
    <3>1. Latest(job[s], accepted[s])
      BY RowFacts
    <3>2. CASE s \in S
      BY <3>1, <3>2, <1>1, <1>4, <1>5, <1>6 DEF Latest
    <3>3. CASE s \notin S
      BY <3>1, <3>3, <1>5, <1>6
    <3> QED
      BY <3>2, <3>3
  <2> QED
    BY <2>2, <2>3
<1> QED
  BY <1>10, <1>11, <1>12, <1>14, <1>15, <1>16 DEF RowsInv

\* A running row settles: `outcome` is what the occurrence comes to by itself.
LEMMA SettleMove ==
  ASSUME RowsInv, NEW s \in Slots, job[s].status = "running",
         NEW outcome,
         outcome.claimToken = 0, outcome.deferred = None,
         outcome.payload = job[s].payload, outcome.occurrence = job[s].occurrence,
         ~job[s].cancel => RowOK(outcome, occurrences[s]),
         job' = [job EXCEPT ![s] = Settled(job[s], outcome, occurrences[s] + 1)],
         IF Promotes(job[s]) THEN NewOccurrence(s) ELSE UNCHANGED occurrences,
         \/ evidence' = evidence
         \/ /\ evidence' = evidence \cup {<<s, job[s].occurrence>>}
            /\ outcome.status = "quarantined",
         claims' \in [Workers -> SUBSET Claim],
         \A w \in Workers : claims'[w] \subseteq claims[w],
         UNCHANGED <<tokens, accepted>>
  PROVE  RowsInv'
<1> DEFINE r == job[s]
           n == occurrences[s]
           new == Settled(r, outcome, n + 1)
           m == IF Promotes(r) THEN n + 1 ELSE n
<1>1. RowOK(new, m)
  BY SettledOK, RowFacts
<1>2. occurrences' = [occurrences EXCEPT ![s] = m] /\ (m = n \/ m = n + 1)
  BY RowFacts DEF NewOccurrence
<1>3. r.occurrence = n /\ n \in Nat /\ <<s, n>> \notin evidence /\ n + 1 # n
  <2>1. r.occurrence = n /\ n \in Nat
    BY RowFacts DEF RowOK
  <2>2. <<s, r.occurrence>> \notin evidence
    BY RowFacts DEF Final
  <2> QED
    BY <2>1, <2>2
<1>4. new.claimToken = 0
  <2>1. r \in Row
    BY RowFacts
  <2>2. Cancelled(r).claimToken = 0
    BY <2>1 DEF Cancelled, Released, Row
  <2>3. Fresh(r.deferred, n + 1).claimToken = 0
    BY DEF Fresh, FreshAt
  <2> QED
    BY <2>2, <2>3 DEF Settled
<1>5. <<s, new.occurrence>> \in evidence' => new.status \in Final
  <2>1. CASE r.cancel
    BY <2>1, RowFacts DEF Settled, Cancelled, Released, Final, Row
  <2>2. CASE Promotes(r)
    <3>1. new.occurrence = n + 1
      BY <2>2 DEF Promotes, Settled, Fresh, FreshAt
    <3> QED
      BY <3>1, <1>3, RowFacts
  <2>3. CASE ~r.cancel /\ r.deferred = None
    BY <2>3, <1>3 DEF Settled, Final
  <2> QED
    BY <2>1, <2>2, <2>3 DEF Promotes
<1>6. Latest(new, accepted'[s])
  <2>1. Latest(r, accepted[s]) /\ r \in Row
    BY RowFacts
  <2>2. CASE r.cancel
    BY <2>1, <2>2 DEF Settled, Cancelled, Released, Latest, Row
  <2>3. CASE Promotes(r)
    BY <2>1, <2>3 DEF Promotes, Settled, Fresh, FreshAt, Latest
  <2>4. CASE ~r.cancel /\ r.deferred = None
    BY <2>1, <2>4 DEF Settled, Latest
  <2> QED
    BY <2>2, <2>3, <2>4 DEF Promotes
<1> HIDE DEF new, m
<1>7. RowMove(s, new, m)
  BY <1>1, <1>2, <1>3, <1>4, <1>5, <1>6, RowFacts DEF RowMove, new, m
<1> QED
  BY <1>7, RowMoveInv

\* Released and Retried, as outcomes.
LEMMA OutcomeFacts ==
  ASSUME NEW r \in Row, NEW st
  PROVE  /\ LET x == Released(r, st) IN
              /\ x.claimToken = 0 /\ x.deferred = None /\ x.status = st
              /\ x.payload = r.payload /\ x.occurrence = r.occurrence
         /\ LET x == Retried(r) IN
              /\ x.claimToken = 0 /\ x.deferred = None
              /\ x.payload = r.payload /\ x.occurrence = r.occurrence
         /\ LET x == [Released(r, st) EXCEPT !.retain = "future",
                                             !.dedupe = "future"] IN
              /\ x.claimToken = 0 /\ x.deferred = None
              /\ x.payload = r.payload /\ x.occurrence = r.occurrence
BY DEF Released, Retried, Row

\* The three settlements of a claim: complete, fail and quarantine.
LEMMA FinishStep ==
  ASSUME RowsInv, NEW w \in Workers, NEW c \in claims[w], Finish(w, c)
  PROVE  RowsInv'
<1> DEFINE s == c.slot
           r == job[s]
<1>1. /\ c \in Claim /\ s \in Slots /\ r \in Row /\ claims \in [Workers -> SUBSET Claim]
  BY DEF RowsInv, QueueOK, Claim
<1>2. /\ StopWorker(w) => /\ claims' \in [Workers -> SUBSET Claim]
                          /\ \A v \in Workers : claims'[v] \subseteq claims[v]
      /\ ReleaseClaim(w, c) => /\ claims' \in [Workers -> SUBSET Claim]
                               /\ \A v \in Workers : claims'[v] \subseteq claims[v]
      /\ claims' = [claims EXCEPT ![w] = {}] =>
           /\ claims' \in [Workers -> SUBSET Claim]
           /\ \A v \in Workers : claims'[v] \subseteq claims[v]
  BY <1>1 DEF StopWorker, ReleaseClaim
<1>3. CASE LostFence(w, c)
  BY <1>2, <1>3, ClaimsEnd DEF LostFence, StopWorker
<1>4. ASSUME Owns(c)
      PROVE  /\ r.status = "running" /\ c.attempts = r.attempts
             /\ c.payload = r.payload /\ c.occurrence = r.occurrence
             /\ RowOK(r, occurrences[s]) /\ occurrences[s] \in Nat
  BY <1>1, <1>4, RowFacts DEF Owns, RowsInv, ClaimsKnow
<1>5. CASE Complete(w, c)
  <2> DEFINE done == [Released(r, "completed") EXCEPT !.retain = "future",
                                                      !.dedupe = "future"]
             new == Settled(r, done, occurrences[s] + 1)
  <2>1. /\ Owns(c) /\ ReleaseClaim(w, c) /\ UNCHANGED <<evidence, tokens, accepted>>
        /\ IF Promotes(r) THEN NewOccurrence(s) ELSE UNCHANGED occurrences
        /\ job' = [job EXCEPT ![s] = IF r.deferred = None THEN new
                     ELSE [new EXCEPT !.retain = "null", !.dedupe = "null"]]
    BY <1>5 DEF Complete, SettleClaim
  <2>2. r.deferred # None =>
          [new EXCEPT !.retain = "null", !.dedupe = "null"] = new
    <3> SUFFICES ASSUME r.deferred # None
                 PROVE  [new EXCEPT !.retain = "null", !.dedupe = "null"] = new
      OBVIOUS
    <3>1. new = Fresh(r.deferred, occurrences[s] + 1) /\ r.deferred \in Payloads
      BY <2>1, <1>1, <1>4 DEF RowOK, Settled, Row
    <3>2. new \in Row
      <4>1. occurrences[s] + 1 \in Nat /\ occurrences[s] + 1 > 0
        BY <1>1, RowFacts
      <4>2. RowOK(Fresh(r.deferred, occurrences[s] + 1), occurrences[s] + 1)
        BY <3>1, <4>1, FreshOK
      <4> QED
        BY <3>1, <4>2 DEF RowOK
    <3>3. new.retain = "null" /\ new.dedupe = "null"
      BY <3>1 DEF Fresh, FreshAt
    <3> HIDE DEF new
    <3> QED
      BY <3>2, <3>3 DEF Row
  <2>3. job' = [job EXCEPT ![s] = new]
    BY <2>1, <2>2
  <2>4. ~r.cancel => RowOK(done, occurrences[s])
    BY <2>1, <1>4, OutcomesOK
  <2>5. /\ done.claimToken = 0 /\ done.deferred = None
        /\ done.payload = r.payload /\ done.occurrence = r.occurrence
    BY <1>1, OutcomeFacts
  <2> HIDE DEF s, done
  <2> QED
    BY <1>1, <1>2, <1>4, <2>1, <2>3, <2>4, <2>5, SettleMove
<1>6. ASSUME NEW permanent \in BOOLEAN, Fail(w, c, permanent)
      PROVE  RowsInv'
  <2> DEFINE failed == IF permanent \/ UsedUp(c.attempts, c.payload)
                       THEN Released(r, "dead") ELSE Retried(r)
  <2>1. /\ Owns(c) /\ ReleaseClaim(w, c) /\ UNCHANGED <<evidence, tokens, accepted>>
        /\ IF Promotes(r) THEN NewOccurrence(s) ELSE UNCHANGED occurrences
        /\ job' = [job EXCEPT ![s] = Settled(r, failed, occurrences[s] + 1)]
    BY <1>6 DEF Fail, SettleClaim
  <2>2. ~r.cancel => RowOK(failed, occurrences[s])
    BY <2>1, <1>4, OutcomesOK
  <2>3. /\ failed.claimToken = 0 /\ failed.deferred = None
        /\ failed.payload = r.payload /\ failed.occurrence = r.occurrence
    BY <1>1, OutcomeFacts
  <2> HIDE DEF s, failed
  <2> QED
    BY <1>1, <1>2, <1>4, <2>1, <2>2, <2>3, SettleMove
<1>7. CASE Quarantine(w, c)
  <2> DEFINE failed == Released(r, "quarantined")
  <2>1. /\ Owns(c) /\ UNCHANGED <<tokens, accepted>>
        /\ IF Promotes(r) THEN NewOccurrence(s) ELSE UNCHANGED occurrences
        /\ job' = [job EXCEPT ![s] = Settled(r, failed, occurrences[s] + 1)]
        /\ evidence' = evidence \cup {<<s, c.occurrence>>}
        /\ \/ claims' = [claims EXCEPT ![w] = {}]
           \/ ReleaseClaim(w, c)
    BY <1>7 DEF Quarantine, SettleClaim
  <2>2. ~r.cancel => RowOK(failed, occurrences[s])
    BY <2>1, <1>4, OutcomesOK
  <2>3. /\ failed.claimToken = 0 /\ failed.deferred = None
        /\ failed.payload = r.payload /\ failed.occurrence = r.occurrence
        /\ failed.status = "quarantined"
    BY <1>1, OutcomeFacts
  <2> HIDE DEF s, failed
  <2> QED
    BY <1>1, <1>2, <1>4, <2>1, <2>2, <2>3, SettleMove
<1> QED
  BY <1>3, <1>5, <1>6, <1>7 DEF Finish

\* A heartbeat only moves the lease of a row its worker owns.
LEMMA HeartbeatStep ==
  ASSUME RowsInv, NEW w \in Workers, NEW c \in claims[w], Heartbeat(w, c)
  PROVE  RowsInv'
<1> DEFINE s == c.slot
           new == [job[s] EXCEPT !.lease = "future"]
<1>1. s \in Slots
  BY DEF RowsInv, QueueOK, Claim
<1>2. /\ job[s].status = "running"
      /\ UNCHANGED <<evidence, occurrences, tokens, claims, accepted>>
      /\ job' = [job EXCEPT ![s] = new]
  BY <1>1 DEF Heartbeat, Owns, RowsInv, QueueOK
<1>3. RowOK(new, occurrences[s])
  BY <1>1, <1>2, RowFacts, LeaseOK
<1> HIDE DEF s
<1>4. /\ SameClaim(job[s], new) /\ new.status = job[s].status
      /\ new.deferred = job[s].deferred /\ new.cancel = job[s].cancel
  BY <1>1, RowFacts DEF Row, SameClaim
<1> HIDE DEF new
<1>5. RowMove(s, new, occurrences[s])
  BY <1>1, <1>2, <1>3, <1>4, RowFacts DEF RowMove, SameClaim, Latest
<1> QED
  BY <1>1, <1>5, RowMoveInv

LEMMA WorkerStep ==
  ASSUME RowsInv, NEW w \in Workers, WorkerNext(w)
  PROVE  RowsInv'
<1>1. CASE Crash(w)
  BY <1>1, ClaimsEnd DEF Crash, StopWorker, RowsInv, QueueOK
<1> QED
  BY <1>1, ClaimStep, HeartbeatStep, FinishStep DEF WorkerNext
-----------------------------------------------------------------------------
(***************************************************************************)
(* Maintenance, operator commands and the clock.                           *)
(***************************************************************************)

\* A step that changes one row and no other part of the queue.
LEMMA RowOnly ==
  ASSUME RowsInv, NEW s \in Slots, NEW new, job' = [job EXCEPT ![s] = new],
         RowOK(new, occurrences[s]),
         new.claimToken = 0 \/ SameClaim(job[s], new),
         <<s, new.occurrence>> \in evidence => new.status \in Final,
         Latest(new, accepted[s]),
         UNCHANGED <<evidence, occurrences, tokens, claims, accepted>>
  PROVE  RowsInv'
<1>1. RowMove(s, new, occurrences[s])
  BY RowFacts DEF RowMove
<1> QED
  BY <1>1, RowMoveInv

LEMMA MaintenanceStep ==
  ASSUME RowsInv, NEW s \in Slots, Maintenance(s)
  PROVE  RowsInv'
<1> DEFINE r == job[s]
<1>0. r \in Row /\ RowOK(r, occurrences[s]) /\ occurrences[s] \in Nat
  BY RowFacts
<1>1. CASE ReclaimStale(s)
  <2> DEFINE failed == IF UsedUp(r.attempts, r.payload)
                       THEN Released(r, "dead") ELSE Retried(r)
  <2>1. /\ r.status = "running"
        /\ UNCHANGED <<evidence, tokens, claims, accepted>>
        /\ IF Promotes(r) THEN NewOccurrence(s) ELSE UNCHANGED occurrences
        /\ job' = [job EXCEPT ![s] = Settled(r, failed, occurrences[s] + 1)]
    BY <1>1 DEF ReclaimStale
  <2>2. ~r.cancel => RowOK(failed, occurrences[s])
    BY <2>1, RowFacts, OutcomesOK
  <2>3. /\ failed.claimToken = 0 /\ failed.deferred = None
        /\ failed.payload = r.payload /\ failed.occurrence = r.occurrence
    BY <1>0, OutcomeFacts
  <2>4. claims' \in [Workers -> SUBSET Claim]
    BY <2>1, RowFacts
  <2> HIDE DEF failed
  <2> QED
    BY <2>1, <2>2, <2>3, <2>4, SettleMove
<1>2. ASSUME NEW new \in {Tombstone(r), Absent},
             r.status \in Finished \/ new = Absent,
             job' = [job EXCEPT ![s] = new],
             UNCHANGED <<evidence, occurrences, tokens, claims, accepted>>
      PROVE  RowsInv'
  <2>1. RowOK(new, occurrences[s])
    <3>1. CASE new = Absent
      BY <3>1, <1>0, AbsentOK
    <3>2. CASE new = Tombstone(r) /\ r.status \in Finished
      BY <3>2, <1>0, TombstoneOK
    <3> QED
      BY <1>2, <3>1, <3>2
  <2>2. /\ new.claimToken = 0
        /\ \/ new.status \in Final
           \/ new.status = "absent" /\ new.occurrence = 0
        /\ new.status \in {"dedupe_retained", "absent"}
    BY DEF Tombstone, Absent, Final
  <2> QED
    <3> SUFFICES ASSUME NEW x, x = new,
                        x.claimToken = 0,
                        <<s, x.occurrence>> \in evidence => x.status \in Final,
                        Latest(x, accepted[s]), RowOK(x, occurrences[s])
                 PROVE  RowsInv'
      BY <2>1, <2>2, RowFacts DEF Latest
    <3> QED
      BY <1>2, RowOnly
<1>3. CASE CleanupExpired(s)
  BY <1>2, <1>3 DEF CleanupExpired, Finished
<1> QED
  BY <1>1, <1>3 DEF Maintenance

\* A reopened row: the same payload, due at t, under occurrence o.
LEMMA ReopenStep ==
  ASSUME RowsInv, NEW s \in Slots,
         job[s].status \in {"dead", "completed", "quarantined"},
         NEW t \in {"future", "past"},
         \/ /\ job' = [job EXCEPT ![s] = FreshAt(job[s].payload,
                                                 job[s].occurrence, t)]
            /\ job[s].status = "dead"
            /\ UNCHANGED occurrences
         \/ /\ job' = [job EXCEPT ![s] = FreshAt(job[s].payload,
                                                 occurrences[s] + 1, t)]
            /\ NewOccurrence(s),
         UNCHANGED <<evidence, tokens, claims, accepted>>
  PROVE  RowsInv'
<1>1. /\ job[s].payload \in Payloads /\ accepted[s] = job[s].payload
      /\ job[s].occurrence = occurrences[s] /\ occurrences[s] > 0
      /\ occurrences[s] \in Nat
  BY RowFacts DEF RowOK, Row, Latest
<1>2. CASE NewOccurrence(s) /\ job' = [job EXCEPT ![s] =
                 FreshAt(job[s].payload, occurrences[s] + 1, t)]
  <2>1. /\ accepted' \in [Slots -> Payloads \cup {None}]
        /\ \A u \in Slots \ {s} : accepted'[u] = accepted[u]
        /\ accepted'[s] = job[s].payload
    BY <1>1, RowFacts
  <2> QED
    BY <1>1, <1>2, <2>1, FreshMove
<1>3. CASE UNCHANGED occurrences /\ job[s].status = "dead" /\ job' =
        [job EXCEPT ![s] = FreshAt(job[s].payload, job[s].occurrence, t)]
  <2> DEFINE new == FreshAt(job[s].payload, job[s].occurrence, t)
  <2>1. RowOK(new, occurrences[s])
    BY <1>1, FreshAtOK
  <2>2. /\ new.claimToken = 0 /\ new.occurrence = job[s].occurrence
        /\ new.deferred = None /\ new.payload = job[s].payload
    BY DEF FreshAt
  <2>3. <<s, job[s].occurrence>> \notin evidence
    BY <1>3, RowFacts DEF Final
  <2> HIDE DEF new
  <2> QED
    BY <1>1, <1>3, <2>1, <2>2, <2>3, RowOnly DEF Latest, new
<1> QED
  BY <1>2, <1>3

LEMMA OperatorStep ==
  ASSUME RowsInv, NEW s \in Slots, Operator(s)
  PROVE  RowsInv'
<1> DEFINE r == job[s]
<1>0. r \in Row /\ RowOK(r, occurrences[s]) /\ occurrences[s] \in Nat
  BY RowFacts
<1>1. CASE Cancel(s)
  <2>1. UNCHANGED <<evidence, occurrences, tokens, claims, accepted>>
    BY <1>1 DEF Cancel, Command
  <2>2. CASE r.status = "pending" /\ job' = [job EXCEPT ![s] = Cancelled(r)]
    <3> DEFINE new == Cancelled(r)
    <3>1. RowOK(new, occurrences[s])
      BY <1>0, <2>2, CancelOK
    <3>2. new.claimToken = 0 /\ new.status = "cancelled"
      BY <1>0 DEF Cancelled, Released, Row
    <3> HIDE DEF new
    <3> QED
      BY <2>1, <2>2, <3>1, <3>2, RowOnly DEF Latest, Final, new
  <2>3. CASE r.status = "running" /\ job' =
               [job EXCEPT ![s].cancel = TRUE, ![s].deferred = None]
    <3> DEFINE new == [r EXCEPT !.cancel = TRUE, !.deferred = None]
    <3>1. RowOK(new, occurrences[s])
      BY <1>0, <2>3, CancelOK
    <3>2. SameClaim(r, new) /\ new.cancel
      BY <1>0 DEF SameClaim, Row
    <3>3. <<s, new.occurrence>> \notin evidence
      BY <2>3, <3>2, RowFacts DEF SameClaim, Final
    <3>4. job' = [job EXCEPT ![s] = new]
      BY <2>3 DEF RowsInv, QueueOK
    <3> HIDE DEF new
    <3> QED
      BY <2>1, <3>1, <3>2, <3>3, <3>4, RowOnly DEF Latest
  <2> QED
    BY <1>1, <2>2, <2>3 DEF Cancel
<1>2. CASE RedriveQuarantined(s)
  <2>1. r.runAt \in {"future", "past"}
    BY <1>0, <1>2 DEF RowOK, Row, Stamp, RedriveQuarantined
  <2> QED
    BY <1>2, <2>1, ReopenStep DEF RedriveQuarantined, Command
<1>3. CASE RetryDead(s)
  BY <1>3, ReopenStep DEF RetryDead, Command
<1>4. CASE Requeue(s)
  BY <1>3, <1>4, ReopenStep DEF Requeue, Command
<1> QED
  BY <1>1, <1>2, <1>3, <1>4 DEF Operator

\* Time moves a stamp of a row, never what the row is.
LEMMA TimeStep ==
  ASSUME RowsInv, NEW s \in Slots, TimePasses(s)
  PROVE  RowsInv'
<1> DEFINE r == job[s]
<1>0. r \in Row /\ RowOK(r, occurrences[s])
  BY RowFacts
<1>1. ASSUME NEW new, RowOK(new, occurrences[s]), SameClaim(r, new),
             new.status = r.status, new.deferred = r.deferred,
             new.cancel = r.cancel, Passes(s, new)
      PROVE  RowsInv'
  BY <1>1, RowFacts, RowOnly DEF Passes, SameClaim, Latest
<1>2. CASE BecomesDue(s)
  <2> DEFINE new == [r EXCEPT !.runAt = "past"]
  <2>1. RowOK(new, occurrences[s])
    BY <1>2, RowFacts, PassedOK DEF BecomesDue
  <2>2. /\ SameClaim(r, new) /\ new.status = r.status
        /\ new.deferred = r.deferred /\ new.cancel = r.cancel
    BY <1>0 DEF Row, SameClaim
  <2> QED
    BY <1>1, <1>2, <2>1, <2>2 DEF BecomesDue
<1>3. CASE LeaseExpires(s)
  <2> DEFINE new == [r EXCEPT !.lease = "past"]
  <2>1. RowOK(new, occurrences[s])
    BY <1>3, RowFacts, PassedOK DEF LeaseExpires
  <2>2. /\ SameClaim(r, new) /\ new.status = r.status
        /\ new.deferred = r.deferred /\ new.cancel = r.cancel
    BY <1>0 DEF Row, SameClaim
  <2> QED
    BY <1>1, <1>3, <2>1, <2>2 DEF LeaseExpires
<1>4. CASE RetentionEnds(s)
  <2> DEFINE new == [r EXCEPT !.retain = "past"]
  <2>1. RowOK(new, occurrences[s])
    BY <1>4, RowFacts, PassedOK DEF RetentionEnds
  <2>2. /\ SameClaim(r, new) /\ new.status = r.status
        /\ new.deferred = r.deferred /\ new.cancel = r.cancel
    BY <1>0 DEF Row, SameClaim
  <2> QED
    BY <1>1, <1>4, <2>1, <2>2 DEF RetentionEnds
<1>5. CASE HorizonEnds(s)
  <2> DEFINE new == [r EXCEPT !.dedupe = "past"]
  <2>1. RowOK(new, occurrences[s])
    BY <1>5, RowFacts, PassedOK DEF HorizonEnds
  <2>2. /\ SameClaim(r, new) /\ new.status = r.status
        /\ new.deferred = r.deferred /\ new.cancel = r.cancel
    BY <1>0 DEF Row, SameClaim
  <2> QED
    BY <1>1, <1>5, <2>1, <2>2 DEF HorizonEnds
<1> QED
  BY <1>2, <1>3, <1>4, <1>5 DEF TimePasses
-----------------------------------------------------------------------------
(***************************************************************************)
(* The invariant and the theorems.                                         *)
(***************************************************************************)

\* enq and requests do not depend on the rows.
LEMMA CallsStep ==
  ASSUME IInv, [Next]_vars
  PROVE  CallsOK'
<1> USE QueueAssumption
<1>1. ASSUME UNCHANGED <<enq, requests>> PROVE CallsOK'
  BY <1>1 DEF IInv, CallsOK
<1>2. ASSUME NEW e \in Enqueuers, EnqueueNext(e) PROVE CallsOK'
  <2>1. ASSUME NEW s \in Slots, NEW p \in Payloads, NEW replace \in BOOLEAN,
               Enqueue(e, s, p, replace)
        PROVE  CallsOK'
    <3>1. requests' \in 0..MaxRequests
      BY <2>1 DEF IInv, CallsOK, Enqueue
    <3>2. CASE UNCHANGED enq
      BY <3>1, <3>2 DEF IInv, CallsOK
    <3>3. CASE s \in Keyed /\ enq' = [enq EXCEPT ![e] =
                 [pc |-> "delete", slot |-> s, payload |-> p,
                  replace |-> replace, late |-> FALSE]]
      BY <3>1, <3>3 DEF IInv, CallsOK, Call
    <3> QED
      BY <2>1, <3>2, <3>3 DEF Enqueue
  <2>2. CASE DeleteExpired(e)
    BY <2>2 DEF IInv, CallsOK, DeleteExpired, Call, Idle
  <2>3. CASE Reinsert(e)
    BY <2>3 DEF IInv, CallsOK, Reinsert, Call, Idle
  <2>4. CASE SettleEnqueue(e)
    BY <2>4 DEF IInv, CallsOK, SettleEnqueue, Call, Idle
  <2> QED
    BY <1>2, <2>1, <2>2, <2>3, <2>4 DEF EnqueueNext
<1>3. ASSUME NEW w \in Workers, WorkerNext(w) PROVE CallsOK'
  BY <1>1, <1>3 DEF WorkerNext, ClaimJobs, Heartbeat, Finish, Complete, Fail,
       Quarantine, SettleClaim, LostFence, Crash, StopWorker
<1>4. ASSUME NEW s \in Slots, Maintenance(s) \/ Operator(s) PROVE CallsOK'
  BY <1>1, <1>4 DEF IInv, CallsOK, Maintenance, ReclaimStale, CleanupExpired,
       Operator, Cancel, RedriveQuarantined, RetryDead, Requeue, Command
<1>5. ASSUME NEW s \in Slots, TimePasses(s) PROVE CallsOK'
  <2>1. CASE HorizonEnds(s)
    <3> DEFINE E(e) == IF enq[e] # Idle /\ enq[e].slot = s
                       THEN [enq[e] EXCEPT !.late = TRUE] ELSE enq[e]
    <3>1. /\ enq' = [e \in Enqueuers |-> E(e)]
          /\ UNCHANGED requests
      BY <2>1 DEF HorizonEnds, Passes
    <3>2. ASSUME NEW e \in Enqueuers PROVE E(e) \in Call \cup {Idle}
      <4>1. enq[e] \in Call \/ enq[e] = Idle
        BY DEF IInv, CallsOK
      <4> QED
        BY <4>1 DEF Call
    <3> HIDE DEF E
    <3> QED
      BY <3>1, <3>2 DEF IInv, CallsOK
  <2> QED
    BY <1>1, <1>5, <2>1 DEF TimePasses, BecomesDue, LeaseExpires, RetentionEnds,
         Passes
<1>6. CASE UNCHANGED vars
  BY <1>1, <1>6 DEF vars
<1> QED
  BY <1>2, <1>3, <1>4, <1>5, <1>6 DEF Next

LEMMA InitInv == Init => IInv
<1> SUFFICES ASSUME Init PROVE IInv
  OBVIOUS
<1>1. /\ \A s \in Slots : RowOK(Absent, 0) /\ Absent \in Row
      /\ Absent.status = "absent" /\ Absent.claimToken = 0
      /\ Absent.occurrence = 0
  BY AbsentOK DEF RowOK, Absent
<1>2. QueueOK /\ CallsOK
  BY <1>1, QueueAssumption DEF Init, QueueOK, CallsOK
<1>3. RowsOK /\ TokensOK /\ ClaimsUnique /\ ClaimsKnow
  BY <1>1 DEF Init, RowsOK, TokensOK, ClaimsUnique, ClaimsKnow
<1>4. EvidenceBounded /\ EvidenceIsFinal /\ LatestAccepted
  BY <1>1 DEF Init, EvidenceBounded, EvidenceIsFinal, LatestAccepted
<1> QED
  BY <1>2, <1>3, <1>4 DEF IInv, RowsInv

LEMMA NextInv == IInv /\ [Next]_vars => IInv'
<1> SUFFICES ASSUME IInv, [Next]_vars PROVE IInv'
  OBVIOUS
<1>1. ASSUME UNCHANGED vars PROVE RowsInv'
  <2>1. /\ UNCHANGED <<job, evidence, occurrences, tokens, accepted, claims>>
        /\ claims \in [Workers -> SUBSET Claim]
    BY <1>1 DEF vars, IInv, RowsInv, QueueOK
  <2> QED
    BY <2>1, ClaimsEnd DEF IInv
<1>2. RowsInv'
  BY <1>1, EnqueueStep, WorkerStep, MaintenanceStep, OperatorStep, TimeStep
  DEF Next, IInv
<1> QED
  BY <1>2, CallsStep DEF IInv

\* The invariant the properties follow from holds in every behaviour.
THEOREM Invariant == Spec => []IInv
BY InitInv, NextInv, PTL DEF Spec

\* Columns hold what the schema allows; the fence columns are set while running.
THEOREM TypeCorrect == Spec => []TypeOK
<1>1. IInv => TypeOK
  BY DEF IInv, RowsInv, QueueOK, CallsOK, RowsOK, RowOK, TypeOK
<1> QED
  BY <1>1, Invariant, PTL

\* No pending row is stuck: it falls due, is not cancelling, has an attempt left.
THEOREM NoPendingRowIsStuck == Spec => []PendingCanRun
<1>1. IInv => PendingCanRun
  BY DEF IInv, RowsInv, RowsOK, RowOK, PendingCanRun
<1> QED
  BY <1>1, Invariant, PTL

\* A replacement is deferred only behind a running, not cancelling, occurrence.
THEOREM DeferralIsTransient == Spec => []DeferredWhileRunning
<1>1. IInv => DeferredWhileRunning
  BY DEF IInv, RowsInv, RowsOK, RowOK, DeferredWhileRunning
<1> QED
  BY <1>1, Invariant, PTL

\* The fence works: however many workers there are, at most one claim in the
\* fleet can settle a row, and it carries the attempts fail decides by.
THEOREM Fenced == Spec => []OneOwner
<1>1. IInv => OneOwner
  BY DEF IInv, RowsInv, ClaimsUnique, ClaimsKnow, Owns, OneOwner
<1> QED
  BY <1>1, Invariant, PTL

\* A quarantined occurrence never runs again.
THEOREM QuarantineIsFinal == Spec => []EvidenceIsFinal
<1>1. IInv => EvidenceIsFinal
  BY DEF IInv, RowsInv
<1> QED
  BY <1>1, Invariant, PTL

\* The last accepted request is the one the row stands for.
THEOREM LatestWins == Spec => []LatestAccepted
<1>1. IInv => LatestAccepted
  BY DEF IInv, RowsInv
<1> QED
  BY <1>1, Invariant, PTL

\* What ends has the timestamps the cleanup looks for.
THEOREM FinishedCanBeCleaned == Spec => []FinishedExpires
<1>1. IInv => FinishedExpires
  BY DEF IInv, RowsInv, RowsOK, RowOK, FinishedExpires, Finished
<1> QED
  BY <1>1, Invariant, PTL
-----------------------------------------------------------------------------
(***************************************************************************)
(* What a step may never do.                                               *)
(***************************************************************************)

CancelKept(s) ==
  job[s].status = "running" /\ job[s].cancel =>
       \/ job'[s].status = "cancelled"
       \/ /\ job'[s].status = "running" /\ job'[s].cancel
          /\ job'[s].occurrence = job[s].occurrence

\* Settling a row under an accepted cancellation cancels it.
LEMMA SettledCancels ==
  ASSUME NEW r \in Row, r.cancel, NEW outcome, NEW o
  PROVE  Settled(r, outcome, o).status = "cancelled"
BY DEF Settled, Cancelled, Released, Row

LEMMA CancelKeptStep ==
  ASSUME IInv, [Next]_vars, NEW s \in Slots
  PROVE  CancelKept(s)
<1> SUFFICES ASSUME job[s].status = "running", job[s].cancel
             PROVE  \/ job'[s].status = "cancelled"
                    \/ /\ job'[s].status = "running" /\ job'[s].cancel
                       /\ job'[s].occurrence = job[s].occurrence
  BY DEF CancelKept
<1>0. /\ job \in [Slots -> Row] /\ job[s] \in Row /\ job[s].deferred = None
      /\ \A w \in Workers : \A c \in claims[w] : c \in Claim /\ c.slot \in Slots
  BY DEF IInv, RowsInv, QueueOK, RowsOK, RowOK, Claim
<1>1. ASSUME job'[s] = job[s]
      PROVE  \/ job'[s].status = "cancelled"
             \/ /\ job'[s].status = "running" /\ job'[s].cancel
                /\ job'[s].occurrence = job[s].occurrence
  BY <1>1
<1>2. ASSUME NEW e \in Enqueuers, EnqueueNext(e)
      PROVE  job'[s].status = "running" /\ job'[s].cancel
             /\ job'[s].occurrence = job[s].occurrence
  <2>1. ASSUME NEW t \in Slots, NEW p, job[t].status # "running", Insert(t, p)
        PROVE  job'[s] = job[s]
    BY <2>1, <1>0 DEF Insert
  <2>2. enq[e].pc # "idle" => enq[e].slot \in Slots
    BY QueueAssumption DEF IInv, CallsOK, Call, Idle
  <2>3. ASSUME NEW t \in Slots, NEW p \in Payloads, NEW replace \in BOOLEAN,
               Enqueue(e, t, p, replace)
        PROVE  job'[s] = job[s]
    BY <2>1, <2>3 DEF Enqueue
  <2>4. CASE DeleteExpired(e)
    BY <2>1, <2>2, <2>4 DEF DeleteExpired
  <2>5. CASE Reinsert(e)
    BY <2>1, <2>2, <2>5 DEF Reinsert
  <2>6. CASE SettleEnqueue(e)
    <3>1. CASE enq[e].slot = s /\ job' # job
      <4>1. job' = [job EXCEPT ![s] = [job[s] EXCEPT !.deferred = None]]
        BY <2>6, <3>1 DEF SettleEnqueue, Replaced
      <4> QED
        BY <4>1, <1>0 DEF Row
    <3>2. CASE ~(enq[e].slot = s /\ job' # job)
      BY <2>2, <2>6, <3>2, <1>0 DEF SettleEnqueue
    <3> QED
      BY <3>1, <3>2
  <2> QED
    BY <1>2, <2>3, <2>4, <2>5, <2>6 DEF EnqueueNext
<1>3. ASSUME NEW w \in Workers, WorkerNext(w)
      PROVE  \/ job'[s].status = "cancelled"
             \/ /\ job'[s].status = "running" /\ job'[s].cancel
                /\ job'[s].occurrence = job[s].occurrence
  <2>1. ASSUME NEW S \in SUBSET Slots, ClaimJobs(w, S) PROVE job'[s] = job[s]
    BY <2>1 DEF ClaimJobs, Claimable
  <2>2. ASSUME NEW c \in claims[w], Heartbeat(w, c)
        PROVE  job'[s].status = "running" /\ job'[s].cancel
               /\ job'[s].occurrence = job[s].occurrence
    <3>1. job' = [job EXCEPT ![c.slot] = [job[c.slot] EXCEPT !.lease = "future"]]
      BY <2>2, <1>0 DEF Heartbeat
    <3> QED
      BY <3>1, <1>0 DEF Row
  <2>3. ASSUME NEW c \in claims[w], NEW outcome,
               job' = [job EXCEPT ![c.slot] = Settled(job[c.slot], outcome,
                                                occurrences[c.slot] + 1)]
        PROVE  job'[s].status = "cancelled" \/ job'[s] = job[s]
    BY <2>3, <1>0, SettledCancels
  <2>4. ASSUME NEW c \in claims[w], Finish(w, c)
        PROVE  job'[s].status = "cancelled" \/ job'[s] = job[s]
    <3>1. CASE Complete(w, c) /\ (c.slot # s \/ job[s].deferred = None)
      <4>1. CASE c.slot = s
        BY <2>3, <3>1, <4>1 DEF Complete, SettleClaim
      <4>2. CASE c.slot # s
        BY <3>1, <4>2, <1>0 DEF Complete, SettleClaim
      <4> QED
        BY <4>1, <4>2
    <3>2. ASSUME NEW permanent \in BOOLEAN, Fail(w, c, permanent)
          PROVE  job'[s].status = "cancelled" \/ job'[s] = job[s]
      BY <2>3, <3>2 DEF Fail, SettleClaim
    <3>3. CASE Quarantine(w, c)
      BY <2>3, <3>3 DEF Quarantine, SettleClaim
    <3>4. CASE LostFence(w, c)
      BY <3>4 DEF LostFence, StopWorker
    <3> QED
      BY <2>4, <1>0, <3>1, <3>2, <3>3, <3>4 DEF Finish
  <2>5. CASE Crash(w)
    BY <2>5 DEF Crash, StopWorker
  <2> QED
    BY <1>1, <1>3, <2>1, <2>2, <2>4, <2>5 DEF WorkerNext
<1>4. ASSUME NEW t \in Slots, Maintenance(t)
      PROVE  job'[s].status = "cancelled" \/ job'[s] = job[s]
  <2>1. CASE ReclaimStale(t)
    BY <2>1, <1>0, SettledCancels DEF ReclaimStale
  <2>2. CASE CleanupExpired(t)
    BY <2>2, <1>0 DEF CleanupExpired
  <2> QED
    BY <1>4, <2>1, <2>2 DEF Maintenance
<1>5. ASSUME NEW t \in Slots, Operator(t)
      PROVE  job'[s] = job[s]
  BY <1>5, <1>0 DEF Operator, Cancel, RedriveQuarantined, RetryDead, Requeue
<1>6. ASSUME NEW t \in Slots, TimePasses(t)
      PROVE  job'[s].status = "running" /\ job'[s].cancel
             /\ job'[s].occurrence = job[s].occurrence
  <2>1. PICK new \in {[job[t] EXCEPT !.runAt = "past"],
                      [job[t] EXCEPT !.lease = "past"],
                      [job[t] EXCEPT !.retain = "past"],
                      [job[t] EXCEPT !.dedupe = "past"]} :
          job' = [job EXCEPT ![t] = new]
    BY <1>6 DEF TimePasses, BecomesDue, LeaseExpires, RetentionEnds,
                HorizonEnds, Passes
  <2>2. job[t] \in Row
    BY <1>0
  <2>3. new.status = job[t].status /\ new.cancel = job[t].cancel
        /\ new.occurrence = job[t].occurrence
    BY <2>2 DEF Row
  <2> QED
    BY <2>1, <2>3, <1>0
<1>7. CASE UNCHANGED vars
  BY <1>1, <1>7 DEF vars
<1> QED
  BY <1>1, <1>2, <1>3, <1>4, <1>5, <1>6, <1>7 DEF Next

\* An accepted cancellation of a running occurrence decides it.
THEOREM CancellationWins == Spec => CancellationDecides
<1>1. IInv /\ [Next]_vars =>
        [\A s \in Slots : job[s].status = "running" /\ job[s].cancel =>
           \/ job'[s].status = "cancelled"
           \/ /\ job'[s].status = "running" /\ job'[s].cancel
              /\ job'[s].occurrence = job[s].occurrence]_vars
  BY CancelKeptStep DEF CancelKept
<1> QED
  BY <1>1, Invariant, PTL DEF Spec, CancellationDecides

\* Within its horizon a key keeps its row, and starts nothing unasked.
KeyKept(s) ==
  job[s].dedupe = "future" =>
    /\ job'[s].status # "absent"
    /\ job'[s].occurrence # job[s].occurrence =>
         \/ \E e \in Enqueuers : /\ enq[e] # Idle /\ enq'[e] = Idle
                                 /\ enq[e].slot = s /\ enq[e].replace
         \/ /\ job[s].status = "completed"
            /\ enq' = enq /\ requests' # requests

LEMMA EnqueueKeepsKey ==
  ASSUME IInv, NEW e \in Enqueuers, EnqueueNext(e), NEW s \in Slots,
         job[s].dedupe = "future"
  PROVE  \/ job'[s] = job[s]
         \/ /\ job'[s].status # "absent"
            /\ enq[e] # Idle /\ enq'[e] = Idle /\ enq[e].slot = s /\ enq[e].replace
<1>1. /\ job \in [Slots -> Row] /\ job[s] \in Row
      /\ job[s].status \in Finished \cup {"dedupe_retained"}
  BY DEF IInv, RowsInv, QueueOK, RowsOK, RowOK
<1>2. ASSUME NEW t \in Slots, NEW p, t # s, Insert(t, p)
      PROVE  job'[s] = job[s]
  BY <1>1, <1>2 DEF Insert
<1>3. /\ enq \in [Enqueuers -> Call \cup {Idle}]
      /\ enq[e].pc # "idle" => enq[e] # Idle /\ enq[e].slot \in Slots
  BY QueueAssumption DEF IInv, CallsOK, Call, Idle
<1>4. ASSUME NEW t \in Slots, NEW p \in Payloads, NEW replace \in BOOLEAN,
             Enqueue(e, t, p, replace)
      PROVE  job'[s] = job[s]
  <2>1. job[t].status = "absent" => t # s
    BY <1>1 DEF Finished
  <2> QED
    BY <1>2, <1>4, <2>1 DEF Enqueue
<1>5. CASE DeleteExpired(e)
  <2>1. CASE job' = job
    BY <2>1
  <2>2. CASE Insert(enq[e].slot, enq[e].payload) /\ job[enq[e].slot].dedupe = "past"
    BY <1>2, <1>3, <1>5, <2>2 DEF DeleteExpired
  <2> QED
    BY <1>5, <2>1, <2>2 DEF DeleteExpired
<1>6. CASE Reinsert(e)
  <2>1. CASE job' = job
    BY <2>1
  <2>2. CASE Insert(enq[e].slot, enq[e].payload) /\ job[enq[e].slot].status = "absent"
    BY <1>1, <1>2, <1>3, <1>6, <2>2 DEF Reinsert, Finished
  <2> QED
    BY <1>6, <2>1, <2>2 DEF Reinsert
<1>7. CASE SettleEnqueue(e)
  <2>1. CASE job' = job
    BY <2>1
  <2>2. CASE job' # job
    <3>1. /\ enq[e].pc = "settle" /\ enq[e].replace
          /\ enq' = [enq EXCEPT ![e] = Idle]
          /\ job' = [job EXCEPT ![enq[e].slot] =
                       Replaced(job[enq[e].slot], enq[e].payload,
                                occurrences[enq[e].slot] + 1)]
      BY <1>7, <2>2 DEF SettleEnqueue
    <3>2. enq'[e] = Idle /\ enq[e] # Idle
      BY <1>3, <3>1
    <3>3. CASE enq[e].slot = s
      <4>1. job[s].status # "running"
        BY <1>1 DEF Finished
      <4>2. job'[s] = Fresh(enq[e].payload, occurrences[s] + 1)
        BY <1>1, <3>1, <3>3, <4>1 DEF Replaced
      <4>3. job'[s].status # "absent"
        BY <4>2 DEF Fresh, FreshAt
      <4> QED
        BY <3>1, <3>2, <3>3, <4>3
    <3>4. CASE enq[e].slot # s
      BY <1>1, <3>1, <3>4
    <3> QED
      BY <3>3, <3>4
  <2> QED
    BY <2>1, <2>2
<1> QED
  BY <1>4, <1>5, <1>6, <1>7 DEF EnqueueNext

LEMMA KeyKeptStep ==
  ASSUME IInv, [Next]_vars, NEW s \in Keyed
  PROVE  KeyKept(s)
<1> SUFFICES ASSUME job[s].dedupe = "future" PROVE KeyKept(s)
  BY DEF KeyKept
<1>0. /\ s \in Slots /\ job \in [Slots -> Row] /\ job[s] \in Row
      /\ job[s].status \in Finished \cup {"dedupe_retained"}
      /\ \A w \in Workers : \A c \in claims[w] : c \in Claim /\ c.slot \in Slots
  BY QueueAssumption DEF IInv, RowsInv, QueueOK, RowsOK, RowOK, Claim
<1>1. ASSUME job'[s].status # "absent", job'[s].occurrence = job[s].occurrence
      PROVE  KeyKept(s)
  BY <1>1 DEF KeyKept
<1>2. ASSUME job'[s] = job[s] PROVE KeyKept(s)
  BY <1>0, <1>1, <1>2 DEF Finished
<1>3. ASSUME NEW e \in Enqueuers, EnqueueNext(e) PROVE KeyKept(s)
  <2>1. \/ job'[s] = job[s]
        \/ /\ job'[s].status # "absent"
           /\ enq[e] # Idle /\ enq'[e] = Idle /\ enq[e].slot = s /\ enq[e].replace
    BY <1>0, <1>3, EnqueueKeepsKey
  <2> QED
    BY <1>2, <2>1 DEF KeyKept
<1>4. ASSUME NEW w \in Workers, WorkerNext(w) PROVE job'[s] = job[s]
  <2>1. ASSUME NEW S \in SUBSET Slots, ClaimJobs(w, S) PROVE job'[s] = job[s]
    BY <1>0, <2>1 DEF ClaimJobs, Claimable, Finished
  <2>2. ASSUME NEW c \in claims[w], NEW new, Owns(c), job' = [job EXCEPT ![c.slot] = new]
        PROVE  job'[s] = job[s]
    BY <1>0, <2>2 DEF Owns, Finished
  <2>3. ASSUME NEW c \in claims[w], Heartbeat(w, c) PROVE job'[s] = job[s]
    <3>1. job' = [job EXCEPT ![c.slot] = [job[c.slot] EXCEPT !.lease = "future"]]
      BY <2>3, <1>0 DEF Heartbeat
    <3> QED
      BY <2>2, <2>3, <3>1 DEF Heartbeat
  <2>4. ASSUME NEW c \in claims[w], Finish(w, c) PROVE job'[s] = job[s]
    <3>1. CASE Complete(w, c)
      BY <2>2, <3>1 DEF Complete, SettleClaim
    <3>2. ASSUME NEW permanent \in BOOLEAN, Fail(w, c, permanent) PROVE job'[s] = job[s]
      BY <2>2, <3>2 DEF Fail, SettleClaim
    <3>3. CASE Quarantine(w, c)
      BY <2>2, <3>3 DEF Quarantine, SettleClaim
    <3>4. CASE LostFence(w, c)
      BY <3>4 DEF LostFence, StopWorker
    <3> QED
      BY <2>4, <3>1, <3>2, <3>3, <3>4 DEF Finish
  <2>5. CASE Crash(w)
    BY <2>5 DEF Crash, StopWorker
  <2> QED
    BY <1>4, <2>1, <2>3, <2>4, <2>5 DEF WorkerNext
<1>5. ASSUME NEW t \in Slots, Maintenance(t)
      PROVE  job'[s].status # "absent" /\ job'[s].occurrence = job[s].occurrence
  <2>1. CASE ReclaimStale(t)
    BY <1>0, <2>1 DEF ReclaimStale, Finished
  <2>2. CASE CleanupExpired(t)
    <3>1. CASE t = s
      <4>1. job' = [job EXCEPT ![s] = Tombstone(job[s])]
        BY <2>2, <3>1 DEF CleanupExpired
      <4> QED
        BY <1>0, <4>1 DEF Tombstone
    <3>2. CASE t # s
      BY <1>0, <2>2, <3>2 DEF CleanupExpired, Finished
    <3> QED
      BY <3>1, <3>2
  <2> QED
    BY <1>5, <2>1, <2>2 DEF Maintenance
<1>6. ASSUME NEW t \in Slots, Operator(t) PROVE KeyKept(s)
  <2>1. CASE t # s
    BY <1>0, <1>2, <1>6, <2>1
    DEF Operator, Cancel, RedriveQuarantined, RetryDead, Requeue
  <2>2. CASE t = s
    <3>1. Requeue(s) /\ job[s].status = "completed"
      BY <1>0, <1>6, <2>2
      DEF Operator, Cancel, RedriveQuarantined, RetryDead, Requeue, Finished
    <3>2. job' = [job EXCEPT ![s] =
                    FreshAt(job[s].payload, occurrences[s] + 1, "past")]
          /\ requests' = requests + 1 /\ enq' = enq
      BY <3>1 DEF Requeue, RetryDead, Command
    <3>3. job'[s].status # "absent"
      BY <1>0, <3>2 DEF FreshAt
    <3>4. requests' # requests
      BY <3>2 DEF IInv, CallsOK
    <3> QED
      BY <3>1, <3>2, <3>3, <3>4 DEF KeyKept
  <2> QED
    BY <2>1, <2>2
<1>7. ASSUME NEW t \in Slots, TimePasses(t)
      PROVE  job'[s].status # "absent" /\ job'[s].occurrence = job[s].occurrence
  <2>1. PICK new \in {[job[t] EXCEPT !.runAt = "past"],
                      [job[t] EXCEPT !.lease = "past"],
                      [job[t] EXCEPT !.retain = "past"],
                      [job[t] EXCEPT !.dedupe = "past"]} :
          job' = [job EXCEPT ![t] = new]
    BY <1>7 DEF TimePasses, BecomesDue, LeaseExpires, RetentionEnds,
                HorizonEnds, Passes
  <2>2. job[t] \in Row
    BY <1>0
  <2>3. new.status = job[t].status /\ new.occurrence = job[t].occurrence
    BY <2>2 DEF Row
  <2> QED
    BY <1>0, <2>1, <2>3 DEF Finished
<1>8. CASE UNCHANGED vars
  BY <1>2, <1>8 DEF vars
<1> QED
  BY <1>1, <1>2, <1>3, <1>4, <1>5, <1>6, <1>7, <1>8 DEF Next

\* Within its dedupe horizon a key's row is not deleted, and its work is
\* started again only by a replacing enqueue or by requeue: cleanupExpired,
\* enqueue and claim may come between each other's statements.
THEOREM KeysAreOwned == Spec => HorizonOwnsKey
<1>1. IInv /\ [Next]_vars =>
        [\A s \in Keyed : job[s].dedupe = "future" =>
           /\ job'[s].status # "absent"
           /\ job'[s].occurrence # job[s].occurrence =>
                \/ \E e \in Enqueuers : /\ enq[e] # Idle /\ enq'[e] = Idle
                                        /\ enq[e].slot = s /\ enq[e].replace
                \/ /\ job[s].status = "completed"
                   /\ enq' = enq /\ requests' # requests]_vars
  BY KeyKeptStep DEF KeyKept
<1> QED
  BY <1>1, Invariant, PTL DEF Spec, HorizonOwnsKey
-----------------------------------------------------------------------------
(***************************************************************************)
(* JobQueue implements JobLifecycle: whatever claims, leases, retries and  *)
(* cleanups do, an occurrence that was decided never runs again, unless an *)
(* operator reopens it from dead.                                          *)
(*                                                                         *)
(* A step of the queue moves at most one row, except a claim, which leaves *)
(* every phase as it is.  LifeMove says which moves of a row are steps of  *)
(* its life cycle; there is one lemma per group of actions.                *)
(***************************************************************************)
phases == [s \in Slots |-> Phase(job[s])]

LifeStep == [Lifecycle!Next]_<<occurrences, phases>>

\* The row of s becomes `new` and its occurrence number m.
Move(s, new, m) ==
  /\ job' = [job EXCEPT ![s] = new]
  /\ occurrences' = [occurrences EXCEPT ![s] = m]

Undecided == {"none", "open"}

\* What a row may become within a life cycle.
LifeMove(r, new, n, m) ==
  \/ m = n + 1 /\ Phase(new) = "open"
  \/ m = n /\ Phase(new) = Phase(r)
  \/ m = n /\ Phase(r) = "open" /\ Phase(new) \notin Undecided
  \/ m = n /\ Phase(r) = "dead" /\ Phase(new) = "open"
  \/ m = n /\ Phase(r) \in Finished /\ Phase(new) = "none"

\* A phase is the status, but for the rows that are gone and the open ones.
LEMMA PhaseOf ==
  ASSUME NEW r, r.status \in Statuses
  PROVE  /\ Phase(r) \in Lifecycle!Phases
         /\ Phase(r) = "none" <=> r.status \in {"absent", "dedupe_retained"}
         /\ Phase(r) = "open" <=> r.status \in Open
         /\ r.status \notin {"absent", "dedupe_retained"} \cup Open =>
              Phase(r) = r.status
BY DEF Phase, Statuses, Open, Lifecycle!Phases

\* A row that moves within its life cycle takes a step of JobLifecycle.
LEMMA MoveStep ==
  ASSUME RowsInv, NEW s \in Slots, NEW new, NEW m, new.status \in Statuses,
         Move(s, new, m), LifeMove(job[s], new, occurrences[s], m)
  PROVE  LifeStep
<1>1. /\ occurrences \in [Slots -> Nat] /\ job \in [Slots -> Row]
      /\ occurrences' = [occurrences EXCEPT ![s] = m]
  BY DEF RowsInv, QueueOK, Move
<1>2. phases' = [phases EXCEPT ![s] = Phase(new)]
  BY <1>1 DEF Move, phases
<1>3. phases[s] = Phase(job[s]) /\ Phase(new) \in Lifecycle!Phases
  BY PhaseOf DEF phases
<1>4. CASE m = occurrences[s] + 1 /\ Phase(new) = "open"
  <2>1. Lifecycle!Start(s)
    BY <1>1, <1>2, <1>4 DEF Lifecycle!Start, phases
  <2> QED
    BY <2>1 DEF LifeStep, Lifecycle!Next
<1>5. CASE m = occurrences[s] /\ Phase(new) = Phase(job[s])
  <2>1. occurrences' = occurrences /\ phases' = phases
    BY <1>1, <1>2, <1>3, <1>5 DEF phases
  <2> QED
    BY <2>1 DEF LifeStep
<1>6. CASE m = occurrences[s] /\ Phase(job[s]) = "open" /\ Phase(new) \notin Undecided
  <2>1. Lifecycle!Decide(s)
    BY <1>1, <1>2, <1>3, <1>6 DEF Lifecycle!Decide, Lifecycle!Decided, Undecided, phases
  <2> QED
    BY <2>1 DEF LifeStep, Lifecycle!Next
<1>7. CASE m = occurrences[s] /\ Phase(job[s]) = "dead" /\ Phase(new) = "open"
  <2>1. Lifecycle!Reopen(s)
    BY <1>1, <1>2, <1>3, <1>7 DEF Lifecycle!Reopen, phases
  <2> QED
    BY <2>1 DEF LifeStep, Lifecycle!Next
<1>8. CASE m = occurrences[s] /\ Phase(job[s]) \in Finished /\ Phase(new) = "none"
  <2>1. Lifecycle!Forget(s)
    BY <1>1, <1>2, <1>3, <1>8 DEF Lifecycle!Forget, Finished, phases
  <2> QED
    BY <2>1 DEF LifeStep, Lifecycle!Next
<1> QED
  BY <1>4, <1>5, <1>6, <1>7, <1>8 DEF LifeMove

\* A row that keeps its occurrence number and its status takes no step.
LEMMA SameStatus ==
  ASSUME RowsInv, NEW s \in Slots, NEW new, UNCHANGED occurrences,
         job' = [job EXCEPT ![s] = new], new.status = job[s].status
  PROVE  LifeStep
<1>1. Phase(new) = Phase(job[s]) /\ new.status \in Statuses
  BY RowFacts DEF Phase, Row
<1>2. Move(s, new, occurrences[s])
  BY RowFacts DEF Move
<1> QED
  BY <1>1, <1>2, MoveStep DEF LifeMove

\* A row that keeps its occurrence number moves by its phase alone.
LEMMA SameOccurrence ==
  ASSUME RowsInv, NEW s \in Slots, NEW new, UNCHANGED occurrences,
         job' = [job EXCEPT ![s] = new], new.status \in Statuses,
         LifeMove(job[s], new, occurrences[s], occurrences[s])
  PROVE  LifeStep
BY RowFacts, MoveStep DEF Move

\* A pending row under a new occurrence starts it.
LEMMA FreshStarts ==
  ASSUME RowsInv, NEW s \in Slots, NEW p, NEW o, NEW t, NewOccurrence(s),
         job' = [job EXCEPT ![s] = FreshAt(p, o, t)]
  PROVE  LifeStep
<1> DEFINE new == FreshAt(p, o, t)
<1>1. new.status = "pending" /\ new.status \in Statuses /\ Phase(new) = "open"
  BY DEF FreshAt, Phase, Statuses
<1>2. Move(s, new, occurrences[s] + 1)
  BY DEF Move, NewOccurrence
<1> HIDE DEF new
<1> QED
  BY <1>1, <1>2, MoveStep DEF LifeMove

\* Nothing the life cycle sees has changed.
LEMMA Stutter ==
  ASSUME UNCHANGED <<job, occurrences>>
  PROVE  LifeStep
BY DEF LifeStep, phases

\* Settling a running row decides its occurrence, keeps it open, or replaces it.
LEMMA SettledMoves ==
  ASSUME NEW r \in Row, r.status = "running", NEW n \in Nat, NEW outcome,
         outcome.status \in {"pending", "completed", "dead", "quarantined"}
  PROVE  LET new == Settled(r, outcome, n + 1) IN
           /\ new.status \in Statuses
           /\ LifeMove(r, new, n, IF Promotes(r) THEN n + 1 ELSE n)
<1> DEFINE new == Settled(r, outcome, n + 1)
<1>1. CASE r.cancel
  <2>1. new.status = "cancelled" /\ ~Promotes(r)
    BY <1>1, SettledCancels DEF Promotes
  <2> QED
    BY <2>1 DEF LifeMove, Phase, Statuses, Undecided
<1>2. CASE Promotes(r)
  <2>1. new.status = "pending"
    BY <1>2 DEF Promotes, Settled, Fresh, FreshAt
  <2> QED
    BY <1>2, <2>1 DEF LifeMove, Phase, Statuses
<1>3. CASE ~r.cancel /\ r.deferred = None
  <2>1. new = outcome /\ ~Promotes(r)
    BY <1>3 DEF Promotes, Settled
  <2> QED
    BY <2>1 DEF LifeMove, Phase, Statuses, Undecided
<1> QED
  BY <1>1, <1>2, <1>3 DEF Promotes

\* The statement that settles the row of s, whose status becomes new's.
Settles(s, outcome, new) ==
  /\ job[s].status = "running"
  /\ outcome.status \in {"pending", "completed", "dead", "quarantined"}
  /\ new.status = Settled(job[s], outcome, occurrences[s] + 1).status
  /\ job' = [job EXCEPT ![s] = new]
  /\ IF Promotes(job[s]) THEN NewOccurrence(s) ELSE UNCHANGED occurrences

\* Such a statement is a step of the life cycle.
LEMMA SettleStep ==
  ASSUME RowsInv, NEW s \in Slots, NEW outcome, NEW new, Settles(s, outcome, new)
  PROVE  LifeStep
<1> DEFINE n == occurrences[s]
           m == IF Promotes(job[s]) THEN n + 1 ELSE n
           settled == Settled(job[s], outcome, n + 1)
<1>0. job[s] \in Row /\ n \in Nat
  BY RowFacts
<1>1. settled.status \in Statuses /\ LifeMove(job[s], settled, n, m)
  BY <1>0, SettledMoves DEF Settles
<1>2. Phase(new) = Phase(settled) /\ new.status = settled.status
  BY DEF Phase, Settles
<1>3. new.status \in Statuses /\ LifeMove(job[s], new, n, m)
  BY <1>1, <1>2 DEF LifeMove
<1>4. Move(s, new, m)
  BY RowFacts DEF Move, NewOccurrence, Settles
<1> HIDE DEF m, settled
<1> QED
  BY <1>3, <1>4, MoveStep
-----------------------------------------------------------------------------
(***************************************************************************)
(* The groups of actions.                                                  *)
(***************************************************************************)

\* enqueue starts an occurrence, defers a replacement, or changes no row.
LEMMA EnqueueLife ==
  ASSUME IInv, NEW e \in Enqueuers, EnqueueNext(e)
  PROVE  LifeStep
<1>0. RowsInv /\ (enq[e].pc # "idle" => enq[e].slot \in Slots)
  BY QueueAssumption DEF IInv, CallsOK, Call, Idle
<1>1. ASSUME NEW s \in Slots, NEW p, Insert(s, p) PROVE LifeStep
  BY <1>0, <1>1, FreshStarts DEF Insert, Fresh
<1>2. ASSUME NEW s \in Slots, NEW p \in Payloads, NEW replace \in BOOLEAN,
             Enqueue(e, s, p, replace)
      PROVE  LifeStep
  BY <1>1, <1>2, Stutter DEF Enqueue
<1>3. CASE DeleteExpired(e)
  BY <1>0, <1>1, <1>3, Stutter DEF DeleteExpired
<1>4. CASE Reinsert(e)
  BY <1>0, <1>1, <1>4, Stutter DEF Reinsert
<1>5. CASE SettleEnqueue(e)
  <2> DEFINE s == enq[e].slot
             new == Replaced(job[s], enq[e].payload, occurrences[s] + 1)
  <2>0. s \in Slots /\ job[s] \in Row
    BY <1>0, <1>5, RowFacts DEF SettleEnqueue
  <2>1. CASE UNCHANGED <<job, occurrences>>
    BY <2>1, Stutter
  <2>2. CASE /\ job' = [job EXCEPT ![s] = new]
             /\ job[s].status = "running" /\ UNCHANGED occurrences
    <3>1. new.status = job[s].status
      BY <2>0, <2>2 DEF Replaced, Row
    <3> HIDE DEF new
    <3> QED
      BY <1>0, <2>0, <2>2, <3>1, SameStatus
  <2>3. CASE /\ job' = [job EXCEPT ![s] = new]
             /\ job[s].status # "running" /\ NewOccurrence(s)
    BY <1>0, <2>0, <2>3, FreshStarts DEF Replaced, Fresh
  <2> QED
    BY <1>5, <2>1, <2>2, <2>3 DEF SettleEnqueue
<1> QED
  BY <1>2, <1>3, <1>4, <1>5 DEF EnqueueNext

\* A claim makes pending rows running: both are open.
LEMMA ClaimLife ==
  ASSUME RowsInv, NEW w \in Workers, NEW S \in SUBSET Slots, ClaimJobs(w, S)
  PROVE  LifeStep
<1>1. ASSUME NEW s \in Slots PROVE Phase(job'[s]) = Phase(job[s])
  <2>1. CASE s \notin S
    BY <2>1 DEF ClaimJobs
  <2>2. CASE s \in S
    <3>1. job[s].status = "pending" /\ job[s] \in Row
      BY <2>2, RowFacts DEF ClaimJobs, Claimable
    <3>2. job'[s] = [job[s] EXCEPT !.status = "running", !.claimToken = NextToken(s),
                                   !.lease = "future", !.attempts = @ + 1]
      BY <2>2 DEF ClaimJobs
    <3>3. job'[s].status = "running"
      BY <3>1, <3>2 DEF Row
    <3> QED
      BY <3>1, <3>3 DEF Phase
  <2> QED
    BY <2>1, <2>2
<1>2. phases' = phases /\ occurrences' = occurrences
  BY <1>1 DEF phases, ClaimJobs
<1> QED
  BY <1>2 DEF LifeStep

\* A settlement, whatever its outcome: complete's new row differs from the
\* settled one in its retention columns only.
LEMMA FinishLife ==
  ASSUME RowsInv, NEW w \in Workers, NEW c \in claims[w], Finish(w, c)
  PROVE  LifeStep
<1> DEFINE s == c.slot
           r == job[s]
<1>0. s \in Slots
  BY DEF RowsInv, QueueOK, Claim
<1>1. CASE LostFence(w, c)
  BY <1>1, Stutter DEF LostFence, StopWorker
<1>2. ASSUME Owns(c) PROVE r.status = "running" /\ r \in Row
  BY <1>0, <1>2, RowFacts DEF Owns
<1>3. CASE Complete(w, c)
  <2> DEFINE done == [Released(r, "completed") EXCEPT !.retain = "future",
                                                      !.dedupe = "future"]
             settled == Settled(r, done, occurrences[s] + 1)
             new == IF r.deferred = None THEN settled
                    ELSE [settled EXCEPT !.retain = "null", !.dedupe = "null"]
  <2>1. SettleClaim(w, c, new) /\ r.status = "running" /\ r \in Row
    BY <1>2, <1>3 DEF Complete, SettleClaim
  <2>2. done.status = "completed"
    BY <2>1 DEF Released, Row
  <2>3. new.status = settled.status
    BY <2>1 DEF Settled, Cancelled, Released, Fresh, FreshAt, Row
  <2>4. Settles(s, done, new)
    BY <2>1, <2>2, <2>3 DEF SettleClaim, Settles
  <2> HIDE DEF done, new
  <2> QED
    BY <1>0, <2>4, SettleStep
<1>4. ASSUME NEW permanent \in BOOLEAN, Fail(w, c, permanent) PROVE LifeStep
  <2> DEFINE exhausted == permanent \/ UsedUp(c.attempts, c.payload)
             failed == IF exhausted THEN Released(r, "dead") ELSE Retried(r)
  <2>1. /\ SettleClaim(w, c, Settled(r, failed, occurrences[s] + 1))
        /\ r.status = "running" /\ r \in Row
    BY <1>2, <1>4 DEF Fail, SettleClaim
  <2>2. failed.status \in {"pending", "dead"}
    BY <2>1 DEF Retried, Released, Row
  <2>3. Settles(s, failed, Settled(r, failed, occurrences[s] + 1))
    BY <2>1, <2>2 DEF SettleClaim, Settles
  <2> HIDE DEF failed
  <2> QED
    BY <1>0, <2>3, SettleStep
<1>5. CASE Quarantine(w, c)
  <2> DEFINE kept == Released(r, "quarantined")
  <2>1. /\ SettleClaim(w, c, Settled(r, kept, occurrences[s] + 1))
        /\ r.status = "running" /\ r \in Row
    BY <1>2, <1>5 DEF Quarantine, SettleClaim
  <2>2. kept.status = "quarantined"
    BY <2>1 DEF Released, Row
  <2>3. Settles(s, kept, Settled(r, kept, occurrences[s] + 1))
    BY <2>1, <2>2 DEF SettleClaim, Settles
  <2> HIDE DEF kept
  <2> QED
    BY <1>0, <2>3, SettleStep
<1> QED
  BY <1>1, <1>3, <1>4, <1>5 DEF Finish

\* A worker claims, extends a lease, finishes a claim, or dies.
LEMMA WorkerLife ==
  ASSUME RowsInv, NEW w \in Workers, WorkerNext(w)
  PROVE  LifeStep
<1>1. ASSUME NEW c \in claims[w], Heartbeat(w, c) PROVE LifeStep
  <2> DEFINE new == [job[c.slot] EXCEPT !.lease = "future"]
  <2>1. c.slot \in Slots
    BY DEF RowsInv, QueueOK, Claim
  <2>2. job' = [job EXCEPT ![c.slot] = new] /\ UNCHANGED occurrences
    BY <1>1 DEF Heartbeat, RowsInv, QueueOK
  <2>3. new.status = job[c.slot].status
    BY <2>1, RowFacts DEF Row
  <2> HIDE DEF new
  <2> QED
    BY <2>1, <2>2, <2>3, SameStatus
<1>2. CASE Crash(w)
  BY <1>2, Stutter DEF Crash, StopWorker
<1> QED
  BY <1>1, <1>2, ClaimLife, FinishLife DEF WorkerNext

\* Recovery settles an expired lease; cleanup forgets what has finished.
LEMMA MaintenanceLife ==
  ASSUME RowsInv, NEW s \in Slots, Maintenance(s)
  PROVE  LifeStep
<1> DEFINE r == job[s]
<1>0. r \in Row
  BY RowFacts
<1>1. CASE ReclaimStale(s)
  <2> DEFINE failed == IF UsedUp(r.attempts, r.payload) THEN Released(r, "dead")
                       ELSE Retried(r)
  <2>1. failed.status \in {"pending", "dead"}
    BY <1>0 DEF Retried, Released, Row
  <2>2. Settles(s, failed, Settled(r, failed, occurrences[s] + 1))
    BY <1>1, <2>1 DEF ReclaimStale, Settles
  <2> HIDE DEF failed
  <2> QED
    BY <2>2, SettleStep
<1>2. CASE CleanupExpired(s)
  <2>1. PICK new \in {Tombstone(r), Absent} :
          /\ job' = [job EXCEPT ![s] = new] /\ UNCHANGED occurrences
          /\ r.status \in Finished \cup {"dedupe_retained"}
    BY <1>2 DEF CleanupExpired, Finished
  <2>2. new.status \in {"absent", "dedupe_retained"}
    BY DEF Tombstone, Absent
  <2>3. Phase(new) = "none" /\ new.status \in Statuses
    BY <2>2 DEF Phase, Statuses
  <2>4. Phase(r) \in Finished \cup {"none"}
    BY <2>1 DEF Phase, Finished
  <2>5. LifeMove(r, new, occurrences[s], occurrences[s])
    BY <2>3, <2>4 DEF LifeMove
  <2> QED
    BY <2>1, <2>3, <2>5, SameOccurrence
<1> QED
  BY <1>1, <1>2 DEF Maintenance

\* Only retryDead and requeue reopen an occurrence, and only from dead.
LEMMA OperatorLife ==
  ASSUME RowsInv, NEW s \in Slots, Operator(s)
  PROVE  LifeStep
<1> DEFINE r == job[s]
<1>0. r \in Row
  BY RowFacts
<1>1. CASE Cancel(s)
  <2>1. CASE r.status = "pending" /\ job' = [job EXCEPT ![s] = Cancelled(r)]
    <3>1. Cancelled(r).status = "cancelled"
      BY <1>0 DEF Cancelled, Released, Row
    <3>2. Phase(r) = "open" /\ Phase(Cancelled(r)) = "cancelled"
      BY <2>1, <3>1 DEF Phase
    <3>3. LifeMove(r, Cancelled(r), occurrences[s], occurrences[s])
      BY <3>2 DEF LifeMove, Undecided
    <3> QED
      BY <1>1, <2>1, <3>1, <3>3, SameOccurrence DEF Cancel, Statuses
  <2>2. CASE /\ r.status = "running"
             /\ job' = [job EXCEPT ![s].cancel = TRUE, ![s].deferred = None]
    <3> DEFINE new == [r EXCEPT !.cancel = TRUE, !.deferred = None]
    <3>1. job' = [job EXCEPT ![s] = new] /\ new.status = r.status
      BY <1>0, <2>2 DEF RowsInv, QueueOK, Row
    <3> HIDE DEF new
    <3> QED
      BY <1>1, <3>1, SameStatus DEF Cancel
  <2> QED
    BY <1>1, <2>1, <2>2 DEF Cancel
<1>2. CASE RedriveQuarantined(s)
  BY <1>2, FreshStarts DEF RedriveQuarantined
<1>3. CASE RetryDead(s)
  <2> DEFINE new == FreshAt(r.payload, r.occurrence, "past")
  <2>1. r.status = "dead" /\ new.status = "pending"
    BY <1>3 DEF RetryDead, FreshAt
  <2>2. Phase(r) = "dead" /\ Phase(new) = "open" /\ new.status \in Statuses
    BY <2>1 DEF Phase, Statuses
  <2>3. job' = [job EXCEPT ![s] = new] /\ UNCHANGED occurrences
    BY <1>3 DEF RetryDead
  <2> HIDE DEF new
  <2> QED
    BY <2>2, <2>3, SameOccurrence DEF LifeMove
<1>4. CASE Requeue(s)
  BY <1>3, <1>4, FreshStarts DEF Requeue
<1> QED
  BY <1>1, <1>2, <1>3, <1>4 DEF Operator

\* Time moves no occurrence.
LEMMA TimeLife ==
  ASSUME RowsInv, NEW s \in Slots, TimePasses(s)
  PROVE  LifeStep
<1>1. job[s] \in Row
  BY RowFacts
<1>2. PICK new \in {[job[s] EXCEPT !.runAt = "past"],
                    [job[s] EXCEPT !.lease = "past"],
                    [job[s] EXCEPT !.retain = "past"],
                    [job[s] EXCEPT !.dedupe = "past"]} : Passes(s, new)
  BY DEF TimePasses, BecomesDue, LeaseExpires, RetentionEnds, HorizonEnds
<1>3. new.status = job[s].status
  BY <1>1 DEF Row
<1> QED
  BY <1>2, <1>3, SameStatus DEF Passes
-----------------------------------------------------------------------------
\* Every step of the queue is a step of the life cycle, or none.
LEMMA StepImplements ==
  ASSUME IInv, [Next]_vars
  PROVE  LifeStep
<1>1. CASE UNCHANGED vars
  BY <1>1, Stutter DEF vars
<1> QED
  BY <1>1, EnqueueLife, WorkerLife, MaintenanceLife, OperatorLife, TimeLife
  DEF Next, IInv

\* A decided occurrence never runs again, unless an operator reopens it from
\* dead: the queue of jobs.ts implements the life cycle of occurrences.
THEOREM OccurrencesLiveOnce == Spec => ImplementsLifecycle
<1>1. Init => Lifecycle!Init
  BY DEF Init, Lifecycle!Init, Absent, Phase
<1>2. IInv /\ [Next]_vars =>
        [Lifecycle!Next]_<<occurrences, [s \in Slots |-> Phase(job[s])]>>
  BY StepImplements DEF LifeStep, phases
<1> QED
  BY <1>1, <1>2, Invariant, PTL DEF Spec, ImplementsLifecycle, Lifecycle!Spec
-----------------------------------------------------------------------------
(***************************************************************************)
(* What the other components take a row of the queue to be, in QueueRow    *)
(* and in DeadlineJob, is what a row is: each step of the queue that they  *)
(* can see of a row nobody cancels is the operator they use for it.        *)
(***************************************************************************)
QRow(n) == INSTANCE QueueRow WITH MaxAttempts <- n
Deadline == INSTANCE DeadlineJob

\* Both know five states; quarantined is as good as dead, a key that is kept as done.
RowState(status) ==
  CASE status = "absent" -> "none"
    [] status \in Open -> status
    [] status \in {"dead", "quarantined"} -> "dead"
    [] OTHER -> "done"

\* A row in QueueRow's terms.
Seen(r) == [state |-> RowState(r.status),
            attempts |-> IF r.status \in Open THEN r.attempts ELSE 0,
            again |-> r.deferred # None]

\* A row in DeadlineJob's terms, where payload p stands for the deadline due[p].
When(due, p) == IF p = None THEN 0 ELSE due[p]

SeenAt(due, r) == [state |-> RowState(r.status), at |-> When(due, r.payload),
                   deferred |-> When(due, r.deferred)]

\* A call that found a row and replaces it, or whose key was free again.
Takes(e, s, p) ==
  /\ enq[e] # Idle /\ enq[e].slot = s /\ enq[e].payload = p
  /\ enq[e].replace \/ job[s].dedupe = "past"

\* The actions that move the row of s.
ClaimsRow(s) == \E w \in Workers, S \in SUBSET Slots : s \in S /\ ClaimJobs(w, S)

Completes(s) ==
  \E w \in Workers : \E c \in claims[w] : c.slot = s /\ Owns(c) /\ Complete(w, c)

Fails(s, permanent) ==
  \E w \in Workers : \E c \in claims[w] : c.slot = s /\ Owns(c) /\ Fail(w, c, permanent)

Quarantines(s) ==
  \E w \in Workers : \E c \in claims[w] : c.slot = s /\ Owns(c) /\ Quarantine(w, c)

\* What QueueRow says of the row of s: its attempts, and whether a replacement
\* waits, change by QueueRow's operators, each in the actions that have its effect.
AsQueueRow(s) ==
  LET n == MaxAttempts[job[s].payload]
      j == Seen(job[s])
      k == Seen(job'[s])
  IN  \/ k = j
      \/ \E e \in Enqueuers, p \in Payloads :
           /\ EnqueueNext(e) /\ k = QRow(n)!Enqueued(j)
           /\ k = QRow(n)!EnqueuedOnce(j) \/ Takes(e, s, p)
      \/ /\ ClaimsRow(s) /\ k = QRow(n)!Claimed(j)
         /\ j.state = "pending" /\ j.attempts < n
      \/ Completes(s) /\ k = QRow(n)!Completed(j)
      \/ \E permanent \in BOOLEAN : Fails(s, permanent) /\ k = QRow(n)!Failed(j, permanent)
      \/ Quarantines(s) /\ k = QRow(n)!Failed(j, TRUE)
      \/ ReclaimStale(s) /\ k = QRow(n)!Failed(j, FALSE)
      \/ CleanupExpired(s) /\ j.state = "done" /\ k = QRow(n)!NoJob
      \/ Operator(s) /\ j.state \in {"dead", "done"} /\ k = QRow(n)!Due

\* What DeadlineJob says of it: the deadline it carries, and the one that waits.
AsDeadlineJob(due, s) ==
  LET j == SeenAt(due, job[s])
      k == SeenAt(due, job'[s])
  IN  \/ k = j
      \/ \E e \in Enqueuers, p \in Payloads :
           /\ EnqueueNext(e) /\ k = Deadline!Enqueued(j, due[p])
           /\ k = Deadline!EnqueuedOnce(j, due[p]) \/ Takes(e, s, p)
      \/ ClaimsRow(s) /\ j.state = "pending" /\ k = [j EXCEPT !.state = "running"]
      \/ Completes(s) /\ k = Deadline!Settled(j, "done")
      \/ /\ ReclaimStale(s) \/ \E permanent \in BOOLEAN : Fails(s, permanent)
         /\ k = Deadline!Settled(j, "pending") \/ k = Deadline!Settled(j, "dead")
      \/ Quarantines(s) /\ k = Deadline!Settled(j, "dead")
      \/ /\ CleanupExpired(s) /\ j.state = "done"
         /\ k.state \in {"none", "done"} /\ k.deferred = 0
      \/ Operator(s) /\ j.state \in {"dead", "done"} /\ k = Deadline!JobAt(j.at)

\* No component cancels the jobs it keeps in these terms.
Uncancelled(s) == ~job[s].cancel /\ ~job'[s].cancel

\* What the views are made of.
Becomes(new, status, payload, attempts, deferred) ==
  /\ new.status = status /\ new.payload = payload
  /\ new.attempts = attempts /\ new.deferred = deferred

\* The moves of a row, one for each of these.
EnqueueMoves(s) ==
  \E e \in Enqueuers, p \in Payloads :
    /\ EnqueueNext(e)
    /\ job[s].status = "absent" \/ Takes(e, s, p)
    /\ IF job[s].status = "running"
       THEN Becomes(job'[s], "running", job[s].payload, job[s].attempts, p)
       ELSE Becomes(job'[s], "pending", p, 0, None)

ClaimMoves(s) ==
  /\ ClaimsRow(s) /\ job[s].status = "pending"
  /\ Becomes(job'[s], "running", job[s].payload, job[s].attempts + 1, None)

\* The running row of s is settled, to status unless a replacement waits.
SettlesTo(s, status) ==
  /\ job[s].status = "running"
  /\ IF job[s].deferred # None
     THEN Becomes(job'[s], "pending", job[s].deferred, 0, None)
     ELSE Becomes(job'[s], status, job[s].payload, job[s].attempts, None)

Spent(s) == job[s].attempts >= MaxAttempts[job[s].payload]

FinishMoves(s) ==
  \/ Completes(s) /\ SettlesTo(s, "completed")
  \/ \E permanent \in BOOLEAN :
       /\ Fails(s, permanent)
       /\ SettlesTo(s, IF permanent \/ Spent(s) THEN "dead" ELSE "pending")
  \/ Quarantines(s) /\ SettlesTo(s, "quarantined")
  \/ ReclaimStale(s) /\ SettlesTo(s, IF Spent(s) THEN "dead" ELSE "pending")

CleanupMoves(s) ==
  /\ CleanupExpired(s) /\ job[s].status \in Finished \cup {"dedupe_retained"}
  /\ \E status \in {"absent", "dedupe_retained"} :
       /\ Becomes(job'[s], status, None, 0, None)
       /\ job[s].status = "dedupe_retained" => status = "absent"

OperatorMoves(s) ==
  /\ Operator(s) /\ job[s].status \in {"dead", "quarantined", "completed"}
  /\ Becomes(job'[s], "pending", job[s].payload, 0, None)

Same(s) ==
  Becomes(job'[s], job[s].status, job[s].payload, job[s].attempts, job[s].deferred)

Moves(s) == \/ Same(s) \/ EnqueueMoves(s) \/ ClaimMoves(s) \/ FinishMoves(s)
            \/ CleanupMoves(s) \/ OperatorMoves(s)
-----------------------------------------------------------------------------
\* A row that is left alone, or of which only timestamps move, stays the same.
LEMMA Unmoved ==
  ASSUME NEW s \in Slots, job'[s] = job[s]
  PROVE  Same(s)
BY DEF Same, Becomes

\* A step that moves another slot's row.
LEMMA MovesOther ==
  ASSUME RowsInv, NEW s \in Slots, NEW t \in Slots \ {s}, NEW new,
         job' = [job EXCEPT ![t] = new]
  PROVE  Same(s)
BY Unmoved DEF RowsInv, QueueOK

\* A fresh row has its payload, no attempts and nothing deferred.
LEMMA FreshBecomes ==
  ASSUME NEW p, NEW o, NEW t
  PROVE  Becomes(FreshAt(p, o, t), "pending", p, 0, None)
BY DEF FreshAt, Becomes

\* enqueue replaces a row that waits, and waits behind one that runs.
LEMMA EnqueueRow ==
  ASSUME IInv, NEW s \in Slots, ~job[s].cancel, NEW e \in Enqueuers, EnqueueNext(e)
  PROVE  Same(s) \/ EnqueueMoves(s)
<1>0. /\ RowsInv /\ job \in [Slots -> Row]
      /\ enq[e].pc # "idle" => enq[e].slot \in Slots /\ enq[e].payload \in Payloads
      /\ enq[e].pc # "idle" => enq[e] # Idle
  BY QueueAssumption DEF IInv, RowsInv, QueueOK, CallsOK, Call, Idle
<1>1. ASSUME NEW t \in Slots, NEW p \in Payloads, Insert(t, p), job[t].status # "running",
             job[t].status = "absent" \/ Takes(e, t, p)
      PROVE  Same(s) \/ EnqueueMoves(s)
  <2> DEFINE new == Fresh(p, occurrences[t] + 1)
  <2>1. job' = [job EXCEPT ![t] = new]
    BY <1>1 DEF Insert
  <2>2. Becomes(new, "pending", p, 0, None)
    BY FreshBecomes DEF Fresh
  <2> HIDE DEF new
  <2>3. CASE t # s
    BY <1>0, <2>1, <2>3, MovesOther
  <2>4. CASE t = s
    <3>1. Becomes(job'[s], "pending", p, 0, None)
      BY <1>0, <2>1, <2>2, <2>4
    <3> QED
      BY <1>1, <2>4, <3>1 DEF EnqueueMoves
  <2> QED
    BY <2>3, <2>4
<1>2. ASSUME NEW t \in Slots, NEW p \in Payloads, NEW replace \in BOOLEAN,
             Enqueue(e, t, p, replace)
      PROVE  Same(s) \/ EnqueueMoves(s)
  <2>1. CASE job[t].status = "absent" /\ Insert(t, p)
    BY <1>1, <2>1
  <2>2. CASE job' = job
    BY <2>2, Unmoved
  <2> QED
    BY <1>2, <2>1, <2>2 DEF Enqueue
<1>3. CASE DeleteExpired(e)
  <2>1. CASE UNCHANGED job
    BY <2>1, Unmoved
  <2>2. CASE /\ job[enq[e].slot].status = "dedupe_retained"
             /\ job[enq[e].slot].dedupe = "past" /\ Insert(enq[e].slot, enq[e].payload)
    <3>1. enq[e].pc = "delete"
      BY <1>3 DEF DeleteExpired
    <3>2. Takes(e, enq[e].slot, enq[e].payload)
      BY <1>0, <2>2, <3>1 DEF Takes
    <3> QED
      BY <1>0, <1>1, <2>2, <3>1, <3>2
  <2> QED
    BY <1>3, <2>1, <2>2 DEF DeleteExpired
<1>4. CASE Reinsert(e)
  <2>1. CASE UNCHANGED job
    BY <2>1, Unmoved
  <2>2. CASE job[enq[e].slot].status = "absent" /\ Insert(enq[e].slot, enq[e].payload)
    BY <1>0, <1>1, <1>4, <2>2 DEF Reinsert
  <2> QED
    BY <1>4, <2>1, <2>2 DEF Reinsert
<1>5. CASE SettleEnqueue(e)
  <2> DEFINE t == enq[e].slot
             p == enq[e].payload
             new == Replaced(job[t], p, occurrences[t] + 1)
  <2>0. t \in Slots /\ p \in Payloads /\ enq[e] # Idle
    BY <1>0, <1>5 DEF SettleEnqueue
  <2>1. CASE UNCHANGED job
    BY <2>1, Unmoved
  <2>2. CASE job' = [job EXCEPT ![t] = new] /\ enq[e].replace
    <3>1. CASE t # s
      <4> HIDE DEF t, new
      <4> QED
        BY <1>0, <2>0, <2>2, <3>1, MovesOther
    <3>2. CASE t = s
      <4>1. Takes(e, s, p)
        BY <2>0, <2>2, <3>2 DEF Takes
      <4>2. job'[s] = new /\ job[s] \in Row
        BY <1>0, <2>0, <2>2, <3>2
      <4>3. CASE job[s].status = "running"
        <5>1. new = [job[s] EXCEPT !.deferred = p]
          BY <3>2, <4>3 DEF Replaced
        <5>2. Becomes(new, "running", job[s].payload, job[s].attempts, p)
          BY <4>2, <4>3, <5>1 DEF Becomes, Row
        <5> QED
          BY <1>5, <2>0, <4>1, <4>2, <4>3, <5>2 DEF EnqueueMoves
      <4>4. CASE job[s].status # "running"
        <5>1. Becomes(new, "pending", p, 0, None)
          BY <3>2, <4>4, FreshBecomes DEF Replaced, Fresh
        <5> QED
          BY <1>5, <2>0, <4>1, <4>2, <4>4, <5>1 DEF EnqueueMoves
      <4> QED
        BY <4>3, <4>4
    <3> QED
      BY <3>1, <3>2
  <2> QED
    BY <1>5, <2>1, <2>2 DEF SettleEnqueue
<1> QED
  BY <1>2, <1>3, <1>4, <1>5 DEF EnqueueNext

\* A claim makes a pending row running and counts the attempt.
LEMMA ClaimRow ==
  ASSUME RowsInv, NEW w \in Workers, NEW S \in SUBSET Slots, ClaimJobs(w, S)
  PROVE  \A s \in Slots : Same(s) \/ ClaimMoves(s)
<1>1. ASSUME NEW s \in Slots, s \notin S PROVE Same(s)
  <2>1. job'[s] = job[s]
    BY <1>1 DEF ClaimJobs
  <2> QED
    BY <2>1, Unmoved
<1>2. ASSUME NEW s \in S PROVE ClaimMoves(s)
  <2>1. job[s].status = "pending" /\ s \in Slots
    BY DEF ClaimJobs, Claimable
  <2>2. job'[s] = [job[s] EXCEPT !.status = "running", !.claimToken = NextToken(s),
                                 !.lease = "future", !.attempts = @ + 1]
    BY DEF ClaimJobs
  <2>3. job[s] \in Row /\ job[s].deferred = None
    BY <2>1, RowFacts DEF RowOK
  <2>4. Becomes(job'[s], "running", job[s].payload, job[s].attempts + 1, None)
    BY <2>2, <2>3 DEF Becomes, Row
  <2> QED
    BY <2>1, <2>4 DEF ClaimMoves, ClaimsRow
<1> QED
  BY <1>1, <1>2

\* A settlement of the row of s, which nobody cancelled.
LEMMA SettledRow ==
  ASSUME NEW s \in Slots, job[s] \in Row, job[s].status = "running", ~job[s].cancel,
         NEW st, NEW outcome, NEW o, job'[s] = Settled(job[s], outcome, o),
         Becomes(outcome, st, job[s].payload, job[s].attempts, None)
  PROVE  SettlesTo(s, st)
<1>1. CASE job[s].deferred # None
  BY <1>1, FreshBecomes DEF Settled, SettlesTo, Fresh
<1>2. CASE job[s].deferred = None
  BY <1>2 DEF Settled, SettlesTo
<1> QED
  BY <1>1, <1>2

\* A handler ends: its row is settled as it says.
LEMMA FinishRow ==
  ASSUME RowsInv, NEW s \in Slots, ~job[s].cancel,
         NEW w \in Workers, NEW c \in claims[w], Finish(w, c)
  PROVE  Same(s) \/ FinishMoves(s)
<1> DEFINE r == job[s]
<1>0. c.slot \in Slots /\ job \in [Slots -> Row] /\ r \in Row
  BY DEF RowsInv, QueueOK, Claim
<1>1. CASE LostFence(w, c)
  BY <1>1, Unmoved DEF LostFence, StopWorker
<1>2. ASSUME NEW new, SettleClaim(w, c, new), c.slot # s PROVE Same(s)
  BY <1>0, <1>2, MovesOther DEF SettleClaim
<1>3. ASSUME NEW new, SettleClaim(w, c, new), c.slot = s
      PROVE  job'[s] = new /\ r.status = "running" /\ Owns(c)
  BY <1>0, <1>3 DEF SettleClaim, Owns
<1>4. CASE Complete(w, c)
  <2> DEFINE done == [Released(job[c.slot], "completed") EXCEPT !.retain = "future",
                                                                !.dedupe = "future"]
             settled == Settled(job[c.slot], done, occurrences[c.slot] + 1)
             new == IF job[c.slot].deferred = None THEN settled
                    ELSE [settled EXCEPT !.retain = "null", !.dedupe = "null"]
  <2>1. SettleClaim(w, c, new)
    BY <1>4 DEF Complete
  <2>2. CASE c.slot = s
    <3>1. job'[s] = new /\ r.status = "running" /\ Owns(c)
      BY <1>3, <2>1, <2>2
    <3>2. Completes(s)
      BY <1>4, <2>2, <3>1 DEF Completes
    <3>3. CASE r.deferred = None
      <4>1. job'[s] = done
        BY <2>2, <3>1, <3>3 DEF Settled
      <4>2. Becomes(done, "completed", r.payload, r.attempts, None)
        BY <1>0, <2>2 DEF Released, Becomes, Row
      <4> QED
        BY <3>1, <3>2, <3>3, <4>1, <4>2 DEF SettlesTo, FinishMoves
    <3>4. CASE r.deferred # None
      <4>1. settled = Fresh(r.deferred, occurrences[s] + 1)
        BY <2>2, <3>4 DEF Settled
      <4>2. Becomes(new, "pending", r.deferred, 0, None)
        BY <2>2, <3>4, <4>1 DEF Fresh, FreshAt, Becomes
      <4> QED
        BY <3>1, <3>2, <3>4, <4>2 DEF SettlesTo, FinishMoves
    <3> QED
      BY <3>3, <3>4
  <2> HIDE DEF new
  <2> QED
    BY <1>2, <2>1, <2>2
<1>5. ASSUME NEW permanent \in BOOLEAN, Fail(w, c, permanent)
      PROVE  Same(s) \/ FinishMoves(s)
  <2> DEFINE exhausted == permanent \/ UsedUp(c.attempts, c.payload)
             failed == IF exhausted THEN Released(job[c.slot], "dead")
                       ELSE Retried(job[c.slot])
             st == IF permanent \/ Spent(s) THEN "dead" ELSE "pending"
  <2>1. SettleClaim(w, c, Settled(job[c.slot], failed, occurrences[c.slot] + 1))
    BY <1>5 DEF Fail
  <2>2. CASE c.slot = s
    <3>1. /\ job'[s] = Settled(r, failed, occurrences[s] + 1)
          /\ r.status = "running" /\ Owns(c)
      BY <1>3, <2>1, <2>2
    <3>2. c.attempts = r.attempts /\ c.payload = r.payload
      BY <2>2, <3>1 DEF RowsInv, ClaimsKnow, Owns
    <3>3. exhausted <=> permanent \/ Spent(s)
      BY <3>2 DEF UsedUp, Spent
    <3>4. Becomes(failed, st, r.payload, r.attempts, None)
      BY <1>0, <2>2, <3>3 DEF Released, Retried, Becomes, Row
    <3> HIDE DEF failed, st
    <3>5. SettlesTo(s, st)
      BY <1>0, <3>1, <3>4, SettledRow
    <3>6. Fails(s, permanent)
      BY <1>5, <2>2, <3>1 DEF Fails
    <3> QED
      BY <3>5, <3>6 DEF FinishMoves, st
  <2> HIDE DEF failed
  <2> QED
    BY <1>2, <2>1, <2>2
<1>6. CASE Quarantine(w, c)
  <2> DEFINE kept == Released(job[c.slot], "quarantined")
  <2>1. SettleClaim(w, c, Settled(job[c.slot], kept, occurrences[c.slot] + 1))
    BY <1>6 DEF Quarantine
  <2>2. CASE c.slot = s
    <3>1. /\ job'[s] = Settled(r, kept, occurrences[s] + 1)
          /\ r.status = "running" /\ Owns(c)
      BY <1>3, <2>1, <2>2
    <3>2. Becomes(kept, "quarantined", r.payload, r.attempts, None)
      BY <1>0, <2>2 DEF Released, Becomes, Row
    <3> HIDE DEF kept
    <3>3. SettlesTo(s, "quarantined")
      BY <1>0, <3>1, <3>2, SettledRow
    <3> QED
      BY <1>6, <2>2, <3>1, <3>3 DEF FinishMoves, Quarantines
  <2> HIDE DEF kept
  <2> QED
    BY <1>2, <2>1, <2>2
<1> QED
  BY <1>1, <1>4, <1>5, <1>6 DEF Finish

\* Recovery settles an expired lease; cleanup leaves a key or nothing.
LEMMA MaintenanceRow ==
  ASSUME RowsInv, NEW s \in Slots, ~job[s].cancel, NEW t \in Slots, Maintenance(t)
  PROVE  Same(s) \/ FinishMoves(s) \/ CleanupMoves(s)
<1> DEFINE r == job[t]
<1>0. job[t] \in Row /\ job \in [Slots -> Row]
  BY DEF RowsInv, QueueOK
<1>1. CASE ReclaimStale(t)
  <2> DEFINE failed == IF UsedUp(r.attempts, r.payload) THEN Released(r, "dead")
                       ELSE Retried(r)
             st == IF Spent(t) THEN "dead" ELSE "pending"
  <2>1. /\ r.status = "running"
        /\ job' = [job EXCEPT ![t] = Settled(r, failed, occurrences[t] + 1)]
    BY <1>1 DEF ReclaimStale
  <2>2. Becomes(failed, st, r.payload, r.attempts, None)
    BY <1>0 DEF UsedUp, Spent, Released, Retried, Becomes, Row
  <2> HIDE DEF failed, st
  <2>3. CASE t # s
    BY <1>0, <2>1, <2>3, MovesOther
  <2>4. CASE t = s
    <3>1. SettlesTo(s, st)
      BY <1>0, <2>1, <2>2, <2>4, SettledRow
    <3> QED
      BY <1>1, <2>4, <3>1 DEF FinishMoves, st
  <2> QED
    BY <2>3, <2>4
<1>2. CASE CleanupExpired(t)
  <2>1. PICK new \in {Tombstone(r), Absent} :
          /\ job' = [job EXCEPT ![t] = new]
          /\ r.status \in Finished \cup {"dedupe_retained"}
          /\ r.status = "dedupe_retained" => new = Absent
    BY <1>2 DEF CleanupExpired, Finished
  <2>2. \E status \in {"absent", "dedupe_retained"} :
          /\ Becomes(new, status, None, 0, None)
          /\ r.status = "dedupe_retained" => status = "absent"
    <3>1. Becomes(Absent, "absent", None, 0, None)
      BY DEF Absent, Becomes
    <3>2. Becomes(Tombstone(r), "dedupe_retained", None, 0, None)
      BY DEF Tombstone, Becomes
    <3> QED
      BY <2>1, <3>1, <3>2
  <2>3. CASE t # s
    BY <1>0, <2>1, <2>3, MovesOther
  <2>4. CASE t = s
    <3>1. job'[s] = new
      BY <1>0, <2>1, <2>4
    <3> QED
      BY <1>2, <2>1, <2>2, <2>4, <3>1 DEF CleanupMoves
  <2> QED
    BY <2>3, <2>4
<1> QED
  BY <1>1, <1>2 DEF Maintenance

\* What an operator reopens starts afresh.
LEMMA OperatorRow ==
  ASSUME RowsInv, NEW s \in Slots, ~job'[s].cancel, NEW t \in Slots, Operator(t)
  PROVE  Same(s) \/ OperatorMoves(s)
<1>0. job[t] \in Row /\ job \in [Slots -> Row]
  BY DEF RowsInv, QueueOK
<1>1. CASE Cancel(t)
  <2>1. PICK new \in {Cancelled(job[t]), [job[t] EXCEPT !.cancel = TRUE, !.deferred = None]} :
          job' = [job EXCEPT ![t] = new]
    BY <1>0, <1>1 DEF Cancel, RowsInv, QueueOK
  <2>2. new.cancel
    BY <1>0 DEF Cancelled, Released, Row
  <2>3. t # s
    BY <1>0, <2>1, <2>2
  <2> QED
    BY <2>1, <2>3, MovesOther
<1>2. CASE ~Cancel(t)
  <2>1. PICK o \in {job[t].occurrence, occurrences[t] + 1}, at \in {job[t].runAt, "past"} :
          /\ job[t].status \in {"dead", "quarantined", "completed"}
          /\ job' = [job EXCEPT ![t] = FreshAt(job[t].payload, o, at)]
    BY <1>2 DEF Operator, RedriveQuarantined, RetryDead, Requeue
  <2> DEFINE new == FreshAt(job[t].payload, o, at)
  <2>2. Becomes(new, "pending", job[t].payload, 0, None)
    BY FreshBecomes
  <2>3. job' = [job EXCEPT ![t] = new]
    BY <2>1
  <2> HIDE DEF new
  <2>4. CASE t # s
    BY <2>3, <2>4, MovesOther
  <2>5. CASE t = s
    BY <1>0, <2>1, <2>2, <2>3, <2>5 DEF OperatorMoves
  <2> QED
    BY <2>4, <2>5
<1> QED
  BY <1>1, <1>2

\* A timestamp passes, or a lease is extended.
LEMMA StampRow ==
  ASSUME RowsInv, NEW s \in Slots, NEW t \in Slots,
         NEW new \in {[job[t] EXCEPT !.runAt = "past"], [job[t] EXCEPT !.lease = "past"],
                      [job[t] EXCEPT !.retain = "past"], [job[t] EXCEPT !.dedupe = "past"],
                      [job[t] EXCEPT !.lease = "future"]},
         job' = [job EXCEPT ![t] = new]
  PROVE  Same(s)
<1>1. job \in [Slots -> Row] /\ job[t] \in Row
  BY DEF RowsInv, QueueOK
<1>2. Becomes(new, job[t].status, job[t].payload, job[t].attempts, job[t].deferred)
  BY <1>1 DEF Becomes, Row
<1> QED
  BY <1>1, <1>2, Unmoved DEF Same

\* Whatever the queue does to a row nobody cancels is one of these moves.
LEMMA EveryMove ==
  ASSUME IInv, [Next]_vars, NEW s \in Slots, Uncancelled(s)
  PROVE  Moves(s)
<1> USE DEF Moves
<1>0. RowsInv /\ ~job[s].cancel /\ ~job'[s].cancel
  BY DEF IInv, Uncancelled
<1>1. CASE UNCHANGED vars
  BY <1>1, Unmoved DEF vars
<1>2. ASSUME NEW e \in Enqueuers, EnqueueNext(e) PROVE Moves(s)
  BY <1>0, <1>2, EnqueueRow
<1>3. ASSUME NEW w \in Workers, WorkerNext(w) PROVE Moves(s)
  <2>1. ASSUME NEW c \in claims[w], Heartbeat(w, c) PROVE Moves(s)
    <3>1. c.slot \in Slots
      BY <1>0 DEF RowsInv, QueueOK, Claim
    <3>2. job' = [job EXCEPT ![c.slot] = [job[c.slot] EXCEPT !.lease = "future"]]
      BY <2>1, <3>1 DEF Heartbeat
    <3> QED
      BY <1>0, <3>1, <3>2, StampRow
  <2>2. CASE Crash(w)
    BY <2>2, Unmoved DEF Crash, StopWorker
  <2> QED
    BY <1>0, <1>3, <2>1, <2>2, ClaimRow, FinishRow DEF WorkerNext
<1>4. ASSUME NEW t \in Slots, Maintenance(t) \/ Operator(t) PROVE Moves(s)
  BY <1>0, <1>4, MaintenanceRow, OperatorRow
<1>5. ASSUME NEW t \in Slots, TimePasses(t) PROVE Moves(s)
  <2>1. PICK new \in {[job[t] EXCEPT !.runAt = "past"], [job[t] EXCEPT !.lease = "past"],
                      [job[t] EXCEPT !.retain = "past"], [job[t] EXCEPT !.dedupe = "past"],
                      [job[t] EXCEPT !.lease = "future"]} :
          job' = [job EXCEPT ![t] = new]
    BY <1>5 DEF TimePasses, BecomesDue, LeaseExpires, RetentionEnds, HorizonEnds, Passes
  <2> QED
    BY <1>0, <2>1, StampRow
<1> QED
  BY <1>1, <1>2, <1>3, <1>4, <1>5 DEF Next
-----------------------------------------------------------------------------
\* A row in the terms of its status, payload, attempts and deferred payload.
LEMMA SeenBy ==
  ASSUME NEW r, NEW status, NEW payload, NEW attempts, NEW deferred,
         Becomes(r, status, payload, attempts, deferred)
  PROVE  Seen(r) = [state |-> RowState(status),
                    attempts |-> IF status \in Open THEN attempts ELSE 0,
                    again |-> deferred # None]
BY DEF Seen, Becomes

\* A row that is fresh is due, whoever asked for it.
LEMMA SeenFresh ==
  ASSUME NEW r, NEW payload, Becomes(r, "pending", payload, 0, None), NEW n
  PROVE  Seen(r) = QRow(n)!Due
<1>1. Seen(r) = [state |-> RowState("pending"),
                 attempts |-> IF "pending" \in Open THEN 0 ELSE 0, again |-> None # None]
  BY SeenBy
<1>2. RowState("pending") = "pending"
  BY DEF RowState, Open
<1> QED
  BY <1>1, <1>2 DEF QRow!Due, QRow!Closed

\* What the fields of such a record are, and become.
LEMMA Fields ==
  ASSUME NEW st, NEW a, NEW b, NEW j, j = [state |-> st, attempts |-> a, again |-> b]
  PROVE  j.state = st /\ j.attempts = a /\ j.again = b
OBVIOUS

LEMMA FieldSet ==
  ASSUME NEW st, NEW a, NEW b, NEW j, NEW new,
         j = [state |-> st, attempts |-> a, again |-> b]
  PROVE  /\ [j EXCEPT !.state = new] = [state |-> new, attempts |-> a, again |-> b]
         /\ [j EXCEPT !.attempts = new] = [state |-> st, attempts |-> new, again |-> b]
         /\ [j EXCEPT !.again = new] = [state |-> st, attempts |-> a, again |-> new]
<1>1. [j EXCEPT !.state = new] = [state |-> new, attempts |-> a, again |-> b]
  OBVIOUS
<1>2. [j EXCEPT !.attempts = new] = [state |-> st, attempts |-> new, again |-> b]
  OBVIOUS
<1>3. [j EXCEPT !.again = new] = [state |-> st, attempts |-> a, again |-> new]
  OBVIOUS
<1> QED
  BY <1>1, <1>2, <1>3

LEMMA FieldsClaimed ==
  ASSUME NEW st, NEW a, NEW b, NEW j, NEW n,
         j = [state |-> st, attempts |-> a, again |-> b]
  PROVE  QRow(n)!Claimed(j) = [state |-> "running", attempts |-> a + 1, again |-> b]
<1>1. ASSUME NEW c
      PROVE  [j EXCEPT !.state = "running", !.attempts = c]
               = [state |-> "running", attempts |-> c, again |-> b]
  <2>1. PICK i : i = [j EXCEPT !.state = "running"]
    OBVIOUS
  <2>2. i = [state |-> "running", attempts |-> a, again |-> b]
    BY <2>1, FieldSet
  <2>3. [i EXCEPT !.attempts = c] = [state |-> "running", attempts |-> c, again |-> b]
    BY <2>2, FieldSet
  <2> QED
    BY <2>1, <2>3
<1>2. QRow(n)!Claimed(j) = [j EXCEPT !.state = "running", !.attempts = j.attempts + 1]
  BY DEF QRow!Claimed
<1>3. j.attempts = a
  BY Fields
<1> QED
  BY <1>1, <1>2, <1>3

\* A settlement in QueueRow's terms.
LEMMA SeenSettled ==
  ASSUME RowsInv, NEW s \in Slots,
         NEW status \in {"pending", "completed", "dead", "quarantined"},
         SettlesTo(s, status), NEW n
  PROVE  Seen(job'[s]) = QRow(n)!Settled(Seen(job[s]),
           IF status = "pending" THEN [Seen(job[s]) EXCEPT !.state = "pending"]
           ELSE QRow(n)!Closed(RowState(status)))
<1> DEFINE r == job[s]
           j == Seen(r)
<1>1. r.status = "running"
  BY DEF SettlesTo
<1>3. CASE r.deferred # None
  <2>1. Seen(job'[s]) = QRow(n)!Due
    <3>1. Becomes(job'[s], "pending", r.deferred, 0, None)
      BY <1>3 DEF SettlesTo
    <3> QED
      BY <3>1, SeenFresh
  <2>2. j = [state |-> "running", attempts |-> r.attempts, again |-> TRUE]
    BY <1>1, <1>3 DEF Seen, RowState, Open
  <2>3. j.again = TRUE
    <3> HIDE DEF j
    <3> QED
      BY <2>2, Fields
  <2> QED
    BY <2>1, <2>3 DEF QRow!Settled
<1>4. CASE r.deferred = None
  <2>1. Seen(job'[s]) = [state |-> RowState(status),
                         attempts |-> IF status \in Open THEN r.attempts ELSE 0,
                         again |-> FALSE]
    BY <1>4 DEF SettlesTo, Seen, Becomes
  <2>2. j = [state |-> "running", attempts |-> r.attempts, again |-> FALSE]
    BY <1>1, <1>4 DEF Seen, RowState, Open
  <2>5. j.again = FALSE
    <3> HIDE DEF j
    <3> QED
      BY <2>2, Fields
  <2>3. CASE status = "pending"
    <3>1. Seen(job'[s]) = [state |-> "pending", attempts |-> r.attempts, again |-> FALSE]
      BY <2>1, <2>3 DEF RowState, Open
    <3>2. PICK b : /\ j = [state |-> "running", attempts |-> r.attempts, again |-> b]
                   /\ Seen(job'[s]) = [state |-> "pending", attempts |-> r.attempts,
                                       again |-> b]
      BY <2>2, <3>1
    <3>3. Seen(job'[s]) = [j EXCEPT !.state = "pending"]
      BY <3>2, FieldSet
    <3> QED
      BY <2>5, <2>3, <3>3 DEF QRow!Settled
  <2>4. CASE status # "pending"
    <3>1. Seen(job'[s]) = [state |-> RowState(status), attempts |-> 0, again |-> FALSE]
      BY <2>1, <2>4 DEF Open
    <3> QED
      BY <2>5, <2>4, <3>1 DEF QRow!Settled, QRow!Closed
  <2> QED
    BY <2>3, <2>4
<1> QED
  BY <1>3, <1>4

\* Every move of a row is what QueueRow takes it to be.
LEMMA MovesAsQueueRow ==
  ASSUME RowsInv, NEW s \in Slots, Moves(s)
  PROVE  AsQueueRow(s)
<1> DEFINE r == job[s]
           n == MaxAttempts[r.payload]
           j == Seen(r)
           k == Seen(job'[s])
<1>0. RowOK(r, occurrences[s]) /\ r \in Row
  BY RowFacts
<1>1. j.state = RowState(r.status) /\ j.attempts = IF r.status \in Open THEN r.attempts ELSE 0
  BY DEF Seen
<1>2. CASE Same(s)
  <2>1. k = j
    BY <1>2 DEF Same, Becomes, Seen
  <2> QED
    BY <2>1 DEF AsQueueRow
<1>3. CASE EnqueueMoves(s)
  <2>1. PICK e \in Enqueuers, p \in Payloads :
          /\ EnqueueNext(e)
          /\ r.status = "absent" \/ Takes(e, s, p)
          /\ IF r.status = "running"
             THEN Becomes(job'[s], "running", r.payload, r.attempts, p)
             ELSE Becomes(job'[s], "pending", p, 0, None)
    BY <1>3 DEF EnqueueMoves
  <2>2. k = QRow(n)!Enqueued(j)
    <3>1. CASE r.status = "running"
      <4>1. k = [state |-> "running", attempts |-> r.attempts, again |-> TRUE]
        BY <2>1, <3>1, QueueAssumption DEF Seen, Becomes, RowState, Open
      <4>2. PICK again \in BOOLEAN :
              j = [state |-> "running", attempts |-> r.attempts, again |-> again]
        BY <3>1 DEF Seen, RowState, Open
      <4> HIDE DEF j, k, n
      <4> QED
        BY <4>1, <4>2, Fields, FieldSet DEF QRow!Enqueued
    <3>2. CASE r.status # "running"
      <4>1. k = QRow(n)!Due
        BY <2>1, <3>2, SeenFresh
      <4>2. j.state # "running"
        BY <1>0, <1>1, <3>2 DEF RowState, Open, Row, Statuses
      <4> QED
        BY <4>1, <4>2 DEF QRow!Enqueued
    <3> QED
      BY <3>1, <3>2
  <2>3. r.status = "absent" => k = QRow(n)!EnqueuedOnce(j)
    <3>1. r.status = "absent" => j.state = "none"
      BY DEF Seen, RowState, Open
    <3>2. r.status = "absent" => k = QRow(n)!Due
      BY <2>1, SeenFresh
    <3> QED
      BY <3>1, <3>2 DEF QRow!EnqueuedOnce
  <2> HIDE DEF n, j, k
  <2>4. /\ EnqueueNext(e) /\ k = QRow(n)!Enqueued(j)
        /\ k = QRow(n)!EnqueuedOnce(j) \/ Takes(e, s, p)
    BY <2>1, <2>2, <2>3
  <2> USE DEF n, j, k
  <2> QED
    BY <2>4 DEF AsQueueRow
<1>4. CASE ClaimMoves(s)
  <2>1. r.status = "pending" /\ r.deferred = None /\ r.attempts < n /\ ClaimsRow(s)
    BY <1>0, <1>4 DEF ClaimMoves, RowOK
  <2>2. k = [state |-> "running", attempts |-> r.attempts + 1, again |-> FALSE]
    BY <1>4 DEF ClaimMoves, Seen, Becomes, RowState, Open
  <2>3. j = [state |-> "pending", attempts |-> r.attempts, again |-> FALSE]
    BY <2>1 DEF Seen, RowState, Open
  <2>4. k = QRow(n)!Claimed(j)
    <3>1. PICK b : /\ k = [state |-> "running", attempts |-> r.attempts + 1, again |-> b]
                   /\ j = [state |-> "pending", attempts |-> r.attempts, again |-> b]
      BY <2>2, <2>3
    <3> HIDE DEF j, k, n
    <3> QED
      BY <3>1, FieldsClaimed
  <2>5. j.state = "pending" /\ j.attempts < n
    BY <2>1, <2>3
  <2> QED
    BY <2>1, <2>4, <2>5 DEF AsQueueRow
<1>5. CASE FinishMoves(s)
  <2>0. r.status = "running"
    BY <1>5 DEF FinishMoves, SettlesTo
  <2>1. j.attempts >= n <=> Spent(s)
    BY <1>1, <2>0 DEF Open, Spent
  <2>2. ASSUME NEW permanent \in BOOLEAN,
               SettlesTo(s, IF permanent \/ Spent(s) THEN "dead" ELSE "pending")
        PROVE  k = QRow(n)!Failed(j, permanent)
    <3> DEFINE st == IF permanent \/ Spent(s) THEN "dead" ELSE "pending"
    <3>1. st \in {"pending", "completed", "dead", "quarantined"} /\ SettlesTo(s, st)
      BY <2>2
    <3>2. st = "pending" <=> ~(permanent \/ j.attempts >= n)
      BY <2>1
    <3>3. st # "pending" => RowState(st) = "dead"
      BY DEF RowState, Open
    <3> HIDE DEF st
    <3>4. k = QRow(n)!Settled(j, IF st = "pending" THEN [j EXCEPT !.state = "pending"]
                              ELSE QRow(n)!Closed(RowState(st)))
      BY <3>1, SeenSettled
    <3> HIDE DEF j, k, n
    <3> QED
      BY <3>2, <3>3, <3>4 DEF QRow!Failed
  <2>3. ASSUME SettlesTo(s, "completed") PROVE k = QRow(n)!Completed(j)
    <3>1. k = QRow(n)!Settled(j, IF "completed" = "pending" THEN [j EXCEPT !.state = "pending"]
                              ELSE QRow(n)!Closed(RowState("completed")))
      BY <2>3, SeenSettled
    <3>2. RowState("completed") = "done"
      BY DEF RowState, Open
    <3> HIDE DEF j, k, n
    <3> QED
      BY <3>1, <3>2 DEF QRow!Completed
  <2>4. ASSUME SettlesTo(s, "quarantined") PROVE k = QRow(n)!Failed(j, TRUE)
    <3>1. k = QRow(n)!Settled(j, IF "quarantined" = "pending" THEN [j EXCEPT !.state = "pending"]
                              ELSE QRow(n)!Closed(RowState("quarantined")))
      BY <2>4, SeenSettled
    <3>2. RowState("quarantined") = "dead"
      BY DEF RowState, Open
    <3> HIDE DEF j, k, n
    <3> QED
      BY <3>1, <3>2 DEF QRow!Failed
  <2>5. CASE Completes(s) /\ SettlesTo(s, "completed")
    BY <2>3, <2>5 DEF AsQueueRow
  <2>6. CASE \E permanent \in BOOLEAN :
               /\ Fails(s, permanent)
               /\ SettlesTo(s, IF permanent \/ Spent(s) THEN "dead" ELSE "pending")
    BY <2>2, <2>6 DEF AsQueueRow
  <2>7. CASE Quarantines(s) /\ SettlesTo(s, "quarantined")
    BY <2>4, <2>7 DEF AsQueueRow
  <2>8. CASE ReclaimStale(s) /\ SettlesTo(s, IF Spent(s) THEN "dead" ELSE "pending")
    <3>1. k = QRow(n)!Failed(j, FALSE)
      BY <2>2, <2>8
    <3> QED
      BY <2>8, <3>1 DEF AsQueueRow
  <2> QED
    BY <1>5, <2>5, <2>6, <2>7, <2>8 DEF FinishMoves
<1>6. CASE CleanupMoves(s)
  <2>1. PICK status \in {"absent", "dedupe_retained"} :
          /\ Becomes(job'[s], status, None, 0, None)
          /\ r.status = "dedupe_retained" => status = "absent"
    BY <1>6 DEF CleanupMoves
  <2>2. /\ r.status \in {"completed", "cancelled", "dedupe_retained"} /\ CleanupExpired(s)
        /\ r.deferred = None
    BY <1>0, <1>6 DEF CleanupMoves, Finished, RowOK
  <2>3. j = [state |-> "done", attempts |-> 0, again |-> FALSE]
    BY <2>2 DEF Seen, RowState, Open
  <2>4. CASE status = "absent"
    <3>1. k = [state |-> "none", attempts |-> 0, again |-> FALSE]
      BY <2>1, <2>4 DEF Seen, Becomes, RowState, Open
    <3>2. k = QRow(n)!NoJob /\ j.state = "done"
      BY <2>3, <3>1 DEF QRow!NoJob, QRow!Closed
    <3> QED
      BY <2>2, <3>2 DEF AsQueueRow
  <2>5. CASE status = "dedupe_retained"
    <3>1. k = [state |-> "done", attempts |-> 0, again |-> FALSE]
      BY <2>1, <2>5 DEF Seen, Becomes, RowState, Open
    <3>2. k = j
      BY <2>3, <3>1
    <3> QED
      BY <3>2 DEF AsQueueRow
  <2> QED
    BY <2>4, <2>5
<1>7. CASE OperatorMoves(s)
  <2>1. Operator(s) /\ r.status \in {"dead", "quarantined", "completed"}
    BY <1>7 DEF OperatorMoves
  <2>2. k = QRow(n)!Due
    BY <1>7, SeenFresh DEF OperatorMoves
  <2>3. j.state \in {"dead", "done"}
    BY <1>1, <2>1 DEF RowState, Open
  <2> QED
    BY <2>1, <2>2, <2>3 DEF AsQueueRow
<1> QED
  BY <1>2, <1>3, <1>4, <1>5, <1>6, <1>7 DEF Moves

\* What the components assume of a row that is claimed, retried, replaced and
\* cleaned up (QueueRow), whoever else uses the queue: a row that nobody cancels
\* does nothing else, and does it only in the action that is meant to.
THEOREM RowsAreAsAssumed ==
  Spec => [][\A s \in Slots : Uncancelled(s) => AsQueueRow(s)]_vars
<1>1. IInv /\ [Next]_vars => [\A s \in Slots : Uncancelled(s) => AsQueueRow(s)]_vars
  BY EveryMove, MovesAsQueueRow DEF IInv
<1> QED
  BY <1>1, Invariant, PTL DEF Spec
-----------------------------------------------------------------------------
\* A row in DeadlineJob's terms.
LEMMA SeenAtBy ==
  ASSUME NEW due, NEW r, NEW status, NEW payload, NEW attempts, NEW deferred,
         Becomes(r, status, payload, attempts, deferred)
  PROVE  SeenAt(due, r) = [state |-> RowState(status), at |-> When(due, payload),
                           deferred |-> When(due, deferred)]
BY DEF SeenAt, Becomes

LEMMA SeenAtFresh ==
  ASSUME NEW due, NEW r, NEW payload \in Payloads, Becomes(r, "pending", payload, 0, None)
  PROVE  SeenAt(due, r) = Deadline!JobAt(due[payload])
<1>1. SeenAt(due, r) = [state |-> RowState("pending"), at |-> When(due, payload),
                        deferred |-> When(due, None)]
  BY SeenAtBy
<1>2. RowState("pending") = "pending" /\ When(due, payload) = due[payload]
      /\ When(due, None) = 0
  BY QueueAssumption DEF RowState, Open, When
<1> QED
  BY <1>1, <1>2 DEF Deadline!JobAt

\* A settlement in DeadlineJob's terms.
LEMMA SeenAtSettled ==
  ASSUME RowsInv, NEW s \in Slots, NEW due \in [Payloads -> Nat \ {0}],
         NEW status, SettlesTo(s, status)
  PROVE  SeenAt(due, job'[s]) = Deadline!Settled(SeenAt(due, job[s]), RowState(status))
<1> DEFINE r == job[s]
           j == SeenAt(due, r)
<1>1. r.deferred # None => r.deferred \in Payloads
  BY RowFacts DEF Row
<1>2. j = [state |-> RowState(r.status), at |-> When(due, r.payload),
           deferred |-> When(due, r.deferred)]
  BY DEF SeenAt
<1>3. CASE r.deferred # None
  <2>1. SeenAt(due, job'[s]) = Deadline!JobAt(due[r.deferred])
    BY <1>1, <1>3, SeenAtFresh DEF SettlesTo
  <2>2. j.deferred = due[r.deferred] /\ due[r.deferred] > 0
    BY <1>1, <1>2, <1>3 DEF When
  <2> QED
    BY <2>1, <2>2 DEF Deadline!Settled
<1>4. CASE r.deferred = None
  <2>1. SeenAt(due, job'[s]) = [state |-> RowState(status), at |-> When(due, r.payload),
                                deferred |-> When(due, None)]
    BY <1>4, SeenAtBy DEF SettlesTo
  <2>2. ~(j.deferred > 0)
    BY <1>2, <1>4 DEF When
  <2>3. SeenAt(due, job'[s]) = [j EXCEPT !.state = RowState(status)]
    BY <1>2, <1>4, <2>1
  <2> QED
    BY <2>2, <2>3 DEF Deadline!Settled
<1> QED
  BY <1>3, <1>4

\* Every move of a row is what DeadlineJob takes it to be.
LEMMA MovesAsDeadlineJob ==
  ASSUME RowsInv, NEW s \in Slots, NEW due \in [Payloads -> Nat \ {0}], Moves(s)
  PROVE  AsDeadlineJob(due, s)
<1> DEFINE r == job[s]
           j == SeenAt(due, r)
           k == SeenAt(due, job'[s])
<1>0. RowOK(r, occurrences[s]) /\ r \in Row
  BY RowFacts
<1>1. j = [state |-> RowState(r.status), at |-> When(due, r.payload),
           deferred |-> When(due, r.deferred)]
  BY DEF SeenAt
<1>2. CASE Same(s)
  <2>1. k = j
    BY <1>2 DEF Same, Becomes, SeenAt
  <2> QED
    BY <2>1 DEF AsDeadlineJob
<1>3. CASE EnqueueMoves(s)
  <2>1. PICK e \in Enqueuers, p \in Payloads :
          /\ EnqueueNext(e)
          /\ r.status = "absent" \/ Takes(e, s, p)
          /\ IF r.status = "running"
             THEN Becomes(job'[s], "running", r.payload, r.attempts, p)
             ELSE Becomes(job'[s], "pending", p, 0, None)
    BY <1>3 DEF EnqueueMoves
  <2>2. k = Deadline!Enqueued(j, due[p])
    <3>1. CASE r.status = "running"
      <4>1. k = [state |-> RowState("running"), at |-> When(due, r.payload),
                 deferred |-> When(due, p)]
        BY <2>1, <3>1, SeenAtBy
      <4>2. When(due, p) = due[p] /\ RowState("running") = "running"
        BY QueueAssumption DEF When, RowState, Open
      <4>3. k = [j EXCEPT !.deferred = due[p]] /\ j.state = "running"
        BY <1>1, <3>1, <4>1, <4>2
      <4> QED
        BY <4>3 DEF Deadline!Enqueued
    <3>2. CASE r.status # "running"
      <4>1. k = Deadline!JobAt(due[p])
        BY <2>1, <3>2, SeenAtFresh
      <4>2. j.state # "running"
        BY <1>0, <3>2 DEF SeenAt, RowState, Open, Row, Statuses
      <4> QED
        BY <4>1, <4>2 DEF Deadline!Enqueued
    <3> QED
      BY <3>1, <3>2
  <2>3. r.status = "absent" => k = Deadline!EnqueuedOnce(j, due[p])
    <3>1. r.status = "absent" => j.state = "none"
      BY DEF SeenAt, RowState, Open
    <3>2. r.status = "absent" => k = Deadline!JobAt(due[p])
      BY <2>1, SeenAtFresh
    <3> QED
      BY <3>1, <3>2 DEF Deadline!EnqueuedOnce
  <2> HIDE DEF j, k
  <2>4. /\ EnqueueNext(e) /\ k = Deadline!Enqueued(j, due[p])
        /\ k = Deadline!EnqueuedOnce(j, due[p]) \/ Takes(e, s, p)
    BY <2>1, <2>2, <2>3
  <2> USE DEF j, k
  <2> QED
    BY <2>4 DEF AsDeadlineJob
<1>4. CASE ClaimMoves(s)
  <2>1. r.status = "pending" /\ r.deferred = None /\ ClaimsRow(s)
    BY <1>0, <1>4 DEF ClaimMoves, RowOK
  <2>2. k = [state |-> RowState("running"), at |-> When(due, r.payload),
             deferred |-> When(due, None)]
    BY <1>4, SeenAtBy DEF ClaimMoves
  <2>3. RowState("running") = "running" /\ RowState("pending") = "pending"
    BY DEF RowState, Open
  <2>4. k = [j EXCEPT !.state = "running"] /\ j.state = "pending"
    BY <1>1, <2>1, <2>2, <2>3
  <2> QED
    BY <2>1, <2>4 DEF AsDeadlineJob
<1>5. CASE FinishMoves(s)
  <2>1. /\ RowState("completed") = "done" /\ RowState("dead") = "dead"
        /\ RowState("quarantined") = "dead" /\ RowState("pending") = "pending"
    BY DEF RowState, Open
  <2>2. ASSUME NEW status \in {"pending", "dead"}, SettlesTo(s, status)
        PROVE  k = Deadline!Settled(j, "pending") \/ k = Deadline!Settled(j, "dead")
    BY <2>1, <2>2, SeenAtSettled
  <2>3. CASE Completes(s) /\ SettlesTo(s, "completed")
    <3>1. k = Deadline!Settled(j, "done")
      BY <2>1, <2>3, SeenAtSettled
    <3> QED
      BY <2>3, <3>1 DEF AsDeadlineJob
  <2>4. CASE \E permanent \in BOOLEAN :
               /\ Fails(s, permanent)
               /\ SettlesTo(s, IF permanent \/ Spent(s) THEN "dead" ELSE "pending")
    <3>1. \E permanent \in BOOLEAN : Fails(s, permanent)
      BY <2>4
    <3>2. \E status \in {"pending", "dead"} : SettlesTo(s, status)
      BY <2>4
    <3> QED
      BY <2>2, <3>1, <3>2 DEF AsDeadlineJob
  <2>5. CASE Quarantines(s) /\ SettlesTo(s, "quarantined")
    <3>1. k = Deadline!Settled(j, "dead")
      BY <2>1, <2>5, SeenAtSettled
    <3> QED
      BY <2>5, <3>1 DEF AsDeadlineJob
  <2>6. CASE ReclaimStale(s) /\ SettlesTo(s, IF Spent(s) THEN "dead" ELSE "pending")
    <3>1. \E status \in {"pending", "dead"} : SettlesTo(s, status)
      BY <2>6
    <3> QED
      BY <2>2, <2>6, <3>1 DEF AsDeadlineJob
  <2> QED
    BY <1>5, <2>3, <2>4, <2>5, <2>6 DEF FinishMoves
<1>6. CASE CleanupMoves(s)
  <2>1. PICK status \in {"absent", "dedupe_retained"} :
          Becomes(job'[s], status, None, 0, None)
    BY <1>6 DEF CleanupMoves
  <2>2. r.status \in {"completed", "cancelled", "dedupe_retained"} /\ CleanupExpired(s)
    BY <1>6 DEF CleanupMoves, Finished
  <2>3. j.state = "done"
    BY <2>2 DEF SeenAt, RowState, Open
  <2>4. k.state \in {"none", "done"} /\ k.deferred = 0
    BY <2>1 DEF SeenAt, Becomes, RowState, Open, When
  <2> QED
    BY <2>2, <2>3, <2>4 DEF AsDeadlineJob
<1>7. CASE OperatorMoves(s)
  <2>1. Operator(s) /\ r.status \in {"dead", "quarantined", "completed"}
    BY <1>7 DEF OperatorMoves
  <2>2. r.payload \in Payloads
    BY <1>0, <2>1 DEF RowOK, Row
  <2>3. k = Deadline!JobAt(due[r.payload])
    BY <1>7, <2>2, SeenAtFresh DEF OperatorMoves
  <2>4. j.state \in {"dead", "done"} /\ j.at = due[r.payload]
    BY <2>1, <2>2, QueueAssumption DEF SeenAt, RowState, Open, When
  <2> QED
    BY <2>1, <2>3, <2>4 DEF AsDeadlineJob
<1> QED
  BY <1>2, <1>3, <1>4, <1>5, <1>6, <1>7 DEF Moves

\* What orders and stays assume of the job that carries their deadline
\* (DeadlineJob): it moves to the latest deadline at once, or when the run under
\* way has ended, and a deadline that fails is kept for a retry.
THEOREM DeadlinesAreAsAssumed ==
  \A due \in [Payloads -> Nat \ {0}] :
    Spec => [][\A s \in Slots : Uncancelled(s) => AsDeadlineJob(due, s)]_vars
<1> SUFFICES ASSUME NEW due \in [Payloads -> Nat \ {0}]
             PROVE  Spec => [][\A s \in Slots : Uncancelled(s) => AsDeadlineJob(due, s)]_vars
  OBVIOUS
<1>1. IInv /\ [Next]_vars => [\A s \in Slots : Uncancelled(s) => AsDeadlineJob(due, s)]_vars
  BY EveryMove, MovesAsDeadlineJob DEF IInv
<1> QED
  BY <1>1, Invariant, PTL DEF Spec
=============================================================================

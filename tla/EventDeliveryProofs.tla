------------------------ MODULE EventDeliveryProofs ------------------------
(***************************************************************************)
(* The safety invariants of EventDelivery hold for any events, releases,   *)
(* subscribers, workers and bounds.  IInv is inductive: it says of a row   *)
(* and of a delivery what the four properties need of each other.          *)
(***************************************************************************)
EXTENDS EventDelivery, TLAPS

\* Only a row of before the column, and one not written yet, has no snapshot.
\* A relayed row has one.
SnapshotsKnown ==
  \A e \in Events :
    /\ outbox[e].subs = Unknown => outbox[e].status = "absent" \/ e \in Legacy
    /\ outbox[e].status = "relayed" => outbox[e].subs # Unknown

\* What a delivery that was ever enqueued may have come to: without an effect it
\* waits for a worker or for the operator.
DeliveriesWait ==
  \A d \in Deliveries :
    /\ current[d] = 0 => phase[d] = "none"
    /\ current[d] > 0 /\ d \notin handled => phase[d] \in {"open", "dead", "quarantined"}

\* The subscribers an event will be relayed to, read from its row or from the
\* history, are there as long as it can be relayed.
SubscribersStay ==
  \A e \in Events :
    /\ outbox[e].status \in {"pending", "dead"}
    /\ Resolved(e) # Unknown
    => Resolved(e) \subseteq Subscribed[release][e]

WorkKeepsSubscribers ==
  \A d \in Deliveries : phase[d] \in {"open", "dead"} => d[2] \in Subscribed[release][d[1]]

IInv == /\ TypeOK
        /\ SnapshotsKnown
        /\ FanOutIsAtomic
        /\ DeliveriesWait
        /\ OneOccurrencePerRedrive
        /\ SubscribersStay
        /\ WorkKeepsSubscribers

-----------------------------------------------------------------------------

\* The parts of IInv that read a row, of one event.
RowOK(e) ==
  /\ outbox[e].subs = Unknown => outbox[e].status = "absent" \/ e \in Legacy
  /\ outbox[e].status = "relayed" => outbox[e].subs # Unknown
  /\ \A s \in Subscribers :
       current[<<e, s>>] > 0 <=>
         outbox[e].status = "relayed" /\ outbox[e].subs # Unknown
           /\ s \in outbox[e].subs
  /\ outbox[e].status \in {"pending", "dead"} /\ Resolved(e) # Unknown
       => Resolved(e) \subseteq Subscribed[release][e]

\* The parts that read a delivery.
DeliveryOK(d) ==
  /\ current[d] = 0 => phase[d] = "none"
  /\ current[d] > 0 /\ d \notin handled => phase[d] \in {"open", "dead", "quarantined"}
  /\ current[d] <= 1 + audit[d[1]].reopen
  /\ phase[d] \in {"open", "dead"} => d[2] \in Subscribed[release][d[1]]

\* IInv is what its rows and its deliveries say.
LEMMA ByRowAndDelivery ==
  /\ IInv <=> TypeOK /\ (\A e \in Events : RowOK(e)) /\ (\A d \in Deliveries : DeliveryOK(d))
  /\ IInv' <=> TypeOK' /\ (\A e \in Events : RowOK(e)') /\ (\A d \in Deliveries : DeliveryOK(d)')
  BY DEF IInv, RowOK, DeliveryOK, SnapshotsKnown, FanOutIsAtomic, DeliveriesWait,
         OneOccurrencePerRedrive, SubscribersStay, WorkKeepsSubscribers

\* The first state is good: no row but a legacy one, whose subscribers are there.
LEMMA InitInv == Init => IInv
<1> SUFFICES ASSUME Init PROVE IInv
  OBVIOUS
<1> USE DeliveryAssumption
<1>1. TypeOK
  BY DEF Init, TypeOK, Row, Snapshot, Audit, Jobs!Phases, LegacyPending
<1>2. ASSUME NEW e \in Events PROVE RowOK(e)
  BY DEF Init, RowOK, Resolved, LegacyPending, Deliveries
<1>3. ASSUME NEW d \in Deliveries PROVE DeliveryOK(d)
  BY DEF Init, DeliveryOK, Deliveries
<1> QED
  BY <1>1, <1>2, <1>3, ByRowAndDelivery

\* What is known of the row that a relay resolves.
LEMMA ResolvedSnapshot ==
  ASSUME IInv, NEW e \in Events, outbox[e].status # "absent"
  PROVE  Resolved(e) \in Snapshot
  BY DeliveryAssumption DEF IInv, SnapshotsKnown, TypeOK, Row, Snapshot, Resolved

-----------------------------------------------------------------------------
(***************************************************************************)
(* Steps that move the outbox only                                         *)
(***************************************************************************)

\* A row that waits or is dead keeps its snapshot through a failure.
LEMMA FailedRow ==
  ASSUME NEW r \in Row
  PROVE  /\ Failed(r) \in Row
         /\ Failed(r).subs = r.subs
         /\ Failed(r).status \in {"pending", "dead"}
<1> DEFINE After(n, st) == [r EXCEPT !.attempts = n, !.due = FALSE, !.status = st]
<1>1. \A n \in Nat, st \in {"pending", "dead"} :
        /\ After(n, st) \in Row
        /\ After(n, st).subs = r.subs
        /\ After(n, st).status = st
  BY DEF Row
<1>2. r.attempts + 1 \in Nat
  BY DEF Row
<1>3. PICK st \in {"pending", "dead"} :
        st = IF r.attempts + 1 >= MaxAttempts THEN "dead" ELSE "pending"
  OBVIOUS
<1>4. Failed(r) = After(r.attempts + 1, st)
  BY <1>3, Zenon DEF Failed
<1> HIDE DEF After
<1> QED
  BY <1>1, <1>2, <1>4

\* A step that changes rows from absent or pending to pending or dead, with the
\* snapshot they had or the subscribers of the release, keeps the invariant.
LEMMA RowsWait ==
  ASSUME IInv, TypeOK',
         UNCHANGED <<release, audit, current, phase, handled>>,
         \A e \in Events :
           \/ outbox'[e] = outbox[e]
           \/ /\ outbox[e].status \in {"absent", "pending"}
              /\ outbox'[e].status \in {"pending", "dead"}
              /\ \/ outbox'[e].subs = outbox[e].subs /\ outbox[e].status = "pending"
                 \/ outbox'[e].subs = Subscribed[release][e]
  PROVE  IInv'
<1> USE DeliveryAssumption
<1>1. ASSUME NEW e \in Events PROVE RowOK(e)'
  <2>1. RowOK(e) /\ release \in Releases
    BY ByRowAndDelivery DEF TypeOK
  <2>2. Subscribed[release][e] # Unknown
    BY <2>1
  <2>3. CASE outbox'[e] = outbox[e]
    BY <2>1, <2>3 DEF RowOK, Resolved
  <2>4. CASE outbox'[e] # outbox[e]
    BY <2>1, <2>2, <2>4 DEF RowOK, Resolved
  <2> QED
    BY <2>3, <2>4
<1>2. ASSUME NEW d \in Deliveries PROVE DeliveryOK(d)'
  BY ByRowAndDelivery DEF DeliveryOK
<1> QED
  BY <1>1, <1>2, ByRowAndDelivery

\* Publishing, a failed relay and its record, a crash and the end of a backoff.
LEMMA WaitingSteps ==
  ASSUME IInv,
         \/ \E e \in Events : Emit(e) \/ BackoffElapses(e)
         \/ \E w \in Workers : RecordTransientFailure(w) \/ CrashWorker(w)
         \/ \E w \in Workers, e \in Events : RelayRollsBack(w, e)
  PROVE  IInv'
<1> USE DeliveryAssumption
<1>0. TypeOK
  BY DEF IInv
<1>1. ASSUME NEW e \in Events, Emit(e) PROVE IInv'
  <2>1. TypeOK'
    BY <1>0, <1>1 DEF Emit, TypeOK, Row, Snapshot
  <2> QED
    BY <1>0, <1>1, <2>1, RowsWait DEF Emit, TypeOK, Row
<1>2. ASSUME NEW e \in Events, BackoffElapses(e) PROVE IInv'
  <2>1. outbox[e] \in Row
    BY <1>0 DEF TypeOK
  <2>2. [outbox[e] EXCEPT !.due = TRUE] \in Row
    BY <2>1 DEF Row
  <2>3. TypeOK'
    BY <1>0, <1>2, <2>2 DEF BackoffElapses, TypeOK
  <2> QED
    BY <1>0, <1>2, <2>3, RowsWait DEF BackoffElapses, TypeOK, Row
<1>3. ASSUME NEW w \in Workers, RecordTransientFailure(w) PROVE IInv'
  <2>1. failing[w] \in Events
    BY <1>0, <1>3 DEF RecordTransientFailure, TypeOK
  <2>2. /\ Failed(outbox[failing[w]]) \in Row
        /\ Failed(outbox[failing[w]]).subs = outbox[failing[w]].subs
        /\ Failed(outbox[failing[w]]).status \in {"pending", "dead"}
    BY <1>0, <2>1, FailedRow DEF TypeOK
  <2>3. TypeOK'
    BY <1>0, <1>3, <2>1, <2>2 DEF RecordTransientFailure, TypeOK
  <2>4. \A e \in Events :
           \/ outbox'[e] = outbox[e]
           \/ /\ outbox[e].status = "pending"
              /\ outbox'[e].status \in {"pending", "dead"}
              /\ outbox'[e].subs = outbox[e].subs
    BY <1>0, <1>3, <2>1, <2>2 DEF RecordTransientFailure, TypeOK
  <2> QED
    BY <1>3, <2>3, <2>4, RowsWait DEF RecordTransientFailure
<1>4. ASSUME NEW w \in Workers, CrashWorker(w) PROVE IInv'
  <2>1. TypeOK'
    BY <1>0, <1>4 DEF CrashWorker, TypeOK
  <2> QED
    BY <1>4, <2>1, RowsWait DEF CrashWorker
<1>5. ASSUME NEW w \in Workers, NEW e \in Events, RelayRollsBack(w, e) PROVE IInv'
  <2>1. TypeOK'
    BY <1>0, <1>5 DEF RelayRollsBack, TypeOK
  <2> QED
    BY <1>5, <2>1, RowsWait DEF RelayRollsBack
<1> QED
  BY <1>1, <1>2, <1>3, <1>4, <1>5

-----------------------------------------------------------------------------
(***************************************************************************)
(* The relay                                                               *)
(***************************************************************************)

\* An event that waits has no delivery: all of its snapshot will be enqueued.
LEMMA NothingEnqueued ==
  ASSUME IInv, NEW e \in Events, outbox[e].status # "relayed"
  PROVE  \A s \in Subscribers : current[<<e, s>>] = 0 /\ phase[<<e, s>>] = "none"
<1> SUFFICES ASSUME NEW s \in Subscribers
             PROVE  current[<<e, s>>] = 0 /\ phase[<<e, s>>] = "none"
  OBVIOUS
<1>1. <<e, s>> \in Deliveries /\ current[<<e, s>>] \in Nat
  BY DEF IInv, TypeOK, Deliveries
<1>2. ~(current[<<e, s>>] > 0)
  BY DEF IInv, FanOutIsAtomic
<1> QED
  BY <1>1, <1>2 DEF IInv, DeliveriesWait

\* Started keeps the types of the jobs.
LEMMA StartedType ==
  ASSUME TypeOK, NEW D \in SUBSET Deliveries, Started(D)
  PROVE  /\ current' \in [Deliveries -> Nat]
         /\ phase' \in [Deliveries -> Jobs!Phases]
  BY DEF TypeOK, Started, Jobs!Phases

\* A relay keeps the invariant, whether it commits a fan-out or parks the event.
LEMMA RelaySteps ==
  ASSUME IInv, NEW w \in Workers, NEW e \in Events, Relay(w, e)
  PROVE  IInv'
<1> USE DeliveryAssumption
<1>0. TypeOK /\ outbox[e] \in Row /\ outbox[e].status = "pending"
  BY DEF IInv, TypeOK, Relay, CanRelay
<1>1. /\ Resolved(e) \in Snapshot
      /\ \A s \in Subscribers : current[<<e, s>>] = 0 /\ phase[<<e, s>>] = "none"
  BY <1>0, ResolvedSnapshot, NothingEnqueued
<1>2. failing' \in [Workers -> Events \cup {None}]
  BY <1>0 DEF Relay, TypeOK
<1>3. audit' \in [Events -> Audit] /\ \A f \in Events : audit'[f].reopen = audit[f].reopen
  <2>1. audit' = audit \/ audit' = [audit EXCEPT ![e].snapshot = @ + 1]
    BY DEF Relay, QuarantineEvent, FanOut, Reconstructed
  <2>2. audit \in [Events -> Audit]
    BY <1>0 DEF TypeOK
  <2>3. ASSUME NEW f \in Events
        PROVE  audit[f].snapshot \in Nat /\ audit[f].reopen \in Nat
    BY <2>2 DEF Audit
  <2>4. ASSUME audit' = [audit EXCEPT ![e].snapshot = @ + 1]
        PROVE  /\ audit' \in [Events -> Audit]
               /\ \A f \in Events : audit'[f].reopen = audit[f].reopen
    <3>1. [audit[e] EXCEPT !.snapshot = @ + 1] \in Audit
      BY <2>2, <2>3 DEF Audit
    <3>2. [audit[e] EXCEPT !.snapshot = @ + 1].reopen = audit[e].reopen
      BY <2>2 DEF Audit
    <3>3. audit' = [audit EXCEPT ![e] = [audit[e] EXCEPT !.snapshot = @ + 1]]
      BY <2>4
    <3> QED
      BY <2>2, <3>1, <3>2, <3>3
  <2> QED
    BY <2>1, <2>2, <2>4
<1>4. \A st \in {"relayed", "quarantined"} :
        /\ RowAfter(e, st) \in Row
        /\ RowAfter(e, st).status = st
        /\ RowAfter(e, st).subs = Resolved(e)
  BY <1>0, <1>1 DEF RowAfter, Row
<1>5. CASE QuarantineEvent(e)
  <2>1. /\ outbox' = [outbox EXCEPT ![e] = RowAfter(e, "quarantined")]
        /\ evidence' = evidence \cup {e}
        /\ UNCHANGED <<current, phase, release, commands, deploys, handled>>
    BY <1>5 DEF QuarantineEvent, Relay
  <2>2. TypeOK'
    BY <1>0, <1>2, <1>3, <1>4, <2>1 DEF TypeOK
  <2>3. ASSUME NEW f \in Events PROVE RowOK(f)'
    <3>1. CASE f # e
      BY <1>0, <2>1, <3>1, ByRowAndDelivery DEF RowOK, Resolved, TypeOK
    <3>2. CASE f = e
      <4>1. outbox'[e].status = "quarantined" /\ outbox'[e].subs = Resolved(e)
        BY <1>0, <1>4, <2>1 DEF TypeOK
      <4>2. RowOK(e)
        BY ByRowAndDelivery
      <4>3. Resolved(e) = Unknown => e \in Legacy
        BY <1>0, <4>2 DEF RowOK, Resolved
      <4> QED
        BY <1>1, <2>1, <3>2, <4>1, <4>3 DEF RowOK
    <3> QED
      BY <3>1, <3>2
  <2>4. ASSUME NEW d \in Deliveries PROVE DeliveryOK(d)'
    BY <1>3, <2>1, ByRowAndDelivery DEF DeliveryOK, Deliveries
  <2> QED
    BY <2>2, <2>3, <2>4, ByRowAndDelivery
<1>6. CASE FanOut(e)
  <2> DEFINE D == {e} \X Resolved(e)
  <2>1. /\ Resolved(e) # Unknown
        /\ outbox' = [outbox EXCEPT ![e] = RowAfter(e, "relayed")]
        /\ UNCHANGED <<evidence, release, commands, deploys, handled>>
    BY <1>6 DEF FanOut, Relay
  <2>2. Resolved(e) \in SUBSET Subscribers
    BY <1>1, <2>1 DEF Snapshot
  <2>3. Enqueued(e, Resolved(e)) = D
    BY <1>1, <2>2 DEF Enqueued
  <2>4. Started(D)
    BY <1>6, <2>3 DEF FanOut
  <2>5. TypeOK'
    BY <1>0, <1>2, <1>3, <1>4, <2>1, <2>2, <2>4, StartedType DEF TypeOK, Deliveries
  <2>6. ASSUME NEW f \in Events PROVE RowOK(f)'
    <3>1. CASE f # e
      <4>1. \A s \in Subscribers : current'[<<f, s>>] = current[<<f, s>>]
        BY <2>4, <3>1 DEF Started, Deliveries
      <4>2. RowOK(f) /\ outbox'[f] = outbox[f]
        BY <1>0, <2>1, <3>1, ByRowAndDelivery DEF TypeOK
      <4> QED
        BY <2>1, <4>1, <4>2 DEF RowOK, Resolved
    <3>2. CASE f = e
      <4>1. outbox'[e].status = "relayed" /\ outbox'[e].subs = Resolved(e)
        BY <1>0, <1>4, <2>1 DEF TypeOK
      <4>2. \A s \in Subscribers : current'[<<e, s>>] = IF s \in Resolved(e) THEN 1 ELSE 0
        BY <1>1, <2>4 DEF Started, Deliveries
      <4> QED
        BY <2>1, <2>2, <3>2, <4>1, <4>2 DEF RowOK
    <3> QED
      BY <3>1, <3>2
  <2>7. ASSUME NEW d \in Deliveries PROVE DeliveryOK(d)'
    <3>1. DeliveryOK(d) /\ d = <<d[1], d[2]>> /\ d[1] \in Events /\ d[2] \in Subscribers
      BY ByRowAndDelivery DEF Deliveries
    <3>2. audit'[d[1]].reopen = audit[d[1]].reopen /\ audit[d[1]].reopen \in Nat
      BY <1>0, <1>3, <3>1 DEF TypeOK, Audit
    <3>3. CASE d \notin D
      BY <2>1, <2>4, <3>1, <3>2, <3>3 DEF Started, DeliveryOK
    <3>4. CASE d \in D
      <4>1. current'[d] = 1 /\ phase'[d] = "open" /\ d[1] = e /\ d[2] \in Resolved(e)
        BY <1>1, <2>4, <3>1, <3>4 DEF Started
      <4>2. Resolved(e) \subseteq Subscribed[release][e]
        BY <1>0, <2>1, ByRowAndDelivery DEF RowOK
      <4> QED
        BY <2>1, <3>2, <4>1, <4>2 DEF DeliveryOK
    <3> QED
      BY <3>3, <3>4
  <2> QED
    BY <2>5, <2>6, <2>7, ByRowAndDelivery
<1> QED
  BY <1>5, <1>6 DEF Relay

-----------------------------------------------------------------------------
(***************************************************************************)
(* The delivery job and the operator's retry                               *)
(***************************************************************************)

\* A step that moves one delivery whose occurrence exists keeps the invariant,
\* when what it leaves without an effect still waits for somebody.
LEMMA DeliveryMoves ==
  ASSUME IInv, TypeOK', NEW d \in Deliveries, phase[d] # "none",
         UNCHANGED <<release, outbox, audit, current>>,
         handled \subseteq handled',
         \A c \in Deliveries \ {d} : phase'[c] = phase[c],
         phase'[d] \in {"open", "dead"} => phase[d] \in {"open", "dead"},
         phase'[d] \in {"open", "dead", "quarantined"} \/ d \in handled'
  PROVE  IInv'
<1>1. ASSUME NEW e \in Events PROVE RowOK(e)'
  BY ByRowAndDelivery DEF RowOK, Resolved
<1>2. ASSUME NEW c \in Deliveries PROVE DeliveryOK(c)'
  <2>1. DeliveryOK(c) /\ DeliveryOK(d)
    BY ByRowAndDelivery
  <2>2. CASE c # d
    BY <2>1, <2>2 DEF DeliveryOK
  <2>3. CASE c = d
    BY <2>1, <2>3 DEF DeliveryOK
  <2> QED
    BY <2>2, <2>3
<1> QED
  BY <1>1, <1>2, ByRowAndDelivery

\* The decisions of a delivery, an effect without one, the retention of a
\* completed job and the operator's retry of a dead one.
LEMMA DeliverySteps ==
  ASSUME IInv, NEW d \in Deliveries,
         \/ RefuseDelivery(d) \/ CompleteDelivery(d) \/ EffectWithoutOutcome(d)
         \/ ExhaustDelivery(d) \/ ForgetDelivery(d) \/ RetryJob(d)
  PROVE  IInv'
<1>0. TypeOK
  BY DEF IInv
<1>1. CASE RefuseDelivery(d)
  <2>1. TypeOK'
    BY <1>0, <1>1 DEF RefuseDelivery, Decided, TypeOK, Jobs!Phases
  <2> QED
    BY <1>0, <1>1, <2>1, DeliveryMoves DEF RefuseDelivery, Decided, TypeOK
<1>2. CASE CompleteDelivery(d)
  <2>1. TypeOK'
    BY <1>0, <1>2 DEF CompleteDelivery, Decided, TypeOK, Jobs!Phases
  <2> QED
    BY <1>0, <1>2, <2>1, DeliveryMoves DEF CompleteDelivery, Decided, TypeOK
<1>3. CASE EffectWithoutOutcome(d)
  <2>1. TypeOK'
    BY <1>0, <1>3 DEF EffectWithoutOutcome, TypeOK
  <2> QED
    BY <1>0, <1>3, <2>1, DeliveryMoves DEF EffectWithoutOutcome
<1>4. CASE ExhaustDelivery(d)
  <2>1. TypeOK'
    BY <1>0, <1>4 DEF ExhaustDelivery, Decided, TypeOK, Jobs!Phases
  <2> QED
    BY <1>0, <1>4, <2>1, DeliveryMoves DEF ExhaustDelivery, Decided, TypeOK
<1>5. CASE ForgetDelivery(d)
  <2>1. TypeOK'
    BY <1>0, <1>5 DEF ForgetDelivery, Jobs!Forget, TypeOK, Jobs!Phases
  <2>2. d \in handled
    <3>1. current[d] \in Nat /\ phase[d] = "completed" /\ DeliveryOK(d)
      BY <1>0, <1>5, ByRowAndDelivery DEF ForgetDelivery, TypeOK
    <3> QED
      BY <3>1 DEF DeliveryOK
  <2> QED
    BY <1>0, <1>5, <2>1, <2>2, DeliveryMoves DEF ForgetDelivery, Jobs!Forget, TypeOK
<1>6. CASE RetryJob(d)
  <2>1. TypeOK'
    BY <1>0, <1>6, DeliveryAssumption DEF RetryJob, Jobs!Reopen, TypeOK, Jobs!Phases
  <2> QED
    BY <1>0, <1>6, <2>1, DeliveryMoves DEF RetryJob, Jobs!Reopen, TypeOK
<1> QED
  BY <1>1, <1>2, <1>3, <1>4, <1>5, <1>6

-----------------------------------------------------------------------------
(***************************************************************************)
(* The redrive and the release transition                                  *)
(***************************************************************************)

\* The row a redrive leaves has the caller's snapshot, waits unless it was
\* relayed, and keeps its type.
LEMMA RedrivenRow ==
  ASSUME NEW r \in Row, NEW caller \in SUBSET Subscribers,
         r.status \in {"quarantined", "dead", "relayed"}
  PROVE  /\ RowRedriven(r, caller) \in Row
         /\ RowRedriven(r, caller).subs = caller
         /\ RowRedriven(r, caller).status =
              IF r.status = "relayed" THEN "relayed" ELSE "pending"
<1>1. CASE r.status = "dead"
  BY <1>1 DEF RowRedriven, Row, Snapshot
<1>2. CASE r.status = "quarantined"
  BY <1>2 DEF RowRedriven, Row, Snapshot
<1>3. CASE r.status = "relayed"
  <2>1. RowRedriven(r, caller) = [r EXCEPT !.subs = caller]
    BY <1>3 DEF RowRedriven
  <2> QED
    BY <1>3, <2>1 DEF Row, Snapshot
<1> QED
  BY <1>1, <1>2, <1>3

\* Every occurrence a redrive starts has its audit row.
LEMMA RedrivenAudit ==
  ASSUME audit \in [Events -> Audit], NEW e \in Events
  PROVE  /\ Redriven(e) \in [Events -> Audit]
         /\ \A f \in Events : Redriven(e)[f].reopen =
              IF f = e THEN audit[f].reopen + 1 ELSE audit[f].reopen
  BY DEF Redriven, Audit

\* A redrive keeps the invariant: it accepts only subscribers that are there,
\* and starts parked deliveries only.
LEMMA RedriveSteps ==
  ASSUME IInv, NEW e \in Events, NEW caller \in SUBSET Subscribers,
         NEW ack \in BOOLEAN, RedriveFailure(e, caller, ack)
  PROVE  IInv'
<1> USE DeliveryAssumption
<1> DEFINE D == ParkedDeliveries(e, caller)
<1>0. TypeOK /\ outbox[e] \in Row /\ RowOK(e)
  BY ByRowAndDelivery DEF IInv, TypeOK
<1>1. /\ outbox[e].status \in {"quarantined", "dead", "relayed"}
      /\ outbox[e].subs \in {Unknown, caller}
      /\ caller \subseteq Subscribed[release][e]
      /\ outbox' = [outbox EXCEPT ![e] = RowRedriven(outbox[e], caller)]
      /\ audit' = Redriven(e)
      /\ Started(D)
      /\ UNCHANGED <<release, evidence, failing, deploys, handled>>
  BY DEF RedriveFailure, FrozenSnapshot
<1>2. D \in SUBSET Deliveries /\ \A d \in D : d[1] = e /\ d[2] \in caller /\ phase[d] = "quarantined"
  BY DEF ParkedDeliveries, Deliveries
<1>3. /\ outbox' \in [Events -> Row]
      /\ \A f \in Events \ {e} : outbox'[f] = outbox[f]
      /\ outbox'[e].subs = caller
      /\ outbox'[e].status = IF outbox[e].status = "relayed" THEN "relayed" ELSE "pending"
  <2>1. /\ RowRedriven(outbox[e], caller) \in Row
        /\ RowRedriven(outbox[e], caller).subs = caller
        /\ RowRedriven(outbox[e], caller).status =
             IF outbox[e].status = "relayed" THEN "relayed" ELSE "pending"
    BY <1>0, <1>1, RedrivenRow
  <2> QED
    BY <1>0, <1>1, <2>1 DEF TypeOK
<1>4. /\ audit' \in [Events -> Audit]
      /\ \A f \in Events : audit'[f].reopen =
           IF f = e THEN audit[f].reopen + 1 ELSE audit[f].reopen
  BY <1>0, <1>1, RedrivenAudit DEF TypeOK
<1>5. \A d \in D : current[d] > 0
  BY <1>0, <1>2, ByRowAndDelivery DEF DeliveryOK, TypeOK
<1>6. TypeOK'
  <2>1. commands' \in 0..MaxCommands
    BY <1>0 DEF RedriveFailure, TypeOK
  <2> QED
    BY <1>0, <1>1, <1>2, <1>3, <1>4, <2>1, StartedType DEF TypeOK
<1>7. ASSUME NEW f \in Events PROVE RowOK(f)'
  <2>1. \A s \in Subscribers : current'[<<f, s>>] > 0 <=> current[<<f, s>>] > 0
    BY <1>0, <1>1, <1>2, <1>5 DEF Started, Deliveries, TypeOK
  <2>2. CASE f # e
    BY <1>1, <1>3, <2>1, <2>2, ByRowAndDelivery DEF RowOK, Resolved
  <2>3. CASE f = e
    BY <1>0, <1>1, <1>3, <2>1, <2>3 DEF RowOK, Resolved
  <2> QED
    BY <2>2, <2>3
<1>8. ASSUME NEW d \in Deliveries PROVE DeliveryOK(d)'
  <2>1. /\ DeliveryOK(d) /\ d[1] \in Events
        /\ current[d] \in Nat /\ audit[d[1]].reopen \in Nat
    BY <1>0, ByRowAndDelivery DEF Deliveries, TypeOK, Audit
  <2>2. CASE d \notin D
    BY <1>1, <1>4, <2>1, <2>2 DEF Started, DeliveryOK
  <2>3. CASE d \in D
    BY <1>1, <1>2, <1>4, <2>1, <2>3 DEF Started, DeliveryOK
  <2> QED
    BY <2>2, <2>3
<1> QED
  BY <1>6, <1>7, <1>8, ByRowAndDelivery

\* A release transition keeps the invariant: checkWork looks at all the work
\* that can still run.
LEMMA DeploySteps ==
  ASSUME IInv, NEW r \in Releases, Deploy(r)
  PROVE  IInv'
<1> USE DeliveryAssumption
<1>0. TypeOK
  BY DEF IInv
<1>1. TypeOK'
  BY <1>0 DEF Deploy, TypeOK
<1>2. ASSUME NEW e \in Events PROVE RowOK(e)'
  BY ByRowAndDelivery DEF RowOK, Resolved, Deploy, CheckWork
<1>3. ASSUME NEW d \in Deliveries PROVE DeliveryOK(d)'
  BY ByRowAndDelivery DEF DeliveryOK, Deploy, CheckWork
<1> QED
  BY <1>1, <1>2, <1>3, ByRowAndDelivery

-----------------------------------------------------------------------------
(***************************************************************************)
(* The theorems                                                            *)
(***************************************************************************)

\* Every step keeps the invariant.
LEMMA NextInv == IInv /\ [Next]_vars => IInv'
<1> SUFFICES ASSUME IInv, [Next]_vars PROVE IInv'
  OBVIOUS
<1>1. ASSUME NEW e \in Events, Emit(e) \/ BackoffElapses(e) PROVE IInv'
  BY <1>1, WaitingSteps
<1>2. CASE RelayNext
  BY <1>2, WaitingSteps, RelaySteps DEF RelayNext
<1>3. CASE DeliveryNext
  BY <1>3, DeliverySteps DEF DeliveryNext
<1>4. CASE OperatorNext
  BY <1>4, DeliverySteps, RedriveSteps DEF OperatorNext
<1>5. ASSUME NEW r \in Releases, Deploy(r) PROVE IInv'
  BY <1>5, DeploySteps
<1>6. CASE UNCHANGED vars
  <2>1. TypeOK'
    BY <1>6 DEF IInv, TypeOK, vars
  <2> QED
    BY <1>6, <2>1, RowsWait DEF vars
<1> QED
  BY <1>1, <1>2, <1>3, <1>4, <1>5, <1>6 DEF Next

\* The inductive invariant holds in every reachable state.
THEOREM DeliveryInvariant == Spec => []IInv
  BY InitInv, NextInv, PTL DEF Spec

\* Every variable keeps its type.
THEOREM DeliveryTypeCorrect == Spec => []TypeOK
<1>1. IInv => TypeOK
  BY DEF IInv
<1> QED
  BY <1>1, DeliveryInvariant, PTL

\* A delivery was ever enqueued exactly when its event is relayed and its
\* subscriber is in the frozen snapshot: the relay's transaction is atomic
\* against failures, time-outs, overtaking workers and redrives.
THEOREM AtomicFanOut == Spec => []FanOutIsAtomic
<1>1. IInv => FanOutIsAtomic
  BY DEF IInv
<1> QED
  BY <1>1, DeliveryInvariant, PTL

\* A second occurrence of a delivery has the audit row of a redrive.
THEOREM OccurrencesAreAudited == Spec => []OneOccurrencePerRedrive
<1>1. IInv => OneOccurrencePerRedrive
  BY DEF IInv
<1> QED
  BY <1>1, DeliveryInvariant, PTL

\* No release transition takes the subscriber from work that can still run.
THEOREM TransitionsKeepSubscribers == Spec => []UpgradeKeepsSubscribers
<1>1. IInv => UpgradeKeepsSubscribers
  BY DEF IInv, UpgradeKeepsSubscribers, SubscribersStay, WorkKeepsSubscribers, Resolved
<1> QED
  BY <1>1, DeliveryInvariant, PTL

\* An event is never lost to a subscriber of its snapshot: without the effect it
\* waits, is open or dead, or is on the operator's list.
THEOREM EventsAreKept == Spec => []NothingIsLost
<1>1. IInv => NothingIsLost
  <2> SUFFICES ASSUME IInv, NEW e \in Events,
                      outbox[e].status \notin {"absent", "pending"}, e \notin ListedFailures,
                      NEW s \in Subscribers, s \in outbox[e].subs, <<e, s>> \notin handled
               PROVE  phase[<<e, s>>] \in {"open", "dead"}
    BY DEF NothingIsLost
  <2>1. outbox[e].status = "relayed" /\ phase[<<e, s>>] # "quarantined"
    BY DEF IInv, TypeOK, Row, ListedFailures
  <2>2. current[<<e, s>>] > 0
    BY <2>1 DEF IInv, FanOutIsAtomic, SnapshotsKnown
  <2> QED
    BY <2>1, <2>2 DEF IInv, DeliveriesWait, Deliveries
<1> QED
  BY <1>1, DeliveryInvariant, PTL
=============================================================================

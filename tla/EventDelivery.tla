--------------------------- MODULE EventDelivery ---------------------------
(***************************************************************************)
(* From a published domain event to its subscribers: the transactional     *)
(* outbox (platform/outbox/src/outbox.ts), the relay of the workers        *)
(* (kernel/src/worker.ts), the delivery job (kernel/src/event-delivery.ts),*)
(* the operator's redrive (kernel/src/outbox-recovery.ts) and the check    *)
(* that a release transition makes of pending work                         *)
(* (db/src/release-history.ts).                                            *)
(*                                                                         *)
(* A delivery <<e, s>> is a job with dedupe key evt:<e>:<s>.  The queue    *)
(* that runs it is the abstract one of JobLifecycle, which JobQueue is     *)
(* checked to implement: leases, retries and fencing are behind an open    *)
(* occurrence that some worker runs until it is decided.                   *)
(*                                                                         *)
(* An event stands for its name, version and payload; a release says which *)
(* it emits, which it understands and who subscribes to them.              *)
(***************************************************************************)
EXTENDS Naturals, FiniteSets

CONSTANTS
  Events,       \* rows that platform_outbox may hold
  Subscribers,  \* owner ids that may subscribe
  Releases,     \* releases that may be installed
  First,        \* the release that is installed at first
  Emitted,      \* [Releases -> SUBSET Events], emittedEventNames
  Understood,   \* version and payload pass the release's event descriptor
  Subscribed,   \* [Releases -> [Events -> SUBSET Subscribers]]
  Legacy,       \* events of before the subscriber_ids column: NULL there
  History,      \* what the release history says of a legacy event, or Unknown
  Unknown,      \* SQL NULL in subscriber_ids
  None,
  Workers,
  MaxAttempts,  \* relay attempts before an event is dead (10 in the code)
  MaxCommands,  \* bound: accepted operator commands in a behaviour
  MaxDeploys    \* bound: release transitions in a behaviour

ASSUME DeliveryAssumption ==
  /\ Emitted \in [Releases -> SUBSET Events]
  /\ Understood \in [Releases -> SUBSET Events]
  /\ Subscribed \in [Releases -> [Events -> SUBSET Subscribers]]
  /\ \A r \in Releases : Understood[r] \subseteq Emitted[r]
  /\ \A r \in Releases : \A e \in Events \ Emitted[r] : Subscribed[r][e] = {}
  /\ First \in Releases
  /\ Legacy \subseteq Events
  /\ History \in [Legacy -> {Unknown} \cup SUBSET Subscribers]
  /\ \A S \in SUBSET Subscribers : S # Unknown
  /\ None \notin Events
  /\ MaxAttempts \in Nat \ {0}
  /\ MaxCommands \in Nat
  /\ MaxDeploys \in Nat

Deliveries == Events \X Subscribers

VARIABLES
  release,    \* the effective release
  outbox,     \* [Events -> Row], platform_outbox
  evidence,   \* events with a row in platform_outbox_quarantine
  audit,      \* [Events -> Audit], rows of platform_outbox_quarantine_audit
  current,    \* the latest occurrence of each delivery job
  phase,      \* what became of it
  failing,    \* [Workers -> Events \cup {None}], whose relay error a worker has
              \* still to record: it rolled back, or timed out and may be through
  commands,   \* operator commands accepted so far
  deploys,    \* release transitions so far
  handled     \* history: deliveries whose handler took effect

vars == <<release, outbox, evidence, audit, current, phase, failing, commands,
          deploys, handled>>

Jobs == INSTANCE JobLifecycle WITH Slots <- Deliveries

-----------------------------------------------------------------------------
Snapshot == {Unknown} \cup SUBSET Subscribers
Row == [status : {"absent", "pending", "relayed", "dead", "quarantined"},
        subs : Snapshot, attempts : Nat, due : BOOLEAN]
Audit == [snapshot : Nat, reopen : Nat]

\* A legacy event that still waits when the column is added: the transitions
\* since it was published have kept the subscribers it had.
LegacyPending(e) ==
  /\ e \in Legacy \cap Emitted[release]
  /\ History[e] # Unknown => History[e] \subseteq Subscribed[release][e]

Init ==
  /\ release = First
  /\ outbox = [e \in Events |->
       [status |-> IF LegacyPending(e) THEN "pending" ELSE "absent",
        subs |-> Unknown, attempts |-> 0, due |-> TRUE]]
  /\ evidence = {}
  /\ audit = [e \in Events |-> [snapshot |-> 0, reopen |-> 0]]
  /\ current = [d \in Deliveries |-> 0]
  /\ phase = [d \in Deliveries |-> "none"]
  /\ failing = [w \in Workers |-> None]
  /\ commands = 0
  /\ deploys = 0
  /\ handled = {}

-----------------------------------------------------------------------------
(***************************************************************************)
(* The command transaction that publishes an event                         *)
(***************************************************************************)

\* publish and append: the payload passes the descriptor, and the row is
\* written with the sorted set of the subscribers of this release.
Emit(e) ==
  /\ outbox[e].status = "absent"
  /\ e \in Understood[release] \ Legacy
  /\ outbox' = [outbox EXCEPT ![e] =
       [status |-> "pending", subs |-> Subscribed[release][e],
        attempts |-> 0, due |-> TRUE]]
  /\ UNCHANGED <<release, evidence, audit, current, phase, failing, commands,
                 deploys, handled>>

-----------------------------------------------------------------------------
(***************************************************************************)
(* The relay                                                               *)
(***************************************************************************)

\* claimOne: a pending row whose available_at has come, not locked by another
\* relay.
CanRelay(w, e) ==
  /\ failing[w] = None
  /\ outbox[e].status = "pending"
  /\ outbox[e].due

\* resolveSubscriberSnapshot: the frozen snapshot, or for a legacy row what a
\* unique effective release at the time of the event says.
Resolved(e) == IF outbox[e].subs = Unknown THEN History[e] ELSE outbox[e].subs

\* The audit row that reconstructing a snapshot writes.
Reconstructed(e) ==
  IF outbox[e].subs = Unknown /\ Resolved(e) # Unknown
  THEN [audit EXCEPT ![e].snapshot = @ + 1] ELSE audit

\* The row when the relay is done with it.
RowAfter(e, st) == [outbox[e] EXCEPT !.status = st, !.subs = Resolved(e)]

QuarantineEvent(e) ==
  /\ Resolved(e) = Unknown \/ e \notin Understood[release]
  /\ outbox' = [outbox EXCEPT ![e] = RowAfter(e, "quarantined")]
  /\ audit' = Reconstructed(e)
  /\ evidence' = evidence \cup {e}
  /\ UNCHANGED <<current, phase>>

\* enqueue of a delivery starts an occurrence unless its key has a row.
Enqueued(e, S) == {d \in {e} \X S : phase[d] = "none"}

Started(D) == /\ current' = [d \in Deliveries |->
                   IF d \in D THEN current[d] + 1 ELSE current[d]]
              /\ phase' = [d \in Deliveries |->
                   IF d \in D THEN "open" ELSE phase[d]]

\* Mutant of FanOut: the enqueues are not in the relay's transaction, and one
\* of them may be missing when the row is marked.
FanOutLoses(e) ==
  /\ Resolved(e) # Unknown /\ e \in Understood[release]
  /\ \E S \in SUBSET Resolved(e) : Started(Enqueued(e, S))
  /\ outbox' = [outbox EXCEPT ![e] = RowAfter(e, "relayed")]
  /\ audit' = Reconstructed(e)
  /\ UNCHANGED evidence

\* One job per subscriber of the snapshot, and the row marked, atomically.
FanOut(e) ==
  /\ Resolved(e) # Unknown /\ e \in Understood[release]
  /\ Started(Enqueued(e, Resolved(e)))
  /\ outbox' = [outbox EXCEPT ![e] = RowAfter(e, "relayed")]
  /\ audit' = Reconstructed(e)
  /\ UNCHANGED evidence

\* The relay transaction commits; the worker may time out on its COMMIT and
\* take it for a failure.
Relay(w, e) ==
  /\ CanRelay(w, e)
  /\ QuarantineEvent(e) \/ FanOut(e)
  /\ \/ UNCHANGED failing
     \/ failing' = [failing EXCEPT ![w] = e]
  /\ UNCHANGED <<release, commands, deploys, handled>>

\* It rolls back: an enqueue failed, or the whole operation timed out.
RelayRollsBack(w, e) ==
  /\ CanRelay(w, e)
  /\ failing' = [failing EXCEPT ![w] = e]
  /\ UNCHANGED <<release, outbox, evidence, audit, current, phase, commands,
                 deploys, handled>>

\* Mutant of Failed: no limit on the attempts.
FailedForEver(r) == [r EXCEPT !.due = FALSE]

\* The row after a recorded failure.
Failed(r) ==
  [r EXCEPT !.attempts = @ + 1, !.due = FALSE,
            !.status = IF r.attempts + 1 >= MaxAttempts THEN "dead" ELSE "pending"]

\* Mutant of RecordTransientFailure: no guard on the status, so a failure that
\* another worker overtook takes a relayed row back.
MarkFailed(w) ==
  /\ failing[w] # None
  /\ LET e == failing[w] IN
       outbox' = [outbox EXCEPT ![e] = Failed(@)]
  /\ failing' = [failing EXCEPT ![w] = None]
  /\ UNCHANGED <<release, evidence, audit, current, phase, commands, deploys,
                 handled>>

\* recordTransientFailure, outside the rolled-back transaction.  It waits for
\* the row lock of a transaction whose outcome is still open.
RecordTransientFailure(w) ==
  /\ failing[w] # None
  /\ LET e == failing[w] IN
       outbox' = IF outbox[e].status = "pending"
                 THEN [outbox EXCEPT ![e] = Failed(@)] ELSE outbox
  /\ failing' = [failing EXCEPT ![w] = None]
  /\ UNCHANGED <<release, evidence, audit, current, phase, commands, deploys,
                 handled>>

\* The process ends before it recorded the failure, or the record fails.
CrashWorker(w) ==
  /\ failing[w] # None
  /\ failing' = [failing EXCEPT ![w] = None]
  /\ UNCHANGED <<release, outbox, evidence, audit, current, phase, commands,
                 deploys, handled>>

\* available_at comes.
BackoffElapses(e) ==
  /\ outbox[e].status = "pending" /\ ~outbox[e].due
  /\ outbox' = [outbox EXCEPT ![e].due = TRUE]
  /\ UNCHANGED <<release, evidence, audit, current, phase, failing, commands,
                 deploys, handled>>

-----------------------------------------------------------------------------
(***************************************************************************)
(* The delivery job                                                        *)
(***************************************************************************)

\* The event is known here, at its version, and the subscriber subscribes.
Dispatchable(d) ==
  d[1] \in Understood[release] /\ d[2] \in Subscribed[release][d[1]]

Decided(d, outcome) == /\ phase[d] = "open"
                       /\ phase' = [phase EXCEPT ![d] = outcome]
                       /\ UNCHANGED current

\* A dispatch precondition fails: the occurrence is quarantined.
RefuseDelivery(d) ==
  /\ ~Dispatchable(d)
  /\ Decided(d, "quarantined")
  /\ UNCHANGED <<release, outbox, evidence, audit, failing, commands, deploys,
                 handled>>

\* Mutant of CompleteDelivery: a missing subscriber is logged and the delivery
\* completes.
CompleteUndelivered(d) ==
  /\ Decided(d, "completed")
  /\ handled' = IF Dispatchable(d) THEN handled \cup {d} ELSE handled
  /\ UNCHANGED <<release, outbox, evidence, audit, failing, commands, deploys>>

\* The subscriber's handler returns and the job completes.
CompleteDelivery(d) ==
  /\ Dispatchable(d)
  /\ Decided(d, "completed")
  /\ handled' = handled \cup {d}
  /\ UNCHANGED <<release, outbox, evidence, audit, failing, commands, deploys>>

\* The handler took effect and the worker died before it said so, or its
\* lease was lost: the occurrence stays open and runs again.
EffectWithoutOutcome(d) ==
  /\ Dispatchable(d)
  /\ phase[d] = "open"
  /\ handled' = handled \cup {d}
  /\ UNCHANGED <<release, outbox, evidence, audit, current, phase, failing,
                 commands, deploys>>

\* The handler failed for the last time.
ExhaustDelivery(d) ==
  /\ Dispatchable(d)
  /\ Decided(d, "dead")
  /\ UNCHANGED <<release, outbox, evidence, audit, failing, commands, deploys,
                 handled>>

\* The retention of a completed job ends; its row and its key go.
ForgetDelivery(d) ==
  /\ phase[d] = "completed"
  /\ Jobs!Forget(d)
  /\ UNCHANGED <<release, outbox, evidence, audit, failing, commands, deploys,
                 handled>>

-----------------------------------------------------------------------------
(***************************************************************************)
(* The operator                                                            *)
(***************************************************************************)

\* retryJob on a dead delivery.
RetryJob(d) ==
  /\ commands < MaxCommands
  /\ Jobs!Reopen(d)
  /\ commands' = commands + 1
  /\ UNCHANGED <<release, outbox, evidence, audit, failing, deploys, handled>>

\* The caller reproduces the frozen snapshot exactly, or supplies an unknown
\* one, and every subscriber in it is registered now.
FrozenSnapshot(e, caller) ==
  /\ outbox[e].subs \in {Unknown, caller}
  /\ caller \subseteq Subscribed[release][e]

ParkedDeliveries(e, S) == {d \in {e} \X S : phase[d] = "quarantined"}

\* The audit rows of a redrive: the repair of an unknown snapshot, and the
\* redrive itself.
Redriven(e) ==
  [audit EXCEPT ![e] =
     [snapshot |-> IF outbox[e].subs = Unknown THEN @.snapshot + 1 ELSE @.snapshot,
      reopen |-> @.reopen + 1]]

\* The row a redrive leaves: a dead event starts a fresh sequence of attempts,
\* a quarantined one goes on with its own, a relayed one stays relayed.
RowRedriven(r, caller) ==
  CASE r.status = "dead" ->
         [status |-> "pending", subs |-> caller, attempts |-> 0, due |-> TRUE]
    [] r.status = "quarantined" ->
         [status |-> "pending", subs |-> caller, attempts |-> r.attempts,
          due |-> TRUE]
    [] OTHER -> [r EXCEPT !.subs = caller]

\* repairAndRedriveOutbox, whole: it validates before it writes anything.
RedriveFailure(e, caller, acknowledgeEmptyFanout) ==
  /\ commands < MaxCommands
  /\ outbox[e].status \in {"quarantined", "dead", "relayed"}
  /\ e \in Understood[release]
  /\ FrozenSnapshot(e, caller)
  /\ outbox[e].subs = Unknown => caller # {} \/ acknowledgeEmptyFanout
  /\ outbox[e].status = "relayed" => ParkedDeliveries(e, caller) # {}
  /\ Started(ParkedDeliveries(e, caller))
  /\ outbox' = [outbox EXCEPT ![e] = RowRedriven(@, caller)]
  /\ audit' = Redriven(e)
  /\ commands' = commands + 1
  /\ UNCHANGED <<release, evidence, failing, deploys, handled>>

-----------------------------------------------------------------------------
(***************************************************************************)
(* The release transition                                                  *)
(***************************************************************************)

\* Mutant of CheckWork: dead work does not count as pending.
CheckLiveWork(r) ==
  /\ \A d \in Deliveries : phase[d] = "open" =>
       d[1] \in Emitted[r] /\ d[2] \in Subscribed[r][d[1]]
  /\ \A e \in Events : outbox[e].status = "pending" =>
       e \in Emitted[r] /\ Subscribed[release][e] \subseteq Subscribed[r][e]

\* checkWork: no pending, running or dead delivery loses its subscriber, and
\* no pending or dead event one that the effective release has.
CheckWork(r) ==
  /\ \A d \in Deliveries : phase[d] \in {"open", "dead"} =>
       d[1] \in Emitted[r] /\ d[2] \in Subscribed[r][d[1]]
  /\ \A e \in Events : outbox[e].status \in {"pending", "dead"} =>
       e \in Emitted[r] /\ Subscribed[release][e] \subseteq Subscribed[r][e]

\* prepareRelease and recordEffectiveRelease, with all writers stopped as
\* their procedure demands: a failure nobody recorded is lost.
Deploy(r) ==
  /\ deploys < MaxDeploys
  /\ r # release
  /\ CheckWork(r)
  /\ release' = r
  /\ failing' = [w \in Workers |-> None]
  /\ deploys' = deploys + 1
  /\ UNCHANGED <<outbox, evidence, audit, current, phase, commands, handled>>

-----------------------------------------------------------------------------
RelayNext == \E w \in Workers :
               \/ \E e \in Events : Relay(w, e) \/ RelayRollsBack(w, e)
               \/ RecordTransientFailure(w)
               \/ CrashWorker(w)

DeliveryNext == \E d \in Deliveries :
                  \/ RefuseDelivery(d)
                  \/ CompleteDelivery(d)
                  \/ EffectWithoutOutcome(d)
                  \/ ExhaustDelivery(d)
                  \/ ForgetDelivery(d)

OperatorNext == \/ \E d \in Deliveries : RetryJob(d)
                \/ \E e \in Events, caller \in SUBSET Subscribers,
                      ack \in BOOLEAN : RedriveFailure(e, caller, ack)

Next == \/ \E e \in Events : Emit(e) \/ BackoffElapses(e)
        \/ RelayNext
        \/ DeliveryNext
        \/ OperatorNext
        \/ \E r \in Releases : Deploy(r)

Spec == Init /\ [][Next]_vars

\* A backoff ends and a due event is tried again and again, not every time by a
\* worker that dies before it records the failure; the queue decides an open
\* occurrence (EveryJobSettles of JobQueue).
Fairness ==
  /\ \A e \in Events :
       SF_vars(\/ BackoffElapses(e)
               \/ \E w \in Workers : Relay(w, e) \/ RelayRollsBack(w, e))
  /\ SF_vars(\E w \in Workers : RecordTransientFailure(w))
  /\ \A d \in Deliveries :
       WF_vars(RefuseDelivery(d) \/ CompleteDelivery(d) \/ ExhaustDelivery(d))

LiveSpec == Spec /\ Fairness

-----------------------------------------------------------------------------
(***************************************************************************)
(* Properties                                                              *)
(***************************************************************************)

\* Every variable stays in its type.
TypeOK ==
  /\ release \in Releases
  /\ outbox \in [Events -> Row]
  /\ evidence \subseteq Events
  /\ audit \in [Events -> Audit]
  /\ current \in [Deliveries -> Nat]
  /\ phase \in [Deliveries -> Jobs!Phases]
  /\ failing \in [Workers -> Events \cup {None}]
  /\ commands \in 0..MaxCommands
  /\ deploys \in 0..MaxDeploys
  /\ handled \subseteq Deliveries

\* Fan-out and marking are one: a delivery was ever enqueued exactly when its
\* event is relayed and its subscriber is in the frozen snapshot, whatever
\* relay failed, timed out, was overtaken or was redriven before.
FanOutIsAtomic ==
  \A e \in Events, s \in Subscribers :
    current[<<e, s>>] > 0 <=>
      outbox[e].status = "relayed" /\ outbox[e].subs # Unknown
        /\ s \in outbox[e].subs

\* What listFailures shows to the operator.
ListedFailures ==
  {e \in Events :
     \/ outbox[e].status \in {"dead", "quarantined"}
     \/ /\ outbox[e].status = "relayed"
        /\ \E s \in Subscribers : phase[<<e, s>>] = "quarantined"}

\* A published event is never lost to a subscriber of its snapshot: until the
\* handler took effect the event waits in the outbox, its delivery is open or
\* dead, or the event is on the operator's list.
NothingIsLost ==
  \A e \in Events :
    outbox[e].status \in {"absent", "pending"} \/ e \in ListedFailures
    \/ \A s \in Subscribers :
         s \in outbox[e].subs /\ <<e, s>> \notin handled
           => phase[<<e, s>>] \in {"open", "dead"}

\* A delivery gets a second occurrence only by a redrive that left its audit
\* row: no failure, crash, time-out or expired retention fans out twice.
OneOccurrencePerRedrive ==
  \A d \in Deliveries : current[d] <= 1 + audit[d[1]].reopen

\* A release transition never takes the subscriber from work that can still
\* run: a waiting or dead event, an open or dead delivery.
UpgradeKeepsSubscribers ==
  /\ \A e \in Events :
       outbox[e].status \in {"pending", "dead"} /\ outbox[e].subs # Unknown
         => outbox[e].subs \subseteq Subscribed[release][e]
  /\ \A d \in Deliveries : phase[d] \in {"open", "dead"}
         => d[2] \in Subscribed[release][d[1]]

\* Every published event reaches each subscriber of its snapshot, or a list
\* of the operator, in spite of failing relays, crashes and retries.
EventsArrive ==
  \A e \in Events :
    outbox[e].status = "pending" /\ outbox[e].subs # Unknown
      ~> \/ /\ outbox[e].subs # Unknown
            /\ \A s \in outbox[e].subs :
                 <<e, s>> \in handled \/ phase[<<e, s>>] = "dead"
         \/ e \in ListedFailures
=============================================================================

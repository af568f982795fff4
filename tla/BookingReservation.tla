------------------------- MODULE BookingReservation -------------------------
(***************************************************************************)
(* A Booking reservation from its quote to its end: the commands and jobs   *)
(* of packages/booking/reservation, with the room nights of                 *)
(* packages/booking/availability that they hold and release in the same     *)
(* transaction.                                                            *)
(*                                                                         *)
(* Every command locks the reservation row first and decides by what it     *)
(* reads after that, so one command is one step; only its now() is that of  *)
(* the moment its transaction began, which may be before it got the lock.   *)
(* What interleaves are the two jobs, worker runs that outlive their claim, *)
(* the provider outside every transaction, its callbacks in any order and   *)
(* number, the guest, the operator and time.                                *)
(*                                                                         *)
(* The jobs run at least once, as JobLifecycle promises.  Left out: quote   *)
(* prices and fingerprints (a stale quote changes nothing), access grants,  *)
(* account claims, retention, notifications, and the execution of a refund: *)
(* here a refund is the header that obliges the shop to pay it.             *)
(***************************************************************************)
EXTENDS DeadlineJob, Sums, FiniteSetsExt

CONSTANTS
  Reservations,
  Nights,         \* 1..n, the dates of one room type
  Stay,           \* [Reservations -> SUBSET Nights]
  Rooms,          \* [Reservations -> Nat], roomCount
  Price,          \* totalMinor of a reservation
  Sellable,       \* sellable units of a night at the start
  Window,         \* DEFAULT_PAYMENT_WINDOW_MS, in ticks
  MaxWait,        \* how long a transaction may wait for its locks
  Horizon,        \* bound: the last tick, and the last deadline
  Payments,       \* bound: [Reservations -> Nat], payment attempts
  MaxAnswers      \* bound: answers of the provider in flight

ASSUME BookingAssumption ==
  /\ IsFiniteSet(Reservations)
  /\ Nights \subseteq Nat
  /\ Stay \in [Reservations -> SUBSET Nights]
  /\ Rooms \in [Reservations -> Nat \ {0}]
  /\ Price \in Nat
  /\ Sellable \in Nat
  /\ Window \in Nat \ {0}
  /\ MaxWait \in Nat
  /\ Horizon \in Nat
  /\ Payments \in [Reservations -> Nat]
  /\ MaxAnswers \in Nat

\* A payment attempt is the n-th of its reservation.
Attempts == UNION {{r} \X (1..Payments[r]) : r \in Reservations}
ReservationOf(a) == a[1]
AttemptsOf(r) == {a \in Attempts : ReservationOf(a) = r}

VARIABLES
  reservation,  \* [Reservations -> [status, deadline, credential, winner]]
  attempt,      \* [Attempts -> [status, deadline, kind]]
  refund,       \* [Attempts -> Nat], the amount of its refund header, 0 if none
  night,        \* [Nights -> [sellable, reserved]]
  expiry,       \* [Reservations -> JobRow], booking-reservation:expire:<id>
  expired,      \* idempotency rows of expire: <<reservation, deadline>>
  pay,          \* attempts whose job, of key payment:<reference>, is not done
  initiated,    \* attempts the provider has been told of
  answers,      \* <<attempt, result>> a worker holds and has not recorded
  clock         \* clock_timestamp() of the database

booked == <<reservation, attempt, refund, night>>
calls == <<pay, initiated, answers>>
vars == <<reservation, attempt, refund, night, expiry, expired, pay, initiated,
          answers, clock>>

-----------------------------------------------------------------------------
Time == 0..Horizon

\* now() in a transaction that has its locks by now, and new Date() in the
\* process that began it.
Begun == {t \in Time : t <= clock /\ clock - t <= MaxWait}

Holding == {"pending_payment", "confirmed"}
ReservationStatus == {"none", "expired", "cancelled"} \cup Holding
Active == {"created", "submitted", "awaiting_payment"}
AttemptStatus == {"none", "succeeded", "failed", "expired"} \cup Active

\* What the provider answers or calls back.
Result == [kind : {"confirmed", "redirect", "failed"}]
          \cup [kind : {"awaiting_payment"}, expiresAt : Time]

Init ==
  /\ reservation = [r \in Reservations |->
       [status |-> "none", deadline |-> 0, credential |-> 0, winner |-> 0]]
  /\ attempt = [a \in Attempts |->
       [status |-> "none", deadline |-> 0, kind |-> "none"]]
  /\ refund = [a \in Attempts |-> 0]
  /\ night = [n \in Nights |-> [sellable |-> Sellable, reserved |-> 0]]
  /\ expiry = [r \in Reservations |-> NoJob]
  /\ expired = {}
  /\ pay = {}
  /\ initiated = {}
  /\ answers = {}
  /\ clock = 0

-----------------------------------------------------------------------------
(***************************************************************************)
(* Room nights                                                             *)
(***************************************************************************)
Reserve(r) ==
  /\ \A n \in Stay[r] : night[n].sellable - night[n].reserved >= Rooms[r]
  /\ night' = [n \in Nights |->
       IF n \in Stay[r] THEN [night[n] EXCEPT !.reserved = @ + Rooms[r]]
                        ELSE night[n]]

\* A night that does not hold the rooms refuses the whole command.
Release(r) ==
  /\ \A n \in Stay[r] : night[n].reserved >= Rooms[r]
  /\ night' = [n \in Nights |->
       IF n \in Stay[r] THEN [night[n] EXCEPT !.reserved = @ - Rooms[r]]
                        ELSE night[n]]

\* Mutant of UpdateRoomNights: it checks the first night of the range only.
UpdateChecksFirst(from, to, units) ==
  /\ units >= night[from].reserved
  /\ night' = [n \in Nights |-> IF n \in from..to
                                THEN [night[n] EXCEPT !.sellable = units]
                                ELSE night[n]]
  /\ UNCHANGED <<reservation, attempt, refund, expiry, expired, calls, clock>>

\* updateRoomNightRange of an operator: never below what is reserved.
UpdateRoomNights(from, to, units) ==
  /\ \A n \in Nights \cap (from..to) : units >= night[n].reserved
  /\ night' = [n \in Nights |-> IF n \in from..to
                                THEN [night[n] EXCEPT !.sellable = units]
                                ELSE night[n]]
  /\ UNCHANGED <<reservation, attempt, refund, expiry, expired, calls, clock>>

-----------------------------------------------------------------------------
(***************************************************************************)
(* Commands of the guest and the operator                                  *)
(***************************************************************************)

\* create: all the nights are held or nothing happens.
Create(r, t) ==
  LET d == t + Window
  IN  /\ reservation[r].status = "none"
      /\ d <= Horizon
      /\ Reserve(r)
      /\ reservation' = [reservation EXCEPT ![r] =
           [status |-> "pending_payment", deadline |-> d, credential |-> d,
            winner |-> 0]]
      /\ expiry' = [expiry EXCEPT ![r] = EnqueuedOnce(@, d)]
      /\ UNCHANGED <<attempt, refund, expired, calls, clock>>

ActiveOf(r) == {a \in AttemptsOf(r) : attempt[a].status \in Active}
Winners(r) == {a \in AttemptsOf(r) : attempt[a].kind = "winning"}

\* The attempts with their expireActivePaymentAttempts for reservation r.
ActiveExpired(r, as) ==
  [a \in Attempts |->
     IF ReservationOf(a) = r /\ as[a].status \in Active
     THEN [as[a] EXCEPT !.status = "expired"] ELSE as[a]]

\* Mutant of StartPayment: the attempt that is over stays active.
StartPaymentBeside(r, t) ==
  LET a == <<r, 1 + Cardinality({b \in AttemptsOf(r) : attempt[b].status # "none"})>>
  IN  /\ reservation[r].status = "pending_payment"
      /\ clock < reservation[r].credential
      /\ t < reservation[r].deadline
      /\ a \in Attempts
      /\ \A b \in ActiveOf(r) : attempt[b].deadline <= t
      /\ attempt' = [attempt EXCEPT ![a] =
           [status |-> "created", deadline |-> reservation[r].deadline,
            kind |-> "none"]]
      /\ pay' = pay \cup {a}
      /\ UNCHANGED <<reservation, refund, night, expiry, expired, initiated,
                     answers, clock>>

\* startPayment: the credential is checked by the wall clock, the rest by
\* now().  An attempt that is over gives way to the next one; an active one
\* that is not refuses it, and so does a reservation that costs nothing.
StartPayment(r, t) ==
  LET a == <<r, 1 + Cardinality({b \in AttemptsOf(r) : attempt[b].status # "none"})>>
  IN  /\ reservation[r].status = "pending_payment"
      /\ clock < reservation[r].credential
      /\ t < reservation[r].deadline
      /\ Price > 0
      /\ a \in Attempts
      /\ \A b \in ActiveOf(r) : attempt[b].deadline <= t
      /\ attempt' = [ActiveExpired(r, attempt) EXCEPT ![a] =
           [status |-> "created", deadline |-> reservation[r].deadline,
            kind |-> "none"]]
      /\ pay' = pay \cup {a}
      /\ UNCHANGED <<reservation, refund, night, expiry, expired, initiated,
                     answers, clock>>

\* cancelByOperator with any amount up to what the winner paid, and cancelSelf,
\* which is the full amount before the cancellation deadline of the stay.
Cancel(r, amount) ==
  /\ reservation[r].status \in Holding
  /\ amount <= IF reservation[r].winner > 0 THEN Price ELSE 0
  /\ attempt' = ActiveExpired(r, attempt)
  /\ reservation' = [reservation EXCEPT ![r].status = "cancelled"]
  /\ refund' = IF amount = 0 THEN refund
               ELSE [refund EXCEPT ![<<r, reservation[r].winner>>] = amount]
  /\ Release(r)
  /\ UNCHANGED <<expiry, expired, calls, clock>>

-----------------------------------------------------------------------------
(***************************************************************************)
(* The outcome of a payment, from the job that began it or from a callback *)
(***************************************************************************)

\* Mutant of Success: whoever pays while the reservation is not closed wins.
SuccessIgnoresWinner(a) ==
  IF reservation[ReservationOf(a)].status \in Holding THEN "winning" ELSE "late"

\* What a success of attempt a is.
Success(a) ==
  LET r == ReservationOf(a)
  IN  IF Winners(r) # {} THEN "excess"
      ELSE IF reservation[r].status = "pending_payment" THEN "winning"
      ELSE "late"

\* payment_confirmed: the first success of a pending reservation confirms it;
\* any other is kept as evidence and given back in full.
Confirmed(a) ==
  LET r == ReservationOf(a)
      kind == Success(a)
      paid == [attempt EXCEPT ![a] = [@ EXCEPT !.status = "succeeded", !.kind = kind]]
  IN  /\ attempt[a].status # "succeeded"
      /\ attempt' = IF kind = "winning" THEN ActiveExpired(r, paid) ELSE paid
      /\ reservation' = IF kind = "winning"
           THEN [reservation EXCEPT ![r] =
                   [@ EXCEPT !.status = "confirmed", !.winner = a[2]]]
           ELSE reservation
      /\ refund' = IF kind = "winning" THEN refund
                   ELSE [refund EXCEPT ![a] = Price]
      /\ UNCHANGED <<night, expiry>>

\* Only a success is recorded of a reservation that is not pending, or of an
\* attempt that is over.
Current(a) == /\ reservation[ReservationOf(a)].status = "pending_payment"
              /\ attempt[a].status \in Active

\* The deadline the instructions give the attempt: an initiation can only
\* shorten the window it opened, a callback is exact.
Effective(a, origin, e) ==
  IF origin = "initiation" THEN Min({e, reservation[ReservationOf(a)].deadline})
                           ELSE e

\* Mutant of InfoIssued: the job of the old deadline is left as it is.
InfoKeepsJob(a, origin, e, t) ==
  LET r == ReservationOf(a)
      d == Max({Effective(a, origin, e), reservation[r].deadline})
  IN  /\ e > t
      /\ attempt[a].status = "awaiting_payment" =>
           Effective(a, origin, e) > attempt[a].deadline
      /\ attempt' = [attempt EXCEPT ![a] =
           [@ EXCEPT !.status = "awaiting_payment", !.deadline = Effective(a, origin, e)]]
      /\ reservation' = [reservation EXCEPT ![r].deadline = d]
      /\ expiry' = [expiry EXCEPT ![r] = EnqueuedOnce(@, d)]
      /\ UNCHANGED <<refund, night>>

\* payment_info_issued: the first instructions, or later ones, give the attempt
\* its deadline, and can only move the deadline of the reservation on.
InfoIssued(a, origin, e, t) ==
  LET r == ReservationOf(a)
      d == Max({Effective(a, origin, e), reservation[r].deadline})
  IN  /\ e > t
      /\ attempt[a].status = "awaiting_payment" =>
           Effective(a, origin, e) > attempt[a].deadline
      /\ attempt' = [attempt EXCEPT ![a] =
           [@ EXCEPT !.status = "awaiting_payment", !.deadline = Effective(a, origin, e)]]
      /\ reservation' = [reservation EXCEPT ![r].deadline = d]
      /\ expiry' = [expiry EXCEPT ![r] = Enqueued(@, d)]
      /\ UNCHANGED <<refund, night>>

\* The results that change something.
ApplyPaymentOutcome(a, res, origin, t) ==
  \/ res.kind = "confirmed" /\ Confirmed(a)
  \/ /\ res.kind = "awaiting_payment" /\ Current(a)
     /\ InfoIssued(a, origin, res.expiresAt, t)
  \/ /\ res.kind \in {"failed", "redirect"} /\ Current(a)
     /\ attempt' = [attempt EXCEPT ![a].status =
                      IF res.kind = "failed" THEN "failed" ELSE "submitted"]
     /\ UNCHANGED <<reservation, refund, night, expiry>>

\* The results that are accepted and change nothing.
Ignored(a, res, t) ==
  \/ res.kind = "confirmed" /\ attempt[a].status = "succeeded"
  \/ res.kind # "confirmed" /\ ~Current(a)
  \/ /\ res.kind = "awaiting_payment" /\ res.expiresAt > t
     /\ attempt[a].status = "awaiting_payment"
     /\ Effective(a, "initiation", res.expiresAt) <= attempt[a].deadline

\* A verified callback for an attempt the provider was told of: any, late,
\* again or never.  One that changes nothing is no step.
Callback(a, res, t) ==
  /\ a \in initiated
  /\ res.kind # "redirect"
  /\ ApplyPaymentOutcome(a, res, "verified-callback", t)
  /\ UNCHANGED <<expired, calls, clock>>

-----------------------------------------------------------------------------
(***************************************************************************)
(* The payment job of an attempt.  A claim can be lost at any moment and the *)
(* run go on, so the job is run, by one worker or by several, until one run  *)
(* of it completes; a dead job is one that is not run any more, or again.    *)
(***************************************************************************)

\* The preflight, and the call of the provider outside any transaction.  Nothing
\* can tell the one from the other, so they are one step.  Answers of one kind
\* share the idempotency key of their record: one of them is enough.
Initiate(a, res) ==
  LET r == ReservationOf(a)
  IN  /\ a \in pay
      /\ attempt[a].status = "created"
      /\ reservation[r].status = "pending_payment"
      /\ clock < reservation[r].deadline
      /\ clock < attempt[a].deadline
      /\ res.kind = "awaiting_payment" => res.expiresAt > clock
      /\ \A p \in answers : p[1] = a => p[2].kind # res.kind
      /\ Cardinality(answers) < MaxAnswers
      /\ answers' = answers \cup {<<a, res>>}
      /\ initiated' = initiated \cup {a}
      /\ UNCHANGED <<booked, expiry, expired, pay, clock>>

\* The preflight finds nothing to do.
SkipPayment(a) ==
  LET r == ReservationOf(a)
  IN  /\ a \in pay
      /\ \/ attempt[a].status # "created"
         \/ reservation[r].status # "pending_payment"
         \/ clock >= reservation[r].deadline
         \/ clock >= attempt[a].deadline
      /\ pay' = pay \ {a}
      /\ UNCHANGED <<booked, expiry, expired, initiated, answers, clock>>

\* recordPaymentResult by a worker that has an answer; it completes the job, or
\* its claim is lost by then.
Record(a, res, t) ==
  /\ <<a, res>> \in answers
  /\ answers' = answers \ {<<a, res>>}
  /\ IF Ignored(a, res, t)
     THEN UNCHANGED <<booked, expiry>>
     ELSE ApplyPaymentOutcome(a, res, "initiation", t)
  /\ pay' \in {pay, pay \ {a}}
  /\ UNCHANGED <<expired, initiated, clock>>

\* The worker that has the answer dies, or the record of it is refused.
LoseAnswer(a, res) ==
  /\ <<a, res>> \in answers
  /\ answers' = answers \ {<<a, res>>}
  /\ UNCHANGED <<booked, expiry, expired, pay, initiated, clock>>

-----------------------------------------------------------------------------
(***************************************************************************)
(* The expiry job of a reservation                                         *)
(***************************************************************************)
ClaimExpiry(r) ==
  /\ expiry[r].state = "pending"
  /\ expiry[r].at <= clock
  /\ expiry' = [expiry EXCEPT ![r].state = "running"]
  /\ UNCHANGED <<booked, expired, calls, clock>>

\* Mutant of Expire: the deadline the job was made for is not compared.
ExpireAnyDeadline(r, d, t) ==
  IF reservation[r].status = "pending_payment" /\ d <= t
  THEN /\ attempt' = ActiveExpired(r, attempt)
       /\ reservation' = [reservation EXCEPT ![r].status = "expired"]
       /\ Release(r)
       /\ UNCHANGED refund
  ELSE UNCHANGED booked

\* expire: a reservation that is not pending, or whose deadline is another, is
\* left alone.
Expire(r, d, t) ==
  IF /\ reservation[r].status = "pending_payment"
     /\ reservation[r].deadline = d
     /\ d <= t
  THEN /\ attempt' = ActiveExpired(r, attempt)
       /\ reservation' = [reservation EXCEPT ![r].status = "expired"]
       /\ Release(r)
       /\ UNCHANGED refund
  ELSE UNCHANGED booked

\* The command of the job, in a transaction that began after the claim.
RunExpiry(r, t) ==
  /\ expiry[r].state = "running"
  /\ <<r, expiry[r].at>> \notin expired
  /\ t >= expiry[r].at
  /\ Expire(r, expiry[r].at, t)
  /\ expired' = expired \cup {<<r, expiry[r].at>>}
  /\ UNCHANGED <<expiry, calls, clock>>

CompleteExpiry(r) ==
  /\ expiry[r].state = "running"
  /\ <<r, expiry[r].at>> \in expired
  /\ expiry' = [expiry EXCEPT ![r] = Settled(@, "done")]
  /\ UNCHANGED <<booked, expired, calls, clock>>

\* The run fails or its worker dies, before or after its command committed.
ExpiryFails(r) ==
  /\ expiry[r].state = "running"
  /\ \E s \in {"pending", "dead"} :
       expiry' = [expiry EXCEPT ![r] = Settled(@, s)]
  /\ UNCHANGED <<booked, expired, calls, clock>>

RetryExpiry(r) ==
  /\ expiry[r].state = "dead"
  /\ expiry' = [expiry EXCEPT ![r].state = "pending"]
  /\ UNCHANGED <<booked, expired, calls, clock>>

-----------------------------------------------------------------------------
Tick == /\ clock < Horizon
        /\ clock' = clock + 1
        /\ UNCHANGED <<booked, expiry, expired, calls>>

ReservationStep(r) ==
  \/ \E t \in Begun : Create(r, t) \/ StartPayment(r, t) \/ RunExpiry(r, t)
  \/ \E amount \in 0..Price : Cancel(r, amount)
  \/ ClaimExpiry(r) \/ CompleteExpiry(r) \/ ExpiryFails(r) \/ RetryExpiry(r)

AttemptStep(a) ==
  \/ SkipPayment(a)
  \/ \E res \in Result :
       \/ Initiate(a, res) \/ LoseAnswer(a, res)
       \/ \E t \in Begun : Record(a, res, t) \/ Callback(a, res, t)

Next == \/ \E r \in Reservations : ReservationStep(r)
        \/ \E a \in Attempts : AttemptStep(a)
        \/ \E from, to \in Nights, units \in 0..Sellable :
             from <= to /\ UpdateRoomNights(from, to, units)
        \/ Tick

Spec == Init /\ [][Next]_vars

\* Deadlines pass, and a due expiry job that is run again and again is at some
\* time run to its end, unless its attempts are used up first.
Fairness ==
  /\ WF_vars(Tick)
  /\ \A r \in Reservations :
       /\ WF_vars(ClaimExpiry(r))
       /\ SF_vars(\E t \in Begun : RunExpiry(r, t))
       /\ WF_vars(CompleteExpiry(r))

LiveSpec == Spec /\ Fairness

-----------------------------------------------------------------------------
(***************************************************************************)
(* What is checked                                                         *)
(***************************************************************************)

\* Every column has a value of its type, and no counter is negative.
TypeOK ==
  /\ reservation \in [Reservations ->
       [status : ReservationStatus, deadline : Time, credential : Time, winner : Nat]]
  /\ attempt \in [Attempts ->
       [status : AttemptStatus, deadline : Time,
        kind : {"none", "winning", "late", "excess"}]]
  /\ refund \in [Attempts -> Nat]
  /\ night \in [Nights -> [sellable : Nat, reserved : Nat]]
  /\ expiry \in [Reservations -> JobRow(Time)]
  /\ expired \subseteq Reservations \X Time
  /\ pay \subseteq Attempts
  /\ initiated \subseteq Attempts
  /\ answers \subseteq Attempts \X Result
  /\ clock \in Time

Holders(n) == {r \in Reservations : n \in Stay[r] /\ reservation[r].status \in Holding}

\* The units reserved of a night are those of the reservations that hold it,
\* each once, whatever expiry, cancellation and payment raced, and an operator
\* never sells fewer than are held.
NightsMatchReservations ==
  \A n \in Nights :
    /\ night[n].reserved = SumOver(Rooms, Holders(n))
    /\ night[n].reserved <= night[n].sellable

\* What was received for a reservation and is not to be given back.
Kept(r) == SumOver([a \in Attempts |-> Price - refund[a]],
                   {a \in AttemptsOf(r) : attempt[a].status = "succeeded"})

\* The shop keeps the price of a confirmed reservation exactly once, nothing of
\* one that is pending, has expired or was cancelled unpaid, and of a cancelled
\* one what the operator decided; nothing is refunded that was not received, nor more than was.
MoneyIsAccounted ==
  \A r \in Reservations :
    LET s == reservation[r].status
    IN  /\ Kept(r) = Price \/ s # "confirmed"
        /\ Kept(r) = 0 \/ s \in {"confirmed", "cancelled"}
        /\ Kept(r) \in 0..IF reservation[r].winner > 0 THEN Price ELSE 0
        /\ \A a \in AttemptsOf(r) :
             refund[a] <= IF attempt[a].status = "succeeded" THEN Price ELSE 0

\* The winner of a reservation is the one winning attempt; a reservation has an
\* attempt under way only while it is pending, and never two.
OneWinner ==
  \A r \in Reservations :
    /\ Winners(r) = {a \in AttemptsOf(r) : a[2] = reservation[r].winner}
    /\ reservation[r].status = "confirmed" => reservation[r].winner > 0
    /\ Cardinality(ActiveOf(r)) <=
         IF reservation[r].status = "pending_payment" THEN 1 ELSE 0

\* When an extension gets the lock first, the original expiry job sees the new
\* deadline and does nothing (docs/specs/0011-booking-product-release.md:133-134):
\* a guest who was given until a deadline has until then.
ExpiresOnTime ==
  [][\A r \in Reservations :
       reservation[r].status # "expired" /\ reservation'[r].status = "expired" =>
         reservation[r].deadline <= clock]_vars

\* A reservation does not stay pending: it is confirmed, cancelled or expired,
\* unless its expiry job used up its attempts and waits for an operator.
ReservationsSettle ==
  \A r \in Reservations : reservation[r].status = "pending_payment" ~>
    (reservation[r].status # "pending_payment" \/ expiry[r].state = "dead")

\* "A verified callback is authoritative: its first outcome applies its exact
\* provider deadline, while later older outcomes are stale"
\* (payment-attempts.ts:298-300): an attempt that waits for the guest to pay by
\* its instructions keeps them until it ends or newer ones come.
InstructionsStand ==
  [][\A a \in Attempts : attempt[a].status = "awaiting_payment" =>
       /\ attempt'[a].status \notin {"created", "submitted"}
       /\ attempt'[a].deadline >= attempt[a].deadline]_vars
=============================================================================

---------------------- MODULE BookingReservationProofs ----------------------
(***************************************************************************)
(* The safety properties of BookingReservation hold for any reservations,  *)
(* nights, stays, prices, windows, waits and bounds.                       *)
(***************************************************************************)
EXTENDS BookingReservation, FiniteSetTheorems, TLAPS

-----------------------------------------------------------------------------
(***************************************************************************)
(* What a sum is when its set gains or loses a member                      *)
(***************************************************************************)

\* One member has as many units as the function says.
LEMMA UnitsOfOne ==
  ASSUME NEW x, NEW n \in Nat
  PROVE  /\ IsFiniteSet({x} \X (1..n))
         /\ Cardinality({x} \X (1..n)) = n
<1>1. IsFiniteSet({x}) /\ Cardinality({x}) = 1
  BY FS_Singleton
<1>2. IsFiniteSet(1..n) /\ Cardinality(1..n) = n
  BY FS_Interval
<1>3. /\ IsFiniteSet({x} \X (1..n))
      /\ Cardinality({x} \X (1..n)) = Cardinality({x}) * Cardinality(1..n)
  BY <1>1, <1>2, FS_Product
<1> QED
  BY <1>1, <1>2, <1>3

\* A finite sum of numbers is a number.
LEMMA SumType ==
  ASSUME NEW S, IsFiniteSet(S), NEW f, \A x \in S : f[x] \in Nat
  PROVE  IsFiniteSet(Units(f, S)) /\ SumOver(f, S) \in Nat
<1> DEFINE g == [x \in S |-> {x} \X (1..f[x])]
           T == {{x} \X (1..f[x]) : x \in S}
<1>1. g \in Surjection(S, T)
  BY DEF Surjection
<1>2. IsFiniteSet(T)
  BY <1>1, FS_Surjection
<1>3. \A U \in T : IsFiniteSet(U)
  <2> SUFFICES ASSUME NEW x \in S PROVE IsFiniteSet({x} \X (1..f[x]))
    OBVIOUS
  <2> QED
    BY UnitsOfOne
<1>4. IsFiniteSet(UNION T)
  <2> HIDE DEF T
  <2> QED
    BY <1>2, <1>3, FS_UNION
<1> QED
  BY <1>4, FS_CardinalityType DEF Units, SumOver

\* Nothing sums up to nothing.
LEMMA SumEmpty == \A f : SumOver(f, {}) = 0
<1>1. \A f : Units(f, {}) = {}
  BY DEF Units
<1> QED
  BY <1>1, FS_EmptySet DEF SumOver

\* A new member adds what it has.
LEMMA SumAdd ==
  ASSUME NEW S, IsFiniteSet(S), NEW f, NEW y, y \notin S,
         \A x \in S \cup {y} : f[x] \in Nat
  PROVE  SumOver(f, S \cup {y}) = SumOver(f, S) + f[y]
<1> DEFINE U == {y} \X (1..f[y])
<1>1. Units(f, S \cup {y}) = Units(f, S) \cup U
  BY DEF Units
<1>2. Units(f, S) \cap U = {}
  BY DEF Units
<1>3. IsFiniteSet(Units(f, S)) /\ Cardinality(Units(f, S)) \in Nat
  BY SumType DEF SumOver
<1>4. IsFiniteSet(U) /\ Cardinality(U) = f[y]
  BY UnitsOfOne
<1>5. Cardinality(Units(f, S) \cup U)
        = Cardinality(Units(f, S)) + Cardinality(U) - Cardinality(Units(f, S) \cap U)
  BY <1>3, <1>4, FS_Union
<1>6. Cardinality(Units(f, S) \cap U) = 0
  BY <1>2, FS_EmptySet
<1>7. /\ SumOver(f, S \cup {y}) = Cardinality(Units(f, S) \cup U)
      /\ SumOver(f, S) = Cardinality(Units(f, S))
  BY <1>1 DEF SumOver
<1> HIDE DEF U
<1> QED
  BY <1>3, <1>4, <1>5, <1>6, <1>7

\* A member that leaves takes what it has.
LEMMA SumRemove ==
  ASSUME NEW S, IsFiniteSet(S), NEW f, NEW y \in S,
         \A x \in S : f[x] \in Nat
  PROVE  /\ SumOver(f, S \ {y}) = SumOver(f, S) - f[y]
         /\ SumOver(f, S) >= f[y]
<1>1. IsFiniteSet(S \ {y}) /\ (S \ {y}) \cup {y} = S
  BY FS_RemoveElement
<1>2. SumOver(f, S) = SumOver(f, S \ {y}) + f[y]
  BY <1>1, SumAdd
<1>3. SumOver(f, S \ {y}) \in Nat /\ SumOver(f, S) \in Nat
  BY <1>1, SumType
<1> QED
  BY <1>2, <1>3

\* A sum of which one member has anything is that member's.
LEMMA SumOfOne ==
  ASSUME NEW S, NEW f, NEW y \in S, f[y] \in Nat, \A x \in S \ {y} : f[x] = 0
  PROVE  SumOver(f, S) = f[y]
<1>1. Units(f, S) = {y} \X (1..f[y])
  <2>1. Units(f, S) \subseteq {y} \X (1..f[y])
    <3> SUFFICES ASSUME NEW x \in S, NEW u \in {x} \X (1..f[x])
                 PROVE  u \in {y} \X (1..f[y])
      BY DEF Units
    <3>1. 1..f[x] # {}
      OBVIOUS
    <3> QED
      BY <3>1
  <2> QED
    BY <2>1 DEF Units
<1>2. Cardinality({y} \X (1..f[y])) = f[y]
  BY UnitsOfOne
<1> QED
  BY <1>1, <1>2 DEF SumOver

\* A sum of zeros is zero.
LEMMA SumOfNone ==
  ASSUME NEW S, NEW f, \A x \in S : f[x] = 0
  PROVE  SumOver(f, S) = 0
<1>1. Units(f, S) = {}
  BY DEF Units
<1> QED
  BY <1>1, FS_EmptySet DEF SumOver

\* What a reservation says of its payment attempts: it has one under way only
\* while it is pending, and nothing was received before it was confirmed or over.
ReservationOK(r) ==
  LET R == reservation[r]
  IN  /\ R.status = "none" => \A a \in AttemptsOf(r) : attempt[a].status = "none"
      /\ R.status \in {"none", "pending_payment", "expired"} => R.winner = 0
      /\ R.status \in {"none", "pending_payment"} =>
           \A a \in AttemptsOf(r) : attempt[a].status # "succeeded"
      /\ R.status = "confirmed" => R.winner > 0
      /\ R.winner > 0 => <<r, R.winner>> \in Attempts
      /\ R.status # "pending_payment" => ActiveOf(r) = {}
      /\ \A a, b \in ActiveOf(r) : a = b

\* What an attempt says of the money: evidence is of a success, the winner is the
\* one its reservation names, any other success is given back in full, and
\* nobody can answer for an attempt that was not made.
AttemptOK(a) ==
  LET R == reservation[ReservationOf(a)]
  IN  /\ attempt[a].kind # "none" <=> attempt[a].status = "succeeded"
      /\ attempt[a].kind = "winning" <=> a[2] = R.winner
      /\ attempt[a].kind \in {"late", "excess"} => refund[a] = Price
      /\ attempt[a].kind = "none" => refund[a] = 0
      /\ refund[a] <= Price
      /\ R.status = "confirmed" /\ attempt[a].kind = "winning" => refund[a] = 0
      /\ attempt[a].status = "none" =>
           a \notin initiated /\ \A res \in Result : <<a, res>> \notin answers

IInv == /\ TypeOK
        /\ \A r \in Reservations : ReservationOK(r)
        /\ \A a \in Attempts : AttemptOK(a)
        /\ NightsMatchReservations

-----------------------------------------------------------------------------
(***************************************************************************)
(* Facts about the operators of the model                                  *)
(***************************************************************************)

LEMMA MaxMinOfTwo ==
  ASSUME NEW x \in Int, NEW y \in Int
  PROVE  /\ Max({x, y}) = IF x >= y THEN x ELSE y
         /\ Min({x, y}) = IF x <= y THEN x ELSE y
  BY DEF Max, Min

\* An attempt is a pair of a reservation and a positive number.
LEMMA AttemptPair ==
  ASSUME NEW a \in Attempts
  PROVE  /\ ReservationOf(a) \in Reservations
         /\ a = <<ReservationOf(a), a[2]>>
         /\ a[2] \in Nat \ {0}
  BY BookingAssumption DEF Attempts, ReservationOf

LEMMA AttemptsOfReservation ==
  ASSUME NEW r, NEW a \in Attempts
  PROVE  a \in AttemptsOf(r) <=> ReservationOf(a) = r
  BY DEF AttemptsOf

\* Two attempts of one reservation with one number are the same.
LEMMA AttemptNumber ==
  ASSUME NEW r \in Reservations, NEW a \in AttemptsOf(r), NEW n, <<r, n>> \in Attempts
  PROVE  a[2] = n <=> a = <<r, n>>
  BY AttemptPair DEF AttemptsOf, ReservationOf

\* What is done to the row of a job leaves a row.
LEMMA JobRowKept ==
  ASSUME NEW j \in JobRow(Time), NEW d \in Time, NEW s \in {"pending", "running", "done", "dead"}
  PROVE  /\ EnqueuedOnce(j, d) \in JobRow(Time)
         /\ Enqueued(j, d) \in JobRow(Time)
         /\ Settled(j, s) \in JobRow(Time)
         /\ [j EXCEPT !.state = s] \in JobRow(Time)
<1>1. 0 \in Time
  BY BookingAssumption DEF Time
<1>2. \A e \in Time : JobAt(e) \in JobRow(Time)
  BY <1>1 DEF JobAt, JobRow
<1> QED
  BY <1>1, <1>2 DEF EnqueuedOnce, Enqueued, Settled, JobRow

\* expireActivePaymentAttempts leaves no attempt of r active, and touches no
\* other attempt and nothing but the status.
LEMMA ActiveExpiredFacts ==
  ASSUME NEW r \in Reservations,
         NEW as \in [Attempts -> [status : AttemptStatus, deadline : Time,
                                  kind : {"none", "winning", "late", "excess"}]]
  PROVE  /\ ActiveExpired(r, as) \in [Attempts -> [status : AttemptStatus,
              deadline : Time, kind : {"none", "winning", "late", "excess"}]]
         /\ \A a \in Attempts :
              /\ ActiveExpired(r, as)[a].kind = as[a].kind
              /\ ActiveExpired(r, as)[a].deadline = as[a].deadline
              /\ ActiveExpired(r, as)[a].status =
                   IF ReservationOf(a) = r /\ as[a].status \in Active
                   THEN "expired" ELSE as[a].status
              /\ ReservationOf(a) # r => ActiveExpired(r, as)[a] = as[a]
  BY DEF ActiveExpired, AttemptStatus

-----------------------------------------------------------------------------
(***************************************************************************)
(* Room nights                                                             *)
(***************************************************************************)

LEMMA HoldersFinite ==
  ASSUME NEW n \in Nights
  PROVE  IsFiniteSet(Holders(n)) /\ \A r \in Holders(n) : Rooms[r] \in Nat
  BY BookingAssumption, FS_Subset DEF Holders

\* One more reservation, or one less, that holds a night.
LEMMA HolderComesOrGoes ==
  ASSUME NEW H, IsFiniteSet(H), \A s \in H : Rooms[s] \in Nat, NEW r, Rooms[r] \in Nat
  PROVE  /\ r \notin H => SumOver(Rooms, H \cup {r}) = SumOver(Rooms, H) + Rooms[r]
         /\ r \in H => SumOver(Rooms, H \ {r}) = SumOver(Rooms, H) - Rooms[r]
<1>1. ASSUME r \notin H
      PROVE  SumOver(Rooms, H \cup {r}) = SumOver(Rooms, H) + Rooms[r]
  BY <1>1, SumAdd
<1>2. ASSUME r \in H
      PROVE  SumOver(Rooms, H \ {r}) = SumOver(Rooms, H) - Rooms[r]
  BY <1>2, SumRemove
<1> QED
  BY <1>1, <1>2

\* A step that changes neither the counters nor who holds rooms.
LEMMA NightsSame ==
  ASSUME NightsMatchReservations, UNCHANGED night,
         \A r \in Reservations :
           reservation'[r].status \in Holding <=> reservation[r].status \in Holding
  PROVE  NightsMatchReservations'
<1> SUFFICES ASSUME NEW n \in Nights
             PROVE  /\ night'[n].reserved = SumOver(Rooms, Holders(n)')
                    /\ night'[n].reserved <= night'[n].sellable
  BY DEF NightsMatchReservations
<1>1. Holders(n)' = Holders(n)
  BY DEF Holders
<1> QED
  BY <1>1 DEF NightsMatchReservations

\* A reservation that begins to hold its rooms reserves them.
LEMMA NightsReserved ==
  ASSUME TypeOK, NightsMatchReservations, NEW r \in Reservations, Reserve(r),
         reservation[r].status \notin Holding, reservation'[r].status \in Holding,
         \A s \in Reservations \ {r} : reservation'[s] = reservation[s]
  PROVE  /\ NightsMatchReservations'
         /\ night' \in [Nights -> [sellable : Nat, reserved : Nat]]
<1>1. ASSUME NEW n \in Nights
      PROVE  /\ night'[n] \in [sellable : Nat, reserved : Nat]
             /\ night'[n].reserved = SumOver(Rooms, Holders(n)')
             /\ night'[n].reserved <= night'[n].sellable
  <2>1. /\ night[n] \in [sellable : Nat, reserved : Nat] /\ Rooms[r] \in Nat
        /\ night[n].reserved = SumOver(Rooms, Holders(n))
        /\ night[n].reserved <= night[n].sellable
    BY BookingAssumption DEF TypeOK, NightsMatchReservations
  <2>2. CASE n \in Stay[r]
    <3>1. Holders(n)' = Holders(n) \cup {r} /\ r \notin Holders(n)
      BY <2>2 DEF Holders
    <3>2. SumOver(Rooms, Holders(n) \cup {r}) = SumOver(Rooms, Holders(n)) + Rooms[r]
      BY <2>1, <3>1, HoldersFinite, HolderComesOrGoes
    <3>3. /\ night'[n] = [night[n] EXCEPT !.reserved = @ + Rooms[r]]
          /\ night[n].sellable - night[n].reserved >= Rooms[r]
      BY <2>2 DEF Reserve
    <3>4. /\ night'[n].sellable = night[n].sellable
          /\ night'[n].reserved = night[n].reserved + Rooms[r]
          /\ night'[n] \in [sellable : Nat, reserved : Nat]
      BY <2>1, <3>3
    <3>5. SumOver(Rooms, Holders(n)') = night[n].reserved + Rooms[r]
      BY <2>1, <3>1, <3>2
    <3> QED
      BY <2>1, <3>3, <3>4, <3>5
  <2>3. CASE n \notin Stay[r]
    <3>1. Holders(n)' = Holders(n) /\ night'[n] = night[n]
      BY <2>3 DEF Holders, Reserve
    <3> QED
      BY <2>1, <3>1
  <2> QED
    BY <2>2, <2>3
<1>2. night' = [n \in Nights |-> night'[n]]
  BY DEF Reserve
<1> QED
  BY <1>1, <1>2 DEF NightsMatchReservations

\* A reservation that ends gives its rooms back.
LEMMA NightsReleased ==
  ASSUME TypeOK, NightsMatchReservations, NEW r \in Reservations, Release(r),
         reservation[r].status \in Holding, reservation'[r].status \notin Holding,
         \A s \in Reservations \ {r} : reservation'[s] = reservation[s]
  PROVE  /\ NightsMatchReservations'
         /\ night' \in [Nights -> [sellable : Nat, reserved : Nat]]
<1>1. ASSUME NEW n \in Nights
      PROVE  /\ night'[n] \in [sellable : Nat, reserved : Nat]
             /\ night'[n].reserved = SumOver(Rooms, Holders(n)')
             /\ night'[n].reserved <= night'[n].sellable
  <2>1. /\ night[n] \in [sellable : Nat, reserved : Nat] /\ Rooms[r] \in Nat
        /\ night[n].reserved = SumOver(Rooms, Holders(n))
        /\ night[n].reserved <= night[n].sellable
    BY BookingAssumption DEF TypeOK, NightsMatchReservations
  <2>2. CASE n \in Stay[r]
    <3>1. Holders(n)' = Holders(n) \ {r} /\ r \in Holders(n)
      BY <2>2 DEF Holders
    <3>2. SumOver(Rooms, Holders(n) \ {r}) = SumOver(Rooms, Holders(n)) - Rooms[r]
      BY <2>1, <3>1, HoldersFinite, HolderComesOrGoes
    <3>3. /\ night'[n] = [night[n] EXCEPT !.reserved = @ - Rooms[r]]
          /\ night[n].reserved >= Rooms[r]
      BY <2>2 DEF Release
    <3>4. /\ night'[n].sellable = night[n].sellable
          /\ night'[n].reserved = night[n].reserved - Rooms[r]
          /\ night'[n] \in [sellable : Nat, reserved : Nat]
      BY <2>1, <3>3
    <3>5. SumOver(Rooms, Holders(n)') = night[n].reserved - Rooms[r]
      BY <2>1, <3>1, <3>2
    <3> QED
      BY <2>1, <3>3, <3>4, <3>5
  <2>3. CASE n \notin Stay[r]
    <3>1. Holders(n)' = Holders(n) /\ night'[n] = night[n]
      BY <2>3 DEF Holders, Release
    <3> QED
      BY <2>1, <3>1
  <2> QED
    BY <2>2, <2>3
<1>2. night' = [n \in Nights |-> night'[n]]
  BY DEF Release
<1> QED
  BY <1>1, <1>2 DEF NightsMatchReservations

-----------------------------------------------------------------------------
(***************************************************************************)
(* Steps                                                                   *)
(***************************************************************************)

\* A step of one reservation leaves the others and their attempts as they are,
\* and gives nobody an answer for an attempt of theirs.
LEMMA OneReservationMoves ==
  ASSUME IInv, NEW r \in Reservations,
         \A s \in Reservations \ {r} : reservation'[s] = reservation[s],
         \A a \in Attempts : ReservationOf(a) # r =>
           /\ attempt'[a] = attempt[a] /\ refund'[a] = refund[a]
           /\ a \in initiated' => a \in initiated
           /\ \A res \in Result : <<a, res>> \in answers' => <<a, res>> \in answers,
         ReservationOK(r)',
         \A a \in AttemptsOf(r) : AttemptOK(a)'
  PROVE  /\ \A s \in Reservations : ReservationOK(s)'
         /\ \A a \in Attempts : AttemptOK(a)'
<1>1. ASSUME NEW s \in Reservations, s # r PROVE ReservationOK(s)'
  <2>1. ReservationOK(s) /\ reservation'[s] = reservation[s]
    BY <1>1 DEF IInv
  <2>2. \A a \in AttemptsOf(s) : attempt'[a] = attempt[a]
    BY <1>1 DEF AttemptsOf
  <2>3. ActiveOf(s)' = ActiveOf(s)
    BY <2>2 DEF ActiveOf
  <2> QED
    BY <2>1, <2>2, <2>3 DEF ReservationOK
<1>2. ASSUME NEW a \in Attempts, ReservationOf(a) # r PROVE AttemptOK(a)'
  <2>1. AttemptOK(a) /\ reservation'[ReservationOf(a)] = reservation[ReservationOf(a)]
    BY <1>2, AttemptPair DEF IInv
  <2> QED
    BY <1>2, <2>1 DEF AttemptOK
<1> QED
  BY <1>1, <1>2, AttemptsOfReservation

\* A step that leaves every reservation and attempt as they are, and gives no
\* answer for an attempt that was not made.
LEMMA NoReservationMoves ==
  ASSUME IInv, UNCHANGED <<reservation, attempt, refund>>,
         \A a \in Attempts : attempt[a].status = "none" =>
           /\ a \in initiated' => a \in initiated
           /\ \A res \in Result : <<a, res>> \in answers' => <<a, res>> \in answers
  PROVE  /\ \A s \in Reservations : ReservationOK(s)'
         /\ \A a \in Attempts : AttemptOK(a)'
  BY DEF IInv, ReservationOK, AttemptOK, ActiveOf

AttemptRow == [status : AttemptStatus, deadline : Time,
               kind : {"none", "winning", "late", "excess"}]
ReservationRow == [status : ReservationStatus, deadline : Time, credential : Time,
                   winner : Nat]

\* Two columns of a row set, and the others left.
LEMMA ConfirmedRow ==
  ASSUME NEW R \in ReservationRow, NEW w \in Nat
  PROVE  LET R1 == [R EXCEPT !.status = "confirmed", !.winner = w]
         IN  R1 \in ReservationRow /\ R1.status = "confirmed" /\ R1.winner = w
  BY DEF ReservationRow, ReservationStatus, Holding

LEMMA PaidRow ==
  ASSUME NEW A \in AttemptRow, NEW k \in {"none", "winning", "late", "excess"}
  PROVE  LET A1 == [A EXCEPT !.status = "succeeded", !.kind = k]
         IN  A1 \in AttemptRow /\ A1.status = "succeeded" /\ A1.kind = k
  BY DEF AttemptRow, AttemptStatus, Active

LEMMA InstructedRow ==
  ASSUME NEW A \in AttemptRow, NEW d \in Time
  PROVE  LET A1 == [A EXCEPT !.status = "awaiting_payment", !.deadline = d]
         IN  A1 \in AttemptRow /\ A1.status = "awaiting_payment" /\ A1.kind = A.kind
  BY DEF AttemptRow, AttemptStatus, Active

\* What IInv says of the rows of one reservation and of its attempts.
LEMMA Rows ==
  ASSUME IInv, NEW r \in Reservations
  PROVE  /\ reservation[r] \in ReservationRow /\ ReservationOK(r)
         /\ reservation \in [Reservations -> ReservationRow]
         /\ attempt \in [Attempts -> AttemptRow]
         /\ refund \in [Attempts -> Nat]
         /\ \A a \in AttemptsOf(r) :
              a \in Attempts /\ ReservationOf(a) = r /\ AttemptOK(a)
  BY DEF IInv, TypeOK, ReservationRow, AttemptRow, AttemptsOf

LEMMA InitInv == Init => IInv
<1> SUFFICES ASSUME Init PROVE IInv
  OBVIOUS
<1>1. 0 \in Time /\ Sellable \in Nat
  BY BookingAssumption DEF Time
<1>2. NoJob \in JobRow(Time)
  BY <1>1 DEF NoJob, JobRow
<1>3. TypeOK
  BY <1>1, <1>2 DEF Init, TypeOK, ReservationStatus, AttemptStatus
<1>4. ASSUME NEW r \in Reservations PROVE ReservationOK(r)
  <2>1. \A a \in AttemptsOf(r) : attempt[a].status = "none"
    BY DEF Init, AttemptsOf
  <2>2. ActiveOf(r) = {}
    BY <2>1 DEF ActiveOf, Active
  <2> QED
    BY <2>1, <2>2 DEF Init, ReservationOK
<1>5. ASSUME NEW a \in Attempts PROVE AttemptOK(a)
  BY AttemptPair, BookingAssumption DEF Init, AttemptOK
<1>6. ASSUME NEW n \in Nights
      PROVE  night[n].reserved = SumOver(Rooms, Holders(n)) /\ night[n].reserved <= night[n].sellable
  <2>1. Holders(n) = {}
    BY DEF Holders, Init, Holding
  <2> QED
    BY <1>1, <2>1, SumEmpty DEF Init
<1> QED
  BY <1>3, <1>4, <1>5, <1>6 DEF IInv, NightsMatchReservations

LEMMA CreateStep ==
  ASSUME IInv, NEW r \in Reservations, NEW t \in Begun, Create(r, t)
  PROVE  IInv'
<1> DEFINE d == t + Window
<1>1. d \in Time
  BY BookingAssumption DEF Create, Begun, Time
<1>2. /\ reservation'[r] = [status |-> "pending_payment", deadline |-> d,
                            credential |-> d, winner |-> 0]
      /\ reservation' = [reservation EXCEPT ![r] = reservation'[r]]
      /\ UNCHANGED <<attempt, refund, expired, calls, clock>>
  BY Rows DEF Create
<1>3. \A a \in AttemptsOf(r) : attempt[a].status = "none"
  BY Rows DEF Create, ReservationOK
<1>4. ReservationOK(r)'
  <2>1. ActiveOf(r)' = {}
    BY <1>2, <1>3 DEF ActiveOf, Active
  <2> QED
    BY <1>2, <1>3, <2>1 DEF ReservationOK
<1>5. ASSUME NEW a \in AttemptsOf(r) PROVE AttemptOK(a)'
  BY <1>2, <1>3, Rows, AttemptPair DEF AttemptOK, calls
<1>6. NightsMatchReservations' /\ night' \in [Nights -> [sellable : Nat, reserved : Nat]]
  BY <1>2, NightsReserved DEF IInv, Create, Holding
<1>7. TypeOK'
  <2>1. reservation'[r] \in ReservationRow
    BY <1>1, <1>2, Rows DEF ReservationRow, ReservationStatus, Holding
  <2>2. reservation' \in [Reservations -> ReservationRow]
    BY <1>2, <2>1, Rows
  <2>3. expiry' \in [Reservations -> JobRow(Time)]
    BY <1>1, JobRowKept DEF Create, IInv, TypeOK
  <2> QED
    BY <1>2, <1>6, <2>2, <2>3 DEF IInv, TypeOK, ReservationRow, calls
<1>8. /\ \A s \in Reservations \ {r} : reservation'[s] = reservation[s]
      /\ attempt' = attempt /\ refund' = refund
      /\ initiated' = initiated /\ answers' = answers
  BY <1>2, Rows DEF calls
<1>9. /\ \A s \in Reservations : ReservationOK(s)'
      /\ \A a \in Attempts : AttemptOK(a)'
  BY <1>4, <1>5, <1>8, OneReservationMoves
<1> QED
  BY <1>6, <1>7, <1>9 DEF IInv

\* The attempt that StartPayment makes: whatever came before it is over.
LEMMA StartPaymentStep ==
  ASSUME IInv, NEW r \in Reservations, NEW t \in Begun, StartPayment(r, t)
  PROVE  IInv'
<1> DEFINE a == <<r, 1 + Cardinality({b \in AttemptsOf(r) : attempt[b].status # "none"})>>
           new == [status |-> "created", deadline |-> reservation[r].deadline,
                   kind |-> "none"]
<1>1. /\ a \in Attempts /\ ReservationOf(a) = r
      /\ attempt' = [ActiveExpired(r, attempt) EXCEPT ![a] = new]
      /\ reservation[r].status = "pending_payment"
      /\ pay' = pay \cup {a}
      /\ UNCHANGED <<reservation, refund, night, expiry, expired, initiated,
                     answers, clock>>
  BY DEF StartPayment, ReservationOf
<1> HIDE DEF a
<1>2. /\ ActiveExpired(r, attempt) \in [Attempts -> AttemptRow]
      /\ \A b \in Attempts :
           /\ ActiveExpired(r, attempt)[b].kind = attempt[b].kind
           /\ ActiveExpired(r, attempt)[b].status =
                IF ReservationOf(b) = r /\ attempt[b].status \in Active
                THEN "expired" ELSE attempt[b].status
           /\ ReservationOf(b) # r => ActiveExpired(r, attempt)[b] = attempt[b]
  BY Rows, ActiveExpiredFacts DEF AttemptRow
<1>3. new \in AttemptRow
  BY Rows DEF AttemptRow, ReservationRow, AttemptStatus, Active
<1>4. attempt' \in [Attempts -> AttemptRow]
  BY <1>1, <1>2, <1>3
<1>5. /\ attempt'[a] = new
      /\ \A b \in Attempts \ {a} : attempt'[b] = ActiveExpired(r, attempt)[b]
  BY <1>1, <1>2
<1>6. ReservationOK(r)'
  <2>1. ActiveOf(r)' = {a}
    BY <1>1, <1>2, <1>5 DEF ActiveOf, Active, AttemptsOf
  <2>2. \A b \in AttemptsOf(r) : attempt'[b].status # "succeeded"
    <3>1. \A b \in AttemptsOf(r) : b \in Attempts /\ attempt[b].status # "succeeded"
      BY <1>1, Rows DEF ReservationOK
    <3> QED
      BY <1>2, <1>5, <3>1
  <2> QED
    BY <1>1, <2>1, <2>2, Rows DEF ReservationOK
<1>7. ASSUME NEW b \in AttemptsOf(r) PROVE AttemptOK(b)'
  <2>1. b \in Attempts /\ ReservationOf(b) = r /\ AttemptOK(b) /\ b[2] # 0
    BY Rows, AttemptPair
  <2>2. attempt[b].status # "succeeded" /\ reservation[r].winner = 0
    BY <1>1, Rows DEF ReservationOK
  <2>3. attempt[b].kind = "none" /\ refund[b] = 0
    BY <2>1, <2>2 DEF AttemptOK
  <2>4. attempt'[b].kind = "none" /\ attempt'[b].status # "succeeded"
    BY <1>2, <1>5, <2>1, <2>2, <2>3
  <2>5. attempt'[b].status = "none" => attempt[b].status = "none"
    BY <1>2, <1>5, <2>1
  <2> QED
    BY <1>1, <2>1, <2>2, <2>3, <2>4, <2>5, BookingAssumption DEF AttemptOK
<1>8. TypeOK'
  BY <1>1, <1>4 DEF IInv, TypeOK, AttemptRow
<1>9. NightsMatchReservations'
  BY <1>1, NightsSame DEF IInv
<1> QED
  BY <1>1, <1>2, <1>5, <1>6, <1>7, <1>8, <1>9, OneReservationMoves DEF IInv

LEMMA CancelStep ==
  ASSUME IInv, NEW r \in Reservations, NEW amount \in 0..Price, Cancel(r, amount)
  PROVE  IInv'
<1> DEFINE w == <<r, reservation[r].winner>>
<1>1. /\ attempt' = ActiveExpired(r, attempt)
      /\ reservation' = [reservation EXCEPT ![r].status = "cancelled"]
      /\ reservation[r].status \in Holding
      /\ UNCHANGED <<expiry, expired, pay, initiated, answers, clock>>
  BY DEF Cancel, calls
<1>2. /\ attempt' \in [Attempts -> AttemptRow]
      /\ \A b \in Attempts :
           /\ attempt'[b].kind = attempt[b].kind
           /\ attempt'[b].status =
                IF ReservationOf(b) = r /\ attempt[b].status \in Active
                THEN "expired" ELSE attempt[b].status
           /\ ReservationOf(b) # r => attempt'[b] = attempt[b]
  BY <1>1, Rows, ActiveExpiredFacts DEF AttemptRow
<1>3. /\ reservation'[r] \in ReservationRow
      /\ reservation'[r].status = "cancelled"
      /\ reservation'[r].winner = reservation[r].winner
      /\ reservation' \in [Reservations -> ReservationRow]
      /\ \A s \in Reservations \ {r} : reservation'[s] = reservation[s]
  BY <1>1, Rows DEF ReservationRow, ReservationStatus
<1>4. /\ refund' \in [Attempts -> Nat]
      /\ \A b \in Attempts : b # w => refund'[b] = refund[b]
      /\ \A b \in Attempts : refund'[b] \in {refund[b], amount}
  <2>1. CASE amount = 0
    BY <2>1, Rows DEF Cancel
  <2>2. CASE amount # 0
    <3>1. /\ refund' = [refund EXCEPT ![w] = amount]
          /\ amount \in Nat
      BY <2>2, BookingAssumption DEF Cancel
    <3> QED
      BY <3>1, Rows
  <2> QED
    BY <2>1, <2>2
<1>5. ReservationOK(r)'
  <2>1. ActiveOf(r)' = {}
    BY <1>2, Rows DEF ActiveOf, Active, AttemptsOf
  <2> QED
    BY <1>3, <2>1, Rows DEF ReservationOK
<1>6. ASSUME NEW b \in AttemptsOf(r) PROVE AttemptOK(b)'
  <2>1. b \in Attempts /\ ReservationOf(b) = r /\ AttemptOK(b) /\ b = <<r, b[2]>>
    BY Rows, AttemptPair
  <2>2. attempt[b].kind # "winning" => refund'[b] = refund[b]
    BY <1>4, <2>1 DEF AttemptOK
  <2>3. refund'[b] <= Price
    BY <1>4, <2>1, BookingAssumption DEF AttemptOK
  <2>4. /\ attempt'[b].kind = attempt[b].kind
        /\ attempt'[b].status = "succeeded" <=> attempt[b].status = "succeeded"
        /\ attempt'[b].status = "none" <=> attempt[b].status = "none"
    BY <1>2, <2>1 DEF Active
  <2> QED
    BY <1>1, <1>3, <2>1, <2>2, <2>3, <2>4 DEF AttemptOK
<1>7. NightsMatchReservations' /\ night' \in [Nights -> [sellable : Nat, reserved : Nat]]
  BY <1>1, <1>3, NightsReleased DEF IInv, Cancel, Holding
<1>8. TypeOK'
  BY <1>1, <1>2, <1>3, <1>4, <1>7 DEF IInv, TypeOK, AttemptRow, ReservationRow
<1>9. \A b \in Attempts : ReservationOf(b) # r => attempt'[b] = attempt[b] /\ refund'[b] = refund[b]
  BY <1>2, <1>4 DEF ReservationOf
<1>10. /\ \A s \in Reservations : ReservationOK(s)'
       /\ \A a \in Attempts : AttemptOK(a)'
  BY <1>1, <1>3, <1>5, <1>6, <1>9, OneReservationMoves
<1> QED
  BY <1>7, <1>8, <1>10 DEF IInv

-----------------------------------------------------------------------------
\* What is left alone, or only loses members, while an outcome is recorded.
OutcomeKeeps == /\ pay' \subseteq pay
                /\ answers' \subseteq answers
                /\ UNCHANGED <<expired, initiated, clock>>

LEMMA ConfirmedStep ==
  ASSUME IInv, NEW a \in Attempts, attempt[a].status # "none", Confirmed(a),
         OutcomeKeeps
  PROVE  IInv'
<1> DEFINE r == ReservationOf(a)
           paid == [attempt EXCEPT ![a] =
                      [@ EXCEPT !.status = "succeeded", !.kind = Success(a)]]
<1>1. /\ r \in Reservations /\ a \in AttemptsOf(r)
      /\ a = <<r, a[2]>> /\ a[2] \in Nat \ {0}
  BY AttemptPair DEF AttemptsOf
<1>2. Success(a) \in {"winning", "late", "excess"}
  BY DEF Success
<1>3. /\ paid \in [Attempts -> AttemptRow]
      /\ paid[a].status = "succeeded" /\ paid[a].kind = Success(a)
      /\ \A b \in Attempts \ {a} : paid[b] = attempt[b]
  <2>1. attempt \in [Attempts -> AttemptRow]
    BY <1>1, Rows
  <2> DEFINE A1 == [attempt[a] EXCEPT !.status = "succeeded", !.kind = Success(a)]
  <2>2. A1 \in AttemptRow /\ A1.status = "succeeded" /\ A1.kind = Success(a)
    <3>1. attempt[a] \in AttemptRow
      BY <2>1
    <3>2. Success(a) \in {"none", "winning", "late", "excess"}
      BY <1>2
    <3> QED
      BY <3>1, <3>2, PaidRow
  <2>3. paid = [attempt EXCEPT ![a] = A1]
    OBVIOUS
  <2> HIDE DEF A1, paid
  <2> QED
    BY <2>1, <2>2, <2>3
<1> HIDE DEF paid
<1>4. /\ attempt[a].status # "succeeded" /\ attempt[a].kind = "none"
      /\ a[2] # reservation[r].winner /\ refund[a] = 0
      /\ reservation[r].status # "none"
  BY <1>1, Rows DEF Confirmed, AttemptOK, ReservationOK
<1>5. /\ attempt' = IF Success(a) = "winning" THEN ActiveExpired(r, paid) ELSE paid
      /\ UNCHANGED <<night, expiry>>
  BY DEF Confirmed, paid
<1>6. CASE Success(a) = "winning"
  <2>1. /\ reservation[r].status = "pending_payment"
        /\ reservation[r].winner = 0
        /\ \A b \in AttemptsOf(r) : attempt[b].status # "succeeded" /\ attempt[b].kind = "none"
    <3>1. reservation[r].status = "pending_payment"
      BY <1>6 DEF Success
    <3> QED
      BY <1>1, <3>1, Rows DEF ReservationOK, AttemptOK
  <2>2. /\ reservation' = [reservation EXCEPT ![r] =
             [@ EXCEPT !.status = "confirmed", !.winner = a[2]]]
        /\ refund' = refund
    BY <1>6 DEF Confirmed
  <2>3. /\ reservation' \in [Reservations -> ReservationRow]
        /\ reservation'[r].status = "confirmed" /\ reservation'[r].winner = a[2]
        /\ \A s \in Reservations \ {r} : reservation'[s] = reservation[s]
    <3>1. reservation \in [Reservations -> ReservationRow]
      BY <1>1, Rows
    <3> DEFINE R1 == [reservation[r] EXCEPT !.status = "confirmed", !.winner = a[2]]
    <3>2. R1 \in ReservationRow /\ R1.status = "confirmed" /\ R1.winner = a[2]
      BY <1>1, <3>1, ConfirmedRow
    <3>3. reservation' = [reservation EXCEPT ![r] = R1]
      BY <2>2
    <3> HIDE DEF R1
    <3> QED
      BY <1>1, <3>1, <3>2, <3>3
  <2>4. /\ attempt' \in [Attempts -> AttemptRow]
        /\ \A b \in Attempts :
             /\ attempt'[b].kind = paid[b].kind
             /\ attempt'[b].status =
                  IF ReservationOf(b) = r /\ paid[b].status \in Active
                  THEN "expired" ELSE paid[b].status
             /\ ReservationOf(b) # r => attempt'[b] = paid[b]
    BY <1>1, <1>3, <1>5, <1>6, ActiveExpiredFacts DEF AttemptRow
  <2>5. ReservationOK(r)'
    <3>1. ActiveOf(r)' = {}
      BY <2>4 DEF ActiveOf, Active, AttemptsOf
    <3> QED
      BY <1>1, <2>3, <3>1 DEF ReservationOK
  <2>6. ASSUME NEW b \in AttemptsOf(r) PROVE AttemptOK(b)'
    <3>1. /\ b \in Attempts /\ ReservationOf(b) = r /\ AttemptOK(b)
          /\ b = <<r, b[2]>> /\ refund[b] = 0
      BY <1>1, <2>1, Rows, AttemptPair DEF AttemptOK
    <3>2. CASE b = a
      <4>1. attempt'[b].kind = "winning" /\ attempt'[b].status = "succeeded"
        BY <1>3, <1>6, <2>4, <3>1, <3>2 DEF Active
      <4> QED
        BY <2>2, <2>3, <3>1, <3>2, <4>1, BookingAssumption DEF AttemptOK
    <3>3. CASE b # a
      <4>1. paid[b] = attempt[b] /\ b[2] # a[2]
        BY <1>1, <1>3, <3>1, <3>3
      <4>2. /\ attempt'[b].kind = "none" /\ attempt'[b].status # "succeeded"
            /\ attempt'[b].status = "none" => attempt[b].status = "none"
        BY <2>1, <2>4, <3>1, <4>1
      <4> QED
        BY <2>2, <2>3, <3>1, <4>1, <4>2, BookingAssumption DEF AttemptOK, OutcomeKeeps
    <3> QED
      BY <3>2, <3>3
  <2>7. \A b \in Attempts : ReservationOf(b) # r => attempt'[b] = attempt[b]
    BY <1>3, <2>4
  <2>8. TypeOK'
    BY <1>5, <2>2, <2>3, <2>4 DEF IInv, TypeOK, AttemptRow, ReservationRow, OutcomeKeeps
  <2>9. NightsMatchReservations'
    BY <1>1, <1>5, <2>1, <2>3, NightsSame DEF IInv, Holding
  <2>10. /\ \A s \in Reservations : ReservationOK(s)'
         /\ \A b \in Attempts : AttemptOK(b)'
    BY <1>1, <2>2, <2>3, <2>5, <2>6, <2>7, OneReservationMoves DEF OutcomeKeeps
  <2> QED
    BY <2>8, <2>9, <2>10 DEF IInv
<1>7. CASE Success(a) \in {"late", "excess"}
  <2>1. /\ reservation' = reservation /\ attempt' = paid
        /\ refund' = [refund EXCEPT ![a] = Price]
    BY <1>5, <1>7 DEF Confirmed
  <2>2. reservation[r].status # "pending_payment"
    <3>1. CASE Winners(r) = {}
      BY <1>7, <3>1 DEF Success
    <3>2. CASE Winners(r) # {}
      <4>1. PICK b \in AttemptsOf(r) : attempt[b].kind = "winning"
        BY <3>2 DEF Winners
      <4>2. attempt[b].status = "succeeded"
        BY <1>1, <4>1, Rows DEF AttemptOK
      <4> QED
        BY <1>1, <4>2, Rows DEF ReservationOK
    <3> QED
      BY <3>1, <3>2
  <2>3. ReservationOK(r)'
    <3>1. ActiveOf(r)' \subseteq ActiveOf(r)
      BY <1>3, <2>1 DEF ActiveOf, Active, AttemptsOf
    <3> QED
      BY <1>1, <1>4, <2>1, <2>2, <3>1, Rows DEF ReservationOK
  <2>4. ASSUME NEW b \in AttemptsOf(r) PROVE AttemptOK(b)'
    <3>1. b \in Attempts /\ ReservationOf(b) = r /\ AttemptOK(b)
      BY <1>1, Rows
    <3>2. CASE b = a
      <4>1. attempt'[b].kind \in {"late", "excess"} /\ attempt'[b].status = "succeeded"
        BY <1>3, <1>7, <2>1, <3>2
      <4>2. refund'[b] = Price
        BY <2>1, <3>1, <3>2, <1>1, Rows
      <4> QED
        BY <1>4, <2>1, <3>1, <3>2, <4>1, <4>2, BookingAssumption DEF AttemptOK
    <3>3. CASE b # a
      <4>1. attempt'[b] = attempt[b] /\ refund'[b] = refund[b]
        BY <1>1, <1>3, <2>1, <3>1, <3>3, Rows
      <4> QED
        BY <2>1, <3>1, <4>1 DEF AttemptOK, OutcomeKeeps
    <3> QED
      BY <3>2, <3>3
  <2>5. \A b \in Attempts :
          ReservationOf(b) # r => attempt'[b] = attempt[b] /\ refund'[b] = refund[b]
    BY <1>1, <1>3, <2>1, Rows
  <2>6. TypeOK'
    BY <1>1, <1>3, <1>5, <2>1, Rows, BookingAssumption
    DEF IInv, TypeOK, AttemptRow, OutcomeKeeps
  <2>7. NightsMatchReservations'
    BY <1>5, <2>1, NightsSame DEF IInv
  <2>8. /\ \A s \in Reservations : ReservationOK(s)'
        /\ \A b \in Attempts : AttemptOK(b)'
    BY <1>1, <2>1, <2>3, <2>4, <2>5, OneReservationMoves DEF OutcomeKeeps
  <2> QED
    BY <2>6, <2>7, <2>8 DEF IInv
<1> QED
  BY <1>2, <1>6, <1>7

\* An outcome that is not a success moves one attempt under way of a pending
\* reservation, to a status that is no success.
LEMMA UnderWayMoves ==
  ASSUME IInv, NEW a \in Attempts, Current(a), OutcomeKeeps,
         attempt' \in [Attempts -> AttemptRow],
         \A b \in Attempts \ {a} : attempt'[b] = attempt[b],
         attempt'[a].kind = attempt[a].kind,
         attempt'[a].status \notin {"none", "succeeded"},
         reservation' \in [Reservations -> ReservationRow],
         \A s \in Reservations \ {ReservationOf(a)} : reservation'[s] = reservation[s],
         reservation'[ReservationOf(a)].status = "pending_payment",
         reservation'[ReservationOf(a)].winner = reservation[ReservationOf(a)].winner,
         expiry' \in [Reservations -> JobRow(Time)],
         UNCHANGED <<refund, night>>
  PROVE  IInv'
<1> DEFINE r == ReservationOf(a)
<1>1. /\ r \in Reservations /\ a \in AttemptsOf(r)
      /\ reservation[r].status = "pending_payment" /\ attempt[a].status \in Active
  BY AttemptPair DEF AttemptsOf, Current
<1>2. ReservationOK(r)'
  <2>1. ActiveOf(r)' \subseteq ActiveOf(r)
    BY <1>1 DEF ActiveOf, AttemptsOf
  <2>2. \A b \in AttemptsOf(r) : attempt'[b].status # "succeeded"
    <3>1. \A b \in AttemptsOf(r) : b \in Attempts /\ attempt[b].status # "succeeded"
      BY <1>1, Rows DEF ReservationOK
    <3> QED
      BY <3>1
  <2> QED
    BY <1>1, <2>1, <2>2, Rows DEF ReservationOK
<1>3. ASSUME NEW b \in AttemptsOf(r) PROVE AttemptOK(b)'
  <2>1. b \in Attempts /\ ReservationOf(b) = r /\ AttemptOK(b)
    BY <1>1, Rows
  <2>2. /\ attempt'[b].kind = attempt[b].kind
        /\ attempt'[b].status = "succeeded" <=> attempt[b].status = "succeeded"
        /\ attempt'[b].status = "none" => attempt[b].status = "none"
    BY <1>1, <2>1 DEF Active
  <2> QED
    BY <1>1, <2>1, <2>2 DEF AttemptOK, OutcomeKeeps
<1>4. TypeOK'
  BY DEF IInv, TypeOK, AttemptRow, ReservationRow, OutcomeKeeps
<1>5. NightsMatchReservations'
  BY <1>1, NightsSame DEF IInv
<1>6. \A b \in Attempts : ReservationOf(b) # r => attempt'[b] = attempt[b]
  OBVIOUS
<1>7. /\ \A s \in Reservations : ReservationOK(s)'
      /\ \A b \in Attempts : AttemptOK(b)'
  BY <1>1, <1>2, <1>3, <1>6, OneReservationMoves DEF OutcomeKeeps
<1> QED
  BY <1>4, <1>5, <1>7 DEF IInv

LEMMA InfoIssuedStep ==
  ASSUME IInv, NEW a \in Attempts, NEW e \in Time, NEW t \in Time, NEW origin,
         Current(a), InfoIssued(a, origin, e, t), OutcomeKeeps
  PROVE  IInv'
<1> DEFINE r == ReservationOf(a)
           f == Effective(a, origin, e)
           d == Max({f, reservation[r].deadline})
<1>1. r \in Reservations /\ reservation[r] \in ReservationRow /\ attempt[a] \in AttemptRow
  BY AttemptPair, Rows
<1>2. reservation[r].deadline \in Time
  BY <1>1 DEF ReservationRow
<1>3. f \in Time
  <2>1. e \in Int /\ reservation[r].deadline \in Int
    BY <1>2, BookingAssumption DEF Time
  <2>2. Min({e, reservation[r].deadline}) \in {e, reservation[r].deadline}
    BY <2>1, MaxMinOfTwo
  <2> QED
    BY <1>2, <2>2 DEF Effective
<1>4. d \in Time
  BY <1>2, <1>3, MaxMinOfTwo, BookingAssumption DEF Time
<1> DEFINE A1 == [attempt[a] EXCEPT !.status = "awaiting_payment", !.deadline = f]
<1>5. A1 \in AttemptRow /\ A1.status = "awaiting_payment" /\ A1.kind = attempt[a].kind
  <2> HIDE DEF f
  <2> QED
    BY <1>1, <1>3, InstructedRow
<1>6. /\ attempt' = [attempt EXCEPT ![a] = A1]
      /\ reservation' = [reservation EXCEPT ![r].deadline = d]
      /\ expiry' = [expiry EXCEPT ![r] = Enqueued(@, d)]
      /\ UNCHANGED <<refund, night>>
  BY DEF InfoIssued
<1> HIDE DEF A1, d, f
<1>7. /\ attempt' \in [Attempts -> AttemptRow]
      /\ attempt'[a] = A1
      /\ \A b \in Attempts \ {a} : attempt'[b] = attempt[b]
  BY <1>1, <1>5, <1>6, Rows
<1>8. /\ reservation' \in [Reservations -> ReservationRow]
      /\ reservation'[r].status = reservation[r].status
      /\ reservation'[r].winner = reservation[r].winner
      /\ \A s \in Reservations \ {r} : reservation'[s] = reservation[s]
  BY <1>1, <1>4, <1>6, Rows DEF ReservationRow
<1>9. expiry' \in [Reservations -> JobRow(Time)]
  BY <1>1, <1>4, <1>6, JobRowKept DEF IInv, TypeOK
<1> QED
  BY <1>5, <1>6, <1>7, <1>8, <1>9, UnderWayMoves DEF Current

\* applyPaymentOutcome keeps the invariant, whatever the result and its origin.
LEMMA OutcomeStep ==
  ASSUME IInv, NEW a \in Attempts, NEW res \in Result, NEW origin, NEW t \in Time,
         attempt[a].status # "none", ApplyPaymentOutcome(a, res, origin, t), OutcomeKeeps
  PROVE  IInv'
<1>1. CASE Confirmed(a)
  BY <1>1, ConfirmedStep
<1>2. CASE /\ res.kind = "awaiting_payment" /\ Current(a)
           /\ InfoIssued(a, origin, res.expiresAt, t)
  <2>1. res.expiresAt \in Time
    BY <1>2 DEF Result
  <2> QED
    BY <1>2, <2>1, InfoIssuedStep
<1>3. CASE /\ res.kind \in {"failed", "redirect"} /\ Current(a)
           /\ attempt' = [attempt EXCEPT ![a].status =
                IF res.kind = "failed" THEN "failed" ELSE "submitted"]
           /\ UNCHANGED <<reservation, refund, night, expiry>>
  <2>1. ReservationOf(a) \in Reservations /\ attempt \in [Attempts -> AttemptRow]
    BY AttemptPair, Rows
  <2>2. /\ attempt' \in [Attempts -> AttemptRow]
        /\ \A b \in Attempts \ {a} : attempt'[b] = attempt[b]
        /\ attempt'[a].kind = attempt[a].kind
        /\ attempt'[a].status \in {"failed", "submitted"}
    BY <1>3, <2>1 DEF AttemptRow, AttemptStatus, Active
  <2>3. reservation \in [Reservations -> ReservationRow] /\ expiry \in [Reservations -> JobRow(Time)]
    BY <2>1, Rows DEF IInv, TypeOK
  <2> QED
    BY <1>3, <2>2, <2>3, UnderWayMoves DEF Current
<1> QED
  BY <1>1, <1>2, <1>3 DEF ApplyPaymentOutcome

LEMMA CallbackStep ==
  ASSUME IInv, NEW a \in Attempts, NEW res \in Result, NEW t \in Begun,
         Callback(a, res, t)
  PROVE  IInv'
<1>1. attempt[a].status # "none"
  BY DEF Callback, IInv, AttemptOK
<1>2. OutcomeKeeps
  BY DEF Callback, OutcomeKeeps, calls
<1>3. t \in Time /\ ApplyPaymentOutcome(a, res, "verified-callback", t)
  BY DEF Callback, Begun
<1> QED
  BY <1>1, <1>2, <1>3, OutcomeStep

-----------------------------------------------------------------------------
\* A step that books nothing, and answers for no attempt that was not made.
LEMMA NothingBooked ==
  ASSUME IInv, UNCHANGED booked, TypeOK',
         \A a \in Attempts : attempt[a].status = "none" =>
           /\ a \in initiated' => a \in initiated
           /\ \A res \in Result : <<a, res>> \in answers' => <<a, res>> \in answers
  PROVE  IInv'
<1>1. NightsMatchReservations'
  BY NightsSame DEF IInv, booked
<1>2. /\ \A s \in Reservations : ReservationOK(s)'
      /\ \A a \in Attempts : AttemptOK(a)'
  BY NoReservationMoves DEF booked
<1> QED
  BY <1>1, <1>2 DEF IInv

LEMMA RecordStep ==
  ASSUME IInv, NEW a \in Attempts, NEW res \in Result, NEW t \in Begun,
         Record(a, res, t)
  PROVE  IInv'
<1>1. attempt[a].status # "none"
  BY DEF Record, IInv, AttemptOK
<1>2. OutcomeKeeps
  BY DEF Record, OutcomeKeeps
<1>3. t \in Time
  BY DEF Begun
<1>4. CASE UNCHANGED <<booked, expiry>>
  <2>1. TypeOK'
    BY <1>2, <1>4 DEF IInv, TypeOK, OutcomeKeeps, booked
  <2> QED
    BY <1>2, <1>4, <2>1, NothingBooked DEF OutcomeKeeps
<1>5. CASE ApplyPaymentOutcome(a, res, "initiation", t)
  BY <1>1, <1>2, <1>3, <1>5, OutcomeStep
<1> QED
  BY <1>4, <1>5 DEF Record

LEMMA PaymentJobStep ==
  ASSUME IInv, NEW a \in Attempts, NEW res \in Result,
         Initiate(a, res) \/ SkipPayment(a) \/ LoseAnswer(a, res)
  PROVE  IInv'
<1>1. UNCHANGED <<booked, expiry, expired, clock>> /\ pay' \subseteq pay
  BY DEF Initiate, SkipPayment, LoseAnswer
<1>2. CASE Initiate(a, res)
  <2>1. attempt[a].status = "created"
    BY <1>2 DEF Initiate
  <2>2. initiated' = initiated \cup {a} /\ answers' = answers \cup {<<a, res>>}
    BY <1>2 DEF Initiate
  <2>3. TypeOK'
    BY <1>1, <2>2 DEF IInv, TypeOK, booked
  <2> QED
    BY <1>1, <2>1, <2>2, <2>3, NothingBooked
<1>3. CASE SkipPayment(a) \/ LoseAnswer(a, res)
  <2>1. initiated' = initiated /\ answers' \subseteq answers
    BY <1>3 DEF SkipPayment, LoseAnswer
  <2>2. TypeOK'
    BY <1>1, <2>1 DEF IInv, TypeOK, booked
  <2> QED
    BY <1>1, <2>1, <2>2, NothingBooked
<1> QED
  BY <1>2, <1>3

-----------------------------------------------------------------------------
\* What expire does to a reservation that it finds due.
LEMMA RunExpiryStep ==
  ASSUME IInv, NEW r \in Reservations, NEW t \in Begun, RunExpiry(r, t)
  PROVE  IInv'
<1>1. /\ expired' = expired \cup {<<r, expiry[r].at>>}
      /\ expired' \subseteq Reservations \X Time
      /\ UNCHANGED <<expiry, pay, initiated, answers, clock>>
  BY DEF RunExpiry, calls, IInv, TypeOK, JobRow
<1>2. CASE UNCHANGED booked
  <2>1. TypeOK'
    BY <1>1, <1>2 DEF IInv, TypeOK, booked
  <2> QED
    BY <1>1, <1>2, <2>1, NothingBooked
<1>3. CASE /\ reservation[r].status = "pending_payment"
           /\ attempt' = ActiveExpired(r, attempt)
           /\ reservation' = [reservation EXCEPT ![r].status = "expired"]
           /\ Release(r)
           /\ UNCHANGED refund
  <2>1. /\ attempt' \in [Attempts -> AttemptRow]
        /\ \A b \in Attempts :
             /\ attempt'[b].kind = attempt[b].kind
             /\ attempt'[b].status =
                  IF ReservationOf(b) = r /\ attempt[b].status \in Active
                  THEN "expired" ELSE attempt[b].status
             /\ ReservationOf(b) # r => attempt'[b] = attempt[b]
    BY <1>3, Rows, ActiveExpiredFacts DEF AttemptRow
  <2>2. /\ reservation'[r].status = "expired"
        /\ reservation'[r].winner = reservation[r].winner
        /\ reservation' \in [Reservations -> ReservationRow]
        /\ \A s \in Reservations \ {r} : reservation'[s] = reservation[s]
    BY <1>3, Rows DEF ReservationRow, ReservationStatus
  <2>3. ReservationOK(r)'
    <3>1. ActiveOf(r)' = {}
      BY <2>1 DEF ActiveOf, Active, AttemptsOf
    <3> QED
      BY <1>3, <2>2, <3>1, Rows DEF ReservationOK
  <2>4. ASSUME NEW b \in AttemptsOf(r) PROVE AttemptOK(b)'
    <3>1. b \in Attempts /\ ReservationOf(b) = r /\ AttemptOK(b)
      BY Rows
    <3>2. /\ attempt'[b].kind = attempt[b].kind
          /\ attempt'[b].status = "succeeded" <=> attempt[b].status = "succeeded"
          /\ attempt'[b].status = "none" <=> attempt[b].status = "none"
      BY <2>1, <3>1 DEF Active
    <3> QED
      BY <1>1, <1>3, <2>2, <3>1, <3>2 DEF AttemptOK
  <2>5. NightsMatchReservations' /\ night' \in [Nights -> [sellable : Nat, reserved : Nat]]
    BY <1>3, <2>2, NightsReleased DEF IInv, Holding
  <2>6. TypeOK'
    BY <1>1, <1>3, <2>1, <2>2, <2>5 DEF IInv, TypeOK, AttemptRow, ReservationRow
  <2>7. /\ \A s \in Reservations : ReservationOK(s)'
        /\ \A a \in Attempts : AttemptOK(a)'
    BY <1>1, <1>3, <2>1, <2>2, <2>3, <2>4, OneReservationMoves
  <2> QED
    BY <2>5, <2>6, <2>7 DEF IInv
<1> QED
  BY <1>2, <1>3 DEF RunExpiry, Expire

LEMMA ExpiryJobStep ==
  ASSUME IInv, NEW r \in Reservations,
         ClaimExpiry(r) \/ CompleteExpiry(r) \/ ExpiryFails(r) \/ RetryExpiry(r)
  PROVE  IInv'
<1>1. UNCHANGED <<booked, expired, calls, clock>>
  BY DEF ClaimExpiry, CompleteExpiry, ExpiryFails, RetryExpiry
<1>2. 0 \in Time /\ expiry \in [Reservations -> JobRow(Time)]
  BY BookingAssumption DEF Time, IInv, TypeOK
<1>3. expiry' \in [Reservations -> JobRow(Time)]
  <2>1. \A s \in {"pending", "running", "done", "dead"} :
          /\ Settled(expiry[r], s) \in JobRow(Time)
          /\ [expiry[r] EXCEPT !.state = s] \in JobRow(Time)
    BY <1>2, JobRowKept
  <2>2. \E j \in JobRow(Time) : expiry' = [expiry EXCEPT ![r] = j]
    BY <2>1 DEF ClaimExpiry, CompleteExpiry, ExpiryFails, RetryExpiry
  <2> QED
    BY <1>2, <2>2
<1>4. TypeOK'
  BY <1>1, <1>3 DEF IInv, TypeOK, booked, calls
<1> QED
  BY <1>1, <1>4, NothingBooked DEF calls

\* An operator's range of nights never sells fewer than are reserved.
LEMMA UpdateRoomNightsStep ==
  ASSUME IInv, NEW from \in Nights, NEW to \in Nights, NEW units \in 0..Sellable,
         UpdateRoomNights(from, to, units)
  PROVE  IInv'
<1>1. units \in Nat /\ Nights \subseteq Nat
  BY BookingAssumption
<1>2. UNCHANGED <<reservation, attempt, refund, expiry, expired, pay, initiated, answers, clock>>
  BY DEF UpdateRoomNights, calls
<1>3. ASSUME NEW n \in Nights
      PROVE  /\ night'[n] \in [sellable : Nat, reserved : Nat]
             /\ night'[n].reserved = night[n].reserved
             /\ night'[n].reserved <= night'[n].sellable
  <2>1. /\ night[n] \in [sellable : Nat, reserved : Nat]
        /\ night[n].reserved <= night[n].sellable
    BY DEF IInv, TypeOK, NightsMatchReservations
  <2>2. CASE n \in from..to
    <3>1. /\ night'[n] = [night[n] EXCEPT !.sellable = units]
          /\ units >= night[n].reserved
      BY <2>2 DEF UpdateRoomNights
    <3> QED
      BY <1>1, <2>1, <3>1
  <2>3. CASE n \notin from..to
    BY <2>1, <2>3 DEF UpdateRoomNights
  <2> QED
    BY <2>2, <2>3
<1>4. night' \in [Nights -> [sellable : Nat, reserved : Nat]]
  <2>1. night' = [n \in Nights |-> night'[n]]
    BY DEF UpdateRoomNights
  <2> QED
    BY <1>3, <2>1
<1>5. TypeOK'
  BY <1>2, <1>4 DEF IInv, TypeOK
<1>6. NightsMatchReservations'
  <2>1. \A n \in Nights : Holders(n)' = Holders(n)
    BY <1>2 DEF Holders
  <2> QED
    BY <1>3, <2>1 DEF IInv, NightsMatchReservations
<1>7. /\ \A s \in Reservations : ReservationOK(s)'
      /\ \A a \in Attempts : AttemptOK(a)'
  BY <1>2, NoReservationMoves
<1> QED
  BY <1>5, <1>6, <1>7 DEF IInv

LEMMA TickStep == IInv /\ Tick => IInv'
<1> SUFFICES ASSUME IInv, Tick PROVE IInv'
  OBVIOUS
<1>1. UNCHANGED <<booked, expiry, expired, calls>> /\ clock' \in Time
  BY BookingAssumption DEF Tick, IInv, TypeOK, Time
<1>2. TypeOK'
  BY <1>1 DEF IInv, TypeOK, booked, calls
<1> QED
  BY <1>1, <1>2, NothingBooked DEF calls

LEMMA NextInv == IInv /\ [Next]_vars => IInv'
<1> SUFFICES ASSUME IInv, [Next]_vars PROVE IInv'
  OBVIOUS
<1>1. CASE UNCHANGED vars
  <2>1. TypeOK'
    BY <1>1 DEF IInv, TypeOK, vars
  <2> QED
    BY <1>1, <2>1, NothingBooked DEF vars, booked
<1>2. ASSUME NEW r \in Reservations, ReservationStep(r) PROVE IInv'
  BY <1>2, CreateStep, StartPaymentStep, RunExpiryStep, CancelStep, ExpiryJobStep
  DEF ReservationStep
<1>3. ASSUME NEW a \in Attempts, AttemptStep(a) PROVE IInv'
  <2>1. CASE SkipPayment(a)
    <3>1. [kind |-> "confirmed"] \in Result
      BY DEF Result
    <3> QED
      BY <2>1, <3>1, PaymentJobStep
  <2>2. ASSUME NEW res \in Result, Initiate(a, res) \/ LoseAnswer(a, res) PROVE IInv'
    BY <2>2, PaymentJobStep
  <2>3. ASSUME NEW res \in Result, NEW t \in Begun,
               Record(a, res, t) \/ Callback(a, res, t)
        PROVE  IInv'
    BY <2>3, RecordStep, CallbackStep
  <2> QED
    BY <1>3, <2>1, <2>2, <2>3 DEF AttemptStep
<1>4. ASSUME NEW from \in Nights, NEW to \in Nights, NEW units \in 0..Sellable,
             UpdateRoomNights(from, to, units)
      PROVE  IInv'
  BY <1>4, UpdateRoomNightsStep
<1> QED
  BY <1>1, <1>2, <1>3, <1>4, TickStep DEF Next

\* The inductive invariant holds in every reachable state.
THEOREM BookingInvariant == Spec => []IInv
<1>1. Init => IInv
  BY InitInv
<1>2. IInv /\ [Next]_vars => IInv'
  BY NextInv
<1> QED
  BY <1>1, <1>2, PTL DEF Spec

-----------------------------------------------------------------------------
(***************************************************************************)
(* Theorems                                                                *)
(***************************************************************************)

\* Every column keeps its type: no counter of rooms and no refund is negative.
THEOREM BookingTypes == Spec => []TypeOK
<1>1. IInv => TypeOK
  BY DEF IInv
<1> QED
  BY <1>1, BookingInvariant, PTL

\* The rooms reserved of a night are exactly those of the reservations that hold
\* it, and never more than are sold.
THEOREM NightsAreHeldOnce == Spec => []NightsMatchReservations
<1>1. IInv => NightsMatchReservations
  BY DEF IInv
<1> QED
  BY <1>1, BookingInvariant, PTL

\* A set whose members are all equal has one member at most.
LEMMA AtMostOne ==
  ASSUME NEW S, \A a, b \in S : a = b
  PROVE  Cardinality(S) <= 1
<1>1. CASE S = {}
  BY <1>1, FS_EmptySet
<1>2. ASSUME NEW a \in S PROVE Cardinality(S) <= 1
  <2>1. S = {a}
    BY <1>2
  <2> QED
    BY <2>1, FS_Singleton
<1> QED
  BY <1>1, <1>2

\* The winner of a reservation is the one winning attempt, and a reservation has
\* at most one attempt under way, while it is pending.
THEOREM OnePaymentWins == Spec => []OneWinner
<1>1. IInv => OneWinner
  <2> SUFFICES ASSUME IInv, NEW r \in Reservations
               PROVE  /\ Winners(r) = {a \in AttemptsOf(r) : a[2] = reservation[r].winner}
                      /\ reservation[r].status = "confirmed" => reservation[r].winner > 0
                      /\ Cardinality(ActiveOf(r)) <=
                           IF reservation[r].status = "pending_payment" THEN 1 ELSE 0
    BY DEF OneWinner
  <2>1. Winners(r) = {a \in AttemptsOf(r) : a[2] = reservation[r].winner}
    BY Rows DEF Winners, AttemptOK
  <2>2. reservation[r].status = "confirmed" => reservation[r].winner > 0
    BY Rows DEF ReservationOK
  <2>3. CASE reservation[r].status = "pending_payment"
    <3>1. \A a, b \in ActiveOf(r) : a = b
      BY Rows DEF ReservationOK
    <3> QED
      BY <2>1, <2>2, <2>3, <3>1, AtMostOne
  <2>4. CASE reservation[r].status # "pending_payment"
    <3>1. ActiveOf(r) = {}
      BY <2>4, Rows DEF ReservationOK
    <3> QED
      BY <2>1, <2>2, <2>4, <3>1, FS_EmptySet
  <2> QED
    BY <2>3, <2>4
<1> QED
  BY <1>1, BookingInvariant, PTL

\* Of the successes of a reservation all but the winner are given back in full,
\* so what the shop keeps is what it keeps of the winner.
LEMMA KeptOfWinner ==
  ASSUME IInv, NEW r \in Reservations
  PROVE  Kept(r) = IF reservation[r].winner > 0
                   THEN Price - refund[<<r, reservation[r].winner>>] ELSE 0
<1> DEFINE S == {a \in AttemptsOf(r) : attempt[a].status = "succeeded"}
           f == [a \in Attempts |-> Price - refund[a]]
           w == <<r, reservation[r].winner>>
<1>1. \A a \in S : /\ a \in Attempts /\ AttemptOK(a) /\ ReservationOf(a) = r
                   /\ attempt[a].kind \in {"winning", "late", "excess"}
                   /\ a = <<r, a[2]>> /\ a[2] > 0
  BY Rows, AttemptPair DEF AttemptOK, AttemptRow
<1>2. \A a \in S : f[a] = Price - refund[a] /\ f[a] \in Nat
  BY <1>1, Rows, BookingAssumption DEF AttemptOK
<1>3. \A a \in S : a # w => f[a] = 0
  BY <1>1, <1>2, BookingAssumption DEF AttemptOK
<1>0. Kept(r) = SumOver(f, S)
  BY DEF Kept
<1>4. CASE reservation[r].winner > 0
  <2>1. w \in AttemptsOf(r)
    BY <1>4, Rows DEF ReservationOK, AttemptsOf, ReservationOf
  <2>2. w \in S
    BY <2>1, Rows DEF AttemptOK
  <2>3. SumOver(f, S) = f[w]
    <3> HIDE DEF f, S, w
    <3> QED
      BY <1>2, <1>3, <2>2, SumOfOne
  <2> HIDE DEF f, S
  <2>4. f[w] = Price - refund[w]
    BY <1>2, <2>2
  <2>5. Kept(r) = Price - refund[w]
    BY <1>0, <2>3, <2>4
  <2> QED
    BY <1>4, <2>5
<1>5. CASE ~(reservation[r].winner > 0)
  <2>1. \A a \in S : f[a] = 0
    BY <1>1, <1>3, <1>5
  <2>2. SumOver(f, S) = 0
    <3> HIDE DEF f, S
    <3> QED
      BY <2>1, SumOfNone
  <2> HIDE DEF f, S
  <2> QED
    BY <1>0, <1>5, <2>2
<1>6. reservation[r].winner \in Nat
  BY Rows DEF ReservationRow
<1> QED
  BY <1>4, <1>5, <1>6

\* The shop keeps the price of a confirmed reservation exactly once, and gives
\* back no more than it received.
THEOREM MoneyComesAndGoesOnce == Spec => []MoneyIsAccounted
<1>1. IInv => MoneyIsAccounted
  <2> SUFFICES ASSUME IInv, NEW r \in Reservations
               PROVE  /\ Kept(r) = Price \/ reservation[r].status # "confirmed"
                      /\ Kept(r) = 0 \/ reservation[r].status \in {"confirmed", "cancelled"}
                      /\ Kept(r) \in 0..IF reservation[r].winner > 0 THEN Price ELSE 0
                      /\ \A a \in AttemptsOf(r) :
                           refund[a] <= IF attempt[a].status = "succeeded" THEN Price ELSE 0
    BY DEF MoneyIsAccounted
  <2> DEFINE w == <<r, reservation[r].winner>>
  <2>1. \A a \in AttemptsOf(r) :
          refund[a] <= IF attempt[a].status = "succeeded" THEN Price ELSE 0
    BY Rows DEF AttemptOK
  <2>2. reservation[r].winner \in Nat /\ Price \in Nat
    BY Rows, BookingAssumption DEF ReservationRow
  <2>3. CASE reservation[r].winner > 0
    <3>1. w \in AttemptsOf(r) /\ ReservationOf(w) = r
      BY <2>3, Rows DEF ReservationOK, AttemptsOf, ReservationOf
    <3>2. /\ refund[w] \in Nat /\ refund[w] <= Price
          /\ reservation[r].status = "confirmed" => refund[w] = 0
          /\ reservation[r].status \in {"confirmed", "cancelled"}
      BY <2>3, <3>1, Rows DEF AttemptOK, ReservationOK, ReservationRow, ReservationStatus, Holding
    <3>3. Kept(r) = Price - refund[w]
      BY <2>3, KeptOfWinner
    <3> HIDE DEF w
    <3> QED
      BY <2>1, <2>2, <2>3, <3>2, <3>3
  <2>4. CASE ~(reservation[r].winner > 0)
    <3>1. Kept(r) = 0
      BY <2>4, KeptOfWinner
    <3>2. reservation[r].status # "confirmed"
      BY <2>4, Rows DEF ReservationOK
    <3> QED
      BY <2>1, <2>2, <2>4, <3>1, <3>2
  <2> QED
    BY <2>3, <2>4
<1> QED
  BY <1>1, BookingInvariant, PTL

\* A reservation expires only when the deadline it has then is over, whichever of
\* the expiry job and an extension got the lock first.
THEOREM NobodyExpiresEarly == Spec => ExpiresOnTime
<1>1. ASSUME IInv, [Next]_vars, NEW r \in Reservations,
             reservation[r].status # "expired", reservation'[r].status = "expired"
      PROVE  reservation[r].deadline <= clock
  <2>1. reservation' # reservation
    BY <1>1
  <2>2. ASSUME NEW s \in Reservations, ReservationStep(s)
        PROVE  reservation[r].deadline <= clock
    <3>1. ASSUME NEW t \in Begun, Create(s, t) PROVE FALSE
      BY <1>1, <3>1, Rows DEF Create
    <3>2. ASSUME NEW amount \in 0..Price, Cancel(s, amount) PROVE FALSE
      BY <1>1, <3>2, Rows DEF Cancel, ReservationRow
    <3>3. ASSUME NEW t \in Begun, RunExpiry(s, t) PROVE reservation[r].deadline <= clock
      <4>1. /\ reservation' = [reservation EXCEPT ![s].status = "expired"]
            /\ reservation[s].deadline = expiry[s].at /\ expiry[s].at <= t
        BY <2>1, <3>3 DEF RunExpiry, Expire, booked
      <4>2. s = r
        BY <1>1, <4>1, Rows
      <4> QED
        <5>1. t <= clock /\ t \in Int /\ clock \in Int
          BY <1>1, <3>3, BookingAssumption DEF Begun, Time, IInv, TypeOK
        <5>2. expiry[s].at \in Int
          BY <1>1, BookingAssumption DEF Time, IInv, TypeOK, JobRow
        <5> QED
          BY <4>1, <4>2, <5>1, <5>2
    <3>4. ASSUME NEW t \in Begun, StartPayment(s, t) PROVE FALSE
      BY <2>1, <3>4 DEF StartPayment
    <3>5. ASSUME ClaimExpiry(s) \/ CompleteExpiry(s) \/ ExpiryFails(s) \/ RetryExpiry(s)
          PROVE  FALSE
      BY <2>1, <3>5 DEF ClaimExpiry, CompleteExpiry, ExpiryFails, RetryExpiry, booked
    <3> QED
      BY <2>2, <3>1, <3>2, <3>3, <3>4, <3>5 DEF ReservationStep
  <2>3. ASSUME NEW a \in Attempts, AttemptStep(a) PROVE FALSE
    <3>1. ASSUME NEW res \in Result, NEW o, NEW t, ApplyPaymentOutcome(a, res, o, t)
          PROVE  FALSE
      <4>1. ReservationOf(a) \in Reservations
        BY AttemptPair
      <4>2. reservation \in [Reservations -> ReservationRow]
        BY <1>1, Rows
      <4>3. ASSUME Confirmed(a) PROVE FALSE
        <5>1. reservation' = [reservation EXCEPT ![ReservationOf(a)] =
                [@ EXCEPT !.status = "confirmed", !.winner = a[2]]]
          BY <2>1, <4>3 DEF Confirmed
        <5>2. a[2] \in Nat
          BY AttemptPair
        <5>3. [reservation[ReservationOf(a)] EXCEPT
                 !.status = "confirmed", !.winner = a[2]].status = "confirmed"
          BY <4>1, <4>2, <5>2, ConfirmedRow
        <5> QED
          BY <1>1, <4>1, <4>2, <5>1, <5>3
      <4>4. ASSUME NEW e, InfoIssued(a, o, e, t) PROVE FALSE
        <5>1. \A s \in Reservations : reservation'[s].status = reservation[s].status
          BY <4>1, <4>2, <4>4 DEF InfoIssued, ReservationRow
        <5> QED
          BY <1>1, <5>1
      <4> QED
        BY <2>1, <3>1, <4>3, <4>4 DEF ApplyPaymentOutcome
    <3> QED
      BY <2>1, <2>3, <3>1 DEF AttemptStep, SkipPayment, Initiate, LoseAnswer, Record, Callback, booked
  <2> QED
    BY <1>1, <2>1, <2>2, <2>3 DEF Next, Tick, UpdateRoomNights, booked, vars
<1>2. IInv /\ [Next]_vars =>
        [\A r \in Reservations :
           reservation[r].status # "expired" /\ reservation'[r].status = "expired" =>
             reservation[r].deadline <= clock]_vars
  BY <1>1
<1> QED
  BY <1>2, BookingInvariant, PTL DEF Spec, ExpiresOnTime
=============================================================================

---------------------- MODULE RecurringSchedulerProofs ----------------------
(***************************************************************************)
(* Theorems about RecurringScheduler: no occurrence passes in silence, and *)
(* a schedule that must not overlap does not pile up jobs, for any number   *)
(* of workers, schedules, releases and instants.                           *)
(***************************************************************************)
EXTENDS RecurringScheduler, FiniteSetTheorems, SequenceTheorems, TLAPS

-----------------------------------------------------------------------------
(***************************************************************************)
(* The newest of a set of instants                                         *)
(***************************************************************************)

\* Of the subsets that a function yields there is one that contains no other.
LEMMA LeastSubset ==
  ASSUME NEW S, IsFiniteSet(S), S # {}, NEW h \in [S -> SUBSET S]
  PROVE  \E m \in S : \A x \in S : <<h[x], h[m]>> \notin StrictSubsetOrdering(S)
<1> DEFINE F == {h[x] : x \in S}
<1>1. IsWellFoundedOn(StrictSubsetOrdering(S), SUBSET S)
  BY FS_StrictSubsetOrderingWellFounded, FS_FiniteSubsetsOfFinite
<1>2. F \subseteq SUBSET S /\ F # {}
  OBVIOUS
<1>3. PICK X \in F : \A Y \in F : <<Y, X>> \notin StrictSubsetOrdering(S)
  <2> HIDE DEF F
  <2> QED
    BY <1>1, <1>2, WFMin
<1> QED
  BY <1>3

\* A finite set of numbers that is not empty has a greatest one: a number with
\* the fewest numbers above it has none.
LEMMA MaxOf ==
  ASSUME NEW S, IsFiniteSet(S), S \subseteq Nat, S # {}
  PROVE  Max(S) \in S /\ \A x \in S : x <= Max(S)
<1> DEFINE above == [o \in S |-> {p \in S : p > o}]
<1>1. above \in [S -> SUBSET S]
  OBVIOUS
<1>2. PICK m \in S : \A x \in S :
                       <<above[x], above[m]>> \notin StrictSubsetOrdering(S)
  <2> HIDE DEF above
  <2> QED
    BY <1>1, LeastSubset
<1>3. ASSUME NEW x \in S, x > m
      PROVE  FALSE
  <2>1. above[x] \in SUBSET S /\ above[m] \in SUBSET S
    OBVIOUS
  <2>2. above[x] \subseteq above[m]
    <3>1. \A p \in S : p > x => p > m
      <4> x \in Nat /\ m \in Nat /\ \A p \in S : p \in Nat
        OBVIOUS
      <4> QED
        BY <1>3
    <3> QED
      BY <3>1
  <2>3. x \in above[m] /\ x \notin above[x]
    BY <1>3
  <2> HIDE DEF above
  <2> QED
    BY <1>2, <2>1, <2>2, <2>3 DEF StrictSubsetOrdering
<1>4. \A x \in S : m >= x
  BY <1>3
<1> HIDE DEF above
<1>5. Max(S) \in S /\ \A x \in S : Max(S) >= x
  BY <1>4 DEF Max
<1> QED
  BY <1>5

\* And it has a least one.
LEMMA LeastOf ==
  ASSUME NEW S, IsFiniteSet(S), S \subseteq Nat, S # {}
  PROVE  \E m \in S : \A x \in S : m <= x
<1> DEFINE below == [o \in S |-> {p \in S : p < o}]
<1>1. below \in [S -> SUBSET S]
  OBVIOUS
<1>2. PICK m \in S : \A x \in S :
                       <<below[x], below[m]>> \notin StrictSubsetOrdering(S)
  <2> HIDE DEF below
  <2> QED
    BY <1>1, LeastSubset
<1>3. ASSUME NEW x \in S, x < m
      PROVE  FALSE
  <2>1. below[x] \in SUBSET S /\ below[m] \in SUBSET S
    OBVIOUS
  <2>2. below[x] \subseteq below[m]
    <3>1. \A p \in S : p < x => p < m
      <4> x \in Nat /\ m \in Nat /\ \A p \in S : p \in Nat
        OBVIOUS
      <4> QED
        BY <1>3
    <3> QED
      BY <3>1
  <2>3. x \in below[m] /\ x \notin below[x]
    BY <1>3
  <2> HIDE DEF below
  <2> QED
    BY <1>2, <2>1, <2>2, <2>3 DEF StrictSubsetOrdering
<1> QED
  BY <1>3

\* The newest n of a set are at most n of it (catchUp in ensureOne).
LEMMA NewestBound ==
  ASSUME NEW S, IsFiniteSet(S), S \subseteq Nat, NEW n \in Nat
  PROVE  /\ Newest(S, n) \subseteq S
         /\ IsFiniteSet(Newest(S, n))
         /\ Cardinality(Newest(S, n)) <= n
<1> DEFINE N == Newest(S, n)
<1>1. N \subseteq S
  BY DEF Newest
<1>2. IsFiniteSet(N)
  BY <1>1, FS_Subset
<1>3. CASE N = {}
  <2>1. Cardinality(N) = 0
    BY <1>3, FS_EmptySet
  <2> QED
    BY <1>1, <1>2, <2>1
<1>4. CASE N # {}
  <2>1. PICK m \in N : \A x \in N : m <= x
    <3>1. N \subseteq Nat
      BY <1>1
    <3> HIDE DEF N
    <3> QED
      BY <1>2, <1>4, <3>1, LeastOf
  <2> DEFINE A == {p \in S : p > m}
  <2>2. Cardinality(A) < n
    BY DEF Newest
  <2>3. IsFiniteSet(A) /\ m \notin A
    <3>1. A \subseteq S
      OBVIOUS
    <3>2. m \in Nat
      BY <1>1
    <3>3. IsFiniteSet(A)
      <4> HIDE DEF A
      <4> QED
        BY <3>1, FS_Subset
    <3> QED
      BY <3>2, <3>3
  <2>4. N \subseteq A \cup {m}
    <3> SUFFICES ASSUME NEW x \in N, x # m PROVE x > m
      BY <1>1
    <3>1. x \in Nat /\ m \in Nat /\ m <= x
      BY <1>1, <2>1
    <3> QED
      BY <3>1
  <2> HIDE DEF A, N
  <2>5. IsFiniteSet(A \cup {m}) /\ Cardinality(A \cup {m}) = Cardinality(A) + 1
    BY <2>3, FS_AddElement
  <2>6. Cardinality(N) <= Cardinality(A \cup {m})
    BY <2>4, <2>5, FS_Subset
  <2>7. Cardinality(N) \in Nat /\ Cardinality(A) \in Nat
    BY <1>2, <2>3, FS_CardinalityType
  <2>8. Cardinality(N) <= n
    BY <2>2, <2>5, <2>6, <2>7
  <2> QED
    BY <1>1, <1>2, <2>8 DEF N
<1> QED
  BY <1>3, <1>4

-----------------------------------------------------------------------------
(***************************************************************************)
(* What a scan finds                                                       *)
(***************************************************************************)

Schedule == [known : BOOLEAN, declared : Declarations,
             watermark : Instants, paused : BOOLEAN]
States == {"none", "due", "retrying", "over"}

LEMMA InstantsFinite ==
  /\ IsFiniteSet(Instants) /\ Instants \subseteq Nat
  /\ \A S : S \subseteq Instants => IsFiniteSet(S) /\ S \subseteq Nat
<1>1. IsFiniteSet(Instants)
  BY FS_Interval, RecurringSchedulerAssumption DEF RecurringSchedulerAssumption, Instants
<1>2. Instants \subseteq Nat
  BY RecurringSchedulerAssumption DEF RecurringSchedulerAssumption, Instants
<1> QED
  BY <1>1, <1>2, FS_Subset

LEMMA OccurrencesFinite ==
  ASSUME NEW S, S \subseteq Occurrences
  PROVE  IsFiniteSet(S)
<1>1. IsFiniteSet(Formats \X Instants)
  BY InstantsFinite, FS_Product, RecurringSchedulerAssumption
     DEF RecurringSchedulerAssumption
<1> QED
  BY <1>1, FS_Subset DEF Occurrences

\* Declarations are of their type, and the initial one is.
LEMMA DeclarationsType ==
  /\ \A w \in Workers, t \in Types :
       /\ Declared[w][t] \in Declarations
       /\ Cardinality(Past(Declared[w][t], Start)) > 1
  /\ Undeclared \in Declarations
<1>1. (CHOOSE f \in Formats : TRUE) \in Formats
  BY RecurringSchedulerAssumption DEF RecurringSchedulerAssumption
<1>2. Undeclared \in Declarations
  BY <1>1 DEF Undeclared, Declarations
<1> QED
  BY <1>2, RecurringSchedulerAssumption DEF RecurringSchedulerAssumption

\* The key of an instant: two instants of a declaration have two.
LEMMA KeyOf ==
  ASSUME NEW D \in Declarations, NEW o \in Instants
  PROVE  /\ Key(D, o) \in Occurrences /\ Key(D, o)[2] = o
         /\ \A p \in Instants : Key(D, p) = Key(D, o) => p = o
BY DEF Declarations, Key, Occurrences

\* The keys of a set of instants are no more than the instants.
LEMMA KeysFit ==
  ASSUME NEW D, NEW S, IsFiniteSet(S)
  PROVE  /\ IsFiniteSet({Key(D, o) : o \in S})
         /\ Cardinality({Key(D, o) : o \in S}) <= Cardinality(S)
<1> DEFINE K == {Key(D, o) : o \in S}
           f == [o \in S |-> Key(D, o)]
<1>1. f \in Surjection(S, K)
  BY DEF Surjection
<1> HIDE DEF f, K
<1>2. IsFiniteSet(K) /\ Cardinality(K) <= Cardinality(S)
  BY <1>1, FS_Surjection
<1> QED
  BY <1>2 DEF K

\* So a set of them has at most as many as the instants it comes from.
LEMMA KeysBound ==
  ASSUME NEW D, NEW S, IsFiniteSet(S), NEW n \in Nat, Cardinality(S) <= n,
         NEW K, K \subseteq {Key(D, o) : o \in S}
  PROVE  IsFiniteSet(K) /\ Cardinality(K) <= n
<1> DEFINE all == {Key(D, o) : o \in S}
<1>1. IsFiniteSet(all) /\ Cardinality(all) <= Cardinality(S)
  BY KeysFit
<1> HIDE DEF all
<1>2. IsFiniteSet(K) /\ Cardinality(K) <= Cardinality(all)
  BY <1>1, FS_Subset DEF all
<1>3. /\ Cardinality(K) \in Nat /\ Cardinality(all) \in Nat
      /\ Cardinality(S) \in Nat
  BY <1>1, <1>2, FS_CardinalityType
<1> QED
  BY <1>1, <1>2, <1>3

\* Since the clock started there has been an occurrence before the current one
\* (coldStartWatermark yields no null), and it lies in the past.
LEMMA PreviousIsPast ==
  ASSUME NEW w \in Workers, NEW t \in Types, NEW now \in Start..Horizon
  PROVE  /\ Previous(Declared[w][t], now) \in Declared[w][t].at
         /\ Previous(Declared[w][t], now) \in Instants
         /\ Previous(Declared[w][t], now) <= now
<1> DEFINE D == Declared[w][t]
           P == Past(D, now)
           Q == P \ {Max(P)}
<1>1. D.at \subseteq Instants /\ Cardinality(Past(D, Start)) > 1
  BY DeclarationsType DEF Declarations
<1>2. Start \in Nat /\ now \in Nat /\ Start <= now
  BY RecurringSchedulerAssumption DEF RecurringSchedulerAssumption, Instants
<1>3. P \subseteq Instants /\ \A o \in P : o \in D.at /\ o <= now
  BY <1>1 DEF Past
<1>4. IsFiniteSet(P) /\ P \subseteq Nat
  <2> HIDE DEF P
  <2> QED
    BY <1>3, InstantsFinite
<1>5. Past(D, Start) \subseteq P
  <2> SUFFICES ASSUME NEW o \in D.at, o <= Start PROVE o <= now
    BY DEF Past
  <2>1. o \in Nat
    BY <1>1, InstantsFinite
  <2> QED
    BY <1>2, <2>1
<1>6. Cardinality(P) \in Nat /\ Cardinality(P) > 1
  <2> DEFINE B == Past(D, Start)
  <2>1. IsFiniteSet(B) /\ Cardinality(B) <= Cardinality(P)
    <3>1. B \subseteq P
      BY <1>5
    <3> HIDE DEF B, P
    <3> QED
      BY <1>4, <3>1, FS_Subset
  <2>2. Cardinality(B) \in Nat /\ Cardinality(P) \in Nat
    <3> HIDE DEF B, P
    <3> QED
      BY <1>4, <2>1, FS_CardinalityType
  <2>3. Cardinality(B) > 1
    BY <1>1
  <2> HIDE DEF B, P
  <2> QED
    BY <2>1, <2>2, <2>3
<1>7. Q # {}
  <2> SUFFICES ASSUME P \subseteq {Max(P)} PROVE FALSE
    OBVIOUS
  <2> HIDE DEF P
  <2>1. IsFiniteSet({Max(P)}) /\ Cardinality({Max(P)}) = 1
    BY FS_Singleton
  <2>2. Cardinality(P) <= 1
    BY <2>1, FS_Subset
  <2> QED
    BY <1>6, <2>2
<1>8. Q \subseteq P /\ IsFiniteSet(Q) /\ Q \subseteq Nat
  <2> HIDE DEF P
  <2> QED
    BY <1>4, FS_Subset
<1>9. Max(Q) \in Q
  <2> HIDE DEF Q
  <2> QED
    BY <1>7, <1>8, MaxOf
<1>10. Previous(D, now) = Max(Q)
  BY DEF Previous
<1> HIDE DEF P, Q
<1> QED
  BY <1>3, <1>8, <1>9, <1>10

\* lockRow answers with a row of this worker's declaration, the one that was
\* there or one that begins before the current occurrence.
LEMMA LockedRowIs ==
  ASSUME TypeOK, NEW w \in Workers, NEW t \in Types, NEW now \in Start..Horizon,
         NEW r, r = LockedRow(t, Declared[w][t], now)
  PROVE  /\ r \in Schedule /\ r.known /\ r.declared = Declared[w][t]
         /\ r.paused = row[t].paused
         /\ r = row[t] => row[t].known /\ row[t].declared = Declared[w][t]
         /\ r # row[t] => /\ r.watermark = Previous(Declared[w][t], now)
                          /\ ~(row[t].known /\ row[t].declared = Declared[w][t])
<1>1. Declared[w][t] \in Declarations
  BY DeclarationsType
<1>2. Previous(Declared[w][t], now) \in Instants
  BY PreviousIsPast
<1>3. row[t] \in Schedule
  BY DEF TypeOK, Schedule
<1>4. CASE row[t].known /\ row[t].declared = Declared[w][t]
  <2>1. r = row[t]
    BY <1>4 DEF LockedRow
  <2> QED
    BY <1>3, <1>4, <2>1
<1>5. CASE ~(row[t].known /\ row[t].declared = Declared[w][t])
  <2>1. r = [known |-> TRUE, declared |-> Declared[w][t],
             watermark |-> Previous(Declared[w][t], now), paused |-> row[t].paused]
    BY <1>5 DEF LockedRow, Anchor
  <2>2. r \in Schedule
    BY <1>1, <1>2, <1>3, <2>1 DEF Schedule
  <2>3. r # row[t]
    BY <1>5, <2>1
  <2> QED
    BY <2>1, <2>2, <2>3, <1>5
<1> QED
  BY <1>4, <1>5

\* What ensureOne does to its schedule: base is where it takes up the declaration.
Scanned(t, declared, now, base) ==
  /\ row'[t] \in Schedule /\ row'[t].known /\ row'[t].declared = declared
  /\ row'[t].paused = row[t].paused
  /\ base \in Instants /\ base <= row'[t].watermark
  /\ \/ row[t].known /\ row[t].declared = declared
        /\ base = row[t].watermark /\ since'[t] = since[t]
     \/ ~(row[t].known /\ row[t].declared = declared)
        /\ since'[t] = base
  /\ skipped'[t] \in SUBSET Occurrences /\ skipped[t] \subseteq skipped'[t]
  /\ job'[t] \in [Occurrences -> States]
  /\ \A k \in Occurrences :
       \/ job'[t][k] = job[t][k]
       \/ /\ job[t][k] = "none" /\ job'[t][k] = "due"
          /\ ~row[t].paused
          /\ k[2] <= row'[t].watermark
  /\ \A o \in declared.at :
       base < o /\ o <= row'[t].watermark =>
         job'[t][Key(declared, o)] # "none" \/ Key(declared, o) \in skipped'[t]

\* The set that a scan enqueues: the newest, while no job of the type is open.
Fits(t, declared, now, base) ==
  \E all \in SUBSET Instants :
    /\ \A o \in all : base < o /\ o <= now
    /\ \A k \in Occurrences : job'[t][k] # job[t][k] =>
         \E o \in Newest(all, CatchUp[t]) : k = Key(declared, o)
    /\ (\E k \in Occurrences : job'[t][k] # job[t][k]) /\ t \in SkipsOverlap
         => ~HasActiveJob(t, now) /\ all # {}

LEMMA EnsureOneScans ==
  ASSUME TypeOK, NEW w \in Workers, NEW t \in Types, NEW now \in Start..Horizon,
         EnsureOne(t, Declared[w][t], now)
  PROVE  /\ row' = [row EXCEPT ![t] = row'[t]] /\ job' = [job EXCEPT ![t] = job'[t]]
         /\ skipped' = [skipped EXCEPT ![t] = skipped'[t]]
         /\ since' = [since EXCEPT ![t] = since'[t]]
         /\ \E base \in Instants : /\ Scanned(t, Declared[w][t], now, base)
                                   /\ Fits(t, Declared[w][t], now, base)
<1> DEFINE D == Declared[w][t]
           r == LockedRow(t, D, now)
           cold == r # row[t]
           all == {o \in D.at : r.watermark < o /\ o <= now}
           stands == row[t].known /\ row[t].declared = D
           passed == Passed(t, cold, now, all, r.paused)
<1>1. /\ since' = [since EXCEPT ![t] = IF stands THEN since[t] ELSE Previous(D, now)]
      /\ \/ /\ all = {}
            /\ row' = [row EXCEPT ![t] = r]
            /\ job' = job /\ skipped' = skipped
         \/ /\ all # {}
            /\ row' = [row EXCEPT ![t] = [r EXCEPT !.watermark = Max(all)]]
            /\ skipped' = [skipped EXCEPT ![t] =
                 skipped[t] \cup {Key(D, o) : o \in passed}]
            /\ job' = [job EXCEPT ![t] =
                 [k \in Occurrences |->
                    IF job[t][k] = "none" /\ \E o \in all \ passed : k = Key(D, o)
                    THEN "due" ELSE job[t][k]]]
  <2>1. \E a \in {all} :
          /\ since' = [since EXCEPT ![t] = IF stands THEN @ ELSE Previous(D, now)]
          /\ \/ /\ a = {}
                /\ row' = [row EXCEPT ![t] = r]
                /\ UNCHANGED <<job, skipped>>
             \/ /\ a # {}
                /\ row' = [row EXCEPT ![t] = [r EXCEPT !.watermark = Max(a)]]
                /\ \E p \in {Passed(t, cold, now, a, r.paused)} :
                     /\ skipped' = [skipped EXCEPT ![t] = @ \cup {Key(D, o) : o \in p}]
                     /\ job' = [job EXCEPT ![t] =
                          [k \in Occurrences |->
                             IF job[t][k] = "none" /\ \E o \in a \ p : k = Key(D, o)
                             THEN "due" ELSE job[t][k]]]
    BY Zenon DEF EnsureOne
  <2> HIDE DEF r, all, D, stands
  <2> QED
    BY <2>1
<1>2. /\ r \in Schedule /\ r.known /\ r.declared = D /\ r.paused = row[t].paused
      /\ ~cold => row[t].known /\ row[t].declared = D
      /\ cold => /\ r.watermark = Previous(D, now)
                 /\ ~(row[t].known /\ row[t].declared = D)
  <2> HIDE DEF r
  <2>1. r = LockedRow(t, Declared[w][t], now)
    BY DEF r
  <2> QED
    BY <2>1, LockedRowIs
<1>3. /\ row \in [Types -> Schedule] /\ job \in [Types -> [Occurrences -> States]]
      /\ skipped \in [Types -> SUBSET Occurrences] /\ since \in [Types -> Instants]
  BY DEF TypeOK, Schedule, States
<1>4. /\ D \in Declarations /\ D.at \subseteq Instants /\ all \subseteq D.at
      /\ r.watermark \in Instants
  BY <1>2, DeclarationsType DEF Schedule, Declarations
<1>5. \A o \in all : r.watermark < o /\ o <= now
  OBVIOUS
<1>6. \A o \in D.at : r.watermark < o /\ o <= now => o \in all
  OBVIOUS
<1>7. passed \subseteq all /\ all \ passed \subseteq Newest(all, CatchUp[t])
      /\ (all \ passed # {} => ~r.paused /\ (t \in SkipsOverlap => ~HasActiveJob(t, now)))
  <2> HIDE DEF all
  <2> QED
    BY DEF Passed
<1>8. /\ stands => since'[t] = since[t] /\ r = row[t]
      /\ ~stands => since'[t] = r.watermark
  <2>1. cold <=> ~stands
    BY <1>2 DEF LockedRow
  <2> HIDE DEF r, stands, D
  <2> QED
    BY <1>1, <1>2, <1>3, <2>1
<1> HIDE DEF r, all, passed
<1>9. CASE all = {}
  <2>1. row' = [row EXCEPT ![t] = r] /\ job' = job /\ skipped' = skipped
    BY <1>1, <1>9
  <2>2. row'[t] = r
    BY <1>3, <2>1
  <2>3. r.watermark \in Nat
    BY <1>4, InstantsFinite
  <2>4. Scanned(t, D, now, r.watermark)
    BY <1>2, <1>3, <1>4, <1>8, <2>1, <2>2, <2>3, InstantsFinite DEF Scanned
  <2>5. Fits(t, D, now, r.watermark)
    BY <1>9, <2>1 DEF Fits
  <2> QED
    BY <1>1, <1>3, <1>4, <2>1, <2>2, <2>4, <2>5
<1>10. CASE all # {}
  <2>1. /\ row' = [row EXCEPT ![t] = [r EXCEPT !.watermark = Max(all)]]
        /\ skipped' = [skipped EXCEPT ![t] = skipped[t] \cup {Key(D, o) : o \in passed}]
        /\ job' = [job EXCEPT ![t] =
             [k \in Occurrences |->
                IF job[t][k] = "none" /\ \E o \in all \ passed : k = Key(D, o)
                THEN "due" ELSE job[t][k]]]
    BY <1>1, <1>10
  <2>2. Max(all) \in all /\ \A o \in all : o <= Max(all)
    <3>1. IsFiniteSet(all) /\ all \subseteq Nat
      BY <1>4, InstantsFinite
    <3> QED
      BY <1>10, <3>1, MaxOf
  <2>3. Max(all) \in Instants /\ r.watermark < Max(all) /\ Max(all) <= now
    BY <1>4, <1>5, <2>2
  <2>4. row'[t] = [r EXCEPT !.watermark = Max(all)]
    BY <1>3, <2>1
  <2>5. /\ row'[t] \in Schedule /\ row'[t].known /\ row'[t].declared = D
        /\ row'[t].paused = row[t].paused /\ row'[t].watermark = Max(all)
    BY <1>2, <2>3, <2>4 DEF Schedule
  <2>6. /\ skipped'[t] = skipped[t] \cup {Key(D, o) : o \in passed}
        /\ skipped'[t] \in SUBSET Occurrences
    <3>1. {Key(D, o) : o \in passed} \subseteq Occurrences
      BY <1>4, <1>7, KeyOf
    <3> QED
      BY <1>3, <2>1, <3>1
  <2>7. job'[t] = [k \in Occurrences |->
           IF job[t][k] = "none" /\ \E o \in all \ passed : k = Key(D, o)
           THEN "due" ELSE job[t][k]]
    BY <1>3, <2>1
  <2>8. job'[t] \in [Occurrences -> States]
    BY <1>3, <2>7 DEF States
  <2>9. \A k \in Occurrences :
          \/ job'[t][k] = job[t][k]
          \/ /\ job[t][k] = "none" /\ job'[t][k] = "due"
             /\ \E o \in all \ passed : k = Key(D, o)
    BY <2>7
  <2>10. \A o \in all : job'[t][Key(D, o)] # "none" \/ Key(D, o) \in skipped'[t]
    <3> SUFFICES ASSUME NEW o \in all, o \notin passed PROVE job'[t][Key(D, o)] # "none"
      BY <2>6
    <3>1. Key(D, o) \in Occurrences
      BY <1>4, KeyOf
    <3> QED
      BY <2>7, <3>1
  <2>11. \A o \in D.at : r.watermark < o /\ o <= Max(all) => o \in all
    <3> SUFFICES ASSUME NEW o \in D.at, r.watermark < o, o <= Max(all) PROVE o <= now
      BY <1>6
    <3>1. o \in Nat /\ Max(all) \in Nat /\ now \in Nat
      BY <1>4, <2>3, InstantsFinite, RecurringSchedulerAssumption
         DEF RecurringSchedulerAssumption, Instants
    <3> QED
      BY <2>3, <3>1
  <2>12. Scanned(t, D, now, r.watermark)
    <3>1. r.watermark <= Max(all)
      BY <1>4, <2>3, InstantsFinite
    <3>2. \A k \in Occurrences :
            \/ job'[t][k] = job[t][k]
            \/ /\ job[t][k] = "none" /\ job'[t][k] = "due" /\ ~row[t].paused
               /\ k[2] <= row'[t].watermark
      <4> SUFFICES ASSUME NEW k \in Occurrences, job'[t][k] # job[t][k]
                   PROVE  /\ job[t][k] = "none" /\ job'[t][k] = "due" /\ ~row[t].paused
                          /\ k[2] <= row'[t].watermark
        OBVIOUS
      <4>1. PICK o \in all \ passed : k = Key(D, o)
        BY <2>9
      <4>2. k[2] = o
        BY <1>4, <4>1, KeyOf
      <4> QED
        BY <1>2, <1>7, <2>2, <2>5, <2>9, <4>1, <4>2
    <3>3. \/ row[t].known /\ row[t].declared = D
             /\ r.watermark = row[t].watermark /\ since'[t] = since[t]
          \/ ~(row[t].known /\ row[t].declared = D) /\ since'[t] = r.watermark
      BY <1>8
    <3>4. \A o \in D.at : r.watermark < o /\ o <= row'[t].watermark
             => job'[t][Key(D, o)] # "none" \/ Key(D, o) \in skipped'[t]
      BY <2>5, <2>10, <2>11
    <3> QED
      BY <1>4, <2>5, <2>6, <2>8, <3>1, <3>2, <3>3, <3>4 DEF Scanned
  <2>13. Fits(t, D, now, r.watermark)
    <3>1. all \in SUBSET Instants
      BY <1>4
    <3>2. \A k \in Occurrences : job'[t][k] # job[t][k] =>
            \E o \in Newest(all, CatchUp[t]) : k = Key(D, o)
      BY <1>7, <2>9
    <3>3. (\E k \in Occurrences : job'[t][k] # job[t][k]) /\ t \in SkipsOverlap
            => ~HasActiveJob(t, now) /\ all # {}
      BY <1>7, <1>10, <2>9
    <3> QED
      BY <1>5, <3>1, <3>2, <3>3 DEF Fits
  <2> QED
    BY <1>1, <1>3, <1>4, <2>1, <2>4, <2>6, <2>7, <2>12, <2>13
<1> QED
  BY <1>9, <1>10

-----------------------------------------------------------------------------
(***************************************************************************)
(* The inductive invariant                                                 *)
(***************************************************************************)

\* A tick that has schedules left began after the clock did.
TickTimes == \A w \in Workers : tick[w].left # <<>> => tick[w].now \in Start..clock

SInv == TypeOK /\ TickTimes /\ NoneInSilence

Tick == [now : Instants, left : Seq(Types)]

\* rotatedOrder yields schedules.
LEMMA RotatedOrderType ==
  ASSUME NEW from \in Types \cup {0}
  PROVE  RotatedOrder(from) \in Seq(Types)
<1>1. Schedules \in Seq(Types)
  BY RecurringSchedulerAssumption DEF RecurringSchedulerAssumption
<1>2. Len(Schedules) \in Nat /\ DOMAIN Schedules = 1..Len(Schedules)
      /\ \A i \in 1..Len(Schedules) : Schedules[i] \in Types
  BY <1>1, LenProperties, ElementOfSeq
<1>3. CASE from = 0
  BY <1>1, <1>3 DEF RotatedOrder
<1>4. CASE from # 0
  <2> DEFINE i == CHOOSE i \in DOMAIN Schedules : Schedules[i] = from
             a == SubSeq(Schedules, i, Len(Schedules))
             b == SubSeq(Schedules, 1, i - 1)
  <2>1. i \in DOMAIN Schedules
    BY <1>4 DEF Types, ToSet
  <2>2. i \in Int /\ i - 1 \in Int /\ 1 \in Int /\ Len(Schedules) \in Int
        /\ i \in 1..Len(Schedules)
    BY <1>2, <2>1
  <2>3. RotatedOrder(from) = a \o b
    BY <1>4 DEF RotatedOrder
  <2> HIDE DEF i
  <2>4. a \in Seq(Types)
    <3>1. \A k \in i..Len(Schedules) : Schedules[k] \in Types
      BY <1>2, <2>2
    <3> QED
      BY <2>2, <3>1, SubSeqProperties
  <2>5. b \in Seq(Types)
    <3>1. \A k \in 1..(i - 1) : Schedules[k] \in Types
      BY <1>2, <2>2
    <3> QED
      BY <2>2, <3>1, SubSeqProperties
  <2> HIDE DEF a, b
  <2> QED
    BY <2>3, <2>4, <2>5, ConcatProperties
<1> QED
  BY <1>3, <1>4

\* Of a tick that goes on, less is left, and it has the time it had.
LEMMA GoesOn ==
  ASSUME TypeOK, TickTimes, NEW w \in Workers, tick[w].left # <<>>, Goes(w)
  PROVE  /\ tick' \in [Workers -> Tick] /\ resume' \in [Workers -> Types \cup {0}]
         /\ \A v \in Workers : tick'[v].left # <<>> => tick'[v].now \in Start..clock
         /\ Head(tick[w].left) \in Types /\ tick[w].now \in Start..Horizon
         /\ tick[w].now <= clock
<1> DEFINE rest == Tail(tick[w].left)
           next == IF rest = <<>> THEN Idle ELSE [tick[w] EXCEPT !.left = rest]
<1>1. tick \in [Workers -> Tick] /\ resume \in [Workers -> Types \cup {0}]
      /\ clock \in Start..Horizon
  BY DEF TypeOK, Tick
<1>2. tick' = [tick EXCEPT ![w] = next] /\ resume' = [resume EXCEPT ![w] = 0]
  BY <1>1 DEF Goes
<1>3. tick[w].left \in Seq(Types)
  BY <1>1 DEF Tick
<1>4. Head(tick[w].left) \in Types /\ rest \in Seq(Types)
  BY <1>3, HeadTailProperties
<1>5. Start \in Nat /\ Horizon \in Nat /\ 0 \in Instants
  BY RecurringSchedulerAssumption DEF RecurringSchedulerAssumption, Instants
<1>6. tick[w].now \in Start..clock
  BY DEF TickTimes
<1>7. tick[w].now \in Start..Horizon /\ tick[w].now <= clock
  BY <1>1, <1>5, <1>6
<1>8. Idle \in Tick /\ Idle.left = <<>>
  BY <1>5, EmptySeq DEF Idle, Tick
<1>9. next \in Tick /\ (next.left # <<>> => next.now = tick[w].now)
  <2>1. [tick[w] EXCEPT !.left = rest] \in Tick
        /\ [tick[w] EXCEPT !.left = rest].now = tick[w].now
    <3> HIDE DEF rest
    <3> QED
      BY <1>1, <1>4 DEF Tick
  <2> HIDE DEF rest
  <2> QED
    BY <1>8, <2>1
<1> HIDE DEF next
<1>10. tick' \in [Workers -> Tick]
  BY <1>1, <1>2, <1>9
<1>11. \A v \in Workers : tick'[v].left # <<>> => tick'[v].now \in Start..clock
  <2> SUFFICES ASSUME NEW v \in Workers, tick'[v].left # <<>>
               PROVE  tick'[v].now \in Start..clock
    OBVIOUS
  <2>1. CASE v = w
    BY <1>1, <1>2, <1>6, <1>9, <2>1
  <2>2. CASE v # w
    <3>1. tick'[v] = tick[v]
      BY <1>1, <1>2, <2>2
    <3> QED
      BY <3>1 DEF TickTimes
  <2> QED
    BY <2>1, <2>2
<1> QED
  BY <1>1, <1>2, <1>4, <1>7, <1>10, <1>11

LEMMA SInvInit == Init => SInv
<1> SUFFICES ASSUME Init PROVE SInv
  OBVIOUS
<1>1. Start \in Nat /\ Horizon \in Nat /\ Start \in Instants /\ 0 \in Instants
      /\ MaxFaults \in Nat
  BY RecurringSchedulerAssumption DEF RecurringSchedulerAssumption, Instants
<1>2. clock \in Start..Horizon /\ faults \in 0..MaxFaults
  BY <1>1 DEF Init, Instants
<1>3. row \in [Types -> Schedule] /\ \A t \in Types : ~row[t].known
  BY <1>1, DeclarationsType DEF Init, Schedule
<1>4. job \in [Types -> [Occurrences -> States]]
  BY DEF Init, States
<1>5. skipped \in [Types -> SUBSET Occurrences] /\ since \in [Types -> Instants]
      /\ resume \in [Workers -> Types \cup {0}]
  BY <1>1 DEF Init
<1>6. Idle \in Tick
  BY <1>1, EmptySeq DEF Idle, Tick
<1>7. tick \in [Workers -> Tick] /\ \A w \in Workers : tick[w].left = <<>>
  BY <1>6 DEF Init, Idle
<1> QED
  BY <1>2, <1>3, <1>4, <1>5, <1>7
     DEF SInv, TypeOK, TickTimes, NoneInSilence, Schedule, States, Tick

\* The transaction of a schedule.
LEMMA EnsureKeeps ==
  ASSUME SInv, NEW w \in Workers, Ensure(w)
  PROVE  SInv'
<1> DEFINE t == Head(tick[w].left)
           D == Declared[w][t]
           now == tick[w].now
<1>1. tick[w].left # <<>> /\ EnsureOne(t, D, now) /\ Goes(w)
      /\ clock' = clock /\ faults' = faults
  BY DEF Ensure
<1>2. TypeOK /\ TickTimes /\ NoneInSilence
  BY DEF SInv
<1>3. /\ tick' \in [Workers -> Tick] /\ resume' \in [Workers -> Types \cup {0}]
      /\ \A v \in Workers : tick'[v].left # <<>> => tick'[v].now \in Start..clock
      /\ t \in Types /\ now \in Start..Horizon
  BY <1>1, <1>2, GoesOn
<1>4. /\ row' = [row EXCEPT ![t] = row'[t]] /\ job' = [job EXCEPT ![t] = job'[t]]
      /\ skipped' = [skipped EXCEPT ![t] = skipped'[t]]
      /\ since' = [since EXCEPT ![t] = since'[t]]
      /\ \E b \in Instants : Scanned(t, D, now, b) /\ Fits(t, D, now, b)
  <2> HIDE DEF t, now
  <2> QED
    BY <1>1, <1>2, <1>3, EnsureOneScans
<1>5. PICK b \in Instants : Scanned(t, D, now, b)
  BY <1>4
<1> HIDE DEF t, now
<1>6. /\ row \in [Types -> Schedule] /\ job \in [Types -> [Occurrences -> States]]
      /\ skipped \in [Types -> SUBSET Occurrences] /\ since \in [Types -> Instants]
  BY <1>2 DEF TypeOK, Schedule, States
<1>7. D \in Declarations /\ D.at \subseteq Instants
  BY <1>3, DeclarationsType DEF Declarations
<1> HIDE DEF D
<1>8. since'[t] \in Instants
  BY <1>3, <1>5, <1>6 DEF Scanned
<1>9. /\ row' \in [Types -> Schedule] /\ job' \in [Types -> [Occurrences -> States]]
      /\ skipped' \in [Types -> SUBSET Occurrences] /\ since' \in [Types -> Instants]
  <2>1. row'[t] \in Schedule /\ job'[t] \in [Occurrences -> States]
        /\ skipped'[t] \in SUBSET Occurrences
    BY <1>5 DEF Scanned
  <2>2. row' \in [Types -> Schedule]
    BY <1>4, <1>6, <2>1
  <2>3. job' \in [Types -> [Occurrences -> States]]
    BY <1>4, <1>6, <2>1
  <2>4. skipped' \in [Types -> SUBSET Occurrences] /\ since' \in [Types -> Instants]
    BY <1>4, <1>6, <1>8, <2>1
  <2> QED
    BY <2>2, <2>3, <2>4
<1>10. TypeOK'
  BY <1>1, <1>2, <1>3, <1>9 DEF TypeOK, Tick, Schedule, States
<1>11. TickTimes'
  BY <1>1, <1>3 DEF TickTimes
<1>12. NoneInSilence'
  <2> SUFFICES ASSUME NEW u \in Types, row'[u].known, NEW o \in row'[u].declared.at,
                      since'[u] < o, o <= row'[u].watermark
               PROVE  \/ job'[u][Key(row'[u].declared, o)] # "none"
                      \/ Key(row'[u].declared, o) \in skipped'[u]
    BY DEF NoneInSilence
  <2>1. CASE u # t
    <3>1. row'[u] = row[u] /\ job'[u] = job[u] /\ skipped'[u] = skipped[u]
          /\ since'[u] = since[u]
      BY <1>4, <1>6, <2>1
    <3> QED
      BY <1>2, <3>1 DEF NoneInSilence
  <2>2. CASE u = t
    <3>1. o \in D.at /\ row'[t].declared = D
      BY <1>5, <2>2 DEF Scanned
    <3>2. o \in Nat /\ b \in Nat /\ Key(D, o) \in Occurrences
      BY <1>7, <3>1, InstantsFinite, KeyOf
    <3>3. CASE b < o
      BY <1>5, <2>2, <3>1, <3>3 DEF Scanned
    <3>4. CASE o <= b
      <4>1. row[t].known /\ row[t].declared = D /\ b = row[t].watermark
            /\ since'[t] = since[t]
        BY <1>5, <2>2, <3>2, <3>4 DEF Scanned
      <4>2. job[t][Key(D, o)] # "none" \/ Key(D, o) \in skipped[t]
        BY <1>2, <1>3, <2>2, <3>1, <3>4, <4>1 DEF NoneInSilence
      <4> QED
        BY <1>5, <2>2, <3>1, <3>2, <4>2 DEF Scanned
    <3> QED
      BY <3>2, <3>3, <3>4
  <2> QED
    BY <2>1, <2>2
<1> QED
  BY <1>10, <1>11, <1>12 DEF SInv

\* An operator's command.
LEMMA SetPausedKeeps ==
  ASSUME SInv, NEW t \in Types, NEW w \in Workers, NEW p \in BOOLEAN, SetPaused(t, w, p)
  PROVE  SInv'
<1> DEFINE D == Declared[w][t]
           r == IF row[t].known THEN row[t]
                ELSE [known |-> TRUE, declared |-> D, paused |-> FALSE,
                      watermark |-> Anchor(D, clock)]
           s == IF row[t].known THEN since[t] ELSE Previous(D, clock)
<1>1. TypeOK /\ TickTimes /\ NoneInSilence
  BY DEF SInv
<1>2. /\ row \in [Types -> Schedule] /\ job \in [Types -> [Occurrences -> States]]
      /\ skipped \in [Types -> SUBSET Occurrences] /\ since \in [Types -> Instants]
      /\ clock \in Start..Horizon
  BY <1>1 DEF TypeOK, Schedule, States
<1>3. /\ row' = [row EXCEPT ![t] = [r EXCEPT !.paused = p]]
      /\ since' = [since EXCEPT ![t] = s]
      /\ faults' \in 0..MaxFaults
      /\ clock' = clock /\ job' = job /\ skipped' = skipped /\ tick' = tick
      /\ resume' = resume
  <2>1. faults' \in 0..MaxFaults
    BY <1>1, RecurringSchedulerAssumption
       DEF SetPaused, Fault, TypeOK, RecurringSchedulerAssumption
  <2>2. since' = [since EXCEPT ![t] = s]
    BY <1>2 DEF SetPaused
  <2>3. row' = [row EXCEPT ![t] = [r EXCEPT !.paused = p]]
    BY Zenon DEF SetPaused
  <2> QED
    BY <2>1, <2>2, <2>3 DEF SetPaused
<1>4. D \in Declarations
  BY DeclarationsType
<1>5. Previous(D, clock) \in Instants
  BY <1>2, PreviousIsPast
<1>6. /\ r \in Schedule /\ s \in Instants
      /\ row[t].known => r = row[t] /\ s = since[t]
      /\ ~row[t].known => s = r.watermark
  BY <1>2, <1>4, <1>5 DEF Schedule, Anchor
<1> HIDE DEF r, s, D
<1>7. /\ [r EXCEPT !.paused = p] \in Schedule
      /\ [r EXCEPT !.paused = p].watermark = r.watermark
      /\ [r EXCEPT !.paused = p].declared = r.declared
  BY <1>6 DEF Schedule
<1>8. row' \in [Types -> Schedule] /\ since' \in [Types -> Instants]
  BY <1>2, <1>3, <1>6, <1>7
<1>9. TypeOK'
  BY <1>1, <1>3, <1>8 DEF TypeOK, Schedule
<1>10. TickTimes'
  BY <1>1, <1>3 DEF TickTimes
<1>11. NoneInSilence'
  <2> SUFFICES ASSUME NEW u \in Types, row'[u].known, NEW o \in row'[u].declared.at,
                      since'[u] < o, o <= row'[u].watermark
               PROVE  \/ job[u][Key(row'[u].declared, o)] # "none"
                      \/ Key(row'[u].declared, o) \in skipped[u]
    BY <1>3 DEF NoneInSilence
  <2>1. CASE u # t
    <3>1. row'[u] = row[u] /\ since'[u] = since[u]
      BY <1>2, <1>3, <2>1
    <3> QED
      BY <1>1, <3>1 DEF NoneInSilence
  <2>2. CASE u = t
    <3>1. row'[t].declared = r.declared /\ row'[t].watermark = r.watermark
          /\ since'[t] = s
      BY <1>2, <1>3, <1>7
    <3>2. CASE row[t].known
      BY <1>1, <1>6, <2>2, <3>1, <3>2 DEF NoneInSilence
    <3>3. CASE ~row[t].known
      <4>1. s < o /\ o <= s
        BY <1>6, <2>2, <3>1, <3>3
      <4>2. r.declared.at \subseteq Nat /\ s \in Nat
        BY <1>6, InstantsFinite DEF Schedule, Declarations
      <4>3. o \in Nat
        BY <2>2, <3>1, <4>2
      <4> QED
        BY <4>1, <4>2, <4>3
    <3> QED
      BY <3>2, <3>3
  <2> QED
    BY <2>1, <2>2
<1> QED
  BY <1>9, <1>10, <1>11 DEF SInv

\* What leaves the tables as they are leaves what has passed as it was.
LEMMA SilenceStays ==
  ASSUME NoneInSilence, UNCHANGED <<row, skipped, since>>,
         \A t \in Types, k \in Occurrences : job[t][k] # "none" => job'[t][k] # "none",
         TypeOK
  PROVE  NoneInSilence'
<1> SUFFICES ASSUME NEW t \in Types, row[t].known, NEW o \in row[t].declared.at,
                    since[t] < o, o <= row[t].watermark
             PROVE  \/ job'[t][Key(row[t].declared, o)] # "none"
                    \/ Key(row[t].declared, o) \in skipped[t]
  BY DEF NoneInSilence
<1>1. Key(row[t].declared, o) \in Occurrences
  BY KeyOf DEF TypeOK, Declarations
<1> QED
  BY <1>1 DEF NoneInSilence

LEMMA SInvStep == SInv /\ [Next]_vars => SInv'
<1> SUFFICES ASSUME SInv, [Next]_vars PROVE SInv'
  OBVIOUS
<1>1. TypeOK /\ TickTimes /\ NoneInSilence
  BY DEF SInv
<1>2. Start \in Nat /\ Horizon \in Nat /\ Start \in Instants /\ 0 \in Instants
      /\ MaxFaults \in Nat
  BY RecurringSchedulerAssumption DEF RecurringSchedulerAssumption, Instants
<1>3. Idle \in Tick /\ Idle.left = <<>>
  BY <1>2, EmptySeq DEF Idle, Tick
<1>4. tick \in [Workers -> Tick] /\ clock \in Start..Horizon
      /\ resume \in [Workers -> Types \cup {0}]
  BY <1>1 DEF TypeOK, Tick
<1>5. ASSUME NEW w \in Workers, Begin(w)
      PROVE  SInv'
  <2> DEFINE new == [now |-> clock, left |-> RotatedOrder(resume[w])]
  <2>1. new \in Tick /\ new.now \in Start..clock
    <3>1. RotatedOrder(resume[w]) \in Seq(Types)
      BY <1>4, RotatedOrderType
    <3>2. clock \in Instants /\ clock \in Start..clock
      BY <1>2, <1>4 DEF Instants
    <3> QED
      BY <3>1, <3>2 DEF Tick
  <2> HIDE DEF new
  <2>2. tick' = [tick EXCEPT ![w] = new]
        /\ UNCHANGED <<clock, row, job, skipped, since, resume, faults>>
    BY <1>5 DEF Begin, tables, new
  <2>3. tick' \in [Workers -> Tick]
    BY <1>4, <2>1, <2>2
  <2>4. TypeOK'
    BY <1>1, <2>2, <2>3 DEF TypeOK, Tick
  <2>5. TickTimes'
    <3> SUFFICES ASSUME NEW v \in Workers, tick'[v].left # <<>>
                 PROVE  tick'[v].now \in Start..clock
      BY <2>2 DEF TickTimes
    <3>1. CASE v = w
      BY <1>4, <2>1, <2>2, <3>1
    <3>2. CASE v # w
      BY <1>1, <1>4, <2>2, <3>2 DEF TickTimes
    <3> QED
      BY <3>1, <3>2
  <2>6. NoneInSilence'
    BY <1>1, <2>2, SilenceStays
  <2> QED
    BY <2>4, <2>5, <2>6 DEF SInv
<1>6. ASSUME NEW w \in Workers, tick' = [tick EXCEPT ![w] = Idle],
             resume' \in [Workers -> Types \cup {0}], faults' \in 0..MaxFaults,
             UNCHANGED <<clock, tables>>
      PROVE  SInv'
  <2>1. tick' \in [Workers -> Tick]
    BY <1>3, <1>4, <1>6
  <2>2. TypeOK'
    BY <1>1, <1>6, <2>1 DEF TypeOK, Tick, tables
  <2>3. TickTimes'
    BY <1>1, <1>3, <1>4, <1>6 DEF TickTimes
  <2>4. NoneInSilence'
    BY <1>1, <1>6, SilenceStays DEF tables
  <2> QED
    BY <2>2, <2>3, <2>4 DEF SInv
<1>7. ASSUME NEW w \in Workers, Defer(w)
      PROVE  SInv'
  <2>1. Head(tick[w].left) \in Types
    BY <1>4, <1>7, HeadTailProperties DEF Defer, Tick
  <2>2. resume' \in [Workers -> Types \cup {0}]
    BY <1>4, <1>7, <2>1 DEF Defer
  <2> QED
    BY <1>1, <1>6, <1>7, <2>2 DEF Defer, TypeOK
<1>8. ASSUME Fault
      PROVE  faults' \in 0..MaxFaults
  BY <1>1, <1>2, <1>8 DEF Fault, TypeOK
<1>9. ASSUME NEW w \in Workers, Restart(w)
      PROVE  SInv'
  <2>1. resume' \in [Workers -> Types \cup {0}]
    BY <1>4, <1>9 DEF Restart
  <2> QED
    BY <1>6, <1>8, <1>9, <2>1 DEF Restart
<1>10. ASSUME NEW w \in Workers, EnsureFails(w)
       PROVE  SInv'
  <2>1. tick' \in [Workers -> Tick] /\ resume' \in [Workers -> Types \cup {0}]
        /\ \A v \in Workers : tick'[v].left # <<>> => tick'[v].now \in Start..clock
    BY <1>1, <1>10, GoesOn DEF EnsureFails
  <2>2. UNCHANGED <<clock, row, job, skipped, since>> /\ faults' \in 0..MaxFaults
    BY <1>8, <1>10 DEF EnsureFails, tables
  <2>3. TypeOK'
    BY <1>1, <2>1, <2>2 DEF TypeOK, Tick
  <2>4. TickTimes'
    BY <2>1, <2>2 DEF TickTimes
  <2>5. NoneInSilence'
    BY <1>1, <2>2, SilenceStays
  <2> QED
    BY <2>3, <2>4, <2>5 DEF SInv
<1>11. ASSUME NEW t \in Types, NEW k \in Occurrences, NEW s \in States \ {"none"},
              job' = [job EXCEPT ![t][k] = s],
              UNCHANGED <<clock, row, skipped, since, tick, resume, faults>>
       PROVE  SInv'
  <2>1. job \in [Types -> [Occurrences -> States]]
    BY <1>1 DEF TypeOK, States
  <2>2. job' \in [Types -> [Occurrences -> States]]
    BY <1>11, <2>1
  <2>3. \A u \in Types, p \in Occurrences : job[u][p] # "none" => job'[u][p] # "none"
    BY <1>11, <2>1
  <2>4. TypeOK'
    BY <1>1, <1>11, <2>2 DEF TypeOK, States
  <2>5. TickTimes'
    BY <1>1, <1>11 DEF TickTimes
  <2>6. NoneInSilence'
    BY <1>1, <1>11, <2>3, SilenceStays
  <2> QED
    BY <2>4, <2>5, <2>6 DEF SInv
<1>12. ASSUME Pass
       PROVE  SInv'
  <2>1. clock' \in Start..Horizon /\ clock <= clock'
        /\ UNCHANGED <<row, job, skipped, since, tick, resume, faults>>
    BY <1>2, <1>4, <1>12 DEF Pass, tables
  <2>2. TypeOK'
    BY <1>1, <2>1 DEF TypeOK
  <2>3. TickTimes'
    <3> SUFFICES ASSUME NEW v \in Workers, tick[v].left # <<>>
                 PROVE  tick[v].now \in Start..clock'
      BY <2>1 DEF TickTimes
    <3>1. tick[v].now \in Start..clock
      BY <1>1 DEF TickTimes
    <3> QED
      BY <1>2, <1>4, <2>1, <3>1
  <2>4. NoneInSilence'
    BY <1>1, <2>1, SilenceStays
  <2> QED
    BY <2>2, <2>3, <2>4 DEF SInv
<1>13. CASE UNCHANGED vars
  <2>1. UNCHANGED <<clock, row, job, skipped, since, tick, resume, faults>>
    BY <1>13 DEF vars, tables
  <2> QED
    BY <1>1, <2>1 DEF SInv, TypeOK, TickTimes, NoneInSilence
<1>14. CASE Next
  <2>1. ASSUME NEW w \in Workers, Work(w) \/ EnsureFails(w) \/ Restart(w)
        PROVE  SInv'
    BY <1>5, <1>7, <1>9, <1>10, <2>1, EnsureKeeps DEF Work
  <2>2. ASSUME NEW t \in Types, NEW k \in Occurrences, JobFails(t, k) \/ JobEnds(t, k)
        PROVE  SInv'
    BY <1>11, <2>2 DEF JobFails, JobEnds, States
  <2> QED
    BY <1>12, <1>14, <2>1, <2>2, SetPausedKeeps DEF Next
<1> QED
  BY <1>13, <1>14

-----------------------------------------------------------------------------
(***************************************************************************)
(* Theorems                                                                *)
(***************************************************************************)

\* The types, the times of the ticks and what has passed are an invariant.
THEOREM SchedulerInvariant == Spec => []SInv
<1> QED
  BY SInvInit, SInvStep, PTL DEF Spec

\* The types are right: every tick has schedules left that exist, and every
\* watermark is an instant (lockRow finds an occurrence before the current one).
THEOREM SchedulerTypes == Spec => []TypeOK
<1>1. SInv => TypeOK
  BY DEF SInv
<1> QED
  BY <1>1, SchedulerInvariant, PTL

\* Whatever the workers, the releases they are of, the age of their ticks, the
\* transactions that fail and the operator's commands: no occurrence up to the
\* watermark is neither in the queue nor counted as skipped (ensureOne, lockRow).
THEOREM NothingPassesInSilence == Spec => []NoneInSilence
<1>1. SInv => NoneInSilence
  BY DEF SInv
<1> QED
  BY <1>1, SchedulerInvariant, PTL

-----------------------------------------------------------------------------
(***************************************************************************)
(* A schedule that must not overlap                                        *)
(***************************************************************************)

\* The releases that are deployed agree on the schedules that must not overlap.
DeclaredAlike ==
  \A t \in SkipsOverlap, v, w \in Workers : Declared[v][t] = Declared[w][t]

OneDeclaration ==
  \A t \in SkipsOverlap, w \in Workers : row[t].known => row[t].declared = Declared[w][t]

\* A tick that is older than the watermark finds nothing; one that finds anything
\* is younger than every job, so that it sees all that are due.
BehindWatermark ==
  \A t \in SkipsOverlap, k \in Occurrences :
    job[t][k] # "none" => row[t].known /\ k[2] <= row[t].watermark

OInv == OneDeclaration /\ BehindWatermark /\ NeverPilesUp

Active(t) == {k \in Occurrences : job[t][k] \in {"due", "retrying"}}

\* Fewer jobs are not a pile.
LEMMA FewerActive ==
  ASSUME NEW t \in Types, Active(t)' \subseteq Active(t),
         Cardinality(Active(t)) <= CatchUp[t]
  PROVE  Cardinality(Active(t)') <= CatchUp[t]
<1>1. Active(t) \subseteq Occurrences /\ Active(t)' \subseteq Occurrences
  BY DEF Active
<1>2. IsFiniteSet(Active(t)) /\ IsFiniteSet(Active(t)')
  BY <1>1, OccurrencesFinite
<1>3. Cardinality(Active(t)') <= Cardinality(Active(t))
  BY <1>2, FS_Subset
<1>4. Cardinality(Active(t)) \in Nat /\ Cardinality(Active(t)') \in Nat /\ CatchUp[t] \in Nat
  BY <1>2, FS_CardinalityType, RecurringSchedulerAssumption
     DEF RecurringSchedulerAssumption
<1> QED
  BY <1>3, <1>4

LEMMA OInvInit == Init => OInv
<1> SUFFICES ASSUME Init PROVE OInv
  OBVIOUS
<1>1. SkipsOverlap \subseteq Types /\ CatchUp \in [Types -> Nat \ {0}]
  BY RecurringSchedulerAssumption DEF RecurringSchedulerAssumption
<1>2. \A t \in SkipsOverlap : ~row[t].known /\ \A k \in Occurrences : job[t][k] = "none"
  BY <1>1 DEF Init
<1>3. NeverPilesUp
  <2> SUFFICES ASSUME NEW t \in SkipsOverlap
               PROVE  Cardinality(Active(t)) <= CatchUp[t]
    BY DEF NeverPilesUp, Active
  <2>1. Active(t) = {}
    BY <1>2 DEF Active
  <2>2. Cardinality(Active(t)) = 0
    BY <2>1, FS_EmptySet
  <2> QED
    BY <1>1, <2>2
<1> QED
  BY <1>2, <1>3 DEF OInv, OneDeclaration, BehindWatermark

LEMMA EnsureDoesNotPile ==
  ASSUME DeclaredAlike, SInv, OInv, NEW w \in Workers, Ensure(w)
  PROVE  OInv'
<1> DEFINE t == Head(tick[w].left)
           D == Declared[w][t]
           now == tick[w].now
<1>1. tick[w].left # <<>> /\ EnsureOne(t, D, now) /\ Goes(w)
  BY DEF Ensure
<1>2. TypeOK /\ TickTimes
  BY DEF SInv
<1>3. t \in Types /\ now \in Start..Horizon
  BY <1>1, <1>2, GoesOn
<1>4. /\ row' = [row EXCEPT ![t] = row'[t]] /\ job' = [job EXCEPT ![t] = job'[t]]
      /\ \E b \in Instants : Scanned(t, D, now, b) /\ Fits(t, D, now, b)
  <2> HIDE DEF t, now
  <2> QED
    BY <1>1, <1>2, <1>3, EnsureOneScans
<1>5. PICK b \in Instants : Scanned(t, D, now, b) /\ Fits(t, D, now, b)
  BY <1>4
<1> HIDE DEF t, now
<1>6. row \in [Types -> Schedule] /\ job \in [Types -> [Occurrences -> States]]
  BY <1>2 DEF TypeOK, Schedule, States
<1>7. SkipsOverlap \subseteq Types /\ CatchUp \in [Types -> Nat \ {0}]
  BY RecurringSchedulerAssumption DEF RecurringSchedulerAssumption
<1>8. OneDeclaration /\ BehindWatermark /\ NeverPilesUp
  BY DEF OInv
<1>9. \A u \in Types \ {t} : row'[u] = row[u] /\ job'[u] = job[u]
  BY <1>4, <1>6
<1>10. t \in SkipsOverlap =>
         /\ row[t].known => b = row[t].watermark
         /\ \A k \in Occurrences : job[t][k] # "none" => k[2] <= b
  BY <1>5, <1>8 DEF OneDeclaration, BehindWatermark, Scanned
<1>11. OneDeclaration'
  <2> SUFFICES ASSUME NEW u \in SkipsOverlap, NEW v \in Workers, row'[u].known
               PROVE  row'[u].declared = Declared[v][u]
    BY DEF OneDeclaration
  <2>1. CASE u = t
    <3>1. row'[t].declared = Declared[w][t]
      BY <1>5 DEF Scanned
    <3> QED
      BY <2>1, <3>1 DEF DeclaredAlike
  <2>2. CASE u # t
    BY <1>7, <1>8, <1>9, <2>2 DEF OneDeclaration
  <2> QED
    BY <2>1, <2>2
<1>12. BehindWatermark'
  <2> SUFFICES ASSUME NEW u \in SkipsOverlap, NEW k \in Occurrences, job'[u][k] # "none"
               PROVE  row'[u].known /\ k[2] <= row'[u].watermark
    BY DEF BehindWatermark
  <2>1. CASE u = t
    <3>1. row'[t].known /\ b <= row'[t].watermark /\ row'[t].watermark \in Instants
      BY <1>5 DEF Scanned, Schedule
    <3>2. CASE job'[t][k] = job[t][k]
      <4>1. k[2] <= b
        BY <1>10, <2>1, <3>2
      <4>2. k[2] \in Nat /\ b \in Nat /\ row'[t].watermark \in Nat
        BY <3>1, InstantsFinite DEF Occurrences
      <4> QED
        BY <2>1, <3>1, <4>1, <4>2
    <3>3. CASE job'[t][k] # job[t][k]
      BY <1>5, <2>1, <3>1, <3>3 DEF Scanned
    <3> QED
      BY <3>2, <3>3
  <2>2. CASE u # t
    BY <1>7, <1>8, <1>9, <2>2 DEF BehindWatermark
  <2> QED
    BY <2>1, <2>2
<1>13. NeverPilesUp'
  <2> SUFFICES ASSUME NEW u \in SkipsOverlap
               PROVE  Cardinality(Active(u)') <= CatchUp[u]
    BY DEF NeverPilesUp, Active
  <2>1. Cardinality(Active(u)) <= CatchUp[u] /\ u \in Types
    BY <1>7, <1>8 DEF NeverPilesUp, Active
  <2>2. CASE job'[u] = job[u]
    <3>1. Active(u)' \subseteq Active(u)
      BY <2>2 DEF Active
    <3> QED
      BY <2>1, <3>1, FewerActive
  <2>3. CASE job'[u] # job[u]
    <3>1. u = t
      BY <1>9, <2>1, <2>3
    <3>2. PICK all \in SUBSET Instants :
            /\ \A o \in all : b < o /\ o <= now
            /\ \A k \in Occurrences : job'[t][k] # job[t][k] =>
                 \E o \in Newest(all, CatchUp[t]) : k = Key(D, o)
            /\ (\E k \in Occurrences : job'[t][k] # job[t][k]) /\ t \in SkipsOverlap
                 => ~HasActiveJob(t, now) /\ all # {}
      BY <1>5 DEF Fits
    <3>3. \E k \in Occurrences : job'[t][k] # job[t][k]
      <4>1. job[t] \in [Occurrences -> States] /\ job'[t] \in [Occurrences -> States]
        BY <1>3, <1>5, <1>6 DEF Scanned
      <4> QED
        BY <2>3, <3>1, <4>1
    <3>4. ~HasActiveJob(t, now) /\ all # {}
      BY <3>1, <3>2, <3>3
    <3>5. Active(u) = {}
      <4> SUFFICES ASSUME NEW k \in Occurrences, job[t][k] \in {"due", "retrying"}
                   PROVE  FALSE
        BY <3>1 DEF Active
      <4>1. PICK x \in all : b < x /\ x <= now
        BY <3>2, <3>4
      <4>2. k[2] <= b
        BY <1>10, <3>1
      <4>3. k[2] \in Nat /\ b \in Nat /\ x \in Nat /\ now \in Nat
        BY <1>3, InstantsFinite, RecurringSchedulerAssumption
           DEF RecurringSchedulerAssumption, Instants, Occurrences
      <4>4. k[2] <= now
        BY <4>1, <4>2, <4>3
      <4> QED
        BY <3>4, <4>4 DEF HasActiveJob, HasDueJob
    <3>6. Active(u)' \subseteq {Key(D, o) : o \in Newest(all, CatchUp[t])}
      BY <3>1, <3>2, <3>5 DEF Active
    <3>7. CatchUp[t] \in Nat /\ IsFiniteSet(all) /\ all \subseteq Nat
      BY <1>3, <1>7, <3>2, InstantsFinite
    <3>8. /\ IsFiniteSet(Newest(all, CatchUp[t]))
          /\ Cardinality(Newest(all, CatchUp[t])) <= CatchUp[t]
      BY <3>7, NewestBound
    <3>9. Cardinality(Active(u)') <= CatchUp[t]
      BY <3>6, <3>7, <3>8, KeysBound
    <3> QED
      BY <3>1, <3>9
  <2> QED
    BY <2>2, <2>3
<1> QED
  BY <1>11, <1>12, <1>13 DEF OInv

LEMMA OInvStep ==
  ASSUME DeclaredAlike, SInv, OInv, [Next]_vars
  PROVE  OInv'
<1>1. TypeOK /\ OneDeclaration /\ BehindWatermark /\ NeverPilesUp
  BY DEF SInv, OInv
<1>2. SkipsOverlap \subseteq Types
  BY RecurringSchedulerAssumption DEF RecurringSchedulerAssumption
<1>3. /\ row \in [Types -> Schedule] /\ job \in [Types -> [Occurrences -> States]]
      /\ clock \in Start..Horizon
  BY <1>1 DEF TypeOK, Schedule, States
<1>4. ASSUME UNCHANGED <<row, job>>
      PROVE  OInv'
  BY <1>1, <1>4 DEF OInv, OneDeclaration, BehindWatermark, NeverPilesUp
<1>5. ASSUME NEW t \in Types, NEW w \in Workers, NEW p \in BOOLEAN, SetPaused(t, w, p)
      PROVE  OInv'
  <2> DEFINE D == Declared[w][t]
             r == IF row[t].known THEN row[t]
                  ELSE [known |-> TRUE, declared |-> D, paused |-> FALSE,
                        watermark |-> Anchor(D, clock)]
  <2>1. row' = [row EXCEPT ![t] = [r EXCEPT !.paused = p]] /\ job' = job
    BY <1>5, Zenon DEF SetPaused
  <2>2. D \in Declarations /\ Previous(D, clock) \in Instants
    BY <1>3, PreviousIsPast, DeclarationsType
  <2>3. /\ r \in Schedule /\ r.known
        /\ row[t].known => r = row[t]
        /\ ~row[t].known => r.declared = D
    BY <1>3, <2>2 DEF Schedule, Anchor
  <2> HIDE DEF r, D
  <2>4. /\ row'[t].known /\ row'[t].declared = r.declared
        /\ row'[t].watermark = r.watermark
        /\ \A u \in Types \ {t} : row'[u] = row[u]
    BY <1>3, <2>1, <2>3 DEF Schedule
  <2>5. OneDeclaration'
    <3> SUFFICES ASSUME NEW u \in SkipsOverlap, NEW v \in Workers, row'[u].known
                 PROVE  row'[u].declared = Declared[v][u]
      BY DEF OneDeclaration
    <3>1. CASE u # t
      BY <1>1, <1>2, <2>4, <3>1 DEF OneDeclaration
    <3>2. CASE u = t /\ row[t].known
      BY <1>1, <2>3, <2>4, <3>2 DEF OneDeclaration
    <3>3. CASE u = t /\ ~row[t].known
      BY <2>3, <2>4, <3>3 DEF DeclaredAlike, D
    <3> QED
      BY <3>1, <3>2, <3>3
  <2>6. BehindWatermark'
    <3> SUFFICES ASSUME NEW u \in SkipsOverlap, NEW k \in Occurrences, job[u][k] # "none"
                 PROVE  row'[u].known /\ k[2] <= row'[u].watermark
      BY <2>1 DEF BehindWatermark
    <3>1. row[u].known /\ k[2] <= row[u].watermark
      BY <1>1 DEF BehindWatermark
    <3> QED
      BY <1>2, <2>3, <2>4, <3>1
  <2>7. NeverPilesUp'
    BY <1>1, <2>1 DEF NeverPilesUp
  <2> QED
    BY <2>5, <2>6, <2>7 DEF OInv
<1>6. ASSUME NEW t \in SkipsOverlap, NEW k \in Occurrences, NEW s \in {"retrying", "over"},
             job[t][k] \in {"due", "retrying"}, job' = [job EXCEPT ![t][k] = s], row' = row
      PROVE  OInv'
  <2>1. \A u \in Types, i \in Occurrences :
          /\ u # t \/ i # k => job'[u][i] = job[u][i]
          /\ job'[t][k] = s
    BY <1>2, <1>3, <1>6
  <2>2. BehindWatermark'
    <3> SUFFICES ASSUME NEW u \in SkipsOverlap, NEW i \in Occurrences, job'[u][i] # "none"
                 PROVE  row[u].known /\ i[2] <= row[u].watermark
      BY <1>6 DEF BehindWatermark
    <3>1. job[u][i] # "none"
      BY <1>2, <1>6, <2>1
    <3> QED
      BY <1>1, <3>1 DEF BehindWatermark
  <2>3. NeverPilesUp'
    <3> SUFFICES ASSUME NEW u \in SkipsOverlap
                 PROVE  Cardinality(Active(u)') <= CatchUp[u]
      BY DEF NeverPilesUp, Active
    <3>1. Cardinality(Active(u)) <= CatchUp[u] /\ u \in Types
      BY <1>1, <1>2 DEF NeverPilesUp, Active
    <3>2. Active(u)' \subseteq Active(u)
      <4> SUFFICES ASSUME NEW i \in Occurrences, job'[u][i] \in {"due", "retrying"}
                   PROVE  job[u][i] \in {"due", "retrying"}
        BY DEF Active
      <4>1. CASE u = t /\ i = k
        BY <1>6, <4>1
      <4>2. CASE u # t \/ i # k
        BY <2>1, <3>1, <4>2
      <4> QED
        BY <4>1, <4>2
    <3> QED
      BY <3>1, <3>2, FewerActive
  <2> QED
    BY <1>1, <1>6, <2>2, <2>3 DEF OInv, OneDeclaration
<1>7. CASE UNCHANGED vars
  BY <1>4, <1>7 DEF vars, tables
<1>8. CASE Next
  <2>1. ASSUME NEW w \in Workers, Work(w) \/ EnsureFails(w) \/ Restart(w)
        PROVE  OInv'
    BY <1>4, <2>1, EnsureDoesNotPile
       DEF Work, Begin, Defer, EnsureFails, Restart, tables
  <2>2. ASSUME NEW t \in Types, NEW k \in Occurrences, JobFails(t, k) \/ JobEnds(t, k)
        PROVE  OInv'
    BY <1>6, <2>2 DEF JobFails, JobEnds
  <2>3. CASE Pass
    BY <1>4, <2>3 DEF Pass, tables
  <2> QED
    BY <1>5, <1>8, <2>1, <2>2, <2>3 DEF Next
<1> QED
  BY <1>7, <1>8

\* A schedule that must not overlap, declared alike by the releases that are
\* deployed, never has more jobs than one scan may enqueue, however long one of
\* them runs or fails (hasActiveJob, catchUp).
THEOREM SlowJobsDoNotPileUp == DeclaredAlike => (Spec => []NeverPilesUp)
<1> SUFFICES ASSUME DeclaredAlike PROVE Spec => []NeverPilesUp
  OBVIOUS
<1>1. Init => SInv /\ OInv
  BY SInvInit, OInvInit
<1>2. (SInv /\ OInv) /\ [Next]_vars => (SInv /\ OInv)'
  BY SInvStep, OInvStep
<1>3. SInv /\ OInv => NeverPilesUp
  BY DEF OInv
<1> QED
  BY <1>1, <1>2, <1>3, PTL DEF Spec

-----------------------------------------------------------------------------
(***************************************************************************)
(* What a step may not do                                                  *)
(***************************************************************************)

\* While its declaration stays, the watermark of a schedule does not go back.
Advances(t) ==
  row[t].known /\ row'[t].declared = row[t].declared => row[t].watermark <= row'[t].watermark

\* A schedule that is paused enqueues nothing.
Quiet(t) ==
  row[t].paused => \A k \in Occurrences : job'[t][k] = "due" => job[t][k] = "due"

LEMMA StepsForward ==
  ASSUME SInv, [Next]_vars, NEW t \in Types
  PROVE  Advances(t) /\ Quiet(t)
<1>1. TypeOK /\ TickTimes
  BY DEF SInv
<1>2. /\ row \in [Types -> Schedule] /\ job \in [Types -> [Occurrences -> States]]
      /\ clock \in Start..Horizon
  BY <1>1 DEF TypeOK, Schedule, States
<1>3. row[t].watermark \in Nat
  BY <1>2, InstantsFinite DEF Schedule
<1>4. ASSUME UNCHANGED <<row, job>>
      PROVE  Advances(t) /\ Quiet(t)
  BY <1>3, <1>4 DEF Advances, Quiet
<1>5. ASSUME NEW w \in Workers, Ensure(w)
      PROVE  Advances(t) /\ Quiet(t)
  <2> DEFINE s == Head(tick[w].left)
             D == Declared[w][s]
             now == tick[w].now
  <2>1. tick[w].left # <<>> /\ EnsureOne(s, D, now) /\ Goes(w)
    BY <1>5 DEF Ensure
  <2>2. s \in Types /\ now \in Start..Horizon
    BY <1>1, <2>1, GoesOn
  <2>3. /\ row' = [row EXCEPT ![s] = row'[s]] /\ job' = [job EXCEPT ![s] = job'[s]]
        /\ \E b \in Instants : Scanned(s, D, now, b) /\ Fits(s, D, now, b)
    <3> HIDE DEF s, now
    <3> QED
      BY <1>1, <2>1, <2>2, EnsureOneScans
  <2> HIDE DEF s, now
  <2>4. CASE t # s
    <3>1. row'[t] = row[t] /\ job'[t] = job[t]
      BY <1>2, <2>3, <2>4
    <3> QED
      BY <1>3, <3>1 DEF Advances, Quiet
  <2>5. CASE t = s
    <3>1. PICK b \in Instants : Scanned(s, D, now, b)
      BY <2>3
    <3>2. Advances(t)
      BY <2>5, <3>1 DEF Scanned, Advances
    <3>3. Quiet(t)
      BY <2>5, <3>1 DEF Scanned, Quiet
    <3> QED
      BY <3>2, <3>3
  <2> QED
    BY <2>4, <2>5
<1>6. ASSUME NEW s \in Types, NEW w \in Workers, NEW p \in BOOLEAN, SetPaused(s, w, p)
      PROVE  Advances(t) /\ Quiet(t)
  <2>1. job' = job
    BY <1>6 DEF SetPaused
  <2>2. row[t].known => row'[t].watermark = row[t].watermark
    <3> SUFFICES ASSUME row[t].known PROVE row'[t].watermark = row[t].watermark
      OBVIOUS
    <3>1. CASE s = t
      <4>1. row' = [row EXCEPT ![t] = [row[t] EXCEPT !.paused = p]]
        BY <1>6, <3>1 DEF SetPaused
      <4> QED
        BY <1>2, <4>1 DEF Schedule
    <3>2. CASE s # t
      BY <1>2, <1>6, <3>2 DEF SetPaused
    <3> QED
      BY <3>1, <3>2
  <2> QED
    BY <1>3, <2>1, <2>2 DEF Advances, Quiet
<1>7. ASSUME NEW s \in Types, NEW k \in Occurrences, JobFails(s, k) \/ JobEnds(s, k)
      PROVE  Advances(t) /\ Quiet(t)
  <2>1. row' = row /\ \E e \in {"retrying", "over"} : job' = [job EXCEPT ![s][k] = e]
    BY <1>7 DEF JobFails, JobEnds
  <2>2. \A i \in Occurrences : job'[t][i] = "due" => job[t][i] = "due"
    BY <1>2, <2>1
  <2> QED
    BY <1>3, <2>1, <2>2 DEF Advances, Quiet
<1>8. CASE UNCHANGED vars
  BY <1>4, <1>8 DEF vars, tables
<1>9. CASE Next
  <2>1. ASSUME NEW w \in Workers, Work(w) \/ EnsureFails(w) \/ Restart(w)
        PROVE  Advances(t) /\ Quiet(t)
    BY <1>4, <1>5, <2>1 DEF Work, Begin, Defer, EnsureFails, Restart, tables
  <2>2. CASE Pass
    BY <1>4, <2>2 DEF Pass, tables
  <2> QED
    BY <1>6, <1>7, <1>9, <2>1, <2>2 DEF Next
<1> QED
  BY <1>8, <1>9

\* A tick that is late, or that overlaps with another's, does not move the
\* watermark back: what has been enqueued or skipped is not gone over again
\* before the declaration changes (ensureOne, advance).
THEOREM WatermarkAdvances == Spec => [][\A t \in Types : Advances(t)]_vars
<1>1. SInv /\ [Next]_vars => [\A t \in Types : Advances(t)]_vars
  BY StepsForward
<1> QED
  BY <1>1, SchedulerInvariant, PTL DEF Spec

\* From the operator's pause to the resumption nothing is enqueued, by workers of
\* whichever release, not even when the declaration changes (setPaused, lockRow).
THEOREM PausedIsQuiet == Spec => [][\A t \in Types : Quiet(t)]_vars
<1>1. SInv /\ [Next]_vars => [\A t \in Types : Quiet(t)]_vars
  BY StepsForward
<1> QED
  BY <1>1, SchedulerInvariant, PTL DEF Spec

-----------------------------------------------------------------------------
(***************************************************************************)
(* When the releases do not agree                                          *)
(***************************************************************************)

\* The jobs that are not over can be laid to the workers, to each no more than
\* one scan enqueues; and a tick under way is younger than those of its worker.
Laid(t, h) ==
  /\ h \in Injection(Active(t), Workers \X (1..CatchUp[t]))
  /\ \A o \in Active(t) :
       tick[h[o][1]].left # <<>> => o[2] <= tick[h[o][1]].now

AInv ==
  \A t \in SkipsOverlap :
    /\ \E h : Laid(t, h)
    /\ \A o \in Active(t) : o[2] <= clock

\* So many jobs as have numbers can be numbered.
LEMMA Numbered ==
  ASSUME NEW N, IsFiniteSet(N), NEW n \in Nat, Cardinality(N) <= n
  PROVE  \E g : /\ g \in [N -> 1..n]
                /\ \A a, b \in N : g[a] = g[b] => a = b
<1>1. Cardinality(N) \in Nat /\ ExistsBijection(1..Cardinality(N), N)
  BY FS_CardinalityType
<1>2. PICK f : f \in Bijection(1..Cardinality(N), N)
  BY <1>1 DEF ExistsBijection
<1>3. /\ f \in [1..Cardinality(N) -> N]
      /\ \A y \in N : \E i \in 1..Cardinality(N) : f[i] = y
  BY <1>2 DEF Bijection, Surjection
<1> DEFINE g == [y \in N |-> CHOOSE i \in 1..Cardinality(N) : f[i] = y]
<1>4. \A y \in N : g[y] \in 1..Cardinality(N) /\ f[g[y]] = y
  BY <1>3
<1>5. 1..Cardinality(N) \subseteq 1..n
  BY <1>1
<1>6. g \in [N -> 1..n]
  BY <1>4, <1>5
<1> HIDE DEF g
<1> QED
  BY <1>4, <1>6

\* Fewer jobs, and ticks that are as old as they were or begin now.
LEMMA LaidStays ==
  ASSUME NEW t \in Types, NEW h, Laid(t, h),
         Active(t)' \subseteq Active(t),
         \A w \in Workers, o \in Active(t) : tick'[w].left # <<>> =>
            \/ tick[w].left # <<>> /\ tick'[w].now = tick[w].now
            \/ o[2] <= tick'[w].now
  PROVE  \E k : Laid(t, k)'
<1> DEFINE A == Active(t)
           B == Active(t)'
           P == Workers \X (1..CatchUp[t])
           k == [o \in B |-> h[o]]
<1>1. h \in [A -> P] /\ \A a, b \in A : h[a] = h[b] => a = b
  BY DEF Laid, Injection, IsInjective
<1>2. B \subseteq A
  OBVIOUS
<1>3. \A o \in B : k[o] = h[o] /\ h[o] \in P
  BY <1>1, <1>2
<1>4. \A o \in A : h[o][1] \in Workers
  BY <1>1
<1>5. \A o \in B : tick'[h[o][1]].left # <<>> => o[2] <= tick'[h[o][1]].now
  BY <1>2, <1>4 DEF Laid
<1> HIDE DEF A, P
<1>6. k \in Injection(B, P)
  <2>1. k \in [B -> P]
    BY <1>3
  <2>2. \A a, b \in B : k[a] = k[b] => a = b
    BY <1>1, <1>2, <1>3
  <2> HIDE DEF k, B
  <2> QED
    BY <2>1, <2>2 DEF Injection, IsInjective
<1>7. \A o \in B : tick'[k[o][1]].left # <<>> => o[2] <= tick'[k[o][1]].now
  BY <1>3, <1>5
<1>8. PICK c : c = k
  OBVIOUS
<1> HIDE DEF k
<1>9. Laid(t, c)'
  BY <1>6, <1>7, <1>8 DEF Laid, P, B
<1> QED
  BY <1>9

\* A tick that goes on has the time it had.
LEMMA GoesOnTimes ==
  ASSUME TypeOK, NEW w \in Workers, tick[w].left # <<>>, Goes(w)
  PROVE  \A v \in Workers : tick'[v].left # <<>> =>
           tick[v].left # <<>> /\ tick'[v].now = tick[v].now
<1> SUFFICES ASSUME NEW v \in Workers, tick'[v].left # <<>>
             PROVE  tick[v].left # <<>> /\ tick'[v].now = tick[v].now
  OBVIOUS
<1>1. tick \in [Workers -> Tick]
  BY DEF TypeOK, Tick
<1> DEFINE rest == Tail(tick[w].left)
           next == IF rest = <<>> THEN Idle ELSE [tick[w] EXCEPT !.left = rest]
<1>2. tick' = [tick EXCEPT ![w] = next]
  BY <1>1 DEF Goes
<1>3. CASE v # w
  BY <1>1, <1>2, <1>3
<1>4. CASE v = w
  <2>1. tick'[w] = next
    BY <1>1, <1>2
  <2>2. rest # <<>>
    BY <1>4, <2>1 DEF Idle
  <2>3. tick'[w] = [tick[w] EXCEPT !.left = rest]
    BY <2>1, <2>2
  <2> HIDE DEF rest, next
  <2>4. tick'[w].now = tick[w].now
    BY <1>1, <2>3 DEF Tick
  <2> QED
    BY <1>4, <2>4
<1> QED
  BY <1>3, <1>4

\* A scan that enqueues while jobs are open is older than all of them, so that
\* none of them is laid to its worker.
LEMMA ScanIsLaid ==
  ASSUME NEW t \in SkipsOverlap, NEW w \in Workers, NEW N, NEW h, Laid(t, h),
         TypeOK, tick[w].left # <<>>,
         Active(t)' = Active(t) \cup N, N \subseteq Occurrences, N \cap Active(t) = {},
         Cardinality(N) <= CatchUp[t],
         \A o \in N : o[2] <= tick[w].now,
         \A o \in Active(t) : ~(o[2] <= tick[w].now),
         \A v \in Workers : tick'[v].left # <<>> =>
           tick[v].left # <<>> /\ tick'[v].now = tick[v].now
  PROVE  \E k : Laid(t, k)'
<1> DEFINE A == Active(t)
           B == Active(t)'
           P == Workers \X (1..CatchUp[t])
<1>1. h \in [A -> P] /\ \A a, b \in A : h[a] = h[b] => a = b
  BY DEF Laid, Injection, IsInjective
<1>2. CatchUp[t] \in Nat /\ IsFiniteSet(N)
  BY OccurrencesFinite, RecurringSchedulerAssumption DEF RecurringSchedulerAssumption
<1>3. PICK g : /\ g \in [N -> 1..CatchUp[t]]
               /\ \A a, b \in N : g[a] = g[b] => a = b
  BY <1>2, Numbered
<1> DEFINE k == [o \in B |-> IF o \in N THEN <<w, g[o]>> ELSE h[o]]
<1>4. B = A \cup N /\ N \cap A = {}
  OBVIOUS
<1>5. \A o \in N : k[o] = <<w, g[o]>> /\ k[o] \in P /\ k[o][1] = w
  BY <1>3, <1>4
<1>6. \A o \in A : k[o] = h[o] /\ k[o] \in P /\ h[o][1] \in Workers
  BY <1>1, <1>4
<1>7. \A o \in A : h[o][1] # w
  BY DEF Laid
<1>8. \A o \in B : tick'[k[o][1]].left # <<>> => o[2] <= tick'[k[o][1]].now
  <2> SUFFICES ASSUME NEW o \in B, tick'[k[o][1]].left # <<>>
               PROVE  o[2] <= tick'[k[o][1]].now
    OBVIOUS
  <2>1. CASE o \in N
    BY <1>5, <2>1
  <2>2. CASE o \in A
    <3>1. tick[h[o][1]].left # <<>> /\ tick'[h[o][1]].now = tick[h[o][1]].now
      BY <1>6, <2>2
    <3> QED
      BY <1>6, <2>2, <3>1 DEF Laid
  <2> QED
    BY <1>4, <2>1, <2>2
<1>9. \A a, b \in B : k[a] = k[b] => a = b
  <2> HIDE DEF k, A, B, P
  <2> SUFFICES ASSUME NEW a \in B, NEW b \in B, k[a] = k[b] PROVE a = b
    OBVIOUS
  <2>1. CASE a \in N /\ b \in N
    <3>1. <<w, g[a]>> = <<w, g[b]>>
      BY <1>5, <2>1
    <3>2. g[a] = g[b]
      BY <3>1
    <3> QED
      BY <1>3, <2>1, <3>2
  <2>2. CASE a \in A /\ b \in A
    BY <1>1, <1>6, <2>2
  <2>3. CASE a \in N /\ b \in A
    BY <1>5, <1>6, <1>7, <2>3
  <2>4. CASE a \in A /\ b \in N
    BY <1>5, <1>6, <1>7, <2>4
  <2> QED
    BY <1>4, <2>1, <2>2, <2>3, <2>4
<1>10. k \in [B -> P]
  <2>1. \A o \in B : k[o] \in P
    BY <1>4, <1>5, <1>6
  <2> QED
    BY <2>1
<1>11. PICK c : c = k
  OBVIOUS
<1>12. c \in Injection(B, P)
  <2> HIDE DEF k, B, P
  <2> QED
    BY <1>9, <1>10, <1>11 DEF Injection, IsInjective
<1> HIDE DEF k
<1>13. Laid(t, c)'
  BY <1>8, <1>11, <1>12 DEF Laid
<1> QED
  BY <1>13

LEMMA AInvInit == Init => AInv
<1> SUFFICES ASSUME Init, NEW t \in SkipsOverlap
             PROVE  (\E h : Laid(t, h)) /\ \A o \in Active(t) : o[2] <= clock
  BY DEF AInv
<1>1. Active(t) = {}
  BY RecurringSchedulerAssumption DEF Init, Active, RecurringSchedulerAssumption
<1> DEFINE h == [o \in {} |-> <<>>]
<1>2. h \in Injection({}, Workers \X (1..CatchUp[t]))
  BY DEF Injection, IsInjective
<1>3. Laid(t, h)
  BY <1>1, <1>2 DEF Laid
<1> QED
  BY <1>1, <1>3

\* What starts no job.
LEMMA AInvStays ==
  ASSUME SInv, AInv, clock' \in Start..Horizon, clock <= clock',
         \A t \in SkipsOverlap : Active(t)' \subseteq Active(t),
         \A w \in Workers : tick'[w].left # <<>> =>
            \/ tick[w].left # <<>> /\ tick'[w].now = tick[w].now
            \/ tick'[w].now = clock
  PROVE  AInv'
<1> SUFFICES ASSUME NEW t \in SkipsOverlap
             PROVE  (\E h : Laid(t, h)') /\ \A o \in Active(t)' : o[2] <= clock'
  BY DEF AInv
<1>1. t \in Types
  BY RecurringSchedulerAssumption DEF RecurringSchedulerAssumption
<1>2. PICK h : Laid(t, h)
  BY DEF AInv
<1>3. \A o \in Active(t) : o[2] <= clock
  BY DEF AInv
<1>4. \E k : Laid(t, k)'
  <2>1. \A w \in Workers, o \in Active(t) : tick'[w].left # <<>> =>
            \/ tick[w].left # <<>> /\ tick'[w].now = tick[w].now
            \/ o[2] <= tick'[w].now
    BY <1>3
  <2> QED
    BY <1>1, <1>2, <2>1, LaidStays
<1>5. ASSUME NEW o \in Active(t)' PROVE o[2] <= clock'
  <2>1. o[2] <= clock /\ o[2] \in Instants
    BY <1>3 DEF Active, Occurrences
  <2>2. o[2] \in Nat /\ clock \in Nat /\ clock' \in Nat
    BY <2>1, InstantsFinite, RecurringSchedulerAssumption
       DEF RecurringSchedulerAssumption, SInv, TypeOK, Instants
  <2> QED
    BY <2>1, <2>2
<1> QED
  BY <1>4, <1>5

LEMMA EnsureIsLaid ==
  ASSUME SInv, AInv, NEW w \in Workers, Ensure(w)
  PROVE  AInv'
<1> DEFINE t == Head(tick[w].left)
           D == Declared[w][t]
           now == tick[w].now
<1>1. tick[w].left # <<>> /\ EnsureOne(t, D, now) /\ Goes(w) /\ clock' = clock
  BY DEF Ensure
<1>2. TypeOK /\ TickTimes
  BY DEF SInv
<1>3. t \in Types /\ now \in Start..Horizon /\ now <= clock
  BY <1>1, <1>2, GoesOn
<1>4. \A v \in Workers : tick'[v].left # <<>> =>
        tick[v].left # <<>> /\ tick'[v].now = tick[v].now
  BY <1>1, <1>2, GoesOnTimes
<1>5. /\ job' = [job EXCEPT ![t] = job'[t]]
      /\ \E b \in Instants : Scanned(t, D, now, b) /\ Fits(t, D, now, b)
  <2> HIDE DEF t, now
  <2> QED
    BY <1>1, <1>2, <1>3, EnsureOneScans
<1>6. PICK b \in Instants : Scanned(t, D, now, b) /\ Fits(t, D, now, b)
  BY <1>5
<1> HIDE DEF t
<1>7. job \in [Types -> [Occurrences -> States]]
  BY <1>2 DEF TypeOK, States
<1> SUFFICES ASSUME NEW u \in SkipsOverlap
             PROVE  (\E h : Laid(u, h)') /\ \A o \in Active(u)' : o[2] <= clock'
  BY DEF AInv
<1>8. u \in Types /\ CatchUp[u] \in Nat
  BY RecurringSchedulerAssumption DEF RecurringSchedulerAssumption
<1>9. PICK h : Laid(u, h)
  BY DEF AInv
<1>10. \A o \in Active(u) : o[2] <= clock
  BY DEF AInv
<1>11. CASE job'[u] = job[u]
  <2>1. Active(u)' = Active(u)
    BY <1>11 DEF Active
  <2>2. \E k : Laid(u, k)'
    BY <1>4, <1>8, <1>9, <2>1, LaidStays
  <2> QED
    BY <1>1, <1>10, <2>1, <2>2
<1>12. CASE job'[u] # job[u]
  <2>1. u = t
    BY <1>5, <1>7, <1>8, <1>12
  <2>2. PICK all \in SUBSET Instants :
          /\ \A o \in all : b < o /\ o <= now
          /\ \A k \in Occurrences : job'[u][k] # job[u][k] =>
               \E o \in Newest(all, CatchUp[u]) : k = Key(D, o)
          /\ (\E k \in Occurrences : job'[u][k] # job[u][k]) /\ u \in SkipsOverlap
               => ~HasActiveJob(u, now) /\ all # {}
    <3> HIDE DEF now, D
    <3> QED
      BY <1>6, <2>1 DEF Fits
  <2>3. \E k \in Occurrences : job'[u][k] # job[u][k]
    <3>1. job[u] \in [Occurrences -> States] /\ job'[u] \in [Occurrences -> States]
      BY <1>6, <1>7, <1>8, <2>1 DEF Scanned
    <3> QED
      BY <1>12, <3>1
  <2>4. ~HasActiveJob(u, now)
    BY <2>2, <2>3
  <2>5. PICK N : N = {k \in Occurrences : job'[u][k] # job[u][k]}
    OBVIOUS
  <2>6. \A k \in Occurrences :
          \/ job'[u][k] = job[u][k]
          \/ job[u][k] = "none" /\ job'[u][k] = "due"
    BY <1>6, <2>1 DEF Scanned
  <2>7. /\ Active(u)' = Active(u) \cup N /\ N \subseteq Occurrences
        /\ N \cap Active(u) = {}
    BY <2>5, <2>6 DEF Active
  <2>8. N \subseteq {Key(D, o) : o \in Newest(all, CatchUp[u])}
    BY <2>2, <2>5
  <2>9. Cardinality(N) <= CatchUp[u]
    <3>1. IsFiniteSet(all) /\ all \subseteq Nat
      BY <2>2, InstantsFinite
    <3>2. /\ IsFiniteSet(Newest(all, CatchUp[u]))
          /\ Cardinality(Newest(all, CatchUp[u])) <= CatchUp[u]
      BY <1>8, <3>1, NewestBound
    <3> HIDE DEF D
    <3> QED
      BY <1>8, <2>8, <3>2, KeysBound
  <2>10. \A o \in N : o[2] <= tick[w].now
    <3> SUFFICES ASSUME NEW o \in Newest(all, CatchUp[u]) PROVE Key(D, o)[2] <= now
      BY <2>8
    <3>1. o \in all /\ Key(D, o)[2] = o
      BY DEF Newest, Key
    <3> QED
      BY <2>2, <3>1
  <2>11. \A o \in Active(u) : ~(o[2] <= tick[w].now)
    <3> SUFFICES ASSUME NEW o \in Active(u), o[2] <= tick[w].now PROVE FALSE
      OBVIOUS
    <3>1. o \in Occurrences /\ job[u][o] \in {"due", "retrying"}
      BY DEF Active
    <3> QED
      BY <2>4, <3>1 DEF HasActiveJob, HasDueJob
  <2>12. \E k : Laid(u, k)'
    BY <1>1, <1>2, <1>4, <1>9, <2>7, <2>9, <2>10, <2>11, ScanIsLaid
  <2>13. ASSUME NEW o \in N PROVE o[2] <= clock
    <3>1. o[2] \in Nat /\ now \in Nat /\ clock \in Nat
      BY <1>2, <1>3, <2>7, InstantsFinite, RecurringSchedulerAssumption
         DEF RecurringSchedulerAssumption, Instants, TypeOK, Occurrences
    <3> QED
      BY <1>3, <2>10, <3>1
  <2> QED
    BY <1>1, <1>10, <2>7, <2>12, <2>13
<1> QED
  BY <1>11, <1>12

LEMMA AInvStep ==
  ASSUME SInv, AInv, [Next]_vars
  PROVE  AInv'
<1>1. TypeOK /\ SkipsOverlap \subseteq Types
  BY RecurringSchedulerAssumption DEF SInv, RecurringSchedulerAssumption
<1>2. /\ job \in [Types -> [Occurrences -> States]] /\ tick \in [Workers -> Tick]
      /\ clock \in Start..Horizon /\ Start \in Nat /\ Horizon \in Nat
  BY <1>1, RecurringSchedulerAssumption
     DEF TypeOK, States, Tick, RecurringSchedulerAssumption, Instants
<1>3. clock <= clock
  BY <1>2
<1>4. ASSUME UNCHANGED <<clock, job, tick>>
      PROVE  AInv'
  <2>1. \A t \in SkipsOverlap : Active(t)' \subseteq Active(t)
    BY <1>4 DEF Active
  <2> QED
    BY <1>2, <1>3, <1>4, <2>1, AInvStays
<1>5. ASSUME NEW w \in Workers, UNCHANGED <<clock, job>>,
             \A v \in Workers : tick'[v].left # <<>> =>
               \/ tick[v].left # <<>> /\ tick'[v].now = tick[v].now
               \/ tick'[v].now = clock
      PROVE  AInv'
  <2>1. \A t \in SkipsOverlap : Active(t)' \subseteq Active(t)
    BY <1>5 DEF Active
  <2> QED
    BY <1>2, <1>3, <1>5, <2>1, AInvStays
<1>6. ASSUME NEW w \in Workers, Begin(w)
      PROVE  AInv'
  <2>1. \A v \in Workers : tick'[v].left # <<>> =>
          \/ tick[v].left # <<>> /\ tick'[v].now = tick[v].now
          \/ tick'[v].now = clock
    BY <1>2, <1>6 DEF Begin
  <2> QED
    BY <1>5, <1>6, <2>1 DEF Begin, tables
<1>7. ASSUME NEW w \in Workers, Defer(w) \/ Restart(w)
      PROVE  AInv'
  <2>1. \A v \in Workers : tick'[v].left # <<>> =>
          tick[v].left # <<>> /\ tick'[v].now = tick[v].now
    BY <1>2, <1>7 DEF Defer, Restart, Idle
  <2> QED
    BY <1>5, <1>7, <2>1 DEF Defer, Restart, tables
<1>8. ASSUME NEW w \in Workers, EnsureFails(w)
      PROVE  AInv'
  <2>1. \A v \in Workers : tick'[v].left # <<>> =>
          tick[v].left # <<>> /\ tick'[v].now = tick[v].now
    BY <1>1, <1>8, GoesOnTimes DEF EnsureFails
  <2> QED
    BY <1>5, <1>8, <2>1 DEF EnsureFails, tables
<1>9. ASSUME NEW t \in SkipsOverlap, NEW k \in Occurrences, NEW s \in {"retrying", "over"},
             job[t][k] \in {"due", "retrying"}, job' = [job EXCEPT ![t][k] = s],
             UNCHANGED <<clock, tick>>
      PROVE  AInv'
  <2>1. \A u \in Types, i \in Occurrences :
          u # t \/ i # k => job'[u][i] = job[u][i]
    BY <1>1, <1>2, <1>9
  <2>2. ASSUME NEW u \in SkipsOverlap
        PROVE  Active(u)' \subseteq Active(u)
    <3> SUFFICES ASSUME NEW i \in Occurrences, job'[u][i] \in {"due", "retrying"}
                 PROVE  job[u][i] \in {"due", "retrying"}
      BY DEF Active
    <3> QED
      BY <1>1, <1>9, <2>1
  <2> QED
    BY <1>2, <1>3, <1>9, <2>2, AInvStays
<1>10. CASE Pass
  <2>1. clock' \in Start..Horizon /\ clock <= clock'
    BY <1>2, <1>10 DEF Pass
  <2>2. \A t \in SkipsOverlap : Active(t)' \subseteq Active(t)
    BY <1>10 DEF Pass, tables, Active
  <2> QED
    BY <1>10, <2>1, <2>2, AInvStays DEF Pass
<1>11. CASE UNCHANGED vars
  BY <1>4, <1>11 DEF vars, tables
<1>12. CASE Next
  <2>1. ASSUME NEW w \in Workers, Work(w) \/ EnsureFails(w) \/ Restart(w)
        PROVE  AInv'
    BY <1>6, <1>7, <1>8, <2>1, EnsureIsLaid DEF Work
  <2>2. ASSUME NEW t \in Types, NEW w \in Workers, NEW p \in BOOLEAN, SetPaused(t, w, p)
        PROVE  AInv'
    BY <1>4, <2>2 DEF SetPaused
  <2>3. ASSUME NEW t \in Types, NEW k \in Occurrences, JobFails(t, k) \/ JobEnds(t, k)
        PROVE  AInv'
    BY <1>9, <2>3 DEF JobFails, JobEnds
  <2> QED
    BY <1>10, <1>12, <2>1, <2>2, <2>3 DEF Next
<1> QED
  BY <1>11, <1>12

\* The releases may disagree, and ticks be of any age: of a schedule that must not
\* overlap there are never more jobs than one scan of every worker may enqueue
\* (hasActiveJob sees what was due when the tick began).
PileIsBounded ==
  \A t \in SkipsOverlap :
    Cardinality({k \in Occurrences : job[t][k] \in {"due", "retrying"}})
      <= Cardinality(Workers) * CatchUp[t]

\* It holds whatever Declared is.
THEOREM DisagreementIsBounded == Spec => []PileIsBounded
<1>1. Init => SInv /\ AInv
  BY SInvInit, AInvInit
<1>2. (SInv /\ AInv) /\ [Next]_vars => (SInv /\ AInv)'
  BY SInvStep, AInvStep
<1>3. AInv => PileIsBounded
  <2> SUFFICES ASSUME AInv, NEW t \in SkipsOverlap
               PROVE  Cardinality(Active(t)) <= Cardinality(Workers) * CatchUp[t]
    BY DEF PileIsBounded, Active
  <2>1. PICK h : h \in Injection(Active(t), Workers \X (1..CatchUp[t]))
    BY DEF AInv, Laid
  <2>2. CatchUp[t] \in Nat
    BY RecurringSchedulerAssumption DEF RecurringSchedulerAssumption
  <2>3. IsFiniteSet(1..CatchUp[t]) /\ Cardinality(1..CatchUp[t]) = CatchUp[t]
    BY <2>2, FS_Interval
  <2>4. /\ IsFiniteSet(Workers \X (1..CatchUp[t]))
        /\ Cardinality(Workers \X (1..CatchUp[t])) = Cardinality(Workers) * CatchUp[t]
    BY <2>3, FS_Product, RecurringSchedulerAssumption DEF RecurringSchedulerAssumption
  <2> QED
    BY <2>1, <2>4, FS_Injection
<1> QED
  BY <1>1, <1>2, <1>3, PTL DEF Spec
=============================================================================

------------------------ MODULE BookingRefundProofs ------------------------
(***************************************************************************)
(* The safety properties of BookingRefund, for any refunds, generations,   *)
(* attempts, runs, batches and faults.                                     *)
(***************************************************************************)
EXTENDS BookingRefund, FiniteSetTheorems, TLAPS

\* A refund has a generation from the moment it is owed.
HeaderOK ==
  \A r \in Refunds : refund[r].status = "none" <=> refund[r].generation = 0

\* A row that is due has an attempt left; a generation that has not begun has
\* no row.
JobsOK ==
  \A r \in Refunds, g \in Generations :
    /\ job[r][g].state = "pending" => job[r][g].attempts < MaxAttempts
    /\ g > refund[r].generation => job[r][g].state = "none"

\* One run holds the claim of a running row at most, and a stall takes the
\* claim of one run.
SameClaim(u, v) ==
  /\ u.stall = v.stall
  /\ Holds(u) => u.refund = v.refund /\ u.generation = v.generation

ClaimsOK ==
  /\ \A u \in runs : u.stall <= faults
  /\ \A u \in runs : Holds(u) => job[u.refund][u.generation].state = "running"
  /\ \A u, v \in runs : SameClaim(u, v) => u = v

\* A call has the number that follows those recorded when it was asked for: the
\* next one, or one that another run has used since.
Asking == Answers \cup {"calling", "lost", "mismatch"}
Calls(r, g) == Cardinality(Evidence(r, g))
NumbersOK ==
  \A u \in runs : u.stage \in Asking =>
    0 < u.n /\ u.n <= Calls(u.refund, u.generation) + 1

IInv == /\ TypeOK /\ IsFiniteSet(evidence) /\ IsFiniteSet(runs)
        /\ HeaderOK /\ EvidenceMatchesHeader
        /\ JobsOK /\ ClaimsOK /\ NumbersOK
-----------------------------------------------------------------------------
(***************************************************************************)
(* Rows of the queue                                                       *)
(***************************************************************************)
Good(j) == j \in Row /\ (j.state = "pending" => j.attempts < MaxAttempts)

\* The operators of QueueRow keep a row good; none of them ends a running row
\* but a settlement.
LEMMA RowOps ==
  ASSUME NEW j, Good(j)
  PROVE  /\ Good(Due) /\ Due.state = "pending" /\ Good(NoJob) /\ NoJob.state = "none"
         /\ Good(Enqueued(j)) /\ (j.state = "running" => Enqueued(j).state = "running")
         /\ j.state = "pending" => Good(Claimed(j)) /\ Claimed(j).state = "running"
         /\ Good(Completed(j))
         /\ \A p \in BOOLEAN : Good(Failed(j, p))
<1>1. /\ Good(Due) /\ Due.state = "pending"
      /\ Good(NoJob) /\ NoJob.state = "none"
      /\ Good(Closed("done")) /\ Good(Closed("dead"))
  BY QueueRowAssumption DEF Good, Due, NoJob, Closed, Row
<1>2. /\ j.state \in {"none", "pending", "running", "done", "dead"}
      /\ j.attempts \in 0..MaxAttempts /\ j.again \in BOOLEAN
      /\ j = [state |-> j.state, attempts |-> j.attempts, again |-> j.again]
  BY DEF Good, Row
<1>3. Good(Enqueued(j)) /\ (j.state = "running" => Enqueued(j).state = "running")
  <2>1. j.state = "running" =>
          [j EXCEPT !.again = TRUE] \in Row /\ [j EXCEPT !.again = TRUE].state = "running"
    BY <1>2 DEF Row
  <2> QED
    BY <1>1, <2>1 DEF Enqueued, Good
<1>4. j.state = "pending" => Good(Claimed(j)) /\ Claimed(j).state = "running"
  <2> SUFFICES ASSUME j.state = "pending"
               PROVE  Good(Claimed(j)) /\ Claimed(j).state = "running"
    OBVIOUS
  <2>1. j.attempts + 1 \in 0..MaxAttempts
    BY <1>2, QueueRowAssumption DEF Good
  <2>2. Claimed(j) \in Row /\ Claimed(j).state = "running"
    BY <2>1 DEF Good, Claimed, Row
  <2> QED
    BY <2>2 DEF Good
<1>5. Good(Completed(j))
  BY <1>1 DEF Completed, Settled
<1>6. ASSUME NEW p \in BOOLEAN PROVE Good(Failed(j, p))
  <2>1. j.attempts < MaxAttempts => Good([j EXCEPT !.state = "pending"])
    BY <1>2 DEF Good, Row
  <2>2. CASE j.again \/ p \/ j.attempts >= MaxAttempts
    BY <1>1, <2>2 DEF Failed, Settled
  <2>3. CASE ~(j.again \/ p \/ j.attempts >= MaxAttempts)
    <3>1. Failed(j, p) = [j EXCEPT !.state = "pending"]
      BY <2>3 DEF Failed, Settled
    <3> QED
      BY <1>2, <2>1, <2>3, <3>1, QueueRowAssumption
  <2> QED
    BY <2>2, <2>3
<1> QED
  BY <1>1, <1>3, <1>4, <1>5, <1>6

-----------------------------------------------------------------------------
(***************************************************************************)
(* Evidence                                                                *)
(***************************************************************************)
Outcomes == Answers \cup {"indeterminate"}
EvidenceRow == [refund : Refunds, generation : Generations, n : Nat, outcome : Outcomes]
HeaderRow == [status : {"none", "pending", "succeeded", "failed"},
              generation : {0} \cup Generations]

\* What the steps that record look at.
EInv == /\ refund \in [Refunds -> HeaderRow]
        /\ evidence \subseteq EvidenceRow /\ IsFiniteSet(evidence)
        /\ HeaderOK /\ EvidenceMatchesHeader

LEMMA GenerationsAreNumbers ==
  /\ Generations \subseteq Nat \ {0}
  /\ \A r \in Refunds : 1..MaxGenerations[r] \subseteq Generations /\ 1 \in Generations
BY BookingRefundAssumption DEF Generations

LEMMA GenerationsOf ==
  ASSUME EInv
  PROVE  \A r \in Refunds : refund[r] \in HeaderRow /\ refund[r].generation \in Nat
<1> SUFFICES ASSUME NEW r \in Refunds
             PROVE  refund[r] \in HeaderRow /\ refund[r].generation \in Nat
  OBVIOUS
<1>1. refund[r] \in HeaderRow
  BY DEF EInv
<1>2. refund[r].generation \in {0} \cup Generations
  BY <1>1 DEF HeaderRow
<1>3. {0} \cup Generations \subseteq Nat
  BY GenerationsAreNumbers
<1>4. refund[r].generation \in Nat
  BY <1>2, <1>3
<1> QED
  BY <1>1, <1>4

LEMMA GenerationsOfNext ==
  ASSUME EInv'
  PROVE  \A r \in Refunds : refund'[r].generation \in Nat
<1> SUFFICES ASSUME NEW r \in Refunds PROVE refund'[r].generation \in Nat
  OBVIOUS
<1>1. refund'[r] \in HeaderRow
  BY DEF EInv
<1>2. refund'[r].generation \in {0} \cup Generations
  BY <1>1 DEF HeaderRow
<1>3. {0} \cup Generations \subseteq Nat
  BY GenerationsAreNumbers
<1> QED
  BY <1>2, <1>3

LEMMA CallsAreCounted ==
  ASSUME evidence \subseteq EvidenceRow, IsFiniteSet(evidence), NEW r, NEW g
  PROVE  /\ IsFiniteSet(Evidence(r, g)) /\ Calls(r, g) \in Nat
         /\ Evidence(r, g) \subseteq EvidenceRow
         /\ Numbers(r, g) = {e.n : e \in Evidence(r, g)}
<1>1. Evidence(r, g) \subseteq evidence
  BY DEF Evidence
<1>2. IsFiniteSet(Evidence(r, g))
  BY <1>1, FS_Subset
<1>3. Numbers(r, g) = {e.n : e \in Evidence(r, g)}
  BY DEF Numbers, Evidence
<1> QED
  BY <1>1, <1>2, <1>3, FS_CardinalityType DEF Calls

\* The next call follows the recorded ones.
LEMMA NextNumber ==
  ASSUME EInv, NEW r \in Refunds, NEW g \in Generations
  PROVE  /\ Numbers(r, g) = 1..Calls(r, g)
         /\ Max({0} \cup Numbers(r, g)) = Calls(r, g)
<1>1. Calls(r, g) \in Nat /\ Numbers(r, g) = {e.n : e \in Evidence(r, g)}
  BY CallsAreCounted DEF EInv
<1>2. Orderly(Evidence(r, g))
  BY DEF EInv, EvidenceMatchesHeader
<1>3. Numbers(r, g) = 1..Calls(r, g)
  BY <1>1, <1>2 DEF Orderly, Calls
<1>4. {0} \cup Numbers(r, g) = 0..Calls(r, g)
  BY <1>1, <1>3
<1>5. Max(0..Calls(r, g)) = Calls(r, g)
  BY <1>1 DEF Max
<1> QED
  BY <1>3, <1>4, <1>5

\* A row numbered next says what the evidence says last.
LEMMA AddedRow ==
  ASSUME NEW E, IsFiniteSet(E), \A e \in E : e.n \in Nat /\ e.outcome \in Outcomes,
         Orderly(E), ~LastSays(E, Answers),
         NEW x, x.n = Cardinality(E) + 1, NEW F, F = E \cup {x}
  PROVE  /\ IsFiniteSet(F) /\ Cardinality(F) = Cardinality(E) + 1
         /\ Orderly(F)
         /\ \A S : LastSays(F, S) <=> x.outcome \in S
<1>1. Cardinality(E) \in Nat
  BY FS_CardinalityType
<1>2. \A e \in E : e.n \in 1..Cardinality(E)
  BY DEF Orderly
<1>3. x \notin E
  BY <1>1, <1>2
<1>4. IsFiniteSet(F) /\ Cardinality(F) = Cardinality(E) + 1
  BY <1>3, FS_AddElement
<1>5. \A e \in E : e.outcome = "indeterminate"
  BY <1>1, <1>2 DEF Orderly, LastSays, Outcomes
<1>6. {e.n : e \in F} = 1..(Cardinality(E) + 1)
  <2>1. {e.n : e \in F} = {e.n : e \in E} \cup {x.n}
    OBVIOUS
  <2>2. {e.n : e \in E} = 1..Cardinality(E)
    BY DEF Orderly
  <2> QED
    BY <1>1, <2>1, <2>2
<1>7. Orderly(F)
  <2>1. {e.n : e \in F} = 1..Cardinality(F)
    BY <1>4, <1>6
  <2>2. \A e \in F : e.n < Cardinality(F) => e.outcome = "indeterminate"
    BY <1>1, <1>4, <1>5
  <2> QED
    BY <2>1, <2>2 DEF Orderly
<1>8. \A S : LastSays(F, S) <=> x.outcome \in S
  BY <1>1, <1>2, <1>4 DEF LastSays
<1> QED
  BY <1>4, <1>7, <1>8

\* What a row of evidence makes of the header.
Fits(outcome, status) ==
  \/ outcome = "succeeded" /\ status = "succeeded"
  \/ outcome = "rejected" /\ status = "failed"
  \/ outcome = "indeterminate" /\ status \in {"failed", "pending"}

\* The properties of one refund, which EvidenceMatchesHeader says of each.
Told(r) ==
  LET h == refund[r]
  IN  /\ \A g \in Generations :
           /\ Orderly(Evidence(r, g))
           /\ g < h.generation => LastSays(Evidence(r, g), {"rejected", "indeterminate"})
           /\ g > h.generation => Evidence(r, g) = {}
      /\ h.status = "pending" => ~LastSays(Evidence(r, h.generation), Answers)
      /\ h.status = "succeeded" => LastSays(Evidence(r, h.generation), {"succeeded"})
      /\ h.status = "failed" =>
           LastSays(Evidence(r, h.generation), {"rejected", "indeterminate"})

LEMMA ToldOfEach == EvidenceMatchesHeader <=> \A r \in Refunds : Told(r)
  BY DEF EvidenceMatchesHeader, Told

LEMMA ToldStays ==
  ASSUME NEW r, Told(r), refund'[r] = refund[r],
         \A g \in Generations \cup {0} : Evidence(r, g)' = Evidence(r, g),
         refund[r].generation \in Generations \cup {0}
  PROVE  Told(r)'
<1>1. Evidence(r, refund[r].generation)' = Evidence(r, refund[r].generation)
  <2>1. PICK h \in Generations \cup {0} : h = refund[r].generation
    OBVIOUS
  <2>2. refund'[r].generation = h
    BY <2>1
  <2> QED
    BY <2>1, <2>2 DEF Evidence
<1> QED
  BY <1>1 DEF Told

\* The answer, or that there was none, is recorded under the lock of a header
\* that waits for it.
LEMMA RecordedStep ==
  ASSUME EInv, NEW u \in Run, NEW outcome, NEW status,
         Current(u), Recorded(u, outcome, status), Fits(outcome, status),
         u.n \notin Numbers(u.refund, u.generation),
         0 < u.n, u.n <= Calls(u.refund, u.generation) + 1
  PROVE  /\ EInv' /\ evidence \subseteq evidence'
         /\ \A r \in Refunds :
              /\ refund'[r].generation = refund[r].generation
              /\ refund'[r] # refund[r] => refund[r].status = "pending"
         /\ \A r \in Refunds, g \in Generations : Calls(r, g) <= Calls(r, g)'
<1> DEFINE x == [refund |-> u.refund, generation |-> u.generation, n |-> u.n,
                 outcome |-> outcome]
<1>0. PICK r \in Refunds, g \in Generations : r = u.refund /\ g = u.generation
  BY DEF Run
<1>1. /\ refund[r] = [status |-> "pending", generation |-> g]
      /\ u.n \in Nat /\ outcome \in Outcomes
      /\ status \in {"pending", "succeeded", "failed"}
  BY <1>0 DEF Current, Run, Fits, Outcomes, Answers
<1>2. x \in EvidenceRow /\ evidence' = evidence \cup {x} /\ x.n = u.n
      /\ x.refund = r /\ x.generation = g /\ x.outcome = outcome
  BY <1>0, <1>1 DEF Recorded, EvidenceRow
<1> HIDE DEF x
<1>3. /\ refund' \in [Refunds -> HeaderRow]
      /\ refund'[r].generation = g /\ refund'[r].status = status
      /\ \A q \in Refunds : q # r => refund'[q] = refund[q]
  <2>1. refund \in [Refunds -> HeaderRow]
    BY DEF EInv
  <2>2. CASE status = "pending"
    BY <1>0, <1>1, <2>1, <2>2 DEF Recorded
  <2>3. CASE status # "pending"
    <3>1. refund' = [refund EXCEPT ![r] = [refund[r] EXCEPT !.status = status]]
      BY <1>0, <2>3 DEF Recorded
    <3>2. LET h == [refund[r] EXCEPT !.status = status]
          IN  h \in HeaderRow /\ h.generation = g /\ h.status = status
      BY <1>1 DEF HeaderRow
    <3> QED
      BY <2>1, <3>1, <3>2
  <2> QED
    BY <2>2, <2>3
<1>4. /\ Evidence(r, g)' = Evidence(r, g) \cup {x}
      /\ \A q, h : <<q, h>> # <<r, g>> => Evidence(q, h)' = Evidence(q, h)
  BY <1>2 DEF Evidence
<1>5. Calls(r, g) \in Nat /\ IsFiniteSet(Evidence(r, g))
      /\ \A e \in Evidence(r, g) : e.n \in Nat /\ e.outcome \in Outcomes
  BY CallsAreCounted DEF EInv, EvidenceRow
<1>6. x.n = Cardinality(Evidence(r, g)) + 1
  <2>1. u.n \notin Numbers(r, g) /\ 0 < u.n /\ u.n <= Calls(r, g) + 1
    BY <1>0
  <2>2. Numbers(r, g) = 1..Calls(r, g)
    BY NextNumber
  <2> QED
    BY <1>1, <1>2, <1>5, <2>1, <2>2 DEF Calls
<1>7. Told(r)
  BY ToldOfEach DEF EInv
<1>8. Orderly(Evidence(r, g)) /\ ~LastSays(Evidence(r, g), Answers)
  BY <1>1, <1>7 DEF Told
<1>9. /\ Cardinality(Evidence(r, g)') = Cardinality(Evidence(r, g)) + 1
      /\ Orderly(Evidence(r, g)')
      /\ \A S : LastSays(Evidence(r, g)', S) <=> outcome \in S
  <2> DEFINE E == Evidence(r, g)
             F == Evidence(r, g)'
  <2>1. IsFiniteSet(E) /\ F = E \cup {x} /\ x.n = Cardinality(E) + 1
        /\ Orderly(E) /\ ~LastSays(E, Answers)
        /\ \A e \in E : e.n \in Nat /\ e.outcome \in Outcomes
    BY <1>4, <1>5, <1>6, <1>8
  <2> HIDE DEF E, F
  <2>2. /\ Cardinality(F) = Cardinality(E) + 1
        /\ Orderly(F)
        /\ \A S : LastSays(F, S) <=> x.outcome \in S
    BY <2>1, AddedRow
  <2> QED
    BY <1>2, <2>2 DEF E, F
<1>10. Told(r)'
  <2>1. ASSUME NEW h \in Generations
        PROVE  /\ Orderly(Evidence(r, h)')
               /\ h < g => LastSays(Evidence(r, h)', {"rejected", "indeterminate"})
               /\ h > g => Evidence(r, h)' = {}
    <3>1. CASE h = g
      BY <1>9, <3>1, GenerationsAreNumbers
    <3>2. CASE h # g
      <4>1. Evidence(r, h)' = Evidence(r, h)
        BY <1>4, <3>2
      <4>2. /\ Orderly(Evidence(r, h))
            /\ h < g => LastSays(Evidence(r, h), {"rejected", "indeterminate"})
            /\ h > g => Evidence(r, h) = {}
        BY <1>1, <1>7 DEF Told
      <4> QED
        BY <4>1, <4>2
    <3> QED
      BY <3>1, <3>2
  <2>2. /\ status = "pending" => ~LastSays(Evidence(r, g)', Answers)
        /\ status = "succeeded" => LastSays(Evidence(r, g)', {"succeeded"})
        /\ status = "failed" => LastSays(Evidence(r, g)', {"rejected", "indeterminate"})
    BY <1>9 DEF Fits, Answers
  <2>3. Evidence(r, refund[r].generation)' = Evidence(r, g)'
    BY <1>3 DEF Evidence
  <2> QED
    BY <1>3, <2>1, <2>2, <2>3 DEF Told
<1>11. ASSUME NEW q \in Refunds, q # r PROVE Told(q)'
  <2>1. Told(q) /\ refund'[q] = refund[q] /\ refund[q].generation \in Generations \cup {0}
    BY <1>3, <1>11, ToldOfEach DEF EInv, HeaderRow
  <2>2. \A h \in Generations \cup {0} : Evidence(q, h)' = Evidence(q, h)
    BY <1>4, <1>11
  <2> QED
    BY <2>1, <2>2, ToldStays
<1>12. EvidenceMatchesHeader'
  <2>1. \A q \in Refunds : Told(q)'
    BY <1>10, <1>11
  <2> QED
    BY <2>1 DEF EvidenceMatchesHeader, Told
<1>13. HeaderOK'
  <2>1. g # 0
    BY GenerationsAreNumbers
  <2> QED
    BY <1>1, <1>3, <2>1 DEF EInv, HeaderOK
<1>14. evidence' \subseteq EvidenceRow /\ IsFiniteSet(evidence')
  BY <1>2, FS_AddElement DEF EInv
<1>15. ASSUME NEW q \in Refunds, NEW h \in Generations PROVE Calls(q, h) <= Calls(q, h)'
  <2>1. Calls(q, h) \in Nat
    BY CallsAreCounted DEF EInv
  <2>2. CASE q = r /\ h = g
    BY <1>9, <2>1, <2>2 DEF Calls
  <2>3. CASE ~(q = r /\ h = g)
    BY <1>4, <2>1, <2>3 DEF Calls
  <2> QED
    BY <2>2, <2>3
<1>16. \A q \in Refunds : /\ refund'[q].generation = refund[q].generation
                          /\ refund'[q] # refund[q] => refund[q].status = "pending"
  BY <1>1, <1>3
<1> QED
  BY <1>2, <1>3, <1>12, <1>13, <1>14, <1>15, <1>16 DEF EInv

-----------------------------------------------------------------------------
(***************************************************************************)
(* The parts of the invariant                                              *)
(***************************************************************************)

\* What the steps of the queue and of the workers look at.
QInv == /\ job \in [Refunds -> [Generations -> Row]]
        /\ runs \subseteq Run /\ IsFiniteSet(runs) /\ Cardinality(runs) <= MaxRuns
        /\ faults \in 0..MaxFaults
        /\ JobsOK /\ ClaimsOK

LEMMA Parts == IInv <=> EInv /\ QInv /\ NumbersOK
  BY DEF IInv, EInv, QInv, TypeOK, HeaderRow, EvidenceRow, Outcomes

LEMMA PartsNext == EInv' /\ QInv' /\ NumbersOK' => IInv'
  BY DEF IInv, EInv, QInv, TypeOK, HeaderRow, EvidenceRow, Outcomes

LEMMA EStays ==
  ASSUME EInv, UNCHANGED <<refund, evidence>>
  PROVE  /\ EInv'
         /\ \A r, g : Calls(r, g)' = Calls(r, g)
<1>1. \A r, g : Evidence(r, g)' = Evidence(r, g)
  BY DEF Evidence
<1>2. \A r, g : Calls(r, g)' = Calls(r, g)
  BY <1>1 DEF Calls
<1>3. EvidenceMatchesHeader'
  <2>1. ASSUME NEW r \in Refunds PROVE Told(r)'
    <3>1. Told(r) /\ refund[r].generation \in Generations \cup {0}
      BY ToldOfEach DEF EInv, HeaderRow
    <3> QED
      BY <1>1, <3>1, ToldStays
  <2> QED
    BY <2>1 DEF EvidenceMatchesHeader, Told
<1> QED
  BY <1>2, <1>3 DEF EInv, HeaderOK

\* What has been called for is not taken back by a recorded call.
LEMMA NumbersStay ==
  ASSUME EInv, NumbersOK, runs \subseteq Run,
         \A r \in Refunds, g \in Generations :
           Calls(r, g)' \in Nat /\ Calls(r, g) <= Calls(r, g)',
         \A w \in runs' : \/ w \in runs
                          \/ w.stage \notin Asking
                          \/ /\ w \in Run /\ 0 < w.n
                             /\ \E r \in Refunds, g \in Generations :
                                  /\ r = w.refund /\ g = w.generation
                                  /\ w.n <= Calls(r, g) + 1
  PROVE  NumbersOK'
<1> SUFFICES ASSUME NEW w \in runs', w.stage \in Asking
             PROVE  0 < w.n /\ w.n <= Calls(w.refund, w.generation)' + 1
  BY DEF NumbersOK
<1>1. w \in Run /\ 0 < w.n /\ \E r \in Refunds, g \in Generations :
        r = w.refund /\ g = w.generation /\ w.n <= Calls(r, g) + 1
  <2>1. CASE w \in runs
    BY <2>1 DEF NumbersOK, Run
  <2> QED
    BY <2>1
<1>2. PICK r \in Refunds, g \in Generations :
        r = w.refund /\ g = w.generation /\ w.n <= Calls(r, g) + 1
  BY <1>1
<1>3. w.n <= Calls(r, g)' + 1
  <2>1. Calls(r, g) \in Nat /\ w.n \in Nat
    BY <1>1, CallsAreCounted DEF EInv, Run
  <2> QED
    BY <1>2, <2>1
<1> QED
  BY <1>1, <1>2, <1>3

LEMMA JobMoved ==
  ASSUME QInv, NEW r \in Refunds, NEW g \in Generations, NEW j, Good(j),
         job' = [job EXCEPT ![r][g] = j]
  PROVE  /\ job' \in [Refunds -> [Generations -> Row]]
         /\ job'[r][g] = j
         /\ \A q \in Refunds, h \in Generations :
              <<q, h>> # <<r, g>> => job'[q][h] = job[q][h]
<1>1. job \in [Refunds -> [Generations -> Row]] /\ j \in Row
  BY DEF QInv, Good
<1>2. job' = [job EXCEPT ![r] = [job[r] EXCEPT ![g] = j]]
  OBVIOUS
<1> QED
  BY <1>1, <1>2

LEMMA JobFacts ==
  ASSUME QInv, NEW r \in Refunds, NEW g \in Generations
  PROVE  Good(job[r][g])
  BY DEF QInv, JobsOK, Good

LEMMA OneForAnother ==
  ASSUME NEW S, IsFiniteSet(S), NEW u \in S, NEW v
  PROVE  /\ IsFiniteSet((S \ {u}) \cup {v})
         /\ Cardinality((S \ {u}) \cup {v}) <= Cardinality(S)
<1>1. Cardinality(S) \in Nat
  BY FS_CardinalityType
<1>2. IsFiniteSet(S \ {u}) /\ Cardinality(S \ {u}) = Cardinality(S) - 1
  BY FS_RemoveElement
<1>3. /\ IsFiniteSet((S \ {u}) \cup {v})
      /\ Cardinality((S \ {u}) \cup {v}) =
           IF v \in S \ {u} THEN Cardinality(S \ {u}) ELSE Cardinality(S \ {u}) + 1
  BY <1>2, FS_AddElement
<1> QED
  BY <1>1, <1>2, <1>3

\* The runs after one of them has become another of the same identity.
LEMMA RunBecomes ==
  ASSUME QInv, NEW u \in runs, NEW v \in Run, Becomes(u, v),
         v.refund = u.refund, v.generation = u.generation, v.stall = u.stall,
         UNCHANGED job, faults' \in 0..MaxFaults, faults <= faults',
         \A r \in Refunds : refund'[r].generation = refund[r].generation
  PROVE  QInv'
<1>1. /\ runs' = (runs \ {u}) \cup {v} /\ runs' \subseteq Run
      /\ faults \in Nat /\ faults' \in Nat
  BY DEF Becomes, QInv
<1>2. IsFiniteSet(runs') /\ Cardinality(runs') <= Cardinality(runs)
  BY <1>1, OneForAnother DEF QInv
<1>3. Cardinality(runs') <= MaxRuns
  <2>1. Cardinality(runs) \in Nat /\ Cardinality(runs') \in Nat
    BY <1>2, FS_CardinalityType DEF QInv
  <2> QED
    BY <1>2, <2>1, BookingRefundAssumption DEF QInv
<1>4. ClaimsOK'
  <2>1. \A w \in runs' : w.stall <= faults'
    <3>1. \A w \in runs : w.stall \in Nat /\ w.stall <= faults
      BY BookingRefundAssumption DEF QInv, ClaimsOK, Run
    <3> QED
      BY <1>1, <3>1
  <2>2. \A w \in runs' : Holds(w) => job[w.refund][w.generation].state = "running"
    BY <1>1 DEF QInv, ClaimsOK, Holds
  <2>3. \A w, y \in runs' : SameClaim(w, y) => w = y
    <3> SUFFICES ASSUME NEW w \in runs', NEW y \in runs', SameClaim(w, y) PROVE w = y
      OBVIOUS
    <3>1. \A a, b \in runs : SameClaim(a, b) => a = b
      BY DEF QInv, ClaimsOK
    <3>2. \A a : (SameClaim(v, a) => SameClaim(u, a)) /\ (SameClaim(a, v) => SameClaim(a, u))
      BY DEF SameClaim, Holds
    <3> QED
      BY <1>1, <3>1, <3>2
  <2> QED
    BY <2>1, <2>2, <2>3 DEF ClaimsOK
<1>5. JobsOK'
  BY DEF QInv, JobsOK
<1> QED
  BY <1>1, <1>2, <1>3, <1>4, <1>5 DEF QInv

-----------------------------------------------------------------------------
(***************************************************************************)
(* One run of the job                                                      *)
(***************************************************************************)

\* A step of a run: it goes on, and what it has recorded fits the header.
LEMMA Going ==
  ASSUME IInv, NEW u \in runs, NEW v \in Run, Becomes(u, v),
         v.refund = u.refund, v.generation = u.generation, v.stall = u.stall,
         UNCHANGED job, faults' \in 0..MaxFaults, faults <= faults', EInv',
         \A r \in Refunds : refund'[r].generation = refund[r].generation,
         \A r \in Refunds, g \in Generations : Calls(r, g) <= Calls(r, g)',
         \/ v.stage \notin Asking
         \/ v.n = u.n /\ u.stage \in Asking
         \/ v.n = Calls(u.refund, u.generation) + 1
  PROVE  IInv'
<1>1. EInv /\ QInv /\ NumbersOK
  BY Parts
<1>2. QInv'
  BY <1>1, RunBecomes
<1>3. runs' = (runs \ {u}) \cup {v} /\ runs \subseteq Run
  BY <1>1 DEF Becomes, QInv
<1>4. \A r \in Refunds, g \in Generations : Calls(r, g)' \in Nat
  <2> SUFFICES ASSUME NEW r \in Refunds, NEW g \in Generations PROVE Calls(r, g)' \in Nat
    OBVIOUS
  <2>1. Evidence(r, g)' \subseteq evidence' /\ IsFiniteSet(evidence')
    BY DEF EInv, Evidence
  <2>2. IsFiniteSet(Evidence(r, g)')
    BY <2>1, FS_Subset
  <2> QED
    BY <2>2, FS_CardinalityType DEF Calls
<1>5. PICK r \in Refunds, g \in Generations : r = v.refund /\ g = v.generation
  BY DEF Run
<1>6. Calls(r, g) \in Nat
  BY <1>1, CallsAreCounted DEF EInv
<1>7. v.stage \in Asking => 0 < v.n /\ v.n <= Calls(r, g) + 1
  BY <1>1, <1>3, <1>5, <1>6 DEF NumbersOK
<1>8. NumbersOK'
  BY <1>1, <1>3, <1>4, <1>5, <1>7, NumbersStay
<1> QED
  BY <1>2, <1>8, PartsNext

\* What Becomes, Goes and Ends make of a run.
LEMMA RunGoes ==
  ASSUME IInv, NEW u \in runs
  PROVE  /\ u \in Run
         /\ \A stage \in Asking \cup {"done", "thrown", "permanent"} :
              LET v == [u EXCEPT !.stage = stage]
              IN  /\ v \in Run /\ v.stage = stage /\ v.n = u.n /\ v.stall = u.stall
                  /\ v.refund = u.refund /\ v.generation = u.generation
         /\ \A stage \in {"done", "thrown", "permanent"} :
              LET v == [u EXCEPT !.stage = stage, !.attempt = 0, !.n = 0]
              IN  /\ v \in Run /\ v.stage = stage /\ v.stall = u.stall
                  /\ v.refund = u.refund /\ v.generation = u.generation
         /\ \A n \in Nat :
              LET v == [u EXCEPT !.stage = "calling", !.n = n]
              IN  /\ v \in Run /\ v.n = n /\ v.stall = u.stall
                  /\ v.refund = u.refund /\ v.generation = u.generation
<1>1. u \in Run
  BY DEF IInv, TypeOK
<1> QED
  BY <1>1 DEF Run, Asking, Answers

\* A run that only looks, calls or hears goes on.
LEMMA GoingQuietly ==
  ASSUME IInv, NEW u \in runs, NEW v \in Run, Becomes(u, v),
         v.refund = u.refund, v.generation = u.generation, v.stall = u.stall,
         UNCHANGED <<job, refund, evidence>>, faults' \in 0..MaxFaults, faults <= faults',
         \/ v.stage \notin Asking
         \/ v.n = u.n /\ u.stage \in Asking
         \/ v.n = Calls(u.refund, u.generation) + 1
  PROVE  IInv'
<1>1. EInv' /\ \A r, g : Calls(r, g)' = Calls(r, g)
  BY Parts, EStays
<1>2. \A r \in Refunds, g \in Generations : Calls(r, g) <= Calls(r, g)'
  <2> SUFFICES ASSUME NEW r \in Refunds, NEW g \in Generations
               PROVE  Calls(r, g) <= Calls(r, g)'
    OBVIOUS
  <2>1. Calls(r, g) \in Nat
    BY Parts, CallsAreCounted DEF EInv
  <2> QED
    BY <1>1, <2>1
<1> QED
  BY <1>1, <1>2, Going

LEMMA FaultFacts ==
  ASSUME IInv
  PROVE  /\ faults \in 0..MaxFaults /\ faults \in Nat
         /\ Fault => faults' = faults + 1 /\ faults' \in 0..MaxFaults /\ faults <= faults'
         /\ UNCHANGED faults => faults' \in 0..MaxFaults /\ faults <= faults'
  BY BookingRefundAssumption DEF IInv, TypeOK, Fault

LEMMA QuietSteps ==
  ASSUME IInv, NEW u \in runs,
         Preflight(u) \/ Call(u) \/ CallLost(u) \/ ProviderMismatch(u) \/ RecordFails(u)
  PROVE  IInv'
<1>1. CASE Preflight(u)
  <2>1. UNCHANGED <<refund, evidence, job, faults>>
    BY <1>1 DEF Preflight
  <2>2. CASE Current(u)
    <3> DEFINE n == Max({0} \cup Numbers(u.refund, u.generation)) + 1
               v == [u EXCEPT !.stage = "calling", !.n = n]
    <3>1. n = Calls(u.refund, u.generation) + 1 /\ n \in Nat
      <4>1. PICK r \in Refunds, g \in Generations : r = u.refund /\ g = u.generation
        BY RunGoes DEF Run
      <4>2. Max({0} \cup Numbers(r, g)) = Calls(r, g) /\ Calls(r, g) \in Nat
        BY Parts, NextNumber, CallsAreCounted DEF EInv
      <4> QED
        BY <4>1, <4>2
    <3>2. Becomes(u, v)
      BY <1>1, <2>2 DEF Preflight
    <3> HIDE DEF n
    <3>3. /\ v \in Run /\ v.n = n /\ v.stall = u.stall
          /\ v.refund = u.refund /\ v.generation = u.generation
      BY <3>1, RunGoes
    <3> HIDE DEF v
    <3> QED
      BY <2>1, <3>1, <3>2, <3>3, GoingQuietly, FaultFacts
  <2>3. CASE ~Current(u)
    <3> DEFINE v == [u EXCEPT !.stage = "done", !.attempt = 0, !.n = 0]
    <3>1. Becomes(u, v)
      BY <1>1, <2>3 DEF Preflight, Ends
    <3>2. /\ v \in Run /\ v.stage = "done" /\ v.stall = u.stall
          /\ v.refund = u.refund /\ v.generation = u.generation
      BY RunGoes
    <3>3. v.stage \notin Asking
      BY <3>2 DEF Asking, Answers
    <3> HIDE DEF v
    <3> QED
      BY <2>1, <3>1, <3>2, <3>3, GoingQuietly, FaultFacts
  <2> QED
    BY <2>2, <2>3
<1>2. CASE Call(u) \/ CallLost(u) \/ ProviderMismatch(u) \/ RecordFails(u)
  <2>1. PICK stage \in Answers \cup {"lost", "mismatch"} : Goes(u, stage)
    BY <1>2 DEF Call, CallLost, ProviderMismatch, RecordFails
  <2>2. /\ UNCHANGED <<refund, evidence, job>> /\ u.stage \in Asking
        /\ faults' \in 0..MaxFaults /\ faults <= faults'
    BY <1>2, FaultFacts
    DEF Call, CallLost, ProviderMismatch, RecordFails, Asking
  <2> DEFINE v == [u EXCEPT !.stage = stage]
  <2>3. Becomes(u, v)
    BY <2>1 DEF Goes
  <2>4. /\ v \in Run /\ v.n = u.n /\ v.stall = u.stall
        /\ v.refund = u.refund /\ v.generation = u.generation
    BY RunGoes DEF Run, Asking
  <2> HIDE DEF v
  <2> QED
    BY <2>2, <2>3, <2>4, GoingQuietly
<1> QED
  BY <1>1, <1>2

-----------------------------------------------------------------------------
\* A command that takes effect, or finds nothing to do, keeps the evidence true.
LEMMA RecordsStep ==
  ASSUME IInv, NEW u \in runs, u.stage \in Asking, NEW kind, NEW says,
         NEW outcome, NEW status, Fits(outcome, status),
         Records(u, kind, says, outcome, status)
  PROVE  /\ EInv' /\ evidence \subseteq evidence'
         /\ \A r \in Refunds :
              /\ refund'[r].generation = refund[r].generation
              /\ refund'[r] # refund[r] => refund[r].status = "pending"
         /\ \A r \in Refunds, g \in Generations : Calls(r, g) <= Calls(r, g)'
<1>1. EInv /\ u \in Run /\ 0 < u.n /\ u.n <= Calls(u.refund, u.generation) + 1
  BY Parts, RunGoes DEF NumbersOK
<1>2. CASE UNCHANGED <<refund, evidence>>
  <2>1. EInv' /\ \A r, g : Calls(r, g)' = Calls(r, g)
    BY <1>1, <1>2, EStays
  <2>2. ASSUME NEW r \in Refunds, NEW g \in Generations PROVE Calls(r, g) <= Calls(r, g)'
    <3>1. Calls(r, g) \in Nat
      BY <1>1, CallsAreCounted DEF EInv
    <3> QED
      BY <2>1, <3>1
  <2> QED
    BY <1>2, <2>1, <2>2
<1>3. CASE ~UNCHANGED <<refund, evidence>>
  <2>1. /\ Current(u) /\ Recorded(u, outcome, status)
        /\ u.n \notin Numbers(u.refund, u.generation)
    BY <1>3 DEF Records
  <2> QED
    BY <1>1, <2>1, RecordedStep
<1> QED
  BY <1>2, <1>3

\* What a step may do to headers and evidence.
Kept ==
  /\ evidence \subseteq evidence'
  /\ \A r \in Refunds :
       refund'[r] # refund[r] =>
         \/ refund[r].status \in {"none", "pending"}
         \/ /\ refund[r].status = "failed" /\ refund'[r].status = "pending"
            /\ refund'[r].generation = refund[r].generation + 1

LEMMA RecordSteps ==
  ASSUME IInv, NEW u \in runs, Record(u) \/ RecordUncertain(u) \/ RecordMismatch(u)
  PROVE  IInv' /\ Kept
<1> DEFINE Recording ==
             /\ EInv' /\ evidence \subseteq evidence'
             /\ \A r \in Refunds :
                  /\ refund'[r].generation = refund[r].generation
                  /\ refund'[r] # refund[r] => refund[r].status = "pending"
             /\ \A r \in Refunds, g \in Generations : Calls(r, g) <= Calls(r, g)'
<1>1. UNCHANGED <<job, faults>> /\ u.stage \in Asking
  BY DEF Record, RecordUncertain, RecordMismatch, Asking
<1>2. ASSUME NEW kind, NEW says, NEW outcome, NEW status, Fits(outcome, status),
             Records(u, kind, says, outcome, status)
      PROVE  Recording
  BY <1>1, <1>2, RecordsStep
<1>3. ASSUME UNCHANGED <<refund, evidence>> PROVE Recording
  <2>1. EInv' /\ \A r, g : Calls(r, g)' = Calls(r, g)
    BY <1>3, Parts, EStays
  <2>2. \A r \in Refunds, g \in Generations : Calls(r, g) <= Calls(r, g)'
    <3> SUFFICES ASSUME NEW r \in Refunds, NEW g \in Generations
                 PROVE  Calls(r, g) <= Calls(r, g)'
      OBVIOUS
    <3>1. Calls(r, g) \in Nat
      BY Parts, CallsAreCounted DEF EInv
    <3> QED
      BY <2>1, <3>1
  <2> QED
    BY <1>3, <2>1, <2>2
<1>4. ASSUME Recording, NEW stage \in {"done", "thrown", "permanent"}, Ends(u, stage)
      PROVE  IInv'
  <2> DEFINE v == [u EXCEPT !.stage = stage, !.attempt = 0, !.n = 0]
  <2>1. Becomes(u, v)
    BY <1>4 DEF Ends
  <2>2. /\ v \in Run /\ v.stage = stage /\ v.stall = u.stall
        /\ v.refund = u.refund /\ v.generation = u.generation
    BY RunGoes
  <2>3. v.stage \notin Asking
    BY <2>2 DEF Asking, Answers
  <2> HIDE DEF v
  <2> QED
    BY <1>1, <1>4, <2>1, <2>2, <2>3, Going, FaultFacts
<1>5. ASSUME Recording, Goes(u, "lost")
      PROVE  IInv'
  <2> DEFINE v == [u EXCEPT !.stage = "lost"]
  <2>1. Becomes(u, v)
    BY <1>5 DEF Goes
  <2>2. /\ v \in Run /\ v.n = u.n /\ v.stall = u.stall
        /\ v.refund = u.refund /\ v.generation = u.generation
    BY RunGoes DEF Run
  <2> HIDE DEF v
  <2> QED
    BY <1>1, <1>5, <2>1, <2>2, Going, FaultFacts
<1>6. Recording => Kept
  BY DEF Kept
<1>7. CASE Record(u)
  <2>1. CASE Ends(u, "done") /\ Records(u, "result", u.stage, u.stage,
               IF u.stage = "succeeded" THEN "succeeded" ELSE "failed")
    <3>1. Fits(u.stage, IF u.stage = "succeeded" THEN "succeeded" ELSE "failed")
      BY <1>7 DEF Record, Answers, Fits
    <3>2. Recording
      BY <1>2, <2>1, <3>1
    <3> HIDE DEF Recording
    <3> QED
      BY <1>4, <1>6, <2>1, <3>2
  <2>2. CASE Goes(u, "lost") /\ UNCHANGED <<refund, evidence>>
    <3>1. Recording
      BY <1>3, <2>2
    <3> HIDE DEF Recording
    <3> QED
      BY <1>5, <1>6, <2>2, <3>1
  <2> QED
    BY <1>7, <2>1, <2>2 DEF Record
<1>8. CASE RecordUncertain(u)
  <2> DEFINE final == u.attempt >= MaxAttempts
             says == IF final THEN "final" ELSE "more"
             status == IF final THEN "failed" ELSE "pending"
  <2>1. Fits("indeterminate", status)
    BY DEF Fits
  <2>2. Recording
    <3>1. \/ Records(u, "uncertain", says, "indeterminate", status)
          \/ UNCHANGED <<refund, evidence>>
      BY <1>8 DEF RecordUncertain
    <3> HIDE DEF Recording, says, status
    <3> QED
      BY <1>2, <1>3, <2>1, <3>1
  <2>3. Ends(u, "thrown")
    BY <1>8 DEF RecordUncertain
  <2> HIDE DEF Recording
  <2> QED
    BY <1>4, <1>6, <2>2, <2>3
<1>9. CASE RecordMismatch(u)
  <2>1. Recording
    <3>1. \/ Records(u, "mismatch", "final", "indeterminate", "failed")
          \/ UNCHANGED <<refund, evidence>>
      BY <1>9 DEF RecordMismatch
    <3>2. Fits("indeterminate", "failed")
      BY DEF Fits
    <3> HIDE DEF Recording
    <3> QED
      BY <1>2, <1>3, <3>1, <3>2
  <2>2. PICK stage \in {"permanent", "thrown"} : Ends(u, stage)
    BY <1>9 DEF RecordMismatch
  <2> HIDE DEF Recording
  <2> QED
    BY <1>4, <1>6, <2>1, <2>2
<1> QED
  BY <1>7, <1>8, <1>9

-----------------------------------------------------------------------------
(***************************************************************************)
(* Commands, and the queue                                                 *)
(***************************************************************************)

\* A refund that falls due, or is retried, begins a generation without evidence.
LEMMA NewGeneration ==
  ASSUME EInv, NEW r \in Refunds, NEW h \in Generations,
         h = refund[r].generation + 1, refund[r].status \in {"none", "failed"},
         refund' = [refund EXCEPT ![r] = [status |-> "pending", generation |-> h]],
         UNCHANGED evidence
  PROVE  EInv'
<1>1. /\ refund \in [Refunds -> HeaderRow] /\ refund[r] \in HeaderRow
      /\ Generations \subseteq Nat \ {0} /\ refund[r].generation \in Nat
  BY GenerationsAreNumbers, GenerationsOf DEF EInv
<1>2. /\ refund'[r] = [status |-> "pending", generation |-> h]
      /\ \A q \in Refunds : q # r => refund'[q] = refund[q]
      /\ refund' \in [Refunds -> HeaderRow]
  BY <1>1 DEF HeaderRow
<1>3. \A q, g : Evidence(q, g)' = Evidence(q, g)
  BY DEF Evidence
<1>4. Told(r)
  BY ToldOfEach DEF EInv
<1>5. Evidence(r, h) = {}
  BY <1>1, <1>4 DEF Told
<1>6. Told(r)'
  <2>1. ASSUME NEW g \in Generations
        PROVE  /\ Orderly(Evidence(r, g)')
               /\ g < h => LastSays(Evidence(r, g)', {"rejected", "indeterminate"})
               /\ g > h => Evidence(r, g)' = {}
    <3>1. Orderly(Evidence(r, g)) /\ (g > refund[r].generation => Evidence(r, g) = {})
      BY <1>4 DEF Told
    <3>2. g < h => LastSays(Evidence(r, g), {"rejected", "indeterminate"})
      <4>1. refund[r].status = "none" => refund[r].generation = 0
        BY DEF EInv, HeaderOK
      <4>2. ASSUME g < h
            PROVE  \/ g < refund[r].generation
                   \/ g = refund[r].generation /\ refund[r].status = "failed"
        BY <1>1, <4>1, <4>2
      <4> QED
        BY <1>4, <4>2 DEF Told
    <3> QED
      BY <1>1, <1>3, <3>1, <3>2
  <2>2. ~LastSays(Evidence(r, h)', Answers)
    BY <1>3, <1>5 DEF LastSays
  <2>3. Evidence(r, refund[r].generation)' = Evidence(r, h)'
    BY <1>2 DEF Evidence
  <2> QED
    BY <1>2, <2>1, <2>2, <2>3 DEF Told
<1>7. ASSUME NEW q \in Refunds, q # r PROVE Told(q)'
  <2>1. Told(q) /\ refund'[q] = refund[q] /\ refund[q].generation \in Generations \cup {0}
    BY <1>2, <1>7, ToldOfEach DEF EInv, HeaderRow
  <2> QED
    BY <1>3, <2>1, ToldStays
<1>8. EvidenceMatchesHeader'
  <2>1. \A q \in Refunds : Told(q)'
    BY <1>6, <1>7
  <2> QED
    BY <2>1 DEF EvidenceMatchesHeader, Told
<1>9. HeaderOK'
  BY <1>1, <1>2 DEF EInv, HeaderOK
<1> QED
  BY <1>2, <1>8, <1>9 DEF EInv

\* The runs that are left, when each that holds its claim still has a running row.
LEMMA RunsLeave ==
  ASSUME QInv, runs' \subseteq runs, faults' \in 0..MaxFaults, faults <= faults',
         \A u \in runs' : Holds(u) => job'[u.refund][u.generation].state = "running"
  PROVE  /\ runs' \subseteq Run /\ IsFiniteSet(runs') /\ Cardinality(runs') <= MaxRuns
         /\ ClaimsOK'
<1>1. /\ runs' \subseteq Run /\ IsFiniteSet(runs') /\ Cardinality(runs') <= Cardinality(runs)
      /\ Cardinality(runs) \in Nat /\ Cardinality(runs') \in Nat
  BY FS_Subset, FS_CardinalityType DEF QInv
<1>2. Cardinality(runs') <= MaxRuns
  BY <1>1, BookingRefundAssumption DEF QInv
<1>3. \A u \in runs' : u.stall <= faults'
  <2>1. \A u \in runs : u.stall \in Nat /\ u.stall <= faults /\ faults \in Nat
    BY BookingRefundAssumption DEF QInv, ClaimsOK, Run
  <2> QED
    BY <2>1
<1>4. ClaimsOK'
  BY <1>3 DEF QInv, ClaimsOK, Holds
<1> QED
  BY <1>1, <1>2, <1>4

\* The calls of the runs keep their numbers when no evidence is added.
LEMMA NumbersKept ==
  ASSUME IInv, UNCHANGED evidence, EInv', QInv',
         \A w \in runs' : \/ w.stage \notin Asking
                          \/ \E u \in runs : /\ w.stage = u.stage /\ w.n = u.n
                                             /\ w.refund = u.refund
                                             /\ w.generation = u.generation
  PROVE  IInv'
<1>1. \A r, g : Calls(r, g)' = Calls(r, g)
  <2>1. \A r, g : Evidence(r, g)' = Evidence(r, g)
    BY DEF Evidence
  <2> QED
    BY <2>1 DEF Calls
<1>2. NumbersOK'
  <2> SUFFICES ASSUME NEW w \in runs', w.stage \in Asking
               PROVE  0 < w.n /\ w.n <= Calls(w.refund, w.generation)' + 1
    BY DEF NumbersOK
  <2>1. 0 < w.n /\ w.n <= Calls(w.refund, w.generation) + 1
    BY Parts DEF NumbersOK
  <2> QED
    BY <1>1, <2>1
<1> QED
  BY <1>2, PartsNext

\* A row that moves belongs to a generation that has begun.
LEMMA RowMoved ==
  ASSUME IInv, NEW r \in Refunds, NEW g \in Generations, NEW j, Good(j),
         job' = [job EXCEPT ![r][g] = j], EInv',
         \A q \in Refunds : refund[q].generation <= refund'[q].generation,
         g <= refund'[r].generation
  PROVE  /\ job' \in [Refunds -> [Generations -> Row]] /\ JobsOK'
         /\ job'[r][g] = j
         /\ \A q \in Refunds, h \in Generations :
              <<q, h>> # <<r, g>> => job'[q][h] = job[q][h]
<1>1. /\ job' \in [Refunds -> [Generations -> Row]]
      /\ job'[r][g] = j
      /\ \A q \in Refunds, h \in Generations :
           <<q, h>> # <<r, g>> => job'[q][h] = job[q][h]
  BY JobMoved, Parts
<1>2. ASSUME NEW q \in Refunds, NEW h \in Generations
      PROVE  /\ job'[q][h].state = "pending" => job'[q][h].attempts < MaxAttempts
             /\ h > refund'[q].generation => job'[q][h].state = "none"
  <2>1. refund[q].generation \in Nat /\ refund'[q].generation \in Nat /\ h \in Nat /\ g \in Nat
    BY GenerationsAreNumbers, Parts, GenerationsOf, GenerationsOfNext
  <2>2. CASE <<q, h>> = <<r, g>>
    BY <1>1, <2>1, <2>2 DEF Good
  <2>3. CASE <<q, h>> # <<r, g>>
    <3>1. job'[q][h] = job[q][h]
      BY <1>1, <2>3
    <3>2. refund[q].generation <= refund'[q].generation
      OBVIOUS
    <3>3. h > refund'[q].generation => h > refund[q].generation
      BY <2>1, <3>2
    <3> QED
      BY <3>1, <3>3 DEF IInv, JobsOK
  <2> QED
    BY <2>2, <2>3
<1> QED
  BY <1>1, <1>2 DEF JobsOK

LEMMA CommandSteps ==
  ASSUME IInv, NEW r \in Refunds, RequestRefund(r) \/ RetryRefund(r)
  PROVE  IInv' /\ Kept
<1>1. EInv /\ QInv /\ NumbersOK /\ refund[r].generation \in Nat
  BY Parts, GenerationsOf
<1>2. PICK h \in Generations :
        /\ h = refund[r].generation + 1 /\ refund[r].status \in {"none", "failed"}
        /\ refund' = [refund EXCEPT ![r] = [status |-> "pending", generation |-> h]]
        /\ job' = [job EXCEPT ![r][h] = Due]
  <2>1. CASE RequestRefund(r)
    <3>1. refund[r].generation = 0
      BY <1>1, <2>1 DEF RequestRefund, EInv, HeaderOK
    <3>2. 1 \in Generations /\ 1 = refund[r].generation + 1
      BY <3>1, GenerationsAreNumbers
    <3> QED
      BY <2>1, <3>2 DEF RequestRefund
  <2>2. CASE RetryRefund(r)
    <3>1. refund[r].generation + 1 \in 1..MaxGenerations[r]
      BY <1>1, <2>2, BookingRefundAssumption DEF RetryRefund
    <3>2. refund[r].generation + 1 \in Generations
      BY <3>1, GenerationsAreNumbers
    <3> QED
      BY <2>2, <3>2 DEF RetryRefund
  <2> QED
    BY <2>1, <2>2
<1>3. UNCHANGED <<evidence, runs, faults>>
  BY DEF RequestRefund, RetryRefund
<1>4. EInv'
  BY <1>1, <1>2, <1>3, NewGeneration
<1>5. /\ refund'[r] = [status |-> "pending", generation |-> h]
      /\ \A q \in Refunds : q # r => refund'[q] = refund[q]
  BY <1>1, <1>2 DEF EInv
<1>6. Kept
  BY <1>2, <1>3, <1>5 DEF Kept
<1>7. \A q \in Refunds : refund[q].generation <= refund'[q].generation
  <2> SUFFICES ASSUME NEW q \in Refunds
               PROVE  refund[q].generation <= refund'[q].generation
    OBVIOUS
  <2>1. refund[q].generation \in Nat
    BY <1>1, GenerationsOf
  <2> QED
    BY <1>2, <1>5, <2>1
<1>8. h \in Nat /\ Good(Due)
  BY GenerationsAreNumbers, <1>1, JobFacts, RowOps
<1>9. /\ job' \in [Refunds -> [Generations -> Row]] /\ JobsOK'
      /\ \A q \in Refunds, g \in Generations :
           <<q, g>> # <<r, h>> => job'[q][g] = job[q][g]
  <2>1. h <= refund'[r].generation
    BY <1>5, <1>8
  <2>2. job' = [job EXCEPT ![r][h] = Due]
    BY <1>2
  <2> QED
    BY <1>4, <1>7, <1>8, <2>1, <2>2, RowMoved
<1>10. \A u \in runs' : Holds(u) => job'[u.refund][u.generation].state = "running"
  <2> SUFFICES ASSUME NEW u \in runs, Holds(u)
               PROVE  job'[u.refund][u.generation].state = "running"
    BY <1>3
  <2>1. u.refund \in Refunds /\ u.generation \in Generations
    BY <1>1 DEF QInv, Run
  <2>2. job[u.refund][u.generation].state = "running"
    BY <1>1 DEF QInv, ClaimsOK
  <2>3. job[r][h].state = "none"
    BY <1>1, <1>2, <1>8 DEF QInv, JobsOK
  <2>4. <<u.refund, u.generation>> # <<r, h>>
    BY <2>2, <2>3
  <2> QED
    BY <1>9, <2>1, <2>2, <2>4
<1>11. QInv'
  BY <1>1, <1>3, <1>9, <1>10, RunsLeave, FaultFacts DEF QInv
<1> QED
  BY <1>3, <1>4, <1>6, <1>11, NumbersKept

\* Steps that change neither header nor evidence.
LEMMA KeptAsItIs ==
  ASSUME IInv, UNCHANGED <<refund, evidence>>
  PROVE  EInv' /\ Kept
  BY Parts, EStays DEF Kept

LEMMA ReconcileStep ==
  ASSUME IInv, Reconcile
  PROVE  IInv' /\ Kept
<1>1. EInv /\ QInv /\ UNCHANGED <<refund, evidence, runs>>
  BY Parts DEF Reconcile
<1>2. EInv' /\ Kept
  BY <1>1, KeptAsItIs
<1>3. faults' \in 0..MaxFaults /\ faults <= faults'
  BY FaultFacts DEF Reconcile
<1>4. ASSUME NEW r \in Refunds
      PROVE  /\ job'[r] \in [Generations -> Row]
             /\ \A g \in Generations :
                  \/ job'[r][g] = job[r][g]
                  \/ g = refund[r].generation /\ job'[r][g] = Enqueued(job[r][g])
  <2>1. job[r] \in [Generations -> Row]
    BY <1>1 DEF QInv
  <2>2. CASE r \notin Listed
    BY <2>1, <2>2 DEF Reconcile
  <2>3. CASE r \in Listed
    <3>1. refund[r].status # "none"
      BY <2>3 DEF Listed
    <3>2. refund[r].generation \in Generations
      BY <1>1, <3>1, GenerationsOf DEF EInv, HeaderOK, HeaderRow
    <3>3. PICK h \in Generations : h = refund[r].generation
      BY <3>2
    <3>4. job'[r] = [job[r] EXCEPT ![h] = Enqueued(job[r][h])]
      BY <2>3, <3>3 DEF Reconcile
    <3>5. Enqueued(job[r][h]) \in Row
      BY <1>1, JobFacts, RowOps DEF Good
    <3> QED
      BY <2>1, <3>3, <3>4, <3>5
  <2> QED
    BY <2>2, <2>3
<1>5. job' \in [Refunds -> [Generations -> Row]]
  <2>1. job' = [r \in Refunds |-> job'[r]]
    BY DEF Reconcile
  <2> QED
    BY <1>4, <2>1
<1>6. ASSUME NEW r \in Refunds, NEW g \in Generations
      PROVE  /\ Good(job'[r][g])
             /\ job[r][g].state = "running" => job'[r][g].state = "running"
             /\ g > refund[r].generation => job'[r][g] = job[r][g]
  <2>1. /\ Good(job[r][g]) /\ Good(Enqueued(job[r][g]))
        /\ job[r][g].state = "running" => Enqueued(job[r][g]).state = "running"
    BY <1>1, JobFacts, RowOps
  <2>2. refund[r].generation \in Nat
    BY <1>1, GenerationsOf
  <2> QED
    BY <1>4, <2>1, <2>2
<1>7. JobsOK'
  BY <1>1, <1>6 DEF QInv, JobsOK, Good
<1>8. \A u \in runs' : Holds(u) => job'[u.refund][u.generation].state = "running"
  BY <1>1, <1>6 DEF QInv, ClaimsOK, Run
<1>9. QInv'
  BY <1>1, <1>3, <1>5, <1>7, <1>8, RunsLeave DEF QInv
<1> QED
  BY <1>1, <1>2, <1>9, NumbersKept

\* A row that a step of the queue moves, under headers that stay.
LEMMA QueueMoves ==
  ASSUME IInv, UNCHANGED <<refund, evidence>>, NEW r \in Refunds, NEW g \in Generations,
         NEW j, Good(j), job[r][g].state # "none", job' = [job EXCEPT ![r][g] = j]
  PROVE  /\ job' \in [Refunds -> [Generations -> Row]] /\ JobsOK'
         /\ job'[r][g] = j
         /\ \A q \in Refunds, h \in Generations :
              <<q, h>> # <<r, g>> => job'[q][h] = job[q][h]
<1>1. EInv /\ EInv'
  BY Parts, EStays
<1>2. \A q \in Refunds : refund[q].generation <= refund'[q].generation
  <2> SUFFICES ASSUME NEW q \in Refunds
               PROVE  refund[q].generation <= refund'[q].generation
    OBVIOUS
  <2>1. refund[q].generation \in Nat
    BY <1>1, GenerationsOf
  <2> QED
    BY <2>1
<1>3. g <= refund'[r].generation
  <2>1. g \in Nat /\ refund[r].generation \in Nat
    BY <1>1, GenerationsOf, GenerationsAreNumbers
  <2>2. ~(g > refund[r].generation)
    BY DEF IInv, JobsOK
  <2> QED
    BY <2>1, <2>2
<1> QED
  BY <1>1, <1>2, <1>3, RowMoved

LEMMA ClaimStep ==
  ASSUME IInv, NEW r \in Refunds, NEW g \in Generations, Claim(r, g)
  PROVE  IInv' /\ Kept
<1> DEFINE v == [refund |-> r, generation |-> g, stage |-> "claimed",
                 attempt |-> job[r][g].attempts + 1, n |-> 0, stall |-> 0]
           j == Claimed(job[r][g])
<1>1. EInv /\ QInv /\ UNCHANGED <<refund, evidence, faults>>
  BY Parts DEF Claim
<1>2. EInv' /\ Kept
  BY <1>1, KeptAsItIs
<1>3. job[r][g].state = "pending" /\ Good(job[r][g])
  BY <1>1, JobFacts DEF Claim
<1>4. v \in Run /\ v.stall = 0 /\ v.refund = r /\ v.generation = g /\ v.stage = "claimed"
  <2>1. job[r][g].attempts + 1 \in Nat
    BY <1>3 DEF Good, Row
  <2> QED
    BY <2>1, BookingRefundAssumption DEF Run
<1>5. runs' = runs \cup {v} /\ Cardinality(runs) < MaxRuns
  BY DEF Claim
<1>6. Good(j) /\ j.state = "running" /\ job' = [job EXCEPT ![r][g] = j]
  BY <1>3, RowOps DEF Claim
<1> HIDE DEF v, j
<1>7. /\ job' \in [Refunds -> [Generations -> Row]] /\ JobsOK'
      /\ job'[r][g].state = "running"
      /\ \A q \in Refunds, h \in Generations :
           <<q, h>> # <<r, g>> => job'[q][h] = job[q][h]
  BY <1>1, <1>3, <1>6, QueueMoves
<1>8. runs' \subseteq Run /\ IsFiniteSet(runs') /\ Cardinality(runs') <= MaxRuns
  <2>1. IsFiniteSet(runs) /\ Cardinality(runs) \in Nat
    BY <1>1, FS_CardinalityType DEF QInv
  <2>2. /\ IsFiniteSet(runs \cup {v})
        /\ Cardinality(runs \cup {v}) =
             IF v \in runs THEN Cardinality(runs) ELSE Cardinality(runs) + 1
    BY <2>1, FS_AddElement
  <2> QED
    BY <1>1, <1>4, <1>5, <2>1, <2>2, BookingRefundAssumption DEF QInv
<1>9. \A u \in runs : Holds(u) => <<u.refund, u.generation>> # <<r, g>>
  BY <1>1, <1>3 DEF QInv, ClaimsOK
<1>10. ClaimsOK'
  <2>1. \A u \in runs' : u.stall <= faults'
    BY <1>1, <1>4, <1>5, BookingRefundAssumption DEF QInv, ClaimsOK
  <2>2. \A u \in runs' : Holds(u) => job'[u.refund][u.generation].state = "running"
    <3>1. \A u \in runs : u.refund \in Refunds /\ u.generation \in Generations
      BY <1>1 DEF QInv, Run
    <3> QED
      BY <1>1, <1>4, <1>5, <1>7, <1>9, <3>1 DEF QInv, ClaimsOK
  <2>3. \A u, w \in runs' : SameClaim(u, w) => u = w
    <3> SUFFICES ASSUME NEW u \in runs', NEW w \in runs', SameClaim(u, w) PROVE u = w
      OBVIOUS
    <3>1. \A a, b \in runs : SameClaim(a, b) => a = b
      BY <1>1 DEF QInv, ClaimsOK
    <3>2. \A a \in runs : ~SameClaim(v, a) /\ ~SameClaim(a, v)
      BY <1>4, <1>9 DEF SameClaim, Holds
    <3> QED
      BY <1>5, <3>1, <3>2
  <2> QED
    BY <2>1, <2>2, <2>3 DEF ClaimsOK
<1>11. QInv'
  BY <1>1, <1>7, <1>8, <1>10 DEF QInv
<1>12. \A w \in runs' : w.stage \notin Asking \/ w \in runs
  BY <1>4, <1>5 DEF Asking, Answers
<1> QED
  BY <1>1, <1>2, <1>11, <1>12, NumbersKept

LEMMA EndSteps ==
  ASSUME IInv, NEW u \in runs, End(u) \/ Crash(u)
  PROVE  IInv' /\ Kept
<1>1. EInv /\ QInv /\ UNCHANGED <<refund, evidence>> /\ runs' = runs \ {u}
  BY Parts DEF End, Crash
<1>2. EInv' /\ Kept
  BY <1>1, KeptAsItIs
<1>3. faults' \in 0..MaxFaults /\ faults <= faults'
  BY FaultFacts DEF End, Crash
<1>4. PICK r \in Refunds, g \in Generations : r = u.refund /\ g = u.generation
  BY <1>1 DEF QInv, Run
<1>5. /\ job' \in [Refunds -> [Generations -> Row]] /\ JobsOK'
      /\ \A w \in runs' : Holds(w) => job'[w.refund][w.generation].state = "running"
  <2>1. \A w \in runs : Holds(w) => job[w.refund][w.generation].state = "running"
    BY <1>1 DEF QInv, ClaimsOK
  <2>2. CASE UNCHANGED job
    BY <1>1, <2>1, <2>2 DEF QInv, JobsOK
  <2>3. CASE Holds(u) /\ ~UNCHANGED job
    <3> DEFINE j == IF u.stage = "done" THEN Completed(job[r][g])
                    ELSE Failed(job[r][g], u.stage = "permanent")
    <3>1. job' = [job EXCEPT ![r][g] = j]
      BY <1>4, <2>3 DEF End, Crash
    <3>2. Good(j)
      <4>1. Good(job[r][g]) /\ (u.stage = "permanent") \in BOOLEAN
        BY <1>1, JobFacts
      <4>2. Good(Completed(job[r][g])) /\ Good(Failed(job[r][g], u.stage = "permanent"))
        BY <4>1, RowOps
      <4> QED
        BY <4>2
    <3>3. job[r][g].state = "running"
      BY <1>4, <2>1, <2>3
    <3> HIDE DEF j
    <3>4. /\ job' \in [Refunds -> [Generations -> Row]] /\ JobsOK'
          /\ \A q \in Refunds, h \in Generations :
               <<q, h>> # <<r, g>> => job'[q][h] = job[q][h]
      BY <1>1, <3>1, <3>2, <3>3, QueueMoves
    <3>5. ASSUME NEW w \in runs', Holds(w)
          PROVE  job'[w.refund][w.generation].state = "running"
      <4>1. w \in runs /\ w # u /\ w.refund \in Refunds /\ w.generation \in Generations
        BY <1>1 DEF QInv, Run
      <4>2. <<w.refund, w.generation>> # <<r, g>>
        BY <1>1, <1>4, <2>3, <3>5, <4>1 DEF QInv, ClaimsOK, SameClaim, Holds
      <4> QED
        BY <2>1, <3>4, <3>5, <4>1, <4>2
    <3> QED
      BY <3>4, <3>5
  <2> QED
    BY <2>2, <2>3 DEF End, Crash
<1>6. QInv'
  BY <1>1, <1>3, <1>5, RunsLeave DEF QInv
<1> QED
  BY <1>1, <1>2, <1>6, NumbersKept

\* A lease that runs out while its worker goes on marks the run with the stall.
LEMMA StallMarks ==
  ASSUME QInv, NEW u \in runs, Fault,
         runs' = (runs \ {u}) \cup {[u EXCEPT !.stall = faults']},
         \A w \in runs \ {u} : Holds(w) => job'[w.refund][w.generation].state = "running"
  PROVE  /\ runs' \subseteq Run /\ IsFiniteSet(runs') /\ Cardinality(runs') <= MaxRuns
         /\ ClaimsOK'
         /\ \A w \in runs' : \E a \in runs :
              /\ w.stage = a.stage /\ w.n = a.n
              /\ w.refund = a.refund /\ w.generation = a.generation
<1> DEFINE v == [u EXCEPT !.stall = faults']
<1>1. /\ faults \in Nat /\ faults' = faults + 1 /\ faults' \in 0..MaxFaults
      /\ runs \subseteq Run /\ u \in Run
  BY BookingRefundAssumption DEF QInv, Fault
<1>2. /\ v \in Run /\ v.stall = faults' /\ v.stage = u.stage /\ v.n = u.n
      /\ v.refund = u.refund /\ v.generation = u.generation
  BY <1>1 DEF Run
<1>3. runs' = (runs \ {u}) \cup {v}
  OBVIOUS
<1> HIDE DEF v
<1>4. \A w \in runs : w.stall \in Nat /\ w.stall <= faults
  <2>1. \A w \in runs : w.stall \in 0..MaxFaults
    BY <1>1 DEF Run
  <2>2. \A w \in runs : w.stall <= faults
    BY DEF QInv, ClaimsOK
  <2> QED
    BY <2>1, <2>2, BookingRefundAssumption
<1>5. IsFiniteSet(runs') /\ Cardinality(runs') <= Cardinality(runs)
  <2>1. IsFiniteSet(runs)
    BY DEF QInv
  <2>2. /\ IsFiniteSet((runs \ {u}) \cup {v})
        /\ Cardinality((runs \ {u}) \cup {v}) <= Cardinality(runs)
    BY <2>1, OneForAnother
  <2> QED
    BY <1>3, <2>2
<1>6. Cardinality(runs') <= MaxRuns
  <2>1. Cardinality(runs) \in Nat /\ Cardinality(runs') \in Nat
    BY <1>5, FS_CardinalityType DEF QInv
  <2> QED
    BY <1>5, <2>1, BookingRefundAssumption DEF QInv
<1>7. \A w \in runs' : w.stall <= faults'
  BY <1>1, <1>2, <1>3, <1>4
<1>8. \A w \in runs' : Holds(w) => job'[w.refund][w.generation].state = "running"
  BY <1>1, <1>2, <1>3 DEF Holds
<1>9. \A w, y \in runs' : SameClaim(w, y) => w = y
  <2> SUFFICES ASSUME NEW w \in runs', NEW y \in runs', SameClaim(w, y) PROVE w = y
    OBVIOUS
  <2>1. w.stall = y.stall
    BY DEF SameClaim
  <2>2. CASE w = v \/ y = v
    BY <1>1, <1>2, <1>3, <1>4, <2>1, <2>2
  <2>3. CASE w # v /\ y # v
    BY <1>3, <2>3 DEF QInv, ClaimsOK
  <2> QED
    BY <2>2, <2>3
<1>10. \A w \in runs' : \E a \in runs :
         /\ w.stage = a.stage /\ w.n = a.n
         /\ w.refund = a.refund /\ w.generation = a.generation
  BY <1>2, <1>3
<1> QED
  BY <1>1, <1>2, <1>3, <1>5, <1>6, <1>7, <1>8, <1>9, <1>10 DEF ClaimsOK

LEMMA ReclaimStep ==
  ASSUME IInv, NEW r \in Refunds, NEW g \in Generations, Reclaim(r, g)
  PROVE  IInv' /\ Kept
<1> DEFINE j == Failed(job[r][g], FALSE)
<1>1. EInv /\ QInv /\ UNCHANGED <<refund, evidence>>
  BY Parts DEF Reclaim
<1>2. EInv' /\ Kept
  BY <1>1, KeptAsItIs
<1>3. job[r][g].state = "running" /\ Good(job[r][g])
  BY <1>1, JobFacts DEF Reclaim
<1>4. Good(j) /\ job' = [job EXCEPT ![r][g] = j]
  BY <1>3, RowOps DEF Reclaim
<1> HIDE DEF j
<1>5. /\ job' \in [Refunds -> [Generations -> Row]] /\ JobsOK'
      /\ \A q \in Refunds, h \in Generations :
           <<q, h>> # <<r, g>> => job'[q][h] = job[q][h]
  BY <1>1, <1>3, <1>4, QueueMoves
<1>6. \A w \in runs : Holds(w) /\ w \notin Holders(r, g) =>
        job'[w.refund][w.generation].state = "running"
  <2> SUFFICES ASSUME NEW w \in runs, Holds(w), w \notin Holders(r, g)
               PROVE  job'[w.refund][w.generation].state = "running"
    OBVIOUS
  <2>1. /\ w.refund \in Refunds /\ w.generation \in Generations
        /\ job[w.refund][w.generation].state = "running"
    BY <1>1 DEF QInv, ClaimsOK, Run
  <2>2. <<w.refund, w.generation>> # <<r, g>>
    BY DEF Holders
  <2> QED
    BY <1>5, <2>1, <2>2
<1>7. CASE Holders(r, g) = {}
  <2>1. runs' = runs /\ UNCHANGED faults
    BY <1>7 DEF Reclaim
  <2>2. faults' \in 0..MaxFaults /\ faults <= faults'
    BY <2>1, FaultFacts
  <2>3. \A w \in runs' : Holds(w) => job'[w.refund][w.generation].state = "running"
    BY <1>6, <1>7, <2>1
  <2>4. QInv'
    BY <1>1, <1>5, <2>1, <2>2, <2>3, RunsLeave DEF QInv
  <2> QED
    BY <1>1, <1>2, <2>1, <2>4, NumbersKept
<1>8. CASE Holders(r, g) # {}
  <2>1. PICK u \in runs : u \in Holders(r, g)
    BY <1>8 DEF Holders
  <2>2. Holders(r, g) = {u}
    BY <1>1, <2>1 DEF QInv, ClaimsOK, SameClaim, Holds, Holders
  <2>3. Fault /\ runs' = (runs \ {u}) \cup {[u EXCEPT !.stall = faults']}
    BY <1>8, <2>2 DEF Reclaim
  <2>4. /\ runs' \subseteq Run /\ IsFiniteSet(runs') /\ Cardinality(runs') <= MaxRuns
        /\ ClaimsOK'
        /\ \A w \in runs' : \E a \in runs :
             /\ w.stage = a.stage /\ w.n = a.n
             /\ w.refund = a.refund /\ w.generation = a.generation
    <3>1. \A w \in runs \ {u} : Holds(w) => job'[w.refund][w.generation].state = "running"
      BY <1>6, <2>2
    <3> QED
      BY <1>1, <2>3, <3>1, StallMarks
  <2>5. faults' \in 0..MaxFaults
    BY <2>3, FaultFacts
  <2>6. QInv'
    BY <1>5, <2>4, <2>5 DEF QInv
  <2> QED
    BY <1>1, <1>2, <2>4, <2>6, NumbersKept
<1> QED
  BY <1>7, <1>8

-----------------------------------------------------------------------------
(***************************************************************************)
(* The invariant                                                           *)
(***************************************************************************)

LEMMA InitInv == Init => IInv
<1> SUFFICES ASSUME Init PROVE IInv
  OBVIOUS
<1>1. /\ refund = [r \in Refunds |-> [status |-> "none", generation |-> 0]]
      /\ evidence = {} /\ runs = {} /\ faults = 0
      /\ job = [r \in Refunds |-> [g \in Generations |-> NoJob]]
  BY DEF Init
<1>2. Cardinality({}) = 0 /\ IsFiniteSet({})
  BY FS_EmptySet
<1>3. Good(NoJob) /\ NoJob.state = "none"
  BY QueueRowAssumption DEF Good, NoJob, Closed, Row
<1>4. \A r \in Refunds : Told(r)
  <2> SUFFICES ASSUME NEW r \in Refunds PROVE Told(r)
    OBVIOUS
  <2>1. \A g : Evidence(r, g) = {}
    BY <1>1 DEF Evidence
  <2>2. Orderly({})
    BY <1>2 DEF Orderly
  <2>3. \A g \in Generations : ~(g < 0)
    BY GenerationsAreNumbers
  <2> QED
    BY <1>1, <2>1, <2>2, <2>3 DEF Told
<1>5. EInv
  <2>1. refund \in [Refunds -> HeaderRow] /\ HeaderOK
    BY <1>1 DEF HeaderRow, HeaderOK
  <2>2. EvidenceMatchesHeader
    BY <1>4, ToldOfEach
  <2> QED
    BY <1>1, <1>2, <2>1, <2>2 DEF EInv
<1>6. QInv
  BY <1>1, <1>2, <1>3, BookingRefundAssumption DEF QInv, JobsOK, ClaimsOK, Good
<1> QED
  BY <1>1, <1>5, <1>6, Parts DEF NumbersOK

LEMMA StepInv ==
  ASSUME IInv, [Next]_vars
  PROVE  IInv' /\ Kept
<1>1. CASE UNCHANGED vars
  <2>1. EInv' /\ Kept
    BY <1>1, KeptAsItIs DEF vars
  <2>2. QInv'
    BY <1>1, Parts DEF vars, QInv, JobsOK, ClaimsOK, SameClaim, Holds
  <2> QED
    BY <1>1, <2>1, <2>2, NumbersKept DEF vars
<1>2. ASSUME NEW r \in Refunds, RequestRefund(r) \/ RetryRefund(r) PROVE IInv' /\ Kept
  BY <1>2, CommandSteps
<1>3. CASE Reconcile
  BY <1>3, ReconcileStep
<1>4. ASSUME NEW r \in Refunds, NEW g \in Generations, Claim(r, g) \/ Reclaim(r, g)
      PROVE  IInv' /\ Kept
  BY <1>4, ClaimStep, ReclaimStep
<1>5. ASSUME NEW u \in runs, Step(u) \/ Crash(u) \/ RecordFails(u) PROVE IInv' /\ Kept
  <2>1. CASE Preflight(u) \/ Call(u) \/ CallLost(u) \/ ProviderMismatch(u) \/ RecordFails(u)
    <3>1. UNCHANGED <<refund, evidence>>
      BY <2>1 DEF Preflight, Call, CallLost, ProviderMismatch, RecordFails
    <3> QED
      BY <2>1, <3>1, QuietSteps, KeptAsItIs
  <2>2. CASE Record(u) \/ RecordUncertain(u) \/ RecordMismatch(u)
    BY <2>2, RecordSteps
  <2>3. CASE End(u) \/ Crash(u)
    BY <2>3, EndSteps
  <2> QED
    BY <1>5, <2>1, <2>2, <2>3 DEF Step
<1> QED
  BY <1>1, <1>2, <1>3, <1>4, <1>5 DEF Next

-----------------------------------------------------------------------------
(***************************************************************************)
(* Theorems                                                                *)
(***************************************************************************)

\* The inductive invariant: headers, evidence, rows and runs fit each other in
\* every reachable state.
THEOREM RefundInvariant == Spec => []IInv
<1>1. IInv /\ [Next]_vars => IInv'
  BY StepInv
<1> QED
  BY InitInv, <1>1, PTL DEF Spec

\* Types, and the bounds on runs and faults.
THEOREM RefundTypes == Spec => []TypeOK
<1>1. IInv => TypeOK
  BY DEF IInv
<1> QED
  BY RefundInvariant, <1>1, PTL

\* The header of a refund tells what its evidence tells, whatever run of the job
\* records late, twice or beside its successor: processRefund, recordRefundInvocation.
THEOREM HeaderTellsEvidence == Spec => []EvidenceMatchesHeader
<1>1. IInv => EvidenceMatchesHeader
  BY DEF IInv
<1> QED
  BY RefundInvariant, <1>1, PTL

\* No step rewrites the outcome of a refund or takes evidence back; only
\* retryRefund reopens a failure, as the next generation.
THEOREM OutcomeStands == Spec => OutcomeIsKept
<1>1. IInv /\ [Next]_vars =>
        [/\ evidence \subseteq evidence'
         /\ \A r \in Refunds :
              refund'[r] # refund[r] =>
                \/ refund[r].status \in {"none", "pending"}
                \/ /\ refund[r].status = "failed" /\ refund'[r].status = "pending"
                   /\ refund'[r].generation = refund[r].generation + 1]_vars
  BY StepInv DEF Kept
<1> QED
  BY RefundInvariant, <1>1, PTL DEF Spec, OutcomeIsKept

\* A refund has one run at most that holds the claim of a generation's job, and
\* that job is running: claimNext gives a row to one worker, and reclaimStale
\* takes it from the one before.
THEOREM OneHolder ==
  Spec => [](\A u, v \in runs : /\ Holds(u) => job[u.refund][u.generation].state = "running"
                                /\ Holds(u) /\ Holds(v) /\ u.refund = v.refund
                                   /\ u.generation = v.generation => u = v)
<1>1. IInv => \A u, v \in runs :
                /\ Holds(u) => job[u.refund][u.generation].state = "running"
                /\ Holds(u) /\ Holds(v) /\ u.refund = v.refund
                   /\ u.generation = v.generation => u = v
  BY DEF IInv, ClaimsOK, SameClaim, Holds
<1> QED
  BY RefundInvariant, <1>1, PTL
=============================================================================

------------------------- MODULE NotificationsProofs -------------------------
(***************************************************************************)
(* The safety properties of CommandBus and Notifications, for any number of *)
(* calls, keys, runs, resends and faults.                                  *)
(***************************************************************************)
EXTENDS Notifications, FiniteSetTheorems, TLAPS

-----------------------------------------------------------------------------
(***************************************************************************)
(* The inductive invariant                                                 *)
(***************************************************************************)

\* The row of a key is that of a call which runs or has run the handler for it,
\* and the handler has run once if the call is over; whoever runs has its row.
RowsOK ==
  /\ \A k \in Keys : row[k] = None => effects[k] = 0
  /\ \A k \in Keys : row[k] # None =>
       /\ call[row[k]].key = k /\ call[row[k]].payload \in Payloads
       /\ call[row[k]].state \in {"open", "answered", "unheard"}
       /\ effects[k] = IF call[row[k]].state = "open" THEN 0 ELSE 1
  /\ \A c \in Calls : call[c].state = "open" =>
       call[c].key \in Keys /\ row[call[c].key] = c

AnswersOK ==
  \A c \in Calls : call[c].state = "answered" =>
    /\ call[c].key \in Keys /\ HasAnswer(call[c].key)
    /\ call[row[call[c].key]].payload = call[c].payload
    /\ call[row[call[c].key]].actor = call[c].actor

BusOK == BusTypeOK /\ RowsOK /\ AnswersOK

\* What a command has stored stays.
ContentOK ==
  \A k \in Keys : HasAnswer(k) =>
    content = call[row[k]].payload \/ (kind = "queued" /\ mail = "erased")

RunsOK == runs \subseteq Run /\ \A u, v \in runs : u.id = v.id => u = v

\* A row that is due has an attempt left.
JobOK == job \in Row /\ (job.state = "pending" => job.attempts < MaxAttempts)

\* The call of the mail server is made under the lock, of a message that is
\* being sent.
LockOK ==
  \A u \in runs : u.stage = "smtp" =>
    mail = "sending" /\ \A v \in runs : v.stage = "smtp" => v = u

\* An attempt that is claimed, or that can be claimed, is paid for: by the first
\* request or by a resend.
Attempting == {i \in Slots : \E u \in runs : u.id = i /\ u.stage \in {"fence", "smtp"}}
Open == IF mail \in {"none", "pending", "rejected"} THEN 1 ELSE 0
CountOK == handed + Cardinality(Attempting) + Open <= 1 + resends

\* Nobody has heard of an acceptance that was not one.
EvidenceOK ==
  /\ mail = "accepted" => handed > 0
  /\ \A u \in runs : u.got = "accepted" => mail \in {"accepted", "erased"} /\ handed > 0
  /\ delivery = "sent" => mail \in {"accepted", "erased"} /\ handed > 0

\* Before the notification nothing is there; a run that is done has recorded.
NotifiedOK ==
  kind = "notified" =>
    /\ content = None => job.state = "none" /\ runs = {} /\ mail \in {"none", "erased"}
    /\ content # None => delivery # "none"
    /\ \A u \in runs : u.stage = "done" => delivery # "pending"
    /\ job.state = "done" => delivery # "pending"

NInv == /\ TypeOK /\ BusOK /\ ContentOK /\ JobOK /\ LockOK /\ CountOK
        /\ EvidenceOK /\ NotifiedOK

-----------------------------------------------------------------------------
(***************************************************************************)
(* The command bus                                                         *)
(***************************************************************************)
CallRow == [state : CallState, key : Keys \cup {None}, payload : Payloads \cup {None},
            actor : Actors \cup {None}]

LEMMA RequestFacts ==
  ASSUME NEW r \in Requests
  PROVE  r.key \in Keys /\ r.payload \in Payloads /\ r.actor \in Actors
  BY DEF Keys, Payloads, Actors

LEMMA InFacts ==
  ASSUME NEW state \in CallState
  PROVE  /\ In(state, NoRequest) \in CallRow /\ In(state, NoRequest).state = state
         /\ \A r \in Requests :
              /\ In(state, r) \in CallRow /\ In(state, r).state = state
              /\ In(state, r).key = r.key /\ In(state, r).payload = r.payload
              /\ In(state, r).actor = r.actor
  BY RequestFacts DEF In, CallRow, NoRequest

LEMMA BusTypes ==
  ASSUME BusTypeOK
  PROVE  /\ call \in [Calls -> CallRow] /\ row \in [Keys -> Calls \cup {None}]
         /\ effects \in [Keys -> Nat] /\ None \notin Calls /\ None \notin Payloads
  BY CommandBusAssumption DEF BusTypeOK, CallRow

\* What a key has answered is answered by the call of its row.
LEMMA Answered ==
  ASSUME BusOK, NEW k \in Keys
  PROVE  /\ HasAnswer(k) <=> row[k] # None /\ call[row[k]].state \in {"answered", "unheard"}
         /\ HasAnswer(k) => row[k] \in Calls /\ call[row[k]].payload \in Payloads
                             /\ effects[k] = 1
  BY BusTypes DEF BusOK, RowsOK, HasAnswer, InProgress

LEMMA BeginStep ==
  ASSUME BusOK, NEW c \in Calls, NEW r \in Requests, Begin(c, r)
  PROVE  BusOK' /\ \A k \in Keys : HasAnswer(k)' => HasAnswer(k) /\ row'[k] = row[k]
                                                  /\ call'[row[k]] = call[row[k]]
<1>1. /\ call[c].state = "new" /\ row[r.key] = None
      /\ row' = [row EXCEPT ![r.key] = c]
      /\ call' = [call EXCEPT ![c] = In("open", r)]
      /\ effects' = effects
  BY DEF Begin
<1>2. /\ call \in [Calls -> CallRow] /\ row \in [Keys -> Calls \cup {None}]
      /\ effects \in [Keys -> Nat] /\ None \notin Calls /\ None \notin Payloads
      /\ r.key \in Keys /\ r.payload \in Payloads
  BY BusTypes, RequestFacts DEF BusOK
<1>3. /\ In("open", r) \in CallRow /\ In("open", r).state = "open"
      /\ In("open", r).key = r.key /\ In("open", r).payload = r.payload
  BY InFacts DEF CallState
<1>4. /\ call' \in [Calls -> CallRow] /\ row' \in [Keys -> Calls \cup {None}]
      /\ call'[c].state = "open" /\ call'[c].key = r.key /\ call'[c].payload = r.payload
      /\ row'[r.key] = c
      /\ \A x \in Calls \ {c} : call'[x] = call[x]
      /\ \A k \in Keys \ {r.key} : row'[k] = row[k]
  BY <1>1, <1>2, <1>3
<1>5. BusTypeOK'
  BY <1>1, <1>2, <1>4 DEF BusTypeOK, CallRow
<1>6. \A k \in Keys : row[k] # c
  BY <1>1, <1>2 DEF BusOK, RowsOK
<1>7. RowsOK'
  BY <1>1, <1>2, <1>4, <1>6 DEF BusOK, RowsOK
<1>8. \A k \in Keys : /\ HasAnswer(k)' => HasAnswer(k) /\ k # r.key
                      /\ HasAnswer(k) => HasAnswer(k)' /\ row'[k] = row[k]
                                          /\ call'[row[k]] = call[row[k]]
  BY <1>1, <1>2, <1>4, <1>6 DEF HasAnswer, InProgress
<1>9. AnswersOK'
  BY <1>1, <1>2, <1>4, <1>8 DEF BusOK, AnswersOK
<1> QED
  BY <1>5, <1>7, <1>8, <1>9 DEF BusOK

LEMMA ReplayStep ==
  ASSUME BusOK, NEW c \in Calls, NEW r \in Requests, Replay(c, r)
  PROVE  BusOK' /\ \A k \in Keys : HasAnswer(k)' => HasAnswer(k) /\ row'[k] = row[k]
                                                  /\ call'[row[k]] = call[row[k]]
<1>1. /\ call[c].state = "new" /\ HasAnswer(r.key) /\ UNCHANGED <<row, effects>>
      /\ \/ /\ call[row[r.key]].payload = r.payload /\ call[row[r.key]].actor = r.actor
            /\ call' = [call EXCEPT ![c] = In("answered", r)]
         \/ call' = [call EXCEPT ![c] = In("refused", NoRequest)]
  BY DEF Replay, SameRequest
<1>2. /\ call \in [Calls -> CallRow] /\ row \in [Keys -> Calls \cup {None}]
      /\ None \notin Calls /\ r.key \in Keys
  BY BusTypes, RequestFacts DEF BusOK
<1>3. /\ In("answered", r) \in CallRow /\ In("answered", r).state = "answered"
      /\ In("answered", r).key = r.key /\ In("answered", r).payload = r.payload
      /\ In("answered", r).actor = r.actor
      /\ In("refused", NoRequest) \in CallRow /\ In("refused", NoRequest).state = "refused"
  BY InFacts DEF CallState
<1>4. /\ call' \in [Calls -> CallRow]
      /\ \A x \in Calls \ {c} : call'[x] = call[x]
      /\ \/ /\ call'[c].state = "answered" /\ call'[c].key = r.key
            /\ call'[c].payload = call[row[r.key]].payload
            /\ call'[c].actor = call[row[r.key]].actor
         \/ call'[c].state = "refused"
  BY <1>1, <1>2, <1>3
<1>5. BusTypeOK'
  BY <1>1, <1>4 DEF BusOK, BusTypeOK, CallRow
<1>6. \A k \in Keys : row[k] # c
  BY <1>1, <1>2 DEF BusOK, RowsOK
<1>7. RowsOK'
  BY <1>1, <1>2, <1>4, <1>6 DEF BusOK, RowsOK
<1>8. \A k \in Keys : /\ HasAnswer(k)' <=> HasAnswer(k)
                      /\ row[k] # None => call'[row[k]] = call[row[k]]
  BY <1>1, <1>2, <1>4, <1>6 DEF HasAnswer, InProgress
<1>9. AnswersOK'
  BY <1>1, <1>2, <1>4, <1>8 DEF BusOK, AnswersOK, HasAnswer
<1> QED
  BY <1>1, <1>5, <1>7, <1>8, <1>9 DEF BusOK, HasAnswer

LEMMA RollbackStep ==
  ASSUME BusOK, NEW c \in Calls, Rollback(c)
  PROVE  BusOK' /\ \A k \in Keys : HasAnswer(k)' => HasAnswer(k) /\ row'[k] = row[k]
                                                  /\ call'[row[k]] = call[row[k]]
<1>1. /\ call[c].state = "open" /\ effects' = effects
      /\ row' = [row EXCEPT ![call[c].key] = None]
  BY DEF Rollback
<1>2. PICK state \in {"failed", "new"} : call' = [call EXCEPT ![c] = In(state, NoRequest)]
  BY DEF Rollback
<1>3. /\ call \in [Calls -> CallRow] /\ row \in [Keys -> Calls \cup {None}]
      /\ effects \in [Keys -> Nat] /\ None \notin Calls
      /\ call[c].key \in Keys /\ row[call[c].key] = c
  BY <1>1, BusTypes DEF BusOK, RowsOK
<1>4. In(state, NoRequest) \in CallRow /\ In(state, NoRequest).state = state
  BY InFacts DEF CallState
<1> DEFINE key == call[c].key
<1>5. /\ call' \in [Calls -> CallRow] /\ row' \in [Keys -> Calls \cup {None}]
      /\ call'[c].state = state /\ row'[key] = None
      /\ \A x \in Calls \ {c} : call'[x] = call[x]
      /\ \A k \in Keys \ {key} : row'[k] = row[k]
  BY <1>1, <1>2, <1>3, <1>4
<1>6. BusTypeOK'
  BY <1>1, <1>3, <1>5 DEF BusTypeOK, CallRow
<1>7. \A k \in Keys \ {key} : row[k] # c
  BY <1>3 DEF BusOK, RowsOK
<1>8. effects[key] = 0
  BY <1>1, <1>3 DEF BusOK, RowsOK
<1>9. \A x \in Calls \ {c} : call[x].state = "open" => call[x].key # key
  BY <1>3 DEF BusOK, RowsOK
<1> HIDE DEF key
<1>10. RowsOK'
  BY <1>1, <1>3, <1>5, <1>7, <1>8, <1>9 DEF BusOK, RowsOK
<1>11. ~HasAnswer(key)
  BY <1>1, <1>3 DEF HasAnswer, InProgress, key
<1>12. \A k \in Keys : /\ HasAnswer(k)' <=> HasAnswer(k)
                       /\ HasAnswer(k) => row'[k] = row[k] /\ row[k] # c
                                           /\ call'[row[k]] = call[row[k]]
  BY <1>3, <1>5, <1>7, <1>11 DEF HasAnswer, InProgress
<1>13. AnswersOK'
  BY <1>2, <1>3, <1>5, <1>12 DEF BusOK, AnswersOK
<1> QED
  BY <1>6, <1>10, <1>12, <1>13 DEF BusOK

\* The commit makes its call the answer of its key.
LEMMA CommitStep ==
  ASSUME BusOK, NEW c \in Calls, Commit(c)
  PROVE  /\ BusOK' /\ call[c].payload \in Payloads
         /\ \A k \in Keys : HasAnswer(k)' =>
              \/ call'[row'[k]].payload = call[c].payload
              \/ HasAnswer(k) /\ row'[k] = row[k] /\ call'[row[k]] = call[row[k]]
<1>1. /\ call[c].state = "open" /\ UNCHANGED row
      /\ effects' = [effects EXCEPT ![call[c].key] = effects[call[c].key] + 1]
  BY DEF Commit
<1>2. PICK state \in {"answered", "unheard"} : call' = [call EXCEPT ![c].state = state]
  BY DEF Commit
<1>3. /\ call \in [Calls -> CallRow] /\ row \in [Keys -> Calls \cup {None}]
      /\ effects \in [Keys -> Nat] /\ None \notin Calls
      /\ call[c].key \in Keys /\ row[call[c].key] = c
  BY <1>1, BusTypes DEF BusOK, RowsOK
<1> PICK key \in Keys : key = call[c].key
  BY <1>3
<1>4. /\ call' \in [Calls -> CallRow] /\ call'[c].state = state /\ call'[c].key = key
      /\ call'[c].payload = call[c].payload /\ call'[c].actor = call[c].actor
      /\ \A x \in Calls \ {c} : call'[x] = call[x]
  BY <1>2, <1>3 DEF CallRow, CallState
<1>5. effects[key] = 0 /\ call[c].payload \in Payloads
  BY <1>1, <1>3 DEF BusOK, RowsOK
<1>6. /\ effects' \in [Keys -> Nat] /\ effects'[key] = 1
      /\ \A k \in Keys \ {key} : effects'[k] = effects[k]
  BY <1>1, <1>3, <1>5
<1>7. \A k \in Keys \ {key} : row[k] # c
  BY <1>3 DEF BusOK, RowsOK
<1>8. \A x \in Calls \ {c} : call[x].state = "open" => call[x].key # key
  BY <1>3 DEF BusOK, RowsOK
<1>9. BusTypeOK'
  BY <1>1, <1>3, <1>4, <1>6 DEF BusTypeOK, CallRow
<1>10. key \in Keys /\ row[key] = c
  BY <1>3
<1>11. RowsOK'
  BY <1>1, <1>3, <1>4, <1>5, <1>6, <1>7, <1>8, <1>10 DEF BusOK, RowsOK
<1>12. HasAnswer(key)' /\ \A k \in Keys \ {key} :
         /\ HasAnswer(k)' <=> HasAnswer(k)
         /\ row[k] # None => call'[row[k]] = call[row[k]]
  <2>1. HasAnswer(key)'
    BY <1>1, <1>2, <1>3, <1>4, <1>10 DEF HasAnswer, InProgress
  <2>2. \A k \in Keys \ {key} : row[k] # None => call'[row[k]] = call[row[k]]
    BY <1>3, <1>4, <1>7
  <2>3. \A k \in Keys \ {key} : HasAnswer(k)' <=> HasAnswer(k)
    BY <1>1, <2>2 DEF HasAnswer, InProgress
  <2> QED
    BY <2>1, <2>2, <2>3
<1>13. ~HasAnswer(key)
  BY <1>1, <1>10 DEF HasAnswer, InProgress
<1>14. AnswersOK'
  <2>1. ASSUME NEW x \in Calls \ {c}, call'[x].state = "answered"
        PROVE  \E k \in Keys : /\ call'[x].key = k /\ HasAnswer(k)'
                              /\ call'[row'[k]].payload = call'[x].payload
                              /\ call'[row'[k]].actor = call'[x].actor
    <3>1. /\ call'[x] = call[x] /\ call[x].key \in Keys /\ HasAnswer(call[x].key)
          /\ call[row[call[x].key]].payload = call[x].payload
          /\ call[row[call[x].key]].actor = call[x].actor
      BY <1>4, <2>1 DEF BusOK, AnswersOK
    <3>2. call[x].key # key /\ row[call[x].key] # None
      BY <1>13, <3>1 DEF HasAnswer
    <3> QED
      BY <1>1, <1>12, <3>1, <3>2
  <2>2. /\ call'[c].key = key /\ HasAnswer(key)'
        /\ call'[row'[key]].payload = call'[c].payload
        /\ call'[row'[key]].actor = call'[c].actor
    BY <1>1, <1>4, <1>10, <1>12
  <2>3. ASSUME NEW x \in Calls, call'[x].state = "answered"
        PROVE  \E k \in Keys : /\ call'[x].key = k /\ HasAnswer(k)'
                              /\ call'[row'[k]].payload = call'[x].payload
                              /\ call'[row'[k]].actor = call'[x].actor
    BY <2>1, <2>2, <2>3
  <2> QED
    BY <2>3 DEF AnswersOK, HasAnswer, InProgress
<1> QED
  BY <1>1, <1>4, <1>5, <1>9, <1>10, <1>11, <1>12, <1>14 DEF BusOK, HasAnswer

-----------------------------------------------------------------------------
(***************************************************************************)
(* What a step does to the runs                                            *)
(***************************************************************************)
Stage == {"stranded", "load", "look", "sendNow", "mark", "create", "deliver", "read",
          "fence", "smtp", "record", "done", "thrown", "permanent"}
Got == MailStatus \cup {"permanent"}

\* The run u goes on as the member of X, if any.
Moves(u, X) == /\ runs' = (runs \ {u}) \cup X /\ X \subseteq Run
               /\ \A v \in X : v.id = u.id
               /\ \A v, w \in X : v = w

LEMMA MovesRuns ==
  ASSUME RunsOK, NEW u \in runs, NEW X, Moves(u, X)
  PROVE  RunsOK'
  BY DEF RunsOK, Moves

LEMMA GoesMoves ==
  ASSUME RunsOK, NEW u \in runs, NEW s \in Stage, Goes(u, s)
  PROVE  \E X : Moves(u, X) /\ \A v \in X : v.stage = s /\ v.got = u.got
<1> DEFINE v == [u EXCEPT !.stage = s]
<1>1. u \in Run
  BY DEF RunsOK
<1>2. v \in Run /\ v.id = u.id /\ v.stage = s /\ v.got = u.got
  BY <1>1 DEF Run, Stage
<1>3. runs' = (runs \ {u}) \cup {v}
  BY DEF Goes
<1> HIDE DEF v
<1>4. Moves(u, {v})
  BY <1>2, <1>3 DEF Moves
<1> QED
  BY <1>2, <1>4

LEMMA ToldMoves ==
  ASSUME RunsOK, NEW u \in runs, NEW got \in Got, Told(u, got)
  PROVE  \E X : /\ Moves(u, X)
               /\ \A v \in X : /\ v.stage \in {"record", "done", "permanent"}
                               /\ kind = "notified" => v.stage = "record"
                               /\ v.got \in {u.got, got}
<1>1. u \in Run
  BY DEF RunsOK
<1>2. CASE u.by = "operator"
  <2>1. Moves(u, {})
    BY <1>2 DEF Told, Moves
  <2> QED
    BY <2>1
<1>3. CASE u.by # "operator" /\ kind = "notified"
  <2> DEFINE v == [u EXCEPT !.stage = "record", !.got = got]
  <2>1. v \in Run /\ v.id = u.id /\ v.stage = "record" /\ v.got = got
    BY <1>1 DEF Run, Got
  <2>2. runs' = (runs \ {u}) \cup {v}
    BY <1>3 DEF Told
  <2> HIDE DEF v
  <2>3. Moves(u, {v})
    BY <2>1, <2>2 DEF Moves
  <2> QED
    BY <2>1, <2>3
<1>4. CASE u.by # "operator" /\ kind # "notified"
  <2> PICK s \in {"permanent", "done"} : s = IF got = "permanent" THEN "permanent" ELSE "done"
    OBVIOUS
  <2> DEFINE v == [u EXCEPT !.stage = s]
  <2>1. v \in Run /\ v.id = u.id /\ v.stage = s /\ v.got = u.got
    BY <1>1 DEF Run
  <2>2. runs' = (runs \ {u}) \cup {v}
    BY <1>4 DEF Told
  <2> HIDE DEF v
  <2>3. Moves(u, {v})
    BY <2>1, <2>2 DEF Moves
  <2> QED
    BY <1>4, <2>1, <2>3
<1> QED
  BY <1>2, <1>3, <1>4

\* Runs that are at an attempt.
Trying(S) == IF \E v \in S : v.stage \in {"fence", "smtp"} THEN 1 ELSE 0

LEMMA AttemptingFinite ==
  /\ IsFiniteSet(Attempting) /\ Cardinality(Attempting) \in Nat
  /\ IsFiniteSet(Attempting') /\ Cardinality(Attempting') \in Nat
<1>1. IsFiniteSet(Slots)
  BY NotificationsAssumption, FS_Interval DEF Slots
<1>2. Attempting \subseteq Slots /\ Attempting' \subseteq Slots
  BY DEF Attempting, Slots
<1> QED
  BY <1>1, <1>2, FS_Subset, FS_CardinalityType

\* The attempts change by that of the run alone.
LEMMA AttemptingMoves ==
  ASSUME RunsOK, NEW u \in runs, NEW X, Moves(u, X)
  PROVE  Cardinality(Attempting') = Cardinality(Attempting) - Trying({u}) + Trying(X)
<1> DEFINE i == u.id
           Rest == {j \in Slots : \E v \in runs \ {u} : v.id = j /\ v.stage \in {"fence", "smtp"}}
<1>1. i \in Slots /\ i \notin Rest
  BY DEF RunsOK, Run
<1>2. Attempting = IF u.stage \in {"fence", "smtp"} THEN Rest \cup {i} ELSE Rest
  BY <1>1 DEF Attempting
<1>3. Attempting' = IF \E v \in X : v.stage \in {"fence", "smtp"} THEN Rest \cup {i} ELSE Rest
  <2>1. \A v \in X : v.id = i
    BY DEF Moves
  <2>2. Attempting' = Rest \cup {j \in Slots : \E v \in X : v.id = j /\ v.stage \in {"fence", "smtp"}}
    BY DEF Attempting, Moves, Slots
  <2> QED
    BY <1>1, <2>1, <2>2
<1>4. IsFiniteSet(Rest)
  <2>1. IsFiniteSet(Slots)
    BY NotificationsAssumption, FS_Interval DEF Slots
  <2> QED
    BY <2>1, FS_Subset
<1> HIDE DEF Rest, i
<1>5. Cardinality(Rest \cup {i}) = Cardinality(Rest) + 1 /\ Cardinality(Rest) \in Nat
  BY <1>1, <1>4, FS_AddElement, FS_CardinalityType
<1> QED
  BY <1>2, <1>3, <1>5 DEF Trying

-----------------------------------------------------------------------------
(***************************************************************************)
(* What a run does to the message, in seven kinds                          *)
(***************************************************************************)
Quiet(u, X) ==
  /\ mail' = mail /\ handed' = handed
  /\ \A v \in X : v.stage \notin {"fence", "smtp"}

MarksUnknown(u, X) ==
  /\ mail = "sending" /\ ~Locked /\ mail' = "unknown" /\ handed' = handed
  /\ \A v \in X : v.stage \notin {"fence", "smtp"}

Creates(u, X) ==
  /\ mail = "none" /\ mail' = "pending" /\ handed' = handed
  /\ \A v \in X : v.stage \notin {"fence", "smtp"}

Claims(u, X) ==
  /\ mail \in Claimable /\ mail' = "sending" /\ handed' = handed
  /\ \A v \in X : v.stage = "fence"

Locks(u, X) ==
  /\ u.stage = "fence" /\ ~Locked /\ mail = "sending" /\ mail' = mail /\ handed' = handed
  /\ \A v \in X : v.stage = "smtp"

Hears(u, X) ==
  /\ u.stage = "smtp"
  /\ \/ mail' \in {"accepted", "unknown"} /\ handed' = handed + 1
     \/ mail' = "rejected" /\ handed' = handed
  /\ \A v \in X : v.stage \notin {"fence", "smtp"}

Dies(u, X) ==
  /\ X = {} /\ mail' = mail
  /\ handed' \in IF u.stage = "smtp" THEN {handed, handed + 1} ELSE {handed}

\* What a run has heard of is so, and one that is done has recorded.
Tells(u, X) ==
  \A v \in X :
    /\ v.got = "accepted" => u.got = "accepted" \/ mail = "accepted" \/ mail' = "accepted"
    /\ kind = "notified" /\ v.stage = "done" =>
         delivery' # "pending"

RunShape(u) ==
  \E X : /\ Moves(u, X) /\ Tells(u, X)
        /\ \/ Quiet(u, X) \/ MarksUnknown(u, X) \/ Creates(u, X) \/ Claims(u, X)
           \/ Locks(u, X) \/ Hears(u, X) \/ Dies(u, X)

LEMMA MarkShape ==
  ASSUME TypeOK, RunsOK, NEW u \in runs, NEW otherwise \in {"deliver", "read"},
         MarkSendingUnknown(u, otherwise), UNCHANGED <<handed, delivery>>
  PROVE  RunShape(u)
<1>1. CASE mail = "sending" /\ ~Locked /\ mail' = "unknown" /\ Told(u, "unknown")
  <2>1. "unknown" \in Got
    BY DEF Got, MailStatus
  <2>2. PICK X : /\ Moves(u, X)
                 /\ \A v \in X : /\ v.stage \in {"record", "done", "permanent"}
                                 /\ kind = "notified" => v.stage = "record"
                                 /\ v.got \in {u.got, "unknown"}
    BY <1>1, <2>1, ToldMoves
  <2> QED
    BY <1>1, <2>2 DEF RunShape, Tells, MarksUnknown
<1>2. CASE mail # "sending" /\ Goes(u, otherwise) /\ UNCHANGED mail
  <2>1. otherwise \in Stage
    BY DEF Stage
  <2>2. PICK X : Moves(u, X) /\ \A v \in X : v.stage = otherwise /\ v.got = u.got
    BY <1>2, <2>1, GoesMoves
  <2> QED
    BY <1>2, <2>2 DEF RunShape, Tells, Quiet
<1> QED
  BY <1>1, <1>2 DEF MarkSendingUnknown

\* A run that goes on without an attempt, and one that is told the status.
LEMMA GoesShape ==
  ASSUME RunsOK, NEW u \in runs, NEW s \in Stage \ {"fence", "smtp", "done"}, Goes(u, s),
         mail' = mail \/ (mail = "none" /\ mail' = "pending"), UNCHANGED handed
  PROVE  RunShape(u)
<1>1. PICK X : Moves(u, X) /\ \A v \in X : v.stage = s /\ v.got = u.got
  BY GoesMoves
<1> QED
  BY <1>1 DEF RunShape, Tells, Quiet, Creates

LEMMA ToldShape ==
  ASSUME TypeOK, RunsOK, NEW u \in runs, Told(u, mail), UNCHANGED <<mail, handed>>
  PROVE  RunShape(u)
<1>1. mail \in Got
  BY DEF TypeOK, Got
<1>2. PICK X : /\ Moves(u, X)
               /\ \A v \in X : /\ v.stage \in {"record", "done", "permanent"}
                               /\ kind = "notified" => v.stage = "record"
                               /\ v.got \in {u.got, mail}
  BY <1>1, ToldMoves
<1> QED
  BY <1>2 DEF RunShape, Tells, Quiet

\* Every step of a run, and its death.
LEMMA StepShape ==
  ASSUME TypeOK, RunsOK, NEW u \in runs, Step(u) \/ Crash(u)
  PROVE  /\ RunShape(u)
         /\ UNCHANGED <<bus, kind, content, resends>>
         /\ \/ delivery' = delivery
            \/ u.stage = "record" /\ delivery' = RecordedAs(u.got)
         /\ job' = job \/ End(u)
         /\ faults' \in 0..MaxFaults
<1>0. u \in Run /\ mail \in Got /\ faults \in 0..MaxFaults /\ MaxFaults \in Nat
  BY NotificationsAssumption DEF RunsOK, TypeOK, Got
<1>1. CASE u.stage = "stranded" /\ Stranded(u) /\ UNCHANGED <<bus, kind, content, delivery, job, handed, resends, faults>>
  BY <1>0, <1>1, MarkShape DEF Stranded
<1>2. CASE u.stage = "mark" /\ Mark(u) /\ UNCHANGED <<bus, kind, content, delivery, job, handed, resends, faults>>
  BY <1>0, <1>2, MarkShape DEF Mark
<1>3. CASE u.stage = "load" /\ Load(u) /\ UNCHANGED <<bus, kind, content, delivery, job, handed, resends, faults>>
  <2>1. CASE delivery \in {"sent", "skipped"}
    <3>1. Goes(u, "done") /\ "done" \in Stage /\ mail' = mail
      BY <1>3, <2>1 DEF Load, Stage
    <3>2. PICK X : Moves(u, X) /\ \A v \in X : v.stage = "done" /\ v.got = u.got
      BY <3>1, GoesMoves
    <3>3. RunShape(u)
      BY <1>3, <2>1, <3>1, <3>2 DEF RunShape, Tells, Quiet
    <3> QED
      BY <1>0, <1>3, <3>3
  <2>2. CASE delivery \notin {"sent", "skipped"}
    <3>1. Goes(u, "look") /\ "look" \in Stage \ {"fence", "smtp", "done"} /\ mail' = mail
      BY <1>3, <2>2 DEF Load, Stage
    <3> QED
      BY <1>0, <1>3, <3>1, GoesShape
  <2> QED
    BY <2>1, <2>2
<1>4. CASE u.stage = "look" /\ Look(u) /\ UNCHANGED <<bus, kind, content, delivery, job, handed, resends, faults>>
  <2>1. mail' = mail /\ (Goes(u, "sendNow") \/ Goes(u, "deliver") \/ Told(u, mail))
    BY <1>4 DEF Look
  <2>2. {"sendNow", "deliver"} \subseteq Stage \ {"fence", "smtp", "done"}
    BY DEF Stage
  <2> QED
    BY <1>0, <1>4, <2>1, <2>2, GoesShape, ToldShape
<1>5. CASE u.stage = "sendNow" /\ SendNow(u) /\ UNCHANGED <<bus, kind, content, delivery, job, handed, resends, faults>>
  <2>1. mail' = mail /\ (Goes(u, "create") \/ Goes(u, "mark") \/ Told(u, mail))
    BY <1>5 DEF SendNow
  <2>2. {"create", "mark"} \subseteq Stage \ {"fence", "smtp", "done"}
    BY DEF Stage
  <2> QED
    BY <1>0, <1>5, <2>1, <2>2, GoesShape, ToldShape
<1>6. CASE u.stage = "create" /\ Create(u) /\ UNCHANGED <<bus, kind, content, delivery, job, handed, resends, faults>>
  <2>1. \/ Told(u, mail) /\ mail' = mail
        \/ Goes(u, "deliver") /\ (mail' = mail \/ (mail = "none" /\ mail' = "pending"))
    BY <1>6 DEF Create
  <2>2. "deliver" \in Stage \ {"fence", "smtp", "done"}
    BY DEF Stage
  <2> QED
    BY <1>0, <1>6, <2>1, <2>2, GoesShape, ToldShape
<1>7. CASE u.stage = "read" /\ Read(u) /\ UNCHANGED <<bus, kind, content, delivery, job, handed, resends, faults>>
  BY <1>0, <1>7, ToldShape DEF Read
<1>8. CASE u.stage = "deliver" /\ Deliver(u) /\ UNCHANGED <<bus, kind, content, delivery, job, handed, resends, faults>>
  <2>1. CASE mail \in Claimable /\ mail' = "sending" /\ Goes(u, "fence")
    <3>1. "fence" \in Stage
      BY DEF Stage
    <3>2. PICK X : Moves(u, X) /\ \A v \in X : v.stage = "fence" /\ v.got = u.got
      BY <2>1, <3>1, GoesMoves
    <3>3. RunShape(u)
      BY <1>8, <2>1, <3>2 DEF RunShape, Tells, Claims
    <3> QED
      BY <1>0, <1>8, <3>3
  <2>2. CASE mail \notin Claimable /\ Goes(u, "read") /\ UNCHANGED mail
    <3>1. "read" \in Stage \ {"fence", "smtp", "done"}
      BY DEF Stage
    <3> QED
      BY <1>0, <1>8, <2>2, <3>1, GoesShape
  <2> QED
    BY <1>8, <2>1, <2>2 DEF Deliver
<1>9. CASE u.stage = "fence" /\ Fence(u) /\ UNCHANGED <<bus, kind, content, delivery, job, handed, resends, faults>>
  <2>1. CASE mail = "sending"
    <3>1. "smtp" \in Stage /\ Goes(u, "smtp") /\ ~Locked /\ mail' = mail
      BY <1>9, <2>1 DEF Stage, Fence
    <3>2. PICK X : Moves(u, X) /\ \A v \in X : v.stage = "smtp" /\ v.got = u.got
      BY <3>1, GoesMoves
    <3>3. RunShape(u)
      BY <1>9, <2>1, <3>1, <3>2 DEF RunShape, Tells, Locks
    <3> QED
      BY <1>0, <1>9, <3>3
  <2>2. CASE mail # "sending"
    <3>1. Told(u, mail) /\ mail' = mail
      BY <1>9, <2>2 DEF Fence
    <3> QED
      BY <1>0, <1>9, <3>1, ToldShape
  <2> QED
    BY <2>1, <2>2
<1>10. CASE u.stage = "record" /\ Record(u) /\ UNCHANGED <<bus, kind, content, mail, job, handed, resends, faults>>
  <2>1. PICK s \in {"thrown", "permanent", "done"} :
          runs' = (runs \ {u}) \cup {[u EXCEPT !.got = "none", !.stage = s]}
    BY <1>10 DEF Record
  <2>2. delivery' = RecordedAs(u.got) /\ RecordedAs(u.got) \in {"sent", "failed", "unknown"}
    BY <1>10 DEF Record, RecordedAs
  <2> DEFINE v == [u EXCEPT !.got = "none", !.stage = s]
  <2>3. v \in Run /\ v.id = u.id /\ v.got = "none" /\ v.stage = s
    BY <1>0 DEF Run, MailStatus
  <2> HIDE DEF v
  <2>4. Moves(u, {v})
    BY <2>1, <2>3 DEF Moves, v
  <2>5. RunShape(u)
    BY <1>10, <2>2, <2>3, <2>4 DEF RunShape, Tells, Quiet
  <2> QED
    BY <1>0, <1>10, <2>2, <2>5
<1>11. CASE u.stage = "smtp" /\ Smtp(u) /\ UNCHANGED <<bus, kind, content, delivery, job, resends, faults>>
  <2>1. PICK got \in {"accepted", "rejected", "permanent", "unknown"} :
          /\ Told(u, got)
          /\ \/ got \in {"accepted", "unknown"} /\ mail' = got /\ handed' = handed + 1
             \/ got \in {"rejected", "permanent"} /\ mail' = "rejected" /\ handed' = handed
    BY <1>11 DEF Smtp
  <2>2. got \in Got
    BY DEF Got, MailStatus
  <2>3. PICK X : /\ Moves(u, X)
                 /\ \A v \in X : /\ v.stage \in {"record", "done", "permanent"}
                                 /\ kind = "notified" => v.stage = "record"
                                 /\ v.got \in {u.got, got}
    BY <2>1, <2>2, ToldMoves
  <2>4. Tells(u, X) /\ Hears(u, X)
    BY <1>11, <2>1, <2>3 DEF Tells, Hears
  <2>5. RunShape(u)
    BY <2>3, <2>4 DEF RunShape
  <2> QED
    BY <1>0, <1>11, <2>5
<1>12. CASE End(u)
  <2>1. Moves(u, {}) /\ mail' = mail /\ handed' = handed
    BY <1>12 DEF End, Moves
  <2>2. RunShape(u)
    BY <2>1 DEF RunShape, Tells, Quiet
  <2> QED
    BY <1>0, <1>12, <2>2 DEF End
<1>13. CASE Crash(u)
  <2>1. /\ Moves(u, {}) /\ mail' = mail /\ UNCHANGED <<bus, kind, content, delivery, job, resends>>
        /\ handed' \in IF u.stage = "smtp" THEN {handed, handed + 1} ELSE {handed}
    BY <1>13 DEF Crash, Moves, store
  <2>2. RunShape(u)
    BY <2>1 DEF RunShape, Tells, Dies
  <2>3. faults' \in 0..MaxFaults
    BY <1>0, <1>13 DEF Crash, Fault
  <2> QED
    BY <2>1, <2>2, <2>3
<1> QED
  BY <1>1, <1>2, <1>3, <1>4, <1>5, <1>6, <1>7, <1>8, <1>9, <1>10, <1>11, <1>12, <1>13 DEF Step

-----------------------------------------------------------------------------
(***************************************************************************)
(* The parts of the invariant, under the steps of a run                    *)
(***************************************************************************)
LEMMA NTypes ==
  ASSUME NInv
  PROVE  /\ RunsOK /\ mail \in MailStatus /\ handed \in Nat /\ resends \in Nat
         /\ resends \in 0..MaxResends /\ MaxResends \in Nat
  BY NotificationsAssumption DEF NInv, TypeOK, RunsOK

LEMMA LockStep ==
  ASSUME RunsOK, LockOK, NEW u \in runs, NEW X, Moves(u, X),
         \/ Quiet(u, X) \/ MarksUnknown(u, X) \/ Creates(u, X) \/ Claims(u, X)
         \/ Locks(u, X) \/ Hears(u, X) \/ Dies(u, X)
  PROVE  /\ LockOK'
         /\ mail = "erased" => mail' = "erased" /\ handed' = handed
<1> USE DEF Moves, LockOK, Locked
<1>1. CASE Quiet(u, X)
  BY <1>1 DEF Quiet
<1>2. CASE MarksUnknown(u, X)
  BY <1>2 DEF MarksUnknown
<1>3. CASE Creates(u, X)
  BY <1>3 DEF Creates
<1>4. CASE Claims(u, X)
  BY <1>4 DEF Claims, Claimable
<1>5. CASE Locks(u, X)
  BY <1>5 DEF Locks
<1>6. CASE Hears(u, X)
  BY <1>6 DEF Hears
<1>7. CASE Dies(u, X)
  BY <1>7 DEF Dies
<1> QED
  BY <1>1, <1>2, <1>3, <1>4, <1>5, <1>6, <1>7

LEMMA CountStep ==
  ASSUME RunsOK, LockOK, CountOK, handed \in Nat, resends \in Nat, resends' = resends,
         NEW u \in runs, NEW X, Moves(u, X),
         \/ Quiet(u, X) \/ MarksUnknown(u, X) \/ Creates(u, X) \/ Claims(u, X)
         \/ Locks(u, X) \/ Hears(u, X) \/ Dies(u, X)
  PROVE  CountOK' /\ handed' \in Nat
<1> DEFINE n == Cardinality(Attempting)
<1>1. /\ n \in Nat /\ Cardinality(Attempting') = n - Trying({u}) + Trying(X)
      /\ handed + n + Open <= 1 + resends
  BY AttemptingFinite, AttemptingMoves DEF CountOK
<1> HIDE DEF n
<1> SUFFICES handed' + (n - Trying({u}) + Trying(X)) + Open' <= 1 + resends /\ handed' \in Nat
  BY <1>1 DEF CountOK
<1>2. CASE Quiet(u, X)
  BY <1>1, <1>2 DEF Quiet, Trying, Open
<1>3. CASE MarksUnknown(u, X)
  BY <1>1, <1>3 DEF MarksUnknown, Trying, Open
<1>4. CASE Creates(u, X)
  BY <1>1, <1>4 DEF Creates, Trying, Open
<1>5. CASE Claims(u, X)
  <2>1. Trying({u}) \in {0, 1} /\ Trying(X) \in {0, 1} /\ Open = 1 /\ Open' = 0
    BY <1>5 DEF Claims, Claimable, Trying, Open
  <2> QED
    BY <1>1, <1>5, <2>1 DEF Claims
<1>6. CASE Locks(u, X)
  <2>1. Trying({u}) = 1 /\ Trying(X) \in {0, 1} /\ Open = 0 /\ Open' = 0
    BY <1>6 DEF Locks, Trying, Open
  <2> QED
    BY <1>1, <1>6, <2>1 DEF Locks
<1>7. CASE Hears(u, X)
  <2>1. Trying({u}) = 1 /\ Trying(X) = 0 /\ Open = 0
    BY <1>7 DEF Hears, Trying, LockOK, Open
  <2> QED
    BY <1>1, <1>7, <2>1 DEF Hears, Open
<1>8. CASE Dies(u, X)
  <2>1. /\ Trying({u}) \in {0, 1} /\ Trying(X) = 0 /\ Open' = Open /\ Open \in {0, 1}
        /\ handed' \in {handed, handed + Trying({u})}
    BY <1>8 DEF Dies, Trying, Open
  <2> QED
    BY <1>1, <2>1
<1> QED
  BY <1>2, <1>3, <1>4, <1>5, <1>6, <1>7, <1>8

LEMMA EvidenceStep ==
  ASSUME RunsOK, LockOK, EvidenceOK, handed \in Nat, NEW u \in runs, NEW X,
         Moves(u, X), Tells(u, X),
         \/ Quiet(u, X) \/ MarksUnknown(u, X) \/ Creates(u, X) \/ Claims(u, X)
         \/ Locks(u, X) \/ Hears(u, X) \/ Dies(u, X),
         delivery' = delivery \/ (u.stage = "record" /\ delivery' = RecordedAs(u.got))
  PROVE  EvidenceOK'
<1>1. /\ handed' \in {handed, handed + 1}
      /\ mail \in {"accepted", "erased"} => mail' = mail
      /\ mail' = "accepted" => mail = "accepted" \/ handed' = handed + 1
  BY DEF Quiet, MarksUnknown, Creates, Claims, Claimable, Locks, Hears, Dies, LockOK
<1>2. mail' = "accepted" => handed' > 0
  BY <1>1 DEF EvidenceOK
<1>3. ASSUME NEW v \in runs', v.got = "accepted"
      PROVE  mail' \in {"accepted", "erased"} /\ handed' > 0
  <2>1. CASE v \in runs
    BY <1>1, <1>3, <2>1 DEF EvidenceOK
  <2>2. CASE v \in X
    BY <1>1, <1>2, <1>3, <2>2 DEF EvidenceOK, Tells
  <2> QED
    BY <2>1, <2>2 DEF Moves
<1>4. delivery' = "sent" => delivery = "sent" \/ u.got = "accepted"
  BY DEF RecordedAs
<1>5. delivery' = "sent" => mail' \in {"accepted", "erased"} /\ handed' > 0
  BY <1>1, <1>4 DEF EvidenceOK
<1> QED
  BY <1>2, <1>3, <1>5 DEF EvidenceOK

\* Settled rows of the queue.
LEMMA SettledRows ==
  ASSUME JobOK
  PROVE  /\ \A p \in BOOLEAN :
              /\ Failed(job, p) \in Row /\ Failed(job, p).state \in {"pending", "dead"}
              /\ Failed(job, p).state = "pending" => Failed(job, p).attempts < MaxAttempts
         /\ Completed(job) \in Row
         /\ Completed(job).state = "pending" => Completed(job).attempts < MaxAttempts
         /\ Due \in Row /\ Due.state = "pending" /\ Due.attempts < MaxAttempts
         /\ NoJob \in Row /\ NoJob.state = "none"
<1>1. /\ Due \in Row /\ Due.state = "pending" /\ Due.attempts < MaxAttempts
      /\ NoJob \in Row /\ NoJob.state = "none"
      /\ Closed("done") \in Row /\ Closed("done").state = "done"
      /\ Closed("dead") \in Row /\ Closed("dead").state = "dead"
  BY QueueRowAssumption DEF Due, NoJob, Closed, Row
<1>2. job.attempts \in 0..MaxAttempts /\ job.again \in BOOLEAN
  BY DEF JobOK, Row
<1>3. job.attempts < MaxAttempts =>
        LET j == [job EXCEPT !.state = "pending"]
        IN  j \in Row /\ j.state = "pending" /\ j.attempts < MaxAttempts
  BY DEF JobOK, Row
<1>4. ASSUME NEW p \in BOOLEAN
      PROVE  /\ Failed(job, p) \in Row /\ Failed(job, p).state \in {"pending", "dead"}
             /\ Failed(job, p).state = "pending" => Failed(job, p).attempts < MaxAttempts
  <2>1. CASE job.again
    BY <1>1, <2>1 DEF Failed, Settled
  <2>2. CASE ~job.again /\ (p \/ job.attempts >= MaxAttempts)
    BY <1>1, <2>2 DEF Failed, Settled
  <2>3. CASE ~job.again /\ ~(p \/ job.attempts >= MaxAttempts)
    BY <1>2, <1>3, <2>3, QueueRowAssumption DEF Failed, Settled
  <2> QED
    BY <2>1, <2>2, <2>3
<1>5. /\ Completed(job) \in Row
      /\ Completed(job).state = "pending" => Completed(job).attempts < MaxAttempts
  BY <1>1 DEF Completed, Settled
<1> QED
  BY <1>1, <1>4, <1>5

\* What holds when the bus, the content and the kind stay.
LEMMA ContentStays ==
  ASSUME ContentOK, UNCHANGED <<bus, kind, content>>, mail = "erased" => mail' = "erased"
  PROVE  ContentOK'
  BY DEF ContentOK, bus, HasAnswer, InProgress

LEMMA BusStays == BusOK /\ UNCHANGED bus => BusOK'
  BY DEF BusOK, BusTypeOK, RowsOK, AnswersOK, bus, HasAnswer, InProgress

LEMMA RunStep ==
  ASSUME NInv, NEW u \in runs, Step(u) \/ Crash(u)
  PROVE  NInv' /\ (mail = "erased" => mail' = "erased" /\ handed' = handed)
<1>1. /\ RunsOK /\ TypeOK /\ LockOK /\ CountOK /\ EvidenceOK /\ NotifiedOK /\ JobOK
      /\ BusOK /\ ContentOK /\ handed \in Nat /\ resends \in Nat /\ mail \in MailStatus
  BY NTypes DEF NInv
<1>2. /\ RunShape(u)
      /\ UNCHANGED <<bus, kind, content, resends>>
      /\ \/ delivery' = delivery
         \/ u.stage = "record" /\ delivery' = RecordedAs(u.got)
      /\ job' = job \/ End(u)
      /\ faults' \in 0..MaxFaults
  BY <1>1, StepShape
<1>3. PICK X : /\ Moves(u, X) /\ Tells(u, X)
               /\ \/ Quiet(u, X) \/ MarksUnknown(u, X) \/ Creates(u, X) \/ Claims(u, X)
                  \/ Locks(u, X) \/ Hears(u, X) \/ Dies(u, X)
  BY <1>2 DEF RunShape
<1>4. /\ LockOK' /\ CountOK' /\ EvidenceOK' /\ RunsOK' /\ handed' \in Nat
      /\ mail = "erased" => mail' = "erased" /\ handed' = handed
  BY <1>1, <1>2, <1>3, LockStep, CountStep, EvidenceStep, MovesRuns
<1>5. BusOK' /\ ContentOK'
  BY <1>1, <1>2, <1>4, BusStays, ContentStays
<1>6. JobOK' /\ (job'.state = "done" => job.state = "done" \/ u.stage = "done")
  <2>1. CASE job' = job
    BY <1>1, <2>1 DEF JobOK
  <2>2. CASE End(u)
    <3>1. \/ job' = job
          \/ u.stage = "done" /\ job' = Completed(job)
          \/ \E p \in BOOLEAN : job' = Failed(job, p)
      BY <2>2 DEF End
    <3> QED
      BY <1>1, <3>1, SettledRows DEF JobOK
  <2> QED
    BY <1>2, <2>1, <2>2
<1>7. mail' \in MailStatus
  BY <1>1, <1>3 DEF Quiet, MarksUnknown, Creates, Claims, Locks, Hears, Dies, MailStatus
<1>8. delivery' # delivery => delivery' \in {"sent", "failed", "unknown"}
  BY <1>2 DEF RecordedAs
<1>9. TypeOK'
  <2>1. delivery' \in {"none", "pending", "sent", "failed", "unknown", "skipped"}
    BY <1>1, <1>8 DEF TypeOK
  <2>2. BusTypeOK' /\ job' \in Row
    BY <1>5, <1>6 DEF BusOK, JobOK
  <2>3. runs' \subseteq Run' /\ (\A v, w \in runs : v.id = w.id => v = w)'
    BY <1>4 DEF RunsOK
  <2> QED
    BY <1>1, <1>2, <1>4, <1>7, <2>1, <2>2, <2>3 DEF TypeOK
<1>10. NotifiedOK'
  <2> SUFFICES ASSUME kind = "notified"
               PROVE  /\ content # None /\ delivery' # "none"
                      /\ \A v \in runs' : v.stage = "done" => delivery' # "pending"
                      /\ job'.state = "done" => delivery' # "pending"
    BY <1>2 DEF NotifiedOK
  <2>1. content # None /\ delivery # "none"
    BY <1>1 DEF NotifiedOK
  <2>2. delivery' # "none" /\ (delivery # "pending" => delivery' # "pending")
    BY <1>8, <2>1
  <2>3. \A v \in runs : v.stage = "done" => delivery # "pending"
    BY <1>1 DEF NotifiedOK
  <2>4. job.state = "done" => delivery # "pending"
    BY <1>1 DEF NotifiedOK
  <2>5. \A v \in X : v.stage = "done" => delivery' # "pending"
    BY <1>3 DEF Tells
  <2>6. runs' \subseteq runs \cup X
    BY <1>3 DEF Moves
  <2> QED
    BY <1>6, <2>1, <2>2, <2>3, <2>4, <2>5, <2>6
<1> QED
  BY <1>4, <1>5, <1>6, <1>9, <1>10 DEF NInv

-----------------------------------------------------------------------------
(***************************************************************************)
(* The commands, the queue and the operator                                *)
(***************************************************************************)

\* Steps that leave the runs, the message and the job alone.
LEMMA BusStepKeeps ==
  ASSUME NInv, BusStep
  PROVE  NInv' /\ mail' = mail /\ handed' = handed
<1>1. UNCHANGED <<kind, content, delivery, mail, job, runs, handed, resends, faults>>
  BY DEF BusStep, store
<1>2. BusOK' /\ \A k \in Keys : HasAnswer(k)' => HasAnswer(k) /\ row'[k] = row[k]
                                                  /\ call'[row[k]] = call[row[k]]
  BY BeginStep, ReplayStep, RollbackStep DEF BusStep, NInv
<1>3. ContentOK'
  BY <1>1, <1>2 DEF NInv, ContentOK
<1>4. TypeOK'
  BY <1>1, <1>2 DEF NInv, TypeOK, BusOK, Run, Slots
<1>5. JobOK' /\ LockOK' /\ EvidenceOK' /\ NotifiedOK'
  BY <1>1 DEF NInv, JobOK, LockOK, EvidenceOK, NotifiedOK
<1>6. CountOK'
  BY <1>1 DEF NInv, CountOK, Attempting, Open, Slots
<1> QED
  BY <1>1, <1>2, <1>3, <1>4, <1>5, <1>6 DEF NInv

\* What mail.queue or notifications.send commits with the row of its key.
LEMMA StoredFacts ==
  ASSUME NInv, NEW p \in Payloads, Queue(p) \/ Notify(p)
  PROVE  /\ content' = p \/ (kind = "queued" /\ mail = "erased" /\ content' = content)
         /\ content = None \/ content = p \/ (kind = "queued" /\ mail = "erased")
         /\ mail' = mail \/ (kind = "queued" /\ mail = "none" /\ mail' = "pending")
         /\ job' \in Row /\ (job'.state = "pending" => job'.attempts < MaxAttempts)
         /\ \/ delivery' = delivery
            \/ kind = "notified" /\ content = None /\ delivery' \in {"pending", "skipped"}
         /\ kind = "notified" => \/ content = None /\ content' = p /\ job'.state # "done"
                                    /\ delivery' # "none"
                                 \/ content = p /\ UNCHANGED <<content, delivery, job>>
<1>1. JobOK /\ None \notin Payloads
  BY CommandBusAssumption DEF NInv
<1>2. CASE Queue(p)
  <2>1. job' = job \/ job' = Due
    BY <1>2 DEF Queue, EnqueuedOnce
  <2>2. job' \in Row /\ (job'.state = "pending" => job'.attempts < MaxAttempts)
    BY <1>1, <2>1, SettledRows DEF JobOK
  <2>3. /\ kind = "queued" /\ delivery' = delivery
        /\ content \in {None, p} \/ mail = "erased"
        /\ \/ mail = "erased" /\ UNCHANGED <<content, mail>>
           \/ content' = p /\ (mail' = mail \/ (mail = "none" /\ mail' = "pending"))
    BY <1>2 DEF Queue
  <2> QED
    BY <2>2, <2>3
<1>3. CASE Notify(p)
  <2>1. CASE content = None
    <3>1. /\ kind = "notified" /\ content' = p /\ mail' = mail
          /\ \/ delivery' = "pending" /\ job' = Due
             \/ delivery' = "skipped" /\ job' = job
      BY <1>1, <1>3, <2>1 DEF Notify
    <3>2. job.state = "none"
      BY <2>1, <3>1 DEF NInv, NotifiedOK
    <3>3. /\ job' \in Row /\ job'.state # "done" /\ delivery' # "none"
          /\ job'.state = "pending" => job'.attempts < MaxAttempts
      <4>1. CASE delivery' = "pending" /\ job' = Due
        BY <1>1, <4>1, SettledRows
      <4>2. CASE delivery' = "skipped" /\ job' = job
        BY <1>1, <3>2, <4>2 DEF JobOK
      <4> QED
        BY <3>1, <4>1, <4>2
    <3> QED
      BY <2>1, <3>1, <3>3
  <2>2. CASE content # None
    <3>1. kind = "notified" /\ content = p /\ UNCHANGED <<content, delivery, job, mail>>
      BY <1>1, <1>3, <2>2 DEF Notify
    <3> QED
      BY <1>1, <3>1 DEF JobOK
  <2> QED
    BY <2>1, <2>2
<1> QED
  BY <1>2, <1>3

LEMMA CommitCallStep ==
  ASSUME NInv, NEW c \in Calls, CommitCall(c)
  PROVE  NInv' /\ (mail = "erased" => mail' = "erased") /\ handed' = handed
<1> DEFINE p == call[c].payload
<1>1. /\ BusOK' /\ p \in Payloads
      /\ \A k \in Keys : HasAnswer(k)' =>
           \/ call'[row'[k]].payload = p
           \/ HasAnswer(k) /\ row'[k] = row[k] /\ call'[row[k]] = call[row[k]]
  BY CommitStep DEF CommitCall, NInv
<1>2. (Queue(p) \/ Notify(p)) /\ UNCHANGED <<kind, runs, handed, resends, faults>>
  BY DEF CommitCall
<1> HIDE DEF p
<1>3. /\ content' = p \/ (kind = "queued" /\ mail = "erased" /\ content' = content)
      /\ content = None \/ content = p \/ (kind = "queued" /\ mail = "erased")
      /\ mail' = mail \/ (kind = "queued" /\ mail = "none" /\ mail' = "pending")
      /\ job' \in Row /\ (job'.state = "pending" => job'.attempts < MaxAttempts)
      /\ \/ delivery' = delivery
         \/ kind = "notified" /\ content = None /\ delivery' \in {"pending", "skipped"}
      /\ kind = "notified" => \/ content = None /\ content' = p /\ job'.state # "done"
                                 /\ delivery' # "none"
                              \/ content = p /\ UNCHANGED <<content, delivery, job>>
  BY <1>1, <1>2, StoredFacts
<1>4. ContentOK'
  <2> SUFFICES ASSUME NEW k \in Keys, HasAnswer(k)'
               PROVE  content' = call'[row'[k]].payload \/ (kind' = "queued" /\ mail' = "erased")
    BY DEF ContentOK
  <2>1. CASE call'[row'[k]].payload = p
    BY <1>2, <1>3, <2>1
  <2>2. CASE HasAnswer(k) /\ row'[k] = row[k] /\ call'[row[k]] = call[row[k]]
    <3>1. call[row[k]].payload \in Payloads /\ None \notin Payloads
      BY <2>2, Answered, CommandBusAssumption DEF NInv
    <3>2. content = call[row[k]].payload \/ (kind = "queued" /\ mail = "erased")
      BY <2>2 DEF NInv, ContentOK
    <3> QED
      BY <1>2, <1>3, <2>2, <3>1, <3>2
  <2> QED
    BY <1>1, <2>1, <2>2
<1>5. TypeOK'
  BY <1>1, <1>2, <1>3 DEF NInv, TypeOK, BusOK, Run, Slots, MailStatus
<1>6. JobOK' /\ LockOK'
  BY <1>2, <1>3 DEF NInv, JobOK, LockOK
<1>7. EvidenceOK'
  BY <1>2, <1>3 DEF NInv, EvidenceOK
<1>8. CountOK'
  <2>1. Attempting' = Attempting /\ Open' = Open
    BY <1>2, <1>3 DEF Attempting, Open, Slots
  <2> QED
    BY <1>2, <2>1 DEF NInv, CountOK
<1>9. NotifiedOK'
  BY <1>1, <1>2, <1>3, CommandBusAssumption DEF NInv, NotifiedOK
<1> QED
  BY <1>1, <1>2, <1>3, <1>4, <1>5, <1>6, <1>7, <1>8, <1>9 DEF NInv

\* A run starts in a slot that is free.
LEMMA StartFacts ==
  ASSUME RunsOK, NEW by \in {"job", "operator"}, NEW holds \in BOOLEAN,
         NEW stage \in Stage \ {"fence", "smtp", "done"}, Starts(by, holds, stage)
  PROVE  /\ RunsOK' /\ Attempting' = Attempting
         /\ \E u : runs' = runs \cup {u} /\ u.stage = stage /\ u.got = "none"
<1> PICK i \in Free : i = CHOOSE x \in Free : TRUE
  BY DEF Starts
<1> DEFINE u == [id |-> i, by |-> by, holds |-> holds, got |-> "none", stage |-> stage]
<1>1. runs' = runs \cup {u}
  BY DEF Starts
<1>2. u \in Run /\ u.id = i /\ u.stage = stage /\ u.got = "none" /\ \A v \in runs : v.id # i
  BY DEF Run, Free, Stage, MailStatus
<1> HIDE DEF u
<1>3. RunsOK'
  BY <1>1, <1>2 DEF RunsOK, Run, Slots
<1>4. Attempting' = Attempting
  BY <1>1, <1>2 DEF Attempting, Slots
<1> QED
  BY <1>1, <1>2, <1>3, <1>4

LEMMA ClaimStep ==
  ASSUME NInv, Claim
  PROVE  NInv' /\ mail' = mail /\ handed' = handed
<1>1. /\ UNCHANGED <<bus, kind, content, delivery, mail, handed, resends, faults>>
      /\ job.state = "pending" /\ job' = Claimed(job)
      /\ Starts("job", TRUE, IF kind = "queued" THEN "stranded" ELSE "load")
  BY DEF Claim
<1>2. RunsOK' /\ Attempting' = Attempting
      /\ \E u : runs' = runs \cup {u} /\ u.stage \in {"stranded", "load"} /\ u.got = "none"
  <2>1. {"stranded", "load"} \subseteq Stage \ {"fence", "smtp", "done"}
    BY DEF Stage
  <2>2. RunsOK
    BY NTypes
  <2> QED
    BY <1>1, <2>1, <2>2, StartFacts
<1>3. PICK u : runs' = runs \cup {u} /\ u.stage \in {"stranded", "load"} /\ u.got = "none"
  BY <1>2
<1>4. BusOK' /\ ContentOK'
  BY <1>1, BusStays, ContentStays DEF NInv
<1>5. job' \in Row /\ job'.state = "running"
  <2>1. job \in Row /\ job.attempts < MaxAttempts
    BY <1>1 DEF NInv, JobOK
  <2>2. job.attempts + 1 \in 0..MaxAttempts
    BY <2>1, QueueRowAssumption DEF Row
  <2> QED
    BY <1>1, <2>1, <2>2 DEF Claimed, Row
<1>6. JobOK' /\ LockOK' /\ EvidenceOK' /\ CountOK'
  BY <1>1, <1>2, <1>3, <1>5 DEF NInv, JobOK, LockOK, EvidenceOK, CountOK, Open
<1>7. NotifiedOK'
  BY <1>1, <1>3, <1>5 DEF NInv, NotifiedOK
<1>8. TypeOK'
  BY <1>1, <1>2, <1>4, <1>5 DEF NInv, TypeOK, BusOK, RunsOK
<1> QED
  BY <1>1, <1>4, <1>6, <1>7, <1>8 DEF NInv

\* reclaimStale: runs lose their claim and nothing else.
LEMMA ReclaimStep ==
  ASSUME NInv, Reclaim
  PROVE  NInv' /\ mail' = mail /\ handed' = handed
<1> DEFINE Holders == {u \in runs : u.holds}
           Lost == {[u EXCEPT !.holds = FALSE] : u \in Holders}
<1>1. /\ UNCHANGED <<bus, kind, content, delivery, mail, handed, resends>>
      /\ faults' \in 0..MaxFaults
      /\ runs' = (runs \ Holders) \cup Lost /\ job' = Failed(job, FALSE)
  BY NotificationsAssumption DEF Reclaim, Fault, NInv, TypeOK
<1>2. RunsOK /\ runs \subseteq Run
  BY NTypes DEF RunsOK
<1>3. \A v \in Lost : \E u \in Holders :
        /\ v = [u EXCEPT !.holds = FALSE]
        /\ v \in Run /\ v.id = u.id /\ v.stage = u.stage /\ v.got = u.got
  BY <1>2 DEF Run
<1>4. \A u \in Holders : \E v \in Lost : v.id = u.id /\ v.stage = u.stage
  <2> SUFFICES ASSUME NEW u \in Holders
               PROVE  LET v == [u EXCEPT !.holds = FALSE]
                      IN  v \in Lost /\ v.id = u.id /\ v.stage = u.stage
    OBVIOUS
  <2> QED
    BY <1>2 DEF Run
<1>5. \A v, w \in Lost : v.id = w.id => v = w
  <2> SUFFICES ASSUME NEW v \in Lost, NEW w \in Lost, v.id = w.id PROVE v = w
    OBVIOUS
  <2>1. PICK x \in Holders : v = [x EXCEPT !.holds = FALSE] /\ v.id = x.id
    BY <1>3
  <2>2. PICK y \in Holders : w = [y EXCEPT !.holds = FALSE] /\ w.id = y.id
    BY <1>3
  <2>3. x = y
    BY <1>2, <2>1, <2>2 DEF RunsOK
  <2> QED
    BY <2>1, <2>2, <2>3
<1>6. Holders \subseteq runs
  OBVIOUS
<1>7. \A v \in Lost, w \in runs \ Holders : v.id # w.id
  BY <1>2, <1>3 DEF RunsOK
<1> HIDE DEF Holders, Lost
<1>8. RunsOK'
  BY <1>1, <1>2, <1>3, <1>5, <1>7 DEF RunsOK, Run, Slots
<1>9. \A v \in runs' : \E u \in runs : v.id = u.id /\ v.stage = u.stage /\ v.got = u.got
  BY <1>1, <1>3, <1>6
<1>10. \A u \in runs : \E v \in runs' : v.id = u.id /\ v.stage = u.stage
  BY <1>1, <1>4
<1>11. Attempting' = Attempting
  BY <1>9, <1>10 DEF Attempting, Slots
<1>12. BusOK' /\ ContentOK'
  BY <1>1, BusStays, ContentStays DEF NInv
<1>13. JobOK' /\ job'.state # "done" /\ job' \in Row
  BY <1>1, SettledRows DEF NInv, JobOK
<1>14. EvidenceOK' /\ CountOK'
  BY <1>1, <1>9, <1>11 DEF NInv, EvidenceOK, CountOK, Open
<1>15. LockOK'
  <2> SUFFICES ASSUME NEW v \in runs', v.stage = "smtp"
               PROVE  mail' = "sending" /\ \A w \in runs' : w.stage = "smtp" => w = v
    BY DEF LockOK
  <2>1. PICK u \in runs : v.id = u.id /\ u.stage = "smtp"
    BY <1>9
  <2>2. ASSUME NEW w \in runs', w.stage = "smtp" PROVE w = v
    <3>1. PICK x \in runs : w.id = x.id /\ x.stage = "smtp"
      BY <1>9, <2>2
    <3>2. x = u
      BY <2>1, <3>1 DEF NInv, LockOK
    <3> QED
      BY <1>8, <2>1, <3>1, <3>2 DEF RunsOK
  <2> QED
    BY <1>1, <2>1, <2>2 DEF NInv, LockOK
<1>16. NotifiedOK'
  <2> SUFFICES ASSUME kind = "notified" PROVE NotifiedOK'
    BY <1>1 DEF NotifiedOK
  <2>1. /\ content = None => runs = {} /\ job.state = "none" /\ mail \in {"none", "erased"}
        /\ content # None => delivery # "none"
        /\ \A u \in runs : u.stage = "done" => delivery # "pending"
    BY DEF NInv, NotifiedOK
  <2>2. content # None
    BY <2>1 DEF Reclaim
  <2>3. \A v \in runs' : v.stage = "done" => delivery # "pending"
    BY <1>9, <2>1
  <2> QED
    BY <1>1, <1>13, <2>1, <2>2, <2>3 DEF NotifiedOK
<1>17. TypeOK'
  BY <1>1, <1>8, <1>12, <1>13 DEF NInv, TypeOK, BusOK, RunsOK
<1> QED
  BY <1>1, <1>12, <1>13, <1>14, <1>15, <1>16, <1>17 DEF NInv

LEMMA RowStep ==
  ASSUME NInv, RetryDead \/ Forget
  PROVE  NInv' /\ mail' = mail /\ handed' = handed
<1>1. /\ UNCHANGED <<bus, kind, content, delivery, mail, runs, handed, resends, faults>>
      /\ job.state # "none" /\ (job' = Due \/ job' = NoJob)
  BY DEF RetryDead, Forget
<1>2. JobOK' /\ job' \in Row /\ job'.state # "done"
  BY <1>1, SettledRows DEF NInv, JobOK
<1>3. BusOK' /\ ContentOK'
  BY <1>1, BusStays, ContentStays DEF NInv
<1>4. LockOK' /\ EvidenceOK' /\ NotifiedOK'
  BY <1>1, <1>2 DEF NInv, LockOK, EvidenceOK, NotifiedOK
<1>5. CountOK'
  BY <1>1 DEF NInv, CountOK, Attempting, Open, Slots
<1>6. TypeOK'
  BY <1>1, <1>2, <1>3 DEF NInv, TypeOK, BusOK, Run, Slots
<1> QED
  BY <1>1, <1>2, <1>3, <1>4, <1>5, <1>6 DEF NInv

\* resendUnknown: the operator asks for one attempt more.
LEMMA ResendStep ==
  ASSUME NInv, ResendUnknown
  PROVE  NInv' /\ mail # "erased" /\ handed' = handed
<1>1. /\ UNCHANGED <<bus, kind, content, delivery, job, handed, faults>>
      /\ mail = "unknown" /\ mail' = "pending"
      /\ resends < MaxResends /\ resends' = resends + 1
      /\ Starts("operator", FALSE, "deliver")
  BY DEF ResendUnknown
<1>2. RunsOK /\ handed \in Nat /\ resends \in Nat /\ MaxResends \in Nat
  BY NTypes
<1>3. RunsOK' /\ Attempting' = Attempting
      /\ \E u : runs' = runs \cup {u} /\ u.stage = "deliver" /\ u.got = "none"
  <2>1. "deliver" \in Stage \ {"fence", "smtp", "done"}
    BY DEF Stage
  <2> QED
    BY <1>1, <1>2, <2>1, StartFacts
<1>4. PICK u : runs' = runs \cup {u} /\ u.stage = "deliver" /\ u.got = "none"
  BY <1>3
<1>5. BusOK' /\ ContentOK'
  BY <1>1, BusStays, ContentStays DEF NInv
<1>6. JobOK' /\ LockOK'
  BY <1>1, <1>4 DEF NInv, JobOK, LockOK
<1>7. EvidenceOK'
  BY <1>1, <1>4 DEF NInv, EvidenceOK
<1>8. CountOK'
  <2>1. Open = 0 /\ Open' = 1 /\ Cardinality(Attempting) \in Nat
    BY <1>1, AttemptingFinite DEF Open
  <2> QED
    BY <1>1, <1>2, <1>3, <2>1 DEF NInv, CountOK
<1>9. NotifiedOK'
  BY <1>1, <1>4 DEF NInv, NotifiedOK
<1>10. TypeOK'
  BY <1>1, <1>2, <1>3, <1>5 DEF NInv, TypeOK, BusOK, RunsOK, MailStatus
<1> QED
  BY <1>1, <1>5, <1>6, <1>7, <1>8, <1>9, <1>10 DEF NInv

\* erase waits for the lock: no call of the server is under way.
LEMMA EraseStep ==
  ASSUME NInv, Erase
  PROVE  NInv' /\ mail' = "erased" /\ handed' = handed
<1>1. /\ UNCHANGED <<bus, kind, content, delivery, job, runs, handed, resends, faults>>
      /\ mail' = "erased" /\ ~Locked
  BY DEF Erase
<1>2. BusOK' /\ ContentOK'
  BY <1>1, BusStays, ContentStays DEF NInv
<1>3. JobOK' /\ LockOK'
  BY <1>1 DEF NInv, JobOK, LockOK, Locked
<1>4. EvidenceOK' /\ NotifiedOK'
  BY <1>1 DEF NInv, EvidenceOK, NotifiedOK
<1>5. CountOK'
  <2>1. Attempting' = Attempting /\ Open' = 0 /\ Open \in {0, 1} /\ Cardinality(Attempting) \in Nat
    BY <1>1, AttemptingFinite DEF Attempting, Open, Slots
  <2> QED
    BY <1>1, <2>1, NTypes DEF NInv, CountOK
<1>6. TypeOK'
  BY <1>1, <1>2 DEF NInv, TypeOK, BusOK, Run, Slots, MailStatus
<1> QED
  BY <1>1, <1>2, <1>3, <1>4, <1>5, <1>6 DEF NInv

-----------------------------------------------------------------------------
(***************************************************************************)
(* The theorems                                                            *)
(***************************************************************************)
LEMMA NInit == Init => NInv
<1> SUFFICES ASSUME Init PROVE NInv
  OBVIOUS
<1>1. /\ content = None /\ delivery = "none" /\ mail = "none" /\ job = NoJob /\ runs = {}
      /\ handed = 0 /\ resends = 0 /\ faults = 0 /\ kind \in {"queued", "notified"}
  BY DEF Init
<1>2. NoJob \in Row /\ NoJob.state = "none"
  BY QueueRowAssumption DEF NoJob, Closed, Row
<1>3. BusOK
  <2>1. /\ In("new", NoRequest) \in CallRow /\ In("new", NoRequest).state = "new"
    BY InFacts DEF CallState
  <2>2. /\ call \in [Calls -> CallRow] /\ \A c \in Calls : call[c].state = "new"
        /\ row = [k \in Keys |-> None] /\ effects = [k \in Keys |-> 0]
    BY <2>1 DEF Init, BusInit
  <2>3. BusTypeOK
    BY <2>2 DEF BusTypeOK, CallRow
  <2> QED
    BY <2>2, <2>3 DEF BusOK, RowsOK, AnswersOK
<1>4. \A k \in Keys : ~HasAnswer(k)
  BY DEF Init, BusInit, HasAnswer
<1>5. ContentOK
  BY <1>4 DEF ContentOK
<1>6. JobOK /\ LockOK /\ EvidenceOK /\ NotifiedOK
  BY <1>1, <1>2 DEF JobOK, LockOK, EvidenceOK, NotifiedOK
<1>7. CountOK
  <2>1. Attempting = {} /\ Open = 1
    BY <1>1 DEF Attempting, Open
  <2> QED
    BY <1>1, <2>1, FS_EmptySet DEF CountOK
<1>8. TypeOK
  BY <1>1, <1>2, <1>3, NotificationsAssumption DEF TypeOK, BusOK, MailStatus
<1> QED
  BY <1>3, <1>5, <1>6, <1>7, <1>8 DEF NInv

LEMMA NStep ==
  NInv /\ [Next]_vars => NInv' /\ (mail = "erased" => mail' = "erased" /\ handed' = handed)
<1> SUFFICES ASSUME NInv, [Next]_vars
             PROVE  NInv' /\ (mail = "erased" => mail' = "erased" /\ handed' = handed)
  OBVIOUS
<1>1. CASE BusStep
  BY <1>1, BusStepKeeps
<1>2. ASSUME NEW c \in Calls, CommitCall(c)
      PROVE  NInv' /\ (mail = "erased" => mail' = "erased" /\ handed' = handed)
  BY <1>2, CommitCallStep
<1>3. CASE Claim
  BY <1>3, ClaimStep
<1>4. CASE Reclaim
  BY <1>4, ReclaimStep
<1>5. CASE RetryDead \/ Forget
  BY <1>5, RowStep
<1>6. ASSUME NEW u \in runs, Step(u) \/ Crash(u)
      PROVE  NInv' /\ (mail = "erased" => mail' = "erased" /\ handed' = handed)
  BY <1>6, RunStep
<1>7. CASE ResendUnknown
  BY <1>7, ResendStep
<1>8. CASE Erase
  BY <1>8, EraseStep
<1>9. CASE UNCHANGED vars
  <2>1. UNCHANGED <<bus, kind, content, delivery, mail, job, runs, handed, resends, faults>>
    BY <1>9 DEF vars, store
  <2>2. BusOK' /\ ContentOK'
    BY <2>1, BusStays, ContentStays DEF NInv
  <2>3. JobOK' /\ LockOK' /\ EvidenceOK' /\ NotifiedOK'
    BY <2>1 DEF NInv, JobOK, LockOK, EvidenceOK, NotifiedOK
  <2>4. CountOK'
    BY <2>1 DEF NInv, CountOK, Attempting, Open, Slots
  <2>5. TypeOK'
    BY <2>1, <2>2 DEF NInv, TypeOK, BusOK, Run, Slots
  <2> QED
    BY <2>1, <2>2, <2>3, <2>4, <2>5 DEF NInv
<1> QED
  BY <1>1, <1>2, <1>3, <1>4, <1>5, <1>6, <1>7, <1>8, <1>9 DEF Next

\* Every command, run, fault and operator's act keeps NInv.
THEOREM NotificationsInvariant == Spec => []NInv
<1>1. NInv /\ [Next]_vars => NInv'
  BY NStep
<1> QED
  BY <1>1, NInit, PTL DEF Spec

\* The rows and the runs stay what the code declares.
THEOREM NotificationsTypes == Spec => []TypeOK
<1>1. NInv => TypeOK
  BY DEF NInv
<1> QED
  BY <1>1, NotificationsInvariant, PTL

\* CommandBus.run and claimIdempotency: an answer is that of the one execution
\* of its key, of the same payload and for the same actor, and the message it
\* asked for is the one that is stored.
THEOREM AnswersAreGivenTruly == Spec => []AnswersAreTrue
<1>1. NInv => AnswersAreTrue
  <2> SUFFICES ASSUME NInv, NEW c \in Calls, call[c].state = "answered"
               PROVE  LET k == call[c].key
                      IN  /\ effects[k] = 1 /\ HasAnswer(k)
                          /\ call[row[k]].payload = call[c].payload
                          /\ call[row[k]].actor = call[c].actor
                          /\ content = call[c].payload \/ (kind = "queued" /\ mail = "erased")
    BY DEF AnswersAreTrue, AnswersAgree
  <2>1. /\ call[c].key \in Keys /\ HasAnswer(call[c].key)
        /\ call[row[call[c].key]].payload = call[c].payload
        /\ call[row[call[c].key]].actor = call[c].actor
    BY DEF NInv, BusOK, AnswersOK
  <2>2. effects[call[c].key] = 1
    BY <2>1, Answered DEF NInv
  <2> QED
    BY <2>1, <2>2 DEF NInv, ContentOK
<1> QED
  BY <1>1, NotificationsInvariant, PTL

\* MailService.deliver, with a claim that commits before the call: however often
\* jobs are retried, recovered and redriven, the server is handed the message
\* once, and once more for each resend.
THEOREM NothingIsSentUnasked == Spec => []NoUnaskedResend
<1>1. NInv => NoUnaskedResend
  BY NTypes, AttemptingFinite DEF NInv, CountOK, Open, NoUnaskedResend
<1> QED
  BY <1>1, NotificationsInvariant, PTL

\* NotificationService.deliver: what is recorded as sent was accepted, also by a
\* run that stalled and records late.
THEOREM EvidenceIsNeverBetter == Spec => []EvidenceIsTrue
<1>1. NInv => EvidenceIsTrue
  BY DEF NInv, EvidenceOK, NotifiedOK, EvidenceIsTrue
<1> QED
  BY <1>1, NotificationsInvariant, PTL

\* MailService.erase, against attempts that were claimed before: the tombstone
\* stays, and nothing is handed to the server any more.
THEOREM ErasedStaysErased == Spec => NothingAfterErasure
<1>1. NInv /\ [Next]_vars => [mail = "erased" => mail' = "erased" /\ handed' = handed]_vars
  BY NStep
<1> QED
  BY <1>1, NotificationsInvariant, PTL DEF Spec, NothingAfterErasure
=============================================================================

----------------------------- MODULE CommandBus -----------------------------
(***************************************************************************)
(* The idempotency of commands (packages/platform/command-bus).  A call is  *)
(* one transaction: it claims its key in platform_idempotency, runs the     *)
(* handler, and completes the row.  A second call with the key waits at the *)
(* unique index until the first commits or rolls back.  The effect of a     *)
(* handler is up to the module that EXTENDS this one and conjoins it to     *)
(* Commit, which is how it becomes visible: with the row, or not at all.    *)
(*                                                                         *)
(* Authorization and validation come before the transaction and are not     *)
(* part of it; a caller that never got its answer calls again, which is     *)
(* another call here.                                                      *)
(***************************************************************************)
EXTENDS Naturals

CONSTANTS
  Calls,     \* executions of a command
  Requests,  \* what they may ask for: [key, payload, actor]
  None       \* no call, no payload

Keys == {r.key : r \in Requests}
Payloads == {r.payload : r \in Requests}
Actors == {r.actor : r \in Requests}

ASSUME CommandBusAssumption ==
  /\ None \notin Calls \cup Payloads
  /\ \A r \in Requests : DOMAIN r = {"key", "payload", "actor"}

VARIABLES
  call,     \* [Calls -> [state, key, payload, actor]]
  row,      \* [Keys -> call that inserted the row of the key, or None]
  effects   \* [Keys -> handlers committed under the key]

bus == <<call, row, effects>>

NoRequest == [key |-> None, payload |-> None, actor |-> None]

In(state, r) == [state |-> state, key |-> r.key, payload |-> r.payload,
                 actor |-> r.actor]

BusInit ==
  /\ call = [c \in Calls |-> In("new", NoRequest)]
  /\ row = [k \in Keys |-> None]
  /\ effects = [k \in Keys |-> 0]

-----------------------------------------------------------------------------
\* The row of a key is completed by the transaction that inserted it.
InProgress(k) == row[k] # None /\ call[row[k]].state = "open"
HasAnswer(k) == row[k] # None /\ ~InProgress(k)

\* claimIdempotency inserts the row: the handler runs.  Nothing of it is
\* visible before the commit.
Begin(c, r) ==
  /\ call[c].state = "new"
  /\ row[r.key] = None
  /\ row' = [row EXCEPT ![r.key] = c]
  /\ call' = [call EXCEPT ![c] = In("open", r)]
  /\ UNCHANGED effects

\* Mutants of SameRequest: the payload is not compared; the actor is not.
SameActor(o, r) == o.actor = r.actor
SamePayload(o, r) == o.payload = r.payload

\* Whose answer may be replayed: that of the same payload and the same actor.
SameRequest(o, r) == o.payload = r.payload /\ o.actor = r.actor

\* The row is there: the call gets the stored answer, or is refused.
Replay(c, r) ==
  /\ call[c].state = "new"
  /\ HasAnswer(r.key)
  /\ call' = [call EXCEPT ![c] = IF SameRequest(call[row[r.key]], r)
                                 THEN In("answered", r)
                                 ELSE In("refused", NoRequest)]
  /\ UNCHANGED <<row, effects>>

\* The transaction commits; its caller may be gone, or the answer be lost.
Commit(c) ==
  /\ call[c].state = "open"
  /\ \E state \in {"answered", "unheard"} : call' = [call EXCEPT ![c].state = state]
  /\ effects' = [effects EXCEPT ![call[c].key] = @ + 1]
  /\ UNCHANGED row

\* The handler throws, its output is refused or the transaction fails, and the
\* row goes with it.  A command with a transactionRetry starts again.
Rollback(c) ==
  /\ call[c].state = "open"
  /\ row' = [row EXCEPT ![call[c].key] = None]
  /\ \E state \in {"failed", "new"} :
       call' = [call EXCEPT ![c] = In(state, NoRequest)]
  /\ UNCHANGED effects

-----------------------------------------------------------------------------
CallState == {"new", "open", "answered", "unheard", "refused", "failed"}

BusTypeOK ==
  /\ call \in [Calls -> [state : CallState, key : Keys \cup {None},
                        payload : Payloads \cup {None}, actor : Actors \cup {None}]]
  /\ row \in [Keys -> Calls \cup {None}]
  /\ effects \in [Keys -> Nat]

\* Every call that was answered speaks of the one effect of its key: of its own
\* payload, executed once and for the same actor.
AnswersAgree ==
  \A c \in Calls :
    call[c].state = "answered" =>
      LET k == call[c].key
      IN  /\ effects[k] = 1 /\ HasAnswer(k)
          /\ call[row[k]].payload = call[c].payload
          /\ call[row[k]].actor = call[c].actor
=============================================================================

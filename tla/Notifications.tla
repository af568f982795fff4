---------------------------- MODULE Notifications ----------------------------
(***************************************************************************)
(* From a command to the mail server: the command that asks for a mail, the *)
(* durable message and its one attempt at a time (packages/platform/mail),  *)
(* the notification that may stand before it (packages/platform/            *)
(* notifications), the job that carries either out, the operator who        *)
(* resends an uncertain message, and the erasure of its content.            *)
(*                                                                         *)
(* One message: messages share nothing.  It is queued by mail.queue with a  *)
(* job of its own, or stands for the email channel of a notification, whose *)
(* job creates it.  A channel without a job, in-app, is its committed row   *)
(* and is left out.                                                        *)
(*                                                                         *)
(* An attempt is a claim that is committed, and then the SMTP call inside a *)
(* second transaction that holds the lock of the row.  "accepted" stands    *)
(* for a partial acceptance too, which no step tells apart.  The connection *)
(* that holds the lock is assumed to live as long as the process.           *)
(***************************************************************************)
EXTENDS CommandBus, QueueRow

CONSTANTS
  MaxRuns,     \* runs the workers and the operator have room for
  MaxResends,  \* bound: resends by the operator
  MaxFaults    \* bound: crashes and stalls

ASSUME NotificationsAssumption ==
  /\ MaxRuns \in Nat \ {0}
  /\ MaxResends \in Nat
  /\ MaxFaults \in Nat

VARIABLES
  kind,      \* "queued" or "notified"
  content,   \* the immutable content of the message or notification, or None
  delivery,  \* the delivery row of the notification
  mail,      \* status of the row of platform_mail_messages
  job,       \* row of mail:<reference> or notification:<delivery>
  runs,      \* runs of the job, and of the operator's resend
  handed,    \* times the server may have taken the message
  resends, faults  \* count up to MaxResends and MaxFaults

store == <<kind, content, delivery, mail, job>>
vars == <<bus, store, runs, handed, resends, faults>>

MailStatus == {"none", "pending", "sending", "accepted", "rejected", "unknown", "erased"}

Init ==
  /\ BusInit
  /\ kind \in {"queued", "notified"}
  /\ content = None
  /\ delivery = "none"
  /\ mail = "none"
  /\ job = NoJob
  /\ runs = {}
  /\ handed = 0 /\ resends = 0 /\ faults = 0

Fault == faults < MaxFaults /\ faults' = faults + 1

\* The runs that are under way are told apart by the slot they take.
Slots == 1..MaxRuns
Free == {i \in Slots : \A u \in runs : u.id # i}

Starts(by, holds, stage) ==
  /\ Free # {}
  /\ runs' = runs \cup {[id |-> CHOOSE i \in Free : TRUE, by |-> by, holds |-> holds,
                         got |-> "none", stage |-> stage]}

-----------------------------------------------------------------------------
(***************************************************************************)
(* The command                                                             *)
(***************************************************************************)

\* mail.queue: the row as it is asked for, which is then immutable, and its job.
\* An erased reference stays erased whatever is asked.
Queue(p) ==
  /\ kind = "queued"
  /\ content \in {None, p} \/ mail = "erased"
  /\ IF mail = "erased" THEN UNCHANGED <<content, mail>>
     ELSE content' = p /\ mail' = IF mail = "none" THEN "pending" ELSE mail
  /\ job' = IF mail \in {"accepted", "erased"} THEN job ELSE EnqueuedOnce(job)
  /\ UNCHANGED delivery

\* notifications.send: the notification and its delivery, which is skipped when
\* the deployment has no mail.
Notify(p) ==
  /\ kind = "notified"
  /\ \/ /\ content = None
        /\ content' = p
        /\ \/ delivery' = "pending" /\ job' = Due
           \/ delivery' = "skipped" /\ UNCHANGED job
     \/ /\ content = p
        /\ UNCHANGED <<content, delivery, job>>
  /\ UNCHANGED mail

\* The effect commits with the row of the key; other content of the reference
\* is refused, which leaves the call its rollback.
CommitCall(c) ==
  /\ Commit(c)
  /\ Queue(call[c].payload) \/ Notify(call[c].payload)
  /\ UNCHANGED <<kind, runs, handed, resends, faults>>

BusStep ==
  /\ \E c \in Calls : Rollback(c) \/ \E r \in Requests : Begin(c, r) \/ Replay(c, r)
  /\ UNCHANGED <<store, runs, handed, resends, faults>>

-----------------------------------------------------------------------------
(***************************************************************************)
(* The queue, and the faults of those who work                             *)
(***************************************************************************)

Claim ==
  /\ job.state = "pending"
  /\ Starts("job", TRUE, IF kind = "queued" THEN "stranded" ELSE "load")
  /\ job' = Claimed(job)
  /\ UNCHANGED <<bus, kind, content, delivery, mail, handed, resends, faults>>

\* The job is completed, retried or dead; a run without its claim changes
\* nothing.
End(u) ==
  /\ u.stage \in {"done", "thrown", "permanent"}
  /\ runs' = runs \ {u}
  /\ job' = IF ~u.holds THEN job
            ELSE IF u.stage = "done" THEN Completed(job)
            ELSE Failed(job, u.stage = "permanent")
  /\ UNCHANGED <<bus, kind, content, delivery, mail, handed, resends, faults>>

\* The process dies.  The lock of the row goes with its connection, the claim
\* stays; the server may have taken the message.
Crash(u) ==
  /\ Fault
  /\ runs' = runs \ {u}
  /\ handed' \in IF u.stage = "smtp" THEN {handed, handed + 1} ELSE {handed}
  /\ UNCHANGED <<bus, store, resends>>

\* reclaimStale; a worker that still runs has stalled, and goes on.
Reclaim ==
  LET Holders == {u \in runs : u.holds}
  IN  /\ job.state = "running"
      /\ IF Holders # {} THEN Fault ELSE UNCHANGED faults
      /\ runs' = (runs \ Holders) \cup {[u EXCEPT !.holds = FALSE] : u \in Holders}
      /\ job' = Failed(job, FALSE)
      /\ UNCHANGED <<bus, kind, content, delivery, mail, handed, resends>>

\* The operator redrives a dead job; retention forgets one that is done.
RetryDead ==
  /\ job.state = "dead" /\ job' = Due
  /\ UNCHANGED <<bus, kind, content, delivery, mail, runs, handed, resends, faults>>

Forget ==
  /\ job.state = "done" /\ job' = NoJob
  /\ UNCHANGED <<bus, kind, content, delivery, mail, runs, handed, resends, faults>>

-----------------------------------------------------------------------------
(***************************************************************************)
(* One run                                                                 *)
(***************************************************************************)

Goes(u, stage) == runs' = (runs \ {u}) \cup {[u EXCEPT !.stage = stage]}

\* What the mail service answers: the job of a notification records it, the job
\* of a mail ends by it, and the operator reads it.
Told(u, got) ==
  runs' = (runs \ {u}) \cup
    IF u.by = "operator" THEN {}
    ELSE IF kind = "notified" THEN {[u EXCEPT !.stage = "record", !.got = got]}
    ELSE {[u EXCEPT !.stage = IF got = "permanent" THEN "permanent" ELSE "done"]}

\* The SMTP call runs under the lock of the row.
Locked == \E u \in runs : u.stage = "smtp"

\* markSendingUnknown, whose UPDATE waits for the lock.
MarkSendingUnknown(u, otherwise) ==
  \/ /\ mail = "sending" /\ ~Locked
     /\ mail' = "unknown"
     /\ Told(u, "unknown")
  \/ /\ mail # "sending"
     /\ Goes(u, otherwise)
     /\ UNCHANGED mail


\* deliverQueued: an attempt that somebody left behind is not made again.
Stranded(u) == MarkSendingUnknown(u, "deliver")

\* The delivery is loaded.
Load(u) ==
  /\ Goes(u, IF delivery \in {"sent", "skipped"} THEN "done" ELSE "look")
  /\ UNCHANGED mail

\* NotificationService.deliver looks for the message of an earlier attempt.
Look(u) ==
  /\ CASE mail = "none" -> Goes(u, "sendNow")
       [] mail \in {"pending", "rejected"} -> Goes(u, "deliver")
       [] OTHER -> Told(u, mail)
  /\ UNCHANGED mail

\* sendNow looks again, in case another run was faster.
SendNow(u) ==
  /\ CASE mail = "none" -> Goes(u, "create")
       [] mail = "sending" -> Goes(u, "mark")
       [] OTHER -> Told(u, mail)
  /\ UNCHANGED mail

Mark(u) == MarkSendingUnknown(u, "read")

\* create: the row, or the one that is there.
Create(u) ==
  /\ mail' = IF mail = "none" THEN "pending" ELSE mail
  /\ IF mail \in {"accepted", "erased"} THEN Told(u, mail) ELSE Goes(u, "deliver")

Read(u) == Told(u, mail) /\ UNCHANGED mail

\* Mutant of Claimable: an uncertain attempt is made again.
ClaimableUnlessKnown == {"pending", "rejected", "unknown"}

\* The statuses deliver claims.
Claimable == {"pending", "rejected"}

\* deliver: the claim commits on its own.
Deliver(u) ==
  \/ /\ mail \in Claimable
     /\ mail' = "sending"
     /\ Goes(u, "fence")
  \/ /\ mail \notin Claimable
     /\ Goes(u, "read")
     /\ UNCHANGED mail

\* Mutant of Fence: it takes the lock and does not look at the status again.
FenceUnread(u) == ~Locked /\ Goes(u, "smtp") /\ UNCHANGED mail

\* The lock of the row, and the status once it is held.
Fence(u) ==
  /\ ~Locked
  /\ IF mail = "sending" THEN Goes(u, "smtp") ELSE Told(u, mail)
  /\ UNCHANGED mail

\* Mutant of RecordedAs: whatever the server did not refuse was sent.
RecordedUnlessRefused(got) ==
  IF got \in {"rejected", "permanent"} THEN "failed" ELSE "sent"

\* What a status means for the delivery.
RecordedAs(got) ==
  CASE got = "accepted" -> "sent"
    [] got \in {"rejected", "permanent"} -> "failed"
    [] OTHER -> "unknown"

\* record, whatever the delivery says by now; a refusal throws.
Record(u) ==
  /\ delivery' = RecordedAs(u.got)
  /\ runs' = (runs \ {u}) \cup {[u EXCEPT !.got = "none",
       !.stage = CASE u.got = "rejected" -> "thrown"
                   [] u.got = "permanent" -> "permanent"
                   [] OTHER -> "done"]}

\* The server's answer: it takes the message, refuses its recipients, refuses
\* it for good, or is not heard to the end.
Smtp(u) ==
  \/ mail' = "accepted" /\ handed' = handed + 1 /\ Told(u, "accepted")
  \/ \E got \in {"rejected", "permanent"} :
       mail' = "rejected" /\ UNCHANGED handed /\ Told(u, got)
  \/ mail' = "unknown" /\ handed' = handed + 1 /\ Told(u, "unknown")

Step(u) ==
  \/ /\ \/ u.stage = "stranded" /\ Stranded(u)
        \/ u.stage = "load" /\ Load(u)
        \/ u.stage = "look" /\ Look(u)
        \/ u.stage = "sendNow" /\ SendNow(u)
        \/ u.stage = "mark" /\ Mark(u)
        \/ u.stage = "create" /\ Create(u)
        \/ u.stage = "read" /\ Read(u)
        \/ u.stage = "deliver" /\ Deliver(u)
        \/ u.stage = "fence" /\ Fence(u)
     /\ UNCHANGED <<bus, kind, content, delivery, job, handed, resends, faults>>
  \/ /\ u.stage = "record" /\ Record(u)
     /\ UNCHANGED <<bus, kind, content, mail, job, handed, resends, faults>>
  \/ /\ u.stage = "smtp" /\ Smtp(u)
     /\ UNCHANGED <<bus, kind, content, delivery, job, resends, faults>>
  \/ End(u)

-----------------------------------------------------------------------------
(***************************************************************************)
(* The operator                                                            *)
(***************************************************************************)

\* resendUnknown: an uncertain outcome is put back, and delivered.
ResendUnknown ==
  /\ mail = "unknown"
  /\ resends < MaxResends
  /\ Starts("operator", FALSE, "deliver")
  /\ mail' = "pending"
  /\ resends' = resends + 1
  /\ UNCHANGED <<bus, kind, content, delivery, job, handed, faults>>

\* erase, which waits for the lock of the row; it leaves a tombstone even where
\* there was none.
Erase ==
  /\ ~Locked
  /\ mail' = "erased"
  /\ UNCHANGED <<bus, kind, content, delivery, job, runs, handed, resends, faults>>

-----------------------------------------------------------------------------
Next ==
  \/ BusStep
  \/ \E c \in Calls : CommitCall(c)
  \/ Claim \/ Reclaim \/ RetryDead \/ Forget
  \/ \E u \in runs : Step(u) \/ Crash(u)
  \/ ResendUnknown \/ Erase

\* A run goes on, a worker that has room claims what is due, and a lease whose
\* worker is gone runs out.
Fairness ==
  /\ WF_vars(\E u \in runs : Step(u))
  /\ WF_vars(Claim)
  /\ WF_vars((\A u \in runs : ~u.holds) /\ Reclaim)

Spec == Init /\ [][Next]_vars /\ Fairness

-----------------------------------------------------------------------------
Run == [id : Slots, by : {"job", "operator"}, holds : BOOLEAN,
        got : MailStatus \cup {"permanent"},
        stage : {"stranded", "load", "look", "sendNow", "mark", "create", "deliver",
                 "read", "fence", "smtp", "record", "done", "thrown", "permanent"}]

TypeOK ==
  /\ BusTypeOK
  /\ kind \in {"queued", "notified"}
  /\ content \in Payloads \cup {None}
  /\ delivery \in {"none", "pending", "sent", "failed", "unknown", "skipped"}
  /\ mail \in MailStatus
  /\ job \in Row
  /\ runs \subseteq Run
  /\ \A u, v \in runs : u.id = v.id => u = v
  /\ handed \in Nat /\ resends \in 0..MaxResends /\ faults \in 0..MaxFaults

\* An answered call tells the truth: its key had one effect, of this payload and
\* for this actor, and the message it asked for is the one that is stored,
\* unless the reference had been erased.
AnswersAreTrue ==
  /\ AnswersAgree
  /\ \A c \in Calls :
       call[c].state = "answered" =>
         content = call[c].payload \/ (kind = "queued" /\ mail = "erased")

\* The server may have taken the message once, and once more for each resend an
\* operator asked for: jobs that are retried, recovered or redriven, workers
\* that stall and commands that are repeated add nothing to it.
NoUnaskedResend == handed <= 1 + resends

\* An erased message is not sent and not brought back, whatever attempt was
\* claimed before.
NothingAfterErasure ==
  [][mail = "erased" => mail' = "erased" /\ handed' = handed]_vars

\* The evidence of a delivery is not better than the message: what is recorded
\* as sent was accepted, and a job that is done has recorded something.
EvidenceIsTrue ==
  /\ delivery = "sent" => mail \in {"accepted", "erased"} /\ handed > 0
  /\ kind = "notified" /\ job.state = "done" => delivery # "pending"

Decided ==
  IF kind = "notified" THEN delivery # "pending"
  ELSE mail \notin {"pending", "sending"} \/ resends > 0


-----------------------------------------------------------------------------
(***************************************************************************)
(* What the documents say and the code does not do                         *)
(***************************************************************************)

\* docs/base/b06/README.md:39: "A recovered `sending` job is similarly marked
\* unknown rather than replayed."  When the job is done and nobody works on the
\* message, it is not left in "sending", which no operator can resend.
RecoveredIsUnknown ==
  job.state = "done" /\ runs = {} /\ resends = 0 => mail # "sending"
=============================================================================

-------------------------- MODULE RecurringScheduler --------------------------
(***************************************************************************)
(* Recurring jobs (packages/platform/kernel/src/recurring.ts): in every     *)
(* tick a worker goes through the schedules and puts the occurrences that   *)
(* fell due since the watermark of each into the queue.  Several workers do *)
(* so, of two releases during an upgrade, each with the time at which its   *)
(* tick began; a tick has a budget, and the next one resumes where the      *)
(* budget ran out.                                                         *)
(*                                                                         *)
(* What cron and interval arithmetic yield is a set of instants.  The key   *)
(* of an occurrence in the queue is its instant, written in the format of   *)
(* the declaration: the bucket's number for an interval, milliseconds for   *)
(* cron.  So an instant of two declarations may be two occurrences.  Keys   *)
(* are assumed to last longer than a schedule looks back, and the buckets   *)
(* of two intervals to be too far apart to meet.                           *)
(*                                                                         *)
(* A schedule has always occurred twice before the clock starts, as every   *)
(* cron expression has, and a scan finds fewer than                         *)
(* MAX_OCCURRENCES_PER_SCAN (1000), beyond which it counts none.            *)
(* Of two ticks that meet at a schedule without a row, the second is taken  *)
(* to begin after the first.                                                *)
(***************************************************************************)
EXTENDS Integers, Sequences, FiniteSets, FiniteSetsExt, SequencesExt

CONSTANTS
  Workers,
  Schedules,     \* <<type, ...>>, in the order of their registration
  Formats,       \* of the dedupe key: one per interval, one for cron
  Declared,      \* [Workers -> [types -> Declarations]], by their release
  CatchUp,       \* [types -> Nat \ {0}]
  SkipsOverlap,  \* types with the overlap policy "skip"
  MaxStaleness,  \* MAX_COLD_START_STALENESS_MS
  Start, Horizon,\* the clock runs from Start to Horizon
  MaxFaults      \* bound: failed transactions, restarts and operators' commands

Types == ToSet(Schedules)
Instants == 0..Horizon

Declarations == [format : Formats, at : SUBSET Instants]
Occurrences == Formats \X Instants

\* scheduleOccurrenceKey: the occurrence at an instant of a declaration.
Key(declared, o) == <<declared.format, o>>

\* The instants of a declaration that are not after one.
Past(declared, at) == {o \in declared.at : o <= at}

ASSUME RecurringSchedulerAssumption ==
  /\ Schedules \in Seq(Types) /\ 0 \notin Types /\ IsInjective(Schedules)
  /\ IsFiniteSet(Workers) /\ IsFiniteSet(Formats) /\ Formats # {}
  /\ Horizon \in Nat /\ Start \in Instants /\ MaxStaleness \in Nat /\ MaxFaults \in Nat
  /\ CatchUp \in [Types -> Nat \ {0}] /\ SkipsOverlap \subseteq Types
  /\ \A w \in Workers, t \in Types :
       Declared[w][t] \in Declarations /\ Cardinality(Past(Declared[w][t], Start)) > 1

VARIABLES
  clock,
  row,      \* [Types -> [known, declared, watermark, paused]], platform_job_schedules
  job,      \* [Types -> [Occurrences -> state]], the occurrences in the queue
  skipped,  \* [Types -> SUBSET Occurrences], what skipped_* has counted
  since,    \* [Types -> Instants], where the present declaration began
  tick,     \* [Workers -> [now, left]], the schedules a tick has left
  resume,   \* [Workers -> type or 0], resumeFrom
  faults    \* counts up to MaxFaults

tables == <<row, job, skipped, since>>
vars == <<clock, tables, tick, resume, faults>>

Idle == [now |-> 0, left |-> <<>>]
Undeclared == [format |-> CHOOSE f \in Formats : TRUE, at |-> {}]

Init ==
  /\ clock = Start
  /\ row = [t \in Types |-> [known |-> FALSE, declared |-> Undeclared, watermark |-> 0,
                             paused |-> FALSE]]
  /\ job = [t \in Types |-> [k \in Occurrences |-> "none"]]
  /\ skipped = [t \in Types |-> {}]
  /\ since = [t \in Types |-> 0]
  /\ tick = [w \in Workers |-> Idle]
  /\ resume = [w \in Workers |-> 0]
  /\ faults = 0

Fault == faults < MaxFaults /\ faults' = faults + 1

-----------------------------------------------------------------------------
(***************************************************************************)
(* One schedule in one transaction                                         *)
(***************************************************************************)

\* The occurrence before the current one.
Previous(declared, now) ==
  LET past == Past(declared, now) IN Max(past \ {Max(past)})

\* coldStartWatermark: with it the current occurrence is due at once.
Anchor(declared, now) == Previous(declared, now)

\* Mutant of LockedRow: every scan begins anew, as if the declaration had changed.
RestartedRow(t, declared, now) ==
  [known |-> TRUE, declared |-> declared, watermark |-> Anchor(declared, now),
   paused |-> row[t].paused]

\* lockRow: the row, made or reset when its declaration is not this worker's.
LockedRow(t, declared, now) ==
  IF row[t].known /\ row[t].declared = declared THEN row[t]
  ELSE [known |-> TRUE, declared |-> declared, watermark |-> Anchor(declared, now),
        paused |-> row[t].paused]

\* Mutant of HasActiveJob: a job in backoff is due later and is not seen.
HasDueJob(t, now) == \E k \in Occurrences : job[t][k] = "due" /\ k[2] <= now

\* hasActiveJob: a job that is due, or one whose attempts are not over.
HasActiveJob(t, now) ==
  \/ HasDueJob(t, now)
  \/ \E k \in Occurrences : job[t][k] = "retrying"

\* The newest n of a set of instants.
Newest(S, n) == {o \in S : Cardinality({p \in S : p > o}) < n}

\* What is not enqueued, of all that fell due.
Passed(t, cold, now, all, paused) ==
  IF \/ cold /\ now - Max(all) > MaxStaleness
     \/ paused
     \/ t \in SkipsOverlap /\ HasActiveJob(t, now)
  THEN all
  ELSE all \ Newest(all, CatchUp[t])

\* ensureOne: the watermark moves to the newest occurrence, and each one up to
\* it is enqueued, unless it is in the queue already, or counted as skipped.
\* The reference since moves with the declaration alone, not with the watermark.
EnsureOne(t, declared, now) ==
  LET r == LockedRow(t, declared, now)
      cold == r # row[t]
  IN  \E all \in {{o \in declared.at : r.watermark < o /\ o <= now}} :
        /\ since' = [since EXCEPT ![t] =
             IF row[t].known /\ row[t].declared = declared THEN @ ELSE Previous(declared, now)]
        /\ \/ /\ all = {}
              /\ row' = [row EXCEPT ![t] = r]
              /\ UNCHANGED <<job, skipped>>
           \/ /\ all # {}
              /\ row' = [row EXCEPT ![t] = [r EXCEPT !.watermark = Max(all)]]
              /\ \E passed \in {Passed(t, cold, now, all, r.paused)} :
                   /\ skipped' = [skipped EXCEPT ![t] = @ \cup {Key(declared, o) : o \in passed}]
                   /\ job' = [job EXCEPT ![t] =
                        [k \in Occurrences |->
                           IF /\ job[t][k] = "none"
                              /\ \E o \in all \ passed : k = Key(declared, o)
                           THEN "due" ELSE job[t][k]]]

-----------------------------------------------------------------------------
(***************************************************************************)
(* The tick of a worker                                                    *)
(***************************************************************************)

\* Mutant of RotatedOrder: every tick begins with the first schedule.
PlainOrder(from) == Schedules

\* rotatedOrder.
RotatedOrder(from) ==
  IF from = 0 THEN Schedules
  ELSE LET i == CHOOSE i \in DOMAIN Schedules : Schedules[i] = from
       IN  SubSeq(Schedules, i, Len(Schedules)) \o SubSeq(Schedules, 1, i - 1)

\* ensureScheduled begins.
Begin(w) ==
  /\ tick[w].left = <<>>
  /\ tick' = [tick EXCEPT ![w] = [now |-> clock, left |-> RotatedOrder(resume[w])]]
  /\ UNCHANGED <<clock, tables, resume, faults>>

\* The next schedule is not deferred.
Goes(w) ==
  LET rest == Tail(tick[w].left)
  IN  /\ resume' = [resume EXCEPT ![w] = 0]
      /\ tick' = [tick EXCEPT ![w] = IF rest = <<>> THEN Idle ELSE [@ EXCEPT !.left = rest]]

\* The transaction of the next schedule commits, whether or not the worker
\* learns of it before its time-out.
Ensure(w) ==
  /\ tick[w].left # <<>>
  /\ LET t == Head(tick[w].left) IN EnsureOne(t, Declared[w][t], tick[w].now)
  /\ Goes(w)
  /\ UNCHANGED <<clock, faults>>

\* It fails, and the tick goes on with the next one.
EnsureFails(w) ==
  /\ tick[w].left # <<>>
  /\ Fault
  /\ Goes(w)
  /\ UNCHANGED <<clock, tables>>

\* The budget is spent: the rest is deferred.  The first schedule never is.
Defer(w) ==
  /\ tick[w].left # <<>>
  /\ Len(tick[w].left) < Len(Schedules)
  /\ resume' = [resume EXCEPT ![w] = Head(tick[w].left)]
  /\ tick' = [tick EXCEPT ![w] = Idle]
  /\ UNCHANGED <<clock, tables, faults>>

\* The process is replaced; the rotation was in its memory.
Restart(w) ==
  /\ Fault
  /\ tick' = [tick EXCEPT ![w] = Idle]
  /\ resume' = [resume EXCEPT ![w] = 0]
  /\ UNCHANGED <<clock, tables>>

-----------------------------------------------------------------------------
(***************************************************************************)
(* The rest of the world                                                   *)
(***************************************************************************)

\* setPaused, in the release of any worker: a schedule no tick has seen yet gets
\* its row.
SetPaused(t, w, paused) ==
  LET declared == Declared[w][t]
      r == IF row[t].known THEN row[t]
           ELSE [known |-> TRUE, declared |-> declared, paused |-> FALSE,
                 watermark |-> Anchor(declared, clock)]
  IN  /\ row' = [row EXCEPT ![t] = [r EXCEPT !.paused = paused]]
      /\ since' = [since EXCEPT ![t] = IF row[t].known THEN @ ELSE Previous(declared, clock)]
  /\ Fault
  /\ UNCHANGED <<clock, job, skipped, tick, resume>>

\* Only the policy "skip" asks whether a job is over.
JobFails(t, k) ==
  /\ t \in SkipsOverlap
  /\ job[t][k] = "due" /\ k[2] <= clock
  /\ job' = [job EXCEPT ![t][k] = "retrying"]
  /\ UNCHANGED <<clock, row, skipped, since, tick, resume, faults>>

JobEnds(t, k) ==
  /\ t \in SkipsOverlap
  /\ \/ job[t][k] = "due" /\ k[2] <= clock
     \/ job[t][k] = "retrying"
  /\ job' = [job EXCEPT ![t][k] = "over"]
  /\ UNCHANGED <<clock, row, skipped, since, tick, resume, faults>>

Pass ==
  /\ clock < Horizon
  /\ clock' = clock + 1
  /\ UNCHANGED <<tables, tick, resume, faults>>

Work(w) == Begin(w) \/ Ensure(w) \/ Defer(w)

Next ==
  \/ \E w \in Workers : Work(w) \/ EnsureFails(w) \/ Restart(w)
  \/ \E t \in Types, w \in Workers, p \in BOOLEAN : SetPaused(t, w, p)
  \/ \E t \in Types, k \in Occurrences : JobFails(t, k) \/ JobEnds(t, k)
  \/ Pass

\* Some worker ticks, as often and as far as its budget allows.
Spec == Init /\ [][Next]_vars /\ WF_vars(\E w \in Workers : Work(w))

-----------------------------------------------------------------------------
TypeOK ==
  /\ clock \in Start..Horizon
  /\ row \in [Types -> [known : BOOLEAN, declared : Declarations,
                        watermark : Instants, paused : BOOLEAN]]
  /\ job \in [Types -> [Occurrences -> {"none", "due", "retrying", "over"}]]
  /\ skipped \in [Types -> SUBSET Occurrences]
  /\ since \in [Types -> Instants]
  /\ tick \in [Workers -> [now : Instants, left : Seq(Types)]]
  /\ resume \in [Workers -> Types \cup {0}]
  /\ faults \in 0..MaxFaults

\* The watermark never passes an occurrence in silence: since the schedule was
\* first seen, or its declaration changed, the current occurrence of that time
\* included, each one was put into the queue or counted as skipped, whichever
\* workers of whichever release went over it and whatever was cut short.
NoneInSilence ==
  \A t \in Types : row[t].known =>
    \A o \in row[t].declared.at :
      since[t] < o /\ o <= row[t].watermark =>
        LET k == Key(row[t].declared, o)
        IN  job[t][k] # "none" \/ k \in skipped[t]

\* A schedule that must not overlap does not pile up jobs behind one that is
\* slow or keeps failing: there are never more than one scan may enqueue.
NeverPilesUp ==
  \A t \in SkipsOverlap :
    Cardinality({k \in Occurrences : job[t][k] \in {"due", "retrying"}}) <= CatchUp[t]

\* What every release declares, the watermark has passed as far as the clock has.
CaughtUp(t) ==
  \A o \in Start..clock :
    (\A w \in Workers : o \in Declared[w][t].at) => row[t].known /\ row[t].watermark >= o

\* No schedule starves: again and again the watermark of each has passed every
\* occurrence that is past, although a tick may have time for one schedule only.
EveryScheduleAdvances == \A t \in Types : []<>CaughtUp(t)
=============================================================================

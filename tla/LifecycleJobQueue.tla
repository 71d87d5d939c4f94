------------------------- MODULE LifecycleJobQueue -------------------------
(***************************************************************************)
(* The durable job table of a Lifecycle (agents/lifecycle/jobs.py,         *)
(* _LifecycleJobQueue): one row per job id, and the statements the queue    *)
(* runs on it, each as an operator from a table to a table.                 *)
(*                                                                          *)
(* A row keeps the columns the control of the program reads.  fn, payload   *)
(* and retry_options are left out: they are compared by the intent guard    *)
(* only, so leaving them out is the case in which a re-pushed job looks      *)
(* exactly like the old one, the hardest one for the guard.                 *)
(***************************************************************************)
EXTENDS Integers, Sequences, FiniteSets

CONSTANTS
  Jobs,         \* job ids
  Owners,       \* capability ids (and "host") that own jobs
  HungTimeout,  \* hung_timeout_seconds of a row (_DEFAULT_HUNG_TIMEOUT_SECONDS)
  NoRow,        \* the id has no row
  NoTime        \* SQL NULL: no next alarm

Row == [owner : Owners, time : Nat, singleflight : BOOLEAN,
        exclusive : BOOLEAN, recoveryLoop : BOOLEAN,
        running : BOOLEAN, started : Nat]

ASSUME JobsAssumption == IsFiniteSet(Jobs)
ASSUME HungTimeoutAssumption == HungTimeout \in Nat \ {0}
ASSUME NoRowAssumption == NoRow \notin Row
ASSUME NoTimeAssumption == NoTime \notin Nat

Tables == [Jobs -> Row \cup {NoRow}]

(* What a caller hands to push(): the flags of LifecycleJobPushOptions.     *)
Options == [singleflight : BOOLEAN, exclusive : BOOLEAN, recoveryLoop : BOOLEAN]

Present(t, j) == t[j] # NoRow
Owned(t, o, j) == Present(t, j) /\ t[j].owner = o

NewRow(o, opt, time) ==
  [owner |-> o, time |-> time, singleflight |-> opt.singleflight,
   exclusive |-> opt.exclusive, recoveryLoop |-> opt.recoveryLoop,
   running |-> FALSE, started |-> 0]

(* The upsert touches a row only of the same capability.                    *)
PushTaken(t, o, j) == ~Present(t, j) \/ Owned(t, o, j)
Push(t, o, j, opt, time) == [t EXCEPT ![j] = NewRow(o, opt, time)]

Delete(t, j) == [t EXCEPT ![j] = NoRow]
Release(r) == [r EXCEPT !.running = FALSE, !.started = 0]
Retimed(r, time) == [Release(r) EXCEPT !.time = time]

Reschedule(t, j, time) == [t EXCEPT ![j] = Retimed(t[j], time)]

MarkRunning(t, j, time) ==
  [t EXCEPT ![j] = [t[j] EXCEPT !.running = TRUE, !.started = time]]

HasExclusive(t) == \E j \in Jobs : Present(t, j) /\ t[j].exclusive

IsDue(t, j, time, exclusiveOnly) ==
  /\ Present(t, j)
  /\ t[j].time <= time
  /\ exclusiveOnly => t[j].exclusive

(* ORDER BY time ASC: every sequence of the due ids in that order (SQL      *)
(* leaves the order of equal times open).                                   *)
DueLists(t, time, exclusiveOnly) ==
  LET due == {j \in Jobs : IsDue(t, j, time, exclusiveOnly)}
  IN  {q \in [1..Cardinality(due) -> due] :
         \A i, k \in 1..Cardinality(due) :
           i < k => q[i] # q[k] /\ t[q[i]].time <= t[q[k]].time}

IsHung(r, time) == time - r.started >= HungTimeout
InFlightForever(r, time) == r.singleflight /\ r.running     \* a defect
InFlight(r, time) == r.singleflight /\ r.running /\ ~IsHung(r, time)

(* _intent_guard: the row is still the one the caller read.                 *)
SameIntent(a, b) ==
  /\ a.owner = b.owner
  /\ a.time = b.time
  /\ a.singleflight = b.singleflight
  /\ a.exclusive = b.exclusive
  /\ a.recoveryLoop = b.recoveryLoop

IntentGuardById(t, j, r, requireRunning) == Present(t, j)   \* a defect
IntentGuard(t, j, r, requireRunning) ==
  /\ Present(t, j)
  /\ SameIntent(t[j], r)
  /\ requireRunning => t[j].running /\ t[j].started = r.started

ClearIntent(t, j, r) ==
  IF IntentGuard(t, j, r, TRUE) THEN [t EXCEPT ![j] = Release(t[j])] ELSE t

DeleteIntent(t, j, r, requireRunning) ==
  IF IntentGuard(t, j, r, requireRunning) THEN Delete(t, j) ELSE t

RetimeIntent(t, j, r, time, requireRunning) ==
  IF IntentGuard(t, j, r, requireRunning)
  THEN [t EXCEPT ![j] = Retimed(t[j], time)] ELSE t

(* apply_outcome: None deletes the row, "yield" releases it, a              *)
(* LifecycleJobReschedule moves it to another time.                         *)
Outcomes(times) ==
  [kind : {"done", "yield"}] \cup [kind : {"reschedule"}, at : times]

ApplyOutcome(t, j, r, outcome) ==
  CASE outcome.kind = "done"       -> DeleteIntent(t, j, r, TRUE)
    [] outcome.kind = "yield"      -> ClearIntent(t, j, r)
    [] outcome.kind = "reschedule" -> RetimeIntent(t, j, r, outcome.at, TRUE)

DelayRecoveryLoopJobs(t, time) ==
  [j \in Jobs |->
     IF Present(t, j) /\ t[j].recoveryLoop /\ t[j].time <= time
     THEN Retimed(t[j], time) ELSE t[j]]

PurgeRecoveryLoopJobs(t) ==
  [j \in Jobs |->
     IF Present(t, j) /\ t[j].recoveryLoop THEN NoRow ELSE t[j]]

MinTime(S) ==
  IF S = {} THEN NoTime ELSE CHOOSE m \in S : \A x \in S : m <= x

(* A defect: a run in flight hides its row from the alarm.                  *)
NextAlarmTimeOfReady(t, now) ==
  MinTime({t[j].time : j \in {k \in Jobs :
             /\ Present(t, k) /\ ~InFlight(t[k], now)
             /\ HasExclusive(t) => t[k].exclusive}})

(* next_alarm_time: while an exclusive row exists only exclusive rows count *)
(* and the time of the earliest ready one stands as it is; otherwise a      *)
(* ready row never arms before the next instant.  A singleflight row in     *)
(* flight is looked at again when it would count as hung.                   *)
NextAlarmTime(t, now) ==
  LET exclusive == HasExclusive(t)
      inPlay  == {j \in Jobs : Present(t, j) /\ (exclusive => t[j].exclusive)}
      flying  == {j \in inPlay : InFlight(t[j], now)}
      ready   == MinTime({t[j].time : j \in inPlay \ flying})
      recheck == {t[j].started + HungTimeout : j \in flying}
      floor   == IF exclusive \/ ready = NoTime \/ ready > now
                 THEN ready ELSE now + 1
  IN  MinTime(recheck \cup ({floor} \ {NoTime}))
=============================================================================

------------------------- MODULE LifecycleJobDriver ------------------------
(***************************************************************************)
(* The alarm driver of a root Lifecycle: agents/lifecycle/_job_driver.py    *)
(* (_LifecycleJobDriver) with the parts of agents/lifecycle/_runtime.py it  *)
(* runs against (shared startup, job services, the physical alarm).         *)
(*                                                                          *)
(* A step is what runs between two awaits.  Slots in Alarms are invocations *)
(* of alarm(), which may overlap.  rows, alarm and strikes are durable; the *)
(* rest is the memory of one isolate and is lost in Crash and Reset.        *)
(***************************************************************************)
EXTENDS LifecycleJobQueue

CONSTANTS
  Alarms,         \* slots for concurrent invocations of alarm()
  Installed,      \* owners the running program has a job handler for
  DeadmanDelay,   \* _DEADMAN_DELAY_MS
  StrikeStep,     \* 30 s: the delay after the first strike
  MaxStrikeDelay, \* 300 s: its cap
  StrikeLimit,    \* max_alarm_memory_limit_strikes
  RearmOnStart,   \* an installed capability asks for a rearm in on_start
  CanAbort,       \* ctx.abort exists: a memory strike resets the isolate
  NoAlarm, NoJob, NoSlot, NoThread,
  \* Bounds of a check: what the world may do, and how long it lasts.
  PushOptions, RescheduleTo, StartupFailures,
  MaxOps, MaxFaults, MaxOoms, MaxTracked, MaxClaims, MaxTime

ASSUME DriverAssumption ==
  /\ DeadmanDelay \in Nat /\ StrikeStep \in Nat /\ MaxStrikeDelay \in Nat
  /\ StrikeLimit \in Nat \ {0}
  /\ Installed \subseteq Owners
  /\ RearmOnStart \in BOOLEAN /\ CanAbort \in BOOLEAN
  /\ PushOptions \subseteq Options /\ RescheduleTo \subseteq Nat
  /\ StartupFailures \subseteq {"fail", "oom"}
  /\ MaxOps \in Nat /\ MaxFaults \in Nat /\ MaxOoms \in Nat
  /\ MaxTracked \in Nat /\ MaxClaims \in Nat /\ MaxTime \in Nat
ASSUME AlarmsAssumption == IsFiniteSet(Alarms)
ASSUME NoAlarmAssumption == NoAlarm \notin Nat
ASSUME NoJobAssumption == NoJob \notin Jobs
ASSUME NoSlotAssumption == NoSlot \notin Alarms

VARIABLES
  clock,
  rows, alarm, strikes,      \* durable storage
  delivery,                  \* the slot whose delivery still owns the alarm
  life, rearmRequested,      \* shared startup
  versions, active, mutationSequence, lastClaim, memoryGeneration,
  scope,                     \* per slot: _AlarmScope and its program counter
  work,                      \* per slot: the tracked handoff of its scope
  breaker,                   \* who holds the strike lock, and how far it is
  pending,                   \* job operations that still owe their rearm
  resetPending,              \* abort() is queued behind the current step
  acked,                     \* history: ids whose push has returned
  ops, faults, ooms          \* bounds

durable   == <<rows, alarm, strikes, delivery>>
startup   == <<life, rearmRequested>>
fences    == <<versions, active, mutationSequence, lastClaim>>
operation == <<pending, acked>>
bounds    == <<ops, faults, ooms>>
vars == <<clock, durable, startup, fences, memoryGeneration, scope, work,
          breaker, operation, resetPending, bounds>>

Threads == Alarms \X {"alarm", "work"}
Later(a, b) == IF a < b THEN b ELSE a
Sooner(a, b) == IF a < b THEN a ELSE b

-----------------------------------------------------------------------------
(* What an invocation knows: _AlarmScope, the locals of run_alarm, and      *)
(* three history fields: stale (the claimed row was replaced, released or   *)
(* claimed again since the claim), hit (the breaker took up an incident     *)
(* since the invocation began) and counted (the strikes recorded for it).   *)
Phases == {"idle", "start", "deadman", "loop", "dispatch", "host", "fail",
           "oom", "clear", "rearm"}

Scopes == [pc : Phases, inv : Nat, due : Seq(Jobs), job : Jobs \cup {NoJob},
           row : Row \cup {NoRow}, version : Nat, generation : Nat,
           struck : BOOLEAN, failed : BOOLEAN, finished : BOOLEAN,
           stale : BOOLEAN, hit : BOOLEAN, counted : Nat]

NewScope(generation) ==
  [pc |-> "start", inv |-> 0, due |-> <<>>, job |-> NoJob, row |-> NoRow,
   version |-> 0, generation |-> generation, struck |-> FALSE,
   failed |-> FALSE, finished |-> FALSE, stale |-> FALSE, hit |-> FALSE,
   counted |-> 0]

Idle(sc) == [sc EXCEPT !.pc = "idle", !.inv = 0, !.due = <<>>,
                       !.job = NoJob, !.row = NoRow, !.version = 0,
                       !.stale = FALSE]

(* A handoff: "none", awaiting its result, in the breaker, or settled and   *)
(* waiting to clear the strikes.                                            *)
Works == [pc : {"none", "running", "oom", "clear"}, job : Jobs \cup {NoJob},
          row : Row \cup {NoRow}, version : Nat, stale : BOOLEAN]
NoWork == [pc |-> "none", job |-> NoJob, row |-> NoRow, version |-> 0,
           stale |-> FALSE]

Free == [holder |-> NoThread, stage |-> "free", sealed |-> FALSE, delay |-> 0]

(* In run_alarm's try statement, before its finally counts it out.          *)
Running(p) == scope[p].pc \notin {"idle", "clear", "rearm"}
IsTracked(p) == work[p].pc \in {"running", "oom"}
HasTracked(j) == \E p \in Alarms : IsTracked(p) /\ work[p].job = j
Quiescent == \A p \in Alarms : ~Running(p) /\ ~IsTracked(p)

-----------------------------------------------------------------------------
Init ==
  /\ clock = 0
  /\ rows = [j \in Jobs |-> NoRow]
  /\ alarm = NoAlarm /\ strikes = 0 /\ delivery = NoSlot
  /\ life = "cold" /\ rearmRequested = FALSE
  /\ versions = [j \in Jobs |-> 0] /\ active = [j \in Jobs |-> 0]
  /\ mutationSequence = 0 /\ lastClaim = 0 /\ memoryGeneration = 0
  /\ scope = [p \in Alarms |-> Idle(NewScope(0))]
  /\ work = [p \in Alarms |-> NoWork]
  /\ breaker = Free
  /\ pending = {} /\ acked = {} /\ resetPending = FALSE
  /\ ops = 0 /\ faults = 0 /\ ooms = 0

-----------------------------------------------------------------------------
(* _perform_alarm_rearm: while startup runs only a flag is raised,          *)
(* otherwise the alarm is set or deleted to match the table t.  Either call *)
(* replaces the alarm being delivered.                                      *)
Rearm(t) ==
  IF life = "starting"
  THEN rearmRequested' = TRUE /\ UNCHANGED <<alarm, delivery>>
  ELSE LET next == NextAlarmTime(t, clock)
       IN  /\ alarm' = IF next = NoTime THEN NoAlarm ELSE next
           /\ delivery' = NoSlot
           /\ UNCHANGED rearmRequested

(* The same, and then alarm() returns: the platform drops a delivered alarm *)
(* nobody replaced.                                                         *)
RearmAndReturn(p) ==
  IF life = "starting" /\ delivery = p
  THEN rearmRequested' = TRUE /\ alarm' = NoAlarm /\ delivery' = NoSlot
  ELSE Rearm(rows)

(* A row changed under a claim or a handoff that still refers to it.        *)
Outdated(sc, changed) == [sc EXCEPT !.stale = @ \/ sc.job \in changed]
MarkScopes(changed) == scope' = [p \in Alarms |-> Outdated(scope[p], changed)]
MarkWork(changed) == work' = [p \in Alarms |-> Outdated(work[p], changed)]

(* note_mutation: a version is kept only for jobs a claim or a handoff can  *)
(* still write.                                                             *)
NoteMutation(j) ==
  IF active[j] = 0 /\ ~HasTracked(j)
  THEN UNCHANGED <<versions, mutationSequence>>
  ELSE /\ mutationSequence' = mutationSequence + 1
       /\ versions' = [versions EXCEPT ![j] = mutationSequence + 1]

(* What _prune_version leaves of versions, given the claims and handoffs    *)
(* that will remain.                                                        *)
Pruned(j, claims, tracked) ==
  IF claims[j] > 0 \/ tracked THEN versions ELSE [versions EXCEPT ![j] = 0]

LiveVersionMatches(j, v) == versions[j] = v /\ active[j] > 0 \* another
VersionMatches(j, v) == versions[j] = v

-----------------------------------------------------------------------------
(* Startup: one attempt, shared by every alarm and operation that waits.    *)
StartBegin ==
  /\ life = "cold" /\ ~resetPending
  /\ life' = "starting"
  /\ UNCHANGED <<clock, durable, rearmRequested, fences, memoryGeneration,
                 scope, work, breaker, operation, resetPending, bounds>>

(* on_start of a capability calls jobs.rearm: startup owes a rearm.         *)
HookRearms ==
  /\ life = "starting" /\ RearmOnStart /\ ~rearmRequested
  /\ rearmRequested' = TRUE
  /\ UNCHANGED <<clock, durable, life, fences, memoryGeneration, scope, work,
                 breaker, operation, resetPending, bounds>>

(* However the attempt ends, a rearm it was asked for is performed.         *)
RearmOwed ==
  IF rearmRequested
  THEN LET next == NextAlarmTime(rows, clock)
       IN  /\ alarm' = IF next = NoTime THEN NoAlarm ELSE next
           /\ delivery' = NoSlot
  ELSE UNCHANGED <<alarm, delivery>>

StartDone ==
  /\ life = "starting" /\ (RearmOnStart => rearmRequested)
  /\ life' = "ready" /\ rearmRequested' = FALSE
  /\ RearmOwed
  /\ acked' = acked \cup pending /\ pending' = {}
  /\ UNCHANGED <<clock, rows, strikes, fences, memoryGeneration, scope, work,
                 breaker, resetPending, bounds>>

(* The attempt raises, and everyone waiting gets the error.                 *)
StartFails(kind) ==
  /\ life = "starting"
  /\ IF kind = "fail"
     THEN faults < MaxFaults /\ faults' = faults + 1 /\ UNCHANGED ooms
     ELSE ooms < MaxOoms /\ ooms' = ooms + 1 /\ UNCHANGED faults
  /\ life' = "cold" /\ rearmRequested' = FALSE
  /\ RearmOwed
  /\ scope' = [p \in Alarms |->
       IF scope[p].pc = "start" THEN [scope[p] EXCEPT !.pc = kind]
                                ELSE scope[p]]
  /\ pending' = {}
  /\ UNCHANGED <<clock, rows, strikes, fences, memoryGeneration, work, breaker,
                 acked, resetPending, ops>>

-----------------------------------------------------------------------------
(* Job operations of a capability or the host.  The row and its version     *)
(* change together; the rearm follows in a later step (OperationRearms),    *)
(* or with startup when an on_start hook called (life = "starting").        *)
CanOperate ==
  /\ life \in {"starting", "ready"} /\ ~resetPending
  /\ ops < MaxOps /\ ops' = ops + 1

OweRearm(j) ==
  /\ pending' = pending \cup {j}
  /\ rearmRequested' = (rearmRequested \/ life = "starting")

Operation(j, t, taken) ==
  /\ CanOperate
  /\ j \notin pending
  /\ rows' = t
  /\ IF taken
     THEN NoteMutation(j) /\ MarkScopes({j}) /\ MarkWork({j})
     ELSE UNCHANGED <<versions, mutationSequence, scope, work>>
  /\ OweRearm(j)
  /\ UNCHANGED <<clock, alarm, strikes, delivery, life, active, lastClaim,
                 memoryGeneration, breaker, resetPending, faults, ooms>>

(* An id that belongs to another capability raises, before any rearm.       *)
PushJob(o, j, opt, time) ==
  /\ PushTaken(rows, o, j)
  /\ Operation(j, Push(rows, o, j, opt, time), TRUE)
  /\ acked' = IF Present(rows, j) THEN acked ELSE acked \ {j}

CancelJob(o, j) ==
  /\ Operation(j, IF Owned(rows, o, j) THEN Delete(rows, j) ELSE rows,
               Owned(rows, o, j))
  /\ UNCHANGED acked

RescheduleJob(o, j, time) ==
  /\ Owned(rows, o, j)
  /\ Operation(j, Reschedule(rows, j, time), TRUE)
  /\ UNCHANGED acked

OperationRearms(j) ==
  /\ j \in pending /\ life = "ready"
  /\ Rearm(rows)
  /\ pending' = pending \ {j} /\ acked' = acked \cup {j}
  /\ UNCHANGED <<clock, rows, strikes, life, fences, memoryGeneration, scope,
                 work, breaker, resetPending, bounds>>

-----------------------------------------------------------------------------
(* The platform delivers a due alarm.  It keeps the alarm until the handler *)
(* succeeds, unless the handler replaces it.                                *)
AlarmFires(p) ==
  /\ alarm # NoAlarm /\ alarm <= clock /\ delivery = NoSlot /\ ~resetPending
  /\ scope[p].pc = "idle" /\ work[p] = NoWork
  /\ delivery' = p
  /\ scope' = [scope EXCEPT ![p] = NewScope(memoryGeneration)]
  /\ UNCHANGED <<clock, rows, alarm, strikes, startup, fences, memoryGeneration,
                 work, breaker, operation, resetPending, bounds>>

(* _drive_due_jobs up to its first await: the list of due ids.              *)
Snapshot(p) ==
  /\ scope[p].pc = "start" /\ life = "ready"
  /\ \E q \in DueLists(rows, clock, HasExclusive(rows)) :
       scope' = [scope EXCEPT ![p].inv = clock, ![p].due = q,
                   ![p].pc = IF q = <<>> THEN "host" ELSE "deadman"]
  /\ UNCHANGED <<clock, durable, startup, fences, memoryGeneration, work,
                 breaker, operation, resetPending, bounds>>

(* arm_at: cover the batch in case the isolate dies in it.                  *)
ArmDeadman(p) ==
  /\ scope[p].pc = "deadman"
  /\ alarm' = scope[p].inv + DeadmanDelay /\ delivery' = NoSlot
  /\ scope' = [scope EXCEPT ![p].pc = "loop"]
  /\ UNCHANGED <<clock, rows, strikes, startup, fences, memoryGeneration, work,
                 breaker, operation, resetPending, bounds>>

(* A listed id is claimed if its row is read again and still due (under a   *)
(* fresh look for exclusive jobs) and no live singleflight run holds it.    *)
EligibleInFlight(p, j) ==                                    \* a defect
  IsDue(rows, j, scope[p].inv, HasExclusive(rows))
Eligible(p, j) ==
  /\ IsDue(rows, j, scope[p].inv, HasExclusive(rows))
  /\ ~InFlight(rows[j], scope[p].inv)

ClaimAt(p, i) ==
  /\ scope[p].pc = "loop" /\ mutationSequence < MaxClaims /\ i \in 1..Len(scope[p].due)
  /\ Eligible(p, scope[p].due[i])
  /\ \A k \in 1..(i - 1) : ~Eligible(p, scope[p].due[k])

Rest(p, i) == SubSeq(scope[p].due, i + 1, Len(scope[p].due))
ClaimTime(p) == Later(scope[p].inv, lastClaim + 1)

Claim(p) ==
  \E i \in 1..Len(scope[p].due) :
    LET j == scope[p].due[i] IN
    /\ ClaimAt(p, i)
    /\ rows[j].owner \in Installed
    /\ rows' = MarkRunning(rows, j, ClaimTime(p))
    /\ lastClaim' = ClaimTime(p)
    /\ mutationSequence' = mutationSequence + 1
    /\ versions' = [versions EXCEPT ![j] = mutationSequence + 1]
    /\ active' = [active EXCEPT ![j] = @ + 1]
    /\ scope' = [q \in Alarms |->
         IF q = p
         THEN [scope[p] EXCEPT !.pc = "dispatch", !.due = Rest(p, i),
                 !.job = j, !.row = MarkRunning(rows, j, ClaimTime(p))[j],
                 !.version = mutationSequence + 1, !.stale = FALSE]
         ELSE Outdated(scope[q], {j})]
    /\ MarkWork({j})
    /\ UNCHANGED <<clock, alarm, strikes, delivery, startup, memoryGeneration,
                   breaker, operation, resetPending, bounds>>

(* No handler is installed for the owner (or its row cannot be decoded):    *)
(* the claimed row is deleted.                                              *)
DropUnhandled(p) ==
  \E i \in 1..Len(scope[p].due) :
    LET j == scope[p].due[i] IN
    /\ ClaimAt(p, i)
    /\ rows[j].owner \notin Installed
    /\ rows' = Delete(rows, j)
    /\ lastClaim' = ClaimTime(p)
    /\ mutationSequence' = mutationSequence + 1
    /\ versions' = IF active[j] > 0 \/ HasTracked(j)
                   THEN [versions EXCEPT ![j] = mutationSequence + 1]
                   ELSE [versions EXCEPT ![j] = 0]
    /\ scope' = [[q \in Alarms |-> Outdated(scope[q], {j})]
                   EXCEPT ![p].due = Rest(p, i)]
    /\ MarkWork({j})
    /\ UNCHANGED <<clock, alarm, strikes, delivery, startup, active,
                   memoryGeneration, breaker, operation, resetPending, bounds>>

(* Nothing is left to claim; what follows is the host's alarm handler.      *)
LoopEnds(p) ==
  /\ scope[p].pc = "loop"
  /\ \A i \in 1..Len(scope[p].due) : ~Eligible(p, scope[p].due[i])
  /\ scope' = [scope EXCEPT ![p].pc = "host", ![p].due = <<>>]
  /\ UNCHANGED <<clock, durable, startup, fences, memoryGeneration, work,
                 breaker, operation, resetPending, bounds>>

-----------------------------------------------------------------------------
(* The handler of the claimed job settles.                                  *)
EndClaim(j) == [active EXCEPT ![j] = @ - 1]

(* It returns, or raises an ordinary error that on_job_error turns into an  *)
(* outcome (None without such a hook).  Only "done" is free of charge.      *)
JobReturns(p, outcome) ==
  LET j == scope[p].job IN
  /\ scope[p].pc = "dispatch"
  /\ faults' = IF outcome.kind = "done" THEN faults ELSE faults + 1
  /\ faults' <= MaxFaults
  /\ rows' = IF VersionMatches(j, scope[p].version)
             THEN ApplyOutcome(rows, j, scope[p].row, outcome) ELSE rows
  /\ active' = EndClaim(j)
  /\ versions' = Pruned(j, EndClaim(j), HasTracked(j))
  /\ scope' = [scope EXCEPT ![p].pc = "loop", ![p].job = NoJob,
                            ![p].row = NoRow, ![p].version = 0,
                            ![p].stale = FALSE]
  /\ UNCHANGED <<clock, alarm, strikes, delivery, startup, mutationSequence,
                 lastClaim, memoryGeneration, work, breaker, operation,
                 resetPending, ops, ooms>>

(* A platform failure (a code update, a lost connection) or a cancellation: *)
(* the claim is released and alarm() will raise.                            *)
JobAborts(p) ==
  LET j == scope[p].job IN
  /\ scope[p].pc = "dispatch"
  /\ faults < MaxFaults /\ faults' = faults + 1
  /\ rows' = IF VersionMatches(j, scope[p].version)
             THEN ClearIntent(rows, j, scope[p].row) ELSE rows
  /\ active' = EndClaim(j)
  /\ scope' = [scope EXCEPT ![p].pc = "fail"]
  /\ UNCHANGED <<clock, alarm, strikes, delivery, startup, versions,
                 mutationSequence, lastClaim, memoryGeneration, work, breaker,
                 operation, resetPending, ops, ooms>>

(* The isolate ran out of memory in the handler: the row stays claimed      *)
(* until the breaker has decided.                                           *)
JobOoms(p) ==
  /\ scope[p].pc = "dispatch"
  /\ ooms < MaxOoms /\ ooms' = ooms + 1
  /\ active' = EndClaim(scope[p].job)
  /\ scope' = [scope EXCEPT ![p].pc = "oom"]
  /\ UNCHANGED <<clock, durable, startup, versions, mutationSequence, lastClaim,
                 memoryGeneration, work, breaker, operation, resetPending, ops,
                 faults>>

(* track_alarm_work: the handler hands an awaitable to the background.      *)
Handoffs == Cardinality({p \in Alarms : work[p] # NoWork})
Track(p) ==
  /\ scope[p].pc = "dispatch" /\ work[p] = NoWork /\ Handoffs < MaxTracked
  /\ work' = [work EXCEPT ![p] =
       [pc |-> "running", job |-> scope[p].job, row |-> scope[p].row,
        version |-> scope[p].version, stale |-> scope[p].stale]]
  /\ UNCHANGED <<clock, durable, startup, fences, memoryGeneration, scope,
                 breaker, operation, resetPending, bounds>>

-----------------------------------------------------------------------------
(* The end of run_alarm.                                                    *)
HostAlarm(p, result) ==
  /\ scope[p].pc = "host"
  /\ \/ result = "clear" /\ UNCHANGED <<faults, ooms>>
     \/ result = "fail" /\ faults < MaxFaults /\ faults' = faults + 1
        /\ UNCHANGED ooms
     \/ result = "oom" /\ ooms < MaxOoms /\ ooms' = ooms + 1
        /\ UNCHANGED faults
  /\ scope' = [scope EXCEPT ![p].pc =
                   IF result = "clear" /\ scope[p].failed
                   THEN "rearm" ELSE result,
                 ![p].finished = (result = "clear")]
  /\ UNCHANGED <<clock, durable, startup, fences, memoryGeneration, work,
                 breaker, operation, resetPending, ops>>

(* An error: rearm, then raise.  The platform keeps a delivered alarm       *)
(* nobody replaced, and delivers it again.                                  *)
AlarmRaises(p) ==
  LET j == scope[p].job IN
  /\ scope[p].pc = "fail"
  /\ IF life = "starting"
     THEN /\ rearmRequested' = TRUE /\ UNCHANGED alarm
          /\ delivery' = IF delivery = p THEN NoSlot ELSE delivery
     ELSE Rearm(rows)
  /\ versions' = IF j = NoJob THEN versions
                 ELSE Pruned(j, active, HasTracked(j))
  /\ scope' = [scope EXCEPT ![p] = Idle(scope[p])]
  /\ UNCHANGED <<clock, rows, strikes, life, active, mutationSequence,
                 lastClaim, memoryGeneration, work, breaker, operation,
                 resetPending, bounds>>

(* _clear_strikes_if_quiescent, under the strike lock.                      *)
StrikesAfterAnyClear(generation) ==                          \* a defect
  IF Quiescent THEN 0 ELSE strikes
StrikesAfterClear(generation) ==
  IF Quiescent /\ memoryGeneration = generation THEN 0 ELSE strikes

AlarmClears(p) ==
  /\ scope[p].pc = "clear" /\ breaker = Free
  /\ strikes' = StrikesAfterClear(scope[p].generation)
  /\ scope' = [scope EXCEPT ![p].pc = "rearm"]
  /\ UNCHANGED <<clock, rows, alarm, delivery, startup, fences,
                 memoryGeneration, work, breaker, operation, resetPending,
                 bounds>>

AlarmReturns(p) ==
  /\ scope[p].pc = "rearm"
  /\ RearmAndReturn(p)
  /\ scope' = [scope EXCEPT ![p] = Idle(scope[p])]
  /\ UNCHANGED <<clock, rows, strikes, life, fences, memoryGeneration, work,
                 breaker, operation, resetPending, bounds>>

(* A handoff settles: cleanly, with an ordinary error, or out of memory.    *)
WorkSettles(p, result) ==
  LET j == work[p].job
      others == \E q \in Alarms \ {p} : IsTracked(q) /\ work[q].job = j
  IN
  /\ work[p].pc = "running"
  /\ CASE result = "clear" -> UNCHANGED <<faults, ooms>>
       [] result = "fail"  -> /\ faults < MaxFaults /\ faults' = faults + 1
                              /\ UNCHANGED ooms
       [] result = "oom"   -> /\ ooms < MaxOoms /\ ooms' = ooms + 1
                              /\ UNCHANGED faults
  /\ scope' = [scope EXCEPT ![p].failed = @ \/ result # "clear"]
  /\ CASE result = "oom" -> /\ work' = [work EXCEPT ![p].pc = "oom"]
                            /\ UNCHANGED versions
       [] result = "clear" /\ scope[p].finished /\ ~scope[p].failed ->
            work' = [work EXCEPT ![p].pc = "clear"] /\ UNCHANGED versions
       [] OTHER -> /\ work' = [work EXCEPT ![p] = NoWork]
                   /\ versions' = Pruned(j, active, others)
  /\ UNCHANGED <<clock, durable, startup, active, mutationSequence, lastClaim,
                 memoryGeneration, breaker, operation, resetPending, ops>>

WorkClears(p) ==
  /\ work[p].pc = "clear" /\ breaker = Free
  /\ strikes' = StrikesAfterClear(scope[p].generation)
  /\ work' = [work EXCEPT ![p] = NoWork]
  /\ versions' = Pruned(work[p].job, active, HasTracked(work[p].job))
  /\ UNCHANGED <<clock, rows, alarm, delivery, startup, active,
                 mutationSequence, lastClaim, memoryGeneration, scope, breaker,
                 operation, resetPending, bounds>>

-----------------------------------------------------------------------------
(* The memory-limit breaker (_handle_memory_limit), serialised by the       *)
(* strike lock.  A thread is an invocation or its handoff.                  *)
Waiting(th) == IF th[2] = "alarm" THEN scope[th[1]].pc = "oom"
                                  ELSE work[th[1]].pc = "oom"

(* The incident has not been struck for yet (incident.memory_struck).       *)
MayStrike(th) == ~scope[th[1]].struck

(* What remains of the thread's invocation and handoff when it leaves.      *)
Leave(th) ==
  LET p == th[1]
      j == IF th[2] = "alarm" THEN scope[p].job ELSE work[p].job
      tracked == \E q \in Alarms : /\ IsTracked(q) /\ work[q].job = j
                                   /\ ~(q = p /\ th[2] = "work")
  IN
  /\ IF th[2] = "alarm"
     THEN /\ scope' = [scope EXCEPT ![p] = [Idle(scope[p]) EXCEPT
                                              !.finished = TRUE]]
          /\ UNCHANGED work
     ELSE work' = [work EXCEPT ![p] = NoWork] /\ UNCHANGED scope
  /\ versions' = IF j = NoJob THEN versions ELSE Pruned(j, active, tracked)

(* The invocation was struck already, by its own handler or its handoff.    *)
BreakerSkips(th) ==
  /\ Waiting(th) /\ breaker = Free /\ ~MayStrike(th)
  /\ IF th[2] = "alarm" /\ delivery = th[1]
     THEN alarm' = NoAlarm /\ delivery' = NoSlot
     ELSE UNCHANGED <<alarm, delivery>>
  /\ Leave(th)
  /\ UNCHANGED <<clock, rows, strikes, startup, active, mutationSequence,
                 lastClaim, memoryGeneration, breaker, operation, resetPending,
                 bounds>>

BreakerEnters(th) ==
  /\ Waiting(th) /\ breaker = Free /\ MayStrike(th)
  /\ scope' = [p \in Alarms |->
       [scope[p] EXCEPT !.hit = TRUE, !.struck = @ \/ p = th[1]]]
  /\ memoryGeneration' = memoryGeneration + 1
  /\ breaker' = [Free EXCEPT !.holder = th, !.stage = "strike"]
  /\ UNCHANGED <<clock, durable, startup, fences, work, operation, resetPending,
                 bounds>>

(* _record_memory_limit_strike.                                             *)
BreakerStrikes(th) ==
  /\ breaker.holder = th /\ breaker.stage = "strike"
  /\ strikes' = strikes + 1
  /\ breaker' = [breaker EXCEPT !.stage = "policy",
                   !.sealed = strikes + 1 >= StrikeLimit,
                   !.delay = Sooner(MaxStrikeDelay, StrikeStep * (strikes + 1))]
  /\ scope' = [p \in Alarms |->
       [scope[p] EXCEPT !.counted = IF p = th[1] THEN @ + 1 ELSE @]]
  /\ UNCHANGED <<clock, rows, alarm, delivery, startup, fences,
                 memoryGeneration, work, operation, resetPending, bounds>>

(* Back off the job that ran, and every recovery-loop job that is due by    *)
(* then; once sealed, remove them instead.                                  *)
PolicyRow(th) == IF th[2] = "alarm" THEN scope[th[1]] ELSE work[th[1]]
PolicyRows(th) ==
  LET r    == PolicyRow(th)
      next == clock + breaker.delay
      must == th[2] = "alarm"
      own  == IF r.job = NoJob \/ ~VersionMatches(r.job, r.version) THEN rows
              ELSE IF breaker.sealed THEN DeleteIntent(rows, r.job, r.row, must)
              ELSE RetimeIntent(rows, r.job, r.row, next, must)
  IN  IF breaker.sealed THEN PurgeRecoveryLoopJobs(own)
                        ELSE DelayRecoveryLoopJobs(own, next)

BreakerDecides(th) ==
  /\ breaker.holder = th /\ breaker.stage = "policy"
  /\ rows' = PolicyRows(th)
  /\ breaker' = [breaker EXCEPT !.stage = IF breaker.sealed THEN "seal"
                                                            ELSE "rearm"]
  /\ MarkScopes({j \in Jobs : PolicyRows(th)[j] # rows[j]})
  /\ UNCHANGED <<clock, alarm, strikes, delivery, startup, fences,
                 memoryGeneration, work, operation, resetPending, bounds>>

(* After the memory-limit hooks a sealed incident forgets its strikes.      *)
BreakerSeals(th) ==
  /\ breaker.holder = th /\ breaker.stage = "seal"
  /\ strikes' = 0
  /\ breaker' = [breaker EXCEPT !.stage = "rearm"]
  /\ UNCHANGED <<clock, rows, alarm, delivery, startup, fences,
                 memoryGeneration, scope, work, operation, resetPending, bounds>>

(* Rearm, queue the reset, release the lock; an invocation then returns     *)
(* without an error, so the platform counts the alarm as done.              *)
BreakerLeaves(th) ==
  /\ breaker.holder = th /\ breaker.stage = "rearm"
  /\ IF th[2] = "alarm" THEN RearmAndReturn(th[1]) ELSE Rearm(rows)
  /\ Leave(th)
  /\ breaker' = Free
  /\ resetPending' = CanAbort
  /\ UNCHANGED <<clock, rows, strikes, life, active, mutationSequence,
                 lastClaim, memoryGeneration, operation, bounds>>

-----------------------------------------------------------------------------
(* The isolate goes away with everything in its memory.                     *)
Forget ==
  /\ life' = "cold" /\ rearmRequested' = FALSE
  /\ versions' = [j \in Jobs |-> 0] /\ active' = [j \in Jobs |-> 0]
  /\ mutationSequence' = 0 /\ lastClaim' = 0 /\ memoryGeneration' = 0
  /\ scope' = [p \in Alarms |-> Idle(NewScope(0))]
  /\ work' = [p \in Alarms |-> NoWork]
  /\ breaker' = Free
  /\ pending' = {} /\ resetPending' = FALSE
  /\ delivery' = NoSlot
  /\ UNCHANGED <<clock, rows, strikes, acked, ops, ooms>>

(* An eviction or a crash: an alarm in delivery is delivered again.         *)
Crash ==
  /\ faults < MaxFaults /\ faults' = faults + 1
  /\ Forget
  /\ UNCHANGED alarm

(* abort with retryAlarm FALSE: an alarm in delivery is not.                *)
Reset ==
  /\ resetPending
  /\ Forget
  /\ alarm' = IF delivery = NoSlot THEN alarm ELSE NoAlarm
  /\ UNCHANGED faults

Tick ==
  /\ clock < MaxTime
  /\ clock' = clock + 1
  /\ UNCHANGED <<durable, startup, fences, memoryGeneration, scope, work,
                 breaker, operation, resetPending, bounds>>

-----------------------------------------------------------------------------
Operations ==
  \E j \in Jobs, o \in Owners :
    \/ \E opt \in PushOptions, t \in RescheduleTo : PushJob(o, j, opt, t)
    \/ CancelJob(o, j)
    \/ \E t \in RescheduleTo : RescheduleJob(o, j, t)

Starting == HookRearms \/ StartDone

Invocation(p) ==
  \/ Snapshot(p) \/ ArmDeadman(p) \/ Claim(p) \/ DropUnhandled(p)
  \/ LoopEnds(p) \/ AlarmRaises(p) \/ AlarmClears(p) \/ AlarmReturns(p)
  \/ HostAlarm(p, "clear") \/ WorkClears(p)

Settles(p) ==
  \/ \E outcome \in Outcomes(RescheduleTo) : JobReturns(p, outcome)
  \/ JobAborts(p) \/ JobOoms(p)

WorkEnds(p) == \E r \in {"clear", "fail", "oom"} : WorkSettles(p, r)

Breaker(th) ==
  \/ BreakerSkips(th) \/ BreakerEnters(th) \/ BreakerStrikes(th)
  \/ BreakerDecides(th) \/ BreakerSeals(th) \/ BreakerLeaves(th)

\* Everything but the passing of time.
Work ==
  \/ Operations
  \/ \E j \in Jobs : OperationRearms(j)
  \/ StartBegin \/ Starting \/ \E k \in StartupFailures : StartFails(k)
  \/ \E p \in Alarms :
       \/ AlarmFires(p) \/ Invocation(p) \/ Settles(p) \/ Track(p)
       \/ \E r \in {"fail", "oom"} : HostAlarm(p, r)
       \/ WorkEnds(p)
  \/ \E th \in Threads : Breaker(th)
  \/ Crash \/ Reset

Next == Work \/ Tick

Spec == Init /\ [][Next]_vars

(* The machine has nothing to do before the next alarm.                     *)
AtRest ==
  /\ \A p \in Alarms : scope[p].pc = "idle" /\ work[p] = NoWork
  /\ pending = {} /\ life # "starting" /\ ~resetPending
  /\ alarm # NoAlarm /\ alarm > clock

(* Everything the machine itself must get on with; operations, faults and   *)
(* client contact (StartBegin) are the world's.  Under FairSpec time passes *)
(* only at rest, so that a finite MaxTime holds every deadline.             *)
Fairness ==
  /\ WF_vars(AtRest /\ Tick) /\ WF_vars(Reset) /\ WF_vars(Starting)
  /\ WF_vars(StartBegin /\ \E p \in Alarms : scope[p].pc = "start")
  /\ \A j \in Jobs : WF_vars(OperationRearms(j))
  /\ \A p \in Alarms :
       /\ WF_vars(AlarmFires(p)) /\ WF_vars(Invocation(p))
       /\ WF_vars(Settles(p)) /\ WF_vars(WorkEnds(p))
  /\ \A th \in Threads : WF_vars(Breaker(th))

FairSpec == Init /\ [][Work \/ (AtRest /\ Tick)]_vars /\ Fairness

-----------------------------------------------------------------------------
(* The step is the clearing of strikes at the end of p's alarm or handoff.   *)
Clears(p) ==
  \/ scope[p].pc = "clear" /\ scope'[p].pc = "rearm"
  \/ work[p].pc = "clear" /\ work'[p].pc = "none" /\ life' = "ready"

(* Every variable has its type.                                             *)
TypeOK ==
  /\ clock \in Nat
  /\ rows \in Tables
  /\ alarm \in Nat \cup {NoAlarm}
  /\ strikes \in Nat
  /\ delivery \in Alarms \cup {NoSlot}
  /\ life \in {"cold", "starting", "ready"} /\ rearmRequested \in BOOLEAN
  /\ versions \in [Jobs -> Nat] /\ active \in [Jobs -> Int]
  /\ mutationSequence \in Nat /\ lastClaim \in Nat
  /\ memoryGeneration \in Nat
  /\ scope \in [Alarms -> Scopes] /\ work \in [Alarms -> Works]
  /\ breaker \in [holder : Threads \cup {NoThread},
                  stage : {"free", "strike", "policy", "seal", "rearm"},
                  sealed : BOOLEAN, delay : Nat]
  /\ pending \subseteq Jobs /\ acked \subseteq Jobs
  /\ resetPending \in BOOLEAN
  /\ ops \in Nat /\ faults \in Nat /\ ooms \in Nat

(* A dispatch has claimed a row, and a handoff remembers the one it came    *)
(* from (run_alarm's scope.executing_row, _TrackedWork.row).                *)
ClaimOK ==
  \A p \in Alarms :
    /\ scope[p].pc = "dispatch" => scope[p].job # NoJob
    /\ scope[p].job # NoJob => scope[p].row \in Row
    /\ IsTracked(p) => work[p].job # NoJob
    /\ work[p].job # NoJob => work[p].row \in Row

(* A job whose push has returned is never left without a physical alarm:    *)
(* not between any two awaits of an alarm, an operation or the breaker, and *)
(* so not after a crash at that point (agents/lifecycle/_job_driver.py      *)
(* 212-213, _runtime.py 1244).                                              *)
AckedJobsAreArmed ==
  \A j \in acked : Present(rows, j) => alarm # NoAlarm

(* A claim whose row was pushed, rescheduled, cancelled, backed off or      *)
(* claimed again since never writes that row when its handler settles:      *)
(* the newer intent wins over the older run's outcome (apply_outcome,       *)
(* _clear_running_best_effort).                                             *)
StaleOutcomeIgnored ==
  [][\A p \in Alarms :
       scope[p].pc = "dispatch" /\ scope'[p].pc # "dispatch" /\ scope[p].stale
         => rows'[scope[p].job] = rows[scope[p].job]]_vars

(* Nor does the memory-limit policy back off or delete a job on behalf of   *)
(* an outdated claim or handoff, unless it does so to every recovery-loop   *)
(* job.                                                                     *)
StaleBackoffIgnored ==
  [][\A th \in Threads :
       breaker.holder = th /\ breaker.stage = "policy"
         /\ breaker'.stage # "policy" /\ PolicyRow(th).stale
         => LET j == PolicyRow(th).job
            IN  rows'[j] = rows[j] \/ rows[j].recoveryLoop]_vars

(* While a singleflight job runs on a claim nobody replaced, no overlapping *)
(* alarm dispatches it again before the first run counts as hung.           *)
SingleflightRunsOnce ==
  [][\A p, q \in Alarms :
       /\ p # q /\ scope[p].pc = "dispatch" /\ ~scope[p].stale
       /\ scope[p].row.singleflight
       /\ scope[q].pc # "dispatch" /\ scope'[q].pc = "dispatch"
       /\ scope'[q].job = scope[p].job
       => IsHung(scope[p].row, scope[q].inv)]_vars

(* An exclusive job holds up every ordinary claim from the moment it is     *)
(* pushed, also the claims a running alarm still has on its list.           *)
ExclusiveHoldsUpOthers ==
  [][\A p \in Alarms :
       /\ scope[p].pc # "dispatch" /\ scope'[p].pc = "dispatch"
       /\ HasExclusive(rows)
       => scope'[p].row.exclusive]_vars

(* One invocation of alarm() costs one strike, whether its handler, its     *)
(* handoff or both run out of memory.                                       *)
OneStrikePerAlarm == \A p \in Alarms : scope[p].counted <= 1

(* A strike falls on the job that ran: unless a newer intent replaced it,   *)
(* the job whose handler exhausted the memory is backed off, or removed     *)
(* once the incident is sealed (retime_intent, delete_intent).              *)
BreakerActsOnItsJob ==
  [][\A p \in Alarms :
       /\ breaker.holder = <<p, "alarm">> /\ breaker.stage = "policy"
       /\ breaker'.stage # "policy" /\ life' = "ready"
       /\ scope[p].job # NoJob /\ ~scope[p].stale
       => LET j == scope[p].job
          IN  IF breaker.sealed THEN rows'[j] = NoRow
              ELSE rows'[j].time = clock + breaker.delay]_vars

(* An alarm that was under way when the breaker took up an incident, or its *)
(* handoff, never clears the strikes when it ends well                      *)
(* (_clear_strikes_if_quiescent).                                           *)
CleanAlarmKeepsStrike ==
  [][\A p \in Alarms : Clears(p) /\ scope[p].hit => strikes' = strikes]_vars

(* The breaker and exclusive jobs change the plans of the jobs they mean.   *)
IntentsAreRespected == ExclusiveHoldsUpOthers /\ BreakerActsOnItsJob

(* What the memory-limit breaker may do, as the three parts above say.       *)
BreakerIsOrderly ==
  []OneStrikePerAlarm /\ StaleBackoffIgnored /\ CleanAlarmKeepsStrike

(* A job whose push has returned is not forgotten: it runs to completion,   *)
(* is cancelled, or is removed by the breaker, through crashes and memory   *)
(* limits alike.  No client has to come by for it.                          *)
AckedJobsEnd ==
  \A j \in Jobs : j \in acked /\ Present(rows, j) ~> ~Present(rows, j)
=============================================================================

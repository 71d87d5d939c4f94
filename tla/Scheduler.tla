------------------------------ MODULE Scheduler ------------------------------
(***************************************************************************)
(* The Scheduler capability of agents/schedules.py: schedules are jobs of   *)
(* the root object's table, whoever asked for them.  A facet (a sub-agent)  *)
(* asks and cancels through calls routed to the root, and the root routes   *)
(* each execution of a facet's schedule back to it (_execute_routed), where *)
(* the callback is retried.  The driver of the table has a module of its    *)
(* own (LifecycleJobDriver); of it only the claim and the guard of the      *)
(* outcome are needed here.  A step is what runs between two suspensions.   *)
(***************************************************************************)
EXTENDS Integers, FiniteSets

CONSTANTS
  Ids,            \* schedule ids, each used once (uuid4)
  Root, Facets,   \* owners of schedules
  Execs,          \* executions under way at a time
  Callers,        \* calls of facets under way at a time
  Kinds,          \* the types of timing asked for
  Interval,       \* intervalSeconds, and the period of the cron expression
  HungTimeout,    \* hung_schedule_timeout_seconds
  MaxAttempts,    \* retry.maxAttempts
  Legacy,         \* ids still in the table of an older version
  MaxCalls,       \* bound on calls of set, every and cancel
  MaxCrashes,     \* bound on evictions
  NoJob, NoExec

ASSUME SchedulerAssumption ==
  /\ Kinds \subseteq {"once", "interval", "cron"}
  /\ Legacy \subseteq Ids /\ Root \notin Facets /\ NoExec \notin Execs
  /\ {Interval, HungTimeout, MaxAttempts} \subseteq Nat \ {0}

VARIABLES
  jobs,        \* cf_agents_jobs of the root: id -> row
  legacy,      \* cf_agents_schedules, and whether the schema version is current
  started,     \* "no": before on_start; "version": its table is migrated; "yes"
  execs,       \* executions: at the root and, for facets, over there
  executing,   \* facet -> _executing_routed
  cancelled,   \* facet -> _cancelled_routed
  calls,       \* routed calls of facets under way
  used,        \* ids handed out so far
  now,         \* the time, within the period of the cron expression
  asked, crashes, \* calls and evictions so far
  doomed,      \* history: executions their facet was told to stop
  awaited      \* history: accepted schedules not executed since

vars == <<jobs, legacy, started, execs, executing, cancelled, calls, used, now,
          asked, crashes, doomed, awaited>>
history == <<doomed, awaited>>
facets == <<executing, cancelled>>

Owners == Facets \union {Root}
\* Times are kept as what is left of them, and ages up to the timeout.
Rows == [owner: Owners, kind: {"once", "interval", "cron"}, left: 0..Interval,
         claim: Execs \union {NoExec}, age: 0..HungTimeout]
Idle == [id |-> NoJob, phase |-> "idle", attempt |-> 0, orphan |-> FALSE]
NoCall == [op |-> "none"]

Active(e) == execs[e].phase # "idle"
Owner(e) == execs[e].owner
Due(id) == jobs[id] # NoJob /\ jobs[id].left = 0

\* How long until the next execution of a schedule.
Delay(kind) == CASE kind = "cron" -> Interval - now
                 [] kind = "interval" -> Interval
                 [] kind = "once" -> 1

----------------------------------------------------------------------------
(* Accepting: _insert at the root, for itself or for a facet.              *)

Row(owner, kind, left) ==
  [owner |-> owner, kind |-> kind, left |-> left, claim |-> NoExec, age |-> 0]

\* _find_matching: same owner, callback and type; the time of a one-shot is
\* not compared, and neither is whether it is being executed.
Matching(owner, kind) ==
  {id \in Ids : jobs[id] # NoJob /\ jobs[id].owner = owner /\ jobs[id].kind = kind}

\* The one-shot found may be in execution: its row goes when that ends.
WillRun(id) == ~(jobs[id].kind = "once" /\ jobs[id].claim # NoExec)

Found(owner, kind) ==
  \E id \in Matching(owner, kind) :
    /\ awaited' = IF WillRun(id) THEN awaited \union {id} ELSE awaited
    /\ UNCHANGED <<jobs, used>>

\* Which fresh id, and which idle execution, makes no difference.
Fresh == Ids \ (used \union legacy.rows)

Created(owner, kind) ==
  /\ Fresh # {}
  /\ LET id == CHOOSE i \in Fresh : TRUE IN
    /\ jobs' = [jobs EXCEPT ![id] = Row(owner, kind, Delay(kind))]
    /\ used' = used \union {id}
    /\ awaited' = awaited \union {id}

\* A mutant: the search stops at rows that are being executed.
InsertTwice(owner, kind, idempotent) ==
  IF idempotent /\ \E id \in Matching(owner, kind) : jobs[id].claim = NoExec
  THEN Found(owner, kind) ELSE Created(owner, kind)

Insert(owner, kind, idempotent) ==
  IF idempotent /\ Matching(owner, kind) # {}
  THEN Found(owner, kind) ELSE Created(owner, kind)

\* Recurring schedules are idempotent unless told otherwise, one-shots are not.
Idempotent(kind) == IF kind = "once" THEN BOOLEAN ELSE {TRUE}

Cancelled(id, owner) ==
  IF jobs[id] # NoJob /\ jobs[id].owner = owner
  THEN jobs' = [jobs EXCEPT ![id] = NoJob] /\ awaited' = awaited \ {id}
  ELSE UNCHANGED <<jobs, awaited>>

Asks == asked < MaxCalls /\ asked' = asked + 1

\* set() and every() of the root itself.
SetAtRoot(kind, idempotent) ==
  /\ started = "yes" /\ Asks
  /\ Insert(Root, kind, idempotent)
  /\ UNCHANGED <<legacy, started, execs, facets, calls, now, crashes, doomed>>

CancelAtRoot(id) ==
  /\ started = "yes" /\ id \in used /\ Asks
  /\ Cancelled(id, Root)
  /\ UNCHANGED <<legacy, started, execs, facets, calls, used, now, crashes, doomed>>

\* A facet's call leaves for the root.
Ask(c, call) ==
  /\ calls[c] = NoCall /\ Asks
  /\ calls' = [calls EXCEPT ![c] = call]
  /\ UNCHANGED <<jobs, legacy, started, execs, facets, used, now, crashes, history>>

SetAtFacet(c, f, kind, idempotent) ==
  Ask(c, [op |-> "set", owner |-> f, kind |-> kind, idempotent |-> idempotent,
          at |-> "sent", ok |-> FALSE])

CancelAtFacet(c, f, id) ==
  id \in used /\ Ask(c, [op |-> "cancel", owner |-> f, id |-> id, at |-> "sent", ok |-> FALSE])

\* on_route at the root.
RouteArrives(c) ==
  /\ started = "yes" /\ calls[c] # NoCall /\ calls[c].at = "sent"
  /\ \/ /\ calls[c].op = "set"
        /\ Insert(calls[c].owner, calls[c].kind, calls[c].idempotent)
        /\ calls' = [calls EXCEPT ![c].at = "answered"]
     \/ /\ calls[c].op = "cancel"
        /\ Cancelled(calls[c].id, calls[c].owner)
        /\ calls' = [calls EXCEPT ![c].at = "answered",
                       ![c].ok = jobs[calls[c].id] # NoJob
                                 /\ jobs[calls[c].id].owner = calls[c].owner]
        /\ UNCHANGED used
  /\ UNCHANGED <<legacy, started, execs, facets, now, asked, crashes, doomed>>

\* The answer is back at the facet: a cancellation marks the execution that
\* is under way over there, if any.
AnswerArrives(c) ==
  /\ calls[c] # NoCall /\ calls[c].at = "answered"
  /\ LET f == calls[c].owner
         marks == calls[c].op = "cancel" /\ calls[c].ok /\ calls[c].id \in executing[f]
     IN  /\ cancelled' = IF marks THEN [cancelled EXCEPT ![f] = @ \union {calls[c].id}]
                                  ELSE cancelled
         /\ doomed' = IF marks
                      THEN doomed \union
                             {e \in Execs : /\ Active(e) /\ execs[e].id = calls[c].id
                                            /\ execs[e].phase \in {"ready", "calling", "backoff"}}
                      ELSE doomed
  /\ calls' = [calls EXCEPT ![c] = NoCall]
  /\ UNCHANGED <<jobs, legacy, started, execs, executing, used, now, asked, crashes, awaited>>

----------------------------------------------------------------------------
(* Executing.                                                              *)

Claimable(id) ==
  /\ Due(id)
  /\ jobs[id].kind = "interval" =>
       jobs[id].claim = NoExec \/ jobs[id].age = HungTimeout

\* The driver claims a due row; on_job runs it here or routes it to its owner.
\* It has one job at a time; overlapping alarms are LifecycleJobDriver's.  An
\* execution that a root left behind in a facet when it went still overlaps.
Dispatch(e, id) ==
  /\ started = "yes" /\ Claimable(id)
  /\ \A x \in Execs : Active(x) => execs[x].orphan
  /\ ~Active(e) /\ e = CHOOSE x \in Execs : ~Active(x)
  /\ jobs' = [jobs EXCEPT ![id].claim = e, ![id].age = 0]
  /\ execs' = [execs EXCEPT ![e] =
       [id |-> id, owner |-> jobs[id].owner, kind |-> jobs[id].kind, attempt |-> 0,
        phase |-> IF jobs[id].owner = Root THEN "ready" ELSE "sent", orphan |-> FALSE]]
  /\ UNCHANGED <<legacy, started, facets, calls, used, now, asked, crashes, history>>

\* The dispatch reaches the facet: _execute_routed notes it.
RoutedStarts(e) ==
  /\ execs[e].phase = "sent"
  /\ executing' = [executing EXCEPT ![Owner(e)] = @ \union {execs[e].id}]
  /\ execs' = [execs EXCEPT ![e].phase = "ready"]
  /\ UNCHANGED <<jobs, legacy, started, cancelled, calls, used, now, asked, crashes, history>>

Stopped(e) == Owner(e) # Root /\ execs[e].id \in cancelled[Owner(e)]

\* _execute_routed ends, for whatever reason: both notes of the id go.
Ends(e) ==
  /\ execs' = [execs EXCEPT ![e] = IF @.orphan THEN Idle ELSE [@ EXCEPT !.phase = "done"]]
  /\ IF Owner(e) = Root THEN UNCHANGED facets
     ELSE /\ executing' = [executing EXCEPT ![Owner(e)] = @ \ {execs[e].id}]
          /\ cancelled' = [cancelled EXCEPT ![Owner(e)] = @ \ {execs[e].id}]
  /\ doomed' = {d \in doomed \ {e} : execs[d].id # execs[e].id}

Continues(e, phase) ==
  /\ execs' = [execs EXCEPT ![e].phase = phase]
  /\ UNCHANGED <<facets, doomed>>

\* A mutant: the mark is looked at before the retry's event only.
AttemptUnchecked(e) ==
  /\ execs[e].phase = "ready"
  /\ execs' = [execs EXCEPT ![e].phase = "calling", ![e].attempt = @ + 1]
  /\ awaited' = awaited \ {execs[e].id}
  /\ UNCHANGED <<facets, doomed>>
  /\ UNCHANGED <<jobs, legacy, started, calls, used, now, asked, crashes>>

\* After the event, the callback is called, unless the schedule was cancelled.
Attempt(e) ==
  /\ execs[e].phase = "ready"
  /\ \/ /\ Stopped(e) /\ Ends(e) /\ UNCHANGED awaited
     \/ /\ ~Stopped(e)
        /\ execs' = [execs EXCEPT ![e].phase = "calling", ![e].attempt = @ + 1]
        /\ awaited' = awaited \ {execs[e].id}
        /\ UNCHANGED <<facets, doomed>>
  /\ UNCHANGED <<jobs, legacy, started, calls, used, now, asked, crashes>>

CallbackReturns(e) ==
  /\ execs[e].phase = "calling"
  /\ Ends(e)
  /\ UNCHANGED <<jobs, legacy, started, calls, used, now, asked, crashes, awaited>>

\* A failed attempt is tried again after a delay.  The last failure is
\* reported, and the schedule goes on as if it had succeeded (on_job_error).
CallbackRaises(e) ==
  /\ execs[e].phase = "calling"
  /\ IF Stopped(e) \/ execs[e].attempt = MaxAttempts
     THEN Ends(e) ELSE Continues(e, "backoff")
  /\ UNCHANGED <<jobs, legacy, started, calls, used, now, asked, crashes, awaited>>

BackoffEnds(e) ==
  /\ execs[e].phase = "backoff"
  /\ IF Stopped(e) THEN Ends(e) ELSE Continues(e, "ready")
  /\ UNCHANGED <<jobs, legacy, started, calls, used, now, asked, crashes, awaited>>

Mine(e) == jobs[execs[e].id] # NoJob /\ jobs[execs[e].id].claim = e

\* A mutant: what a failing facet did not run is taken for executed.
OutcomeLost(e) ==
  IF jobs[execs[e].id].kind = "once" THEN NoJob
  ELSE [jobs[execs[e].id] EXCEPT !.claim = NoExec, !.age = 0, !.left = Delay(execs[e].kind)]

\* A one-shot's row goes, a recurring one is due again later; when the facet
\* could not be reached the row is released as it is ("yield").
Outcome(e) ==
  IF execs[e].phase = "failed" THEN [jobs[execs[e].id] EXCEPT !.claim = NoExec, !.age = 0]
  ELSE IF jobs[execs[e].id].kind = "once" THEN NoJob
  ELSE [jobs[execs[e].id] EXCEPT !.claim = NoExec, !.age = 0, !.left = Delay(execs[e].kind)]

\* Back in the driver: the outcome counts if the claim still stands.
Settle(e) ==
  /\ execs[e].phase \in {"done", "failed"}
  /\ jobs' = IF Mine(e) THEN [jobs EXCEPT ![execs[e].id] = Outcome(e)] ELSE jobs
  /\ execs' = [execs EXCEPT ![e] = Idle]
  /\ UNCHANGED <<legacy, started, facets, calls, used, now, asked, crashes, history>>

----------------------------------------------------------------------------
(* Startup, evictions and time.                                            *)

\* on_start: the rows of an older version become jobs, unless one of them is
\* malformed.  Nothing suspends before the version is written.
Migrate ==
  /\ started = "no"
  /\ \/ /\ legacy.current /\ started' = "yes"
        /\ UNCHANGED <<jobs, legacy, used, awaited>>
     \/ /\ ~legacy.current /\ legacy.malformed /\ started' = "yes"
        /\ UNCHANGED <<jobs, legacy, used, awaited>>
     \/ /\ ~legacy.current /\ ~legacy.malformed
        /\ jobs' = [id \in Ids |-> IF id \in legacy.rows THEN Row(Root, "cron", 0)
                                   ELSE jobs[id]]
        /\ used' = used \union legacy.rows
        /\ awaited' = awaited \union legacy.rows
        /\ legacy' = [legacy EXCEPT !.rows = {}]
        /\ started' = "version"
  /\ UNCHANGED <<execs, facets, calls, now, asked, crashes, doomed>>

VersionWritten ==
  /\ started = "version"
  /\ started' = "yes"
  /\ legacy' = [legacy EXCEPT !.current = TRUE]
  /\ UNCHANGED <<jobs, execs, facets, calls, used, now, asked, crashes, history>>

\* The root goes: its executions end, those of facets go on for nobody, and
\* calls routed to it fail.
RootEvicted ==
  /\ crashes < MaxCrashes /\ crashes' = crashes + 1 /\ UNCHANGED asked
  /\ started' = "no"
  /\ execs' = [e \in Execs |->
       IF Active(e) /\ execs[e].phase \in {"ready", "calling", "backoff"} /\ Owner(e) # Root
       THEN [execs[e] EXCEPT !.orphan = TRUE] ELSE Idle]
  /\ calls' = [c \in Callers |-> NoCall]
  /\ UNCHANGED <<jobs, legacy, facets, used, now, history>>

\* A facet goes, with its notes, its calls and what it was executing.
FacetEvicted(f) ==
  /\ crashes < MaxCrashes /\ crashes' = crashes + 1 /\ UNCHANGED asked
  /\ execs' = [e \in Execs |->
       IF Active(e) /\ Owner(e) = f /\ execs[e].phase \notin {"done", "failed"}
       THEN IF execs[e].orphan THEN Idle ELSE [execs[e] EXCEPT !.phase = "failed"]
       ELSE execs[e]]
  /\ executing' = [executing EXCEPT ![f] = {}]
  /\ cancelled' = [cancelled EXCEPT ![f] = {}]
  /\ calls' = [c \in Callers |-> IF calls[c] # NoCall /\ calls[c].owner = f THEN NoCall
                                 ELSE calls[c]]
  /\ doomed' = {e \in doomed : Owner(e) # f}
  /\ UNCHANGED <<jobs, legacy, started, used, now, awaited>>

Ages(id) == /\ jobs[id].kind = "interval" /\ jobs[id].claim # NoExec
            /\ jobs[id].age < HungTimeout

Tick ==
  /\ now' = (now + 1) % Interval
  /\ jobs' = [id \in Ids |->
       IF jobs[id] = NoJob THEN NoJob
       ELSE [jobs[id] EXCEPT !.left = IF @ = 0 THEN 0 ELSE @ - 1,
                             !.age = IF Ages(id) THEN @ + 1 ELSE @]]
  /\ UNCHANGED <<legacy, started, execs, facets, calls, used, asked, crashes, history>>

----------------------------------------------------------------------------

Init ==
  /\ jobs = [id \in Ids |-> NoJob] /\ used = {} /\ started = "no"
  /\ legacy \in 
       [rows: {{}, Legacy}, malformed: {FALSE}, current: {FALSE}]
       \union [rows: {Legacy}, malformed: {TRUE}, current: {FALSE}]
  /\ execs = [e \in Execs |-> Idle]
  /\ executing = [f \in Facets |-> {}] /\ cancelled = [f \in Facets |-> {}]
  /\ calls = [c \in Callers |-> NoCall]
  /\ now = 0 /\ asked = 0 /\ crashes = 0 /\ doomed = {} /\ awaited = {}

Execution(e) ==
  \/ RoutedStarts(e) \/ Attempt(e) \/ BackoffEnds(e) \/ Settle(e)
  \/ CallbackReturns(e) \/ CallbackRaises(e)

Next ==
  \/ \E kind \in Kinds : \E i \in Idempotent(kind) :
       \/ SetAtRoot(kind, i)
       \/ \E c \in Callers, f \in Facets : SetAtFacet(c, f, kind, i)
  \/ \E id \in Ids : \/ CancelAtRoot(id)
                      \/ \E c \in Callers, f \in Facets : CancelAtFacet(c, f, id)
                      \/ \E e \in Execs : Dispatch(e, id)
  \/ \E c \in Callers : RouteArrives(c) \/ AnswerArrives(c)
  \/ \E e \in Execs :
       \/ RoutedStarts(e) \/ Attempt(e) \/ BackoffEnds(e) \/ Settle(e)
       \/ CallbackReturns(e) \/ CallbackRaises(e)
  \/ Migrate \/ VersionWritten \/ RootEvicted \/ Tick
  \/ \E f \in Facets : FacetEvicted(f)

Spec == Init /\ [][Next]_vars

\* Alarms come as time passes, routed calls arrive, callbacks end.  Nobody
\* has to ask for anything, and no schedule has to be cancelled.
Fairness ==
  /\ WF_vars(Tick) /\ WF_vars(Migrate) /\ WF_vars(VersionWritten)
  /\ \A e \in Execs : WF_vars(Execution(e))
  /\ \A id \in Ids : SF_vars(\E e \in Execs : Dispatch(e, id))
  /\ \A c \in Callers : WF_vars(RouteArrives(c)) /\ WF_vars(AnswerArrives(c))
FairSpec == Spec /\ Fairness

\* Every variable has its type.
TypeOK ==
  /\ jobs \in [Ids -> Rows \union {NoJob}]
  /\ used \subseteq Ids /\ awaited \subseteq Ids /\ doomed \subseteq Execs
  /\ started \in {"no", "version", "yes"}
  /\ \A e \in Execs : execs[e].phase \in {"idle", "sent", "ready", "calling",
                                           "backoff", "done", "failed"}
  /\ executing \in [Facets -> SUBSET Ids] /\ cancelled \in [Facets -> SUBSET Ids]
  /\ now \in 0..Interval - 1

\* Asking twice for the same recurring schedule, from the root or through
\* calls routed to it, before a restart and after, leaves one row of it.
OneRowPerSchedule ==
  \A a, b \in Ids :
    /\ jobs[a] # NoJob /\ jobs[b] # NoJob
    /\ jobs[a].owner = jobs[b].owner /\ jobs[a].kind = jobs[b].kind
    /\ jobs[a].kind # "once"
    => a = b

\* The schedules are in order whoever asks for them: the two parts above.
SchedulesAreOrderly == TypeOK /\ OneRowPerSchedule

\* An execution that was under way in a facet when the facet learnt that its
\* schedule is cancelled calls the callback no more, however the answer falls
\* between its attempts, events and delays.  (When two executions of one
\* schedule overlap, the first to end takes the note with it: from then on
\* nothing is said of the other.)
CancelStopsRetries ==
  [][\A e \in doomed : execs'[e].attempt = execs[e].attempt \/ execs'[e] = Idle]_vars

\* A schedule that was accepted, or found again by an idempotent call, is
\* executed after that or cancelled, though the root and the facet may be
\* evicted at any moment, executions hang and callbacks fail.  (A one-shot that
\* is being executed is found too, and its row goes when that execution ends.)
AcceptedSchedulesRun ==
  \A id \in Ids : id \in awaited ~> id \notin awaited

=============================================================================

-------------------------- MODULE LifecycleRuntime --------------------------
(***************************************************************************)
(* One activation of an agent's Lifecycle (src/agents/lifecycle/           *)
(* _runtime.py): the startup attempt that concurrent callers share and     *)
(* retry, the operations counted as in flight, the queue of events with    *)
(* its one draining task, the alarm deferred while starting, and disposal. *)
(*                                                                         *)
(* Everything runs on one event loop.  A Task is an asyncio task that      *)
(* makes calls of the Lifecycle one after another; a step runs from one    *)
(* await to the next.  User code (start hooks, handlers, listeners,        *)
(* dispose hooks) is nondeterministic.  `faults` counts the hooks that     *)
(* raise, the tasks cancelled and the alarm writes that fail.              *)
(*                                                                         *)
(* The driver that runs due jobs is LifecycleJobDriver; the job table is   *)
(* here only the set of deadlines its rows have.                           *)
(***************************************************************************)
EXTENDS Naturals, Sequences, FiniteSets, FiniteSetsExt

CONSTANTS Tasks,      \* asyncio tasks that call the Lifecycle
          Times,      \* deadlines of jobs
          MaxCalls,   \* bound: calls made
          MaxEvents,  \* bound: events emitted
          MaxFaults   \* bound: hooks that raise, cancellations, lost alarm writes

NoTask == "none"
NoAttempt == 0

ASSUME RuntimeAssumption ==
  /\ NoTask \notin Tasks /\ Times \subseteq Nat \ {0}
  /\ {MaxCalls, MaxEvents, MaxFaults} \subseteq Nat

VARIABLES
  ready, starting, owner, attempt,   \* _ready, _starting, _startup_owner, _startup_attempt
  fate,        \* how each startup attempt ended: its future, which joiners await
  phase,       \* "active", "disposing", "disposed"
  disabled,    \* _alarms_disabled
  pending,     \* _pending_events
  queue,       \* _event_queue: the events that wait, first out first
  drainer,     \* _event_owner, or NoTask when not _event_draining
  heard,       \* the last event given to the listeners
  done,        \* the future of each queued event
  jobs, alarm, \* deadlines in the job table; the alarm the object has, 0 for none
  rearmAsked,  \* _rearm_requested_during_start
  lost,        \* the last write of the alarm failed
  lock,        \* the task that holds _alarm_rearm_lock
  at,          \* of each task: where it is (pc), what it called (kind), where a drain or
               \* a rearm returns to (back), the attempt or event it waits for (waits)
  calls, faults

life == <<ready, starting, owner, attempt, fate>>
events == <<pending, queue, drainer, heard, done>>
alarms == <<jobs, alarm, rearmAsked, lost, lock, disabled>>
vars == <<life, phase, events, alarms, at, calls, faults>>

Kinds == {"start", "request", "push", "emit", "dispose"}
Places == {"idle", "hooks", "join", "drain", "await", "rearm", "rearming", "handler",
           "disposeWait", "disposeHooks", "joinDispose"}
Returns == {"startup", "failure", "handler", "call"}

\* Safety of types: one invariant of the module, about the activation's fields.
TypeOK ==
  /\ ready \in BOOLEAN /\ starting \in BOOLEAN /\ owner \in Tasks \cup {NoTask}
  /\ fate \in Seq({"pending", "done", "failed"}) /\ attempt \in 0..Len(fate)
  /\ phase \in {"active", "disposing", "disposed"} /\ disabled \in BOOLEAN
  /\ done \in Seq({"buffered", "waiting", "delivered", "failed"})
  /\ {pending, queue} \subseteq Seq(DOMAIN done) /\ heard \in 0..Len(done)
  /\ drainer \in Tasks \cup {NoTask} /\ lock \in Tasks \cup {NoTask}
  /\ jobs \subseteq Times /\ alarm \in Times \cup {0}
  /\ rearmAsked \in BOOLEAN /\ lost \in BOOLEAN
  /\ at \in [Tasks -> [pc : Places, kind : Kinds, back : Returns, waits : Nat]]
  /\ calls \in 0..MaxCalls /\ faults \in 0..MaxFaults

Idle == [pc |-> "idle", kind |-> "start", back |-> "call", waits |-> 0]

Init ==
  /\ ready = FALSE /\ starting = FALSE /\ owner = NoTask /\ attempt = NoAttempt
  /\ fate = <<>> /\ phase = "active" /\ disabled = FALSE
  /\ pending = <<>> /\ queue = <<>> /\ drainer = NoTask /\ heard = 0 /\ done = <<>>
  /\ jobs = {} /\ alarm = 0 /\ rearmAsked = FALSE /\ lost = FALSE /\ lock = NoTask
  /\ at = [t \in Tasks |-> Idle]
  /\ calls = 0 /\ faults = 0

-----------------------------------------------------------------------------
\* _operation: the task is counted while a call other than dispose is under way.
InOperation(t) == at[t].pc # "idle" /\ at[t].kind # "dispose"
OperationsIdleUnseen == TRUE
OperationsIdle == \A t \in Tasks : ~InOperation(t)

\* _next_alarm_deadline.
Deadline(rows) == IF rows = {} THEN 0 ELSE Min(rows)

Fault == faults < MaxFaults /\ faults' = faults + 1
Goes(t, place) == at' = [at EXCEPT ![t].pc = place]
GoesFor(t, place, to) == at' = [at EXCEPT ![t].pc = place, ![t].back = to]
\* A step of t's call that ends it, with a result or an error: leaving _operation.
Ends(t) == at' = [at EXCEPT ![t] = Idle]

\* `_drain_event_queue(done)`, called when the queue is q: the task drains it, or
\* waits for `event` when another task is draining.
Drains(t, q, event, call, to) ==
  /\ queue' = q
  /\ IF drainer = NoTask
     THEN /\ drainer' = t /\ heard' = q[1]
          /\ at' = [at EXCEPT ![t] = [@ EXCEPT !.pc = "drain", !.kind = call, !.back = to]]
     ELSE /\ UNCHANGED <<drainer, heard>>
          /\ at' = [at EXCEPT ![t] = [pc |-> "await", kind |-> call, back |-> to,
                                     waits |-> event]]

\* _rearm_alarm: asked again later while starting, otherwise a task of its own
\* that the caller awaits, shielded.
AsksRearm(t) ==
  \/ /\ disabled \/ starting
     /\ rearmAsked' = (rearmAsked \/ ~disabled) /\ Ends(t)
  \/ ~disabled /\ ~starting
     /\ GoesFor(t, "rearm", "call") /\ UNCHANGED rearmAsked

-----------------------------------------------------------------------------
(***************************************************************************)
(* Calls.  _start joins the attempt under way (or settled), or makes one.  *)
(***************************************************************************)
Attempts(t, call) ==
  /\ attempt' = Len(fate) + 1 /\ fate' = Append(fate, "pending")
  /\ owner' = t /\ starting' = TRUE /\ UNCHANGED ready
  /\ at' = [at EXCEPT ![t] = [Idle EXCEPT !.pc = "hooks", !.kind = call]]

Joins(t, call) ==
  /\ at' = [at EXCEPT ![t] = [Idle EXCEPT !.pc = "join", !.kind = call, !.waits = attempt]]
  /\ UNCHANGED life

\* start, fetch and the socket handlers, alarm, a route: each is an operation that
\* starts the activation first.  _ready_for_jobs asks for a start only if not ready.
Call(t) ==
  \E call \in {"start", "request", "push"} :
    /\ at[t].pc = "idle" /\ phase = "active" /\ calls < MaxCalls /\ calls' = calls + 1
    /\ \/ /\ call = "push" /\ ready /\ UNCHANGED life
          /\ at' = [at EXCEPT ![t] = [Idle EXCEPT !.pc = "handler", !.kind = call]]
       \/ ~(call = "push" /\ ready) /\ attempt # NoAttempt /\ Joins(t, call)
       \/ ~(call = "push" /\ ready) /\ attempt = NoAttempt /\ Attempts(t, call)
    /\ UNCHANGED <<phase, events, alarms, faults>>

\* Where a started call goes: start returns, anything else is handled.
Served(t) ==
  at' = [at EXCEPT ![t] = IF @.kind = "start" THEN Idle
                          ELSE [Idle EXCEPT !.pc = "handler", !.kind = at[t].kind]]

\* The joined attempt settled: its callers go on, or fail with its owner's error.
Joined(t) ==
  /\ at[t].pc = "join" /\ fate[at[t].waits] # "pending"
  /\ IF fate[at[t].waits] = "done" THEN Served(t) ELSE Ends(t)
  /\ UNCHANGED <<life, phase, events, alarms, calls, faults>>

\* What the startup owner's hooks do before they return: a job pushed, which only
\* asks for the alarm, or an event, which is buffered.
HookPushes(t) ==
  /\ at[t].pc = "hooks"
  /\ \E time \in Times \ jobs : jobs' = jobs \cup {time}
  /\ rearmAsked' = TRUE
  /\ UNCHANGED <<life, phase, events, alarm, lost, lock, disabled, at, calls, faults>>

\* The startup attempt is over for everyone.
Settles(result) ==
  /\ fate' = [fate EXCEPT ![attempt] = result] /\ owner' = NoTask
  /\ attempt' = IF result = "done" THEN attempt ELSE NoAttempt

\* `_ready = True`, and the alarm asked for meanwhile; then the attempt is done.
Readies(t) ==
  /\ ready' = TRUE /\ starting' = FALSE
  /\ \/ rearmAsked /\ ~disabled /\ GoesFor(t, "rearm", "startup")
        /\ UNCHANGED <<fate, owner, attempt>>
     \/ (~rearmAsked \/ disabled) /\ Settles("done") /\ Served(t)

\* _start's except branch: the buffered events are dropped, and an alarm asked for is
\* still armed before the joiners are told.
FailsStart(t) ==
  /\ ready' = FALSE /\ starting' = FALSE /\ pending' = <<>>
  /\ \/ rearmAsked /\ ~disabled /\ GoesFor(t, "rearm", "failure")
        /\ UNCHANGED <<fate, owner, attempt>>
     \/ (~rearmAsked \/ disabled) /\ Settles("failed") /\ Ends(t)

\* Every hook returned: the buffered events are queued and drained, in one step up
\* to the first listener.
HooksReturn(t) ==
  /\ at[t].pc = "hooks"
  /\ \/ /\ pending = <<>> /\ Readies(t)
        /\ UNCHANGED events
     \/ /\ pending # <<>> /\ starting' = FALSE /\ pending' = <<>>
        /\ Drains(t, queue \o pending, pending[Len(pending)], at[t].kind, "startup")
        /\ done' = [e \in DOMAIN done |-> IF \E i \in DOMAIN pending : pending[i] = e
                                          THEN "waiting" ELSE done[e]]
        /\ UNCHANGED <<ready, owner, attempt, fate>>
  /\ UNCHANGED <<phase, alarms, calls, faults>>

\* A hook raises, or the owner is cancelled in one.
HooksRaise(t) ==
  /\ at[t].pc = "hooks" /\ Fault /\ FailsStart(t)
  /\ UNCHANGED <<phase, queue, drainer, heard, done, alarms, calls>>

-----------------------------------------------------------------------------
(***************************************************************************)
(* Events.  done[e] is "buffered" until e is queued.                       *)
(***************************************************************************)
BufferingUnstarted == ~ready /\ attempt = NoAttempt
Buffering == starting \/ (~ready /\ attempt = NoAttempt)

\* _emit_event, from a call of its own, from a start hook or from a handler.
Emit(t) ==
  LET e == Len(done) + 1 IN
  /\ Len(done) < MaxEvents /\ phase = "active"
  /\ \/ at[t].pc = "idle" /\ calls < MaxCalls /\ calls' = calls + 1
     \/ at[t].pc \in {"hooks", "handler"} /\ UNCHANGED calls
  /\ \/ /\ Buffering
        /\ pending' = Append(pending, e) /\ done' = Append(done, "buffered")
        /\ UNCHANGED <<queue, drainer, heard, at>>
     \/ /\ ~Buffering
        /\ done' = Append(done, "waiting")
        /\ IF at[t].pc = "idle" THEN Drains(t, Append(queue, e), e, "emit", "call")
           ELSE Drains(t, Append(queue, e), e, at[t].kind, "handler")
        /\ UNCHANGED pending
  /\ UNCHANGED <<life, phase, alarms, faults>>

\* A listener emits while its own task drains: queued, and the emit returns at once.
ListenerEmits(t) ==
  LET e == Len(done) + 1 IN
  /\ at[t].pc = "drain" /\ Len(done) < MaxEvents /\ phase = "active"
  /\ \/ Buffering /\ pending' = Append(pending, e) /\ done' = Append(done, "buffered")
        /\ UNCHANGED queue
     \/ ~Buffering /\ queue' = Append(queue, e) /\ done' = Append(done, "waiting")
        /\ UNCHANGED pending
  /\ UNCHANGED <<life, phase, drainer, heard, alarms, at, calls, faults>>

\* Where a drain, a wait for an event or a rearm returns to without an error.
Continues(t) ==
  \/ at[t].back = "startup" /\ Readies(t)
  \/ at[t].back = "handler" /\ Served(t) /\ UNCHANGED life
  \/ at[t].back = "call" /\ Ends(t) /\ UNCHANGED life

\* The listeners of the first event returned, and what they raise is reported; the
\* next one is given to them, until none is left.
Delivered(t) ==
  /\ at[t].pc = "drain"
  /\ done' = [done EXCEPT ![queue[1]] = "delivered"] /\ queue' = Tail(queue)
  /\ \/ /\ Len(queue) > 1 /\ heard' = queue[2]
        /\ UNCHANGED <<life, drainer, at>>
     \/ /\ Len(queue) = 1 /\ drainer' = NoTask /\ Continues(t) /\ UNCHANGED heard
  /\ UNCHANGED <<phase, pending, alarms, calls, faults>>

\* A raised drain, wait or rearm: startup fails, any other call ends with the error.
Raises(t) ==
  \/ at[t].back = "startup" /\ FailsStart(t)
  \/ at[t].back \in {"handler", "call"} /\ Ends(t) /\ UNCHANGED <<life, pending>>

DrainCancelledOne(t) ==
  /\ at[t].pc = "drain" /\ Fault
  /\ queue' = Tail(queue) /\ drainer' = NoTask
  /\ done' = [done EXCEPT ![queue[1]] = "failed"]
  /\ Raises(t)
  /\ UNCHANGED <<phase, heard, alarms, calls>>

\* The draining task is cancelled: every queued event fails with its error.
DrainCancelled(t) ==
  /\ at[t].pc = "drain" /\ Fault
  /\ queue' = <<>> /\ drainer' = NoTask
  /\ done' = [e \in DOMAIN done |-> IF done[e] = "waiting" THEN "failed" ELSE done[e]]
  /\ Raises(t)
  /\ UNCHANGED <<phase, heard, alarms, calls>>

\* A waiting emitter hears what became of its event.
Answered(t) ==
  /\ at[t].pc = "await" /\ done[at[t].waits] \in {"delivered", "failed"}
  /\ \/ done[at[t].waits] = "delivered" /\ Continues(t) /\ UNCHANGED pending
     \/ done[at[t].waits] = "failed" /\ Raises(t)
  /\ UNCHANGED <<phase, queue, drainer, heard, done, alarms, calls, faults>>

\* A waiting task is cancelled: only it, since what it waits for is shielded.
WaitCancelled(t) ==
  /\ at[t].pc \in {"await", "join"} /\ Fault
  /\ \/ at[t].pc = "await" /\ Raises(t)
     \/ at[t].pc = "join" /\ Ends(t) /\ UNCHANGED <<life, pending>>
  /\ UNCHANGED <<phase, queue, drainer, heard, done, alarms, calls>>

-----------------------------------------------------------------------------
(***************************************************************************)
(* Jobs and the alarm.                                                     *)
(***************************************************************************)
\* _push_job or _cancel_job of a call of its own, or as the last thing a handler does; an
\* operation that was in flight goes on while the Lifecycle is disposing.
Push(t) ==
  /\ at[t].pc = "handler" /\ ready
  /\ \/ \E time \in Times \ jobs : jobs' = jobs \cup {time}
     \/ \E time \in jobs : jobs' = jobs \ {time}
  /\ AsksRearm(t)
  /\ UNCHANGED <<life, phase, events, alarm, lost, lock, disabled, calls, faults>>

\* The startup that let the handler run has failed in its rearm: _ready_for_jobs starts
\* the activation again, or joins who does.
StartsAgain(t) ==
  /\ at[t].pc = "handler" /\ ~ready /\ phase = "active"
  /\ \/ attempt # NoAttempt /\ Joins(t, at[t].kind)
     \/ attempt = NoAttempt /\ Attempts(t, at[t].kind)
  /\ UNCHANGED <<phase, events, alarms, calls, faults>>

\* _perform_alarm_rearm: under the lock, the deadline is read and written in one step.
Rearm(t) ==
  /\ at[t].pc = "rearm" /\ lock = NoTask /\ lock' = t /\ Goes(t, "rearming")
  /\ alarm' = IF disabled THEN alarm ELSE Deadline(jobs)
  /\ UNCHANGED <<life, phase, events, jobs, rearmAsked, lost, disabled, calls, faults>>

\* The write is confirmed.
Rearmed(t) ==
  /\ at[t].pc = "rearming" /\ lock' = NoTask /\ lost' = FALSE
  /\ rearmAsked' = (rearmAsked /\ at[t].back \notin {"startup", "failure"})
  /\ \/ at[t].back = "startup" /\ Settles("done") /\ UNCHANGED <<ready, starting>> /\ Served(t)
     \/ at[t].back = "failure" /\ Settles("failed") /\ UNCHANGED <<ready, starting>> /\ Ends(t)
     \/ at[t].back \in {"handler", "call"} /\ Continues(t)
  /\ UNCHANGED <<phase, events, jobs, alarm, disabled, calls, faults>>

\* The write fails, or the caller was cancelled meanwhile and hears so only now.
RearmRaises(t) ==
  /\ at[t].pc = "rearming" /\ Fault /\ lock' = NoTask
  /\ lost' \in BOOLEAN
  /\ \/ at[t].back \in {"startup", "handler", "call"} /\ UNCHANGED rearmAsked
        /\ (\/ at[t].back = "startup" /\ FailsStart(t)
            \/ at[t].back # "startup" /\ Ends(t) /\ UNCHANGED <<life, pending>>)
     \/ at[t].back = "failure" /\ Settles("failed") /\ Ends(t)
        /\ UNCHANGED <<ready, starting, pending, rearmAsked>>
  /\ \E value \in {alarm} \cup (IF lost' THEN Times \cup {0} ELSE {}) : alarm' = value
  /\ UNCHANGED <<phase, queue, drainer, heard, done, jobs, disabled, calls>>

\* The capabilities and the host have handled it, or the task is cancelled in them.
Handled(t) ==
  /\ at[t].pc = "handler" /\ Ends(t)
  /\ UNCHANGED <<life, phase, events, alarms, calls, faults>>

-----------------------------------------------------------------------------
(***************************************************************************)
(* Disposal.                                                               *)
(***************************************************************************)
Dispose(t) ==
  /\ at[t].pc = "idle" /\ calls < MaxCalls /\ calls' = calls + 1
  /\ phase # "disposed" /\ phase' = "disposing"
  /\ at' = [at EXCEPT ![t] = [Idle EXCEPT !.kind = "dispose",
             !.pc = IF phase = "active" THEN "disposeWait" ELSE "joinDispose"]]
  /\ UNCHANGED <<life, events, alarms, faults>>

\* Every operation ended, whatever cancelled the wait.  The disposal is given up if the
\* job table cannot be made, else no alarm is armed from now on.
DisposeBegins(t) ==
  /\ at[t].pc = "disposeWait" /\ OperationsIdle
  /\ \/ Fault /\ phase' = "active" /\ UNCHANGED disabled
        /\ at' = [u \in Tasks |-> IF u = t \/ at[u].pc = "joinDispose" THEN Idle ELSE at[u]]
     \/ disabled' = TRUE /\ Goes(t, "disposeHooks") /\ UNCHANGED <<phase, faults>>
  /\ UNCHANGED <<life, events, jobs, alarm, rearmAsked, lost, lock, calls>>

\* An on_dispose hook cancels a job of its capability, which arms nothing.
DisposeCancelsJob(t) ==
  /\ at[t].pc = "disposeHooks" /\ \E time \in jobs : jobs' = jobs \ {time}
  /\ UNCHANGED <<life, phase, events, alarm, rearmAsked, lost, lock, disabled, at, calls, faults>>

\* The hooks have run, in reverse and past those that raise: the alarm is made what
\* the job table says (_rearm_after_disposal), and the disposal is done for all.
Disposes(t) ==
  /\ at[t].pc = "disposeHooks" /\ phase' = "disposed"
  /\ \/ alarm' = Deadline(jobs) /\ lost' = FALSE /\ UNCHANGED faults
     \/ Fault /\ lost' = TRUE /\ UNCHANGED alarm
  /\ at' = [u \in Tasks |-> IF u = t \/ at[u].pc = "joinDispose" THEN Idle ELSE at[u]]
  /\ UNCHANGED <<life, events, jobs, rearmAsked, lock, disabled, calls>>

-----------------------------------------------------------------------------
\* What the event loop resumes, or user code that returns.
Resume(t) ==
  \/ Joined(t) \/ HooksReturn(t) \/ Delivered(t) \/ Answered(t)
  \/ Rearm(t) \/ Rearmed(t) \/ Handled(t) \/ DisposeBegins(t) \/ Disposes(t)

Next ==
  \E t \in Tasks :
    \/ Call(t) \/ Emit(t) \/ Dispose(t)
    \/ Joined(t) \/ HooksReturn(t) \/ HooksRaise(t) \/ HookPushes(t)
    \/ ListenerEmits(t) \/ Delivered(t) \/ DrainCancelled(t)
    \/ Answered(t) \/ WaitCancelled(t)
    \/ Push(t) \/ StartsAgain(t) \/ Rearm(t) \/ Rearmed(t) \/ RearmRaises(t) \/ Handled(t)
    \/ DisposeBegins(t) \/ DisposeCancelsJob(t) \/ Disposes(t)

Spec == Init /\ [][Next]_vars

\* The event loop resumes a task whose await is settled, and user code returns.
Fairness == \A t \in Tasks : WF_vars(Resume(t)) /\ SF_vars(Rearm(t))
FairSpec == Spec /\ Fairness

-----------------------------------------------------------------------------
\* Disposal runs its hooks only when nothing else is under way, and nothing that was
\* admitted is left behind: no task is inside an operation, no event waits and no
\* startup is under way (dispose waits on _operations_idle; _operation).
HooksRunAlone ==
  (\E t \in Tasks : at[t].pc = "disposeHooks") \/ phase = "disposed"
    => OperationsIdle /\ queue = <<>> /\ lock = NoTask /\ ~starting

\* When every call has ended and the last write of the alarm was not lost, the alarm is
\* the next deadline of the job table: whether the job was pushed by a start hook, by
\* a startup that failed, by a handler or cancelled by a disposal (_rearm_alarm).
AlarmFollowsJobs ==
  (\A t \in Tasks : at[t].pc = "idle") /\ ~lost => alarm = Deadline(jobs)

\* A Lifecycle that is left alone is in order: the parts above.
LifecycleInOrder == TypeOK /\ HooksRunAlone /\ AlarmFollowsJobs

\* Listeners hear the events in the order they were emitted, each at most once, over
\* the buffer of a startup, the queue and listeners that emit (_flush_pending_events).
HeardInOrder == [][heard' # heard => heard' > heard]_vars

\* Every call of the Lifecycle returns, with a result or an error: joiners of a startup
\* or of a disposal, emitters whose event another task drains, disposals that wait.
CallsReturn == \A t \in Tasks : at[t].pc # "idle" ~> at[t].pc = "idle"
=============================================================================

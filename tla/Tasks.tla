-------------------------------- MODULE Tasks --------------------------------
(***************************************************************************)
(* Tasks (agents/tasks.py, agents/_task_store.py): replayable task runs.   *)
(* A run is a row of cf_agents_task_runs; the steps its definition has     *)
(* taken are rows of cf_agents_task_steps; one Lifecycle job wakes the     *)
(* object for it.  An attempt claims the row under a new generation, and   *)
(* every later write of the attempt is fenced by that generation.  The     *)
(* module is one run id of a root object: runs share nothing but the alarm *)
(* (LifecycleJobDriver).  A definition is a sequence of phases, each a set *)
(* of steps awaited together (asyncio.gather), so that a step left behind  *)
(* by an attempt that ended goes on as an orphan with its old generation.  *)
(*                                                                         *)
(* Every action runs up to the next suspension.  The suspensions are: the  *)
(* rearm of the alarm, after the job row is written; an event, whose       *)
(* subscribers may suspend; the step's callback; the dispatch budget.      *)
(* Times are counted from now: 0 is due, and Tick takes one off them all.  *)
(***************************************************************************)
EXTENDS Naturals, Sequences

CONSTANTS Steps,         \* step names
          Sleeps,        \* those that are sleeps
          Phases,        \* the definition: a sequence of sets of steps
          Naps,          \* how far ahead a sleep's deadline may be
          Backoff,       \* the delay of a step's retry
          ClaimTimeout,  \* _claim_timeout_ms, and a step's own claim
          MemoryDelay,   \* the breaker's next_time
          RetryLimit,    \* policy.retry_limit
          Retains,       \* the values of retain
          CallbackEnds,  \* how a step's callback may end
          Heavy,         \* the steps that may exhaust the memory
          Redeploys,     \* a restart may come without the definition
          NoRow, NoTime,
          MaxFailures,   \* bound: crashes, platform failures, refused handoffs
          Generations    \* bound: generations in use at once

Open     == {"pending", "waiting", "running"}
Terminal == {"completed", "failed", "cancelled"}
NoGen    == 0
Gens     == 1..Generations
Rows == [state : Open \cup Terminal, gen : {NoGen} \cup Gens, next : Nat \cup {NoTime},
         memory : BOOLEAN, cancel : BOOLEAN, retain : BOOLEAN]

ASSUME TasksAssumption ==
    /\ Sleeps \subseteq Steps /\ Phases \in Seq(SUBSET Steps)
    /\ Steps = UNION {Phases[i] : i \in DOMAIN Phases}
    /\ \A i, k \in DOMAIN Phases : i # k => Phases[i] \cap Phases[k] = {}
    /\ Naps \subseteq Nat /\ {Backoff, ClaimTimeout, MemoryDelay} \subseteq Nat \ {0}
    /\ RetryLimit \in Nat \ {0} /\ Retains \subseteq BOOLEAN /\ Redeploys \in BOOLEAN
    /\ CallbackEnds \subseteq {"ok", "raises", "platform", "oom"}
    /\ Heavy \subseteq Steps
    /\ NoTime \notin Nat /\ NoRow \notin Rows
    /\ {MaxFailures, Generations} \subseteq Nat

VARIABLES row,       \* the run's row, or NoRow
          step,      \* its step rows
          job,       \* the time of its wake job, or NoTime
          touched,   \* the job row was written since its dispatch
          exec,      \* _execution_tasks and _active_runs: the attempt
          branch,    \* the step calls of each generation
          tracked,   \* the attempt was handed over to the alarm's tracked work
          alarm,     \* on_job: "idle", "join", "await", "done" or "raised"
          caller,    \* after cancel's or delete's write: "cancelled" or "deleted"
          up,        \* "ready", "starting" or "down"
          defined,   \* this deployment has the definition
          reset,     \* the breaker is about to abort the object
          spent      \* how many failures there were

durable == <<row, step, job>>
vars    == <<row, step, job, touched, exec, branch, tracked, alarm,
             caller, up, defined, reset, spent>>

NoStep   == [state |-> "none", attempt |-> 0, next |-> NoTime]
NoBranch == [pc |-> "none", attempt |-> 0]
NoExec   == [pc |-> "none", gen |-> NoGen, phase |-> 0]
Spends   == spent < MaxFailures /\ spent' = spent + 1

Init ==
    /\ row = NoRow /\ step = [s \in Steps |-> NoStep] /\ job = NoTime
    /\ touched = FALSE /\ exec = NoExec
    /\ branch = [g \in Gens |-> [s \in Steps |-> NoBranch]]
    /\ tracked = FALSE /\ alarm = "idle"
    /\ caller = "idle"
    /\ up = "ready" /\ defined = TRUE /\ reset = FALSE
    /\ spent = 0

-----------------------------------------------------------------------------
(* The store: each write is fenced in its WHERE clause.                    *)

IsOpen(r)     == r # NoRow /\ r.state \in Open
IsTerminal(r) == r # NoRow /\ r.state \in Terminal

HoldsAnyGeneration(g) ==                                          \* a defect
    row # NoRow /\ row.state \in {"running", "waiting"} /\ ~row.cancel
\* The run is claimed by g and no cancellation was asked for.
Holds(g) == /\ row # NoRow /\ row.state = "running"
            /\ row.gen = g /\ ~row.cancel

Parked(next) ==
    [row EXCEPT !.state = "waiting", !.gen = NoGen, !.next = next, !.memory = FALSE]
Ended(state) == [row EXCEPT !.state = state, !.gen = NoGen, !.next = NoTime]
EndedCancelled == [Ended("cancelled") EXCEPT !.cancel = TRUE]
Backed == [row EXCEPT !.gen = NoGen, !.next = MemoryDelay, !.memory = TRUE]

DeadlineUnlessBacked(r) ==                                        \* a defect
    IF IsOpen(r) /\ ~r.memory THEN r.next ELSE NoTime
\* authoritative_deadline
Deadline(r) == IF IsOpen(r) THEN r.next ELSE NoTime

\* _sync_wake: the job follows the run's deadline; nothing suspends before.
SyncWake == job' = Deadline(row') /\ touched' = (alarm # "idle" \/ tracked)

\* delete_unretained_terminal
DropsUnretained == IsTerminal(row) /\ ~row.retain
Cleaned ==
    IF DropsUnretained THEN row' = NoRow /\ step' = [s \in Steps |-> NoStep]
                       ELSE UNCHANGED <<row, step>>

-----------------------------------------------------------------------------
(* The attempt, and the calls of its steps.                                *)

Live(g)  == exec.pc = "user" /\ exec.gen = g
IsActive == exec.gen # NoGen /\ exec.pc # "oom"      \* _active_runs, not done
Raised   == {"suspended", "superseded", "cancelled", "failed", "platform", "oom"}
Over     == Raised \cup {"done"}
world    == <<caller, up, defined, reset>>

\* A step call is over: its attempt hears of it, if it still listens.
Ends(g, s, why) ==
    branch' = [branch EXCEPT ![g][s] =
                 IF Live(g) THEN [NoBranch EXCEPT !.pc = why] ELSE NoBranch]
Goes(g, s, pc) == branch' = [branch EXCEPT ![g][s].pc = pc]

\* The attempt stops listening: the calls that still run are orphans.
Orphans(g) == branch' = [branch EXCEPT ![g] = [s \in Steps |->
                 IF branch[g][s].pc \in Over THEN NoBranch ELSE branch[g][s]]]

\* The attempt leaves the tables of those under way, and who awaits it hears of it.
Finish(result) ==
    /\ exec' = NoExec /\ tracked' = FALSE
    /\ alarm' = IF alarm = "await" THEN result ELSE alarm
Turns(pc) == exec' = [exec EXCEPT !.pc = pc] /\ UNCHANGED <<tracked, alarm>>

\* settle_cancelled_claim, then _after_cancelled.
SettleCancelled(g) ==
    IF row # NoRow /\ row.state = "running" /\ row.gen = g
    THEN row' = EndedCancelled /\ Turns("settled")
    ELSE row' = row /\ Finish("done")
SettleRequested(g) ==
    IF row # NoRow /\ row.gen = g /\ row.cancel
    THEN SettleCancelled(g) ELSE row' = row /\ Finish("done")

\* gen_id: no two attempts, and no orphan of an earlier one, share a generation.
Unused == {g \in Gens : /\ exec.gen # g /\ row # NoRow => row.gen # g
                        /\ \A s \in Steps : branch[g][s].pc = "none"}

\* _execute_run up to its claim, or to the event before it.
Claims ==
    /\ Unused # {}
    /\ LET g == CHOOSE g \in Unused : TRUE
       IN  /\ row' = [row EXCEPT !.state = "running", !.gen = g, !.memory = FALSE,
                                 !.next = ClaimTimeout]
           /\ exec' = [pc |-> "starting", gen |-> g, phase |-> 0]
    /\ SyncWake /\ UNCHANGED <<tracked, alarm>>

Begin ==
    /\ up = "ready" /\ exec.pc = "new"
    /\ CASE ~IsOpen(row) ->
              row' = row /\ Finish("done") /\ UNCHANGED <<job, touched>>
         [] IsOpen(row) /\ row.cancel ->
              /\ row' = EndedCancelled /\ Turns("settled")
              /\ UNCHANGED <<job, touched>>
         [] IsOpen(row) /\ ~row.cancel /\ row.next > 0 ->
              row' = row /\ Finish("done") /\ UNCHANGED <<job, touched>>
         [] IsOpen(row) /\ ~row.cancel /\ row.next = 0 /\ ~defined ->
              /\ row' = Ended("failed") /\ Turns("settled")
              /\ UNCHANGED <<job, touched>>
         [] IsOpen(row) /\ ~row.cancel /\ row.next = 0 /\ defined ->
              IF row.state = "running"
              THEN Turns("found") /\ UNCHANGED <<row, job, touched>>
              ELSE Claims
    /\ UNCHANGED <<step, branch, world, spent>>

\* After the event that an attempt was interrupted.
ClaimInterrupted ==
    /\ up = "ready" /\ exec.pc = "found"
    /\ IF IsOpen(row) /\ ~row.cancel /\ row.next = 0
       THEN Claims
       ELSE row' = row /\ Finish("done") /\ UNCHANGED <<job, touched>>
    /\ UNCHANGED <<step, branch, world, spent>>

\* After the rearm and the event that it started: the definition is called.
Start ==
    /\ up = "ready" /\ exec.pc = "starting"
    /\ IF Holds(exec.gen)
       THEN /\ exec' = [exec EXCEPT !.pc = "user"]
            /\ UNCHANGED <<row, tracked, alarm>>
       ELSE SettleRequested(exec.gen)
    /\ UNCHANGED <<step, job, touched, branch, world, spent>>

\* The definition awaits the next steps; they begin as tasks of their own.
NextPhase ==
    /\ up = "ready" /\ exec.pc = "user" /\ exec.phase < Len(Phases)
    /\ exec.phase > 0 =>
         \A s \in Phases[exec.phase] : branch[exec.gen][s].pc = "done"
    /\ exec' = [exec EXCEPT !.phase = @ + 1]
    /\ branch' = [branch EXCEPT ![exec.gen] = [s \in Steps |->
                    IF s \in Phases[exec.phase + 1]
                    THEN [NoBranch EXCEPT !.pc = "ready"] ELSE NoBranch]]
    /\ UNCHANGED <<durable, touched, tracked, alarm, world, spent>>

\* The definition returned, or raised an error of its own.
Return(how) ==
    /\ up = "ready" /\ exec.pc = "user" /\ exec.phase = Len(Phases)
    /\ exec.phase > 0 =>
         \A s \in Phases[exec.phase] : branch[exec.gen][s].pc = "done"
    /\ IF Holds(exec.gen)
       THEN row' = Ended(how) /\ Turns("settled")
       ELSE SettleRequested(exec.gen)
    /\ Orphans(exec.gen)
    /\ UNCHANGED <<step, job, touched, world, spent>>

\* The definition raised what one of its steps raised.
Raise(s) ==
    /\ up = "ready" /\ exec.pc = "user" /\ branch[exec.gen][s].pc \in Raised
    /\ CASE branch[exec.gen][s].pc = "suspended" ->
              row' = row /\ Finish("done")
         [] branch[exec.gen][s].pc = "superseded" -> SettleRequested(exec.gen)
         [] branch[exec.gen][s].pc = "cancelled" -> SettleCancelled(exec.gen)
         [] branch[exec.gen][s].pc = "failed" ->
              IF Holds(exec.gen)
              THEN row' = Ended("failed") /\ Turns("settled")
              ELSE SettleRequested(exec.gen)
         [] branch[exec.gen][s].pc = "platform" -> row' = row /\ Finish("raised")
         [] branch[exec.gen][s].pc = "oom" -> row' = row /\ Turns("oom")
    /\ Orphans(exec.gen)
    /\ UNCHANGED <<step, job, touched, world, spent>>

\* A step that failed for good, caught by the definition.
Catch(s) ==
    /\ up = "ready" /\ exec.pc = "user" /\ branch[exec.gen][s].pc = "failed"
    /\ Goes(exec.gen, s, "done")
    /\ UNCHANGED <<durable, touched, exec, tracked, alarm, world, spent>>

\* After the event that the run was settled, and after the rearm behind it.
CleanUp ==
    /\ up = "ready" /\ exec.pc = "settled"
    /\ Cleaned /\ SyncWake /\ Finish("done")
    /\ UNCHANGED <<branch, world, spent>>

-----------------------------------------------------------------------------
(* TaskStep: a step of attempt g is replayed, begun, retried or parked.    *)

\* _ensure_attempt_current
Refusal(g) == IF row = NoRow \/ row.state # "running" \/ row.gen # g
              THEN "superseded" ELSE "cancelled"
Refuse(g, s) == /\ Ends(g, s, Refusal(g))
                /\ UNCHANGED <<row, step, job, touched>>
quiet == <<exec, tracked, alarm, world>>

Record(s, state, attempt, next) ==
    step' = [step EXCEPT ![s] = [state |-> state, attempt |-> attempt, next |-> next]]
Replay(g, s, result) == Ends(g, s, result) /\ UNCHANGED <<row, step, job, touched>>
Park(g, s, next) ==
    row' = Parked(next) /\ SyncWake /\ Ends(g, s, "suspended")

\* _sleep_at: the first deadline is the one that counts.
Sleep(g, s) ==
    \/ /\ step[s].state = "none"
       /\ \E d \in Naps :
            IF d = 0
            THEN /\ Record(s, "completed", 0, NoTime) /\ Ends(g, s, "done")
                 /\ UNCHANGED <<row, job, touched>>
            ELSE Record(s, "waiting", 0, d) /\ Park(g, s, d)
    \/ step[s].state = "completed" /\ Replay(g, s, "done")
    \/ /\ step[s].state = "waiting" /\ step[s].next > 0
       /\ Park(g, s, step[s].next) /\ UNCHANGED step
    \/ /\ step[s].state = "waiting" /\ step[s].next = 0
       /\ Record(s, "completed", 0, NoTime) /\ Ends(g, s, "done")
       /\ UNCHANGED <<row, job, touched>>

\* _do, up to the rearm behind the refreshed claim.
Begins(g, s) ==
    \/ step[s].state = "completed" /\ Replay(g, s, "done")
    \/ step[s].state = "failed" /\ Replay(g, s, "failed")
    \/ /\ step[s].state = "waiting" /\ step[s].next > 0
       /\ Replay(g, s, "suspended")
    \/ /\ \/ step[s].state \in {"none", "running"}
          \/ step[s].state = "waiting" /\ step[s].next = 0
       /\ Record(s, "running", step[s].attempt + 1, NoTime)
       /\ row' = [row EXCEPT !.next = ClaimTimeout] /\ SyncWake
       /\ branch' = [branch EXCEPT ![g][s] = [pc |-> "starting",
                                              attempt |-> step[s].attempt + 1]]

Enter(g, s) ==
    /\ up = "ready" /\ branch[g][s].pc = "ready"
    /\ IF ~Holds(g) THEN Refuse(g, s)
       ELSE IF s \in Sleeps THEN Sleep(g, s) ELSE Begins(g, s)
    /\ UNCHANGED <<quiet, spent>>

\* After the rearm and the events: the callback, unless the claim is gone.
Invoke(g, s) ==
    /\ up = "ready" /\ branch[g][s].pc = "starting"
    /\ IF Holds(g) THEN Goes(g, s, "callback") ELSE Ends(g, s, Refusal(g))
    /\ UNCHANGED <<durable, touched, quiet, spent>>

MayRecordAnyGeneration(g, s) ==                                   \* a defect
    /\ row # NoRow /\ row.state \in Open /\ ~row.cancel
    /\ step[s].state = "running" /\ step[s].attempt = branch[g][s].attempt
\* The fence of complete_step, fail_step and park_step_retry.
MayRecord(g, s) ==
    /\ Holds(g) /\ step[s].state = "running"
    /\ step[s].attempt = branch[g][s].attempt
Succeeds(g, s) ==
    /\ up = "ready" /\ branch[g][s].pc = "callback" /\ "ok" \in CallbackEnds
    /\ IF MayRecord(g, s)
       THEN Record(s, "completed", step[s].attempt, NoTime) /\ Ends(g, s, "done")
       ELSE Ends(g, s, "superseded") /\ UNCHANGED step
    /\ UNCHANGED <<row, job, touched, quiet, spent>>

\* An error or a timeout: retried later, or, if it is not to be retried or was the
\* last time, recorded.
Fails(g, s) ==
    /\ up = "ready" /\ branch[g][s].pc = "callback" /\ "raises" \in CallbackEnds
    /\ \/ /\ ~MayRecord(g, s) /\ Ends(g, s, "superseded")
          /\ UNCHANGED <<row, step, job, touched>>
       \/ /\ MayRecord(g, s) /\ step[s].attempt < RetryLimit
          /\ Record(s, "waiting", step[s].attempt, Backoff) /\ Park(g, s, Backoff)
       \/ /\ MayRecord(g, s)
          /\ Record(s, "failed", step[s].attempt, NoTime) /\ Ends(g, s, "failed")
          /\ UNCHANGED <<row, job, touched>>
    /\ UNCHANGED <<quiet, spent>>

\* A platform failure leaves run and step as they are.
Breaks(g, s, why) ==
    /\ up = "ready" /\ branch[g][s].pc = "callback" /\ Live(g)
    /\ why \in CallbackEnds \cap {"platform", "oom"}
    /\ why = "oom" => s \in Heavy
    /\ Spends /\ Ends(g, s, why)
    /\ UNCHANGED <<durable, touched, quiet>>

\* The signal of the attempt was aborted: cancel() found it active.
Aborted(g, s) ==
    /\ up = "ready" /\ branch[g][s].pc = "callback" /\ Live(g)
    /\ row # NoRow /\ row.gen = g /\ row.cancel
    /\ Ends(g, s, "cancelled")
    /\ UNCHANGED <<durable, touched, quiet, spent>>

-----------------------------------------------------------------------------
(* The callers: run, cancel and delete.                                    *)

others == <<exec, branch, tracked, alarm, up, defined, reset, spent>>

\* _accept
Accept(retain) ==
    /\ up = "ready" /\ row = NoRow /\ defined
    /\ row' = [state |-> "pending", gen |-> NoGen, next |-> 0, memory |-> FALSE,
               cancel |-> FALSE, retain |-> retain]
    /\ SyncWake /\ UNCHANGED <<step, caller, others>>

\* A call that finds the run repairs its wake.
Join ==
    /\ up = "ready" /\ row # NoRow /\ defined
    /\ job' = Deadline(row)
    /\ touched' = (touched \/ (job' # job /\ (alarm # "idle" \/ tracked)))
    /\ UNCHANGED <<row, step, caller, others>>

\* Either call may submit the run afterwards (_submit_run, _run_submitted).
Submit ==
    /\ up = "ready" /\ IsOpen(row) /\ exec.pc = "none"
    /\ exec' = [exec EXCEPT !.pc = "new"]
    /\ UNCHANGED <<durable, touched, branch, tracked, alarm, world, spent>>

\* cancel: an active attempt is asked, a cold claim or parked run is settled.
Cancel ==
    /\ up = "ready" /\ row # NoRow
    /\ CASE IsTerminal(row) ->
              row' = row /\ SyncWake /\ UNCHANGED caller
         [] IsOpen(row) /\ row.gen # NoGen /\ exec.gen = row.gen ->
              /\ row' = [row EXCEPT !.cancel = TRUE, !.next = 0]
              /\ SyncWake /\ UNCHANGED caller
         [] IsOpen(row) /\ (row.gen = NoGen \/ exec.gen # row.gen) ->
              /\ caller = "idle" /\ caller' = "cancelled"
              /\ row' = EndedCancelled /\ UNCHANGED <<job, touched>>
    /\ UNCHANGED <<step, others>>

\* delete: the journal goes, then, after the event, the wake job.
Delete ==
    /\ up = "ready" /\ caller = "idle" /\ IsTerminal(row)
    /\ row' = NoRow /\ step' = [s \in Steps |-> NoStep] /\ caller' = "deleted"
    /\ UNCHANGED <<job, touched, others>>

\* After the event of either.
CallerCleansUp ==
    /\ up = "ready" /\ caller # "idle" /\ caller' = "idle"
    /\ IF caller = "cancelled" THEN Cleaned ELSE UNCHANGED <<row, step>>
    /\ SyncWake /\ UNCHANGED others

---------
(* on_job: the alarm joins the attempt under way or begins one, and hands  *)
(* it over when it outlasts the dispatch budget.                           *)

\* apply_outcome: it yields to whoever wrote the job row meanwhile.
OutcomeNeverDrops(written, next) ==                               \* a defect
    job' = IF written \/ next = NoTime THEN job ELSE next
Outcome(written, next) == job' = IF written THEN job ELSE next

\* It waits for the attempt, and begins one if there is none; work already
\* handed over is left to itself.
Dispatches(written) ==
    IF tracked
    THEN Outcome(written, Deadline(row)) /\ alarm' = "idle" /\ UNCHANGED exec
    ELSE /\ exec' = IF exec.pc = "none" THEN [exec EXCEPT !.pc = "new"] ELSE exec
         /\ alarm' = "await" /\ UNCHANGED job

\* The claim of an attempt under way is extended first (extend_active_claim),
\* and its rearm suspends.
AlarmFires ==
    /\ up = "ready" /\ alarm = "idle" /\ job = 0
    /\ IF IsActive /\ row # NoRow /\ row.state = "running" /\ row.gen = exec.gen
       THEN /\ row' = [row EXCEPT !.next = ClaimTimeout] /\ job' = row'.next
            /\ touched' = TRUE /\ alarm' = "join" /\ UNCHANGED exec
       ELSE Dispatches(FALSE) /\ touched' = FALSE /\ UNCHANGED row
    /\ UNCHANGED <<step, branch, tracked, world, spent>>

AlarmJoins ==
    /\ up = "ready" /\ alarm = "join"
    /\ Dispatches(touched)
    /\ UNCHANGED <<row, step, touched, branch, tracked, world, spent>>

\* The attempt it awaited is over; a platform failure leaves the job row.
AlarmReturns ==
    /\ up = "ready" /\ alarm \in {"done", "raised"} /\ alarm' = "idle"
    /\ IF alarm = "done" THEN Outcome(touched, Deadline(row)) ELSE UNCHANGED job
    /\ touched' = (tracked /\ touched)
    /\ UNCHANGED <<row, step, exec, branch, tracked, world, spent>>

AlarmHandsOff ==
    /\ up = "ready" /\ alarm = "await" /\ exec.pc \notin {"new", "oom"}
    /\ Outcome(touched, IF Deadline(row) = NoTime THEN ClaimTimeout ELSE Deadline(row))
    /\ tracked' = TRUE /\ alarm' = "idle"
    /\ UNCHANGED <<row, step, touched, exec, branch, world, spent>>

\* The handoff is refused: the attempt's task is cancelled with its steps.
HandoffRefused ==
    /\ up = "ready" /\ alarm = "await" /\ exec.pc \notin {"new", "oom"}
    /\ Spends
    /\ exec' = NoExec /\ alarm' = "idle"
    /\ branch' = IF exec.pc = "user"
                 THEN [branch EXCEPT ![exec.gen] = [s \in Steps |-> NoBranch]] ELSE branch
    /\ UNCHANGED <<durable, touched, tracked, world>>

\* The breaker's effect on the job it dispatched (LifecycleJobDriver), then
\* on_memory_limit; an attempt the policy doesn't recognise is left alone.
MemoryLimit(sealed) ==
    /\ up = "ready" /\ exec.pc = "oom" /\ (tracked \/ alarm = "await") /\ ~reset
    /\ alarm' = IF tracked THEN alarm ELSE "idle"
    /\ tracked' = FALSE /\ reset' = TRUE
    /\ LET known  == IsOpen(row) /\ row.gen = exec.gen
           driven == IF touched THEN job ELSE IF sealed THEN NoTime ELSE MemoryDelay
       IN  IF ~known
           THEN job' = driven /\ UNCHANGED <<row, touched, exec>>
           ELSE IF row.cancel \/ sealed
           THEN /\ row' = IF row.cancel THEN EndedCancelled ELSE Ended("failed")
                /\ exec' = [exec EXCEPT !.pc = "settled"]
                /\ job' = driven /\ UNCHANGED touched
           ELSE row' = Backed /\ SyncWake /\ exec' = NoExec
    /\ UNCHANGED <<step, branch, caller, up, defined, spent>>

-----------------------------------------------------------------------------
(* Evictions and startup.                                                  *)

Forget ==
    /\ up' = "down" /\ exec' = NoExec /\ tracked' = FALSE /\ alarm' = "idle"
    /\ branch' = [g \in Gens |-> [s \in Steps |-> NoBranch]]
    /\ caller' = "idle" /\ reset' = FALSE
    /\ touched' = FALSE
    /\ UNCHANGED <<durable, defined>>
Crash == up # "down" /\ Spends /\ Forget
Reset == reset /\ Forget /\ UNCHANGED spent

\* on_start: what an attempt left running, and isn't delayed, is due at once.
Reconcile ==
    /\ up = "down" /\ up' = "starting"
    /\ defined' \in IF Redeploys THEN {defined, FALSE} ELSE {defined}
    /\ row' = IF row # NoRow /\ row.state = "running"
                 /\ (row.gen # NoGen \/ ~row.memory)
              THEN [row EXCEPT !.next = 0] ELSE row
    /\ UNCHANGED <<step, job, touched, exec, branch, tracked, alarm, caller,
                   reset, spent>>

\* Unretained runs that had ended are deleted with their job, and every other
\* job follows its run (_sync_all_wakes).
Repair ==
    /\ up = "starting" /\ up' = "ready"
    /\ Cleaned
    /\ job' = IF DropsUnretained THEN NoTime
              ELSE IF IsOpen(row) THEN row.next ELSE job
    /\ UNCHANGED <<touched, exec, branch, tracked, alarm, caller, defined,
                   reset, spent>>

Later(t) == IF t \in Nat \ {0} THEN t - 1 ELSE t
Tick ==
    /\ row' = IF row = NoRow THEN row ELSE [row EXCEPT !.next = Later(@)]
    /\ step' = [s \in Steps |-> [step[s] EXCEPT !.next = Later(@)]]
    /\ job' = Later(job)
    /\ UNCHANGED <<touched, exec, branch, tracked, alarm, world, spent>>

-----------------------------------------------------------------------------
Attempt ==
    \/ Begin \/ ClaimInterrupted \/ Start \/ NextPhase
    \/ \E how \in {"completed", "failed"} : Return(how)
    \/ \E s \in Steps : Raise(s) \/ Catch(s)
    \/ CleanUp
StepCall(g, s) == Enter(g, s) \/ Invoke(g, s)
Callback(g, s) ==
    \/ Succeeds(g, s) \/ Fails(g, s) \/ Aborted(g, s)
    \/ \E why \in {"platform", "oom"} : Breaks(g, s, why)
Alarm   == AlarmFires \/ AlarmJoins \/ AlarmReturns
Breaker == \E sealed \in BOOLEAN : MemoryLimit(sealed)
Client == \/ \E retain \in Retains : Accept(retain)
          \/ Join \/ Submit \/ Cancel \/ Delete

Next ==
    \/ Attempt \/ Alarm \/ Client \/ CallerCleansUp
    \/ \E g \in Gens, s \in Steps : StepCall(g, s) \/ Callback(g, s)
    \/ AlarmHandsOff \/ HandoffRefused \/ Breaker
    \/ Crash \/ Reset \/ Reconcile \/ Repair \/ Tick

Spec == Init /\ [][Next]_vars

\* The event loop runs what is ready, time passes, the armed alarm fires, a
\* callback ends or is timed out, and the breaker aborts the object.
Fairness ==
    /\ WF_vars(Attempt) /\ WF_vars(Alarm) /\ WF_vars(Breaker)
    /\ WF_vars(CallerCleansUp) /\ WF_vars(Tick)
    /\ \A g \in Gens, s \in Steps : WF_vars(StepCall(g, s)) /\ WF_vars(Callback(g, s))
    /\ WF_vars(Reset) /\ WF_vars(Reconcile \/ Repair)
FairSpec == Spec /\ Fairness

-----------------------------------------------------------------------------
BranchPcs == {"none", "ready", "starting", "callback"} \cup Over

(* Every variable has its type, and a row is coherent: only a running run  *)
(* is claimed, an unclaimed running run is one the breaker delayed, and     *)
(* exactly the settled runs have no deadline, exactly the parked steps one. *)
RowOK(r) == /\ r.gen # NoGen => r.state = "running"
            /\ r.state = "running" /\ r.gen = NoGen => r.memory
            /\ IsTerminal(r) <=> r.next = NoTime
TypeOK ==
    /\ row # NoRow => RowOK(row)
    /\ row \in {NoRow} \cup Rows
    /\ step \in [Steps -> [state : {"none", "running", "waiting", "completed", "failed"},
                            attempt : Nat, next : Nat \cup {NoTime}]]
    /\ \A s \in Steps : step[s].state = "waiting" <=> step[s].next # NoTime
    /\ job \in Nat \cup {NoTime} /\ touched \in BOOLEAN
    /\ exec \in [pc : {"none", "new", "found", "starting", "user", "settled",
                        "oom"},
                  gen : {NoGen} \cup Gens, phase : 0..Len(Phases)]
    /\ branch \in [Gens -> [Steps -> [pc : BranchPcs, attempt : Nat]]]
    /\ tracked \in BOOLEAN /\ alarm \in {"idle", "join", "await", "done", "raised"}
    /\ caller \in {"idle", "cancelled", "deleted"}
    /\ up \in {"ready", "starting", "down"} /\ {defined, reset} \subseteq BOOLEAN
    /\ spent \in 0..MaxFailures

(* A run that isn't settled has its wake job whatever step the object stops *)
(* at, and while it is up the job is due no later than the run (_sync_wake, *)
(* on_job's outcome, on_start).                                             *)
OpenRunsAreWoken ==
    IsOpen(row) => /\ job # NoTime
                   /\ up = "ready" => job <= row.next

(* A callback is never invoked, nor a step begun, for a run that was        *)
(* cancelled, settled or claimed again, nor for a step that has a result    *)
(* (_ensure_attempt_current, restart_step).                                 *)
CallbacksRunUnderClaim ==
    [][\A g \in Gens, s \in Steps :
         branch[g][s].pc # "callback" /\ branch'[g][s].pc = "callback"
           => Holds(g) /\ step[s].state = "running"]_vars

(* A run's journal is kept: see TaskJournal.                                *)
Journal == INSTANCE TaskJournal WITH
    life    <- IF row = NoRow THEN "none"
               ELSE IF IsTerminal(row) THEN row.state
               ELSE IF row.cancel THEN "cancelling" ELSE "open",
    claimed <- row # NoRow /\ row.gen # NoGen,
    results <- [s \in Steps |-> IF step[s].state \in {"completed", "failed"}
                                THEN step[s].state ELSE "none"]
ImplementsJournal == Journal!Spec

(* An accepted run is settled, through crashes, platform failures, refused  *)
(* handoffs and memory limits, as long as they end (_execute_run, on_job,   *)
(* on_start, _apply_memory_policy).                                         *)
RunsSettle == IsOpen(row) ~> ~IsOpen(row)

(* No wake of a settled run fires for ever (on_job's outcome, _sync_wake).  *)
SettledRunsSleep == ~IsOpen(row) ~> (job = NoTime \/ IsOpen(row))

(* The wakes of the two kinds of runs: the parts above.                     *)
RunsAreWoken    == TypeOK /\ OpenRunsAreWoken
WakesFollowRuns == RunsSettle /\ SettledRunsSleep
=============================================================================

------------------------------- MODULE Fiber -------------------------------
(***************************************************************************)
(* FiberCapability (agents/lifecycle/fiber.py): durable fibers.  A fiber   *)
(* started with an id has a row in cf_agents_fibers (the ledger); every    *)
(* fiber whose callback runs has a row in cf_agents_runs.  What is left in *)
(* either table when no task of this incarnation owns it is an             *)
(* interrupted fiber, which a scan hands to the recovery hook.  One        *)
(* maintenance job, a Lifecycle job, wakes the object for that scan.       *)
(*                                                                         *)
(* asyncio switches tasks only where a coroutine really suspends, so       *)
(* "turn" names the task that has not suspended since its last step, and   *)
(* no other task moves before it does.  The suspensions are: the lock of   *)
(* the leases, when another task holds it; setAlarm, after the job row is  *)
(* written; the callback; the recovery hook; and the retained task, which  *)
(* starts on a later turn of the loop.                                     *)
(***************************************************************************)
EXTENDS Naturals, Sequences, FiniteSets, SequencesExt

CONSTANTS ManagedIds,    \* ids given to start_fiber
          PlainIds,      \* ids that run_fiber generates, each used once
          Runners,       \* one per call of start_fiber or run_fiber
          NoRunner,      \* none of them
          Waiters,       \* one per start_fiber(wait_for_completion) that finds a row
          Canceller,     \* the task of cancel_fiber
          Scanner,       \* the task of the recovery scan
          Free,          \* nobody is between two suspensions
          Kinds,         \* the calls the clients make
          Refusals,      \* what may go wrong while an alarm is armed
          HookEnds,      \* how the recovery hook may end
          Restarts,      \* an id may be started again after its row is deleted
          DeferStartup,  \* _defer_startup_recovery_to_alarm
          MaxCrashes     \* bound: how often the object is evicted

Ids      == ManagedIds \cup PlainIds
Ended    == {"completed", "aborted", "error"}
Terminal == Ended \cup {"interrupted"}
Open     == {"pending", "running"}
Statuses == {"none"} \cup Open \cup Terminal

ASSUME FiberAssumption ==
    /\ ManagedIds \cap PlainIds = {} /\ Ids # {}
    /\ {NoRunner, Canceller, Scanner, Free} \cap Runners = {} /\ IsFiniteSet(Runners) /\ IsFiniteSet(Waiters)
    /\ Kinds \subseteq {"detached", "waited", "plain", "cancel", "delete", "resolve"}
    /\ Refusals \subseteq {"alarm_fails", "caller_cancelled", "interrupted"}
    /\ HookEnds \subseteq Terminal \cup {"nothing", "raises", "platform"}
    /\ DeferStartup \in BOOLEAN /\ Restarts \in BOOLEAN /\ MaxCrashes \in Nat

VARIABLES ledger,    \* cf_agents_fibers: the status of each id, or "none"
          rows,      \* cf_agents_runs
          job,       \* the maintenance job is in the job table
          touched,   \* its row was written since it was last dispatched
          fired,     \* what the dispatch under way makes of the job
          active,    \* _fiber_active_ids
          aborts,    \* _managed_abort: the runner that owns the id's signal
          pending,   \* _pending_detached_leases: the runner whose lease it is
          leases,    \* _active_lease_generations, one per runner
          queue,     \* _lease_acquisition_lock: its holder, then who waits
          run,       \* the calls
          scan,      \* the recovery scan
          waiter,    \* the futures of _managed_terminal_waiters
          cancel,    \* the cancel_fiber call
          turn,      \* see above
          up,        \* "ready", "starting" or "down"
          returned,  \* history: ids whose callback came back by itself
          crashes

tables == <<ledger, rows>>
memory == <<active, aborts, pending, leases, queue>>
others == <<fired, scan, waiter, cancel, up, returned, crashes>>
vars   == <<ledger, rows, job, touched, fired, active, aborts, pending, leases,
            queue, run, scan, waiter, cancel, turn, up, returned, crashes>>

NoRun  == [kind |-> "detached", id |-> CHOOSE i \in Ids : TRUE, pc |-> "idle",
           ran |-> FALSE, aborted |-> FALSE]
NoScan == [pc |-> "idle", by |-> "job", left |-> {}, id |-> NoRun.id,
           was |-> "none", seen |-> [i \in Ids |-> "none"]]
NoCancel == [pc |-> "idle", id |-> NoRun.id, lease |-> NoRunner]

Init ==
    /\ ledger = [i \in Ids |-> "none"] /\ rows = {}
    /\ job = FALSE /\ touched = FALSE /\ fired = "no"
    /\ active = {} /\ leases = {} /\ queue = <<>>
    /\ aborts = [i \in Ids |-> NoRunner] /\ pending = [i \in Ids |-> NoRunner]
    /\ run = [r \in Runners |-> NoRun]
    /\ scan = NoScan /\ cancel = NoCancel
    /\ waiter = [w \in Waiters |-> [pc |-> "idle", id |-> NoRun.id]]
    /\ turn = Free /\ up = "ready" /\ returned = {} /\ crashes = 0

-----------------------------------------------------------------------------
(* Who may move, the lock, and the maintenance job.                        *)

Turn(t)    == up = "ready" /\ turn \in {Free, t}
HasLock(t) == queue # <<>> /\ Head(queue) = t
\* A task that queues for a free lock goes on without suspending.
Enqueue(t) == /\ queue' = Append(queue, t)
              /\ turn' = IF queue = <<>> THEN t ELSE Free

\* Runs nobody owns, and ledger rows that have no run row, whoever owns them.
HasPendingRecovery(l, rs, a) ==
    \/ rs \ a # {}
    \/ \E i \in Ids : l[i] \in Open /\ i \notin rs

\* The job row after _synchronize_maintenance_intent.
Wanted(ls, l, rs, a) == ls # {} \/ HasPendingRecovery(l, rs, a)

NotifiedUnlessAborted(ids, l) ==                                  \* a defect
    [w \in Waiters |-> IF /\ waiter[w].pc = "waiting" /\ waiter[w].id \in ids
                          /\ l[waiter[w].id] \notin Open \cup {"aborted"}
                       THEN [waiter[w] EXCEPT !.pc = "done"] ELSE waiter[w]]
\* Resolves the futures of an id once its row is settled or gone.
Notified(ids, l) ==
    [w \in Waiters |-> IF /\ waiter[w].pc = "waiting"
                          /\ waiter[w].id \in ids
                          /\ l[waiter[w].id] \notin Open
                       THEN [waiter[w] EXCEPT !.pc = "done"]
                       ELSE waiter[w]]

Goes(r, pc) == run' = [run EXCEPT ![r].pc = pc]

-----------------------------------------------------------------------------
(* start_fiber: the row, the claim in memory, the lease, then the retained *)
(* task.  A call that finds a row changes nothing; see Wait.               *)

Unused(i) == \A s \in Runners : run[s].id # i \/ run[s].pc = "idle"

StartDetached(r, i) ==
    /\ "detached" \in Kinds /\ Turn(r) /\ turn = Free
    /\ run[r].pc = "idle" /\ i \in ManagedIds /\ ledger[i] = "none"
    /\ Restarts \/ Unused(i)
    /\ ledger' = [ledger EXCEPT ![i] = "pending"]
    /\ active' = active \cup {i}
    /\ run' = [run EXCEPT ![r] = [NoRun EXCEPT !.id = i, !.pc = "lease"]]
    /\ returned' = returned \ {i}
    /\ Enqueue(r)
    /\ UNCHANGED <<rows, job, touched, aborts, pending, leases,
                   fired, scan, waiter, cancel, up, crashes>>

\* _acquire_keep_alive: the first lease writes the job and waits for setAlarm.
TakeLease(r, from, arming, got) ==
    /\ Turn(r) /\ run[r].pc = from /\ HasLock(r)
    /\ leases' = leases \cup {r}
    /\ IF leases = {}
       THEN /\ job' = TRUE /\ touched' = TRUE
            /\ Goes(r, arming) /\ turn' = Free
            /\ UNCHANGED queue
       ELSE /\ queue' = Tail(queue)
            /\ Goes(r, got) /\ turn' = IF got = "running" THEN Free ELSE r
            /\ UNCHANGED <<job, touched>>
    /\ UNCHANGED <<tables, active, aborts, pending, others>>

AlarmArmed(r, arming, got) ==
    /\ Turn(r) /\ run[r].pc = arming
    /\ queue' = Tail(queue)
    /\ Goes(r, got) /\ turn' = IF got = "running" THEN Free ELSE r
    /\ UNCHANGED <<tables, job, touched, active, aborts, pending, leases, others>>

\* setAlarm failed: the lease is given back under the lock ...
AlarmFails(r, arming, failed) ==
    /\ "alarm_fails" \in Refusals
    /\ Turn(r) /\ run[r].pc = arming
    /\ leases' = leases \ {r}
    /\ job' = Wanted(leases', ledger, rows, active) /\ touched' = TRUE
    /\ Goes(r, failed)
    /\ UNCHANGED <<tables, active, aborts, pending, queue, turn, others>>

\* ... and start_fiber takes the row back, unless it is no longer pending.
LeaseUndone(r) ==
    LET i == run[r].id IN
    /\ Turn(r) /\ run[r].pc = "leaseFailed"
    /\ queue' = Tail(queue) /\ active' = active \ {i}
    /\ ledger' = IF ledger[i] = "pending" THEN [ledger EXCEPT ![i] = "none"]
                                          ELSE ledger
    /\ job' = Wanted(leases, ledger', rows, active') /\ touched' = TRUE
    /\ Goes(r, "done") /\ turn' = Free
    /\ UNCHANGED <<rows, aborts, pending, leases, others>>

\* The caller's task is cancelled: the row stays, for the scan to recover.
CallerCancelled(r) ==
    /\ "caller_cancelled" \in Refusals
    /\ Turn(r) /\ turn = Free
    /\ run[r].pc \in {"lease", "leaseArm", "arm", "arming"}
    /\ leases' = leases \ {r} /\ active' = active \ {run[r].id}
    /\ \E k \in DOMAIN queue : queue[k] = r /\ queue' = RemoveAt(queue, k)
    /\ job' = Wanted(leases', ledger, rows, active') /\ touched' = TRUE
    /\ aborts' = IF run[r].kind = "waited" THEN [aborts EXCEPT ![run[r].id] = NoRunner]
                                           ELSE aborts
    /\ Goes(r, "done")
    /\ UNCHANGED <<tables, pending, turn, others>>

\* The row is read again after the wait: a cancel may have settled it.
Accept(r) ==
    LET i == run[r].id IN
    /\ Turn(r) /\ run[r].pc = "leased"
    /\ IF ledger[i] = "pending"
       THEN /\ pending' = [pending EXCEPT ![i] = r]
            /\ Goes(r, "spawned") /\ turn' = Free
            /\ UNCHANGED <<active, queue>>
       ELSE /\ pending' = [pending EXCEPT ![i] = NoRunner]
            /\ active' = active \ {i}
            /\ Goes(r, "release") /\ Enqueue(r)
    /\ UNCHANGED <<tables, job, touched, aborts, leases, others>>

\* _execute_managed_fiber, once the retained task gets the loop.
Enter(r) ==
    LET i == run[r].id IN
    /\ Turn(r) /\ turn = Free /\ run[r].pc = "spawned"
    /\ pending' = [pending EXCEPT ![i] = NoRunner]
    /\ IF ledger[i] = "pending" /\ i \notin rows
       THEN /\ ledger' = [ledger EXCEPT ![i] = "running"]
            /\ aborts' = [aborts EXCEPT ![i] = r]
            /\ rows' = rows \cup {i} /\ active' = active \cup {i}
            /\ run' = [run EXCEPT ![r].pc = "running", ![r].ran = TRUE]
            /\ UNCHANGED <<queue, turn, waiter>>
       ELSE \* settled meanwhile, or the run row of an earlier fiber is in the way
            /\ ledger' = IF ledger[i] = "pending"
                         THEN [ledger EXCEPT ![i] = "error"] ELSE ledger
            /\ waiter' = Notified({i}, ledger')
            /\ active' = active \ {i}
            /\ aborts' = IF ledger[i] = "pending"
                         THEN [aborts EXCEPT ![i] = NoRunner] ELSE aborts
            /\ Goes(r, "release") /\ Enqueue(r)
            /\ UNCHANGED rows
    /\ UNCHANGED <<job, touched, fired, leases, scan, cancel, up, returned, crashes>>

\* start_fiber(wait_for_completion): the caller's own task runs the fiber, and
\* takes its lease after the run row is written.
StartWaited(r, i) ==
    /\ "waited" \in Kinds /\ Turn(r) /\ turn = Free
    /\ run[r].pc = "idle" /\ i \in ManagedIds /\ ledger[i] = "none"
    /\ Restarts \/ Unused(i)
    /\ IF i \in rows
       THEN /\ ledger' = [ledger EXCEPT ![i] = "error"]
            /\ aborts' = [aborts EXCEPT ![i] = NoRunner]
            /\ run' = [run EXCEPT ![r] = [NoRun EXCEPT !.kind = "waited",
                                                       !.id = i, !.pc = "done"]]
            /\ UNCHANGED <<rows, active, queue, turn>>
       ELSE /\ ledger' = [ledger EXCEPT ![i] = "running"]
            /\ aborts' = [aborts EXCEPT ![i] = r]
            /\ rows' = rows \cup {i} /\ active' = active \cup {i}
            /\ run' = [run EXCEPT ![r] = [kind |-> "waited", id |-> i, pc |-> "arm",
                                          ran |-> TRUE, aborted |-> FALSE]]
            /\ Enqueue(r)
    /\ returned' = returned \ {i}
    /\ UNCHANGED <<job, touched, pending, leases,
                   fired, scan, waiter, cancel, up, crashes>>

\* run_fiber: no ledger row, only the run row.
StartPlain(r, i) ==
    /\ "plain" \in Kinds /\ Turn(r) /\ turn = Free
    /\ run[r].pc = "idle" /\ i \in PlainIds /\ Unused(i)
    /\ rows' = rows \cup {i} /\ active' = active \cup {i}
    /\ run' = [run EXCEPT ![r] = [kind |-> "plain", id |-> i, pc |-> "arm",
                                  ran |-> TRUE, aborted |-> FALSE]]
    /\ Enqueue(r)
    /\ UNCHANGED <<ledger, job, touched, aborts, pending, leases, others>>

\* The first lease of a waited or plain run failed to arm: the run never began.
ArmUndone(r) ==
    LET i == run[r].id IN
    /\ Turn(r) /\ run[r].pc = "armFailed"
    /\ queue' = Tail(queue) /\ active' = active \ {i} /\ rows' = rows \ {i}
    /\ ledger' = IF ledger[i] = "running"
                 THEN [ledger EXCEPT ![i] = IF run[r].aborted THEN "aborted" ELSE "error"]
                 ELSE ledger
    /\ waiter' = Notified({i}, ledger')
    /\ aborts' = [aborts EXCEPT ![i] = NoRunner]
    /\ Goes(r, "done") /\ turn' = Free
    /\ UNCHANGED <<job, touched, fired, pending, leases, scan, cancel, up, returned, crashes>>

-----------------------------------------------------------------------------
(* The end of a run.                                                       *)

SettledAnyway(i, outcome, aborted) ==                             \* a defect
    [ledger EXCEPT ![i] = IF outcome = "completed" THEN "completed"
                          ELSE IF aborted THEN "aborted" ELSE "error"]
\* _settle_managed_fiber_execution: a row that is no longer running stays.
Settled(i, outcome, aborted) ==
    IF ledger[i] = "running"
    THEN [ledger EXCEPT ![i] = IF outcome = "completed" THEN "completed"
                               ELSE IF aborted THEN "aborted" ELSE "error"]
    ELSE ledger

\* The callback returned or raised: the ledger, then the run row, then the lease.
Returns(r, outcome) ==
    LET i == run[r].id IN
    /\ Turn(r) /\ turn = Free /\ run[r].pc = "running"
    /\ ledger' = IF run[r].kind = "plain" THEN ledger
                 ELSE Settled(i, outcome, run[r].aborted)
    /\ waiter' = Notified({i}, ledger')
    /\ rows' = rows \ {i} /\ active' = active \ {i}
    /\ returned' = returned \cup {i}
    /\ Goes(r, "release") /\ Enqueue(r)
    /\ UNCHANGED <<job, touched, fired, aborts, pending, leases, scan, cancel, up, crashes>>

\* Cancelled or hit by a platform failure: the run row stays for the scan.
Interrupted(r) ==
    /\ "interrupted" \in Refusals
    /\ Turn(r) /\ turn = Free /\ run[r].pc = "running"
    /\ active' = active \ {run[r].id}
    /\ Goes(r, "release") /\ Enqueue(r)
    /\ UNCHANGED <<tables, job, touched, aborts, pending, leases, others>>

\* What the callers of _release_keep_alive clear behind it, by id: the signal,
\* then (the retained task only) the claim and the pending lease.
Wrapper(r) ==
    LET i == run[r].id
        detached == run[r].kind = "detached" /\ run[r].ran
    IN
    /\ aborts'  = IF run[r].ran THEN [aborts EXCEPT ![i] = NoRunner] ELSE aborts
    /\ pending' = IF detached THEN [pending EXCEPT ![i] = NoRunner] ELSE pending
    /\ active'  = IF detached THEN active \ {i} ELSE active
    /\ Goes(r, "done")

Release(r) ==
    /\ Turn(r) /\ run[r].pc = "release" /\ HasLock(r)
    /\ leases' = leases \ {r} /\ turn' = Free
    /\ IF r \in leases /\ leases' = {}
       THEN /\ job' = Wanted({}, ledger, rows, active) /\ touched' = TRUE
            /\ Goes(r, "releasing")
            /\ UNCHANGED <<active, aborts, pending, queue>>
       ELSE /\ queue' = Tail(queue) /\ Wrapper(r)
            /\ UNCHANGED <<job, touched>>
    /\ UNCHANGED <<tables, others>>

Released(r) ==
    /\ Turn(r) /\ turn = Free /\ run[r].pc = "releasing"
    /\ queue' = Tail(queue) /\ Wrapper(r)
    /\ UNCHANGED <<tables, job, touched, leases, turn, others>>

-----------------------------------------------------------------------------
(* The recovery scan, _scan_run_fibers.  It is one task, and a second scan  *)
(* gives up while one is under way.  It lists the run rows once, then the   *)
(* ledger rows without one, and runs the recovery hook between rows.        *)

BeginScan(by) ==
    /\ scan' = [NoScan EXCEPT !.pc = "rows", !.by = by, !.left = rows]
    /\ turn' = Scanner

Scans(pc) == turn = Scanner /\ up # "down" /\ scan.pc = pc

Marked(i) == IF ledger[i] \in Open THEN [ledger EXCEPT ![i] = "interrupted"] ELSE ledger

\* Whose row a scan passes over, and whose run row it only deletes.
OwnedIfManaged(i) == i \in active /\ ledger[i] # "none"            \* a defect
Owned(i)  == i \in active
OverIfEnded(i) == ledger[i] \in Ended                             \* a defect
Over(i)   == ledger[i] \in Terminal

\* _recover_orphan_run_rows: the list is old, the status is read again.
ScanRow(i) ==
    LET rest == [scan EXCEPT !.left = @ \ {i}] IN
    /\ Scans("rows") /\ i \in scan.left
    /\ \/ /\ Owned(i)
          /\ scan' = rest
          /\ UNCHANGED <<ledger, rows, waiter, turn>>
       \/ /\ ~Owned(i) /\ Over(i)
          /\ rows' = rows \ {i} /\ waiter' = Notified({i}, ledger)
          /\ scan' = rest
          /\ UNCHANGED <<ledger, turn>>
       \/ /\ ~Owned(i) /\ ~Over(i)
          /\ ledger' = Marked(i)
          /\ scan' = [rest EXCEPT !.pc = "hook", !.id = i, !.was = ledger[i]]
          /\ turn' = Free
          /\ UNCHANGED <<rows, waiter>>
    /\ UNCHANGED <<job, touched, fired, memory, run, cancel, up, returned, crashes>>

LedgerOnly == {i \in Ids : ledger[i] \in Open /\ i \notin rows}

ListLedger ==
    /\ Scans("rows") /\ scan.left = {}
    /\ scan' = [scan EXCEPT !.pc = "ledger", !.left = LedgerOnly, !.seen = ledger]
    /\ UNCHANGED <<tables, job, touched, fired, memory, run, waiter, cancel,
                   turn, up, returned, crashes>>

\* _recover_ledger_only_rows: the hook runs on the row as it was listed.
ScanLedgerRow(i) ==
    LET rest == [scan EXCEPT !.left = @ \ {i}] IN
    /\ Scans("ledger") /\ i \in scan.left
    /\ \/ /\ Owned(i)
          /\ scan' = rest
          /\ UNCHANGED <<ledger, turn>>
       \/ /\ ~Owned(i)
          /\ ledger' = Marked(i)
          /\ scan' = [rest EXCEPT !.pc = "ledgerHook", !.id = i, !.was = scan.seen[i]]
          /\ turn' = Free
    /\ UNCHANGED <<rows, job, touched, fired, memory, run, waiter, cancel, up,
                   returned, crashes>>

InHook  == up # "down" /\ turn = Free /\ scan.pc \in {"hook", "ledgerHook"}
Managed == scan.was # "none"

\* A recovery result, from resolve_fiber or the hook: interrupted rows only.
Resolved(i, s) == IF ledger[i] = "interrupted" THEN [ledger EXCEPT ![i] = s] ELSE ledger

\* The status for what the hook answered; "raises" stands for any other answer.
HookStatus(end) == IF end = "raises" THEN "error" ELSE end

\* The hook answers, or raises: the run row of a fiber without a ledger row
\* then stays for another scan, until it is too old.  Past its deadline the
\* scan takes no further row.
HookReturns(end, old, late) ==
    LET i == scan.id IN
    /\ InHook /\ end # "platform"
    /\ ledger' = IF ~Managed \/ end = "nothing" THEN ledger
                 ELSE Resolved(i, HookStatus(end))
    /\ rows' = IF scan.pc = "hook" /\ (Managed \/ end # "raises" \/ old)
               THEN rows \ {i} ELSE rows
    /\ waiter' = IF Managed THEN Notified({i}, ledger') ELSE waiter
    /\ scan' = IF late THEN [scan EXCEPT !.pc = "ledger", !.left = {}]
               ELSE [scan EXCEPT !.pc = IF @ = "hook" THEN "rows" ELSE "ledger"]
    /\ turn' = Scanner
    /\ UNCHANGED <<job, touched, fired, memory, run, cancel, up, returned, crashes>>

\* A platform failure in the hook: the row is put back as it was, and whoever
\* asked for the scan fails.  The job stays for the next alarm.
HookFails ==
    LET i == scan.id IN
    /\ InHook /\ "platform" \in HookEnds
    /\ ledger' = IF scan.was \in Open THEN Resolved(i, scan.was) ELSE ledger
    /\ scan' = NoScan
    /\ fired' = IF scan.by = "job" THEN "no" ELSE fired
    /\ up' = IF scan.by = "start" THEN "down" ELSE up
    /\ waiter' = [w \in Waiters |-> IF scan.by = w THEN [waiter[w] EXCEPT !.pc = "done"]
                                                   ELSE waiter[w]]
    /\ UNCHANGED <<rows, job, touched, memory, run, cancel, turn, returned, crashes>>

ScanEnds ==
    /\ Scans("ledger") /\ scan.left = {}
    /\ scan' = NoScan /\ turn' = Free
    /\ CASE scan.by = "job" ->
              /\ fired' = IF Wanted(leases, ledger, rows, active) THEN "keep" ELSE "drop"
              /\ UNCHANGED <<job, touched, waiter, up>>
         [] scan.by = "start" ->
              /\ job' = Wanted(leases, ledger, rows, active) /\ touched' = TRUE
              /\ up' = "ready"
              /\ UNCHANGED <<fired, waiter>>
         [] OTHER ->
              /\ waiter' = [waiter EXCEPT ![scan.by].pc =
                              IF ledger[waiter[scan.by].id] \in Open THEN "waiting" ELSE "done"]
              /\ UNCHANGED <<job, touched, fired, up>>
    /\ UNCHANGED <<tables, memory, run, cancel, returned, crashes>>

\* The alarm dispatches the job: on_job scans, unless a scan is under way.
JobFires ==
    /\ up = "ready" /\ turn = Free /\ job /\ fired = "no"
    /\ touched' = FALSE
    /\ IF scan.pc = "idle"
       THEN fired' = "scanning" /\ BeginScan("job")
       ELSE /\ fired' = IF Wanted(leases, ledger, rows, active) THEN "keep" ELSE "drop"
            /\ UNCHANGED <<scan, turn>>
    /\ UNCHANGED <<tables, job, memory, run, waiter, cancel, up, returned, crashes>>

JobOutcomeOfAnyRow ==                                             \* a defect
    /\ up = "ready" /\ turn = Free /\ fired \in {"keep", "drop"}
    /\ job' = (fired = "keep") /\ fired' = "no"
    /\ UNCHANGED <<tables, touched, memory, run, scan, waiter, cancel, turn, up,
                   returned, crashes>>
JobOutcomeNeverDrops ==                                           \* a defect
    /\ up = "ready" /\ turn = Free /\ fired \in {"keep", "drop"}
    /\ job' = IF touched THEN job ELSE TRUE
    /\ fired' = "no"
    /\ UNCHANGED <<tables, touched, memory, run, scan, waiter, cancel, turn, up,
                   returned, crashes>>
\* Its outcome, which the driver applies only to the row it dispatched.
JobOutcome ==
    /\ up = "ready" /\ turn = Free /\ fired \in {"keep", "drop"}
    /\ job' = IF touched THEN job ELSE fired = "keep"
    /\ fired' = "no"
    /\ UNCHANGED <<tables, touched, memory, run, scan, waiter, cancel, turn, up,
                   returned, crashes>>

-----------------------------------------------------------------------------
(* cancel_fiber, resolve_fiber, delete_fibers, and waiting for a fiber.    *)

CancelFiber(i) ==
    /\ "cancel" \in Kinds /\ Turn(Canceller) /\ turn = Free
    /\ cancel.pc = "idle" /\ i \in ManagedIds /\ ledger[i] \in Open
    /\ ledger' = [ledger EXCEPT ![i] = "aborted"]
    /\ run' = [r \in Runners |-> [run[r] EXCEPT !.aborted = @ \/ aborts[i] = r]]
    /\ pending' = [pending EXCEPT ![i] = NoRunner]
    /\ IF pending[i] = NoRunner
       THEN /\ waiter' = Notified({i}, ledger')
            /\ UNCHANGED <<active, queue, cancel, turn>>
       ELSE /\ active' = active \ {i}
            /\ cancel' = [pc |-> "release", id |-> i, lease |-> pending[i]]
            /\ Enqueue(Canceller) /\ UNCHANGED waiter
    /\ UNCHANGED <<rows, job, touched, fired, aborts, leases, scan, up, returned, crashes>>

\* The lease of a fiber cancelled before it ran, given back by the canceller.
CancelReleases ==
    /\ Turn(Canceller) /\ HasLock(Canceller)
    /\ turn' = Free
    /\ \/ /\ cancel.pc = "release" /\ cancel.lease \in leases
          /\ leases' = leases \ {cancel.lease}
          /\ leases' = {}
          /\ job' = Wanted({}, ledger, rows, active) /\ touched' = TRUE
          /\ cancel' = [cancel EXCEPT !.pc = "releasing"]
          /\ UNCHANGED <<queue, waiter>>
       \/ /\ \/ cancel.pc = "releasing"
             \/ cancel.pc = "release" /\ leases # {cancel.lease}
          /\ leases' = leases \ {cancel.lease}
          /\ queue' = Tail(queue) /\ cancel' = NoCancel
          /\ waiter' = Notified({cancel.id}, ledger)
          /\ UNCHANGED <<job, touched>>
    /\ UNCHANGED <<tables, fired, active, aborts, pending, run, scan, up, returned, crashes>>

ResolveFiber(i, s) ==
    /\ "resolve" \in Kinds /\ turn = Free /\ up = "ready"
    /\ i \in ManagedIds /\ ledger[i] = "interrupted"
    /\ ledger' = Resolved(i, s) /\ waiter' = Notified({i}, ledger')
    /\ UNCHANGED <<rows, job, touched, fired, memory, run, scan, cancel, turn, up, returned, crashes>>

DeleteFiber(i) ==
    /\ "delete" \in Kinds /\ turn = Free /\ up = "ready"
    /\ i \in ManagedIds /\ ledger[i] \in Terminal
    /\ ledger' = [ledger EXCEPT ![i] = "none"]
    /\ UNCHANGED <<rows, job, touched, memory, run, turn, others>>

\* _wait_for_managed_fiber: a row nobody runs is scanned for first, and the
\* call is refused while a scan is under way.
Wait(w, i) ==
    /\ turn = Free /\ up = "ready"
    /\ waiter[w].pc = "idle" /\ i \in ManagedIds /\ ledger[i] \in Open
    /\ LET goes(pc) == waiter' = [waiter EXCEPT ![w] = [pc |-> pc, id |-> i]] IN
       \/ /\ aborts[i] # NoRunner /\ goes("waiting")
          /\ UNCHANGED <<scan, turn>>
       \/ /\ aborts[i] = NoRunner /\ scan.pc # "idle" /\ goes("done")
          /\ UNCHANGED <<scan, turn>>
       \/ /\ aborts[i] = NoRunner /\ scan.pc = "idle" /\ goes("scanning")
          /\ BeginScan(w)
    /\ UNCHANGED <<tables, job, touched, fired, memory, run, cancel, up, returned, crashes>>

-----------------------------------------------------------------------------
(* Eviction, between two turns of the loop, and the next activation.       *)

Crash ==
    /\ up # "down" /\ turn = Free /\ crashes < MaxCrashes
    /\ up' = "down" /\ crashes' = crashes + 1
    /\ active' = {} /\ leases' = {} /\ queue' = <<>>
    /\ aborts' = [i \in Ids |-> NoRunner] /\ pending' = [i \in Ids |-> NoRunner]
    /\ run' = [r \in Runners |-> IF run[r].pc \in {"idle", "done"} THEN run[r]
                                 ELSE [run[r] EXCEPT !.pc = "lost"]]
    /\ waiter' = [w \in Waiters |-> IF waiter[w].pc = "idle" THEN waiter[w]
                                    ELSE [waiter[w] EXCEPT !.pc = "done"]]
    /\ scan' = NoScan /\ cancel' = NoCancel /\ fired' = "no"
    /\ UNCHANGED <<tables, job, touched, turn, returned>>

\* _reconcile_activation: the job is brought in line with the tables, then
\* scanned at once or left to the alarm.
Restart ==
    /\ up = "down"
    /\ touched' = TRUE
    /\ IF DeferStartup
       THEN /\ job' = (job \/ HasPendingRecovery(ledger, rows, active))
            /\ up' = "ready" /\ UNCHANGED <<scan, turn>>
       ELSE /\ job' = Wanted(leases, ledger, rows, active)
            /\ up' = "starting" /\ BeginScan("start")
    /\ UNCHANGED <<tables, memory, fired, run, waiter, cancel, returned, crashes>>

-----------------------------------------------------------------------------
RunnerStep(r) ==
    \/ TakeLease(r, "lease", "leaseArm", "leased")
    \/ TakeLease(r, "arm", "arming", "running")
    \/ AlarmArmed(r, "leaseArm", "leased") \/ AlarmArmed(r, "arming", "running")
    \/ LeaseUndone(r) \/ ArmUndone(r) \/ Accept(r) \/ Enter(r)
    \/ \E o \in {"completed", "error"} : Returns(r, o)
    \/ Release(r) \/ Released(r)

RunnerFails(r) ==
    \/ AlarmFails(r, "leaseArm", "leaseFailed") \/ AlarmFails(r, "arming", "armFailed")
    \/ CallerCancelled(r) \/ Interrupted(r)

ScanStep ==
    \/ \E i \in Ids : ScanRow(i) \/ ScanLedgerRow(i)
    \/ ListLedger \/ ScanEnds
    \/ \E end \in HookEnds, old \in BOOLEAN, late \in BOOLEAN : HookReturns(end, old, late)

Next ==
    \/ \E r \in Runners : \/ RunnerStep(r) \/ RunnerFails(r)
                          \/ \E i \in Ids : \/ StartDetached(r, i)
                                            \/ StartWaited(r, i)
                                            \/ StartPlain(r, i)
    \/ \E i \in ManagedIds : \/ CancelFiber(i) \/ DeleteFiber(i)
                             \/ \E s \in Terminal : ResolveFiber(i, s)
                             \/ \E w \in Waiters : Wait(w, i)
    \/ CancelReleases \/ ScanStep \/ HookFails \/ JobFires \/ JobOutcome
    \/ Crash \/ Restart

Spec == Init /\ [][Next]_vars

\* asyncio serves ready tasks in the order they became ready, the platform
\* answers setAlarm, the callbacks and the hook end, and an armed alarm fires
\* and wakes an evicted object.
Fairness ==
    /\ \A r \in Runners : SF_vars(RunnerStep(r))
    /\ SF_vars(ScanStep) /\ SF_vars(CancelReleases)
    /\ SF_vars(JobFires) /\ SF_vars(JobOutcome)
    /\ WF_vars(job /\ Restart)

FairSpec == Spec /\ Fairness

-----------------------------------------------------------------------------
(* Correctness.                                                            *)

RunPcs == {"idle", "lease", "leaseArm", "leased", "leaseFailed", "spawned", "arm",
           "arming", "armFailed", "running", "release", "releasing", "done", "lost"}

\* The phases in which a call may hold a claim, and those in which a lease.
Claiming == RunPcs \ {"idle", "done", "lost"}
Leasing  == {"leaseArm", "leased", "spawned", "arming", "running", "release"}

\* Type invariant: the tables, the sets in memory and the tasks.
TypeOK ==
    /\ ledger \in [Ids -> Statuses] /\ rows \subseteq Ids
    /\ run \in [Runners -> [kind : {"detached", "waited", "plain"}, id : Ids,
                            pc : RunPcs, ran : BOOLEAN, aborted : BOOLEAN]]
    /\ scan \in [pc : {"idle", "rows", "hook", "ledger", "ledgerHook"},
                 by : {"job", "start"} \cup Waiters, left : SUBSET Ids, id : Ids,
                 was : Statuses, seen : [Ids -> Statuses]]
    /\ job \in BOOLEAN /\ touched \in BOOLEAN
    /\ fired \in {"no", "scanning", "keep", "drop"}
    /\ active \subseteq Ids /\ leases \subseteq Runners
    /\ aborts \in [Ids -> Runners \cup {NoRunner}]
    /\ pending \in [Ids -> Runners \cup {NoRunner}]
    /\ queue \in Seq(Runners \cup {Canceller})
    /\ waiter \in [Waiters -> [pc : {"idle", "scanning", "waiting", "done"}, id : Ids]]
    /\ cancel \in [pc : {"idle", "release", "releasing"}, id : Ids,
                   lease : Runners \cup {NoRunner}]
    /\ turn \in Runners \cup {Canceller, Scanner, Free}
    /\ up \in {"ready", "starting", "down"} /\ returned \subseteq Ids
    /\ crashes \in 0..MaxCrashes

\* A run whose callback is under way, or whose start_fiber was answered, has the
\* maintenance job behind it: should the object be evicted now, an alarm wakes
\* it and the scan finds what the tables hold of the fiber.  The outcome of an
\* overlapping dispatch or the last release of another fiber must not drop it.
StartedIsRecoverable ==
    \A r \in Runners :
        /\ run[r].pc \in {"spawned", "running"}
        /\ ledger[run[r].id] \in Open \/ run[r].id \in rows
        => job

\* Nothing in memory outlives its task: an id claimed by nobody would never be
\* recovered in this activation, and a lease held by nobody would keep the
\* object awake for good.
ClaimsAreOwned ==
    /\ \A i \in active : \E r \in Runners : run[r].id = i /\ run[r].pc \in Claiming
    /\ \A r \in leases : run[r].pc \in Leasing
    /\ \A i \in Ids : pending[i] # NoRunner => pending[i] \in leases

\* The callback of a fiber does not run while its recovery hook does.
RunsOrRecovers ==
    scan.pc \in {"hook", "ledgerHook"} =>
        \A r \in Runners : ~(run[r].id = scan.id /\ run[r].pc = "running")

\* A fiber that began has its callback or its recovery, one of them at a time, and
\* whatever memory holds of it has an owner: the parts above.
FibersAreOwned == TypeOK /\ StartedIsRecoverable /\ ClaimsAreOwned /\ RunsOrRecovers

\* keep_alive: while any lease is held, whoever holds it, the job that keeps the
\* object awake stays armed, whatever an overlapping dispatch decided before.
LeasesKeepJob == leases # {} => job

\* The ledger keeps its promise: see FiberLedger.
Ledger == INSTANCE FiberLedger
ImplementsLedger == Ledger!Spec

\* The scan hands i to the recovery hook.
Handing(i) == /\ scan.pc \notin {"hook", "ledgerHook"}
              /\ scan'.pc \in {"hook", "ledgerHook"} /\ scan'.id = i

\* start_fiber or run_fiber works on i in this activation, and i is not settled.
Live(i) ==
    /\ ledger[i] \in Open \/ i \in PlainIds
    /\ \E r \in Runners :
        run[r].id = i /\ run[r].pc \in {"lease", "leaseArm", "leased", "spawned",
                                        "arm", "arming", "running"}

\* A scan leaves alone a fiber that is about to start or running here.
LiveFiberLeftAlone == [][\A i \in Ids : Handing(i) => ~Live(i)]_vars

\* A managed fiber's run row is handed to the hook only while its ledger row, which
\* the scan reads again before each hook, is open and its callback has not come back.
RunRowWasInterrupted ==
    [][\A i \in ManagedIds : Handing(i) /\ scan.pc = "rows" /\ ledger[i] # "none" =>
                              i \notin returned /\ ledger[i] \in Open]_vars

\* The scan takes up what was interrupted, and nothing else: the two parts above.
ScanTakesInterrupted == LiveFiberLeftAlone /\ RunRowWasInterrupted

\* A fiber whose start was answered is settled in the end, by its callback or,
\* after an interruption or an eviction, by the scan.
AcceptedIsSettled ==
    \A r \in Runners :
        (run[r].pc \in {"spawned", "running"} /\ ledger[run[r].id] \in Open)
            ~> ledger[run[r].id] \notin Open

\* A caller that waits for a fiber is answered.
WaitersAreAnswered ==
    \A w \in Waiters : waiter[w].pc = "waiting" ~> waiter[w].pc = "done"

\* With nothing running and nothing to recover, the job goes: the object is not
\* woken for ever.
QuietObjectSleeps ==
    [](leases = {} /\ ~HasPendingRecovery(ledger, rows, active) /\ up = "ready"
        => <>(~job \/ leases # {} \/ HasPendingRecovery(ledger, rows, active)
                  \/ up # "ready"))

\* Accepted fibers come to an end, and then so do the alarms.
FibersSettle == AcceptedIsSettled /\ QuietObjectSleeps
=============================================================================

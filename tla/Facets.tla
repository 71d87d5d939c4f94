------------------------------- MODULE Facets -------------------------------
(***************************************************************************)
(* The sub-agents of a root Agent (src/agents/core/agent.py, facets.py):   *)
(* spawning a child, deleting it with the jobs the root keeps for it,      *)
(* retrying deletions at startup, work a child routes to the root and the  *)
(* alarm's work routed to a child.                                         *)
(*                                                                         *)
(* A Facet is a child's key (class and name).  A Task is a call of the     *)
(* root under way; its stack of frames says where it is.  Steps run from   *)
(* one await to the next.  The lock of a facet's _FacetOperationGate is    *)
(* the queue of the tasks that hold it (its head) or wait for it.          *)
(*                                                                         *)
(* Kept over a crash: the registry, the recorded deletions, the job table  *)
(* and what the runtime stores of the children.                            *)
(***************************************************************************)
EXTENDS Naturals, Sequences, FiniteSets, SequencesExt

CONSTANTS Facets,      \* keys of children
          Tasks,       \* calls of the root that may be under way at once
          MaxJobs,     \* bound: jobs the children route to the root
          MaxCalls,    \* bound: calls made
          MaxCrashes,  \* bound: evictions of the root
          MaxFaults    \* bound: deletions, cleanups, bootstraps and start hooks that raise

\* The children a root has are listed one after another at its startup.
FacetsAssumption == IsFiniteSet(Facets)

VARIABLES
  up, starter, \* the root's activation: "cold", "starting", "ready"; who starts it
  rows,        \* cf_agents_sub_agents
  dels,        \* cf_agents_facet_cleanup
  jobs,        \* the root's jobs that belong to children, by id
  child,       \* what the runtime has of a child: "none", "stored", "started"
  gate,        \* __facet_operation_gates
  active,      \* __active_facet_deletions
  at,          \* the stack of each task, its innermost frame first
  ids, calls, crashes, faults

tables == <<rows, dels, jobs, child>>
bounds == <<ids, calls, crashes, faults>>
vars == <<up, starter, tables, gate, active, at, bounds>>

NoTask == "none"

\* A frame: where it is, the call it belongs to, the facet, whether the child was
\* registered before, the job ids a cleanup still has to cancel, and the facets a
\* startup still has to retry.
Frame(place, why, f) ==
  [pc |-> place, why |-> why, f |-> f, existed |-> FALSE, todo |-> {}, list |-> <<>>]

Init ==
  /\ up = "cold" /\ starter = NoTask
  /\ rows = {} /\ dels = {} /\ jobs = <<>> /\ child = [f \in Facets |-> "none"]
  /\ gate = [f \in Facets |-> <<>>] /\ active = {} /\ at = [t \in Tasks |-> <<>>]
  /\ ids = 0 /\ calls = 0 /\ crashes = 0 /\ faults = 0

-----------------------------------------------------------------------------
Fault == faults < MaxFaults /\ faults' = faults + 1
Busy(t) == at[t] # <<>>
Top(t) == at[t][1]
In(t, place) == Busy(t) /\ Top(t).pc = place

Becomes(t, stack) == at' = [at EXCEPT ![t] = stack]
Moves(t, frame) == at' = [at EXCEPT ![t][1] = frame]
Pops(t) == at' = [at EXCEPT ![t] = Tail(@)]
Leaves(f) == gate' = [gate EXCEPT ![f] = Tail(@)]

JobsOf(f, k) == {id \in DOMAIN jobs : jobs[id].facet = f /\ jobs[id].kind = k}

\* A cleanup of a deletion holds the gate; one of a stale route does not.
Cleaning(t) == Busy(t) /\ Top(t).pc \in {"schedules", "tasks"}
Gated(t) == Top(t).why # "stale"

\* _ready_for_jobs and _ensure_initialized: the call needs a started root, unless its
\* task is the one that starts it.
NeedsRoot(t) ==
  /\ Busy(t) /\ starter # t
  /\ Top(t).pc = "init" \/ (Cleaning(t) /\ Top(t).todo # {})

-----------------------------------------------------------------------------
(***************************************************************************)
(* Under the gate: what the task does in the step in which it gets the     *)
(* lock, when `queue` is the queue of the gate and `rest` the frames under *)
(* this one.                                                               *)
(***************************************************************************)
\* _resolve_sub_agent: the row is recorded before the bootstrap, so that an interruption
\* cannot leave a child without one.
Bootstraps(t, f, why, rest) ==
  /\ rows' = rows \cup {f}
  /\ child' = [child EXCEPT ![f] = IF @ = "none" THEN "stored" ELSE @]
  /\ Becomes(t, <<[Frame("boot", why, f) EXCEPT !.existed = (f \in rows)]>> \o rest)

Resolves(t, f, why, rest, queue) ==
  /\ why \in {"spawn", "alarm"} /\ f \notin dels
  /\ Bootstraps(t, f, why, rest) /\ gate' = [gate EXCEPT ![f] = queue]
  /\ UNCHANGED <<dels, jobs, active, ids, faults>>

\* _cf_route_lifecycle: work of a child for the root, refused without its row.
Routed(t, f, why, rest, queue) ==
  /\ why = "route" /\ Becomes(t, rest) /\ gate' = [gate EXCEPT ![f] = Tail(queue)]
  /\ \/ /\ f \in rows /\ ids < MaxJobs /\ ids' = ids + 1
        /\ \E k \in {"schedule", "task"} :
             jobs' = [id \in DOMAIN jobs \cup {ids'} |->
                        IF id = ids' THEN [facet |-> f, kind |-> k, gone |-> FALSE]
                        ELSE jobs[id]]
     \/ (f \notin rows \/ ids = MaxJobs) /\ UNCHANGED <<jobs, ids>>
  /\ UNCHANGED <<rows, dels, child, active, faults>>

\* A deletion is recorded first when it is a new one; a retry's is recorded already, and
\* a spawn completes the one it finds.
ToDelete(f, why) == why \in {"delete", "retry"} \/ (why # "route" /\ f \in dels)
Recorded(f, why) == IF why = "delete" THEN dels \cup {f} ELSE dels

\* The runtime destroys the child's storage, the row goes, and its jobs are read.  A job
\* is `gone` when a recorded deletion destroyed its child.
Deletes(t, f, why, rest, queue) ==
  /\ ToDelete(f, why) /\ dels' = Recorded(f, why)
  /\ active' = active \cup {f} /\ rows' = rows \ {f}
  /\ child' = [child EXCEPT ![f] = "none"]
  /\ jobs' = [id \in DOMAIN jobs |->
                IF jobs[id].facet = f /\ f \in dels' THEN [jobs[id] EXCEPT !.gone = TRUE]
                ELSE jobs[id]]
  /\ Becomes(t, <<[Frame("schedules", why, f) EXCEPT !.todo = JobsOf(f, "schedule")]>>
                  \o rest)
  /\ gate' = [gate EXCEPT ![f] = queue]
  /\ UNCHANGED <<ids, faults>>

\* The runtime refuses: the child and its row stay, and the deletion stays recorded.
DeleteFails(t, f, why, rest, queue) ==
  /\ ToDelete(f, why) /\ Fault /\ dels' = Recorded(f, why)
  /\ Becomes(t, rest) /\ gate' = [gate EXCEPT ![f] = Tail(queue)]
  /\ UNCHANGED <<rows, jobs, child, active, ids>>

Acts(t, f, why, rest, queue) ==
  \/ Resolves(t, f, why, rest, queue) \/ Routed(t, f, why, rest, queue)
  \/ Deletes(t, f, why, rest, queue)

ActsOrFails(t, f, why, rest, queue) ==
  Acts(t, f, why, rest, queue) \/ DeleteFails(t, f, why, rest, queue)

\* A free lock is taken at once; otherwise the task waits its turn...
Locks(t, f, why, rest) ==
  \/ gate[f] = <<>> /\ ActsOrFails(t, f, why, rest, <<t>>)
  \/ /\ gate[f] # <<>> /\ gate' = [gate EXCEPT ![f] = Append(@, t)]
     /\ Becomes(t, <<Frame("lock", why, f)>> \o rest)
     /\ UNCHANGED <<tables, active, ids, faults>>

\* ...and runs some time after it was woken.  The lock is not reentrant: a task whose
\* outer frame holds it is not woken.
HoldsBelow(t, f) ==
  \E i \in 2..Len(at[t]) : at[t][i].f = f /\ at[t][i].pc \in {"schedules", "tasks"}

Woken(t) ==
  /\ In(t, "lock") /\ gate[Top(t).f] # <<>> /\ Head(gate[Top(t).f]) = t
  /\ ~HoldsBelow(t, Top(t).f)
  /\ ActsOrFails(t, Top(t).f, Top(t).why, Tail(at[t]), gate[Top(t).f])
  /\ UNCHANGED <<up, starter, calls, crashes>>

\* _cf_init_as_facet in the child: its own storage and its own startup.
ChildStarts(t) ==
  /\ In(t, "boot") /\ child' = [child EXCEPT ![Top(t).f] = "started"]
  /\ Moves(t, [Top(t) EXCEPT !.pc = "booted"])
  /\ UNCHANGED <<up, starter, rows, dels, jobs, gate, active, bounds>>

\* The stub is returned; a routed alarm is handled by the child.
Spawned(t) ==
  /\ In(t, "booted") /\ Pops(t) /\ Leaves(Top(t).f)
  /\ UNCHANGED <<up, starter, tables, active, bounds>>

\* A first bootstrap that raises takes its row back.
BootFails(t) ==
  /\ In(t, "boot") /\ Fault /\ Pops(t) /\ Leaves(Top(t).f)
  /\ rows' = IF Top(t).existed THEN rows ELSE rows \ {Top(t).f}
  /\ UNCHANGED <<up, starter, dels, jobs, child, active, ids, calls, crashes>>

-----------------------------------------------------------------------------
(***************************************************************************)
(* Calls.                                                                  *)
(***************************************************************************)
\* sub_agent, or a request or relay on its way to the child: the root need not be
\* started.
Spawn(t) ==
  /\ ~Busy(t) /\ calls < MaxCalls /\ calls' = calls + 1
  /\ \E f \in Facets : Locks(t, f, "spawn", <<>>)
  /\ UNCHANGED <<up, starter, crashes>>

\* delete_sub_agent; a job that a started child routes to the root; an alarm of the
\* root with a job of a child: each starts the root first.
Asks(t) ==
  /\ ~Busy(t) /\ calls < MaxCalls /\ calls' = calls + 1
  /\ \E f \in Facets, why \in {"delete", "route", "alarm"} :
       /\ why = "route" => child[f] = "started" /\ ids < MaxJobs
       /\ why = "alarm" => \E id \in DOMAIN jobs : jobs[id].facet = f
       /\ Becomes(t, <<Frame("init", why, f)>>)
  /\ UNCHANGED <<up, starter, tables, gate, active, ids, crashes, faults>>

\* The root is started: the call goes on to the gate.
Admitted(t) ==
  /\ In(t, "init") /\ up = "ready"
  /\ Top(t).why = "alarm" => Top(t).f \in rows
  /\ Locks(t, Top(t).f, Top(t).why, <<>>)
  /\ UNCHANGED <<up, starter, calls, crashes>>

\* An alarm whose child has no row any more is a stale route, whose jobs are cleaned up
\* outside the gate (_route_lifecycle_transport).
StaleRoute(t) ==
  /\ In(t, "init") /\ up = "ready" /\ Top(t).why = "alarm" /\ Top(t).f \notin rows
  /\ Moves(t, [Top(t) EXCEPT !.pc = "schedules", !.why = "stale",
                             !.todo = JobsOf(Top(t).f, "schedule")])
  /\ UNCHANGED <<up, starter, tables, gate, active, bounds>>

-----------------------------------------------------------------------------
(***************************************************************************)
(* Startup (_lifecycle_host_start).                                        *)
(***************************************************************************)
\* The first that needs the root starts it; what it was doing goes on afterwards.
StartsRoot(t) ==
  /\ NeedsRoot(t) /\ up = "cold" /\ up' = "starting" /\ starter' = t
  /\ Becomes(t, <<Frame("hooks", "start", Top(t).f)>> \o at[t])
  /\ UNCHANGED <<tables, gate, active, bounds>>

NeverSkips(f) == FALSE
\* _retry_pending_facet_deletions passes over the deletions under way and completes the
\* others, one after another; what they raise is reported.
Skips(f) == f \in active

Retries(t, list, below) ==
  LET rest(i) == <<[Frame("retry", "start", Top(t).f) EXCEPT
                      !.list = SubSeq(list, i + 1, Len(list))]>> \o below
  IN \/ /\ \A i \in DOMAIN list : Skips(list[i])
        /\ Becomes(t, rest(Len(list))) /\ UNCHANGED <<tables, gate, active, ids, faults>>
     \/ \E i \in DOMAIN list :
          /\ ~Skips(list[i]) /\ \A k \in 1..(i - 1) : Skips(list[k])
          /\ Locks(t, list[i], "retry", rest(i))

\* It reads the recorded deletions once, after the capabilities have started.
RetryBegins(t) ==
  /\ In(t, "hooks") /\ Retries(t, SetToSeq(dels), Tail(at[t]))
  /\ UNCHANGED <<up, starter, calls, crashes>>

RetryNext(t) ==
  /\ In(t, "retry") /\ Top(t).list # <<>> /\ Retries(t, Top(t).list, Tail(at[t]))
  /\ UNCHANGED <<up, starter, calls, crashes>>

\* The host's on_start returns: the root is ready and everyone who waited goes on.
RootStarts(t) ==
  /\ In(t, "retry") /\ Top(t).list = <<>>
  /\ up' = "ready" /\ starter' = NoTask /\ Pops(t)
  /\ UNCHANGED <<tables, gate, active, bounds>>

\* It raises: whoever joined the attempt gets the error, and gives up its cleanup.
RootFails(t) ==
  /\ In(t, "retry") /\ Top(t).list = <<>> /\ Fault
  /\ up' = "cold" /\ starter' = NoTask
  /\ LET failed == {t} \cup {u \in Tasks : NeedsRoot(u)}
         held == {f \in Facets : gate[f] # <<>> /\ Head(gate[f]) \in failed}
     IN /\ at' = [u \in Tasks |-> IF u \in failed THEN <<>> ELSE at[u]]
        /\ gate' = [f \in Facets |-> IF f \in held THEN Tail(gate[f]) ELSE gate[f]]
        /\ active' = active \ held
  /\ UNCHANGED <<tables, ids, calls, crashes>>

-----------------------------------------------------------------------------
(***************************************************************************)
(* _cleanup_facet_prefix: the schedules, then the tasks, read and then     *)
(* cancelled one by one.                                                   *)
(***************************************************************************)
Cancels(t) ==
  /\ Cleaning(t) /\ (starter = t \/ up = "ready")
  /\ \E id \in Top(t).todo :
       /\ jobs' = [i \in DOMAIN jobs \ {id} |-> jobs[i]]
       /\ Moves(t, [Top(t) EXCEPT !.todo = @ \ {id}])
  /\ UNCHANGED <<up, starter, rows, dels, child, gate, active, bounds>>

SchedulesCleaned(t) ==
  /\ In(t, "schedules") /\ Top(t).todo = {}
  /\ Moves(t, [Top(t) EXCEPT !.pc = "tasks", !.todo = JobsOf(Top(t).f, "task")])
  /\ UNCHANGED <<up, starter, tables, gate, active, bounds>>

\* The deletion is done and no longer recorded; a spawn that completed it goes on.
Cleaned(t) ==
  LET f == Top(t).f IN
  /\ In(t, "tasks") /\ Top(t).todo = {}
  /\ \/ ~Gated(t) /\ Pops(t) /\ UNCHANGED <<dels, active, gate, rows, child>>
     \/ /\ Gated(t) /\ dels' = dels \ {f} /\ active' = active \ {f}
        /\ \/ /\ Top(t).why \in {"spawn", "alarm"} /\ UNCHANGED gate
              /\ Bootstraps(t, f, Top(t).why, Tail(at[t]))
           \/ /\ Top(t).why \in {"delete", "retry"} /\ Pops(t) /\ Leaves(f)
              /\ UNCHANGED <<rows, child>>
  /\ UNCHANGED <<up, starter, jobs, bounds>>

CleanupFinally(t) ==
  /\ Cleaning(t) /\ Fault /\ Pops(t)
  /\ \/ Gated(t) /\ Leaves(Top(t).f) /\ active' = active \ {Top(t).f}
     \/ ~Gated(t) /\ UNCHANGED <<gate, active>>
  /\ dels' = dels \ {Top(t).f}
  /\ UNCHANGED <<up, starter, rows, jobs, child, ids, calls, crashes>>

\* A cancellation or a read raises: the deletion stays recorded.
CleanupFails(t) ==
  /\ Cleaning(t) /\ Fault /\ Pops(t)
  /\ \/ Gated(t) /\ Leaves(Top(t).f) /\ active' = active \ {Top(t).f}
     \/ ~Gated(t) /\ UNCHANGED <<gate, active>>
  /\ UNCHANGED <<up, starter, tables, ids, calls, crashes>>

\* The root is evicted: every call is lost, what is stored stays.
Crash ==
  /\ crashes < MaxCrashes /\ crashes' = crashes + 1
  /\ up' = "cold" /\ starter' = NoTask /\ active' = {}
  /\ gate' = [f \in Facets |-> <<>>] /\ at' = [t \in Tasks |-> <<>>]
  /\ UNCHANGED <<tables, ids, calls, faults>>

-----------------------------------------------------------------------------
\* What a task does next when nothing raises.
Proceeds(t) ==
  \/ Admitted(t) \/ StaleRoute(t) \/ StartsRoot(t) \/ RetryBegins(t) \/ RetryNext(t)
  \/ RootStarts(t) \/ Woken(t) \/ ChildStarts(t) \/ Spawned(t)
  \/ Cancels(t) \/ SchedulesCleaned(t) \/ Cleaned(t)

Next ==
  \/ \E t \in Tasks :
       \/ Spawn(t) \/ Asks(t) \/ Admitted(t) \/ StaleRoute(t)
       \/ StartsRoot(t) \/ RetryBegins(t) \/ RetryNext(t) \/ RootStarts(t) \/ RootFails(t)
       \/ Woken(t) \/ ChildStarts(t) \/ Spawned(t) \/ BootFails(t)
       \/ Cancels(t) \/ SchedulesCleaned(t) \/ Cleaned(t) \/ CleanupFails(t)
  \/ Crash

Spec == Init /\ [][Next]_vars

\* Every await of a call is answered: the runtime, storage and a child's bootstrap, and
\* a lock is handed to whoever waited longest.
Fairness == \A t \in Tasks : WF_vars(Proceeds(t))
FairSpec == Spec /\ Fairness

-----------------------------------------------------------------------------
\* A job whose child was destroyed by a deletion stays no longer than that deletion is
\* recorded: whatever fails or crashes in between, the cleanup can be taken up again
\* (_complete_facet_deletion_unlocked forgets the deletion last).
OrphansAreRecorded == \A id \in DOMAIN jobs : jobs[id].gone => jobs[id].facet \in dels

\* A child that was started is in the registry, so that it can be listed, routed to and
\* deleted, whatever was interrupted (_resolve_sub_agent: "Recorded before bootstrap so a
\* hard interruption cannot leave a child with no row").
StartedChildIsListed == \A f \in Facets : child[f] = "started" => f \in rows

\* What exists of a child is recorded, until it is gone: the two parts above.
ChildrenAreRecorded == OrphansAreRecorded /\ StartedChildIsListed

\* Every call of the root ends as long as nothing raises: a deletion under the gate may
\* need the root started, and the startup takes gates to retry deletions
\* (_retry_pending_facet_deletions).
CallsEnd == \A t \in Tasks : Busy(t) ~> (~Busy(t) \/ faults > 0)
=============================================================================

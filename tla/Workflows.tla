------------------------------ MODULE Workflows ------------------------------
(***************************************************************************)
(* The workflows an agent starts (agents/workflows.py): the tracking table, *)
(* the calls that create, steer and look at a native instance and then      *)
(* write what they learned, the run of the workflow with the callbacks it   *)
(* sends its agent, and the paging through the table.                       *)
(***************************************************************************)
EXTENDS Integers, Sequences, FiniteSets

CONSTANTS
  Ids,          \* workflow ids; numbers, for the order of the pages
  Ended,        \* those that ran and ended before, and are still tracked
  Bindings,     \* names of Workflow bindings of the environment
  Filters,      \* names that readers ask for
  Callers,      \* calls under way in the agent at a time
  MaxCalls,     \* bound on calls
  MaxSeconds,   \* bound on the clock
  MaxEvents,    \* bound on events waiting at an instance
  MaxReplays,   \* bound on evictions of running workflows
  NoRow, NoInstance, NoRun, NoCall, NoWalk, Any

\* A cursor of get_workflows, and a reader that follows them: what it asked for,
\* and of the rows there were, those it had and those that are due.
Cursors == [id: Ids, created: 0..MaxSeconds]
Walks == [order: {"asc", "desc"}, limit: Nat \ {0}, name: Filters, cursor: Cursors \union {Any},
          had: SUBSET Ids, due: SUBSET Ids]

ASSUME WorkflowsAssumption ==
  /\ Ids \subseteq Nat /\ IsFiniteSet(Ids) /\ Ended \subseteq Ids
  /\ Bindings # {} /\ Any \notin Bindings /\ Filters \subseteq Bindings \union {Any}
  /\ {MaxCalls, MaxSeconds, MaxEvents, MaxReplays} \subseteq Nat
  /\ Any \notin Cursors /\ NoWalk \notin Walks

VARIABLES
  rows,     \* cf_agents_workflows: id -> row
  clock,    \* seconds, the resolution of created_at
  native,   \* the instances of the platform: status, durable steps, events
  runs,     \* AgentWorkflow.execute under way: id -> where it is
  calls,    \* WorkflowOperations under way: caller -> what it waits for
  walk,     \* a reader that follows the cursors of get_workflows
  count, replays

vars == <<rows, clock, native, runs, calls, walk, count, replays>>

Statuses == {"queued", "running", "waiting", "paused", "complete", "errored", "terminated"}
Terminal == {"complete", "errored", "terminated"}
Errors == {"none", "reported", "raised", "native"}

Row == [name: Bindings, status: Statuses, error: Errors, created: 0..MaxSeconds, ended: BOOLEAN]
Controls == {"pause", "resume", "terminate", "restart", "restartKeep"}

Tracked(id) == rows[id] # NoRow

----------------------------------------------------------------------------
(* The ledger.  A reader's walk is about the rows that match its criteria   *)
(* and stay as they are: those it had already and those that are due.       *)

Matches(row, w) == row # NoRow /\ w.name \in {Any, row.name}

SetRows(new) ==
  LET stays(id) == Matches(new[id], walk) /\ new[id].created = rows[id].created
  IN  /\ rows' = new
      /\ walk' = IF walk = NoWalk THEN NoWalk
                 ELSE [walk EXCEPT !.had = {id \in @ : stays(id)},
                                   !.due = {id \in @ : stays(id)}]

Update(id, row) == SetRows([rows EXCEPT ![id] = row])

\* track: nothing tells a row that callbacks were there before it.
Track(id, name) ==
  Update(id, [name |-> name, status |-> "queued", error |-> "none", created |-> clock,
              ended |-> FALSE])

\* update_status writes what the platform said, when the row is still there.
UpdateStatus(id, status) ==
  IF ~Tracked(id) THEN UNCHANGED <<rows, walk>>
  ELSE Update(id, [rows[id] EXCEPT !.status = status, !.ended = status \in Terminal,
                                   !.error = IF status = "errored" THEN "native" ELSE "none"])

\* A mutant: a restarted row keeps the time it ended at.
ResetStatus(id) ==
  IF ~Tracked(id) THEN UNCHANGED <<rows, walk>>
  ELSE Update(id, [rows[id] EXCEPT !.status = "queued", !.created = clock, !.error = "none"])

\* reset_for_restart: a new life, and a new place in the pages.
ResetForRestart(id) ==
  IF ~Tracked(id) THEN UNCHANGED <<rows, walk>>
  ELSE Update(id, [rows[id] EXCEPT !.status = "queued", !.created = clock, !.ended = FALSE,
                                   !.error = "none"])

\* apply_callback: each kind has the statuses it may change.
ApplyCallback(id, kind) ==
  IF ~Tracked(id) THEN UNCHANGED <<rows, walk>>
  ELSE LET row == rows[id] IN
    CASE kind = "progress" /\ row.status \in {"queued", "waiting"} ->
           Update(id, [row EXCEPT !.status = "running"])
      [] kind = "complete" /\ row.status \notin {"terminated", "paused"} ->
           Update(id, [row EXCEPT !.status = "complete", !.ended = TRUE])
      [] kind \in {"reported", "raised"} /\ row.status \notin {"terminated", "paused"} ->
           Update(id, [row EXCEPT !.status = "errored", !.ended = TRUE, !.error = kind])
      [] OTHER -> UNCHANGED <<rows, walk>>

----------------------------------------------------------------------------
(* Calls of the agent.                                                     *)

Idle(c) == calls' = [calls EXCEPT ![c] = NoCall]
Moves(c, at) == calls' = [calls EXCEPT ![c].at = at]

\* run_workflow, the controls, the events; all but the first and the status
\* want a tracked row.
Call(c, op, id, name) ==
  /\ calls[c] = NoCall /\ count < MaxCalls /\ count' = count + 1
  /\ op \in Controls \union {"approve", "reject"} => Tracked(id)
  /\ calls' = [calls EXCEPT ![c] =
       [op |-> op, id |-> id, name |-> name, got |-> "queued",
        at |-> IF op = "look" THEN "status" ELSE "native"]]
  /\ UNCHANGED <<rows, clock, native, runs, walk, replays>>

\* What the platform does for a call it accepts (external).
Allowed(op, id) ==
  IF op = "run" THEN native[id] = NoInstance
  ELSE /\ native[id] # NoInstance
       /\ CASE op = "pause" -> native[id].status \in {"queued", "running", "waiting"}
            [] op = "resume" -> native[id].status = "paused"
            [] op = "terminate" -> native[id].status \notin Terminal
            [] op \in {"approve", "reject"} ->
                 native[id].status \notin Terminal /\ Len(native[id].events) < MaxEvents
            [] OTHER -> TRUE

Done(op, id) ==
  /\ native' = [native EXCEPT ![id] =
       CASE op \in {"run", "restart", "restartKeep"} ->
              [status |-> "queued", steps |-> {}, events |-> <<>>]
         [] op = "pause" -> [@ EXCEPT !.status = "paused"]
         [] op = "resume" -> [@ EXCEPT !.status = IF runs[id] = NoRun THEN "queued" ELSE "running"]
         [] op = "terminate" -> [@ EXCEPT !.status = "terminated"]
         [] op = "approve" -> [native[id] EXCEPT !.events = Append(@, TRUE)]
         [] op = "reject" -> [native[id] EXCEPT !.events = Append(@, FALSE)]]
  /\ runs' = IF op \in {"terminate", "restart", "restartKeep"}
             THEN [runs EXCEPT ![id] = NoRun] ELSE runs

AfterNative(op) ==
  CASE op = "run" -> "track"
    [] op = "restart" -> "reset"
    [] OTHER -> "status"

\* The platform's answer.  An error that may be tried again (two times at
\* most, which nothing here depends on) says nothing of whether the call took
\* effect; creating is not tried again.
NativeAnswers(c) ==
  LET k == calls[c] IN
  /\ k # NoCall /\ k.at = "native" /\ Allowed(k.op, k.id)
  /\ Done(k.op, k.id)
  /\ IF k.op \in {"approve", "reject"} THEN Idle(c) ELSE Moves(c, AfterNative(k.op))
  /\ UNCHANGED <<rows, clock, walk, count, replays>>

NativeFails(c) ==
  LET k == calls[c] IN
  /\ k # NoCall /\ k.at = "native"
  /\ \/ Allowed(k.op, k.id) /\ Done(k.op, k.id)
     \/ UNCHANGED <<native, runs>>
  /\ \/ k.op # "run" /\ UNCHANGED calls
     \/ Idle(c)
  /\ UNCHANGED <<rows, clock, walk, count, replays>>

\* The instance exists, and perhaps runs, before its row does.
Tracks(c) ==
  /\ calls[c] # NoCall /\ calls[c].at = "track"
  /\ IF Tracked(calls[c].id) THEN UNCHANGED <<rows, walk>>
     ELSE Track(calls[c].id, calls[c].name)
  /\ Idle(c)
  /\ UNCHANGED <<clock, native, runs, count, replays>>

Resets(c) ==
  /\ calls[c] # NoCall /\ calls[c].at = "reset"
  /\ ResetForRestart(calls[c].id) /\ Idle(c)
  /\ UNCHANGED <<clock, native, runs, count, replays>>

\* The status is read at the platform and written when the answer is here.
StatusRead(c) ==
  LET k == calls[c] IN
  /\ k # NoCall /\ k.at = "status"
  /\ IF native[k.id] = NoInstance THEN Idle(c)
     ELSE calls' = [calls EXCEPT ![c].at = "write", ![c].got = native[k.id].status]
  /\ UNCHANGED <<rows, clock, native, runs, walk, count, replays>>

StatusWritten(c) ==
  /\ calls[c] # NoCall /\ calls[c].at = "write"
  /\ UpdateStatus(calls[c].id, calls[c].got) /\ Idle(c)
  /\ UNCHANGED <<clock, native, runs, count, replays>>

DeleteMany(chosen) ==
  /\ count < MaxCalls /\ count' = count + 1
  /\ chosen # {} /\ \A id \in chosen : Tracked(id)
  /\ SetRows([id \in Ids |-> IF id \in chosen THEN NoRow ELSE rows[id]])
  /\ UNCHANGED <<clock, native, runs, calls, replays>>

DeleteWorkflow(id) == DeleteMany({id})

\* delete_workflows with a status, a name and an age.
DeleteWorkflows(status, name, before) ==
  DeleteMany({id \in Ids : Tracked(id) /\ rows[id].status = status
                           /\ name \in {Any, rows[id].name} /\ rows[id].created < before})

MigrateBinding(old, new) ==
  /\ count < MaxCalls /\ count' = count + 1
  /\ \E id \in Ids : Tracked(id) /\ rows[id].name = old
  /\ SetRows([id \in Ids |-> IF Tracked(id) /\ rows[id].name = old
                             THEN [rows[id] EXCEPT !.name = new] ELSE rows[id]])
  /\ UNCHANGED <<clock, native, runs, calls, replays>>

----------------------------------------------------------------------------
(* The run of a workflow: execute, the user's run() and the step helpers.   *)

Runs(id, pc) ==
  /\ runs[id] # NoRun /\ runs[id].pc = pc
  /\ native[id].status \in {"running", "waiting"}

At(id, pc) == runs' = [runs EXCEPT ![id].pc = pc]
Ends(id, status) ==
  /\ runs' = [runs EXCEPT ![id] = NoRun]
  /\ native' = [native EXCEPT ![id].status = status]

NewRun == [pc |-> "resolve", reported |-> FALSE, told |-> {}]

RunStarts(id) ==
  /\ native[id] # NoInstance /\ native[id].status = "queued" /\ runs[id] = NoRun
  /\ runs' = [runs EXCEPT ![id] = NewRun]
  /\ native' = [native EXCEPT ![id].status = "running"]
  /\ UNCHANGED <<rows, clock, calls, walk, count, replays>>

\* resolve_root: its failure is before run() and is not reported to the agent,
\* which is the one that was not found.
Resolves(id) ==
  /\ Runs(id, "resolve") /\ At(id, "run")
  /\ UNCHANGED <<rows, clock, native, calls, walk, count, replays>>

ResolveFails(id) ==
  /\ Runs(id, "resolve") /\ Ends(id, "errored")
  /\ UNCHANGED <<rows, clock, calls, walk, count, replays>>

\* report_progress is a plain call.
Progresses(id) ==
  /\ Runs(id, "run") /\ ApplyCallback(id, "progress")
  /\ UNCHANGED <<clock, native, runs, calls, count, replays>>

\* run() raises: an error of its own, or that of a call to the agent.
Raises(id) ==
  /\ Runs(id, "run") /\ At(id, "raise")
  /\ UNCHANGED <<rows, clock, native, calls, walk, count, replays>>

Waits(id) ==
  /\ Runs(id, "run") /\ At(id, "wait")
  /\ native' = [native EXCEPT ![id].status = "waiting"]
  /\ UNCHANGED <<rows, clock, calls, walk, count, replays>>

\* report_error notes the report before it makes it.
Noted(run) == [run EXCEPT !.pc = "report", !.reported = TRUE]

\* wait_for_approval: approval lets run() go on, rejection is reported.
Approved(id) ==
  /\ Runs(id, "wait") /\ native[id].events # <<>>
  /\ native' = [native EXCEPT ![id].status = "running", ![id].events = Tail(@)]
  /\ runs' = [runs EXCEPT ![id] = IF Head(native[id].events) THEN [@ EXCEPT !.pc = "run"] ELSE Noted(@)]
  /\ UNCHANGED <<rows, clock, calls, walk, count, replays>>

ReportError(id) ==
  /\ Runs(id, "run") /\ runs' = [runs EXCEPT ![id] = Noted(@)]
  /\ UNCHANGED <<rows, clock, native, calls, walk, count, replays>>

\* A durable step: done once its callback has come back, and then skipped when
\* the run is replayed.  The answer may be lost after the agent has heard it.
Reported(id) ==
  /\ Runs(id, "report") /\ At(id, "raise")
  /\ "error" \in native[id].steps
  /\ UNCHANGED <<rows, clock, native, calls, walk, count, replays>>

Reports(id) ==
  /\ Runs(id, "report") /\ "error" \notin native[id].steps
  /\ ApplyCallback(id, "reported")
  /\ runs' = [runs EXCEPT ![id].pc = "raise", ![id].told = @ \union {"reported"}]
  /\ \/ native' = [native EXCEPT ![id].steps = @ \union {"error"}]
     \/ UNCHANGED native
  /\ UNCHANGED <<clock, calls, count, replays>>

ReportFails(id) ==
  /\ Runs(id, "report") /\ "error" \notin native[id].steps /\ At(id, "raise")
  /\ UNCHANGED <<rows, clock, native, calls, walk, count, replays>>

\* _auto_report_error, for an error run() has not reported itself.
AutoReports(id) ==
  /\ Runs(id, "raise")
  /\ \/ /\ ~runs[id].reported /\ ApplyCallback(id, "raised")
        /\ runs' = [runs EXCEPT ![id].pc = "errored", ![id].told = @ \union {"raised"}]
     \/ At(id, "errored") /\ UNCHANGED <<rows, walk>>
  /\ UNCHANGED <<clock, native, calls, count, replays>>

RunErrs(id) ==
  /\ Runs(id, "errored") /\ Ends(id, "errored")
  /\ UNCHANGED <<rows, clock, calls, walk, count, replays>>

ReportComplete(id) ==
  /\ Runs(id, "run")
  /\ IF "complete" \in native[id].steps THEN UNCHANGED <<rows, walk, native>>
     ELSE /\ ApplyCallback(id, "complete")
          /\ native' = [native EXCEPT ![id].steps = @ \union {"complete"}]
  /\ At(id, "return")
  /\ UNCHANGED <<clock, calls, count, replays>>

Returns(id) ==
  /\ \E pc \in {"run", "return"} : Runs(id, pc)
  /\ Ends(id, "complete")
  /\ UNCHANGED <<rows, clock, calls, walk, count, replays>>

\* The platform runs an evicted workflow again from its durable steps.
Replayed(id) ==
  /\ runs[id] # NoRun /\ runs[id] # NewRun /\ replays < MaxReplays /\ replays' = replays + 1
  /\ runs' = [runs EXCEPT ![id] = NewRun]
  /\ native' = [native EXCEPT ![id].status = IF @ = "paused" THEN @ ELSE "running"]
  /\ UNCHANGED <<rows, clock, calls, walk, count>>

\* The agent is evicted: rows stay, calls and readers go.
AgentEvicted ==
  /\ \E c \in Callers : calls[c] # NoCall
  /\ calls' = [c \in Callers |-> NoCall] /\ walk' = NoWalk
  /\ UNCHANGED <<rows, clock, native, runs, count, replays>>

Tick ==
  /\ clock < MaxSeconds /\ clock' = clock + 1
  /\ UNCHANGED <<rows, native, runs, calls, walk, count, replays>>

----------------------------------------------------------------------------
(* get_workflows: pages in the order of (created_at, workflow_id).          *)

Beyond(order, a, b) ==
  LET before == a.created < b.created \/ (a.created = b.created /\ a.id < b.id)
  IN  IF order = "asc" THEN a # b /\ ~before ELSE before

\* A mutant: the cursor compares the time alone.
PastCursorTime(w, k) ==
  \/ w.cursor = Any
  \/ IF w.order = "asc" THEN k.created > w.cursor.created ELSE k.created < w.cursor.created

PastCursor(w, k) == w.cursor = Any \/ Beyond(w.order, k, w.cursor)

Key(id) == [id |-> id, created |-> rows[id].created]

Left(w) == {id \in Ids : Matches(rows[id], w) /\ PastCursor(w, Key(id))}

\* The first "limit" rows past the cursor.
Page(w) ==
  {id \in Left(w) :
     Cardinality({o \in Left(w) : Beyond(w.order, Key(id), Key(o))}) < w.limit}

\* The last row of the page is the next cursor, if there is one row more.
Turned(w) ==
  LET page == Page(w)
      last == CHOOSE id \in page : \A o \in page : o = id \/ Beyond(w.order, Key(id), Key(o))
  IN  walk' = IF page = Left(w) THEN NoWalk
              ELSE [w EXCEPT !.cursor = Key(last), !.had = @ \union (w.due \intersect page),
                             !.due = @ \ page]

ListFirst(order, limit, name) ==
  /\ walk = NoWalk
  /\ LET w == [order |-> order, limit |-> limit, name |-> name, cursor |-> Any, had |-> {},
               due |-> {}]
     IN  Turned([w EXCEPT !.due = {id \in Ids : Matches(rows[id], w)}])
  /\ UNCHANGED <<rows, clock, native, runs, calls, count, replays>>

ListNext ==
  /\ walk # NoWalk /\ Turned(walk)
  /\ UNCHANGED <<rows, clock, native, runs, calls, count, replays>>

----------------------------------------------------------------------------
Init ==
  /\ rows = [id \in Ids |-> IF id \notin Ended THEN NoRow
               ELSE [name |-> CHOOSE name \in Bindings : TRUE, status |-> "complete",
                     error |-> "none", created |-> 0, ended |-> TRUE]]
  /\ native = [id \in Ids |-> IF id \notin Ended THEN NoInstance
                 ELSE [status |-> "complete", steps |-> {"complete"}, events |-> <<>>]]
  /\ clock = 0 /\ runs = [id \in Ids |-> NoRun]
  /\ calls = [c \in Callers |-> NoCall] /\ walk = NoWalk /\ count = 0 /\ replays = 0

Operation ==
  \/ \E c \in Callers, id \in Ids :
       \/ \E name \in Bindings : Call(c, "run", id, name)
       \/ \E op \in Controls \union {"look", "approve", "reject"} : Call(c, op, id, Any)
  \/ \E c \in Callers :
       NativeAnswers(c) \/ NativeFails(c) \/ Tracks(c) \/ Resets(c) \/ StatusRead(c) \/ StatusWritten(c)
  \/ \E id \in Ids : DeleteWorkflow(id)
  \/ \E status \in Statuses, name \in Bindings \union {Any}, before \in 1..MaxSeconds :
       DeleteWorkflows(status, name, before)
  \/ \E old, new \in Bindings : old # new /\ MigrateBinding(old, new)

Run ==
  \E id \in Ids :
    \/ RunStarts(id) \/ Resolves(id) \/ ResolveFails(id) \/ Progresses(id) \/ Raises(id)
    \/ Waits(id) \/ Approved(id) \/ ReportError(id) \/ Reported(id) \/ Reports(id)
    \/ ReportFails(id) \/ AutoReports(id) \/ RunErrs(id) \/ ReportComplete(id) \/ Returns(id)
    \/ Replayed(id)

Read ==
  \/ \E order \in {"asc", "desc"}, limit \in 1..Cardinality(Ids), name \in Filters :
       ListFirst(order, limit, name)
  \/ ListNext

Next == Operation \/ Run \/ Read \/ AgentEvicted \/ Tick

Spec == Init /\ [][Next]_vars

----------------------------------------------------------------------------
\* A reader that follows the cursors gets every row that is there all the
\* while, unchanged, exactly once: rows of the same second are told apart, and
\* rows that come, go or are restarted meanwhile push none out.
PagesListEachOnce ==
  [][ListNext =>
       /\ Page(walk) \intersect walk.had = {}
       /\ walk' = NoWalk => walk.due \subseteq Page(walk)]_vars

\* A row has the time of its end exactly when its status is final, whichever
\* of callbacks, status reads and restarts wrote it last.
EndedIsTerminal ==
  \A id \in Ids : Tracked(id) => (rows[id].ended <=> rows[id].status \in Terminal)

\* A run that reports its error itself, a rejection above all, is not reported
\* again by the error that ends it, whether or not the report got through.
ErrorToldOnce == \A id \in Ids : runs[id] # NoRun => Cardinality(runs[id].told) <= 1

\* How a workflow ended is recorded and told once: the two parts above.
EndsAreTold == EndedIsTerminal /\ ErrorToldOnce

=============================================================================

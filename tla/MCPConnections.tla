---------------------------- MODULE MCPConnections ----------------------------
(***************************************************************************)
(* The connections of an agent to MCP servers (mcp/client/manager.py): the  *)
(* rows of the registered servers, the connection object each id has at the *)
(* moment, its generation, and the tasks and calls that work on them over   *)
(* awaits: attempts to connect, discoveries of the catalog, registering,    *)
(* removing and moving a server, OAuth callbacks, tool calls and the        *)
(* restoration of all connections after a restart.                          *)
(***************************************************************************)
EXTENDS Integers, FiniteSets

CONSTANTS
  Ids,                 \* server ids
  Registrable,         \* those that are registered; the others are moved to
  Callers,             \* who registers, removes, moves, calls tools, calls back
  Kinds,               \* what they do
  RestoreConcurrency,  \* restore_concurrency
  MaxConns,            \* bound on connection objects in use
  MaxTasks,            \* bound on tasks at a time
  MaxCalls,            \* bound on calls
  MaxFaults,           \* bound on failures, cancelled callers and restarts
  NoId, NoRow, NoTask, NoPend

ASSUME MCPAssumption ==
  /\ Registrable \subseteq Ids /\ NoId \notin Ids
  /\ Kinds \subseteq {"register", "remove", "migrate", "callback", "tool"}
  /\ {RestoreConcurrency, MaxConns, MaxTasks} \subseteq Nat \ {0}
  /\ {MaxCalls, MaxFaults} \subseteq Nat
  /\ NoPend \notin [gen : Nat, task : 1..MaxTasks]

VARIABLES
  rows,     \* cf_agents_mcp_servers: id -> row, or NoRow
  kv,       \* ids with an OAuth state in storage that a callback may bring
  current,  \* mcp_connections: id -> connection, or 0
  conns,    \* the connection objects
  gens,     \* _generations
  attempts, \* _pending_connections: id -> entry, or NoPend
  finds,    \* _pending_discoveries
  tasks,    \* the tasks of both
  calls,    \* caller -> what it does
  restore,  \* id -> its part of restore_connections
  began, faults

table == <<current, conns, gens>>
vars == <<rows, kv, table, attempts, finds, tasks, calls, restore, began, faults>>

Conns == 1..MaxConns
TaskIds == 1..MaxTasks
Maker == 0   \* a task was made by a caller that waits for it,
Gone == -1   \* or that does not any more

Good == {"CONNECTED", "DISCOVERING", "READY"}

Fault == faults < MaxFaults /\ faults' = faults + 1
Counted == began < MaxCalls /\ began' = began + 1

\* _is_current, of a connection and the generation a task was made for.
IsCurrent(i, g) ==
  /\ conns[i].gen = g
  /\ gens[conns[i].id] = g
  /\ current[conns[i].id] = i

\* A connection changes; it is saved (MCPServerStore.save) or not.
Becomes(i, c) == conns' = [conns EXCEPT ![i] = c]
Saves(c) == rows' = [rows EXCEPT ![c.id] = [auth |-> c.auth, sid |-> c.sid]]

\* _make_connection. `left' is history: a reconnection by a discovery failed.
Made(id, g, row) == [id |-> id, gen |-> g, state |-> IF row.auth THEN "AUTHENTICATING" ELSE "CONNECTING",
                     session |-> FALSE, auth |-> row.auth, sid |-> row.sid, step |-> FALSE, left |-> FALSE]
Unmade == [id |-> NoId, gen |-> 0, state |-> "CONNECTING", session |-> FALSE, auth |-> FALSE,
           sid |-> FALSE, step |-> FALSE, left |-> FALSE]

Running == {t \in TaskIds : tasks[t] # NoTask}
FreeTasks == {t \in TaskIds \ Running :
                /\ \A id \in Ids : /\ attempts[id] # NoPend => attempts[id].task # t
                                   /\ finds[id] # NoPend => finds[id].task # t
                /\ \A c \in Callers : calls[c].on # t}
NewTask == CHOOSE t \in FreeTasks : TRUE
FreeConns == Conns \ ({current[id] : id \in Ids} \union {tasks[t].conn : t \in Running}
                        \union {calls[c].conn : c \in Callers})
NewConn == CHOOSE i \in FreeConns : TRUE

Task(kind, i, by) == [kind |-> kind, conn |-> i, id |-> conns[i].id, gen |-> conns[i].gen, pc |-> "begin", by |-> by,
                      code |-> FALSE, on |-> 0, stale |-> FALSE, got |-> "none", cancelled |-> FALSE]

NoCall == [kind |-> "none", id |-> NoId, to |-> NoId, pc |-> "idle", on |-> 0, gen |-> 0, conn |-> 0,
           end |-> "none"]

Idle == restore = [id \in Ids |-> "no"]

----------------------------------------------------------------------------
(* Tasks: how they are shared, end and are cancelled.                      *)

\* An entry of the same generation is joined, also when its task is done.
Shares(entry, g) == entry # NoPend /\ entry.gen = g

\* The entry of a task goes when it is done, if its maker still waits.
Popped(pending, t) ==
  [id \in Ids |-> IF pending[id] # NoPend /\ pending[id].task = t /\ tasks[t].by # Gone
                  THEN NoPend ELSE pending[id]]

\* An attempt that waits for a discovery goes on with what that returned or
\* raised; a discovery whose attempt has ended has nobody waiting.
After(t, got) ==
  [u \in TaskIds |->
     IF u = t \/ tasks[u] = NoTask THEN NoTask
     ELSE IF tasks[u].on = t
          THEN [tasks[u] EXCEPT !.pc = "resume", !.on = 0, !.got = got,
                                !.cancelled = @ \/ got = "cancelled"]
     ELSE IF tasks[u].by = t THEN [tasks[u] EXCEPT !.by = Gone]
     ELSE tasks[u]]

Ends(t, got) ==
  /\ tasks' = After(t, got)
  /\ attempts' = Popped(attempts, t) /\ finds' = Popped(finds, t)

Goes(t, pc) == tasks' = [tasks EXCEPT ![t].pc = pc] /\ UNCHANGED <<attempts, finds>>

Cancelled(ts) == [t \in TaskIds |-> IF t \in ts /\ tasks[t] # NoTask
                                    THEN [tasks[t] EXCEPT !.cancelled = TRUE] ELSE tasks[t]]

At(t, kind, pc) == tasks[t] # NoTask /\ tasks[t].kind = kind /\ tasks[t].pc = pc /\ ~tasks[t].cancelled

\* establish_connection, by a caller.
Establish(id, code) ==
  LET i == current[id] IN
  IF Shares(attempts[id], conns[i].gen) THEN UNCHANGED <<attempts, tasks>>
  ELSE /\ FreeTasks # {}
       /\ tasks' = [tasks EXCEPT ![NewTask] = [Task("attempt", i, Maker) EXCEPT !.code = code]]
       /\ attempts' = [attempts EXCEPT ![id] = [gen |-> conns[i].gen, task |-> NewTask]]

Connect(id) ==
  /\ Idle /\ current[id] # 0 /\ Counted
  /\ Establish(id, FALSE)
  /\ UNCHANGED <<rows, kv, table, finds, calls, restore, faults>>

\* refresh_catalog by a caller, or as the server says that its catalog changed.
Refresh(id) ==
  /\ current[id] # 0 /\ IsCurrent(current[id], conns[current[id]].gen) /\ Counted
  /\ ~Shares(finds[id], conns[current[id]].gen) /\ FreeTasks # {}
  /\ tasks' = [tasks EXCEPT ![NewTask] = Task("find", current[id], Maker)]
  /\ finds' = [finds EXCEPT ![id] = [gen |-> conns[current[id]].gen, task |-> NewTask]]
  /\ UNCHANGED <<rows, kv, table, attempts, calls, restore, faults>>

\* The caller that made a task is cancelled; the task is shielded and goes on.
CallerCancelled(t) ==
  /\ tasks[t] # NoTask /\ tasks[t].by = Maker /\ Idle /\ Fault
  /\ tasks' = [tasks EXCEPT ![t].by = Gone]
  /\ UNCHANGED <<rows, kv, table, attempts, finds, calls, restore, began>>

\* A cancelled task unwinds at its await; one that closes a stale session saves
\* the row on its way. Callbacks that wait for it are cancelled with it.
Unwinds(t) ==
  /\ tasks[t] # NoTask /\ tasks[t].cancelled
  /\ IF tasks[t].pc = "drop"
     THEN /\ Becomes(tasks[t].conn, [conns[tasks[t].conn] EXCEPT !.sid = FALSE])
          /\ Saves([conns[tasks[t].conn] EXCEPT !.sid = FALSE])
     ELSE UNCHANGED <<conns, rows>>
  /\ Ends(t, "cancelled")
  /\ calls' = [c \in Callers |-> IF calls[c].on = t /\ calls[c].pc = "establish"
                                 THEN [calls[c] EXCEPT !.pc = "consume", !.end = "raise", !.on = 0]
                                 ELSE calls[c]]
  /\ UNCHANGED <<kv, current, gens, restore, began, faults>>

----------------------------------------------------------------------------
(* Attempts to connect, and the part of them that discoveries reuse.       *)

\* _connect_once up to its first await: an old session is closed first.
ConnectOnce(t, c) ==
  IF ~IsCurrent(tasks[t].conn, tasks[t].gen)
  THEN Becomes(tasks[t].conn, c) /\ Ends(t, "gone")
  ELSE IF c.session
       THEN Becomes(tasks[t].conn, c) /\ Goes(t, "close")
       ELSE Becomes(tasks[t].conn, [c EXCEPT !.state = "CONNECTING"]) /\ Goes(t, "open")

AttemptBegins(t) ==
  /\ At(t, "attempt", "begin")
  /\ IF conns[tasks[t].conn].state \in {"READY", "DISCOVERING"}
     THEN Ends(t, "ok") /\ UNCHANGED conns
     ELSE ConnectOnce(t, conns[tasks[t].conn])
  /\ UNCHANGED <<rows, kv, current, gens, calls, restore, began, faults>>

\* The old session is closed; its connection may have been replaced meanwhile.
Closed(t) ==
  /\ \E kind \in {"attempt", "find"} : At(t, kind, "close")
  /\ Becomes(tasks[t].conn, [conns[tasks[t].conn] EXCEPT !.session = FALSE, !.state = "CONNECTING"])
  /\ Goes(t, "open")
  /\ UNCHANGED <<rows, kv, current, gens, calls, restore, began, faults>>

Fails(t) ==
  /\ IF IsCurrent(tasks[t].conn, tasks[t].gen)
     THEN Becomes(tasks[t].conn, [conns[tasks[t].conn] EXCEPT !.state = "FAILED"])
     ELSE UNCHANGED conns
  /\ Ends(t, "ok")

\* _apply_authorization_required: the connection afterwards, or with a step-up
\* too many none.
Authorizations(c) ==
  {[c EXCEPT !.state = "AUTHENTICATING", !.auth = TRUE]} \union
  (IF c.step THEN {} ELSE {[c EXCEPT !.state = "AUTHENTICATING", !.auth = TRUE, !.step = TRUE]})

\* What _establish_connection does with what an open or a discovery raised.
Handles(t, got) ==
  LET i == tasks[t].conn
      c == conns[i]
  IN  CASE got \in {"ok", "gone", "cancelled"} -> Ends(t, "ok") /\ UNCHANGED <<conns, rows>>
        [] got = "auth" /\ IsCurrent(i, tasks[t].gen) ->
             \/ \E d \in Authorizations(c) : Becomes(i, d) /\ Saves(d) /\ Ends(t, "ok")
             \/ Fails(t) /\ UNCHANGED rows
        [] got = "auth" /\ ~IsCurrent(i, tasks[t].gen) -> Ends(t, "ok") /\ UNCHANGED <<conns, rows>>
        [] got = "stale" /\ ~tasks[t].stale ->
             /\ Saves([c EXCEPT !.sid = FALSE])
             /\ IF ~IsCurrent(i, tasks[t].gen)
                THEN Becomes(i, [c EXCEPT !.sid = FALSE]) /\ Ends(t, "ok")
                ELSE /\ Becomes(i, [c EXCEPT !.sid = FALSE, !.state = IF c.session THEN @ ELSE "CONNECTING"])
                     /\ tasks' = [tasks EXCEPT ![t].stale = TRUE, ![t].got = "none",
                                               ![t].pc = IF c.session THEN "close" ELSE "open"]
                     /\ UNCHANGED <<attempts, finds>>
        [] got = "stale" /\ tasks[t].stale -> Fails(t) /\ UNCHANGED rows
        [] got = "error" ->
             \/ Fails(t) /\ UNCHANGED rows
             \/ ~tasks[t].code /\ Goes(t, "sleep") /\ UNCHANGED <<conns, rows>>

\* A discovery raises to who waits for it, and leaves the connection as it is.
Raised(t, got) ==
  IF tasks[t].kind = "attempt" THEN Handles(t, got)
  ELSE Becomes(tasks[t].conn, [conns[tasks[t].conn] EXCEPT !.left = TRUE]) /\ Ends(t, got) /\ UNCHANGED rows

Resumes(t) ==
  /\ At(t, "attempt", "resume")
  /\ Handles(t, tasks[t].got)
  /\ UNCHANGED <<kv, current, gens, calls, restore, began, faults>>

SleepEnds(t) ==
  /\ At(t, "attempt", "sleep")
  /\ ConnectOnce(t, conns[tasks[t].conn])
  /\ UNCHANGED <<rows, kv, current, gens, calls, restore, began, faults>>

Opening(t) == tasks[t] # NoTask /\ tasks[t].pc = "open"

\* A mutant: a session is taken whatever happened during the open.
TakesAny(t) == TRUE

\* The session is taken if the connection is still the one the task is for.
Takes(t) == IsCurrent(tasks[t].conn, tasks[t].gen)

\* The attempt goes on to the catalog of what its id names now: it joins a
\* discovery or starts one.
Discovers(t) ==
  LET id == tasks[t].id IN
  CASE current[id] = 0 ->
         /\ tasks' = [tasks EXCEPT ![t].pc = "resume", ![t].got = "error"]
         /\ UNCHANGED <<attempts, finds>>
    [] current[id] # 0 /\ ~IsCurrent(current[id], tasks[t].gen) -> Ends(t, "gone")
    [] current[id] # 0 /\ IsCurrent(current[id], tasks[t].gen) /\ Shares(finds[id], tasks[t].gen) ->
         IF tasks[finds[id].task] = NoTask THEN Ends(t, "ok")
         ELSE /\ tasks' = [tasks EXCEPT ![t].pc = "wait", ![t].on = finds[id].task, ![t].cancelled = FALSE]
              /\ UNCHANGED <<attempts, finds>>
    [] current[id] # 0 /\ IsCurrent(current[id], tasks[t].gen) /\ ~Shares(finds[id], tasks[t].gen) ->
         /\ FreeTasks # {}
         /\ tasks' = [tasks EXCEPT ![t].pc = "wait", ![t].on = NewTask, ![t].cancelled = FALSE,
                                   ![NewTask] = Task("find", current[id], t)]
         /\ finds' = [finds EXCEPT ![id] = [gen |-> tasks[t].gen, task |-> NewTask]]
         /\ UNCHANGED attempts

\* A transport may return its session although the task was cancelled.
OpenSucceeds(t) ==
  /\ Opening(t)
  /\ IF ~Takes(t) THEN Ends(t, "gone") /\ UNCHANGED <<conns, rows>>
     ELSE LET d == [conns[tasks[t].conn] EXCEPT !.session = TRUE, !.auth = FALSE, !.sid = TRUE, !.left = FALSE] IN
          /\ Saves(d)
          /\ IF tasks[t].kind = "attempt"
             THEN Becomes(tasks[t].conn, [d EXCEPT !.state = "CONNECTED"]) /\ Discovers(t)
             ELSE /\ Becomes(tasks[t].conn, [d EXCEPT !.state = "DISCOVERING"])
                  /\ tasks' = [tasks EXCEPT ![t].pc = "discover", ![t].stale = TRUE, ![t].cancelled = FALSE]
                  /\ UNCHANGED <<attempts, finds>>
  /\ UNCHANGED <<kv, current, gens, calls, restore, began, faults>>

OpenRaises(t, got) ==
  /\ Opening(t) /\ ~tasks[t].cancelled /\ Fault
  /\ kv' = IF got = "auth" THEN kv \union {conns[tasks[t].conn].id} ELSE kv
  /\ Raised(t, got)
  /\ UNCHANGED <<current, gens, calls, restore, began>>

----------------------------------------------------------------------------
(* Discoveries.                                                            *)

FindBegins(t) ==
  /\ At(t, "find", "begin")
  /\ LET c == conns[tasks[t].conn] IN
       IF c.session /\ c.state \in Good
       THEN Becomes(tasks[t].conn, [c EXCEPT !.state = "DISCOVERING"]) /\ Goes(t, "discover")
       ELSE Ends(t, "ok") /\ UNCHANGED conns
  /\ UNCHANGED <<rows, kv, current, gens, calls, restore, began, faults>>

Found(t) ==
  /\ At(t, "find", "discover")
  /\ LET c == [conns[tasks[t].conn] EXCEPT !.state = "READY", !.step = FALSE, !.sid = @ \/ conns[tasks[t].conn].session]
     IN  IF IsCurrent(tasks[t].conn, tasks[t].gen)
         THEN /\ Becomes(tasks[t].conn, c)
              /\ IF c.session THEN Saves(c) ELSE UNCHANGED rows
         ELSE UNCHANGED <<conns, rows>>
  /\ Ends(t, "ok")
  /\ UNCHANGED <<kv, current, gens, calls, restore, began, faults>>

\* The server forgot the session: it is closed, and opened anew once.
FindStale(t) ==
  /\ At(t, "find", "discover") /\ Fault
  /\ LET c == conns[tasks[t].conn] IN
       IF tasks[t].stale \/ ~IsCurrent(tasks[t].conn, tasks[t].gen)
       THEN Becomes(tasks[t].conn, [c EXCEPT !.left = TRUE]) /\ Ends(t, "stale")
       ELSE IF c.session
            THEN Becomes(tasks[t].conn, [c EXCEPT !.session = FALSE]) /\ Goes(t, "drop")
            ELSE ConnectOnce(t, c)
  /\ UNCHANGED <<rows, kv, current, gens, calls, restore, began>>

Dropped(t) ==
  /\ At(t, "find", "drop")
  /\ Saves([conns[tasks[t].conn] EXCEPT !.sid = FALSE])
  /\ ConnectOnce(t, [conns[tasks[t].conn] EXCEPT !.sid = FALSE])
  /\ UNCHANGED <<kv, current, gens, calls, restore, began, faults>>

FindNeedsAuth(t) ==
  /\ At(t, "find", "discover") /\ Fault
  /\ kv' = kv \union {conns[tasks[t].conn].id}
  /\ LET i == tasks[t].conn IN
       IF ~IsCurrent(i, tasks[t].gen) THEN UNCHANGED <<conns, rows>>
       ELSE \/ \E d \in Authorizations(conns[i]) : Becomes(i, d) /\ Saves(d)
            \/ Becomes(i, [conns[i] EXCEPT !.state = "CONNECTED"]) /\ UNCHANGED rows
  /\ Ends(t, "ok")
  /\ UNCHANGED <<current, gens, calls, restore, began>>

FindFails(t) ==
  /\ At(t, "find", "discover") /\ Fault
  /\ IF IsCurrent(tasks[t].conn, tasks[t].gen)
     THEN Becomes(tasks[t].conn, [conns[tasks[t].conn] EXCEPT !.state = "CONNECTED"])
     ELSE UNCHANGED conns
  /\ Ends(t, "ok")
  /\ UNCHANGED <<rows, kv, current, gens, calls, restore, began>>

----------------------------------------------------------------------------
(* Calls: registering, removing and moving a server.                       *)

Advanced(ids) == [id \in Ids |-> IF id \in ids THEN gens[id] + 1 ELSE gens[id]]

Starts(c, kind, id) == calls[c] = NoCall /\ kind \in Kinds /\ Idle /\ Counted

\* What a call waits for: a task that is under way, or nothing.
Awaits(entry) == IF entry = NoPend \/ tasks[entry.task] = NoTask THEN 0 ELSE entry.task

\* register_server and remove_server: a new generation, and the attempt of the
\* old one is cancelled.
Replaces(c, kind, id) ==
  /\ Starts(c, kind, id) /\ kind \in {"register", "remove"}
  /\ gens' = Advanced({id})
  /\ attempts' = [attempts EXCEPT ![id] = NoPend]
  /\ tasks' = Cancelled({Awaits(attempts[id])})
  /\ calls' = [calls EXCEPT ![c] = [NoCall EXCEPT !.kind = kind, !.id = id, !.pc = "attempt",
                                      !.gen = gens[id] + 1, !.on = Awaits(attempts[id])]]
  /\ UNCHANGED <<rows, kv, current, conns, finds, restore, faults>>

\* migrate_server_id: the attempt is waited for.
Moves(c, id, to) ==
  /\ Starts(c, "migrate", id) /\ to # id /\ rows[to] = NoRow /\ current[to] = 0
  /\ calls' = [calls EXCEPT ![c] = [NoCall EXCEPT !.kind = "migrate", !.id = id, !.to = to,
                                      !.pc = "attempt", !.on = Awaits(attempts[id])]]
  /\ UNCHANGED <<rows, kv, table, attempts, finds, tasks, restore, faults>>

Waited(c, pc) == calls[c].pc = pc /\ (calls[c].on # 0 => tasks[calls[c].on] = NoTask)

\* Then its discovery is cancelled.
CancelsFind(c) ==
  /\ Waited(c, "attempt")
  /\ finds' = [finds EXCEPT ![calls[c].id] = NoPend]
  /\ tasks' = Cancelled({Awaits(finds[calls[c].id])})
  /\ calls' = [calls EXCEPT ![c].pc = "find", ![c].on = Awaits(finds[calls[c].id])]
  /\ UNCHANGED <<rows, kv, table, attempts, restore, began, faults>>

Done(c) == calls' = [calls EXCEPT ![c] = NoCall]

\* The end of register_server and remove_server. The table is given without
\* the old connection.
Registers(c, rest) ==
  LET id == calls[c].id IN
  \E auth \in BOOLEAN :
    /\ FreeConns # {}
    /\ rows' = [rows EXCEPT ![id] = [auth |-> auth, sid |-> FALSE]]
    /\ Becomes(NewConn, Made(id, calls[c].gen, rows'[id]))
    /\ current' = [rest EXCEPT ![id] = NewConn]

Removes(c, rest) ==
  /\ rows' = [rows EXCEPT ![calls[c].id] = NoRow]
  /\ current' = rest /\ UNCHANGED conns

Finishes(c, rest) ==
  /\ \/ calls[c].kind = "register" /\ Registers(c, rest)
     \/ calls[c].kind = "remove" /\ Removes(c, rest)
  /\ Done(c)

\* The old connection goes from the table; its session, if any, is closed.
Closes(c) ==
  /\ Waited(c, "find") /\ calls[c].kind # "migrate"
  /\ LET id == calls[c].id
         i  == current[id]
     IN  IF i # 0 /\ conns[i].session
         THEN /\ current' = [current EXCEPT ![id] = 0]
              /\ Becomes(i, [conns[i] EXCEPT !.session = FALSE, !.sid = FALSE])
              /\ calls' = [calls EXCEPT ![c].pc = "close", ![c].on = 0]
              /\ UNCHANGED rows
         ELSE Finishes(c, [current EXCEPT ![id] = 0])
  /\ UNCHANGED <<kv, gens, attempts, finds, tasks, restore, began, faults>>

SessionCloses(c) ==
  /\ calls[c].pc = "close"
  /\ Finishes(c, current)
  /\ UNCHANGED <<kv, gens, attempts, finds, tasks, restore, began, faults>>

\* The row moves, unless the new id was taken meanwhile; then the stored OAuth
\* values, whose states no callback finds any more.
RowMoves(c) ==
  /\ Waited(c, "find") /\ calls[c].kind = "migrate"
  /\ LET id == calls[c].id
         to == calls[c].to
     IN  /\ gens' = Advanced({id, to})
         /\ IF rows[to] # NoRow
            THEN Done(c) /\ UNCHANGED rows
            ELSE /\ rows' = [rows EXCEPT ![to] = rows[id], ![id] = NoRow]
                 /\ calls' = [calls EXCEPT ![c].pc = "move", ![c].on = 0, ![c].gen = gens[to] + 1]
  /\ UNCHANGED <<kv, current, conns, attempts, finds, tasks, restore, began, faults>>

ConnectionMoves(c) ==
  /\ calls[c].pc = "move"
  /\ kv' = kv \ {calls[c].id}
  /\ LET i == current[calls[c].id] IN
       IF i = 0 THEN UNCHANGED <<current, conns>>
       ELSE /\ current' = [current EXCEPT ![calls[c].id] = 0, ![calls[c].to] = i]
            /\ Becomes(i, [conns[i] EXCEPT !.id = calls[c].to, !.gen = calls[c].gen])
  /\ Done(c)
  /\ UNCHANGED <<rows, gens, attempts, finds, tasks, restore, began, faults>>

----------------------------------------------------------------------------
(* Calls: OAuth callbacks and tools.                                       *)

CallsBack(c, id) ==
  /\ Starts(c, "callback", id) /\ rows[id] # NoRow /\ current[id] # 0
  /\ calls' = [calls EXCEPT ![c] = [NoCall EXCEPT !.kind = "callback", !.id = id, !.pc = "check",
                                      !.conn = current[id]]]
  /\ UNCHANGED <<rows, kv, table, attempts, finds, tasks, restore, faults>>

To(c, pc, end) == calls' = [calls EXCEPT ![c].pc = pc, ![c].end = end]

\* After check_state: an invalid state, a connection that is there already, a
\* callback with an error or without a code, and one with a code.
Checked(c) ==
  /\ calls[c].pc = "check"
  /\ LET id == calls[c].id IN
       \/ /\ conns[calls[c].conn].id \notin kv
          /\ Done(c) /\ UNCHANGED <<attempts, tasks>>
       \/ /\ conns[calls[c].conn].id \in kv /\ conns[calls[c].conn].state \in Good
          /\ To(c, "consume", "good") /\ UNCHANGED <<attempts, tasks>>
       \/ /\ conns[calls[c].conn].id \in kv /\ conns[calls[c].conn].state \notin Good
          /\ To(c, "consume", "fail") /\ UNCHANGED <<attempts, tasks>>
       \/ /\ conns[calls[c].conn].id \in kv /\ conns[calls[c].conn].state \notin Good
          /\ IF current[id] = 0 THEN To(c, "consume", "raise") /\ UNCHANGED <<attempts, tasks>>
             ELSE /\ Establish(id, TRUE)
                  /\ calls' = [calls EXCEPT ![c].pc = "establish", ![c].end = "connect",
                                            ![c].on = attempts'[id].task]
  /\ UNCHANGED <<rows, kv, table, finds, restore, began, faults>>

Established(c) ==
  /\ Waited(c, "establish")
  /\ calls' = [calls EXCEPT ![c].pc = "consume", ![c].on = 0]
  /\ UNCHANGED <<rows, kv, table, attempts, finds, tasks, restore, began, faults>>

\* The state is consumed; what failed marks the connection and saves its row.
Consumed(c) ==
  /\ calls[c].pc = "consume"
  /\ kv' = kv \ {conns[calls[c].conn].id}
  /\ LET d == [conns[calls[c].conn] EXCEPT !.state = "FAILED", !.auth = FALSE] IN
       IF \/ calls[c].end = "fail"
          \/ calls[c].end = "connect" /\ conns[calls[c].conn].state \notin Good \union {"AUTHENTICATING"}
       THEN Becomes(calls[c].conn, d) /\ Saves(d)
       ELSE UNCHANGED <<conns, rows>>
  /\ Done(c)
  /\ UNCHANGED <<current, gens, attempts, finds, tasks, restore, began, faults>>

ToolStarts(c, id) ==
  /\ Starts(c, "tool", id) /\ current[id] # 0
  /\ conns[current[id]].session /\ conns[current[id]].state = "READY"
  /\ calls' = [calls EXCEPT ![c] = [NoCall EXCEPT !.kind = "tool", !.id = id, !.pc = "tool"]]
  /\ UNCHANGED <<rows, kv, table, attempts, finds, tasks, restore, faults>>

ToolReturns(c) ==
  /\ calls[c].pc = "tool" /\ Done(c)
  /\ UNCHANGED <<rows, kv, table, attempts, finds, tasks, restore, began, faults>>

\* The server wants another authorization: it is asked for on the connection
\* the id has now.
ToolNeedsAuth(c) ==
  /\ calls[c].pc = "tool" /\ current[calls[c].id] # 0 /\ Fault
  /\ kv' = kv \union {calls[c].id}
  /\ \E d \in Authorizations(conns[current[calls[c].id]]) : Becomes(current[calls[c].id], d) /\ Saves(d)
  /\ Done(c)
  /\ UNCHANGED <<current, gens, attempts, finds, tasks, restore, began>>

----------------------------------------------------------------------------
(* Restarting.                                                             *)

Restart ==
  /\ Fault
  /\ \E f \in [Ids -> Conns] :
       /\ \A a, b \in Ids : f[a] = f[b] => a = b
       /\ current' = [id \in Ids |-> IF rows[id] = NoRow THEN 0 ELSE f[id]]
       /\ conns' = [i \in Conns |-> IF \E id \in Ids : current'[id] = i
                                    THEN LET id == CHOOSE id \in Ids : current'[id] = i IN Made(id, 1, rows[id])
                                    ELSE Unmade]
  /\ gens' = [id \in Ids |-> IF rows[id] = NoRow THEN 0 ELSE 1]
  /\ attempts' = [id \in Ids |-> NoPend] /\ finds' = [id \in Ids |-> NoPend]
  /\ tasks' = [t \in TaskIds |-> NoTask] /\ calls' = [c \in Callers |-> NoCall]
  /\ restore' = [id \in Ids |-> IF rows[id] = NoRow \/ rows[id].auth THEN "no" ELSE "queued"]
  /\ UNCHANGED <<rows, kv, began>>

RestoreGoes(id) ==
  /\ restore[id] = "queued" /\ Cardinality({i \in Ids : restore[i] = "going"}) < RestoreConcurrency
  /\ restore' = [restore EXCEPT ![id] = "going"]
  /\ Establish(id, FALSE)
  /\ UNCHANGED <<rows, kv, table, finds, calls, began, faults>>

RestoreDone(id) ==
  /\ restore[id] \in {"going", "ending"}
  /\ \A t \in Running : tasks[t].kind = "attempt" => conns[tasks[t].conn].id # id
  /\ restore' = [restore EXCEPT ![id] = "no"]
  /\ UNCHANGED <<rows, kv, table, attempts, finds, tasks, calls, began, faults>>

\* Whom the restore deadline finds unfinished.
Late == {id \in Ids : current[id] # 0}

RestoreTimeout ==
  /\ ~Idle /\ Fault /\ \A id \in Ids : restore[id] # "ending"
  /\ conns' = [i \in Conns |-> IF /\ i \in {current[id] : id \in Late}
                                  /\ conns[i].state \notin {"READY", "AUTHENTICATING", "FAILED"}
                               THEN [conns[i] EXCEPT !.state = "FAILED"] ELSE conns[i]]
  /\ tasks' = Cancelled(Running)
  /\ attempts' = [id \in Ids |-> NoPend] /\ finds' = [id \in Ids |-> NoPend]
  /\ restore' = [id \in Ids |-> IF restore[id] = "going" THEN "ending" ELSE "no"]
  /\ UNCHANGED <<rows, kv, current, gens, calls, began>>

----------------------------------------------------------------------------
Init ==
  /\ rows = [id \in Ids |-> NoRow] /\ kv = {}
  /\ current = [id \in Ids |-> 0] /\ conns = [i \in Conns |-> Unmade] /\ gens = [id \in Ids |-> 0]
  /\ attempts = [id \in Ids |-> NoPend] /\ finds = [id \in Ids |-> NoPend]
  /\ tasks = [t \in TaskIds |-> NoTask] /\ calls = [c \in Callers |-> NoCall]
  /\ restore = [id \in Ids |-> "no"] /\ began = 0 /\ faults = 0

\* A call that has nothing to wait for is not interrupted.
Free == \A c \in Callers : calls[c].pc \in {"attempt", "find"} => calls[c].on # 0

Next ==
  \/ \E c \in Callers :
       \/ CancelsFind(c) \/ Closes(c) \/ RowMoves(c)
       \/ /\ Free
          /\ \/ \E id \in Registrable, kind \in {"register", "remove"} : Replaces(c, kind, id)
             \/ \E id \in Registrable, to \in Ids : Moves(c, id, to)
             \/ \E id \in Ids : CallsBack(c, id) \/ ToolStarts(c, id)
             \/ SessionCloses(c) \/ ConnectionMoves(c) \/ Checked(c) \/ Established(c) \/ Consumed(c)
             \/ ToolReturns(c) \/ ToolNeedsAuth(c)
  \/ Free /\ \E id \in Ids : Connect(id) \/ Refresh(id) \/ RestoreGoes(id) \/ RestoreDone(id)
  \/ Free /\ \E t \in TaskIds :
       \/ CallerCancelled(t) \/ Unwinds(t) \/ AttemptBegins(t) \/ Closed(t) \/ Resumes(t) \/ SleepEnds(t)
       \/ OpenSucceeds(t) \/ \E got \in {"auth", "stale", "error"} : OpenRaises(t, got)
       \/ FindBegins(t) \/ Found(t) \/ FindStale(t) \/ Dropped(t) \/ FindNeedsAuth(t) \/ FindFails(t)
  \/ Free /\ (Restart \/ RestoreTimeout)

Spec == Init /\ [][Next]_vars

----------------------------------------------------------------------------
\* "Concurrent connection work uses one transport open": a connection of an id
\* and a generation has one attempt under way, whoever asks for it.
OneAttempt ==
  \A t, u \in Running :
    /\ tasks[t].kind = "attempt" /\ tasks[u].kind = "attempt"
    /\ tasks[t].conn = tasks[u].conn /\ tasks[t].id = tasks[u].id /\ tasks[t].gen = tasks[u].gen
    /\ ~tasks[t].cancelled /\ ~tasks[u].cancelled
    => t = u
SharedAttempts == [][OneAttempt']_vars

\* A connection gets a session only while its id names it and its generation is the
\* id's latest: what a registration, a removal or a move overtook opens nothing, also
\* if its cancellation came to nothing.
OnlyCurrentOpens ==
  [][\A i \in Conns : conns[i].id # NoId /\ ~conns[i].session /\ conns'[i].session =>
       /\ current'[conns'[i].id] = i /\ gens'[conns'[i].id] = conns'[i].gen]_vars

\* When the connections are restored, in time or not, none is left connecting
\* or discovering with nobody at work on it, except by a discovery that closed
\* a stale session and could not open another.
RestoreSettles ==
  [][~Idle /\ Idle' =>
       \A id \in Ids : current'[id] # 0 =>
         \/ conns'[current'[id]].state \in {"READY", "CONNECTED", "AUTHENTICATING", "FAILED"}
         \/ conns'[current'[id]].left
         \/ \E t \in Running : tasks[t].kind = "find" /\ tasks[t].conn = current'[id]]_vars

\* Work on connections is shared while it is current, void when it is overtaken
\* and over when they are restored: the parts above.
ConnectionsAreOrderly == SharedAttempts /\ OnlyCurrentOpens /\ RestoreSettles
=============================================================================

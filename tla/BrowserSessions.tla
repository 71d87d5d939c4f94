---------------------------- MODULE BrowserSessions ----------------------------
(***************************************************************************)
(* The browsers of a connector (browser/connector.py) and the records that  *)
(* own them (browser/store.py): one shared record, one for each execution   *)
(* and one for each browser that lost its race to be recorded. A record is  *)
(* read and written under the lock of its key; between two such sections an *)
(* operation asks the platform to create, list, connect to or delete a      *)
(* browser, and others run.                                                 *)
(***************************************************************************)
EXTENDS Integers, FiniteSets

CONSTANTS
  Modes,     \* how executions find their browser
  Execs,     \* executions
  Ops,       \* operations that may run at the same time
  MaxSids,   \* bound on browsers created
  MaxOps,    \* bound on operations
  MaxFaults, \* bound on failed requests, expired browsers and restarts
  Reuse, NoRec, NoExec

\* Records, whatever browser they are of.
Recs == [sid: Nat, closed: BOOLEAN, pending: BOOLEAN, cleanup: BOOLEAN, old: BOOLEAN]

BrowserAssumption ==
  /\ Modes \subseteq {"one-shot", "reuse", "dynamic", "kitesurf"}
  /\ {Reuse, NoExec} \cap Execs = {} /\ NoRec \notin Recs
  /\ ({Reuse} \union Execs) \cap 1..MaxSids = {}   \* keys have prefixes
  /\ MaxSids \in Nat \ {0} /\ {MaxOps, MaxFaults} \subseteq Nat

VARIABLES
  mode,      \* the options of the connector
  store,     \* key -> record, or NoRec
  sockets,   \* execution -> session of its cached socket, or NoSocket
  opening,   \* execution -> the operation that has its connect lock, or 0
  ops,       \* the operations under way
  alive,     \* the browsers of the platform
  forgotten, \* history: browsers whose mark for deletion was taken back,
             \* or that nothing was recorded of when the agent went away
  made, began, faults

vars == <<mode, store, sockets, opening, ops, alive, forgotten, made, began, faults>>

Sids == 1..MaxSids
Keys == {Reuse} \union Execs \union Sids   \* a session's own key queues its deletion
Marker == 0                                \* what stands in a kitesurf execution's record
NoSocket == -1
IsExec(k) == k \in Execs

Rec(sid) == [sid |-> sid, closed |-> FALSE, pending |-> FALSE, cleanup |-> FALSE, old |-> FALSE]

\* A record is marked: its browser shall be deleted, then the record.
Marked(r) == [r EXCEPT !.closed = TRUE, !.pending = TRUE, !.cleanup = TRUE]

NoOp == [pc |-> "idle", kind |-> "none", exec |-> NoExec, key |-> Reuse, sid |-> 0, then |-> "done",
         soft |-> FALSE, up |-> FALSE, shared |-> 0]

Is(o, pc) == ops[o].pc = pc
Fault == faults < MaxFaults /\ faults' = faults + 1
Put(k, r) == store' = [store EXCEPT ![k] = r]

\* An operation goes on, or is over; then it gives up the connect lock it has.
Goes(o, r) == ops' = [ops EXCEPT ![o] = r] /\ UNCHANGED opening
Over(o) ==
  /\ ops' = [ops EXCEPT ![o] = NoOp]
  /\ opening' = [e \in Execs |-> IF opening[e] = o THEN 0 ELSE opening[e]]
To(o, pc) == IF pc = "done" THEN Over(o) ELSE Goes(o, [ops[o] EXCEPT !.pc = pc])

\* Deletes the browser of a record that is marked, then goes on. What fails
\* is passed over where it is soft.
Retry(o, key, then, soft) ==
  Goes(o, [ops[o] EXCEPT !.pc = "retry", !.key = key, !.then = then, !.soft = soft])

Dropped(sid) == [e \in Execs |-> IF sockets[e] = sid THEN NoSocket ELSE sockets[e]]

----------------------------------------------------------------------------
(* _retry_delete and _finish_delete.                                       *)

RetryReads(o) ==
  /\ Is(o, "retry")
  /\ LET r == store[ops[o].key] IN
       IF r = NoRec THEN To(o, ops[o].then)
       ELSE IF ~r.pending THEN To(o, ops[o].then)
       ELSE Goes(o, [ops[o] EXCEPT !.pc = "delete", !.sid = r.sid])
  /\ UNCHANGED <<mode, store, sockets, alive, forgotten, made, began, faults>>

\* delete_browser_session: one that is gone already is no failure.
Deleted(o) ==
  /\ Is(o, "delete")
  /\ alive' = alive \ {ops[o].sid}
  /\ To(o, "finish")
  /\ UNCHANGED <<mode, store, sockets, forgotten, made, began, faults>>

DeleteFails(o) ==
  /\ Is(o, "delete") /\ Fault
  /\ IF ops[o].soft THEN To(o, ops[o].then) ELSE Over(o)
  /\ UNCHANGED <<mode, store, sockets, alive, forgotten, made, began>>

\* _finish_delete
Finished(key, sid) ==
  LET r == store[key] IN
  IF r = NoRec THEN r
  ELSE IF r.sid # sid \/ ~r.pending THEN r
  ELSE IF r.cleanup THEN NoRec
  ELSE [r EXCEPT !.pending = FALSE, !.cleanup = FALSE]

Finishes(o) ==
  /\ Is(o, "finish")
  /\ Put(ops[o].key, Finished(ops[o].key, ops[o].sid))
  /\ To(o, ops[o].then)
  /\ UNCHANGED <<mode, sockets, alive, forgotten, made, began, faults>>

\* _delete_if, for a session that was found closed or dead.
DropsRecord(o) ==
  /\ Is(o, "drop")
  /\ LET r == store[ops[o].key] IN
       IF r # NoRec /\ r.sid = ops[o].sid THEN Put(ops[o].key, NoRec) ELSE UNCHANGED store
  /\ To(o, ops[o].then)
  /\ UNCHANGED <<mode, sockets, alive, forgotten, made, began, faults>>

----------------------------------------------------------------------------
(* _ensure_stored_session and _create_and_commit.                          *)

\* A session was found; an operation that opens a socket connects to it.
Has(o, sid) ==
  IF ops[o].kind = "send" THEN Goes(o, [ops[o] EXCEPT !.pc = "connect", !.sid = sid]) ELSE Over(o)

Ensures(o) ==
  /\ Is(o, "ensure")
  /\ LET r == store[Reuse] IN
       IF r = NoRec THEN Goes(o, [ops[o] EXCEPT !.pc = "create", !.key = Reuse])
       ELSE IF r.pending THEN Retry(o, Reuse, "ensure", FALSE)
       ELSE Goes(o, [ops[o] EXCEPT !.pc = IF r.closed THEN "drop" ELSE "probe", !.key = Reuse,
                                   !.sid = r.sid, !.then = "ensure"])
  /\ UNCHANGED <<mode, store, sockets, alive, forgotten, made, began, faults>>

\* _is_alive, for a reuse or a promotion or an execution's own session.
Probed(o) ==
  /\ ops[o].pc \in {"probe", "probeExec", "probeShared", "probePromoted", "probeOther", "probeInfo"}
  /\ Goes(o, [ops[o] EXCEPT !.up = ops[o].sid \in alive,
                !.pc = CASE ops[o].pc = "probe" -> "settle"
                         [] ops[o].pc = "probeExec" -> "own"
                         [] ops[o].pc = "probeShared" -> "joins"
                         [] ops[o].pc = "probePromoted" -> "promoteShared"
                         [] ops[o].pc = "probeOther" -> "promoteLocked"
                         [] ops[o].pc = "probeInfo" -> "info"])
  /\ UNCHANGED <<mode, store, sockets, alive, forgotten, made, began, faults>>

\* A request fails otherwise, or a loop gave up after its attempts.
OpFails(o) ==
  /\ ops[o].pc \in {"probe", "probeExec", "probeShared", "probePromoted", "probeOther", "probeInfo",
                    "create", "connect", "ensure", "promote"}
  /\ Fault
  /\ IF mode = "kitesurf" /\ Is(o, "connect")
     THEN Goes(o, [ops[o] EXCEPT !.pc = "drop", !.then = "done"]) ELSE Over(o)
  /\ UNCHANGED <<mode, store, sockets, alive, forgotten, made, began>>

\* The record is looked at again: by its session alone.
Settles(o) ==
  /\ Is(o, "settle")
  /\ LET r == store[Reuse] IN
       CASE r = NoRec -> To(o, "ensure") /\ UNCHANGED store
         [] r # NoRec /\ r.sid # ops[o].sid -> To(o, "ensure") /\ UNCHANGED store
         [] r # NoRec /\ r.sid = ops[o].sid /\ ops[o].up ->
              Put(Reuse, [r EXCEPT !.old = FALSE]) /\ Has(o, r.sid)
         [] r # NoRec /\ r.sid = ops[o].sid /\ ~ops[o].up -> Put(Reuse, NoRec) /\ To(o, "ensure")
  /\ UNCHANGED <<mode, sockets, alive, forgotten, made, began, faults>>

Creates(o) ==
  /\ Is(o, "create") /\ made < MaxSids
  /\ made' = made + 1 /\ alive' = alive \union {made + 1}
  /\ Goes(o, [ops[o] EXCEPT !.pc = "commit", !.sid = made + 1])
  /\ UNCHANGED <<mode, store, sockets, forgotten, began, faults>>

\* A mutant: the browser that came second is not deleted.
CommitsOnly(o) ==
  /\ Is(o, "commit")
  /\ IF store[ops[o].key] = NoRec
     THEN Put(ops[o].key, Rec(ops[o].sid)) /\ Has(o, ops[o].sid)
     ELSE Has(o, store[ops[o].key].sid) /\ UNCHANGED store
  /\ UNCHANGED <<mode, sockets, alive, forgotten, made, began, faults>>

\* The first browser is recorded; one that comes second is deleted, and the
\* first is used whatever its record says.
Commits(o) ==
  /\ Is(o, "commit")
  /\ IF store[ops[o].key] = NoRec
     THEN Put(ops[o].key, Rec(ops[o].sid)) /\ Has(o, ops[o].sid)
     ELSE /\ Goes(o, [ops[o] EXCEPT !.pc = "queue", !.shared = store[ops[o].key].sid])
          /\ UNCHANGED store
  /\ UNCHANGED <<mode, sockets, alive, forgotten, made, began, faults>>

\* _queue_orphan_delete
Queues(o) ==
  /\ Is(o, "queue")
  /\ IF store[ops[o].sid] = NoRec THEN Put(ops[o].sid, Marked(Rec(ops[o].sid))) ELSE UNCHANGED store
  /\ Retry(o, ops[o].sid, "won", TRUE)
  /\ UNCHANGED <<mode, sockets, alive, forgotten, made, began, faults>>

UsesWinner(o) ==
  /\ Is(o, "won")
  /\ Has(o, ops[o].shared)
  /\ UNCHANGED <<mode, store, sockets, alive, forgotten, made, began, faults>>

----------------------------------------------------------------------------
(* _resolve_session of an execution with a browser of its own.             *)

Resolves(o) ==
  /\ Is(o, "resolve")
  /\ LET r == store[ops[o].exec] IN
       CASE r # NoRec /\ r.closed ->
              IF r.pending THEN Retry(o, ops[o].exec, "done", TRUE) ELSE Over(o)
         [] r # NoRec /\ ~r.closed -> Goes(o, [ops[o] EXCEPT !.pc = "probeExec", !.sid = r.sid])
         [] r = NoRec ->
              Goes(o, [ops[o] EXCEPT !.pc = IF mode = "dynamic" THEN "shared" ELSE "create",
                                     !.key = ops[o].exec])
  /\ UNCHANGED <<mode, store, sockets, alive, forgotten, made, began, faults>>

\* Its browser is touched and used, or its record becomes a tombstone.
Touched(k, sid) == IF store[k] # NoRec /\ store[k].sid = sid
                   THEN [store EXCEPT ![k].old = FALSE] ELSE store

\* _tombstone: the mark for deletion is taken back.
Tombstone(k, sid) ==
  IF store[k] # NoRec /\ store[k].sid = sid
  THEN /\ Put(k, [store[k] EXCEPT !.closed = TRUE, !.pending = FALSE, !.cleanup = FALSE])
       /\ forgotten' = IF sid \in alive THEN forgotten \union {sid} ELSE forgotten
  ELSE UNCHANGED <<store, forgotten>>

UsesOwn(o) ==
  /\ Is(o, "own")
  /\ IF ops[o].up
     THEN store' = Touched(ops[o].exec, ops[o].sid) /\ Has(o, ops[o].sid) /\ UNCHANGED forgotten
     ELSE Tombstone(ops[o].exec, ops[o].sid) /\ Over(o)
  /\ UNCHANGED <<mode, sockets, alive, made, began, faults>>

ReadsShared(o) ==
  /\ Is(o, "shared")
  /\ LET r == store[Reuse] IN
       CASE r = NoRec -> To(o, "create")
         [] r # NoRec /\ r.pending -> Retry(o, Reuse, "createOwn", FALSE)
         [] r # NoRec /\ ~r.pending ->
              Goes(o, [ops[o] EXCEPT !.pc = IF r.closed THEN "drop" ELSE "probeShared", !.key = Reuse,
                                     !.sid = r.sid, !.then = "createOwn"])
  /\ UNCHANGED <<mode, store, sockets, alive, forgotten, made, began, faults>>

CreatesOwn(o) ==
  /\ Is(o, "createOwn")
  /\ Goes(o, [ops[o] EXCEPT !.pc = "create", !.key = ops[o].exec])
  /\ UNCHANGED <<mode, store, sockets, alive, forgotten, made, began, faults>>

Joins(o) ==
  /\ Is(o, "joins")
  /\ IF ops[o].up THEN store' = Touched(Reuse, ops[o].sid) /\ Has(o, ops[o].sid)
     ELSE To(o, "drop") /\ UNCHANGED store
  /\ UNCHANGED <<mode, sockets, alive, forgotten, made, began, faults>>

----------------------------------------------------------------------------
(* Sockets, and kitesurf's.                                                *)

Begin(o, kind, e, pc) ==
  /\ Is(o, "idle") /\ began < MaxOps /\ began' = began + 1
  /\ ops' = [ops EXCEPT ![o] = [NoOp EXCEPT !.pc = pc, !.kind = kind, !.exec = e]]

\* _socket and _open_socket: a cached socket is used and its records touched;
\* one socket is opened for an execution at a time.
Sends(o, e) ==
  /\ sockets[e] = NoSocket /\ opening[e] = 0
  /\ Begin(o, "send", e, IF mode = "reuse" THEN "ensure"
                         ELSE IF mode = "kitesurf" THEN "marker" ELSE "resolve")
  /\ opening' = [opening EXCEPT ![e] = o]
  /\ UNCHANGED <<mode, store, sockets, alive, forgotten, made, faults>>

SendsAgain(e) ==
  /\ sockets[e] \in Sids
  /\ \E k \in {e, Reuse} :
       /\ store[k] # NoRec /\ store[k].sid = sockets[e] /\ ~store[k].closed /\ store[k].old
       /\ Put(k, [store[k] EXCEPT !.old = FALSE])
  /\ UNCHANGED <<mode, sockets, opening, ops, alive, forgotten, made, began, faults>>

\* A kitesurf execution connects once in its life.
Marks(o) ==
  /\ Is(o, "marker")
  /\ IF store[ops[o].exec] # NoRec THEN Over(o) /\ UNCHANGED store
     ELSE /\ Put(ops[o].exec, Rec(Marker))
          /\ Goes(o, [ops[o] EXCEPT !.pc = "connect", !.key = ops[o].exec, !.sid = Marker])
  /\ UNCHANGED <<mode, sockets, alive, forgotten, made, began, faults>>

Connects(o) ==
  /\ Is(o, "connect") /\ (ops[o].sid # Marker => ops[o].sid \in alive)
  /\ sockets' = [sockets EXCEPT ![ops[o].exec] = ops[o].sid]
  /\ Over(o)
  /\ UNCHANGED <<mode, store, alive, forgotten, made, began, faults>>

\* The browser is gone: connecting to it fails.
ConnectsToNone(o) ==
  /\ Is(o, "connect") /\ ops[o].sid # Marker /\ ops[o].sid \notin alive
  /\ Over(o)
  /\ UNCHANGED <<mode, store, sockets, alive, forgotten, made, began, faults>>

----------------------------------------------------------------------------
(* start_session and promotion, session_info, reset_session, close_session. *)

StartsSession(o, e) ==
  /\ mode \in {"reuse", "dynamic"}
  /\ Begin(o, "start", e, IF mode = "dynamic" THEN "promote" ELSE "ensure")
  /\ UNCHANGED <<mode, store, sockets, opening, alive, forgotten, made, faults>>

Promotes(o) ==
  /\ Is(o, "promote")
  /\ LET r == store[ops[o].exec] IN
       CASE r = NoRec -> To(o, "ensure") /\ UNCHANGED <<store, forgotten>>
         [] r # NoRec /\ r.closed -> Tombstone(ops[o].exec, r.sid) /\ Over(o)
         [] r # NoRec /\ ~r.closed ->
              /\ Goes(o, [ops[o] EXCEPT !.pc = "probePromoted", !.sid = r.sid])
              /\ UNCHANGED <<store, forgotten>>
  /\ UNCHANGED <<mode, sockets, alive, made, began, faults>>

PromoteReadsShared(o) ==
  /\ Is(o, "promoteShared")
  /\ LET r == store[Reuse] IN
       CASE ~ops[o].up -> Tombstone(ops[o].exec, ops[o].sid) /\ Over(o)
         [] ops[o].up /\ r = NoRec ->
              /\ Goes(o, [ops[o] EXCEPT !.pc = "promoteLocked", !.shared = 0, !.key = ops[o].exec,
                                        !.up = FALSE])
              /\ UNCHANGED <<store, forgotten>>
         [] ops[o].up /\ r # NoRec /\ r.sid = ops[o].sid ->
              store' = Touched(Reuse, r.sid) /\ Over(o) /\ UNCHANGED forgotten
         [] ops[o].up /\ r # NoRec /\ r.sid # ops[o].sid /\ r.pending ->
              Retry(o, Reuse, "promote", FALSE) /\ UNCHANGED <<store, forgotten>>
         [] ops[o].up /\ r # NoRec /\ r.sid # ops[o].sid /\ ~r.pending ->
              /\ Goes(o, [ops[o] EXCEPT !.pc = "probeOther", !.shared = ops[o].sid, !.sid = r.sid])
              /\ UNCHANGED <<store, forgotten>>
  /\ UNCHANGED <<mode, sockets, alive, made, began, faults>>

\* The session of the execution, and the shared one that was looked at (0: none).
Promoted(o) == IF ops[o].shared = 0 THEN ops[o].sid ELSE ops[o].shared
Seen(o) == IF ops[o].shared = 0 THEN 0 ELSE ops[o].sid
SidOf(k) == IF store[k] = NoRec THEN 0 ELSE store[k].sid

\* A mutant: what is shared now is not compared with what was looked at.
UnchangedExec(o) == SidOf(ops[o].exec) = Promoted(o)

\* Under both locks the sessions must be those that were looked at.  What is
\* written then is the execution's record as it was read, unmarked.
Unchanged(o) == SidOf(ops[o].exec) = Promoted(o) /\ SidOf(Reuse) = Seen(o)

PromotesLocked(o) ==
  /\ Is(o, "promoteLocked")
  /\ CASE ~Unchanged(o) -> To(o, "promote") /\ UNCHANGED store
       [] Unchanged(o) /\ Seen(o) # 0 /\ ops[o].up -> Over(o) /\ UNCHANGED store
       [] Unchanged(o) /\ Seen(o) # 0 /\ ~ops[o].up ->
            Put(Reuse, Marked(store[Reuse])) /\ Retry(o, Reuse, "promote", FALSE)
       [] Unchanged(o) /\ Seen(o) = 0 ->
            Put(Reuse, Rec(ops[o].sid)) /\ Over(o)
  /\ UNCHANGED <<mode, sockets, alive, forgotten, made, began, faults>>

AsksInfo(o) ==
  /\ mode # "kitesurf" /\ store[Reuse] # NoRec
  /\ Begin(o, "info", NoExec, "ask")
  /\ UNCHANGED <<mode, store, sockets, opening, alive, forgotten, made, faults>>

Asks(o) ==
  /\ Is(o, "ask")
  /\ LET r == store[Reuse] IN
       CASE r = NoRec -> Over(o)
         [] r # NoRec /\ r.pending -> Retry(o, Reuse, "done", FALSE)
         [] r # NoRec /\ ~r.pending ->
              Goes(o, [ops[o] EXCEPT !.pc = "probeInfo", !.key = Reuse, !.sid = r.sid, !.then = "done"])
  /\ UNCHANGED <<mode, store, sockets, alive, forgotten, made, began, faults>>

Informs(o) ==
  /\ Is(o, "info")
  /\ To(o, IF ops[o].up THEN "done" ELSE "drop")
  /\ UNCHANGED <<mode, store, sockets, alive, forgotten, made, began, faults>>

\* reset_session and close_session: mark, drop the sockets, delete; a reset goes
\* on to a new browser.
Closes(o, e, reset) ==
  /\ mode # "kitesurf" /\ (reset => mode # "one-shot")
  /\ Is(o, "idle") /\ began < MaxOps /\ began' = began + 1
  /\ LET r    == store[Reuse]
         next == [NoOp EXCEPT !.kind = IF reset THEN "reset" ELSE "close", !.exec = e]
         then == IF reset THEN "ensure" ELSE "done"
     IN  IF r = NoRec
         THEN /\ ops' = [ops EXCEPT ![o] = IF reset THEN [next EXCEPT !.pc = "ensure"] ELSE NoOp]
              /\ UNCHANGED <<store, sockets>>
         ELSE /\ store' = [k \in Keys |->
                             IF k = Reuse THEN Marked(r)
                             ELSE IF reset /\ k = e /\ SidOf(k) = r.sid THEN NoRec ELSE store[k]]
              /\ sockets' = Dropped(r.sid)
              /\ ops' = [ops EXCEPT ![o] = [next EXCEPT !.pc = "retry", !.key = Reuse, !.then = then]]
  /\ UNCHANGED <<mode, opening, alive, forgotten, made, faults>>

----------------------------------------------------------------------------
(* The end of passes and executions, sweeping, and what happens around.    *)

PassEnds(e, paused) ==
  /\ sockets[e] # NoSocket
  /\ sockets' = [sockets EXCEPT ![e] = NoSocket]
  /\ IF mode = "kitesurf" /\ paused /\ store[e] # NoRec
     THEN Put(e, [store[e] EXCEPT !.closed = TRUE]) ELSE UNCHANGED store
  /\ UNCHANGED <<mode, opening, ops, alive, forgotten, made, began, faults>>

\* dispose_execution: a browser of its own is deleted, one that it shares stays.
Disposes(o, e) ==
  /\ Is(o, "idle") /\ began < MaxOps /\ began' = began + 1
  /\ sockets' = [sockets EXCEPT ![e] = NoSocket] /\ opening' = [opening EXCEPT ![e] = 0]
  /\ LET r        == store[e]
         promoted == r # NoRec /\ mode = "dynamic" /\ SidOf(Reuse) = r.sid
         deletes  == [NoOp EXCEPT !.pc = "retry", !.kind = "dispose", !.key = e, !.soft = TRUE]
     IN  CASE r = NoRec -> UNCHANGED <<store, ops>>
           [] r # NoRec /\ mode = "kitesurf" -> Put(e, NoRec) /\ UNCHANGED ops
           [] r # NoRec /\ mode # "kitesurf" /\ r.pending ->
                ops' = [ops EXCEPT ![o] = deletes] /\ UNCHANGED store
           [] r # NoRec /\ mode # "kitesurf" /\ ~r.pending /\ ~promoted /\ ~r.closed ->
                ops' = [ops EXCEPT ![o] = deletes] /\ Put(e, Marked(r))
           [] r # NoRec /\ mode # "kitesurf" /\ ~r.pending /\ promoted -> Put(e, NoRec) /\ UNCHANGED ops
           [] r # NoRec /\ mode # "kitesurf" /\ ~r.pending /\ ~promoted /\ r.closed ->
                UNCHANGED <<store, ops>>
  /\ UNCHANGED <<mode, alive, forgotten, made, faults>>

Active == {sockets[e] : e \in Execs} \ {NoSocket, Marker}

\* sweep, of one key: retry a deletion, age a tombstone, keep what has a socket,
\* mark what was idle too long.
Sweeps(o, k) ==
  /\ Is(o, "idle") /\ store[k] # NoRec /\ began < MaxOps /\ began' = began + 1
  /\ LET r       == store[k]
         deletes == [NoOp EXCEPT !.pc = "retry", !.kind = "sweep", !.key = k, !.soft = TRUE]
     IN  CASE r.pending ->
                /\ ops' = [ops EXCEPT ![o] = deletes]
                /\ sockets' = Dropped(r.sid) /\ UNCHANGED store
           [] ~r.pending /\ r.closed ->
                /\ store' = IF r.old THEN [store EXCEPT ![k] = NoRec] ELSE store
                /\ sockets' = IF r.sid \in Active THEN Dropped(r.sid) ELSE sockets
                /\ UNCHANGED ops
           [] ~r.pending /\ ~r.closed /\ r.sid \in Active -> Put(k, [r EXCEPT !.old = FALSE]) /\ UNCHANGED <<sockets, ops>>
           [] ~r.pending /\ ~r.closed /\ r.sid \notin Active /\ r.old ->
                /\ sockets' = Dropped(r.sid)
                /\ IF r.sid = Marker
                   THEN Put(k, [r EXCEPT !.closed = TRUE]) /\ UNCHANGED ops
                   ELSE /\ Put(k, [Marked(r) EXCEPT !.cleanup = ~IsExec(k)])
                        /\ ops' = [ops EXCEPT ![o] = deletes]
           [] ~r.pending /\ ~r.closed /\ r.sid \notin Active /\ ~r.old -> UNCHANGED <<store, sockets, ops>>
  /\ UNCHANGED <<mode, opening, alive, forgotten, made, faults>>

Ages(k) ==
  /\ store[k] # NoRec /\ ~store[k].old
  /\ Put(k, [store[k] EXCEPT !.old = TRUE])
  /\ UNCHANGED <<mode, sockets, opening, ops, alive, forgotten, made, began, faults>>

\* The platform ends a browser.
Expires(sid) ==
  /\ sid \in alive /\ Fault /\ alive' = alive \ {sid}
  /\ UNCHANGED <<mode, store, sockets, opening, ops, forgotten, made, began>>

\* A restart: records and browsers stay.
Restarts ==
  /\ Fault
  /\ sockets' = [e \in Execs |-> NoSocket] /\ opening' = [e \in Execs |-> 0]
  /\ ops' = [o \in Ops |-> NoOp]
  /\ forgotten' = forgotten \union {ops[o].sid : o \in {o \in Ops : ops[o].pc \in {"commit", "queue"}}}
  /\ UNCHANGED <<mode, store, alive, made, began>>

----------------------------------------------------------------------------
Init ==
  /\ mode \in Modes
  /\ store = [k \in Keys |-> NoRec] /\ sockets = [e \in Execs |-> NoSocket]
  /\ opening = [e \in Execs |-> 0] /\ ops = [o \in Ops |-> NoOp]
  /\ alive = {} /\ forgotten = {} /\ made = 0 /\ began = 0 /\ faults = 0

Next ==
  \/ \E o \in Ops :
       \/ RetryReads(o) \/ Deleted(o) \/ DeleteFails(o) \/ Finishes(o) \/ DropsRecord(o)
       \/ Ensures(o) \/ Probed(o) \/ OpFails(o) \/ Settles(o) \/ Creates(o) \/ Commits(o) \/ Queues(o)
       \/ UsesWinner(o) \/ Resolves(o) \/ UsesOwn(o) \/ ReadsShared(o) \/ CreatesOwn(o) \/ Joins(o)
       \/ Marks(o) \/ Connects(o) \/ ConnectsToNone(o)
       \/ Promotes(o) \/ PromoteReadsShared(o) \/ PromotesLocked(o) \/ Asks(o) \/ Informs(o) \/ AsksInfo(o)
       \/ \E e \in Execs : Sends(o, e) \/ StartsSession(o, e) \/ Disposes(o, e)
       \/ \E e \in Execs, reset \in BOOLEAN : Closes(o, e, reset)
       \/ \E k \in Keys : Sweeps(o, k)
  \/ \E e \in Execs : SendsAgain(e) \/ \E paused \in BOOLEAN : PassEnds(e, paused)
  \/ \E k \in Keys : Ages(k)
  \/ \E sid \in Sids : Expires(sid)
  \/ Restarts

Spec == Init /\ [][Next]_vars

----------------------------------------------------------------------------
Records == {store[k] : k \in {k \in Keys : store[k] # NoRec}}

\* No browser runs that nothing knows of: a record has it, or the operation that
\* has just created it; except those of an agent that went away between the
\* two, and those whose mark for deletion a promotion took back.
EveryBrowserIsOwned ==
  \A sid \in alive \ forgotten :
    \/ \E r \in Records : r.sid = sid
    \/ \E o \in Ops : ops[o].pc \in {"commit", "queue"} /\ ops[o].sid = sid

\* The shared record is never overwritten by another browser's, whoever creates,
\* promotes or resets one at the same time; and while it stands unmarked it is
\* not dropped from under a browser that runs.
SharedIsNotReplaced ==
  [][LET r == store[Reuse] IN
       r # NoRec /\ store'[Reuse] # r =>
         IF store'[Reuse] # NoRec THEN store'[Reuse].sid = r.sid
         ELSE r.pending \/ r.sid \notin alive]_vars

=============================================================================

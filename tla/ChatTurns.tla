----------------------------- MODULE ChatTurns ------------------------------
(* The turns of a chat agent: agents/chat/turn_queue.py, continuation.py,   *)
(* pre_stream.py and the handlers of agents/chat/agent.py that use them.    *)
(*                                                                          *)
(* A turn has a handler, which waits in the turn queue, and a callback, the *)
(* _run_turn that a task runs for it.  When the task is cancelled the       *)
(* handler goes on and leaves the queue while the callback may still be     *)
(* unwinding inside the user's provider.                                    *)
(*                                                                          *)
(* A step is what runs between two suspensions.  "current" is the turn that *)
(* found the queue free and enters it before anything else runs.            *)
EXTENDS Naturals, FiniteSets, Sequences

CONSTANTS
  Requests,        \* ids of the client's requests, each sent at most once
  Continuations,   \* ids gen_id() gives to automatic continuations
  Connections,     \* connections that probe for a turn to resume
  NoTurn, Tool,    \* no turn; the tool answer, as a holder of the lock
  SlowUnwind,      \* may a provider take its time when it is cancelled?
  MaxFaults,       \* clears, and failures of requests, streams and replies
  MaxCalls         \* of client tools

Turns == Requests \cup Continuations

ASSUME ChatAssumption ==
  /\ IsFiniteSet(Turns) /\ Requests \cap Continuations = {}
  /\ NoTurn \notin Turns /\ Tool \notin Turns /\ NoTurn # Tool
  /\ SlowUnwind \in BOOLEAN
  /\ MaxFaults \in Nat /\ MaxCalls \in Nat

VARIABLES
  generation, queue, current, captured,       \* the turn queue
  handler, callback, task, cancelled,         \* where each turn is
  aborted, marked, terminals,                 \* abort events, terminal frames
  accepted, parked,                           \* pre_stream.py
  stream, streaming,                          \* active stream and message
  cont,                                       \* continuation.py
  lock, tool,                                 \* interaction lock, tool answer
  answers, stored, live,                      \* the transcript, open calls
  clearing, crossed, faults, calls

queueVars  == <<generation, queue, current, captured>>
turnVars   == <<handler, callback, task, cancelled>>
frameVars  == <<aborted, marked, terminals>>
probeVars  == <<accepted, parked>>
streamVars == <<stream, streaming>>
talkVars   == <<answers, stored, live>>
boundVars  == <<faults, calls>>
vars == <<queueVars, turnVars, frameVars, probeVars, streamVars, cont, lock,
          tool, talkVars, clearing, crossed, boundVars>>

NoCont == [pending |-> NoTurn, past |-> FALSE, deferred |-> NoTurn,
           active |-> NoTurn, timer |-> FALSE, spawned |-> FALSE,
           barrier |-> FALSE, draining |-> FALSE]

\* The tool calls of an assistant message: open ones, and is one answered?
NoCalls   == [open |-> 0, answered |-> FALSE]
Call(m)   == [m EXCEPT !.open = @ + 1]
Answer(m) == [open |-> m.open - 1, answered |-> TRUE]

Init ==
  /\ generation = 0 /\ queue = <<>> /\ current = NoTurn
  /\ captured = [t \in Turns |-> 0]
  /\ handler = [t \in Turns |-> "idle"] /\ callback = [t \in Turns |-> "none"]
  /\ task = [t \in Turns |-> "none"] /\ cancelled = {}
  /\ aborted = {} /\ marked = {} /\ terminals = [t \in Turns |-> 0]
  /\ accepted = {} /\ parked = {}
  /\ stream = NoTurn /\ streaming = NoTurn
  /\ cont = NoCont
  /\ lock = NoTurn /\ tool = "idle"
  /\ answers = {} /\ stored = NoCalls /\ live = NoCalls
  /\ clearing = "idle" /\ crossed = {}
  /\ faults = 0 /\ calls = 0

\* The keys of _aborts: turns whose handler is under way.
Active == {t \in Turns : handler[t] \notin {"idle", "done"}}

\* enqueue's own test, and is_current: the handler also holds the queue.
Admitted(t)  == captured[t] = generation
IsCurrentTurn(t) == handler[t] \in {"starting", "waiting"}         \* a defect
IsCurrent(t) == handler[t] \in {"starting", "waiting"} /\ Admitted(t)

-----------------------------------------------------------------------------
(* Effects several handlers share.                                          *)

SendTerminalsAgain(T, gone) ==                                    \* a defect
  /\ terminals' = [t \in Turns |-> IF t \in T THEN terminals[t] + 1
                                             ELSE terminals[t]]
  /\ marked' = (marked \cup T) \ gone
\* A terminal frame for each of T, once, then forget the marks of "gone".
SendTerminals(T, gone) ==
  /\ terminals' = [t \in Turns |->
                     IF t \in T \ marked THEN terminals[t] + 1 ELSE terminals[t]]
  /\ marked' = (marked \cup T) \ gone

SettleSilently(t) == accepted' = accepted \ {t} /\ UNCHANGED parked  \* a defect
\* PreStreamTurns.settle: the last accepted turn to go releases the probes.
Settle(t) ==
  /\ accepted' = accepted \ {t}
  /\ parked' = IF accepted \subseteq {t} THEN {} ELSE parked

\* The handler's finally, after the queue was left.
Leave(t, T) ==
  /\ handler' = [handler EXCEPT ![t] = "done"]
  /\ aborted' = aborted \ {t}
  /\ SendTerminals(T, {t})
  /\ Settle(t)

Fault == faults < MaxFaults /\ faults' = faults + 1

EndStream(t) == stream' = IF stream = t THEN NoTurn ELSE stream

Enqueue(t) ==
  /\ captured' = [captured EXCEPT ![t] = generation]
  /\ queue' = Append(queue, t)
  /\ handler' = [handler EXCEPT ![t] = "queued"]
  /\ current' = IF queue = <<>> THEN t ELSE current

(* AutoContinuationController, as functions of its state.                   *)
Rearm(ct) ==
  IF ct.pending # NoTurn /\ ~ct.past THEN [ct EXCEPT !.timer = TRUE] ELSE ct

Schedule(ct, k) ==
  IF ct.pending # NoTurn /\ ct.past THEN [ct EXCEPT !.deferred = k]
  ELSE [ct EXCEPT !.pending = IF @ = NoTurn THEN k ELSE @, !.timer = TRUE]

Activate(ct, t) ==
  IF ct.pending = t
  THEN [ct EXCEPT !.active = t, !.pending = NoTurn, !.past = FALSE] ELSE ct

Finish(ct, t) ==
  LET idle == [ct EXCEPT !.active = IF @ = t THEN NoTurn ELSE @] IN
  IF ct.pending = NoTurn /\ ct.deferred # NoTurn
  THEN Rearm([idle EXCEPT !.pending = ct.deferred, !.past = FALSE,
                          !.deferred = NoTurn])
  ELSE idle

\* What is spawned or drains goes on and finds nothing to do.
ResetCont(ct) == [NoCont EXCEPT !.spawned = ct.spawned, !.draining = ct.draining]

\* The finally of _run_turn.
Finally(t) ==
  /\ streaming' = NoTurn
  /\ cont' = IF t \in Continuations THEN Finish(cont, t) ELSE Rearm(cont)
  /\ callback' = [callback EXCEPT ![t] = "none"]
  /\ task' = [task EXCEPT ![t] = "settled"]
  /\ cancelled' = cancelled \ {t}

-----------------------------------------------------------------------------
(* The handler of a request, and of a continuation that fired.              *)
AcceptRequest(r) ==
  /\ current = NoTurn /\ handler[r] = "idle"
  /\ accepted' = accepted \cup {r}
  /\ crossed' = IF clearing = "idle" THEN crossed ELSE crossed \cup {r}
  /\ Enqueue(r)
  /\ UNCHANGED <<generation, callback, task, cancelled, frameVars, parked,
                 streamVars, cont, lock, tool, talkVars, clearing, boundVars>>

AtHead(t) ==
  /\ handler[t] = "queued" /\ Head(queue) = t /\ current \in {NoTurn, t}
  /\ current' = NoTurn

\* Queued before a clear: answered without a turn.
EnterStale(t) ==
  /\ AtHead(t) /\ ~Admitted(t)
  /\ queue' = Tail(queue)
  /\ Leave(t, IF t \in Requests THEN {t} ELSE {})
  /\ cont' = IF t \in Continuations THEN ResetCont(cont) ELSE cont
  /\ UNCHANGED <<generation, captured, callback, task, cancelled,
                 streamVars, lock, tool, talkVars, clearing, crossed, boundVars>>

\* Cancelled while it was queued; continuations do not look.
EnterAborted(r) ==
  /\ AtHead(r) /\ Admitted(r) /\ r \in aborted
  /\ queue' = Tail(queue)
  /\ Leave(r, {r})
  /\ UNCHANGED <<generation, captured, callback, task, cancelled,
                 streamVars, cont, lock, tool, talkVars, clearing, crossed,
                 boundVars>>

\* The payload is good; its messages are written, with listeners to await (the
\* transcript here is the answers).
EnterRequest(r) ==
  /\ AtHead(r) /\ Admitted(r) /\ r \notin aborted
  /\ handler' = [handler EXCEPT ![r] = "starting"]
  /\ UNCHANGED <<generation, queue, captured, callback, task, cancelled,
                 frameVars, probeVars, streamVars, cont, lock, tool,
                 talkVars, clearing, crossed, boundVars>>

EnterContinuation(k) ==
  /\ AtHead(k) /\ Admitted(k)
  /\ handler' = [handler EXCEPT ![k] = "waiting"]
  /\ task' = [task EXCEPT ![k] = "pending"]
  /\ UNCHANGED <<generation, queue, captured, callback, cancelled, frameVars,
                 probeVars, streamVars, cont, lock, tool, talkVars, clearing,
                 crossed, boundVars>>

\* The messages are written: the task's row, before its wake.
StartTask(r) ==
  /\ current = NoTurn /\ handler[r] = "starting"
  /\ handler' = [handler EXCEPT ![r] = "waiting"]
  /\ task' = [task EXCEPT ![r] = "pending"]
  /\ UNCHANGED <<queueVars, callback, cancelled, frameVars, probeVars,
                 streamVars, cont, lock, tool, talkVars, clearing, crossed,
                 boundVars>>

\* An exception leaves the queue, answers, and awaits on_error.
RequestFails(r) ==
  /\ \/ AtHead(r) /\ Admitted(r) /\ r \notin aborted
     \/ handler[r] = "starting" /\ current = NoTurn /\ UNCHANGED current
  /\ Fault
  /\ queue' = Tail(queue)
  /\ handler' = [handler EXCEPT ![r] = "failing"]
  /\ SendTerminals({r}, {})
  /\ UNCHANGED <<generation, captured, callback, task, cancelled, aborted,
                 probeVars, streamVars, cont, lock, tool, talkVars, clearing,
                 crossed, calls>>

ContinuationFails(k) ==
  /\ AtHead(k) /\ Admitted(k)
  /\ Fault
  /\ queue' = Tail(queue)
  /\ handler' = [handler EXCEPT ![k] = "failing"]
  /\ cont' = ResetCont(cont)
  /\ UNCHANGED <<generation, captured, callback, task, cancelled, frameVars,
                 probeVars, streamVars, lock, tool, talkVars, clearing, crossed,
                 calls>>

FailureReported(t) ==
  /\ current = NoTurn /\ handler[t] = "failing"
  /\ Leave(t, {})
  /\ UNCHANGED <<queueVars, callback, task, cancelled, streamVars, cont,
                 lock, tool, talkVars, clearing, crossed, boundVars>>

\* The task is over; with SlowUnwind its callback need not be.
HandlerReturns(t) ==
  /\ current = NoTurn /\ handler[t] = "waiting" /\ task[t] = "settled"
  /\ SlowUnwind \/ callback[t] = "none"
  /\ queue' = Tail(queue)
  /\ Leave(t, {})
  /\ UNCHANGED <<generation, current, captured, callback, task, cancelled,
                 streamVars, cont, lock, tool, talkVars, clearing,
                 crossed, boundVars>>

-----------------------------------------------------------------------------
(* The task and its callback, _run_turn.                                    *)
ClaimTask(t) ==
  /\ current = NoTurn /\ task[t] = "pending"
  /\ task' = [task EXCEPT ![t] = "running"]
  /\ callback' = [callback EXCEPT ![t] = "ready"]
  /\ UNCHANGED <<queueVars, handler, cancelled, frameVars, probeVars, streamVars,
                 cont, lock, tool, talkVars, clearing, crossed, boundVars>>

\* Up to the first suspension: nobody looks whether the turn is current.
StartStream(t) ==
  /\ current = NoTurn /\ callback[t] = "ready"
  /\ stream' = t /\ streaming' = t
  /\ accepted' = accepted \ {t} /\ parked' = {}
  /\ cont' = Activate(cont, t)
  /\ live' = IF t \in Continuations THEN stored ELSE NoCalls
  /\ callback' = [callback EXCEPT ![t] = "provider"]
  /\ UNCHANGED <<queueVars, handler, task, cancelled, frameVars, lock, tool,
                 answers, stored, clearing, crossed, boundVars>>

\* The stream's metadata cannot be stored.
StreamRefused(t) ==
  /\ current = NoTurn /\ callback[t] = "ready"
  /\ Fault
  /\ stream' = NoTurn
  /\ SendTerminals({t}, {})
  /\ callback' = [callback EXCEPT ![t] = "none"]
  /\ task' = [task EXCEPT ![t] = "settled"]
  /\ cancelled' = cancelled \ {t}
  /\ UNCHANGED <<queueVars, handler, aborted, probeVars, streaming,
                 cont, lock, tool, talkVars, clearing, crossed, calls>>

InProvider(t) == current = NoTurn /\ callback[t] = "provider"

ProviderOutdated(t) ==
  /\ InProvider(t) /\ ~IsCurrent(t)
  /\ EndStream(t) /\ SendTerminals({t}, {}) /\ Finally(t)
  /\ UNCHANGED <<queueVars, handler, aborted, probeVars, lock, tool,
                 talkVars, clearing, crossed, boundVars>>

\* A chunk calls a client tool; the first chunk after an abort is the last.
AskTool(t) ==
  /\ InProvider(t) /\ IsCurrent(t)
  /\ calls < MaxCalls /\ calls' = calls + 1
  /\ live' = Call(live)
  /\ callback' = [callback EXCEPT ![t] = IF t \in aborted THEN "locking" ELSE @]
  /\ UNCHANGED <<queueVars, handler, task, cancelled, frameVars, probeVars,
                 streamVars, cont, lock, tool, answers, stored, clearing,
                 crossed, faults>>

ReplyWaits(t) ==
  /\ InProvider(t) /\ IsCurrent(t) /\ lock # NoTurn
  /\ callback' = [callback EXCEPT ![t] = "locking"]
  /\ UNCHANGED <<queueVars, handler, task, cancelled, frameVars, probeVars,
                 streamVars, cont, lock, tool, talkVars, clearing, crossed,
                 boundVars>>

\* A reply without parts is complete and not saved.
EmptyReplyEnds(r) ==
  /\ InProvider(r) /\ IsCurrent(r) /\ live = NoCalls
  /\ EndStream(r) /\ SendTerminals({r}, {}) /\ Finally(r)
  /\ UNCHANGED <<queueVars, handler, aborted, probeVars, lock, tool,
                 talkVars, clearing, crossed, boundVars>>

\* An error chunk ends the turn, an exception awaits on_error first.
ReplyFails(t) ==
  /\ InProvider(t) /\ IsCurrent(t)
  /\ Fault
  /\ EndStream(t) /\ SendTerminals({t}, {})
  /\ \/ Finally(t)
     \/ callback' = [callback EXCEPT ![t] = "erring"]
        /\ UNCHANGED <<streaming, cont, task, cancelled>>
  /\ UNCHANGED <<queueVars, handler, aborted, probeVars, lock, tool,
                 talkVars, clearing, crossed, calls>>

ErrorReported(t) ==
  /\ current = NoTurn /\ callback[t] = "erring"
  /\ Finally(t)
  /\ UNCHANGED <<queueVars, handler, frameVars, probeVars, stream,
                 lock, tool, talkVars, clearing, crossed, boundVars>>

\* The reply ends, the lock is taken, the message detached and written: one
\* step, unless the lock is held.
SaveReply(t) ==
  /\ current = NoTurn /\ lock = NoTurn
  /\ callback[t] = "locking" \/ (InProvider(t) /\ IsCurrent(t))
  /\ lock' = t
  /\ streaming' = IF streaming = t THEN NoTurn ELSE streaming
  /\ answers' = answers \cup {t}
  /\ stored' = live /\ live' = NoCalls
  /\ callback' = [callback EXCEPT ![t] = "saving"]
  /\ UNCHANGED <<queueVars, handler, task, cancelled, frameVars, probeVars,
                 stream, cont, tool, clearing, crossed, boundVars>>

\* The write's listeners and compaction are done: the turn is complete.
ReplySaved(t) ==
  /\ current = NoTurn /\ callback[t] = "saving"
  /\ lock' = NoTurn
  /\ EndStream(t) /\ SendTerminals({t}, {}) /\ Finally(t)
  /\ UNCHANGED <<queueVars, handler, aborted, probeVars, tool,
                 talkVars, clearing, crossed, boundVars>>

SaveFails(t) ==
  /\ current = NoTurn /\ callback[t] = "saving"
  /\ Fault
  /\ lock' = NoTurn
  /\ EndStream(t) /\ SendTerminals({t}, {})
  /\ IF IsCurrent(t)
     THEN /\ callback' = [callback EXCEPT ![t] = "erring"]
          /\ UNCHANGED <<streaming, cont, task, cancelled>>
     ELSE Finally(t)
  /\ UNCHANGED <<queueVars, handler, aborted, probeVars, tool,
                 talkVars, clearing, crossed, calls>>

\* tasks.cancel: a row nobody claimed is gone, a claim is asked to stop.
CancelTasks(T) ==
  /\ task' = [t \in Turns |-> IF t \in T /\ task[t] = "pending"
                              THEN "settled" ELSE task[t]]
  /\ cancelled' = cancelled \cup {t \in T : task[t] = "running"}

\* A callback that has not begun never does; one that waits for the lock has
\* nothing of the user's to unwind.
DeliverCancel(t) ==
  /\ current = NoTurn /\ t \in cancelled
  /\ CASE callback[t] = "locking" -> Finally(t)
       [] OTHER ->
            /\ callback' = [callback EXCEPT ![t] =
                              IF @ = "ready" THEN "none" ELSE "unwinding"]
            /\ task' = [task EXCEPT ![t] = "settled"]
            /\ cancelled' = cancelled \ {t}
            /\ UNCHANGED <<streaming, cont>>
  /\ UNCHANGED <<queueVars, handler, frameVars, probeVars, stream,
                 lock, tool, talkVars, clearing, crossed, boundVars>>

UnwoundLocked(t) ==                                               \* a defect
  /\ current = NoTurn /\ callback[t] = "unwinding"
  /\ Finally(t)
  /\ UNCHANGED <<queueVars, handler, frameVars, probeVars, stream, lock,
                 tool, talkVars, clearing, crossed, boundVars>>
Unwound(t) ==
  /\ current = NoTurn /\ callback[t] = "unwinding"
  /\ lock' = IF lock = t THEN NoTurn ELSE lock
  /\ Finally(t)
  /\ UNCHANGED <<queueVars, handler, frameVars, probeVars, stream,
                 tool, talkVars, clearing, crossed, boundVars>>

-----------------------------------------------------------------------------
(* Cancel and clear.                                                        *)
CancelRequest(t) ==
  /\ current = NoTurn /\ t \in Active \ aborted
  /\ aborted' = aborted \cup {t}
  /\ SendTerminals({t}, {})
  /\ EndStream(t)
  /\ CancelTasks({t})
  /\ UNCHANGED <<queueVars, handler, callback, probeVars, streaming, cont, lock,
                 tool, talkVars, clearing, crossed, boundVars>>

\* Up to the wake of the task that is cancelled: only one is ever open.
ClearBegins ==
  /\ current = NoTurn /\ clearing = "idle"
  /\ Fault
  /\ generation' = generation + 1
  /\ aborted' = aborted \cup Active
  /\ SendTerminals(Active, {})
  /\ cont' = ResetCont(cont)
  /\ CancelTasks(Turns)
  /\ clearing' = "cancelling"
  /\ UNCHANGED <<queue, current, captured, handler, callback, probeVars,
                 streamVars, lock, tool, talkVars, crossed, calls>>

\* setAlarm takes longer than the few turns of the loop a cancellation does.
ClearWipes ==
  /\ current = NoTurn /\ clearing = "cancelling"
  /\ cancelled = {}
  /\ answers' = {} /\ stored' = NoCalls
  /\ clearing' = "wiping"
  /\ UNCHANGED <<queueVars, turnVars, frameVars, probeVars, streamVars, cont,
                 lock, tool, live, crossed, boundVars>>

\* After the storage calls: whatever streams or waits by now is forgotten.
ClearEnds ==
  /\ current = NoTurn /\ clearing = "wiping"
  /\ stream' = NoTurn /\ accepted' = {} /\ parked' = {}
  /\ clearing' = "idle"
  /\ UNCHANGED <<queueVars, turnVars, frameVars, streaming, cont, lock, tool,
                 talkVars, crossed, boundVars>>

\* A resume request with no stream, no continuation of a connected client and
\* no failed turn to offer (the client of a pending one may have gone).
Probe(c) ==
  /\ current = NoTurn /\ c \notin parked
  /\ stream = NoTurn /\ accepted # {}
  /\ parked' = parked \cup {c}
  /\ UNCHANGED <<queueVars, turnVars, frameVars, accepted, streamVars, cont,
                 lock, tool, talkVars, clearing, crossed, boundVars>>

-----------------------------------------------------------------------------
(* Tool answers and automatic continuations.                                *)
\* An answer goes to the reply under way, which holds the calls of the message
\* it continues, or to the stored message.
LiveOpen   == streaming # NoTurn /\ live.open > 0
StoredOpen == streaming \notin Continuations /\ stored.open > 0

\* A client answers a call it has seen and not answered.
Answerable ==
  StoredOpen \/ (live.open > 0 /\ \E t \in Turns : callback[t] = "provider")

ToolWaits ==
  /\ current = NoTurn /\ tool = "idle" /\ Answerable /\ lock # NoTurn
  /\ tool' = "locking"
  /\ UNCHANGED <<queueVars, turnVars, frameVars, probeVars, streamVars, cont,
                 lock, talkVars, clearing, crossed, boundVars>>

\* An answer has the lock, at once if it was free.
Locked ==
  /\ current = NoTurn /\ lock = NoTurn
  /\ tool = "locking" \/ (tool = "idle" /\ Answerable)

Fresh(k) ==
  /\ k \in Continuations /\ handler[k] = "idle"
  /\ k \notin {cont.pending, cont.deferred}

\* What follows an answer that was applied, with autoContinue or without.
Answered ==
  \/ cont' = Rearm(cont)
  \/ \E k \in Continuations : Fresh(k) /\ cont' = Schedule(cont, k)

\* The message still streams: settled in place, without a suspension.
AnswerLive ==
  /\ Locked
  /\ LiveOpen
  /\ live' = Answer(live)
  /\ tool' = "idle"
  /\ Answered
  /\ UNCHANGED <<queueVars, turnVars, frameVars, probeVars, streamVars, lock,
                 answers, stored, clearing, crossed, boundVars>>

\* The stored row is updated, and its listeners are awaited.
AnswerStored ==
  /\ Locked
  /\ ~LiveOpen /\ StoredOpen
  /\ stored' = Answer(stored)
  /\ lock' = Tool /\ tool' = "applying"
  /\ UNCHANGED <<queueVars, turnVars, frameVars, probeVars, streamVars, cont,
                 answers, live, clearing, crossed, boundVars>>

AnswerApplied ==
  /\ current = NoTurn /\ tool = "applying"
  /\ lock' = NoTurn /\ tool' = "idle"
  /\ Answered
  /\ UNCHANGED <<queueVars, turnVars, frameVars, probeVars, streamVars, talkVars,
                 clearing, crossed, boundVars>>

\* Nothing matches: the answer is looked for again, with the lock held.
AnswerSeeks ==
  /\ Locked
  /\ ~LiveOpen /\ ~StoredOpen
  /\ lock' = Tool /\ tool' = "seeking"
  /\ UNCHANGED <<queueVars, turnVars, frameVars, probeVars, streamVars, cont,
                 talkVars, clearing, crossed, boundVars>>

AnswerLost ==
  /\ current = NoTurn /\ tool = "seeking"
  /\ lock' = NoTurn /\ tool' = "idle"
  /\ UNCHANGED <<queueVars, turnVars, frameVars, probeVars, streamVars, cont,
                 talkVars, clearing, crossed, boundVars>>

TimerFires ==
  /\ current = NoTurn /\ cont.timer
  /\ cont' = [cont EXCEPT !.timer = FALSE,
                          !.spawned = @ \/ cont.pending # NoTurn]
  /\ UNCHANGED <<queueVars, turnVars, frameVars, probeVars, streamVars, lock,
                 tool, talkVars, clearing, crossed, boundVars>>

Idle(ct) == ct.pending = NoTurn \/ ct.past \/ streaming # NoTurn

IncompleteBatch == stored.answered /\ stored.open > 0

\* Fired if nothing is in its way; without an answer to continue it is dropped.
FireBatch(ct) ==
  LET k == ct.pending IN
  \/ /\ Idle(ct) \/ IncompleteBatch
     /\ cont' = ct
     /\ UNCHANGED <<queueVars, handler, probeVars>>
  \/ /\ ~Idle(ct) /\ ~IncompleteBatch /\ answers = {}
     /\ cont' = ResetCont(ct)
     /\ Settle(k)
     /\ UNCHANGED <<queueVars, handler>>
  \/ /\ ~Idle(ct) /\ ~IncompleteBatch /\ answers # {}
     /\ cont' = [ct EXCEPT !.timer = FALSE, !.past = TRUE]
     /\ accepted' = accepted \cup {k}
     /\ Enqueue(k)
     /\ UNCHANGED <<generation, parked>>

FireWhenStable ==
  /\ current = NoTurn /\ cont.spawned
  /\ LET ct == [cont EXCEPT !.spawned = FALSE] IN
     IF Idle(ct) \/ ct.barrier
     THEN cont' = ct /\ UNCHANGED <<queueVars, handler, probeVars>>
     ELSE IF tool # "idle"
     THEN /\ cont' = [ct EXCEPT !.barrier = TRUE, !.draining = TRUE]
          /\ UNCHANGED <<queueVars, handler, probeVars>>
     ELSE FireBatch(ct)
  /\ UNCHANGED <<callback, task, cancelled, frameVars, streamVars, lock, tool,
                 talkVars, clearing, crossed, boundVars>>

Drained ==
  /\ current = NoTurn /\ cont.draining /\ tool = "idle"
  /\ FireBatch([cont EXCEPT !.draining = FALSE, !.barrier = FALSE])
  /\ UNCHANGED <<callback, task, cancelled, frameVars, streamVars, lock, tool,
                 talkVars, clearing, crossed, boundVars>>

-----------------------------------------------------------------------------
Enter(t) ==
  \/ EnterStale(t)
  \/ t \in Requests /\ (EnterAborted(t) \/ EnterRequest(t))
  \/ t \in Continuations /\ EnterContinuation(t)

Handler(t) ==
  \/ Enter(t) \/ FailureReported(t) \/ HandlerReturns(t)
  \/ t \in Requests /\ StartTask(t)

\* The provider may say nothing of its own for a while, but it comes to an end.
Callback(t) ==
  \/ ClaimTask(t) \/ StartStream(t) \/ ProviderOutdated(t) \/ ReplyWaits(t)
  \/ SaveReply(t) \/ ReplySaved(t) \/ ErrorReported(t)
  \/ DeliverCancel(t) \/ Unwound(t)

Failing(t) ==
  \/ t \in Requests /\ RequestFails(t)
  \/ t \in Continuations /\ ContinuationFails(t)
  \/ StreamRefused(t) \/ ReplyFails(t) \/ SaveFails(t)

Clear == ClearWipes \/ ClearEnds

Answering ==
  \/ AnswerLive \/ AnswerStored \/ AnswerApplied \/ AnswerSeeks \/ AnswerLost

Next ==
  \/ \E r \in Requests : AcceptRequest(r) \/ EmptyReplyEnds(r)
  \/ \E t \in Turns :
       Handler(t) \/ Callback(t) \/ AskTool(t) \/ Failing(t) \/ CancelRequest(t)
  \/ ClearBegins \/ Clear
  \/ \E c \in Connections : Probe(c)
  \/ ToolWaits \/ Answering
  \/ TimerFires \/ FireWhenStable \/ Drained

Spec == Init /\ [][Next]_vars

(* The event loop and the user's provider, hooks and listeners get on; what *)
(* clients send, and failures, need not come.                               *)
Fairness ==
  /\ \A t \in Turns : WF_vars(Handler(t)) /\ WF_vars(Callback(t))
  /\ WF_vars(Clear) /\ WF_vars(tool # "idle" /\ Answering)
  /\ WF_vars(TimerFires) /\ WF_vars(FireWhenStable) /\ WF_vars(Drained)

FairSpec == Spec /\ Fairness

-----------------------------------------------------------------------------
(* Each variable has its type; a continuation that fired holds no timer.    *)
TypeOK ==
  /\ generation \in Nat /\ queue \in Seq(Turns)
  /\ current \in Turns \cup {NoTurn} /\ captured \in [Turns -> Nat]
  /\ handler \in [Turns -> {"idle", "queued", "starting", "waiting", "failing",
                            "done"}]
  /\ callback \in [Turns -> {"none", "ready", "provider", "erring", "locking",
                             "saving", "unwinding"}]
  /\ task \in [Turns -> {"none", "pending", "running", "settled"}]
  /\ {cancelled, aborted, marked, accepted} \subseteq SUBSET Turns
  /\ parked \subseteq Connections /\ crossed \subseteq Requests
  /\ terminals \in [Turns -> Nat]
  /\ {stream, streaming} \subseteq Turns \cup {NoTurn}
  /\ cont \in [pending : Continuations \cup {NoTurn}, past : BOOLEAN,
               deferred : Continuations \cup {NoTurn},
               active : Continuations \cup {NoTurn}, timer : BOOLEAN,
               spawned : BOOLEAN, barrier : BOOLEAN, draining : BOOLEAN]
  /\ cont.past => cont.pending # NoTurn /\ ~cont.timer
  /\ lock \in Turns \cup {NoTurn, Tool}
  /\ tool \in {"idle", "locking", "applying", "seeking"}
  /\ answers \subseteq Turns
  /\ {stored, live} \subseteq [open : Nat, answered : BOOLEAN]
  /\ {faults, calls} \subseteq Nat
  /\ clearing \in {"idle", "cancelling", "wiping"}

(* agent.py:1445, "everything past here has an id and must answer": however *)
(* completion, failure, cancel and clear meet, a request is given one       *)
(* terminal frame, and its handler never ends without.                      *)
AnsweredExactlyOnce ==
  \A r \in Requests :
    /\ terminals[r] <= 1
    /\ handler[r] = "done" => terminals[r] = 1

(* agent.py:1799, "a resume probe never observes accepted work as idle":    *)
(* while a request waits for its answer a probe finds a stream or a turn    *)
(* that is accepted, unless it came while a chat was being cleared.         *)
ProbeSeesWork ==
  \A r \in Requests :
    handler[r] \notin {"idle", "done"} /\ terminals[r] = 0 /\ r \notin crossed
      => stream # NoTurn \/ accepted # {}

(* Accepted requests are seen, and answered once.                           *)
RequestsAreTracked == TypeOK /\ AnsweredExactlyOnce /\ ProbeSeesWork

(* What a clear wiped stays away: no turn of an older generation writes its *)
(* answer after the transcript was deleted.                                 *)
AnswersStayCleared ==
  clearing # "cancelling" =>
    \A t \in answers : Admitted(t)

(* The queue never wedges: whatever fails or is cancelled ahead of them,    *)
(* the turns that were sent all leave it again (the ids being finite), and  *)
(* by AnsweredExactlyOnce not without an answer.                            *)
TurnsLeaveQueue == []<>(queue = <<>> /\ Active = {})

(* A connection that was told to wait for a turn is offered a stream or     *)
(* told that there is none (turn lost by clear or failure included).        *)
ProbesAreAnswered == \A c \in Connections : c \in parked ~> c \notin parked
=============================================================================

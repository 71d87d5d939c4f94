----------------------------- MODULE ChatRecovery ----------------------------
(* The recovery of an interrupted chat turn: agents/chat/recovery.py and    *)
(* the tasks, incidents and attempts of agents/chat/agent.py.               *)
(*                                                                          *)
(* One user message is answered by turn 0; every further turn is an attempt *)
(* to recover it.  Each turn runs as a task, whose row outlives an eviction *)
(* and is then run again to recover the turn; what it schedules is a run of *)
(* the recovery task, which dispatches an attempt.  A step is what runs     *)
(* between two suspensions.  Which runs are due, and what the clock says    *)
(* (debounced, no progress for too long), is open.                          *)
EXTENDS Naturals, Sequences, FiniteSets

CONSTANTS
  MaxTurns,        \* bounds the attempts that get a turn
  MaxAttempts,     \* chat_recovery_max_attempts
  MaxOoms,         \* chat_recovery_max_oom_retries
  MaxFaults,       \* bounds evictions, platform failures, exhausted memory
  Busy             \* may other turns and ACKs of tabs come between?

ChatRecoveryAssumption == MaxTurns \in Nat /\ MaxAttempts \in Nat

Turns == 0..MaxTurns
\* The last message of the transcript is the user's, a turn's, or a later one.
UserMessage == MaxTurns + 1
Later == MaxTurns + 2
Reasons == {"platform", "stable-timeout", "out-of-memory"}
Runs == {<<"initial", 0>>} \cup Reasons \X (1..MaxAttempts)
Initial == <<"initial", 0>>
User == <<"user", 0>>        \* another turn, in the turn queue

NoIncident == [status |-> "none"]
NoRun == [kind |-> "none"]

VARIABLES
  incident, progress, recovering,  \* the key-value store
  task, stream, content,           \* each turn's task row, stream, any parts?
  message,                         \* the id of each turn's message: a turn's number
  runs,                            \* rows of the recovery task
  leaf, asks,                      \* the end of the transcript; a client tool is asked
  doing, attempt,                  \* in memory: the tasks and attempts under way
  queue,                           \* who waits for the turn queue
  used, faults                     \* bounds

storeVars == <<incident, progress, recovering>>
turnVars  == <<task, stream, content, message>>
talkVars  == <<leaf, asks>>
memory    == <<doing, attempt, queue>>
vars == <<storeVars, turnVars, runs, talkVars, memory, used, faults>>

Idle == [pc |-> "idle"]

Init ==
  /\ incident = NoIncident /\ progress = 0 /\ recovering = FALSE
  /\ task = [t \in Turns |-> IF t = 0 THEN "open" ELSE "none"]
  /\ stream = [t \in Turns |-> IF t = 0 THEN "streaming" ELSE "none"]
  /\ content = [t \in Turns |-> FALSE] /\ message = [t \in Turns |-> t]
  /\ runs = [u \in Runs |-> NoRun]
  /\ leaf = UserMessage /\ asks = FALSE
  /\ doing = [t \in Turns |-> IF t = 0 THEN [pc |-> "live"] ELSE Idle]
  /\ attempt = [u \in Runs |-> Idle]
  /\ queue = <<>>
  /\ used = 0 /\ faults = 0

Fault == faults < MaxFaults /\ faults' = faults + 1
Live(t) == doing[t].pc = "live"
QueueFree == \A t \in Turns : ~Live(t)

Does(t, state) == doing' = [doing EXCEPT ![t] = state]
Tries(u, state) == attempt' = [attempt EXCEPT ![u] = state]

----------------------------------------------------------------------------
(* Incidents.                                                               *)

\* evaluate_incident; "debounced" and "stalled" are what the clock says.
Evaluated(old, debounced, stalled) ==
  LET exists == old # NoIncident
      made   == exists /\ progress > old.progress
      before == IF exists THEN old.attempt ELSE 0
      next   == IF asks THEN before
                ELSE IF made THEN 1
                ELSE IF exists /\ debounced THEN before
                ELSE before + 1
      ooms   == IF exists THEN old.ooms ELSE 0
      over   == ~asks /\ ( \/ ooms > MaxOoms
                           \/ exists /\ ~made /\ stalled
                           \/ next > MaxAttempts )
  IN [status |-> IF over THEN "exhausted" ELSE "attempting", attempt |-> next,
      ooms |-> ooms, reported |-> FALSE,
      progress |-> IF exists /\ ~made THEN old.progress ELSE progress]

\* _update_recovery_incident writes back the incident its caller holds.
Written(held, status) ==
  IF status = "completed" THEN NoIncident ELSE [held EXCEPT !.status = status]

\* The first half of _exhaust_recovery, up to the write of the incident.
Reported(held) == [held EXCEPT !.reported = TRUE, !.status = "exhausted"]

WasReported(held) == held.reported

----------------------------------------------------------------------------
(* The turns, each under its task.                                          *)

Emits(t) ==
  /\ Live(t) /\ ~content[t]
  /\ content' = [content EXCEPT ![t] = TRUE] /\ progress' = progress + 1
  /\ UNCHANGED <<incident, recovering, task, stream, message, runs, talkVars, memory, used, faults>>

\* Whoever waits for turn t hears how it ended.
OwnerHears(how) ==
  [u \in Runs |-> IF attempt[u].pc = "turn" THEN [attempt[u] EXCEPT !.pc = how] ELSE attempt[u]]

\* The reply is written, the stream ended; or the turn ends with an error.
TurnEnds(t) ==
  /\ Live(t)
  /\ Does(t, Idle) /\ task' = [task EXCEPT ![t] = "over"]
  /\ \/ /\ stream' = [stream EXCEPT ![t] = "completed"]
        /\ leaf' = message[t]
        /\ attempt' = OwnerHears("completed")
     \/ /\ stream' = [stream EXCEPT ![t] = "error"]
        /\ attempt' = OwnerHears("failed")
        /\ UNCHANGED leaf
  /\ UNCHANGED <<storeVars, content, message, runs, asks, queue, used, faults>>

\* The platform fails under the turn, or its memory runs out: the task stays.
TurnBreaks(t) ==
  /\ Live(t) /\ Fault
  /\ Does(t, Idle)
  /\ \E how \in {"platform", "oom"} : attempt' = OwnerHears(how)
  /\ UNCHANGED <<storeVars, turnVars, runs, talkVars, queue, used>>

----------------------------------------------------------------------------
(* _recover_interrupted_chat_turn: the task of a turn that is not live runs *)
(* again.                                                                   *)

\* Its user message or its own message must be the last one.
Current(t) == leaf \in {UserMessage, message[t]}

Recovers(t) ==
  /\ task[t] = "open" /\ doing[t] = Idle
  /\ IF Current(t) /\ stream[t] \in {"none", "streaming"}
     THEN Does(t, [pc |-> "read"]) /\ UNCHANGED <<task, stream>>
     ELSE /\ task' = [task EXCEPT ![t] = "over"]
          /\ stream' = [stream EXCEPT ![t] = IF @ = "streaming" THEN "error" ELSE @]
          /\ UNCHANGED doing
  /\ UNCHANGED <<storeVars, content, message, runs, talkVars, attempt, queue, used, faults>>

\* _begin_recovery_incident: what is stored is read,
ReadsIncident(t) ==
  /\ doing[t].pc = "read"
  /\ Does(t, [pc |-> IF incident.status = "exhausted" THEN "exhaust" ELSE "decide",
              held |-> incident])
  /\ UNCHANGED <<storeVars, turnVars, runs, talkVars, attempt, queue, used, faults>>

\* and the decision written.
Decides(t) ==
  /\ doing[t].pc = "decide"
  /\ \E debounced, stalled \in BOOLEAN :
       LET now == Evaluated(doing[t].held, debounced, stalled) IN
         /\ incident' = now
         /\ Does(t, [pc |-> IF now.status = "exhausted" THEN "exhaust" ELSE "hook", held |-> now])
  /\ UNCHANGED <<progress, recovering, turnVars, runs, talkVars, attempt, queue, used, faults>>

\* The hook is done: the partial reply is written.
Persists(t) ==
  /\ doing[t].pc = "hook"
  /\ Does(t, [doing[t] EXCEPT !.pc = "close"])
  /\ leaf' = IF content[t] THEN message[t] ELSE leaf
  /\ asks' \in IF content[t] THEN {asks, TRUE} ELSE {asks}
  /\ UNCHANGED <<storeVars, turnVars, runs, attempt, queue, used, faults>>

\* The stream is ended, its end told, and the incident written back.
Closes(t) ==
  /\ doing[t].pc = "close"
  /\ stream' = [stream EXCEPT ![t] = IF @ = "none" THEN @ ELSE "completed"]
  /\ \E skip \in {asks, TRUE} :
       /\ incident' = Written(doing[t].held, IF skip THEN "skipped" ELSE "scheduled")
       /\ Does(t, [doing[t] EXCEPT !.pc = IF skip THEN "unflag" ELSE "flag"])
  /\ UNCHANGED <<progress, recovering, task, content, message, runs, talkVars, attempt, queue,
                 used, faults>>

Flags(t) ==
  /\ doing[t].pc = "flag"
  /\ recovering' = TRUE
  /\ Does(t, [doing[t] EXCEPT !.pc = "enqueue"])
  /\ UNCHANGED <<incident, progress, turnVars, runs, talkVars, attempt, queue, used, faults>>

TaskOver(t) == Does(t, Idle) /\ task' = [task EXCEPT ![t] = "over"]

\* _enqueue_recovery: a run of the same incident that is still there is joined.
Data(t) ==
  [kind |-> IF leaf = message[t] THEN "continue" ELSE "retry", target |-> message[t], seq |-> 0]
Enqueued(u, data) == IF runs[u] = NoRun THEN [runs EXCEPT ![u] = data] ELSE runs

Enqueues(t) ==
  /\ doing[t].pc = "enqueue"
  /\ runs' = Enqueued(Initial, Data(t))
  /\ TaskOver(t)
  /\ UNCHANGED <<storeVars, stream, content, message, talkVars, attempt, queue, used, faults>>

\* The platform refuses the run again and again: the incident is given up.
EnqueueFails(t) ==
  /\ doing[t].pc = "enqueue" /\ Fault
  /\ Does(t, [doing[t] EXCEPT !.pc = "exhaust"])
  /\ UNCHANGED <<storeVars, turnVars, runs, talkVars, attempt, queue, used>>

Unflags(t) ==
  /\ doing[t].pc = "unflag"
  /\ recovering' = FALSE
  /\ TaskOver(t)
  /\ UNCHANGED <<incident, progress, stream, content, message, runs, talkVars, attempt, queue,
                 used, faults>>

\* _exhaust_recovery, called by a turn's task.
TaskExhausts(t) ==
  /\ doing[t].pc = "exhaust"
  /\ IF WasReported(doing[t].held)
     THEN TaskOver(t) /\ UNCHANGED <<incident, stream>>
     ELSE /\ stream' = [stream EXCEPT ![t] = IF @ = "none" THEN @ ELSE "error"]
          /\ incident' = Reported(doing[t].held)
          /\ Does(t, [pc |-> "report"]) /\ UNCHANGED task
  /\ UNCHANGED <<progress, recovering, content, message, runs, talkVars, attempt, queue, used, faults>>

TaskReports(t) ==
  /\ doing[t].pc = "report"
  /\ recovering' = FALSE
  /\ TaskOver(t)
  /\ UNCHANGED <<incident, progress, stream, content, message, runs, talkVars, attempt, queue,
                 used, faults>>

----------------------------------------------------------------------------
(* _chat_recovery_task: a run dispatches an attempt, _dispatch_recovery_    *)
(* handoff, and hands it over once its turn has begun.                      *)

RunKept(u) == runs' = runs                                \* a mutant
RunOver(u) == runs' = [runs EXCEPT ![u] = NoRun]

\* The message to recover must be the last one.
Still(data) == leaf = IF data.kind = "continue" THEN data.target ELSE UserMessage

\* _execute_recovery_attempt up to the turn queue.
Attempts(u) ==
  /\ runs[u] # NoRun /\ attempt[u] = Idle
  /\ IF incident.status \in {"none", "exhausted"}
     THEN RunOver(u) /\ UNCHANGED <<incident, attempt, queue>>
     ELSE /\ UNCHANGED runs
          /\ IF asks \/ ~Still(runs[u])
             THEN /\ incident' = Written(incident, "skipped")
                  /\ Tries(u, [pc |-> "unflag"]) /\ UNCHANGED queue
             ELSE /\ Tries(u, [pc |-> "queued", held |-> incident, data |-> runs[u]])
                  /\ queue' = Append(queue, u) /\ UNCHANGED incident
  /\ UNCHANGED <<progress, recovering, turnVars, talkVars, doing, used, faults>>

\* The queue is the attempt's: its turn begins.
AttemptStarts(u) ==
  /\ attempt[u].pc = "queued" /\ QueueFree /\ Head(queue) = u /\ used < MaxTurns
  /\ queue' = Tail(queue)
  /\ used' = used + 1
  /\ LET t == used + 1  data == attempt[u].data IN
       /\ Does(t, [pc |-> "live"])
       /\ task' = [task EXCEPT ![t] = "open"] /\ stream' = [stream EXCEPT ![t] = "streaming"]
       /\ message' = [message EXCEPT ![t] = IF data.kind = "continue" THEN data.target ELSE t]
  /\ Tries(u, [attempt[u] EXCEPT !.pc = "turn"])
  /\ UNCHANGED <<storeVars, content, runs, talkVars, faults>>

\* track_alarm_work: the run is over while its attempt goes on.
HandsOff(u) ==
  /\ attempt[u].pc = "turn" /\ runs[u] # NoRun
  /\ RunOver(u)
  /\ UNCHANGED <<storeVars, turnVars, talkVars, memory, used, faults>>

\* What the attempt held when it began is written back.
AttemptEnds(u) ==
  /\ attempt[u].pc \in {"completed", "failed"}
  /\ incident' = Written(attempt[u].held, attempt[u].pc)
  /\ Tries(u, [pc |-> "unflag"])
  /\ UNCHANGED <<progress, recovering, turnVars, runs, talkVars, doing, queue, used, faults>>

AttemptUnflags(u) ==
  /\ attempt[u].pc = "unflag"
  /\ recovering' = FALSE
  /\ Tries(u, Idle) /\ RunOver(u)
  /\ UNCHANGED <<incident, progress, turnVars, talkVars, doing, queue, used, faults>>

\* The turn queue is not free in time: the attempt is cancelled.
StableTimeout(u) ==
  /\ attempt[u].pc = "queued" /\ ~QueueFree
  /\ LET Other(w) == w # u IN queue' = SelectSeq(queue, Other)
  /\ Tries(u, [attempt[u] EXCEPT !.pc = "stable"])
  /\ UNCHANGED <<storeVars, turnVars, runs, talkVars, doing, used, faults>>

Gives(u) == Tries(u, Idle) /\ RunOver(u)
Exhausts(u, held) == Tries(u, [attempt[u] EXCEPT !.pc = "exhaust", !.held = held])

\* _reschedule_stable_timeout.
Reschedules(u) ==
  /\ attempt[u].pc = "stable"
  /\ IF incident = NoIncident THEN Gives(u) /\ UNCHANGED incident
     ELSE /\ UNCHANGED runs
          /\ \E stalled \in BOOLEAN :
               IF incident.attempt >= MaxAttempts \/ stalled
               THEN Exhausts(u, incident) /\ UNCHANGED incident
               ELSE /\ incident' = [incident EXCEPT !.attempt = @ + 1, !.status = "scheduled"]
                    /\ attempt' = [attempt EXCEPT ![u] =
                         [pc |-> "redefer", held |-> incident', data |-> @.data,
                          reason |-> "stable-timeout"]]
  /\ UNCHANGED <<progress, recovering, turnVars, talkVars, doing, queue, used, faults>>

\* _handle_recovery_oom.
HandlesOom(u) ==
  /\ attempt[u].pc = "oom"
  /\ IF incident = NoIncident THEN Gives(u) /\ UNCHANGED incident
     ELSE /\ UNCHANGED runs
          /\ incident' = [incident EXCEPT !.ooms = @ + 1]
          /\ attempt' = [attempt EXCEPT ![u] =
               [pc |-> IF incident.ooms + 1 > MaxOoms THEN "exhaust" ELSE "redefer",
                held |-> incident', data |-> @.data, reason |-> "out-of-memory"]]
  /\ UNCHANGED <<progress, recovering, turnVars, talkVars, doing, queue, used, faults>>

HandlesPlatform(u) ==
  /\ attempt[u].pc = "platform"
  /\ attempt' = [attempt EXCEPT ![u] =
       [pc |-> "redefer", held |-> incident, data |-> @.data, reason |-> "platform"]]
  /\ UNCHANGED <<storeVars, turnVars, runs, talkVars, doing, queue, used, faults>>

Sequence(data) == data.seq + 1

\* _redefer_recovery: another run, with the next sequence, or the end of it.
Redefer(u) ==
  /\ attempt[u].pc = "redefer"
  /\ LET data == attempt[u].data  seq == Sequence(data) IN
       IF seq > MaxAttempts
       THEN attempt' = [attempt EXCEPT ![u].pc = "exhaust"] /\ UNCHANGED runs
       ELSE LET next == <<attempt[u].reason, seq>>
                with == Enqueued(next, [data EXCEPT !.seq = seq]) IN
              /\ runs' = IF next = u THEN with ELSE [with EXCEPT ![u] = NoRun]
              /\ Tries(u, Idle)
  /\ UNCHANGED <<storeVars, turnVars, talkVars, doing, queue, used, faults>>

AttemptExhausts(u) ==
  /\ attempt[u].pc = "exhaust"
  /\ IF attempt[u].held # NoIncident /\ WasReported(attempt[u].held)
     THEN Gives(u) /\ UNCHANGED incident
     ELSE /\ incident' = IF attempt[u].held = NoIncident THEN incident
                         ELSE Reported(attempt[u].held)
          /\ Tries(u, [pc |-> "report"]) /\ UNCHANGED runs
  /\ UNCHANGED <<progress, recovering, turnVars, talkVars, doing, queue, used, faults>>

AttemptReports(u) ==
  /\ attempt[u].pc = "report"
  /\ recovering' = FALSE
  /\ Gives(u)
  /\ UNCHANGED <<incident, progress, turnVars, talkVars, doing, queue, used, faults>>

----------------------------------------------------------------------------
(* What comes between.                                                      *)

\* The memory goes; rows and keys stay.
Evicted ==
  /\ Fault
  /\ doing' = [t \in Turns |-> Idle] /\ attempt' = [u \in Runs |-> Idle] /\ queue' = <<>>
  /\ UNCHANGED <<storeVars, turnVars, runs, talkVars, used>>

\* Another message of the user waits for the queue, and goes into the transcript.
UserSends ==
  /\ Busy /\ leaf # Later /\ \A i \in 1..Len(queue) : queue[i] # User
  /\ queue' = Append(queue, User)
  /\ UNCHANGED <<storeVars, turnVars, runs, talkVars, doing, attempt, used, faults>>
UserTurn ==
  /\ QueueFree /\ queue # <<>> /\ Head(queue) = User
  /\ queue' = Tail(queue) /\ leaf' = Later /\ asks' = FALSE
  /\ UNCHANGED <<storeVars, turnVars, runs, doing, attempt, used, faults>>

\* A tab answers the offer of a stream restored after an eviction.
TabAcks(t) ==
  /\ Busy /\ stream[t] = "streaming" /\ ~Live(t)
  /\ stream' = [stream EXCEPT ![t] = "completed"]
  /\ UNCHANGED <<storeVars, task, content, message, runs, talkVars, memory, used, faults>>

TaskStep(t) ==
  \/ Emits(t) \/ TurnEnds(t) \/ Recovers(t) \/ ReadsIncident(t) \/ Decides(t) \/ Persists(t)
  \/ Closes(t) \/ Flags(t) \/ Enqueues(t) \/ Unflags(t) \/ TaskExhausts(t) \/ TaskReports(t)
RunStep(u) ==
  \/ Attempts(u) \/ AttemptStarts(u) \/ HandsOff(u) \/ AttemptEnds(u) \/ AttemptUnflags(u)
  \/ Reschedules(u) \/ HandlesOom(u) \/ HandlesPlatform(u) \/ Redefer(u)
  \/ AttemptExhausts(u) \/ AttemptReports(u)

Next ==
  \/ \E t \in Turns : TaskStep(t) \/ TurnBreaks(t) \/ EnqueueFails(t) \/ TabAcks(t)
  \/ \E u \in Runs : RunStep(u) \/ StableTimeout(u)
  \/ Evicted \/ UserSends \/ UserTurn

\* What the isolate runs goes on: tasks are dispatched, attempts and turns end.
Fairness ==
  /\ \A t \in Turns : WF_vars(TaskStep(t))
  /\ \A u \in Runs : WF_vars(RunStep(u))
  /\ WF_vars(UserTurn)

Spec == Init /\ [][Next]_vars /\ Fairness

----------------------------------------------------------------------------
(* Properties.                                                              *)

Working ==
  \/ \E t \in Turns : task[t] = "open" \/ doing[t] # Idle
  \/ \E u \in Runs : runs[u] # NoRun \/ attempt[u] # Idle

\* Recovery comes to an end by itself: once evictions and failures stop, the
\* tasks of the turns and the runs of the recovery task are all gone.
RecoverySettles == <>[]~Working

\* What may still begin a turn: the task of a turn that was interrupted, and a
\* run whose attempt has not begun its turn or has lost it.
Interrupted == {t \in Turns : task[t] = "open" /\ ~Live(t)}
Outstanding ==
  {u \in Runs : \/ attempt[u].pc = "idle" /\ runs[u] # NoRun
                \/ attempt[u].pc \in {"queued", "stable", "platform", "oom", "redefer"}}
Owed == Cardinality(Interrupted) + Cardinality(Outstanding)

\* Attempts past that, whose run may still be in the table.
Under == {u \in Runs : attempt[u].pc # "idle"} \ Outstanding

\* Attempts are paid for: a turn is begun against a run, a run enqueued against
\* an interrupted turn or another run.  Only an eviction or a failure adds to
\* what is owed: the turn it interrupts, and the runs of attempts under way.
Pays == used' + Owed' <= used + Owed + IF faults' = faults THEN 0 ELSE 1 + Cardinality(Under)
AttemptsArePaid == [][Pays]_vars
=============================================================================

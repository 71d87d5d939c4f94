-------------------------- MODULE ChatTurns_proofs --------------------------
(***************************************************************************)
(* Proofs about ChatTurns: every accepted request is seen by the probes    *)
(* and answered with one terminal frame, and what a clear wiped stays      *)
(* away.  For every number of requests, continuations, connections, client *)
(* tools, clears and failures, whether providers unwind slowly or not.     *)
(***************************************************************************)
EXTENDS ChatTurns, SequenceTheorems, TLAPS

-----------------------------------------------------------------------------
(* The inductive invariant.                                                *)

\* Where a turn may be: in the queue, entered, anywhere on its way.
Waits(t)   == handler[t] \in {"queued", "starting", "waiting"}
Entered(t) == handler[t] \in {"starting", "waiting"}
Begun(t)   == handler[t] \notin {"idle", "done"}

\* The phases of a callback that its task still runs for.
Engaged == {"ready", "provider", "erring", "locking", "saving"}

Distinct(q) == \A i, j \in DOMAIN q : q[i] = q[j] => i = j
Listed(q)   == {q[i] : i \in DOMAIN q}

\* The queue lists the turns that wait, each once; only its head has entered.
QueueInv ==
  /\ Distinct(queue)
  /\ Listed(queue) = {t \in Turns : Waits(t)}
  /\ \A t \in Turns : Entered(t) => Head(queue) = t

\* A continuation that has not fired is not under way.
ContFits(ct, h) ==
  /\ ct.pending # NoTurn /\ ~ct.past => h[ct.pending] = "idle"
  /\ ct.deferred # NoTurn => h[ct.deferred] = "idle" /\ ct.deferred # ct.pending
ContInv == ContFits(cont, handler)

\* A task is open while its handler waits for it, and its callback with it.
TaskInv ==
  \A t \in Turns :
    /\ callback[t] \in Engaged <=> task[t] = "running"
    /\ callback[t] = "unwinding" => task[t] = "settled"
    /\ task[t] \in {"pending", "running"} => handler[t] = "waiting"
    /\ handler[t] \in {"idle", "queued", "starting"} => task[t] = "none"
    /\ handler[t] = "waiting" => task[t] # "none"
    /\ t \in cancelled => task[t] = "running"

\* A mark stands for the terminal frame of a turn under way; whatever ends a
\* turn, or asks it to end, has set it.
FrameInv ==
  \A t \in Turns :
    /\ handler[t] = "idle" => terminals[t] = 0 /\ t \notin marked
    /\ Begun(t) => terminals[t] = IF t \in marked THEN 1 ELSE 0
    /\ handler[t] = "done" =>
         t \notin marked /\ terminals[t] <= 1 /\ (t \in Requests => terminals[t] = 1)
    /\ handler[t] = "failing" /\ t \in Requests => t \in marked
    /\ handler[t] = "waiting" /\ task[t] = "settled" => t \in marked
    /\ callback[t] = "erring" \/ t \in cancelled => t \in marked

\* A request without its frame is accepted, or is the stream; a clear that is
\* under way finds only such as came after it began.
SeenInv ==
  \A r \in Requests :
    Begun(r) /\ r \notin marked \cup crossed =>
      /\ clearing = "idle"
      /\ \/ r \in accepted
         \/ stream = r /\ callback[r] \in {"provider", "locking", "saving"}

\* A reply that waits for the lock is of this generation, or is cancelled
\* before the clear goes on to delete the transcript.
WriteInv ==
  /\ AnswersStayCleared
  /\ \A t \in Turns :
       callback[t] = "locking" /\ ~Admitted(t) =>
         t \in cancelled /\ clearing = "cancelling"

TurnsInv ==
  TypeOK /\ QueueInv /\ ContInv /\ TaskInv /\ FrameInv /\ SeenInv /\ WriteInv

-----------------------------------------------------------------------------
(* The queue: a turn joins it, enters, leaves, and reports its failure.     *)

Goes(t, where) == handler' = [handler EXCEPT ![t] = where]

Joins(t) ==
  /\ handler[t] = "idle" /\ Goes(t, "queued") /\ queue' = Append(queue, t)

Enters(t) ==
  /\ handler[t] \in {"queued", "starting"} /\ Head(queue) = t
  /\ Goes(t, "starting") \/ Goes(t, "waiting")
  /\ queue' = queue

Leaves(t) ==
  /\ Waits(t) /\ Head(queue) = t
  /\ Goes(t, "done") \/ Goes(t, "failing")
  /\ queue' = Tail(queue)

Reports(t) == handler[t] = "failing" /\ Goes(t, "done") /\ queue' = queue

QueueMoves(t) == Joins(t) \/ Enters(t) \/ Leaves(t) \/ Reports(t)

Stays == queue' = queue /\ handler' = handler

\* The continuation's record has its type and fits where the turns are.
ContOK(ct, h) ==
  /\ ct \in [pending : Continuations \cup {NoTurn}, past : BOOLEAN,
             deferred : Continuations \cup {NoTurn},
             active : Continuations \cup {NoTurn}, timer : BOOLEAN,
             spawned : BOOLEAN, barrier : BOOLEAN, draining : BOOLEAN]
  /\ ct.past => ct.pending # NoTurn /\ ~ct.timer
  /\ ContFits(ct, h)

\* It does when it was only marked as spawned, or as draining.
LEMMA MarkedCont ==
  ASSUME TypeOK, ContInv
  PROVE  /\ ContOK(cont, handler)
         /\ \A b \in BOOLEAN :
              /\ ContOK([cont EXCEPT !.spawned = b], handler)
              /\ ContOK([cont EXCEPT !.spawned = FALSE, !.barrier = b,
                                     !.draining = b], handler)
              /\ ContOK([cont EXCEPT !.draining = b, !.barrier = b], handler)
<1>1. ContOK(cont, handler)
  BY DEF TypeOK, ContOK, ContInv
<1>2. ASSUME NEW b \in BOOLEAN
      PROVE  /\ ContOK([cont EXCEPT !.spawned = b], handler)
             /\ ContOK([cont EXCEPT !.spawned = FALSE, !.barrier = b,
                                    !.draining = b], handler)
             /\ ContOK([cont EXCEPT !.draining = b, !.barrier = b], handler)
  BY <1>1 DEF ContOK, ContFits
<1> QED BY <1>1, <1>2

\* The functions of AutoContinuationController keep the record so.
LEMMA ContFunctions ==
  ASSUME NEW ct, NEW h, ContOK(ct, h)
  PROVE  /\ ContOK(Rearm(ct), h) /\ ContOK(ResetCont(ct), h)
         /\ \A t \in Turns : ContOK(Activate(ct, t), h) /\ ContOK(Finish(ct, t), h)
         /\ \A k \in Continuations :
              h[k] = "idle" /\ k \notin {ct.pending, ct.deferred}
                => ContOK(Schedule(ct, k), h)
<1>1. ContOK(Rearm(ct), h) /\ ContOK(ResetCont(ct), h)
  BY DEF ContOK, ContFits, Rearm, ResetCont, NoCont
<1>2. ASSUME NEW t \in Turns
      PROVE  ContOK(Activate(ct, t), h) /\ ContOK(Finish(ct, t), h)
  <2>1. ContOK(Activate(ct, t), h)
    BY DEF ContOK, ContFits, Activate
  <2>2. ContOK(Finish(ct, t), h)
    <3> DEFINE idle == [ct EXCEPT !.active = IF @ = t THEN NoTurn ELSE @]
               next == [idle EXCEPT !.pending = ct.deferred, !.past = FALSE,
                                    !.deferred = NoTurn]
    <3>1. ContOK(idle, h)
      BY DEF ContOK, ContFits
    <3>2. ContOK(Rearm(next), h)
      BY DEF ContOK, ContFits, Rearm
    <3> QED BY <3>1, <3>2 DEF Finish
  <2> QED BY <2>1, <2>2
<1>3. ASSUME NEW k \in Continuations, h[k] = "idle", k \notin {ct.pending, ct.deferred}
      PROVE  ContOK(Schedule(ct, k), h)
  BY <1>3, ChatAssumption DEF ContOK, ContFits, Schedule, Turns
<1> QED BY <1>1, <1>2, <1>3

\* A batch that fires keeps the record so; its turn joins the queue.
LEMMA BatchFires ==
  ASSUME TypeOK, NEW ct, ContOK(ct, handler), FireBatch(ct)
  PROVE  /\ ContOK(cont', handler')
         /\ Stays \/ (ct.pending \in Continuations /\ Joins(ct.pending))
<1> DEFINE k == ct.pending
<1>1. CASE Stays /\ (cont' = ct \/ cont' = ResetCont(ct))
  BY <1>1, ContFunctions DEF Stays
<1>2. CASE /\ ~Idle(ct) /\ Enqueue(k)
           /\ cont' = [ct EXCEPT !.timer = FALSE, !.past = TRUE]
  <2>1. k \in Continuations /\ handler[k] = "idle"
    BY <1>2 DEF Idle, ContOK, ContFits
  <2>2. Joins(k)
    BY <1>2, <2>1 DEF Enqueue, Joins, Goes
  <2>3. ContOK(cont', handler')
    BY <1>2, <2>1, <2>2 DEF ContOK, ContFits, Joins, Goes, Idle, TypeOK, Turns
  <2> QED BY <2>1, <2>2, <2>3
<1> QED BY <1>1, <1>2 DEF FireBatch, Stays, queueVars

\* A handler's step takes its own turn a step further, and out of the queue
\* from its head only.
LEMMA HandlerMoves ==
  ASSUME TurnsInv, NEW t \in Turns,
         Handler(t) \/ RequestFails(t) \/ ContinuationFails(t)
  PROVE  (Enters(t) \/ Leaves(t) \/ Reports(t)) /\ cont' \in {cont, ResetCont(cont)}
<1>1. AtHead(t) => handler[t] = "queued" /\ Head(queue) = t
  BY DEF AtHead
<1>2. Entered(t) => Head(queue) = t
  BY DEF TurnsInv, QueueInv
<1>3. CASE Enter(t)
  BY <1>1, <1>3 DEF Enter, EnterStale, EnterAborted, EnterRequest,
     EnterContinuation, Leave, Enters, Leaves, Goes, Waits
<1>4. CASE FailureReported(t)
  BY <1>4 DEF FailureReported, Leave, Reports, Goes, queueVars
<1>5. CASE HandlerReturns(t) \/ StartTask(t)
  BY <1>2, <1>5 DEF HandlerReturns, StartTask, Leave, Enters, Leaves, Goes, Waits,
     Entered, queueVars
<1>6. CASE RequestFails(t) \/ ContinuationFails(t)
  BY <1>1, <1>2, <1>6 DEF RequestFails, ContinuationFails, Leaves, Goes, Waits,
     Entered
<1> QED BY <1>3, <1>4, <1>5, <1>6 DEF Handler

\* What a turn's callback does, and what befalls it, leaves the queue alone.
LEMMA CallbackStays ==
  ASSUME NEW t \in Turns,
         \/ Callback(t) \/ AskTool(t) \/ EmptyReplyEnds(t) \/ CancelRequest(t)
         \/ StreamRefused(t) \/ ReplyFails(t) \/ SaveFails(t)
  PROVE  Stays
BY DEF Stays, Callback, AskTool, EmptyReplyEnds, CancelRequest, StreamRefused,
   ReplyFails, SaveFails, ClaimTask, StartStream, ProviderOutdated, ReplyWaits,
   SaveReply, ReplySaved, ErrorReported, DeliverCancel, Unwound, queueVars

\* So does whatever else is neither a request nor a batch that fires.
LEMMA RestStays ==
  ASSUME \/ ClearBegins \/ Clear \/ \E c \in Connections : Probe(c)
         \/ ToolWaits \/ Answering \/ TimerFires \/ UNCHANGED vars
  PROVE  Stays
BY DEF Stays, ClearBegins, Clear, ClearWipes, ClearEnds, Probe, ToolWaits,
   Answering, AnswerLive, AnswerStored, AnswerApplied, AnswerSeeks, AnswerLost,
   TimerFires, vars, queueVars, turnVars

\* A continuation fires, or nothing does.
LEMMA BatchMoves ==
  ASSUME TypeOK, ContInv, FireWhenStable \/ Drained
  PROVE  /\ ContOK(cont', handler')
         /\ Stays \/ \E k \in Continuations : Joins(k)
<1>1. ASSUME NEW ct, ContOK(ct, handler), FireBatch(ct)
      PROVE  /\ ContOK(cont', handler')
             /\ Stays \/ \E k \in Continuations : Joins(k)
  BY <1>1, BatchFires
<1>2. CASE FireWhenStable
  BY <1>1, <1>2, MarkedCont DEF FireWhenStable, queueVars, Stays
<1>3. CASE Drained
  BY <1>1, <1>3, MarkedCont DEF Drained
<1> QED BY <1>2, <1>3

\* Every step moves at most one turn through the queue.
LEMMA EveryMove ==
  ASSUME TurnsInv, [Next]_vars
  PROVE  Stays \/ \E t \in Turns : QueueMoves(t)
<1>1. ASSUME NEW r \in Requests, AcceptRequest(r)
      PROVE  QueueMoves(r)
  BY <1>1 DEF AcceptRequest, Enqueue, QueueMoves, Joins, Goes
<1> QED
  BY <1>1, HandlerMoves, CallbackStays, RestStays, BatchMoves
  DEF Next, Failing, Turns, QueueMoves, TurnsInv

\* Joining at the end keeps the queue a list without repetition, and its head.
LEMMA JoinQueue ==
  ASSUME queue \in Seq(Turns), Distinct(queue), NEW t \in Turns \ Listed(queue),
         queue' = Append(queue, t)
  PROVE  /\ queue' \in Seq(Turns) /\ Distinct(queue')
         /\ Listed(queue') = Listed(queue) \cup {t}
         /\ queue # <<>> => Head(queue') = Head(queue)
<1>1. /\ queue' \in Seq(Turns) /\ Len(queue') = Len(queue) + 1
      /\ \A i \in 1..Len(queue) : queue'[i] = queue[i]
      /\ queue'[Len(queue) + 1] = t
  BY AppendProperties
<1>2. /\ Len(queue) \in Nat /\ DOMAIN queue = 1..Len(queue)
      /\ DOMAIN queue' = 1..(Len(queue) + 1)
  BY <1>1, LenProperties
<1>3. Distinct(queue')
  BY <1>1, <1>2 DEF Distinct, Listed
<1>4. Listed(queue') = Listed(queue) \cup {t}
  BY <1>1, <1>2 DEF Listed
<1> QED BY <1>1, <1>2, <1>3, <1>4

\* Leaving at the head takes just the head out.
LEMMA LeaveQueue ==
  ASSUME queue \in Seq(Turns), Distinct(queue), queue # <<>>, queue' = Tail(queue)
  PROVE  /\ queue' \in Seq(Turns) /\ Distinct(queue')
         /\ Listed(queue') = Listed(queue) \ {Head(queue)}
<1>1. /\ queue' \in Seq(Turns) /\ Len(queue) \in Nat /\ Len(queue) > 0
      /\ Len(queue') = Len(queue) - 1
      /\ \A i \in 1..Len(queue') : queue'[i] = queue[i + 1]
      /\ Head(queue) = queue[1]
  BY HeadTailProperties, LenProperties, EmptySeq
<1>2. DOMAIN queue = 1..Len(queue) /\ DOMAIN queue' = 1..Len(queue')
  BY <1>1, LenProperties
<1>3. Distinct(queue')
  BY <1>1, <1>2 DEF Distinct
<1>4. ASSUME NEW x
      PROVE  x \in Listed(queue') <=> x \in Listed(queue) \ {Head(queue)}
  <2>1. ASSUME NEW i \in 1..Len(queue'), x = queue'[i]
        PROVE  x \in Listed(queue) \ {Head(queue)}
    <3>1. i + 1 \in DOMAIN queue /\ 1 \in DOMAIN queue /\ x = queue[i + 1]
      BY <1>1, <1>2, <2>1
    <3> QED BY <1>1, <3>1 DEF Distinct, Listed
  <2>2. ASSUME NEW j \in 1..Len(queue), x = queue[j], x # Head(queue)
        PROVE  x \in Listed(queue')
    <3>1. j - 1 \in 1..Len(queue') /\ queue'[j - 1] = queue[j]
      BY <1>1, <2>2
    <3> QED BY <1>2, <2>2, <3>1 DEF Listed
  <2> QED BY <1>2, <2>1, <2>2 DEF Listed
<1> QED BY <1>1, <1>3, <1>4

\* The queue stays the list of the turns that wait, entered from its head.
LEMMA QueueStep ==
  ASSUME TurnsInv, [Next]_vars
  PROVE  queue' \in Seq(Turns) /\ QueueInv'
<1>0. /\ queue \in Seq(Turns) /\ QueueInv /\ DOMAIN handler = Turns
      /\ \A t \in Turns : Waits(t) => queue # <<>>
  BY DEF TurnsInv, TypeOK, QueueInv, Listed
<1>1. CASE Stays
  BY <1>0, <1>1 DEF Stays, QueueInv, Waits, Entered
<1>2. ASSUME NEW t \in Turns, QueueMoves(t)
      PROVE  queue' \in Seq(Turns) /\ QueueInv'
  <2>1. CASE Joins(t)
    <3>1. t \notin Listed(queue)
      BY <1>0, <2>1 DEF Joins, QueueInv, Waits
    <3>2. \A u \in Turns : Entered(u)' => Entered(u) /\ queue # <<>>
      BY <1>0, <2>1 DEF Joins, Goes, Entered, Waits
    <3>3. {u \in Turns : Waits(u)'} = {u \in Turns : Waits(u)} \cup {t}
      BY <1>0, <2>1 DEF Joins, Goes, Waits
    <3> QED BY <1>0, <2>1, <3>1, <3>2, <3>3, JoinQueue DEF Joins, QueueInv
  <2>2. CASE Enters(t)
    BY <1>0, <2>2 DEF Enters, Goes, QueueInv, Waits, Entered
  <2>3. CASE Leaves(t)
    <3>1. \A u \in Turns : ~Entered(u)'
      BY <1>0, <2>3 DEF Leaves, Goes, QueueInv, Entered
    <3>2. {u \in Turns : Waits(u)'} = {u \in Turns : Waits(u)} \ {t}
      BY <1>0, <2>3 DEF Leaves, Goes, Waits
    <3> QED BY <1>0, <2>3, <3>1, <3>2, LeaveQueue DEF Leaves, QueueInv
  <2>4. CASE Reports(t)
    BY <1>0, <2>4 DEF Reports, Goes, QueueInv, Waits, Entered
  <2> QED BY <1>2, <2>1, <2>2, <2>3, <2>4 DEF QueueMoves
<1> QED BY <1>1, <1>2, EveryMove

\* Only one turn has entered.
LEMMA OneEntered ==
  ASSUME TurnsInv, NEW t \in Turns, NEW u \in Turns, Entered(t), Entered(u)
  PROVE  t = u
BY DEF TurnsInv, QueueInv

-----------------------------------------------------------------------------
(* The continuation, and the types.                                        *)

\* Only a continuation that fires ceases to be idle.
LEMMA ContFollows ==
  ASSUME TypeOK, NEW ct, ContOK(ct, handler),
         \/ Stays
         \/ \E t \in Turns : Enters(t) \/ Leaves(t) \/ Reports(t)
         \/ \E r \in Requests : Joins(r)
  PROVE  ContOK(ct, handler')
<1>1. ASSUME NEW k \in Continuations, handler[k] = "idle"
      PROVE  handler'[k] = "idle"
  BY <1>1, ChatAssumption
  DEF Stays, Enters, Leaves, Reports, Joins, Goes, Waits, TypeOK, Turns
<1> QED BY <1>1 DEF ContOK, ContFits

\* The continuation's record keeps its type and fits.
LEMMA ContStep ==
  ASSUME TurnsInv, [Next]_vars
  PROVE  ContOK(cont', handler')
<1>0. /\ TypeOK /\ ContOK(cont, handler)
      /\ \A ct : ContOK(ct, handler) /\ Stays => ContOK(ct, handler')
  BY MarkedCont, ContFollows DEF TurnsInv
<1>1. ASSUME NEW t \in Turns, Handler(t) \/ RequestFails(t) \/ ContinuationFails(t)
      PROVE  ContOK(cont', handler')
  BY <1>0, <1>1, HandlerMoves, ContFunctions, ContFollows
<1>2. ASSUME NEW t \in Turns,
             \/ Callback(t) \/ AskTool(t) \/ EmptyReplyEnds(t) \/ CancelRequest(t)
             \/ StreamRefused(t) \/ ReplyFails(t) \/ SaveFails(t)
      PROVE  ContOK(cont', handler')
  <2>1. cont' \in {cont, Activate(cont, t), Finish(cont, t), Rearm(cont)}
    BY <1>2 DEF Callback, AskTool, EmptyReplyEnds, CancelRequest, StreamRefused,
       ReplyFails, SaveFails, ClaimTask, StartStream, ProviderOutdated, ReplyWaits,
       SaveReply, ReplySaved, ErrorReported, DeliverCancel, Unwound, Finally
  <2> QED BY <1>0, <1>2, <2>1, ContFunctions, CallbackStays
<1>3. ASSUME NEW r \in Requests, AcceptRequest(r)
      PROVE  ContOK(cont', handler')
  <2>1. Joins(r) /\ cont' = cont
    BY <1>3 DEF AcceptRequest, Enqueue, Joins, Goes
  <2> QED BY <1>0, <2>1, ContFollows
<1>4. ASSUME Answering
      PROVE  ContOK(cont', handler')
  <2>1. ASSUME NEW k \in Continuations, Fresh(k)
        PROVE  ContOK(Schedule(cont, k), handler)
    BY <1>0, <2>1, ContFunctions DEF Fresh
  <2> QED BY <1>0, <1>4, <2>1, ContFunctions, RestStays
          DEF Answering, AnswerLive, AnswerStored, AnswerApplied, AnswerSeeks,
              AnswerLost, Answered
<1>5. ASSUME \/ ClearBegins \/ Clear \/ \E c \in Connections : Probe(c)
             \/ ToolWaits \/ UNCHANGED vars
      PROVE  ContOK(cont', handler')
  <2>1. cont' \in {cont, ResetCont(cont)}
    BY <1>5 DEF ClearBegins, Clear, ClearWipes, ClearEnds, Probe, ToolWaits, vars
  <2> QED BY <1>0, <1>5, <2>1, ContFunctions, RestStays
<1>6. CASE TimerFires
  <2>1. \A b \in BOOLEAN :
          ContOK([cont EXCEPT !.timer = FALSE, !.spawned = b], handler)
    BY <1>0 DEF ContOK, ContFits
  <2>2. (cont.spawned \/ cont.pending # NoTurn) \in BOOLEAN
    BY <1>0 DEF ContOK
  <2> QED BY <1>0, <1>6, <2>1, <2>2, RestStays DEF TimerFires
<1>7. CASE FireWhenStable \/ Drained
  BY <1>7, BatchMoves DEF TurnsInv
<1> QED BY <1>1, <1>2, <1>3, <1>4, <1>5, <1>6, <1>7 DEF Next, Failing, Turns
\* The types, apart from the queue's and the continuation's.
PlainType ==
  /\ generation \in Nat /\ current \in Turns \cup {NoTurn}
  /\ captured \in [Turns -> Nat]
  /\ handler \in [Turns -> {"idle", "queued", "starting", "waiting", "failing",
                            "done"}]
  /\ callback \in [Turns -> {"none", "ready", "provider", "erring", "locking",
                             "saving", "unwinding"}]
  /\ task \in [Turns -> {"none", "pending", "running", "settled"}]
  /\ cancelled \subseteq Turns /\ aborted \subseteq Turns
  /\ marked \subseteq Turns /\ accepted \subseteq Turns
  /\ parked \subseteq Connections /\ crossed \subseteq Requests
  /\ terminals \in [Turns -> Nat]
  /\ stream \in Turns \cup {NoTurn} /\ streaming \in Turns \cup {NoTurn}
  /\ lock \in Turns \cup {NoTurn, Tool}
  /\ tool \in {"idle", "locking", "applying", "seeking"}
  /\ answers \subseteq Turns
  /\ stored \in [open : Nat, answered : BOOLEAN]
  /\ live \in [open : Nat, answered : BOOLEAN]
  /\ faults \in Nat /\ calls \in Nat
  /\ clearing \in {"idle", "cancelling", "wiping"}

\* So does every other variable its type.
LEMMA PlainStep ==
  ASSUME TurnsInv, [Next]_vars
  PROVE  PlainType'
<1>0. PlainType
  BY DEF TurnsInv, TypeOK, PlainType
<1> USE DEF PlainType, Turns, queueVars, turnVars, frameVars, probeVars,
       streamVars, talkVars, boundVars, Leave, SendTerminals, Settle,
       EndStream, Fault, Finally
<1>1. ASSUME NEW t \in Turns, EnterStale(t) PROVE PlainType'
  BY <1>0, <1>1 DEF EnterStale, AtHead
<1>2. ASSUME NEW t \in Turns, EnterAborted(t) PROVE PlainType'
  BY <1>0, <1>2 DEF EnterAborted, AtHead
<1>3. ASSUME NEW t \in Turns, EnterRequest(t) PROVE PlainType'
  BY <1>0, <1>3 DEF EnterRequest, AtHead
<1>4. ASSUME NEW t \in Turns, EnterContinuation(t) PROVE PlainType'
  BY <1>0, <1>4 DEF EnterContinuation, AtHead
<1>5. ASSUME NEW t \in Turns, FailureReported(t) PROVE PlainType'
  BY <1>0, <1>5 DEF FailureReported
<1>6. ASSUME NEW t \in Turns, HandlerReturns(t) PROVE PlainType'
  BY <1>0, <1>6 DEF HandlerReturns
<1>7. ASSUME NEW t \in Turns, StartTask(t) PROVE PlainType'
  BY <1>0, <1>7 DEF StartTask
<1>8. ASSUME NEW t \in Turns, ClaimTask(t) PROVE PlainType'
  BY <1>0, <1>8 DEF ClaimTask
<1>9. ASSUME NEW t \in Turns, StartStream(t) PROVE PlainType'
  BY <1>0, <1>9 DEF StartStream, NoCalls
<1>10. ASSUME NEW t \in Turns, ProviderOutdated(t) PROVE PlainType'
  BY <1>0, <1>10 DEF ProviderOutdated, InProvider
<1>11. ASSUME NEW t \in Turns, ReplyWaits(t) PROVE PlainType'
  BY <1>0, <1>11 DEF ReplyWaits, InProvider
<1>12. ASSUME NEW t \in Turns, SaveReply(t) PROVE PlainType'
  BY <1>0, <1>12 DEF SaveReply, InProvider, NoCalls
<1>13. ASSUME NEW t \in Turns, ReplySaved(t) PROVE PlainType'
  BY <1>0, <1>13 DEF ReplySaved
<1>14. ASSUME NEW t \in Turns, ErrorReported(t) PROVE PlainType'
  BY <1>0, <1>14 DEF ErrorReported
<1>15. ASSUME NEW t \in Turns, DeliverCancel(t) PROVE PlainType'
  BY <1>0, <1>15 DEF DeliverCancel
<1>16. ASSUME NEW t \in Turns, Unwound(t) PROVE PlainType'
  BY <1>0, <1>16 DEF Unwound
<1>17. ASSUME NEW t \in Turns, AskTool(t) PROVE PlainType'
  BY <1>0, <1>17 DEF AskTool, InProvider, Call
<1>18. ASSUME NEW t \in Turns, EmptyReplyEnds(t) PROVE PlainType'
  BY <1>0, <1>18 DEF EmptyReplyEnds, InProvider, NoCalls
<1>19. ASSUME NEW t \in Turns, CancelRequest(t) PROVE PlainType'
  BY <1>0, <1>19 DEF CancelRequest, CancelTasks, Active
<1>20. ASSUME NEW t \in Turns, RequestFails(t) PROVE PlainType'
  BY <1>0, <1>20 DEF RequestFails, AtHead
<1>21. ASSUME NEW t \in Turns, ContinuationFails(t) PROVE PlainType'
  BY <1>0, <1>21 DEF ContinuationFails, AtHead
<1>22. ASSUME NEW t \in Turns, StreamRefused(t) PROVE PlainType'
  BY <1>0, <1>22 DEF StreamRefused
<1>23. ASSUME NEW t \in Turns, ReplyFails(t) PROVE PlainType'
  BY <1>0, <1>23 DEF ReplyFails, InProvider
<1>24. ASSUME NEW t \in Turns, SaveFails(t) PROVE PlainType'
  BY <1>0, <1>24 DEF SaveFails
<1>25. ASSUME NEW r \in Requests, AcceptRequest(r) PROVE PlainType'
  BY <1>0, <1>25 DEF AcceptRequest, Enqueue
<1>26. ASSUME NEW c \in Connections, Probe(c) PROVE PlainType'
  BY <1>0, <1>26 DEF Probe
<1>27. CASE ClearBegins
  BY <1>0, <1>27 DEF ClearBegins, CancelTasks, Active
<1>28. CASE ClearWipes
  BY <1>0, <1>28 DEF ClearWipes, NoCalls
<1>29. CASE ClearEnds
  BY <1>0, <1>29 DEF ClearEnds
<1>30. CASE ToolWaits
  BY <1>0, <1>30 DEF ToolWaits
<1>31. CASE AnswerLive
  BY <1>0, <1>31 DEF AnswerLive, Locked, Answer, LiveOpen
<1>32. CASE AnswerStored
  BY <1>0, <1>32 DEF AnswerStored, Locked, Answer, StoredOpen
<1>33. CASE AnswerApplied
  BY <1>0, <1>33 DEF AnswerApplied, Answered, Fresh
<1>34. CASE AnswerSeeks
  BY <1>0, <1>34 DEF AnswerSeeks, Locked
<1>35. CASE AnswerLost
  BY <1>0, <1>35 DEF AnswerLost
<1>36. CASE TimerFires
  BY <1>0, <1>36 DEF TimerFires
<1>37. CASE FireWhenStable \/ Drained
  <2>1. cont.pending \in Turns \cup {NoTurn}
    BY DEF TurnsInv, TypeOK
  <2>2. ASSUME NEW ct, ct.pending = cont.pending, FireBatch(ct)
        PROVE  /\ generation' = generation /\ current' \in Turns \cup {NoTurn}
               /\ captured' \in [Turns -> Nat] /\ accepted' \subseteq Turns
               /\ parked' \subseteq Connections
    BY <1>0, <2>1, <2>2, SMTT(30) DEF FireBatch, Enqueue, Idle
  <2>3. handler' \in [Turns -> {"idle", "queued", "starting", "waiting", "failing",
                                "done"}]
    BY <1>0, <1>37, BatchMoves DEF TurnsInv, Stays, Joins, Goes
  <2>4. /\ generation' = generation /\ current' \in Turns \cup {NoTurn}
        /\ captured' \in [Turns -> Nat] /\ accepted' \subseteq Turns
        /\ parked' \subseteq Connections
    <3>1. CASE FireWhenStable
      BY <1>0, <2>2, <3>1 DEF FireWhenStable, TurnsInv, TypeOK
    <3>2. CASE Drained
      BY <2>2, <3>2 DEF Drained, TurnsInv, TypeOK
    <3> QED BY <1>37, <3>1, <3>2
  <2> QED BY <1>0, <1>37, <2>3, <2>4 DEF FireWhenStable, Drained
<1>38. CASE UNCHANGED vars
  BY <1>0, <1>38 DEF vars
<1> QED
  BY <1>1, <1>2, <1>3, <1>4, <1>5, <1>6, <1>7, <1>8, <1>9, <1>10, <1>11, <1>12,
     <1>13, <1>14, <1>15, <1>16, <1>17, <1>18, <1>19, <1>20, <1>21, <1>22,
     <1>23, <1>24, <1>25, <1>26, <1>27, <1>28, <1>29, <1>30, <1>31, <1>32,
     <1>33, <1>34, <1>35, <1>36, <1>37, <1>38
  DEF Next, Handler, Enter, Callback, Failing, Clear, Answering

\* Every variable keeps its type.
LEMMA TypeStep ==
  ASSUME TurnsInv, [Next]_vars
  PROVE  TypeOK' /\ ContInv'
BY PlainStep, QueueStep, ContStep DEF PlainType, ContOK, ContInv, TypeOK

-----------------------------------------------------------------------------
(* Tasks and terminal frames.                                              *)

\* A task is open, and its callback with it, while its handler waits.
LEMMA TaskStep ==
  ASSUME TurnsInv, [Next]_vars
  PROVE  TaskInv'
<1>0. PlainType /\ TaskInv
  BY DEF TurnsInv, TypeOK, PlainType
<1> USE DEF PlainType, TaskInv, Engaged, Turns, Leave, Finally, turnVars
<1>1. ASSUME NEW t \in Turns, EnterStale(t) PROVE TaskInv'
  BY <1>0, <1>1 DEF EnterStale, AtHead
<1>2. ASSUME NEW t \in Turns, EnterAborted(t) PROVE TaskInv'
  BY <1>0, <1>2 DEF EnterAborted, AtHead
<1>3. ASSUME NEW t \in Turns, EnterRequest(t) PROVE TaskInv'
  BY <1>0, <1>3 DEF EnterRequest, AtHead
<1>4. ASSUME NEW t \in Turns, EnterContinuation(t) PROVE TaskInv'
  BY <1>0, <1>4 DEF EnterContinuation, AtHead
<1>5. ASSUME NEW t \in Turns, FailureReported(t) PROVE TaskInv'
  BY <1>0, <1>5 DEF FailureReported
<1>6. ASSUME NEW t \in Turns, HandlerReturns(t) PROVE TaskInv'
  BY <1>0, <1>6 DEF HandlerReturns
<1>7. ASSUME NEW t \in Turns, StartTask(t) PROVE TaskInv'
  BY <1>0, <1>7 DEF StartTask
<1>8. ASSUME NEW t \in Turns, ClaimTask(t) PROVE TaskInv'
  BY <1>0, <1>8 DEF ClaimTask
<1>9. ASSUME NEW t \in Turns, StartStream(t) PROVE TaskInv'
  BY <1>0, <1>9 DEF StartStream, NoCalls
<1>10. ASSUME NEW t \in Turns, ProviderOutdated(t) PROVE TaskInv'
  BY <1>0, <1>10 DEF ProviderOutdated, InProvider
<1>11. ASSUME NEW t \in Turns, ReplyWaits(t) PROVE TaskInv'
  BY <1>0, <1>11 DEF ReplyWaits, InProvider
<1>12. ASSUME NEW t \in Turns, SaveReply(t) PROVE TaskInv'
  BY <1>0, <1>12 DEF SaveReply, InProvider, NoCalls
<1>13. ASSUME NEW t \in Turns, ReplySaved(t) PROVE TaskInv'
  BY <1>0, <1>13 DEF ReplySaved
<1>14. ASSUME NEW t \in Turns, ErrorReported(t) PROVE TaskInv'
  BY <1>0, <1>14 DEF ErrorReported
<1>15. ASSUME NEW t \in Turns, DeliverCancel(t) PROVE TaskInv'
  BY <1>0, <1>15 DEF DeliverCancel
<1>16. ASSUME NEW t \in Turns, Unwound(t) PROVE TaskInv'
  BY <1>0, <1>16 DEF Unwound
<1>17. ASSUME NEW t \in Turns, AskTool(t) PROVE TaskInv'
  BY <1>0, <1>17 DEF AskTool, InProvider, Call
<1>18. ASSUME NEW t \in Turns, EmptyReplyEnds(t) PROVE TaskInv'
  BY <1>0, <1>18 DEF EmptyReplyEnds, InProvider, NoCalls
<1>19. ASSUME NEW t \in Turns, CancelRequest(t) PROVE TaskInv'
  BY <1>0, <1>19 DEF CancelRequest, CancelTasks, Active
<1>20. ASSUME NEW t \in Turns, RequestFails(t) PROVE TaskInv'
  BY <1>0, <1>20 DEF RequestFails, AtHead
<1>21. ASSUME NEW t \in Turns, ContinuationFails(t) PROVE TaskInv'
  BY <1>0, <1>21 DEF ContinuationFails, AtHead
<1>22. ASSUME NEW t \in Turns, StreamRefused(t) PROVE TaskInv'
  BY <1>0, <1>22 DEF StreamRefused
<1>23. ASSUME NEW t \in Turns, ReplyFails(t) PROVE TaskInv'
  BY <1>0, <1>23 DEF ReplyFails, InProvider
<1>24. ASSUME NEW t \in Turns, SaveFails(t) PROVE TaskInv'
  BY <1>0, <1>24 DEF SaveFails
<1>25. ASSUME NEW r \in Requests, AcceptRequest(r) PROVE TaskInv'
  BY <1>0, <1>25 DEF AcceptRequest, Enqueue
<1>26. CASE ClearBegins
  BY <1>0, <1>26 DEF ClearBegins, CancelTasks, Active
<1>27. CASE FireWhenStable \/ Drained
  BY <1>0, <1>27, BatchMoves DEF TurnsInv, FireWhenStable, Drained, Stays, Joins, Goes,
     PlainType
<1>28. CASE \/ ClearWipes \/ ClearEnds \/ \E c \in Connections : Probe(c)
           \/ ToolWaits \/ Answering \/ TimerFires \/ UNCHANGED vars
  BY <1>0, <1>28
     DEF ClearWipes, ClearEnds, Probe, ToolWaits, Answering, AnswerLive,
        AnswerStored, AnswerApplied, AnswerSeeks, AnswerLost, TimerFires, vars
<1> QED
  BY <1>1, <1>2, <1>3, <1>4, <1>5, <1>6, <1>7, <1>8, <1>9, <1>10, <1>11, <1>12,
     <1>13, <1>14, <1>15, <1>16, <1>17, <1>18, <1>19, <1>20, <1>21, <1>22,
     <1>23, <1>24, <1>25, <1>26, <1>27, <1>28
  DEF Next, Handler, Enter, Callback, Failing, Clear, Answering

\* Every turn that ends, or is asked to end, has its frame, and no second one.
LEMMA FrameStep ==
  ASSUME TurnsInv, [Next]_vars
  PROVE  FrameInv'
<1>0. PlainType /\ TaskInv /\ FrameInv
  BY DEF TurnsInv, TypeOK, PlainType
<1> USE DEF PlainType, TaskInv, FrameInv, Engaged, Begun, Turns, Leave,
       Finally, SendTerminals, turnVars, frameVars
<1>1. ASSUME NEW t \in Turns, EnterStale(t) PROVE FrameInv'
  BY <1>0, <1>1 DEF EnterStale, AtHead
<1>2. ASSUME NEW t \in Turns, EnterAborted(t) PROVE FrameInv'
  BY <1>0, <1>2 DEF EnterAborted, AtHead
<1>3. ASSUME NEW t \in Turns, EnterRequest(t) PROVE FrameInv'
  BY <1>0, <1>3 DEF EnterRequest, AtHead
<1>4. ASSUME NEW t \in Turns, EnterContinuation(t) PROVE FrameInv'
  BY <1>0, <1>4 DEF EnterContinuation, AtHead
<1>5. ASSUME NEW t \in Turns, FailureReported(t) PROVE FrameInv'
  BY <1>0, <1>5 DEF FailureReported
<1>6. ASSUME NEW t \in Turns, HandlerReturns(t) PROVE FrameInv'
  BY <1>0, <1>6 DEF HandlerReturns
<1>7. ASSUME NEW t \in Turns, StartTask(t) PROVE FrameInv'
  BY <1>0, <1>7 DEF StartTask
<1>8. ASSUME NEW t \in Turns, ClaimTask(t) PROVE FrameInv'
  BY <1>0, <1>8 DEF ClaimTask
<1>9. ASSUME NEW t \in Turns, StartStream(t) PROVE FrameInv'
  BY <1>0, <1>9 DEF StartStream, NoCalls
<1>10. ASSUME NEW t \in Turns, ProviderOutdated(t) PROVE FrameInv'
  BY <1>0, <1>10 DEF ProviderOutdated, InProvider
<1>11. ASSUME NEW t \in Turns, ReplyWaits(t) PROVE FrameInv'
  BY <1>0, <1>11 DEF ReplyWaits, InProvider
<1>12. ASSUME NEW t \in Turns, SaveReply(t) PROVE FrameInv'
  BY <1>0, <1>12 DEF SaveReply, InProvider, NoCalls
<1>13. ASSUME NEW t \in Turns, ReplySaved(t) PROVE FrameInv'
  BY <1>0, <1>13 DEF ReplySaved
<1>14. ASSUME NEW t \in Turns, ErrorReported(t) PROVE FrameInv'
  BY <1>0, <1>14 DEF ErrorReported
<1>15. ASSUME NEW t \in Turns, DeliverCancel(t) PROVE FrameInv'
  BY <1>0, <1>15 DEF DeliverCancel
<1>16. ASSUME NEW t \in Turns, Unwound(t) PROVE FrameInv'
  BY <1>0, <1>16 DEF Unwound
<1>17. ASSUME NEW t \in Turns, AskTool(t) PROVE FrameInv'
  BY <1>0, <1>17 DEF AskTool, InProvider, Call
<1>18. ASSUME NEW t \in Turns, EmptyReplyEnds(t) PROVE FrameInv'
  BY <1>0, <1>18 DEF EmptyReplyEnds, InProvider, NoCalls
<1>19. ASSUME NEW t \in Turns, CancelRequest(t) PROVE FrameInv'
  BY <1>0, <1>19 DEF CancelRequest, CancelTasks, Active
<1>20. ASSUME NEW t \in Turns, RequestFails(t) PROVE FrameInv'
  BY <1>0, <1>20 DEF RequestFails, AtHead
<1>21. ASSUME NEW t \in Continuations, ContinuationFails(t) PROVE FrameInv'
  BY <1>0, <1>21, ChatAssumption DEF ContinuationFails, AtHead
<1>22. ASSUME NEW t \in Turns, StreamRefused(t) PROVE FrameInv'
  BY <1>0, <1>22 DEF StreamRefused
<1>23. ASSUME NEW t \in Turns, ReplyFails(t) PROVE FrameInv'
  BY <1>0, <1>23 DEF ReplyFails, InProvider
<1>24. ASSUME NEW t \in Turns, SaveFails(t) PROVE FrameInv'
  BY <1>0, <1>24 DEF SaveFails
<1>25. ASSUME NEW r \in Requests, AcceptRequest(r) PROVE FrameInv'
  BY <1>0, <1>25 DEF AcceptRequest, Enqueue
<1>26. CASE ClearBegins
  BY <1>0, <1>26 DEF ClearBegins, CancelTasks, Active
<1>27. CASE FireWhenStable \/ Drained
  BY <1>0, <1>27, BatchMoves DEF TurnsInv, FireWhenStable, Drained, Stays, Joins, Goes
<1>28. CASE \/ ClearWipes \/ ClearEnds \/ \E c \in Connections : Probe(c)
           \/ ToolWaits \/ Answering \/ TimerFires \/ UNCHANGED vars
  BY <1>0, <1>28
     DEF ClearWipes, ClearEnds, Probe, ToolWaits, Answering, AnswerLive,
        AnswerStored, AnswerApplied, AnswerSeeks, AnswerLost, TimerFires, vars
<1> QED
  BY <1>1, <1>2, <1>3, <1>4, <1>5, <1>6, <1>7, <1>8, <1>9, <1>10, <1>11, <1>12,
     <1>13, <1>14, <1>15, <1>16, <1>17, <1>18, <1>19, <1>20, <1>21, <1>22,
     <1>23, <1>24, <1>25, <1>26, <1>27, <1>28
  DEF Next, Handler, Enter, Callback, Failing, Clear, Answering

-----------------------------------------------------------------------------
(* What the probes see, and what the transcript holds.                     *)

\* A request without its frame stays accepted until it is the stream.
LEMMA SeenStep ==
  ASSUME TurnsInv, [Next]_vars
  PROVE  SeenInv'
<1>0. /\ PlainType /\ TaskInv /\ FrameInv /\ SeenInv
      /\ \A t, u \in Turns : Entered(t) /\ Entered(u) => t = u
  BY OneEntered DEF TurnsInv, TypeOK, PlainType
<1>a. \A t, u \in Turns : callback[t] \in Engaged /\ callback[u] \in Engaged => t = u
  BY <1>0 DEF TaskInv, Entered
<1>b. \A t \in Turns : t \in cancelled \/ callback[t] = "erring" => t \in marked
  BY <1>0 DEF FrameInv
<1> USE DEF PlainType, TaskInv, SeenInv, Engaged, Begun, Turns, Leave, Settle,
       EndStream, Finally, SendTerminals, turnVars, frameVars, probeVars,
       streamVars
<1>1. ASSUME NEW t \in Turns, EnterStale(t) PROVE SeenInv'
  BY <1>0, <1>a, <1>b, <1>1 DEF EnterStale, AtHead
<1>2. ASSUME NEW t \in Turns, EnterAborted(t) PROVE SeenInv'
  BY <1>0, <1>a, <1>b, <1>2 DEF EnterAborted, AtHead
<1>3. ASSUME NEW t \in Turns, EnterRequest(t) PROVE SeenInv'
  BY <1>0, <1>a, <1>b, <1>3 DEF EnterRequest, AtHead
<1>4. ASSUME NEW t \in Turns, EnterContinuation(t) PROVE SeenInv'
  BY <1>0, <1>a, <1>b, <1>4 DEF EnterContinuation, AtHead
<1>5. ASSUME NEW t \in Turns, FailureReported(t) PROVE SeenInv'
  BY <1>0, <1>a, <1>b, <1>5 DEF FailureReported
<1>6. ASSUME NEW t \in Turns, HandlerReturns(t) PROVE SeenInv'
  BY <1>0, <1>a, <1>b, <1>6 DEF HandlerReturns
<1>7. ASSUME NEW t \in Turns, StartTask(t) PROVE SeenInv'
  BY <1>0, <1>a, <1>b, <1>7 DEF StartTask
<1>8. ASSUME NEW t \in Turns, ClaimTask(t) PROVE SeenInv'
  BY <1>0, <1>a, <1>b, <1>8 DEF ClaimTask
<1>9. ASSUME NEW t \in Turns, StartStream(t) PROVE SeenInv'
  BY <1>0, <1>a, <1>b, <1>9 DEF StartStream, NoCalls
<1>10. ASSUME NEW t \in Turns, ProviderOutdated(t) PROVE SeenInv'
  BY <1>0, <1>a, <1>b, <1>10 DEF ProviderOutdated, InProvider
<1>11. ASSUME NEW t \in Turns, ReplyWaits(t) PROVE SeenInv'
  BY <1>0, <1>a, <1>b, <1>11 DEF ReplyWaits, InProvider
<1>12. ASSUME NEW t \in Turns, SaveReply(t) PROVE SeenInv'
  BY <1>0, <1>a, <1>b, <1>12 DEF SaveReply, InProvider, NoCalls
<1>13. ASSUME NEW t \in Turns, ReplySaved(t) PROVE SeenInv'
  BY <1>0, <1>a, <1>b, <1>13 DEF ReplySaved
<1>14. ASSUME NEW t \in Turns, ErrorReported(t) PROVE SeenInv'
  BY <1>0, <1>a, <1>b, <1>14 DEF ErrorReported
<1>15. ASSUME NEW t \in Turns, DeliverCancel(t) PROVE SeenInv'
  BY <1>0, <1>a, <1>b, <1>15 DEF DeliverCancel
<1>16. ASSUME NEW t \in Turns, Unwound(t) PROVE SeenInv'
  BY <1>0, <1>a, <1>b, <1>16 DEF Unwound
<1>17. ASSUME NEW t \in Turns, AskTool(t) PROVE SeenInv'
  BY <1>0, <1>a, <1>b, <1>17 DEF AskTool, InProvider, Call
<1>18. ASSUME NEW t \in Turns, EmptyReplyEnds(t) PROVE SeenInv'
  BY <1>0, <1>a, <1>b, <1>18 DEF EmptyReplyEnds, InProvider, NoCalls
<1>19. ASSUME NEW t \in Turns, CancelRequest(t) PROVE SeenInv'
  BY <1>0, <1>a, <1>b, <1>19 DEF CancelRequest, CancelTasks, Active
<1>20. ASSUME NEW t \in Turns, RequestFails(t) PROVE SeenInv'
  BY <1>0, <1>a, <1>b, <1>20 DEF RequestFails, AtHead
<1>21. ASSUME NEW t \in Turns, ContinuationFails(t) PROVE SeenInv'
  BY <1>0, <1>a, <1>b, <1>21 DEF ContinuationFails, AtHead
<1>22. ASSUME NEW t \in Turns, StreamRefused(t) PROVE SeenInv'
  BY <1>0, <1>a, <1>b, <1>22 DEF StreamRefused
<1>23. ASSUME NEW t \in Turns, ReplyFails(t) PROVE SeenInv'
  BY <1>0, <1>a, <1>b, <1>23 DEF ReplyFails, InProvider
<1>24. ASSUME NEW t \in Turns, SaveFails(t) PROVE SeenInv'
  BY <1>0, <1>a, <1>b, <1>24 DEF SaveFails
<1>25. ASSUME NEW r \in Requests, AcceptRequest(r) PROVE SeenInv'
  BY <1>0, <1>a, <1>b, <1>25 DEF AcceptRequest, Enqueue
<1>26. ASSUME NEW c \in Connections, Probe(c) PROVE SeenInv'
  BY <1>0, <1>a, <1>b, <1>26 DEF Probe
<1>27. CASE ClearBegins
  BY <1>0, <1>a, <1>b, <1>27 DEF ClearBegins, CancelTasks, Active
<1>28. CASE ClearWipes
  BY <1>0, <1>a, <1>b, <1>28 DEF ClearWipes, NoCalls
<1>29. CASE ClearEnds
  BY <1>0, <1>a, <1>b, <1>29 DEF ClearEnds
<1>30. CASE FireWhenStable \/ Drained
  <2>1. \A r \in Requests : r \in Turns /\ r # cont.pending
    BY ChatAssumption DEF TurnsInv, TypeOK
  <2>2. ASSUME NEW ct, ct.pending = cont.pending, FireBatch(ct)
        PROVE  \A r \in Requests : r \in accepted => r \in accepted'
    BY <2>1, <2>2 DEF FireBatch
  <2>3. /\ \A r \in Requests : r \in accepted => r \in accepted'
        /\ UNCHANGED <<callback, marked, stream, clearing, crossed>>
    <3>1. CASE FireWhenStable
      BY <2>2, <3>1 DEF FireWhenStable, TurnsInv, TypeOK
    <3>2. CASE Drained
      BY <2>2, <3>2 DEF Drained, TurnsInv, TypeOK
    <3> QED BY <1>30, <3>1, <3>2
  <2>4. \A r \in Requests : handler'[r] = handler[r]
    BY <1>0, <1>30, BatchMoves, ChatAssumption DEF TurnsInv, Stays, Joins, Goes
  <2> QED BY <1>0, <2>3, <2>4
<1>31. CASE ToolWaits \/ Answering \/ TimerFires \/ UNCHANGED vars
  BY <1>0, <1>a, <1>b, <1>31
     DEF ToolWaits, Answering, AnswerLive, AnswerStored, AnswerApplied,
        AnswerSeeks, AnswerLost, TimerFires, vars
<1> QED
  BY <1>1, <1>2, <1>3, <1>4, <1>5, <1>6, <1>7, <1>8, <1>9, <1>10, <1>11, <1>12,
     <1>13, <1>14, <1>15, <1>16, <1>17, <1>18, <1>19, <1>20, <1>21, <1>22,
     <1>23, <1>24, <1>25, <1>26, <1>27, <1>28, <1>29, <1>30, <1>31
  DEF Next, Handler, Enter, Callback, Failing, Clear, Answering

\* Replies of an older generation are cancelled before they are written.
LEMMA WriteStep ==
  ASSUME TurnsInv, [Next]_vars
  PROVE  WriteInv'
<1>0. PlainType /\ TaskInv /\ WriteInv
  BY DEF TurnsInv, TypeOK, PlainType
<1> USE DEF PlainType, TaskInv, WriteInv, AnswersStayCleared, Admitted,
       Engaged, Turns, Finally, queueVars, turnVars, talkVars
<1>1. ASSUME NEW t \in Turns, EnterStale(t) PROVE WriteInv'
  BY <1>0, <1>1 DEF EnterStale, AtHead
<1>2. ASSUME NEW t \in Turns, EnterAborted(t) PROVE WriteInv'
  BY <1>0, <1>2 DEF EnterAborted, AtHead
<1>3. ASSUME NEW t \in Turns, EnterRequest(t) PROVE WriteInv'
  BY <1>0, <1>3 DEF EnterRequest, AtHead
<1>4. ASSUME NEW t \in Turns, EnterContinuation(t) PROVE WriteInv'
  BY <1>0, <1>4 DEF EnterContinuation, AtHead
<1>5. ASSUME NEW t \in Turns, FailureReported(t) PROVE WriteInv'
  BY <1>0, <1>5 DEF FailureReported
<1>6. ASSUME NEW t \in Turns, HandlerReturns(t) PROVE WriteInv'
  BY <1>0, <1>6 DEF HandlerReturns
<1>7. ASSUME NEW t \in Turns, StartTask(t) PROVE WriteInv'
  BY <1>0, <1>7 DEF StartTask
<1>8. ASSUME NEW t \in Turns, ClaimTask(t) PROVE WriteInv'
  BY <1>0, <1>8 DEF ClaimTask
<1>9. ASSUME NEW t \in Turns, StartStream(t) PROVE WriteInv'
  BY <1>0, <1>9 DEF StartStream, NoCalls
<1>10. ASSUME NEW t \in Turns, ProviderOutdated(t) PROVE WriteInv'
  BY <1>0, <1>10 DEF ProviderOutdated, InProvider, IsCurrent
<1>11. ASSUME NEW t \in Turns, ReplyWaits(t) PROVE WriteInv'
  BY <1>0, <1>11 DEF ReplyWaits, InProvider, IsCurrent
<1>12. ASSUME NEW t \in Turns, SaveReply(t) PROVE WriteInv'
  BY <1>0, <1>12 DEF SaveReply, InProvider, IsCurrent, NoCalls
<1>13. ASSUME NEW t \in Turns, ReplySaved(t) PROVE WriteInv'
  BY <1>0, <1>13 DEF ReplySaved
<1>14. ASSUME NEW t \in Turns, ErrorReported(t) PROVE WriteInv'
  BY <1>0, <1>14 DEF ErrorReported
<1>15. ASSUME NEW t \in Turns, DeliverCancel(t) PROVE WriteInv'
  BY <1>0, <1>15 DEF DeliverCancel
<1>16. ASSUME NEW t \in Turns, Unwound(t) PROVE WriteInv'
  BY <1>0, <1>16 DEF Unwound
<1>17. ASSUME NEW t \in Turns, AskTool(t) PROVE WriteInv'
  BY <1>0, <1>17 DEF AskTool, InProvider, IsCurrent, Call
<1>18. ASSUME NEW t \in Turns, EmptyReplyEnds(t) PROVE WriteInv'
  BY <1>0, <1>18 DEF EmptyReplyEnds, InProvider, IsCurrent, NoCalls
<1>19. ASSUME NEW t \in Turns, CancelRequest(t) PROVE WriteInv'
  BY <1>0, <1>19 DEF CancelRequest, CancelTasks
<1>20. ASSUME NEW t \in Turns, RequestFails(t) PROVE WriteInv'
  BY <1>0, <1>20 DEF RequestFails, AtHead
<1>21. ASSUME NEW t \in Turns, ContinuationFails(t) PROVE WriteInv'
  BY <1>0, <1>21 DEF ContinuationFails, AtHead
<1>22. ASSUME NEW t \in Turns, StreamRefused(t) PROVE WriteInv'
  BY <1>0, <1>22 DEF StreamRefused
<1>23. ASSUME NEW t \in Turns, ReplyFails(t) PROVE WriteInv'
  BY <1>0, <1>23 DEF ReplyFails, InProvider, IsCurrent
<1>24. ASSUME NEW t \in Turns, SaveFails(t) PROVE WriteInv'
  BY <1>0, <1>24 DEF SaveFails, IsCurrent
<1>25. ASSUME NEW r \in Requests, AcceptRequest(r) PROVE WriteInv'
  BY <1>0, <1>25 DEF AcceptRequest, Enqueue
<1>26. ASSUME NEW c \in Connections, Probe(c) PROVE WriteInv'
  BY <1>0, <1>26 DEF Probe
<1>27. CASE ClearBegins
  BY <1>0, <1>27 DEF ClearBegins, CancelTasks
<1>28. CASE ClearWipes
  BY <1>0, <1>28 DEF ClearWipes, NoCalls
<1>29. CASE ClearEnds
  BY <1>0, <1>29 DEF ClearEnds
<1>30. CASE FireWhenStable \/ Drained
  <2>1. ASSUME NEW ct, FireBatch(ct)
        PROVE  /\ generation' = generation
               /\ \A t \in Turns : captured'[t] \in {captured[t], generation}
    BY <1>0, <2>1 DEF FireBatch, Enqueue
  <2>2. /\ generation' = generation
        /\ \A t \in Turns : captured'[t] \in {captured[t], generation}
    BY <2>1, <1>30 DEF FireWhenStable, Drained
  <2> QED BY <1>0, <2>2, <1>30 DEF FireWhenStable, Drained
<1>31. CASE ToolWaits \/ Answering \/ TimerFires \/ UNCHANGED vars
  BY <1>0, <1>31
     DEF ToolWaits, Answering, AnswerLive, AnswerStored, AnswerApplied,
        AnswerSeeks, AnswerLost, TimerFires, vars
<1> QED
  BY <1>1, <1>2, <1>3, <1>4, <1>5, <1>6, <1>7, <1>8, <1>9, <1>10, <1>11, <1>12,
     <1>13, <1>14, <1>15, <1>16, <1>17, <1>18, <1>19, <1>20, <1>21, <1>22,
     <1>23, <1>24, <1>25, <1>26, <1>27, <1>28, <1>29, <1>30, <1>31
  DEF Next, Handler, Enter, Callback, Failing, Clear, Answering

-----------------------------------------------------------------------------
(* The theorems.                                                           *)

\* Initially nothing was sent and nothing answered.
LEMMA TurnsInit == Init => TurnsInv
<1> SUFFICES ASSUME Init PROVE TurnsInv
  OBVIOUS
<1>1. TypeOK
  BY DEF Init, TypeOK, NoCont, NoCalls, Turns
<1>2. Listed(queue) = {} /\ Distinct(queue)
  BY DEF Init, Listed, Distinct
<1>3. QueueInv
  BY <1>2 DEF Init, QueueInv, Waits, Entered
<1>4. ContInv
  BY DEF Init, ContInv, ContFits, NoCont
<1>5. TaskInv /\ FrameInv
  BY DEF Init, TaskInv, FrameInv, Engaged, Begun
<1>6. SeenInv /\ WriteInv
  BY DEF Init, SeenInv, WriteInv, AnswersStayCleared, Begun, Turns
<1> QED BY <1>1, <1>3, <1>4, <1>5, <1>6 DEF TurnsInv

\* Every step keeps the invariant.
LEMMA TurnsNext == TurnsInv /\ [Next]_vars => TurnsInv'
BY TypeStep, QueueStep, TaskStep, FrameStep, SeenStep, WriteStep DEF TurnsInv

\* What AnsweredExactlyOnce and ProbeSeesWork say is read off the marks.
LEMMA TurnsTracked == TurnsInv => RequestsAreTracked /\ AnswersStayCleared
<1> SUFFICES ASSUME TurnsInv PROVE RequestsAreTracked /\ AnswersStayCleared
  OBVIOUS
<1>1. AnsweredExactlyOnce
  BY DEF TurnsInv, FrameInv, AnsweredExactlyOnce, Begun, Turns
<1>2. ProbeSeesWork
  BY ChatAssumption DEF TurnsInv, FrameInv, SeenInv, ProbeSeesWork, Begun, Turns
<1> QED BY <1>1, <1>2 DEF TurnsInv, WriteInv, RequestsAreTracked

(* However many requests, continuations, cancels, clears and failures meet: *)
(* every variable keeps its type, a request whose handler is gone was given *)
(* one terminal frame and never a second, and a probe that comes while one  *)
(* waits for its frame finds a stream or accepted work, unless the request  *)
(* came while a chat was being cleared (agent.py:1445, agent.py:1799).      *)
THEOREM RequestsTracked == Spec => []RequestsAreTracked
BY TurnsInit, TurnsNext, TurnsTracked, PTL DEF Spec

(* No reply of a turn that was queued before a clear is in the transcript   *)
(* once the clear has deleted it: such a turn is cancelled before it waits  *)
(* for the interaction lock, or leaves the wait by the cancellation that    *)
(* the clear waits for.                                                     *)
THEOREM AnswersCleared == Spec => []AnswersStayCleared
BY TurnsInit, TurnsNext, TurnsTracked, PTL DEF Spec
=============================================================================

----------------------- MODULE LifecycleRuntime_proofs -----------------------
(***************************************************************************)
(* Proofs about LifecycleRuntime: hooks of a disposal run alone, the alarm *)
(* follows the job table, and events are heard in order.  For any number   *)
(* of tasks, deadlines, calls, events and faults.  And about Facets (Sub): *)
(* children are recorded, for any finite set of them.                      *)
(***************************************************************************)
EXTENDS MCRuntime, FiniteSetTheorems, SequenceTheorems,
        WellFoundedInduction, TLAPS

-----------------------------------------------------------------------------
(* The inductive invariant.                                                *)

\* Where a task is inside an operation, and where inside a disposal.
Working   == {"hooks", "join", "drain", "await", "rearm", "rearming", "handler"}
Disposing == {"disposeWait", "disposeHooks", "joinDispose"}
Passing   == {"drain", "await", "rearm", "rearming"}

\* The task whose call is the startup attempt under way, and whether the attempt
\* has not yet got to the rearm it owes.
StartsUp(t) ==
  \/ at[t].pc = "hooks"
  \/ at[t].pc \in Passing /\ at[t].back \in {"startup", "failure"}
Early(t) ==
  \/ at[t].pc = "hooks"
  \/ at[t].pc \in {"drain", "await"} /\ at[t].back \in {"startup", "failure"}

\* One task starts the activation up, for an attempt that is not settled, and it
\* is in the hooks as long as the activation is starting.
StartInv ==
  /\ \A t \in Tasks : StartsUp(t) <=> owner = t
  /\ owner # NoTask => attempt # NoAttempt
  /\ starting <=> \E t \in Tasks : at[t].pc = "hooks"
  /\ ready => attempt # NoAttempt
  /\ \A t \in Tasks : at[t].pc \in Passing /\ at[t].back = "failure" => ~ready

\* A task in an operation or in a disposal is one by its kind too; what is held or
\* drained is by a task that is there.
PlaceInv ==
  \A t \in Tasks :
    /\ at[t].pc \in Working => at[t].kind # "dispose"
    /\ at[t].pc \in Disposing => at[t].kind = "dispose"
    /\ at[t].pc = "rearming" <=> lock = t
    /\ at[t].pc = "drain" <=> drainer = t

\* A disposal has the activation to itself once its hooks run.
DisposalInv ==
  /\ \A t \in Tasks : at[t].pc \in Disposing => phase = "disposing"
  /\ \A t, u \in Tasks :
       /\ at[t].pc \in {"disposeWait", "disposeHooks"}
       /\ at[u].pc \in {"disposeWait", "disposeHooks"}
       => t = u
  /\ disabled <=> phase = "disposed" \/ \E t \in Tasks : at[t].pc = "disposeHooks"
  /\ disabled => OperationsIdle

\* Somebody is on the way to write the alarm.
Owed ==
  \/ \E t \in Tasks : at[t].pc \in {"rearm", "disposeHooks"} \/ (rearmAsked /\ Early(t))

\* The alarm follows the job table, unless somebody is about to write it, or the
\* last write was lost and nobody has begun another.
AlarmInv ==
  /\ IsFiniteSet(jobs)
  /\ ~lost \/ lock # NoTask => alarm = Deadline(jobs) \/ Owed

\* Events wait in the order they were emitted, the queued ones before the buffered
\* ones; a task drains as long as one is queued, the first of which is being heard.
Increasing(q) == \A i, j \in DOMAIN q : i < j => q[i] < q[j]
InOrder ==
  /\ Increasing(queue) /\ Increasing(pending)
  /\ \A i \in DOMAIN queue, j \in DOMAIN pending : queue[i] < pending[j]
  /\ \A j \in DOMAIN pending : heard < pending[j]
  /\ queue # <<>> => heard = queue[1]
  /\ drainer # NoTask <=> queue # <<>>

\* Nothing is buffered but before and in a startup.
BufferOpen == pending # <<>> => Buffering
EventInv == InOrder /\ BufferOpen

RuntimeInv ==
  TypeOK /\ StartInv /\ PlaceInv /\ DisposalInv /\ AlarmInv /\ EventInv

-----------------------------------------------------------------------------
(* Types.                                                                  *)

\* The types of the fields that are no sequences.
PlainType ==
  /\ ready \in BOOLEAN /\ starting \in BOOLEAN /\ owner \in Tasks \cup {NoTask}
  /\ phase \in {"active", "disposing", "disposed"} /\ disabled \in BOOLEAN
  /\ drainer \in Tasks \cup {NoTask} /\ lock \in Tasks \cup {NoTask}
  /\ jobs \subseteq Times /\ alarm \in Times \cup {0}
  /\ rearmAsked \in BOOLEAN /\ lost \in BOOLEAN
  /\ calls \in 0..MaxCalls /\ faults \in 0..MaxFaults

AtType == at \in [Tasks -> [pc : Places, kind : Kinds, back : Returns, waits : Nat]]

\* A task's step takes it to a place, in a call of a kind, to return somewhere.
Lands(t, pc, kind, back) ==
  /\ AtType'
  /\ at'[t].pc = pc /\ at'[t].kind = kind /\ at'[t].back = back
  /\ \A u \in Tasks \ {t} : at'[u] = at[u]

\* What a task's record becomes is where it lands.
LEMMA LandsOn ==
  ASSUME AtType, NEW t \in Tasks,
         NEW r \in [pc : Places, kind : Kinds, back : Returns, waits : Nat],
         at' = [at EXCEPT ![t] = r]
  PROVE  Lands(t, r.pc, r.kind, r.back)
BY DEF AtType, Lands

\* Where the helpers of the actions take a task.
LEMMA Landing ==
  ASSUME AtType, attempt \in Nat, NEW t \in Tasks
  PROVE  /\ Ends(t) => Lands(t, "idle", "start", "call")
         /\ \A place \in Places :
              Goes(t, place) => Lands(t, place, at[t].kind, at[t].back)
         /\ \A place \in Places, to \in Returns :
              GoesFor(t, place, to) => Lands(t, place, at[t].kind, to)
         /\ Served(t) /\ at[t].kind = "start" => Lands(t, "idle", "start", "call")
         /\ Served(t) /\ at[t].kind # "start"
              => Lands(t, "handler", at[t].kind, "call")
         /\ \A call \in Kinds :
              /\ Attempts(t, call) =>
                   /\ Lands(t, "hooks", call, "call")
                   /\ attempt' = Len(fate) + 1 /\ fate' = Append(fate, "pending")
                   /\ owner' = t /\ starting' = TRUE /\ ready' = ready
              /\ Joins(t, call) => Lands(t, "join", call, "call") /\ UNCHANGED life
<1> USE DEF AtType, Lands, Places, Kinds, Returns, Idle
<1>1. Ends(t) => Lands(t, "idle", "start", "call")
  BY DEF Ends
<1>2. ASSUME NEW place \in Places, NEW to \in Returns
      PROVE  /\ Goes(t, place) => Lands(t, place, at[t].kind, at[t].back)
             /\ GoesFor(t, place, to) => Lands(t, place, at[t].kind, to)
  BY DEF Goes, GoesFor
<1>3. /\ Served(t) /\ at[t].kind = "start" => Lands(t, "idle", "start", "call")
      /\ Served(t) /\ at[t].kind # "start"
           => Lands(t, "handler", at[t].kind, "call")
  <2> DEFINE r == IF at[t].kind = "start" THEN Idle
                  ELSE [Idle EXCEPT !.pc = "handler", !.kind = at[t].kind]
  <2>1. /\ r \in [pc : Places, kind : Kinds, back : Returns, waits : Nat]
        /\ r.back = "call"
        /\ at[t].kind = "start" => r.pc = "idle" /\ r.kind = "start"
        /\ at[t].kind # "start" => r.pc = "handler" /\ r.kind = at[t].kind
    OBVIOUS
  <2>2. Served(t) => at' = [at EXCEPT ![t] = r]
    BY DEF Served
  <2> HIDE DEF r
  <2> QED BY <2>1, <2>2, LandsOn DEF AtType
<1>4. ASSUME NEW call \in Kinds
      PROVE  /\ Attempts(t, call) =>
                  /\ Lands(t, "hooks", call, "call")
                  /\ attempt' = Len(fate) + 1 /\ fate' = Append(fate, "pending")
                  /\ owner' = t /\ starting' = TRUE /\ ready' = ready
             /\ Joins(t, call) => Lands(t, "join", call, "call") /\ UNCHANGED life
  <2> DEFINE h == [Idle EXCEPT !.pc = "hooks", !.kind = call]
             j == [Idle EXCEPT !.pc = "join", !.kind = call, !.waits = attempt]
  <2>1. /\ h \in [pc : Places, kind : Kinds, back : Returns, waits : Nat]
        /\ h.pc = "hooks" /\ h.kind = call /\ h.back = "call"
        /\ j \in [pc : Places, kind : Kinds, back : Returns, waits : Nat]
        /\ j.pc = "join" /\ j.kind = call /\ j.back = "call"
    OBVIOUS
  <2>2. /\ Attempts(t, call) => at' = [at EXCEPT ![t] = h]
        /\ Joins(t, call) => at' = [at EXCEPT ![t] = j]
    BY DEF Attempts, Joins
  <2>3. /\ Attempts(t, call) => Lands(t, "hooks", call, "call")
        /\ Joins(t, call) => Lands(t, "join", call, "call")
    <3> HIDE DEF h, j
    <3> QED BY <2>1, <2>2, LandsOn DEF AtType
  <2> HIDE DEF Lands
  <2> QED BY <2>3 DEF Attempts, Joins
<1> HIDE DEF Lands
<1> QED BY <1>1, <1>2, <1>3, <1>4

\* The task drains the queue, or waits for the one that does.
DrainsTo(t, q, call, to) ==
  /\ queue' = q
  /\ \/ /\ drainer = NoTask /\ Lands(t, "drain", call, to)
        /\ drainer' = t /\ heard' = q[1]
     \/ /\ drainer # NoTask /\ Lands(t, "await", call, to)
        /\ UNCHANGED <<drainer, heard>>

\* What Drains does, with where the task lands.
LEMMA DrainLands ==
  ASSUME AtType, NEW t \in Tasks, NEW q, NEW event \in Nat, NEW call \in Kinds,
         NEW to \in Returns, Drains(t, q, event, call, to)
  PROVE  DrainsTo(t, q, call, to)
<1> DEFINE rec == [pc : Places, kind : Kinds, back : Returns, waits : Nat]
           d == [at[t] EXCEPT !.pc = "drain", !.kind = call, !.back = to]
           w == [pc |-> "await", kind |-> call, back |-> to, waits |-> event]
<1>1. /\ d \in rec /\ d.pc = "drain" /\ d.kind = call /\ d.back = to
      /\ w \in rec /\ w.pc = "await" /\ w.kind = call /\ w.back = to
  BY DEF AtType, Places, Kinds, Returns
<1>2. /\ drainer = NoTask => at' = [at EXCEPT ![t] = d]
      /\ drainer # NoTask => at' = [at EXCEPT ![t] = w]
  BY DEF Drains
<1> HIDE DEF d, w
<1>3. drainer = NoTask => Lands(t, "drain", call, to)
  BY <1>1, <1>2, LandsOn
<1>4. drainer # NoTask => Lands(t, "await", call, to)
  BY <1>1, <1>2, LandsOn
<1> QED BY <1>3, <1>4 DEF Drains, DrainsTo

\* A call of its own is handled at once, joins a startup or makes one.
LEMMA CallMoves ==
  ASSUME AtType, attempt \in Nat, NEW t \in Tasks, Call(t)
  PROVE  /\ at[t].pc = "idle" /\ phase = "active" /\ UNCHANGED phase
         /\ \E call \in Kinds \ {"dispose"} :
              \/ ready /\ UNCHANGED life /\ Lands(t, "handler", call, "call")
              \/ attempt # NoAttempt /\ Joins(t, call)
              \/ attempt = NoAttempt /\ Attempts(t, call)
<1>1. PICK call \in {"start", "request", "push"} :
        \/ /\ ready /\ UNCHANGED life
           /\ at' = [at EXCEPT ![t] = [Idle EXCEPT !.pc = "handler", !.kind = call]]
        \/ attempt # NoAttempt /\ Joins(t, call)
        \/ attempt = NoAttempt /\ Attempts(t, call)
  BY DEF Call
<1> DEFINE r == [Idle EXCEPT !.pc = "handler", !.kind = call]
<1>2. /\ r \in [pc : Places, kind : Kinds, back : Returns, waits : Nat]
      /\ r.pc = "handler" /\ r.kind = call /\ r.back = "call"
      /\ call \in Kinds \ {"dispose"}
  BY DEF Idle, Places, Kinds, Returns
<1>3. ASSUME at' = [at EXCEPT ![t] = r] PROVE Lands(t, "handler", call, "call")
  <2> HIDE DEF r
  <2>1. Lands(t, r.pc, r.kind, r.back)
    BY <1>2, <1>3, LandsOn
  <2> QED BY <1>2, <2>1
<1>4. at[t].pc = "idle" /\ phase = "active" /\ phase' = phase
  BY DEF Call
<1> QED BY <1>1, <1>2, <1>3, <1>4

\* An event is buffered, or drained by the task or for it.
LEMMA EmitMoves ==
  ASSUME AtType, Len(done) + 1 \in Nat, NEW t \in Tasks, Emit(t)
  PROVE  /\ at[t].pc \in {"idle", "hooks", "handler"}
         /\ phase = "active" /\ UNCHANGED <<phase, life, alarms>>
         /\ \/ Buffering /\ UNCHANGED <<queue, drainer, heard, at>>
            \/ /\ ~Buffering /\ UNCHANGED pending
               /\ \/ /\ at[t].pc = "idle"
                     /\ DrainsTo(t, Append(queue, Len(done) + 1), "emit", "call")
                  \/ /\ at[t].pc # "idle"
                     /\ DrainsTo(t, Append(queue, Len(done) + 1), at[t].kind, "handler")
<1> DEFINE e == Len(done) + 1
<1>1. /\ at[t].pc \in {"idle", "hooks", "handler"}
      /\ phase = "active" /\ UNCHANGED <<phase, life, alarms>>
      /\ \/ Buffering /\ UNCHANGED <<queue, drainer, heard, at>>
         \/ /\ ~Buffering /\ UNCHANGED pending
            /\ IF at[t].pc = "idle" THEN Drains(t, Append(queue, e), e, "emit", "call")
               ELSE Drains(t, Append(queue, e), e, at[t].kind, "handler")
  BY DEF Emit
<1>2. "emit" \in Kinds /\ at[t].kind \in Kinds /\ {"call", "handler"} \subseteq Returns
  BY DEF AtType, Kinds, Returns
<1> QED BY <1>1, <1>2, DrainLands

\* The hooks return: the buffered events are drained before the activation is ready.
LEMMA HooksMove ==
  ASSUME AtType, NEW t \in Tasks, HooksReturn(t),
         pending # <<>> => pending[Len(pending)] \in Nat
  PROVE  /\ at[t].pc = "hooks" /\ UNCHANGED <<phase, alarms>>
         /\ \/ pending = <<>> /\ Readies(t) /\ UNCHANGED events
            \/ /\ pending # <<>> /\ starting' = FALSE /\ pending' = <<>>
               /\ DrainsTo(t, queue \o pending, at[t].kind, "startup")
               /\ UNCHANGED <<ready, owner, attempt, fate>>
<1>1. at[t].kind \in Kinds /\ "startup" \in Returns
  BY DEF AtType, Kinds, Returns
<1>2. CASE pending = <<>>
  BY <1>2 DEF HooksReturn
<1>3. CASE pending # <<>>
  <2>1. Drains(t, queue \o pending, pending[Len(pending)], at[t].kind, "startup")
    BY <1>3 DEF HooksReturn
  <2> QED BY <1>1, <1>3, <2>1, DrainLands DEF HooksReturn
<1> QED BY <1>2, <1>3

\* A disposal waits or joins; it begins, or is given up for all; it ends for all.
LEMMA DisposalLands ==
  ASSUME AtType, NEW t \in Tasks
  PROVE  /\ Dispose(t) =>
              Lands(t, IF phase = "active" THEN "disposeWait" ELSE "joinDispose",
                    "dispose", "call")
         /\ DisposeBegins(t) \/ Disposes(t) =>
              \/ DisposeBegins(t) /\ Lands(t, "disposeHooks", at[t].kind, at[t].back)
                 /\ disabled' = TRUE /\ UNCHANGED phase
              \/ /\ AtType' /\ at'[t] = Idle
                 /\ \A u \in Tasks \ {t} :
                      at'[u] = IF at[u].pc = "joinDispose" THEN Idle ELSE at[u]
                 /\ \/ DisposeBegins(t) /\ phase' = "active" /\ UNCHANGED disabled
                    \/ Disposes(t)
<1> DEFINE rec == [pc : Places, kind : Kinds, back : Returns, waits : Nat]
<1>0. Idle \in rec
  BY DEF Idle, Places, Kinds, Returns
<1>1. ASSUME Dispose(t)
      PROVE  Lands(t, IF phase = "active" THEN "disposeWait" ELSE "joinDispose",
                   "dispose", "call")
  <2> DEFINE r == [Idle EXCEPT !.kind = "dispose",
                     !.pc = IF phase = "active" THEN "disposeWait" ELSE "joinDispose"]
  <2>1. /\ r \in rec /\ r.kind = "dispose" /\ r.back = "call"
        /\ r.pc = IF phase = "active" THEN "disposeWait" ELSE "joinDispose"
    BY DEF Idle, Places, Kinds, Returns
  <2>2. at' = [at EXCEPT ![t] = r]
    BY <1>1 DEF Dispose
  <2> HIDE DEF r
  <2> QED BY <2>1, <2>2, LandsOn
<1> DEFINE cleared == [u \in Tasks |-> IF u = t \/ at[u].pc = "joinDispose" THEN Idle
                                       ELSE at[u]]
<1>2. ASSUME at' = cleared
      PROVE  /\ AtType' /\ at'[t] = Idle
             /\ \A u \in Tasks \ {t} :
                  at'[u] = IF at[u].pc = "joinDispose" THEN Idle ELSE at[u]
  BY <1>0, <1>2 DEF AtType
<1>3. ASSUME Goes(t, "disposeHooks")
      PROVE  Lands(t, "disposeHooks", at[t].kind, at[t].back)
  BY <1>3 DEF Goes, Lands, AtType, Places
<1>4. /\ DisposeBegins(t) =>
           \/ at' = cleared /\ phase' = "active" /\ UNCHANGED disabled
           \/ Goes(t, "disposeHooks") /\ disabled' = TRUE /\ UNCHANGED phase
      /\ Disposes(t) => at' = cleared
  BY DEF DisposeBegins, Disposes
<1> HIDE DEF cleared
<1> QED BY <1>1, <1>2, <1>3, <1>4

-----------------------------------------------------------------------------
(* Every field keeps its type.                                             *)

\* Where the tasks are.
LEMMA AtStep ==
  ASSUME RuntimeInv, [Next]_vars
  PROVE  AtType'
<1>0. /\ AtType /\ attempt \in Nat /\ Len(done) + 1 \in Nat
      /\ pending # <<>> => pending[Len(pending)] \in Nat
      /\ \A t \in Tasks : at[t].kind \in Kinds
      /\ {"rearm", "rearming", "disposeHooks"} \subseteq Places
      /\ {"startup", "failure", "handler", "call"} \subseteq Returns
      /\ at' = at => AtType'
  BY DEF RuntimeInv, TypeOK, AtType, NoAttempt, Kinds, Places, Returns
<1> USE DEF life, events, alarms, Lands, DrainsTo
<1>1. ASSUME NEW t \in Tasks, Call(t) PROVE AtType'
  BY <1>0, Landing, <1>1, CallMoves
<1>2. ASSUME NEW t \in Tasks, Emit(t) PROVE AtType'
  BY <1>0, Landing, <1>2, EmitMoves
<1>3. ASSUME NEW t \in Tasks, Dispose(t) PROVE AtType'
  BY <1>0, Landing, <1>3, DisposalLands
<1>4. ASSUME NEW t \in Tasks, Joined(t) PROVE AtType'
  BY <1>0, Landing, <1>4 DEF Joined
<1>5. ASSUME NEW t \in Tasks, HooksReturn(t) PROVE AtType'
  BY <1>0, Landing, <1>5, HooksMove DEF Readies, Settles
<1>6. ASSUME NEW t \in Tasks, HooksRaise(t) PROVE AtType'
  BY <1>0, Landing, <1>6 DEF HooksRaise, Fault, FailsStart, Settles
<1>7. ASSUME NEW t \in Tasks, HookPushes(t) PROVE AtType'
  BY <1>0, Landing, <1>7 DEF HookPushes
<1>8. ASSUME NEW t \in Tasks, ListenerEmits(t) PROVE AtType'
  BY <1>0, Landing, <1>8 DEF ListenerEmits
<1>9. ASSUME NEW t \in Tasks, Delivered(t) PROVE AtType'
  BY <1>0, Landing, <1>9 DEF Delivered, Continues, Readies, Settles
<1>10. ASSUME NEW t \in Tasks, DrainCancelled(t) PROVE AtType'
  BY <1>0, Landing, <1>10 DEF DrainCancelled, Fault, Raises, FailsStart,
     Settles
<1>11. ASSUME NEW t \in Tasks, Answered(t) PROVE AtType'
  BY <1>0, Landing, <1>11 DEF Answered, Continues, Raises, Readies, FailsStart,
     Settles
<1>12. ASSUME NEW t \in Tasks, WaitCancelled(t) PROVE AtType'
  BY <1>0, Landing, <1>12 DEF WaitCancelled, Fault, Raises, FailsStart, Settles
<1>13. ASSUME NEW t \in Tasks, Push(t) PROVE AtType'
  BY <1>0, Landing, <1>13 DEF Push, AsksRearm
<1>14. ASSUME NEW t \in Tasks, StartsAgain(t) PROVE AtType'
  BY <1>0, Landing, <1>14 DEF StartsAgain
<1>15. ASSUME NEW t \in Tasks, Rearm(t) PROVE AtType'
  BY <1>0, Landing, <1>15 DEF Rearm
<1>16. ASSUME NEW t \in Tasks, Rearmed(t) PROVE AtType'
  BY <1>0, Landing, <1>16 DEF Rearmed, Settles, Continues, Readies
<1>17. ASSUME NEW t \in Tasks, RearmRaises(t) PROVE AtType'
  BY <1>0, Landing, <1>17 DEF RearmRaises, Fault, FailsStart, Settles
<1>18. ASSUME NEW t \in Tasks, Handled(t) PROVE AtType'
  BY <1>0, Landing, <1>18 DEF Handled
<1>19. ASSUME NEW t \in Tasks, DisposeBegins(t) PROVE AtType'
  BY <1>0, Landing, <1>19, DisposalLands
<1>20. ASSUME NEW t \in Tasks, DisposeCancelsJob(t) PROVE AtType'
  BY <1>0, Landing, <1>20 DEF DisposeCancelsJob
<1>21. ASSUME NEW t \in Tasks, Disposes(t) PROVE AtType'
  BY <1>0, Landing, <1>21, DisposalLands
<1>22. CASE UNCHANGED vars
  BY <1>0, Landing, <1>22 DEF vars
<1> QED
  BY <1>1, <1>2, <1>3, <1>4, <1>5, <1>6, <1>7, <1>8, <1>9, <1>10, <1>11, <1>12,
     <1>13, <1>14, <1>15, <1>16, <1>17, <1>18, <1>19, <1>20, <1>21, <1>22 DEF Next

\* A finite non-empty set of numbers has a least element (the sets of the elements
\* up to each element, ordered by strict inclusion).
LEMMA FiniteMinimum ==
  ASSUME NEW S \in SUBSET Nat, IsFiniteSet(S), S # {}
  PROVE  \E m \in S : \A x \in S : m <= x
<1> DEFINE UpTo(x) == {y \in S : y <= x}
           T == {UpTo(x) : x \in S}
<1>1. IsWellFoundedOn(StrictSubsetOrdering(S), SUBSET S)
  BY FS_StrictSubsetOrderingWellFounded, FS_FiniteSubsetsOfFinite
<1>2. T \subseteq SUBSET S /\ T # {}
  OBVIOUS
<1>3. PICK a \in T : \A b \in T : <<b, a>> \notin StrictSubsetOrdering(S)
  <2> HIDE DEF T
  <2> QED BY <1>1, <1>2, WFMin
<1>4. PICK m \in S : a = UpTo(m)
  BY <1>3
<1>5. \A x \in S : m <= x
  <2> SUFFICES ASSUME NEW x \in S, ~(m <= x) PROVE FALSE
    OBVIOUS
  <2>1. x \in Nat /\ m \in Nat /\ x < m
    OBVIOUS
  <2>2. \A y \in UpTo(x) : y \in UpTo(m)
    BY <2>1
  <2>3. m \notin UpTo(x) /\ m \in UpTo(m)
    BY <2>1
  <2>4. UpTo(x) \in SUBSET S /\ UpTo(m) \in SUBSET S /\ UpTo(x) \in T
    OBVIOUS
  <2> HIDE DEF UpTo, T
  <2> QED BY <2>2, <2>3, <2>4, <1>3, <1>4 DEF StrictSubsetOrdering
<1> QED BY <1>5

\* The deadline of a finite job table is one of its times, or none.
LEMMA DeadlineType ==
  ASSUME RuntimeInv
  PROVE  Deadline(jobs) \in Times \cup {0}
<1> jobs \in SUBSET Nat /\ jobs \subseteq Times /\ IsFiniteSet(jobs)
  BY RuntimeAssumption DEF RuntimeInv, TypeOK, AlarmInv
<1> QED BY FiniteMinimum DEF Deadline, Min

\* The fields that are no sequences.
LEMMA PlainStep ==
  ASSUME RuntimeInv, [Next]_vars
  PROVE  PlainType'
<1>a. /\ {MaxCalls, MaxFaults} \subseteq Nat
      /\ calls \in 0..MaxCalls /\ faults \in 0..MaxFaults
      /\ fate \in Seq({"pending", "done", "failed"})
      /\ attempt \in 0..Len(fate) /\ AtType /\ PlainType
  BY RuntimeAssumption DEF RuntimeInv, TypeOK, AtType, PlainType
<1>b. /\ done \in Seq({"buffered", "waiting", "delivered", "failed"})
      /\ pending \in Seq(DOMAIN done)
  BY DEF RuntimeInv, TypeOK
<1>c. /\ Fault => faults' \in 0..MaxFaults
      /\ calls < MaxCalls /\ calls' = calls + 1 => calls' \in 0..MaxCalls
  BY <1>a DEF Fault
<1>0. /\ AtType /\ PlainType /\ attempt \in Nat /\ Len(done) + 1 \in Nat
      /\ pending # <<>> => pending[Len(pending)] \in Nat
      /\ \A t \in Tasks : at[t].kind \in Kinds
      /\ Deadline(jobs) \in Times \cup {0}
  BY DeadlineType, <1>a, <1>b DEF AtType
<1> USE DEF PlainType, life, events, alarms, DrainsTo
<1>1. ASSUME NEW t \in Tasks, Call(t) PROVE PlainType'
  BY <1>0, <1>c, Landing, <1>1, CallMoves DEF Call
<1>2. ASSUME NEW t \in Tasks, Emit(t) PROVE PlainType'
  BY <1>0, <1>c, <1>2, EmitMoves DEF Emit
<1>3. ASSUME NEW t \in Tasks, Dispose(t) PROVE PlainType'
  BY <1>0, <1>c, <1>3 DEF Dispose
<1>4. ASSUME NEW t \in Tasks, Joined(t) PROVE PlainType'
  BY <1>0, <1>c, <1>4 DEF Joined
<1>5. ASSUME NEW t \in Tasks, HooksReturn(t) PROVE PlainType'
  BY <1>0, <1>c, <1>5, HooksMove, ZenonT(30) DEF HooksReturn, Readies, Settles
<1>6. ASSUME NEW t \in Tasks, HooksRaise(t) PROVE PlainType'
  BY <1>0, <1>c, <1>6 DEF HooksRaise, FailsStart, Settles
<1>7. ASSUME NEW t \in Tasks, HookPushes(t) PROVE PlainType'
  BY <1>0, <1>c, <1>7 DEF HookPushes
<1>8. ASSUME NEW t \in Tasks, ListenerEmits(t) PROVE PlainType'
  BY <1>0, <1>c, <1>8 DEF ListenerEmits
<1>9. ASSUME NEW t \in Tasks, Delivered(t) PROVE PlainType'
  BY <1>0, <1>c, <1>9, ZenonT(30) DEF Delivered, Continues, Readies, Settles
<1>10. ASSUME NEW t \in Tasks, DrainCancelled(t) PROVE PlainType'
  BY <1>0, <1>c, <1>10 DEF DrainCancelled, Raises, FailsStart, Settles
<1>11. ASSUME NEW t \in Tasks, Answered(t) PROVE PlainType'
  BY <1>0, <1>c, <1>11, ZenonT(30) DEF Answered, Continues, Raises, Readies, FailsStart,
     Settles
<1>12. ASSUME NEW t \in Tasks, WaitCancelled(t) PROVE PlainType'
  BY <1>0, <1>c, <1>12 DEF WaitCancelled, Raises, FailsStart, Settles
<1>13. ASSUME NEW t \in Tasks, Push(t) PROVE PlainType'
  BY <1>0, <1>c, <1>13 DEF Push, AsksRearm
<1>14. ASSUME NEW t \in Tasks, StartsAgain(t) PROVE PlainType'
  BY <1>0, <1>c, Landing, <1>14 DEF StartsAgain
<1>15. ASSUME NEW t \in Tasks, Rearm(t) PROVE PlainType'
  BY <1>0, <1>c, <1>15 DEF Rearm
<1>16. ASSUME NEW t \in Tasks, Rearmed(t) PROVE PlainType'
  BY <1>0, <1>c, <1>16 DEF Rearmed, Settles, Continues, Readies
<1>17. ASSUME NEW t \in Tasks, RearmRaises(t) PROVE PlainType'
  BY <1>0, <1>c, <1>17 DEF RearmRaises, FailsStart, Settles
<1>18. ASSUME NEW t \in Tasks, Handled(t) PROVE PlainType'
  BY <1>0, <1>c, <1>18 DEF Handled
<1>19. ASSUME NEW t \in Tasks, DisposeBegins(t) PROVE PlainType'
  BY <1>0, <1>c, <1>19 DEF DisposeBegins
<1>20. ASSUME NEW t \in Tasks, DisposeCancelsJob(t) PROVE PlainType'
  BY <1>0, <1>c, <1>20 DEF DisposeCancelsJob
<1>21. ASSUME NEW t \in Tasks, Disposes(t) PROVE PlainType'
  BY <1>0, <1>c, <1>21 DEF Disposes
<1>22. CASE UNCHANGED vars
  BY <1>0, <1>c, <1>22 DEF vars
<1> QED
  BY <1>1, <1>2, <1>3, <1>4, <1>5, <1>6, <1>7, <1>8, <1>9, <1>10, <1>11, <1>12,
     <1>13, <1>14, <1>15, <1>16, <1>17, <1>18, <1>19, <1>20, <1>21, <1>22 DEF Next

\* How the startup attempts ended, and which one is under way or holds.
FateType == fate \in Seq({"pending", "done", "failed"}) /\ attempt \in 0..Len(fate)

\* A startup that settles leaves the attempts typed.
LEMMA FateOps ==
  ASSUME FateType
  PROVE  /\ Append(fate, "pending") \in Seq({"pending", "done", "failed"})
         /\ Len(Append(fate, "pending")) = Len(fate) + 1
         /\ \A result \in {"done", "failed"} : Settles(result) => FateType'
<1>1. ASSUME NEW result \in {"done", "failed"}, Settles(result)
      PROVE  FateType'
  <2>1. fate' = [fate EXCEPT ![attempt] = result] /\ attempt' \in {attempt, 0}
    BY <1>1 DEF Settles, NoAttempt
  <2>2. fate' \in Seq({"pending", "done", "failed"}) /\ Len(fate') = Len(fate)
    <3>1. fate \in [1..Len(fate) -> {"pending", "done", "failed"}] /\ Len(fate) \in Nat
      BY DEF FateType
    <3>2. fate' \in [1..Len(fate) -> {"pending", "done", "failed"}]
      BY <2>1, <3>1
    <3> QED BY <3>1, <3>2
  <2> QED BY <2>1, <2>2 DEF FateType
<1> QED BY <1>1 DEF FateType

\* The attempts keep their type.
LEMMA FateStep ==
  ASSUME RuntimeInv, [Next]_vars
  PROVE  FateType'
<1>0. /\ AtType /\ FateType /\ attempt \in Nat /\ Len(fate) \in Nat
      /\ \A t \in Tasks : at[t].kind \in Kinds
  BY DEF RuntimeInv, TypeOK, AtType, FateType, Kinds
<1>1. ASSUME fate' = Append(fate, "pending"), attempt' = Len(fate) + 1 PROVE FateType'
  BY <1>0, <1>1, FateOps DEF FateType
<1>2. UNCHANGED <<fate, attempt>> => FateType'
  BY <1>0 DEF FateType
<1> USE DEF life, events, alarms
<1>3. ASSUME NEW t \in Tasks, Call(t) PROVE FateType'
  BY <1>0, <1>1, <1>2, FateOps, CallMoves, Landing, <1>3
<1>4. ASSUME NEW t \in Tasks, Emit(t) PROVE FateType'
  BY <1>0, <1>1, <1>2, FateOps, EmitMoves, <1>4
<1>5. ASSUME NEW t \in Tasks, Dispose(t) PROVE FateType'
  BY <1>0, <1>1, <1>2, FateOps, <1>5 DEF Dispose
<1>6. ASSUME NEW t \in Tasks, Joined(t) PROVE FateType'
  BY <1>0, <1>1, <1>2, FateOps, <1>6 DEF Joined
<1>7. ASSUME NEW t \in Tasks, HooksReturn(t) PROVE FateType'
  BY <1>0, <1>1, <1>2, FateOps, <1>7 DEF HooksReturn, Readies
<1>8. ASSUME NEW t \in Tasks, HooksRaise(t) PROVE FateType'
  BY <1>0, <1>1, <1>2, FateOps, <1>8 DEF HooksRaise, FailsStart
<1>9. ASSUME NEW t \in Tasks, HookPushes(t) PROVE FateType'
  BY <1>0, <1>1, <1>2, FateOps, <1>9 DEF HookPushes
<1>10. ASSUME NEW t \in Tasks, ListenerEmits(t) PROVE FateType'
  BY <1>0, <1>1, <1>2, FateOps, <1>10 DEF ListenerEmits
<1>11. ASSUME NEW t \in Tasks, Delivered(t) PROVE FateType'
  BY <1>0, <1>1, <1>2, FateOps, <1>11 DEF Delivered, Continues, Readies
<1>12. ASSUME NEW t \in Tasks, DrainCancelled(t) PROVE FateType'
  BY <1>0, <1>1, <1>2, FateOps, <1>12 DEF DrainCancelled, Raises, FailsStart
<1>13. ASSUME NEW t \in Tasks, Answered(t) PROVE FateType'
  BY <1>0, <1>1, <1>2, FateOps, <1>13 DEF Answered, Continues, Raises, Readies,
     FailsStart
<1>14. ASSUME NEW t \in Tasks, WaitCancelled(t) PROVE FateType'
  BY <1>0, <1>1, <1>2, FateOps, <1>14 DEF WaitCancelled, Raises, FailsStart
<1>15. ASSUME NEW t \in Tasks, Push(t) PROVE FateType'
  BY <1>0, <1>1, <1>2, FateOps, <1>15 DEF Push, AsksRearm
<1>16. ASSUME NEW t \in Tasks, StartsAgain(t) PROVE FateType'
  BY <1>0, <1>1, <1>2, FateOps, Landing, <1>16 DEF StartsAgain
<1>17. ASSUME NEW t \in Tasks, Rearm(t) PROVE FateType'
  BY <1>0, <1>1, <1>2, FateOps, <1>17 DEF Rearm
<1>18. ASSUME NEW t \in Tasks, Rearmed(t) PROVE FateType'
  BY <1>0, <1>1, <1>2, FateOps, <1>18 DEF Rearmed, Continues, Readies
<1>19. ASSUME NEW t \in Tasks, RearmRaises(t) PROVE FateType'
  BY <1>0, <1>1, <1>2, FateOps, <1>19 DEF RearmRaises, FailsStart
<1>20. ASSUME NEW t \in Tasks, Handled(t) PROVE FateType'
  BY <1>0, <1>1, <1>2, FateOps, <1>20 DEF Handled
<1>21. ASSUME NEW t \in Tasks, DisposeBegins(t) PROVE FateType'
  BY <1>0, <1>1, <1>2, FateOps, <1>21 DEF DisposeBegins
<1>22. ASSUME NEW t \in Tasks, DisposeCancelsJob(t) PROVE FateType'
  BY <1>0, <1>1, <1>2, FateOps, <1>22 DEF DisposeCancelsJob
<1>23. ASSUME NEW t \in Tasks, Disposes(t) PROVE FateType'
  BY <1>0, <1>1, <1>2, FateOps, <1>23 DEF Disposes
<1>24. CASE UNCHANGED vars
  BY <1>0, <1>1, <1>2, FateOps, <1>24 DEF vars
<1> QED
  BY <1>3, <1>4, <1>5, <1>6, <1>7, <1>8, <1>9, <1>10, <1>11, <1>12, <1>13,
     <1>14, <1>15, <1>16, <1>17, <1>18, <1>19, <1>20, <1>21, <1>22, <1>23,
     <1>24 DEF Next

Futures == {"buffered", "waiting", "delivered", "failed"}

\* The queue becomes q, which a task drains already or begins to.
Flows(q) ==
  /\ queue' = q
  /\ \/ drainer = NoTask /\ drainer' # NoTask /\ heard' = q[1]
     \/ drainer # NoTask /\ UNCHANGED <<drainer, heard>>

\* What a step does to the events that are there, and with a new one.
OldEvents ==
  /\ Len(done') = Len(done) /\ pending' \in {pending, <<>>}
  /\ \/ UNCHANGED <<queue, drainer, heard>>
     \/ queue' = <<>> /\ drainer' = NoTask /\ UNCHANGED heard
     \/ /\ queue' = Tail(queue) /\ Len(queue) > 1 /\ heard' = queue[2]
        /\ UNCHANGED drainer
     \/ /\ queue' = Tail(queue) /\ Len(queue) = 1 /\ drainer' = NoTask
        /\ UNCHANGED heard
     \/ pending # <<>> /\ Flows(queue \o pending) /\ pending' = <<>>
NewEvent(e) ==
  /\ e = Len(done) + 1 /\ Len(done') = e
  /\ \/ Buffering /\ pending' = Append(pending, e) /\ UNCHANGED <<queue, drainer, heard>>
     \/ ~Buffering /\ Flows(Append(queue, e)) /\ UNCHANGED pending

\* The futures of the events stay futures.
LEMMA FutureOps ==
  ASSUME done \in Seq(Futures)
  PROVE  /\ \A f \in Futures :
              Append(done, f) \in Seq(Futures) /\ Len(Append(done, f)) = Len(done) + 1
         /\ \A f \in Futures, e \in Nat :
              /\ [done EXCEPT ![e] = f] \in Seq(Futures)
              /\ Len([done EXCEPT ![e] = f]) = Len(done)
         /\ \A F \in [DOMAIN done -> Futures] : F \in Seq(Futures) /\ Len(F) = Len(done)
<1>1. done \in [1..Len(done) -> Futures] /\ Len(done) \in Nat
  OBVIOUS
<1>2. ASSUME NEW F \in [DOMAIN done -> Futures]
      PROVE  F \in Seq(Futures) /\ Len(F) = Len(done)
  BY <1>1
<1>3. ASSUME NEW f \in Futures, NEW e \in Nat
      PROVE  [done EXCEPT ![e] = f] \in [DOMAIN done -> Futures]
  BY <1>1
<1>4. ASSUME NEW f \in Futures
      PROVE  Append(done, f) \in Seq(Futures) /\ Len(Append(done, f)) = Len(done) + 1
  OBVIOUS
<1> QED BY <1>2, <1>3, <1>4

\* Every step moves the events in one of these ways.
EventMove ==
  done' \in Seq(Futures) /\ (OldEvents \/ \E e \in Nat : NewEvent(e))

\* Each action, told as a move of the events.
LEMMA EventSteps ==
  ASSUME RuntimeInv, [Next]_vars
  PROVE  EventMove
<1>0. /\ AtType /\ done \in Seq(Futures) /\ Len(done) + 1 \in Nat
      /\ Len(queue) \in Nat /\ pending \in Seq(DOMAIN done)
      /\ pending # <<>> => pending[Len(pending)] \in Nat
      /\ \A t \in Tasks : t # NoTask
      /\ \A t \in Tasks : at[t].pc = "drain" => queue # <<>> /\ queue[1] \in Nat
  <2>1. /\ done \in Seq(Futures) /\ {pending, queue} \subseteq Seq(DOMAIN done)
        /\ AtType /\ \A t \in Tasks : t # NoTask
    BY RuntimeAssumption DEF RuntimeInv, TypeOK, AtType, Futures
  <2>2. \A t \in Tasks : at[t].pc = "drain" => queue # <<>>
    BY <2>1 DEF RuntimeInv, PlaceInv, EventInv, InOrder
  <2> QED BY <2>1, <2>2
<1>1. \A F \in [DOMAIN done -> Futures] : F \in Seq(Futures) /\ Len(F) = Len(done)
  BY <1>0, FutureOps
<1>2. ASSUME UNCHANGED done PROVE done' \in Seq(Futures) /\ Len(done') = Len(done)
  BY <1>0, <1>2
<1> USE DEF EventMove, OldEvents, events
<1>3. ASSUME NEW t \in Tasks, Call(t) PROVE EventMove
  BY <1>0, <1>2, <1>3 DEF Call, alarms
<1>4. ASSUME NEW t \in Tasks, Emit(t) PROVE EventMove
  <2> DEFINE e == Len(done) + 1
  <2>1. done' \in Seq(Futures) /\ Len(done') = e
    <3>1. done' = Append(done, "buffered") \/ done' = Append(done, "waiting")
      BY <1>4 DEF Emit
    <3> QED BY <1>0, <3>1, FutureOps DEF Futures
  <2>2. CASE Buffering
    BY <1>4, <2>1, <2>2, <1>0 DEF Emit, NewEvent
  <2>3. CASE ~Buffering
    <3>1. Flows(Append(queue, e)) /\ UNCHANGED pending
      BY <1>4, <1>0, <2>3, EmitMoves DEF DrainsTo, Flows
    <3> QED BY <1>0, <2>1, <2>3, <3>1 DEF NewEvent
  <2> QED BY <2>2, <2>3
<1>5. ASSUME NEW t \in Tasks, Dispose(t) PROVE EventMove
  BY <1>0, <1>2, <1>5 DEF Dispose, alarms
<1>6. ASSUME NEW t \in Tasks, Joined(t) PROVE EventMove
  BY <1>0, <1>2, <1>6 DEF Joined, alarms
<1>7. ASSUME NEW t \in Tasks, HooksReturn(t) PROVE EventMove
  <2>1. CASE pending = <<>>
    BY <1>7, <1>2, <2>1 DEF HooksReturn, Readies
  <2>2. CASE pending # <<>>
    <3>1. Flows(queue \o pending) /\ pending' = <<>>
      BY <1>7, <1>0, <2>2, HooksMove DEF DrainsTo, Flows
    <3>2. done' \in [DOMAIN done -> Futures]
      <4>1. done' = [e \in DOMAIN done |-> IF \E i \in DOMAIN pending : pending[i] = e
                                           THEN "waiting" ELSE done[e]]
        BY <1>7, <2>2 DEF HooksReturn
      <4> QED BY <4>1, <1>0 DEF Futures
    <3> QED BY <1>1, <2>2, <3>1, <3>2
  <2> QED BY <2>1, <2>2
<1>8. ASSUME NEW t \in Tasks, HooksRaise(t) PROVE EventMove
  BY <1>0, <1>2, <1>8 DEF HooksRaise, FailsStart, alarms
<1>9. ASSUME NEW t \in Tasks, HookPushes(t) PROVE EventMove
  BY <1>0, <1>2, <1>9 DEF HookPushes
<1>10. ASSUME NEW t \in Tasks, ListenerEmits(t) PROVE EventMove
  <2> DEFINE e == Len(done) + 1
  <2>1. done' \in Seq(Futures) /\ Len(done') = e
    <3>1. done' = Append(done, "buffered") \/ done' = Append(done, "waiting")
      BY <1>10 DEF ListenerEmits
    <3> QED BY <1>0, <3>1, FutureOps DEF Futures
  <2>2. /\ UNCHANGED <<drainer, heard>>
        /\ \/ Buffering /\ pending' = Append(pending, e) /\ UNCHANGED queue
           \/ ~Buffering /\ queue' = Append(queue, e) /\ UNCHANGED pending
    BY <1>10 DEF ListenerEmits
  <2>3. drainer # NoTask
    BY <1>10, <1>0 DEF ListenerEmits, RuntimeInv, PlaceInv
  <2> QED BY <1>0, <2>1, <2>2, <2>3 DEF NewEvent, Flows
<1>11. ASSUME NEW t \in Tasks, Delivered(t) PROVE EventMove
  <2>1. done' \in Seq(Futures) /\ Len(done') = Len(done)
    <3>1. done' = [done EXCEPT ![queue[1]] = "delivered"] /\ queue[1] \in Nat
      BY <1>11, <1>0 DEF Delivered
    <3> QED BY <1>0, <3>1, FutureOps DEF Futures
  <2> QED BY <1>0, <1>11, <2>1 DEF Delivered
<1>12. ASSUME NEW t \in Tasks, DrainCancelled(t) PROVE EventMove
  <2>1. done' \in [DOMAIN done -> Futures]
    <3>1. done' = [e \in DOMAIN done |-> IF done[e] = "waiting" THEN "failed" ELSE done[e]]
      BY <1>12 DEF DrainCancelled
    <3> QED BY <1>0, <3>1 DEF Futures
  <2>2. /\ queue' = <<>> /\ drainer' = NoTask /\ heard' = heard
        /\ pending' \in {pending, <<>>}
    BY <1>12 DEF DrainCancelled, Raises, FailsStart
  <2> QED BY <1>1, <2>1, <2>2
<1>13. ASSUME NEW t \in Tasks, Answered(t) PROVE EventMove
  BY <1>0, <1>2, <1>13 DEF Answered, Continues, Raises, alarms, Readies,
     FailsStart
<1>14. ASSUME NEW t \in Tasks, WaitCancelled(t) PROVE EventMove
  BY <1>0, <1>2, <1>14 DEF WaitCancelled, Raises, alarms, FailsStart
<1>15. ASSUME NEW t \in Tasks, Push(t) PROVE EventMove
  BY <1>0, <1>2, <1>15 DEF Push, AsksRearm
<1>16. ASSUME NEW t \in Tasks, StartsAgain(t) PROVE EventMove
  BY <1>0, <1>2, <1>16 DEF StartsAgain, alarms
<1>17. ASSUME NEW t \in Tasks, Rearm(t) PROVE EventMove
  BY <1>0, <1>2, <1>17 DEF Rearm
<1>18. ASSUME NEW t \in Tasks, Rearmed(t) PROVE EventMove
  BY <1>0, <1>2, <1>18 DEF Rearmed, Continues, Readies
<1>19. ASSUME NEW t \in Tasks, RearmRaises(t) PROVE EventMove
  BY <1>0, <1>2, <1>19 DEF RearmRaises, FailsStart
<1>20. ASSUME NEW t \in Tasks, Handled(t) PROVE EventMove
  BY <1>0, <1>2, <1>20 DEF Handled, alarms
<1>21. ASSUME NEW t \in Tasks, DisposeBegins(t) PROVE EventMove
  BY <1>0, <1>2, <1>21 DEF DisposeBegins
<1>22. ASSUME NEW t \in Tasks, DisposeCancelsJob(t) PROVE EventMove
  BY <1>0, <1>2, <1>22 DEF DisposeCancelsJob
<1>23. ASSUME NEW t \in Tasks, Disposes(t) PROVE EventMove
  BY <1>0, <1>2, <1>23 DEF Disposes
<1>24. CASE UNCHANGED vars
  BY <1>0, <1>2, <1>24 DEF vars
<1> QED
  BY <1>3, <1>4, <1>5, <1>6, <1>7, <1>8, <1>9, <1>10, <1>11, <1>12, <1>13,
     <1>14, <1>15, <1>16, <1>17, <1>18, <1>19, <1>20, <1>21, <1>22, <1>23,
     <1>24 DEF Next

\* What the operators of sequences do to increasing sequences of numbers.
LEMMA IncreasingTail ==
  ASSUME NEW n \in Nat, NEW q \in Seq(1..n), q # <<>>, Increasing(q)
  PROVE  /\ Tail(q) \in Seq(1..n) /\ Len(Tail(q)) = Len(q) - 1
         /\ \A i \in DOMAIN Tail(q) : i + 1 \in DOMAIN q /\ Tail(q)[i] = q[i + 1]
         /\ Increasing(Tail(q))
<1>1. /\ Tail(q) \in Seq(1..n) /\ Len(Tail(q)) = Len(q) - 1
      /\ Len(q) \in Nat /\ DOMAIN q = 1..Len(q) /\ DOMAIN Tail(q) = 1..Len(q) - 1
      /\ \A i \in DOMAIN Tail(q) : Tail(q)[i] = q[i + 1]
  <2>1. Tail(q) \in Seq(1..n) /\ Len(Tail(q)) = Len(q) - 1
    BY HeadTailProperties
  <2>2. \A i \in 1..Len(Tail(q)) : Tail(q)[i] = q[i + 1]
    BY HeadTailProperties
  <2> QED BY <2>1, <2>2, LenProperties
<1>2. \A i \in DOMAIN Tail(q) : i \in Nat /\ i + 1 \in DOMAIN q
  BY <1>1
<1>3. Increasing(Tail(q))
  <2> SUFFICES ASSUME NEW i \in DOMAIN Tail(q), NEW j \in DOMAIN Tail(q), i < j
               PROVE  Tail(q)[i] < Tail(q)[j]
    BY DEF Increasing
  <2>1. i + 1 < j + 1
    BY <1>2
  <2> QED BY <1>1, <1>2, <2>1 DEF Increasing
<1> QED BY <1>1, <1>2, <1>3

\* The same of one sequence after another, all of it smaller.
LEMMA IncreasingConcat ==
  ASSUME NEW n \in Nat, NEW q \in Seq(1..n), NEW p \in Seq(1..n),
         Increasing(q), Increasing(p),
         \A i \in DOMAIN q, j \in DOMAIN p : q[i] < p[j]
  PROVE  /\ q \o p \in Seq(1..n) /\ Len(q \o p) = Len(q) + Len(p)
         /\ p # <<>> => (q \o p)[1] = IF q = <<>> THEN p[1] ELSE q[1]
         /\ Increasing(q \o p)
<1> DEFINE c == q \o p
<1>1. /\ c \in Seq(1..n) /\ Len(c) = Len(q) + Len(p)
      /\ DOMAIN c = 1..Len(q) + Len(p)
      /\ Len(q) \in Nat /\ DOMAIN q = 1..Len(q)
      /\ Len(p) \in Nat /\ DOMAIN p = 1..Len(p)
  BY ConcatProperties, LenProperties
<1>2. \A i \in DOMAIN c : c[i] = IF i <= Len(q) THEN q[i] ELSE p[i - Len(q)]
  BY <1>1, ConcatProperties
<1>3. q # <<>> => Len(q) >= 1
  BY <1>1
<1>4. p # <<>> => Len(p) >= 1
  BY <1>1
<1>5. q = <<>> => Len(q) = 0
  OBVIOUS
<1> HIDE DEF c
<1>6. p # <<>> => c[1] = IF q = <<>> THEN p[1] ELSE q[1]
  <2>1. CASE p # <<>> /\ q = <<>>
    <3>1. 1 \in DOMAIN c /\ ~(1 <= Len(q)) /\ 1 - Len(q) = 1
      BY <1>1, <1>4, <1>5, <2>1
    <3> QED BY <1>2, <2>1, <3>1
  <2>2. CASE p # <<>> /\ q # <<>>
    <3>1. 1 \in DOMAIN c /\ 1 <= Len(q)
      BY <1>1, <1>3, <2>2
    <3> QED BY <1>2, <2>2, <3>1
  <2> QED BY <2>1, <2>2
<1>7. Increasing(c)
  <2> SUFFICES ASSUME NEW i \in DOMAIN c, NEW j \in DOMAIN c, i < j PROVE c[i] < c[j]
    BY DEF Increasing
  <2>1. i \in Nat /\ j \in Nat
    BY <1>1
  <2>2. CASE j <= Len(q)
    <3>1. i \in DOMAIN q /\ j \in DOMAIN q /\ c[i] = q[i] /\ c[j] = q[j]
      BY <1>1, <1>2, <2>1, <2>2
    <3> QED BY <3>1 DEF Increasing
  <2>3. CASE i <= Len(q) /\ ~(j <= Len(q))
    <3>1. /\ i \in DOMAIN q /\ j - Len(q) \in DOMAIN p
          /\ c[i] = q[i] /\ c[j] = p[j - Len(q)]
      BY <1>1, <1>2, <2>1, <2>3
    <3> QED BY <3>1
  <2>4. CASE ~(i <= Len(q)) /\ ~(j <= Len(q))
    <3>1. c[i] = p[i - Len(q)] /\ c[j] = p[j - Len(q)]
      BY <1>2, <2>4
    <3>2. i - Len(q) \in DOMAIN p /\ j - Len(q) \in DOMAIN p
      BY <1>1, <2>1, <2>4, SMTT(30)
    <3>3. i - Len(q) < j - Len(q)
      BY <1>1, <2>1
    <3> QED BY <3>1, <3>2, <3>3 DEF Increasing
  <2> QED BY <1>1, <2>1, <2>2, <2>3, <2>4
<1> QED BY <1>1, <1>6, <1>7 DEF c

\* The same of a greater number at the end.
LEMMA IncreasingAppend ==
  ASSUME NEW n \in Nat, NEW q \in Seq(1..n), Increasing(q)
  PROVE  /\ Append(q, n + 1) \in Seq(1..n + 1) /\ Len(Append(q, n + 1)) = Len(q) + 1
         /\ Append(q, n + 1)[1] = IF q = <<>> THEN n + 1 ELSE q[1]
         /\ \A j \in DOMAIN Append(q, n + 1) :
              Append(q, n + 1)[j] = IF j \in DOMAIN q THEN q[j] ELSE n + 1
         /\ Increasing(Append(q, n + 1))
<1> DEFINE c == Append(q, n + 1)
<1>1. /\ q \in Seq(1..n + 1) /\ n + 1 \in 1..n + 1
      /\ Len(q) \in Nat /\ DOMAIN q = 1..Len(q)
      /\ \A i \in DOMAIN q : q[i] \in 1..n
  <2>1. 1..n \subseteq 1..n + 1
    OBVIOUS
  <2>2. q \in Seq(1..n + 1)
    BY <2>1, SeqMonotonic
  <2> QED BY <2>2, LenProperties
<1>2. c \in Seq(1..n + 1) /\ Len(c) = Len(q) + 1 /\ DOMAIN c = 1..Len(q) + 1
  BY <1>1, AppendProperties, LenProperties
<1>3. (\A i \in 1..Len(q) : c[i] = q[i]) /\ c[Len(q) + 1] = n + 1
  BY <1>1, AppendProperties
<1>4. \A j \in DOMAIN c : j \in DOMAIN q \/ j = Len(q) + 1
  BY <1>1, <1>2
<1>5. (q # <<>> => Len(q) >= 1) /\ (q = <<>> => Len(q) = 0)
  BY <1>1
<1> HIDE DEF c
<1>6. c[1] = IF q = <<>> THEN n + 1 ELSE q[1]
  BY <1>1, <1>3, <1>5
<1>7. Increasing(c)
  <2> SUFFICES ASSUME NEW i \in DOMAIN c, NEW j \in DOMAIN c, i < j PROVE c[i] < c[j]
    BY DEF Increasing
  <2>1. i \in DOMAIN q /\ c[i] = q[i] /\ q[i] \in 1..n
    BY <1>1, <1>2, <1>3, <1>4
  <2>2. CASE j \in DOMAIN q
    BY <1>1, <1>3, <2>1, <2>2 DEF Increasing
  <2>3. CASE j = Len(q) + 1
    BY <1>3, <2>1, <2>3
  <2> QED BY <1>4, <2>2, <2>3
<1>8. \A j \in DOMAIN c : c[j] = IF j \in DOMAIN q THEN q[j] ELSE n + 1
  BY <1>1, <1>3, <1>4
<1> QED BY <1>1, <1>2, <1>6, <1>7, <1>8 DEF c

\* The types of what events are in.
EventTypes ==
  {pending, queue} \subseteq Seq(DOMAIN done) /\ heard \in 0..Len(done)

\* The queue stays in order, and what is heard next was emitted later.
LEMMA OrderStep ==
  ASSUME done \in Seq(Futures), EventTypes, InOrder, EventMove,
         pending # <<>> => Buffering
  PROVE  EventTypes' /\ InOrder' /\ (heard' # heard => heard' > heard)
<1> DEFINE n == Len(done)
<1>1. /\ n \in Nat /\ queue \in Seq(1..n) /\ pending \in Seq(1..n) /\ heard \in 0..n
      /\ \A i \in DOMAIN queue : queue[i] \in 1..n
      /\ \A i \in DOMAIN pending : pending[i] \in 1..n
  BY DEF EventTypes
<1>2. /\ pending # <<>> => 1 \in DOMAIN pending
      /\ queue # <<>> => 1 \in DOMAIN queue
      /\ DOMAIN <<>> = {}
  BY <1>1
<1>3. done' \in Seq(Futures) /\ DOMAIN done' = 1..Len(done')
  BY DEF EventMove
<1> HIDE DEF n
<1>4. <<>> \in Seq(1..n) /\ <<>> \in Seq(1..n + 1) /\ Increasing(<<>>)
  BY DEF Increasing
<1>5. ASSUME OldEvents
      PROVE  EventTypes' /\ InOrder' /\ (heard' # heard => heard' > heard)
  <2>1. DOMAIN done' = 1..n /\ Len(done') = n
    BY <1>3, <1>5 DEF OldEvents, n
  <2>2. /\ pending' = pending \/ pending' = <<>>
        /\ pending' \in Seq(1..n) /\ Increasing(pending')
        /\ \A j \in DOMAIN pending' : pending'[j] = pending[j] /\ j \in DOMAIN pending
    <3>1. pending' = pending \/ pending' = <<>>
      BY <1>5 DEF OldEvents
    <3>2. CASE pending' = pending
      BY <1>1, <3>2 DEF InOrder
    <3>3. CASE pending' = <<>>
      BY <1>2, <1>4, <3>3
    <3> QED BY <3>1, <3>2, <3>3
  <2>3. CASE UNCHANGED <<queue, drainer, heard>>
    BY <1>1, <2>1, <2>2, <2>3 DEF EventTypes, InOrder
  <2>4. ASSUME queue' = <<>>, drainer' = NoTask, UNCHANGED heard
        PROVE  EventTypes' /\ InOrder' /\ (heard' # heard => heard' > heard)
    BY <1>1, <1>2, <1>4, <2>1, <2>2, <2>4 DEF EventTypes, InOrder
  <2>5. CASE /\ queue' = Tail(queue) /\ Len(queue) = 1 /\ drainer' = NoTask
             /\ UNCHANGED heard
    <3>1. queue # <<>>
      <4>1. Len(queue) = 1 /\ queue \in Seq(1..n)
        BY <1>1, <2>5
      <4> QED BY <4>1, EmptySeq
    <3>2. Tail(queue) \in Seq(1..n) /\ Len(Tail(queue)) = 0
      BY <1>1, <2>5, <3>1, IncreasingTail DEF InOrder
    <3>3. Tail(queue) = <<>>
      BY <3>2, EmptySeq
    <3> QED BY <2>4, <2>5, <3>3
  <2>6. CASE /\ queue' = Tail(queue) /\ Len(queue) > 1 /\ heard' = queue[2]
             /\ UNCHANGED drainer
    <3>1. queue # <<>> /\ 1 \in DOMAIN queue /\ 2 \in DOMAIN queue
      BY <1>1, <2>6
    <3>2. /\ queue' \in Seq(1..n) /\ Len(queue') = Len(queue) - 1
          /\ \A i \in DOMAIN queue' : i + 1 \in DOMAIN queue /\ queue'[i] = queue[i + 1]
          /\ Increasing(queue')
      BY <1>1, <2>6, <3>1, IncreasingTail DEF InOrder
    <3>3. queue' # <<>> /\ queue'[1] = queue[2]
      <4>1. Len(queue') >= 1
        BY <1>1, <2>6, <3>2
      <4>2. 1 \in DOMAIN queue'
        BY <3>2, <4>1
      <4> QED BY <3>2, <4>1, <4>2
    <3>4. heard = queue[1] /\ queue[1] < queue[2] /\ heard' \in 0..n /\ heard' > heard
      BY <1>1, <2>6, <3>1, SMTT(30) DEF InOrder, Increasing
    <3>5. \A j \in DOMAIN pending' :
            heard' < pending'[j] /\ \A i \in DOMAIN queue' : queue'[i] < pending'[j]
      BY <2>2, <2>6, <3>1, <3>2 DEF InOrder
    <3>6. drainer' # NoTask
      BY <2>6, <3>1 DEF InOrder
    <3> QED BY <2>1, <2>2, <2>6, <3>2, <3>3, <3>4, <3>5, <3>6 DEF InOrder, EventTypes
  <2>7. CASE pending # <<>> /\ Flows(queue \o pending) /\ pending' = <<>>
    <3> DEFINE q == queue \o pending
    <3>1. /\ q \in Seq(1..n) /\ Len(q) = Len(queue) + Len(pending) /\ Increasing(q)
          /\ q[1] = IF queue = <<>> THEN pending[1] ELSE queue[1]
      BY <1>1, <2>7, IncreasingConcat DEF InOrder
    <3>2. q # <<>>
      BY <1>1, <2>7, ConcatEqualIffEmpty, ConcatProperties
    <3> HIDE DEF q
    <3>3. queue' = q /\ pending' = <<>>
      BY <2>7 DEF Flows, q
    <3>4. /\ drainer' # NoTask /\ heard' = q[1]
          /\ heard' # heard => heard' > heard
      <4>1. CASE drainer = NoTask
        BY <1>1, <1>2, <2>7, <3>1, <4>1 DEF Flows, InOrder, q
      <4>2. CASE drainer # NoTask
        BY <1>1, <2>7, <3>1, <4>2 DEF Flows, InOrder
      <4> QED BY <4>1, <4>2
    <3>5. heard' \in 0..n
      <4>1. heard' \in 1..n
        BY <1>1, <1>2, <2>7, <3>1, <3>4
      <4> QED BY <1>1, <4>1
    <3> QED
      BY <1>2, <1>4, <2>1, <3>1, <3>2, <3>3, <3>4, <3>5 DEF EventTypes, InOrder
  <2> QED BY <1>5, <2>3, <2>4, <2>5, <2>6, <2>7 DEF OldEvents
<1>6. ASSUME NEW e \in Nat, NewEvent(e)
      PROVE  EventTypes' /\ InOrder' /\ (heard' # heard => heard' > heard)
  <2>1. /\ e = n + 1 /\ Len(done') = n + 1 /\ DOMAIN done' = 1..n + 1
        /\ queue \in Seq(1..n + 1) /\ pending \in Seq(1..n + 1)
    <3>1. e = n + 1 /\ Len(done') = n + 1
      BY <1>6 DEF NewEvent, n
    <3>2. 1..n \subseteq 1..n + 1
      BY <1>1
    <3>3. queue \in Seq(1..n + 1) /\ pending \in Seq(1..n + 1)
      BY <1>1, <3>2, SeqMonotonic
    <3> QED BY <1>3, <3>1, <3>3
  <2>2. CASE pending' = Append(pending, e) /\ UNCHANGED <<queue, drainer, heard>>
    <3>1. /\ pending' \in Seq(1..n + 1) /\ Increasing(pending')
          /\ \A j \in DOMAIN pending' :
               pending'[j] = IF j \in DOMAIN pending THEN pending[j] ELSE n + 1
      BY <1>1, <2>1, <2>2, IncreasingAppend, SMTT(30) DEF InOrder
    <3>2. /\ heard < n + 1 /\ heard \in 0..n + 1
          /\ \A i \in DOMAIN queue : queue[i] < n + 1
      BY <1>1
    <3>3. \A j \in DOMAIN pending' :
            heard < pending'[j] /\ \A i \in DOMAIN queue : queue[i] < pending'[j]
      BY <3>1, <3>2 DEF InOrder
    <3> QED BY <2>1, <2>2, <3>1, <3>2, <3>3 DEF InOrder, EventTypes
  <2>3. CASE ~Buffering /\ Flows(Append(queue, e)) /\ UNCHANGED pending
    <3> DEFINE q == Append(queue, e)
    <3>1. /\ q \in Seq(1..n + 1) /\ Increasing(q) /\ Len(q) = Len(queue) + 1
          /\ q[1] = IF queue = <<>> THEN n + 1 ELSE queue[1]
      BY <1>1, <2>1, IncreasingAppend DEF InOrder
    <3>2. Len(q) # 0
      <4>1. Len(queue) \in Nat
        BY <1>1
      <4> HIDE DEF q
      <4> QED BY <3>1, <4>1
    <3> HIDE DEF q
    <3>6. q # <<>>
      BY <3>2
    <3>3. queue' = q /\ pending' = <<>>
      BY <2>3 DEF Flows, q
    <3>4. /\ drainer' # NoTask /\ heard' = q[1]
          /\ heard' # heard => heard' > heard
      <4>1. CASE drainer = NoTask
        BY <1>1, <2>1, <2>3, <3>1, <4>1 DEF Flows, InOrder, q
      <4>2. CASE drainer # NoTask
        <5>1. UNCHANGED <<drainer, heard>> /\ queue # <<>> /\ heard = queue[1]
          BY <2>3, <4>2 DEF Flows, InOrder
        <5> QED BY <3>1, <4>2, <5>1
      <4> QED BY <4>1, <4>2
    <3>5. heard' \in 0..n + 1
      <4>1. heard' \in 1..n + 1
        BY <1>1, <1>2, <2>1, <3>1, <3>4
      <4> QED BY <1>1, <4>1
    <3> QED
      BY <1>2, <1>4, <2>1, <3>1, <3>2, <3>3, <3>4, <3>5, <3>6 DEF EventTypes, InOrder
  <2> QED BY <1>6, <2>2, <2>3 DEF NewEvent
<1> QED BY <1>5, <1>6 DEF EventMove

\* The same of the steps that the actions take.
TaskLands(t) ==
  /\ Ends(t) => Lands(t, "idle", "start", "call")
  /\ Goes(t, "rearming") => Lands(t, "rearming", at[t].kind, at[t].back)
  /\ \A to \in {"startup", "failure", "call"} :
       GoesFor(t, "rearm", to) => Lands(t, "rearm", at[t].kind, to)
  /\ Served(t) => \/ at[t].kind = "start" /\ Lands(t, "idle", "start", "call")
                  \/ at[t].kind # "start" /\ Lands(t, "handler", at[t].kind, "call")
  /\ \A call \in Kinds :
       /\ Attempts(t, call) => /\ Lands(t, "hooks", call, "call")
                               /\ attempt' = Len(fate) + 1 /\ fate' = Append(fate, "pending")
                               /\ owner' = t /\ starting' = TRUE /\ ready' = ready
       /\ Joins(t, call) => Lands(t, "join", call, "call") /\ UNCHANGED life

\* It follows from Landing.
LEMMA TaskLanding ==
  ASSUME AtType, attempt \in Nat, NEW t \in Tasks
  PROVE  TaskLands(t)
BY Landing DEF TaskLands, Places, Returns

\* What a step does to the startup: nothing, an attempt begins, its owner leaves the
\* hooks, or the attempt is over.
StartMove(t) ==
  /\ \A u \in Tasks \ {t} :
       at'[u] = at[u] \/ (at[u].pc = "joinDispose" /\ at'[u] = Idle)
  /\ \/ /\ UNCHANGED <<owner, starting>> /\ (StartsUp(t)' <=> StartsUp(t))
        /\ at'[t].pc = "hooks" <=> at[t].pc = "hooks"
     \/ /\ owner = NoTask /\ owner' = t /\ starting' = TRUE
        /\ at'[t].pc = "hooks"
     \/ /\ owner = t /\ UNCHANGED owner /\ StartsUp(t)' /\ starting' = FALSE
        /\ at'[t].pc # "hooks"
     \/ /\ owner = t /\ owner' = NoTask /\ ~StartsUp(t)' /\ starting' = FALSE
  /\ (owner' # NoTask \/ ready') => attempt' # NoAttempt
  /\ ready' => /\ ~(at'[t].pc \in Passing /\ at'[t].back = "failure")
               /\ ready \/ owner = t

\* Each action, told as a move of the startup.
LEMMA StartMoves ==
  ASSUME RuntimeInv, [Next]_vars
  PROVE  UNCHANGED vars \/ \E t \in Tasks : StartMove(t)
<1>0. /\ StartInv /\ PlaceInv /\ DisposalInv /\ AtType
      /\ attempt \in Nat /\ Len(fate) \in Nat /\ Len(done) + 1 \in Nat
      /\ pending # <<>> => pending[Len(pending)] \in Nat
      /\ ready \in BOOLEAN /\ starting \in BOOLEAN
      /\ \A t \in Tasks : at[t].kind \in Kinds /\ t # NoTask
  BY RuntimeAssumption, SMTT(30) DEF RuntimeInv, TypeOK, AtType
<1>a. \A t \in Tasks : TaskLands(t)
  BY <1>0, TaskLanding
<1>b. \A t \in Tasks : /\ StartsUp(t) /\ at[t].pc # "hooks" => ~starting
                       /\ at[t].pc = "hooks" => starting
  BY <1>0 DEF StartInv, StartsUp
<1> USE DEF StartMove, StartInv, StartsUp, Lands, DrainsTo, TaskLands, Passing,
       life, NoAttempt
<1>1. ASSUME NEW t \in Tasks, Call(t) PROVE StartMove(t)
  BY <1>0, <1>a, <1>b, CallMoves, <1>1
<1>2. ASSUME NEW t \in Tasks, Emit(t) PROVE StartMove(t)
  BY <1>0, <1>a, <1>b, EmitMoves, <1>2 DEF Buffering
<1>3. ASSUME NEW t \in Tasks, Dispose(t) PROVE StartMove(t)
  BY <1>0, <1>a, <1>b, DisposalLands, <1>3 DEF Dispose, events, alarms
<1>4. ASSUME NEW t \in Tasks, Joined(t) PROVE StartMove(t)
  BY <1>0, <1>a, <1>b, <1>4 DEF Joined, events, alarms
<1>5. ASSUME NEW t \in Tasks, HooksReturn(t) PROVE StartMove(t)
  BY <1>0, <1>a, <1>b, HooksMove, <1>5 DEF Readies, Settles, events, alarms
<1>6. ASSUME NEW t \in Tasks, HooksRaise(t) PROVE StartMove(t)
  BY <1>0, <1>a, <1>b, <1>6 DEF HooksRaise, FailsStart, alarms, Settles
<1>7. ASSUME NEW t \in Tasks, HookPushes(t) PROVE StartMove(t)
  BY <1>0, <1>a, <1>b, <1>7 DEF HookPushes, events
<1>8. ASSUME NEW t \in Tasks, ListenerEmits(t) PROVE StartMove(t)
  BY <1>0, <1>a, <1>b, <1>8 DEF ListenerEmits, alarms
<1>9. ASSUME NEW t \in Tasks, Delivered(t) PROVE StartMove(t)
  BY <1>0, <1>a, <1>b, <1>9 DEF Delivered, Continues, alarms, Readies, Settles
<1>10. ASSUME NEW t \in Tasks, DrainCancelled(t) PROVE StartMove(t)
  BY <1>0, <1>a, <1>b, <1>10 DEF DrainCancelled, Raises, alarms, FailsStart,
     Settles
<1>11. ASSUME NEW t \in Tasks, Answered(t) PROVE StartMove(t)
  BY <1>0, <1>a, <1>b, <1>11 DEF Answered, Continues, Raises, alarms, Readies,
     FailsStart, Settles
<1>12. ASSUME NEW t \in Tasks, WaitCancelled(t) PROVE StartMove(t)
  BY <1>0, <1>a, <1>b, <1>12 DEF WaitCancelled, Raises, alarms, FailsStart,
     Settles
<1>13. ASSUME NEW t \in Tasks, Push(t) PROVE StartMove(t)
  BY <1>0, <1>a, <1>b, <1>13 DEF Push, AsksRearm, events
<1>14. ASSUME NEW t \in Tasks, StartsAgain(t) PROVE StartMove(t)
  BY <1>0, <1>a, <1>b, <1>14 DEF StartsAgain, events, alarms
<1>15. ASSUME NEW t \in Tasks, Rearm(t) PROVE StartMove(t)
  BY <1>0, <1>a, <1>b, <1>15 DEF Rearm, events
<1>16. ASSUME NEW t \in Tasks, Rearmed(t) PROVE StartMove(t)
  BY <1>0, <1>a, <1>b, <1>16 DEF Rearmed, Settles, Continues, events, Readies
<1>17. ASSUME NEW t \in Tasks, RearmRaises(t) PROVE StartMove(t)
  BY <1>0, <1>a, <1>b, <1>17 DEF RearmRaises, FailsStart, Settles
<1>18. ASSUME NEW t \in Tasks, Handled(t) PROVE StartMove(t)
  BY <1>0, <1>a, <1>b, <1>18 DEF Handled, events, alarms
<1>19. ASSUME NEW t \in Tasks, DisposeBegins(t) PROVE StartMove(t)
  <2>1. at[t].pc = "disposeWait" /\ UNCHANGED life
    BY <1>19 DEF DisposeBegins
  <2>2. CASE Lands(t, "disposeHooks", at[t].kind, at[t].back)
    BY <1>0, <2>1, <2>2
  <2>3. CASE /\ at'[t] = Idle
             /\ \A u \in Tasks \ {t} :
                  at'[u] = IF at[u].pc = "joinDispose" THEN Idle ELSE at[u]
    BY <1>0, <2>1, <2>3 DEF Idle
  <2> QED BY <1>0, <1>19, <2>2, <2>3, DisposalLands
<1>20. ASSUME NEW t \in Tasks, DisposeCancelsJob(t) PROVE StartMove(t)
  BY <1>0, <1>a, <1>b, <1>20 DEF DisposeCancelsJob, events
<1>21. ASSUME NEW t \in Tasks, Disposes(t) PROVE StartMove(t)
  BY <1>0, <1>a, <1>b, DisposalLands, <1>21 DEF Idle, Disposes, events
<1> QED
  BY <1>1, <1>2, <1>3, <1>4, <1>5, <1>6, <1>7, <1>8, <1>9, <1>10, <1>11, <1>12,
     <1>13, <1>14, <1>15, <1>16, <1>17, <1>18, <1>19, <1>20, <1>21 DEF Next

\* The startup keeps to its invariant.
LEMMA StartStep ==
  ASSUME RuntimeInv, [Next]_vars
  PROVE  StartInv'
<1>0. StartInv /\ \A t \in Tasks : t # NoTask
  BY RuntimeAssumption DEF RuntimeInv
<1>1. ASSUME UNCHANGED vars PROVE StartInv'
  BY <1>0, <1>1 DEF StartInv, StartsUp, vars, life
<1>2. ASSUME NEW t \in Tasks, StartMove(t) PROVE StartInv'
  <2>1. \A u \in Tasks \ {t} :
          /\ StartsUp(u)' <=> StartsUp(u)
          /\ at'[u].pc = "hooks" <=> at[u].pc = "hooks"
          /\ at'[u].pc \in Passing => at'[u] = at[u]
    BY <1>2 DEF StartMove, StartsUp, Passing, Idle
  <2>2. \A u \in Tasks : StartsUp(u)' <=> owner' = u
    BY <1>0, <1>2, <2>1 DEF StartMove, StartInv, StartsUp
  <2>3. starting' <=> \E u \in Tasks : at'[u].pc = "hooks"
    BY <1>0, <1>2, <2>1 DEF StartMove, StartInv, StartsUp
  <2>4. (owner' # NoTask => attempt' # NoAttempt) /\ (ready' => attempt' # NoAttempt)
    BY <1>2 DEF StartMove
  <2>5. \A u \in Tasks : at'[u].pc \in Passing /\ at'[u].back = "failure" => ~ready'
    BY <1>0, <1>2, <2>1 DEF StartMove, StartInv, StartsUp
  <2> QED BY <2>2, <2>3, <2>4, <2>5 DEF StartInv
<1> QED BY <1>1, <1>2, StartMoves

\* What a step does to the places: its task is where its kind may be, and takes or
\* leaves the lock and the drain as it goes there or away.
PlaceMove(t) ==
  /\ \A u \in Tasks \ {t} :
       at'[u] = at[u] \/ (at[u].pc = "joinDispose" /\ at'[u] = Idle)
  /\ at'[t].pc \in Working => at'[t].kind # "dispose"
  /\ at'[t].pc \in Disposing => at'[t].kind = "dispose"
  /\ \/ UNCHANGED lock /\ (at'[t].pc = "rearming" <=> at[t].pc = "rearming")
     \/ lock = NoTask /\ lock' = t /\ at'[t].pc = "rearming"
     \/ lock = t /\ lock' = NoTask /\ at'[t].pc # "rearming"
  /\ \/ UNCHANGED drainer /\ (at'[t].pc = "drain" <=> at[t].pc = "drain")
     \/ drainer = NoTask /\ drainer' = t /\ at'[t].pc = "drain"
     \/ drainer = t /\ drainer' = NoTask /\ at'[t].pc # "drain"

\* Each action, told as a move between places.
LEMMA PlaceMoves ==
  ASSUME RuntimeInv, [Next]_vars
  PROVE  UNCHANGED vars \/ \E t \in Tasks : PlaceMove(t)
<1>0. /\ StartInv /\ PlaceInv /\ DisposalInv /\ AtType
      /\ attempt \in Nat /\ Len(fate) \in Nat /\ Len(done) + 1 \in Nat
      /\ pending # <<>> => pending[Len(pending)] \in Nat
      /\ ready \in BOOLEAN /\ starting \in BOOLEAN
      /\ \A t \in Tasks : at[t].kind \in Kinds /\ t # NoTask
  BY RuntimeAssumption, SMTT(30) DEF RuntimeInv, TypeOK, AtType
<1>a. \A t \in Tasks : TaskLands(t)
  BY <1>0, TaskLanding
<1> USE DEF PlaceMove, PlaceInv, Lands, DrainsTo, TaskLands, Working,
       Disposing, events, alarms
<1>1. ASSUME NEW t \in Tasks, Call(t) PROVE PlaceMove(t)
  <2>1. UNCHANGED <<lock, drainer>> /\ at[t].pc = "idle"
    BY <1>1 DEF Call
  <2>2. \E place \in {"handler", "join", "hooks"}, call \in Kinds \ {"dispose"} :
          Lands(t, place, call, "call")
    BY <1>0, <1>a, CallMoves, <1>1
  <2> QED BY <2>1, <2>2
<1>2. ASSUME NEW t \in Tasks, Emit(t) PROVE PlaceMove(t)
  BY <1>0, <1>a, EmitMoves, <1>2
<1>3. ASSUME NEW t \in Tasks, Dispose(t) PROVE PlaceMove(t)
  BY <1>0, <1>a, DisposalLands, <1>3 DEF Dispose
<1>4. ASSUME NEW t \in Tasks, Joined(t) PROVE PlaceMove(t)
  BY <1>0, <1>a, <1>4 DEF Joined
<1>5. ASSUME NEW t \in Tasks, HooksReturn(t) PROVE PlaceMove(t)
  BY <1>0, <1>a, HooksMove, <1>5, ZenonT(30) DEF Readies
<1>6. ASSUME NEW t \in Tasks, HooksRaise(t) PROVE PlaceMove(t)
  BY <1>0, <1>a, <1>6 DEF HooksRaise, FailsStart
<1>7. ASSUME NEW t \in Tasks, HookPushes(t) PROVE PlaceMove(t)
  BY <1>0, <1>a, <1>7 DEF HookPushes
<1>8. ASSUME NEW t \in Tasks, ListenerEmits(t) PROVE PlaceMove(t)
  BY <1>0, <1>a, <1>8 DEF ListenerEmits
<1>9. ASSUME NEW t \in Tasks, Delivered(t) PROVE PlaceMove(t)
  BY <1>0, <1>a, <1>9 DEF Delivered, Continues, Readies
<1>10. ASSUME NEW t \in Tasks, DrainCancelled(t) PROVE PlaceMove(t)
  BY <1>0, <1>a, <1>10 DEF DrainCancelled, Raises, FailsStart
<1>11. ASSUME NEW t \in Tasks, Answered(t) PROVE PlaceMove(t)
  BY <1>0, <1>a, <1>11 DEF Answered, Continues, Raises, Readies, FailsStart
<1>12. ASSUME NEW t \in Tasks, WaitCancelled(t) PROVE PlaceMove(t)
  BY <1>0, <1>a, <1>12 DEF WaitCancelled, Raises, FailsStart
<1>13. ASSUME NEW t \in Tasks, Push(t) PROVE PlaceMove(t)
  BY <1>0, <1>a, <1>13 DEF Push, AsksRearm
<1>14. ASSUME NEW t \in Tasks, StartsAgain(t) PROVE PlaceMove(t)
  BY <1>0, <1>a, <1>14 DEF StartsAgain
<1>15. ASSUME NEW t \in Tasks, Rearm(t) PROVE PlaceMove(t)
  BY <1>0, <1>a, <1>15 DEF Rearm
<1>16. ASSUME NEW t \in Tasks, Rearmed(t) PROVE PlaceMove(t)
  BY <1>0, <1>a, <1>16 DEF Rearmed, Continues, Readies
<1>17. ASSUME NEW t \in Tasks, RearmRaises(t) PROVE PlaceMove(t)
  BY <1>0, <1>a, <1>17 DEF RearmRaises, FailsStart
<1>18. ASSUME NEW t \in Tasks, Handled(t) PROVE PlaceMove(t)
  BY <1>0, <1>a, <1>18 DEF Handled
<1>19. ASSUME NEW t \in Tasks, DisposeBegins(t) PROVE PlaceMove(t)
  <2>1. at[t].pc = "disposeWait" /\ UNCHANGED <<lock, drainer>>
    BY <1>19 DEF DisposeBegins
  <2>2. CASE Lands(t, "disposeHooks", at[t].kind, at[t].back)
    BY <1>0, <2>1, <2>2
  <2>3. CASE /\ at'[t] = Idle
             /\ \A u \in Tasks \ {t} :
                  at'[u] = IF at[u].pc = "joinDispose" THEN Idle ELSE at[u]
    BY <1>0, <2>1, <2>3 DEF Idle
  <2> QED BY <1>0, <1>19, <2>2, <2>3, DisposalLands
<1>20. ASSUME NEW t \in Tasks, DisposeCancelsJob(t) PROVE PlaceMove(t)
  BY <1>0, <1>a, <1>20 DEF DisposeCancelsJob
<1>21. ASSUME NEW t \in Tasks, Disposes(t) PROVE PlaceMove(t)
  BY <1>0, <1>a, DisposalLands, <1>21 DEF Idle, Disposes
<1> QED
  BY <1>1, <1>2, <1>3, <1>4, <1>5, <1>6, <1>7, <1>8, <1>9, <1>10, <1>11, <1>12,
     <1>13, <1>14, <1>15, <1>16, <1>17, <1>18, <1>19, <1>20, <1>21 DEF Next

\* The places keep to their invariant.
LEMMA PlaceStep ==
  ASSUME RuntimeInv, [Next]_vars
  PROVE  PlaceInv'
<1>0. PlaceInv /\ \A t \in Tasks : t # NoTask
  BY RuntimeAssumption DEF RuntimeInv
<1>1. ASSUME UNCHANGED vars PROVE PlaceInv'
  BY <1>0, <1>1 DEF PlaceInv, vars, events, alarms
<1>2. ASSUME NEW t \in Tasks, PlaceMove(t) PROVE PlaceInv'
  <2>1. \A u \in Tasks \ {t} :
          /\ at'[u].pc \in Working \cup Disposing => at'[u] = at[u]
          /\ at'[u].pc = "rearming" <=> at[u].pc = "rearming"
          /\ at'[u].pc = "drain" <=> at[u].pc = "drain"
    BY <1>2 DEF PlaceMove, Working, Disposing, Idle
  <2>2. \A u \in Tasks : /\ at'[u].pc \in Working => at'[u].kind # "dispose"
                         /\ at'[u].pc \in Disposing => at'[u].kind = "dispose"
    BY <1>0, <1>2, <2>1 DEF PlaceMove, PlaceInv
  <2>3. \A u \in Tasks : at'[u].pc = "rearming" <=> lock' = u
    BY <1>0, <1>2, <2>1 DEF PlaceMove, PlaceInv
  <2>4. \A u \in Tasks : at'[u].pc = "drain" <=> drainer' = u
    BY <1>0, <1>2, <2>1 DEF PlaceMove, PlaceInv
  <2> QED BY <2>2, <2>3, <2>4 DEF PlaceInv
<1> QED BY <1>1, <1>2, PlaceMoves

\* The buffer is flushed or dropped as the startup ends.
LEMMA BufferStep ==
  ASSUME RuntimeInv, [Next]_vars
  PROVE  BufferOpen'
<1>0. /\ BufferOpen
      /\ StartInv /\ PlaceInv /\ DisposalInv /\ AtType
      /\ attempt \in Nat /\ Len(fate) \in Nat /\ Len(done) + 1 \in Nat
      /\ pending # <<>> => pending[Len(pending)] \in Nat
      /\ ready \in BOOLEAN /\ starting \in BOOLEAN
      /\ \A t \in Tasks : at[t].kind \in Kinds /\ t # NoTask
  <2>1. BufferOpen /\ StartInv /\ PlaceInv /\ DisposalInv
    BY DEF RuntimeInv, EventInv
  <2>2. AtType /\ ready \in BOOLEAN /\ starting \in BOOLEAN
    BY DEF RuntimeInv, TypeOK, AtType
  <2>3. /\ pending \in Seq(DOMAIN done)
        /\ fate \in Seq({"pending", "done", "failed"}) /\ attempt \in 0..Len(fate)
        /\ done \in Seq({"buffered", "waiting", "delivered", "failed"})
    BY DEF RuntimeInv, TypeOK
  <2>4. attempt \in Nat /\ Len(fate) \in Nat /\ Len(done) \in Nat /\ DOMAIN done \subseteq Nat
    BY <2>3
  <2>5. pending # <<>> => pending[Len(pending)] \in Nat
    BY <2>3, <2>4
  <2>6. \A t \in Tasks : at[t].kind \in Kinds /\ t # NoTask
    BY <2>2, RuntimeAssumption DEF AtType
  <2> QED BY <2>1, <2>2, <2>4, <2>5, <2>6
<1>a. \A t \in Tasks : TaskLands(t)
  BY <1>0, TaskLanding
<1>b. \A t \in Tasks : StartsUp(t) /\ at[t].pc # "hooks" => pending = <<>>
  BY <1>0 DEF StartInv, StartsUp, BufferOpen, Buffering
<1> USE DEF BufferOpen, Buffering, StartsUp, Passing, life, events, NoAttempt,
       TaskLands
<1>1. ASSUME NEW t \in Tasks, Call(t) PROVE BufferOpen'
  <2>1. UNCHANGED pending
    BY <1>1 DEF Call
  <2> QED BY <1>0, <1>a, <2>1, CallMoves, <1>1
<1>2. ASSUME NEW t \in Tasks, Emit(t) PROVE BufferOpen'
  <2>1. CASE Buffering
    BY <1>0, <1>2, <2>1 DEF Emit
  <2>2. CASE ~Buffering
    BY <1>0, <1>2, <2>2 DEF Emit
  <2> QED BY <2>1, <2>2
<1>3. ASSUME NEW t \in Tasks, Dispose(t) PROVE BufferOpen'
  BY <1>0, <1>a, <1>b, DisposalLands, <1>3 DEF Dispose, alarms
<1>4. ASSUME NEW t \in Tasks, Joined(t) PROVE BufferOpen'
  BY <1>0, <1>a, <1>b, <1>4 DEF Joined, alarms
<1>5. ASSUME NEW t \in Tasks, HooksReturn(t) PROVE BufferOpen'
  BY <1>0, <1>a, <1>b, HooksMove, <1>5 DEF Readies, Settles
<1>6. ASSUME NEW t \in Tasks, HooksRaise(t) PROVE BufferOpen'
  BY <1>0, <1>a, <1>b, <1>6 DEF HooksRaise, FailsStart, alarms, Settles
<1>7. ASSUME NEW t \in Tasks, HookPushes(t) PROVE BufferOpen'
  BY <1>0, <1>a, <1>b, <1>7 DEF HookPushes
<1>8. ASSUME NEW t \in Tasks, ListenerEmits(t) PROVE BufferOpen'
  BY <1>0, <1>a, <1>b, <1>8 DEF ListenerEmits, alarms
<1>9. ASSUME NEW t \in Tasks, Delivered(t) PROVE BufferOpen'
  BY <1>0, <1>a, <1>b, <1>9 DEF Delivered, Continues, alarms, Readies, Settles
<1>10. ASSUME NEW t \in Tasks, DrainCancelled(t) PROVE BufferOpen'
  BY <1>0, <1>a, <1>b, <1>10 DEF DrainCancelled, Raises, alarms, FailsStart,
     Settles
<1>11. ASSUME NEW t \in Tasks, Answered(t) PROVE BufferOpen'
  BY <1>0, <1>a, <1>b, <1>11 DEF Answered, Continues, Raises, alarms, Readies,
     FailsStart, Settles
<1>12. ASSUME NEW t \in Tasks, WaitCancelled(t) PROVE BufferOpen'
  BY <1>0, <1>a, <1>b, <1>12 DEF WaitCancelled, Raises, alarms, FailsStart,
     Settles
<1>13. ASSUME NEW t \in Tasks, Push(t) PROVE BufferOpen'
  BY <1>0, <1>a, <1>b, <1>13 DEF Push, AsksRearm
<1>14. ASSUME NEW t \in Tasks, StartsAgain(t) PROVE BufferOpen'
  BY <1>0, <1>a, <1>b, <1>14 DEF StartsAgain, alarms
<1>15. ASSUME NEW t \in Tasks, Rearm(t) PROVE BufferOpen'
  BY <1>0, <1>a, <1>b, <1>15 DEF Rearm
<1>16. ASSUME NEW t \in Tasks, Rearmed(t) PROVE BufferOpen'
  BY <1>0, <1>a, <1>b, <1>16 DEF Rearmed, Settles, Continues, Readies
<1>17. ASSUME NEW t \in Tasks, RearmRaises(t) PROVE BufferOpen'
  BY <1>0, <1>a, <1>b, <1>17 DEF RearmRaises, FailsStart, Settles
<1>18. ASSUME NEW t \in Tasks, Handled(t) PROVE BufferOpen'
  BY <1>0, <1>a, <1>b, <1>18 DEF Handled, alarms
<1>19. ASSUME NEW t \in Tasks, DisposeBegins(t) PROVE BufferOpen'
  BY <1>0, <1>a, <1>b, DisposalLands, <1>19 DEF DisposeBegins
<1>20. ASSUME NEW t \in Tasks, DisposeCancelsJob(t) PROVE BufferOpen'
  BY <1>0, <1>a, <1>b, <1>20 DEF DisposeCancelsJob
<1>21. ASSUME NEW t \in Tasks, Disposes(t) PROVE BufferOpen'
  BY <1>0, <1>a, <1>b, DisposalLands, <1>21 DEF Disposes
<1>22. CASE UNCHANGED vars
  BY <1>0, <1>a, <1>b, <1>22 DEF vars
<1> QED
  BY <1>1, <1>2, <1>3, <1>4, <1>5, <1>6, <1>7, <1>8, <1>9, <1>10, <1>11, <1>12,
     <1>13, <1>14, <1>15, <1>16, <1>17, <1>18, <1>19, <1>20, <1>21, <1>22 DEF Next

\* What a step does to the disposal: an operation's goes on while none begins, nothing
\* moves, one is called, is given up or done for all, or begins.
DisposalMove(t) ==
  \/ /\ UNCHANGED <<phase, disabled>>
     /\ at[t].pc \in Working \/ (at[t].pc = "idle" /\ phase = "active")
     /\ at'[t].pc \notin Disposing /\ \A u \in Tasks \ {t} : at'[u] = at[u]
  \/ UNCHANGED <<phase, disabled, at>>
  \/ /\ at[t].pc = "idle" /\ phase # "disposed" /\ phase' = "disposing"
     /\ UNCHANGED disabled
     /\ at'[t].pc = IF phase = "active" THEN "disposeWait" ELSE "joinDispose"
     /\ at'[t].kind = "dispose" /\ \A u \in Tasks \ {t} : at'[u] = at[u]
  \/ /\ at[t].pc \in {"disposeWait", "disposeHooks"} /\ at'[t] = Idle
     /\ \A u \in Tasks \ {t} :
          at'[u] = IF at[u].pc = "joinDispose" THEN Idle ELSE at[u]
     /\ UNCHANGED disabled
     /\ \/ at[t].pc = "disposeWait" /\ phase' = "active"
        \/ at[t].pc = "disposeHooks" /\ phase' = "disposed"
  \/ /\ at[t].pc = "disposeWait" /\ at'[t].pc = "disposeHooks"
     /\ at'[t].kind = at[t].kind
     /\ \A u \in Tasks \ {t} : at'[u] = at[u]
     /\ OperationsIdle /\ disabled' = TRUE /\ UNCHANGED phase

\* Each action, told as a move of the disposal.
LEMMA DisposalMoves ==
  ASSUME RuntimeInv, [Next]_vars
  PROVE  UNCHANGED vars \/ \E t \in Tasks : DisposalMove(t)
<1>0. /\ StartInv /\ PlaceInv /\ DisposalInv /\ AtType
      /\ attempt \in Nat /\ Len(fate) \in Nat /\ Len(done) + 1 \in Nat
      /\ pending # <<>> => pending[Len(pending)] \in Nat
      /\ ready \in BOOLEAN /\ starting \in BOOLEAN
      /\ \A t \in Tasks : at[t].kind \in Kinds /\ t # NoTask
  BY RuntimeAssumption, SMTT(30) DEF RuntimeInv, TypeOK, AtType
<1>a. \A t \in Tasks : TaskLands(t)
  BY <1>0, TaskLanding
<1> USE DEF DisposalMove, Lands, DrainsTo, TaskLands, Working, Disposing,
       alarms
<1>1. ASSUME NEW t \in Tasks, Call(t) PROVE DisposalMove(t)
  <2>1. UNCHANGED <<phase, disabled>> /\ at[t].pc = "idle" /\ phase = "active"
    BY <1>1 DEF Call
  <2>2. \E place \in {"handler", "join", "hooks"}, call \in Kinds \ {"dispose"} :
          Lands(t, place, call, "call")
    BY <1>0, <1>a, CallMoves, <1>1
  <2> QED BY <2>1, <2>2
<1>2. ASSUME NEW t \in Tasks, Emit(t) PROVE DisposalMove(t)
  BY <1>0, <1>a, EmitMoves, <1>2
<1>3. ASSUME NEW t \in Tasks, Dispose(t) PROVE DisposalMove(t)
  <2>1. Lands(t, IF phase = "active" THEN "disposeWait" ELSE "joinDispose", "dispose", "call")
    BY <1>0, DisposalLands, <1>3
  <2> QED BY <2>1, <1>3 DEF Dispose
<1>4. ASSUME NEW t \in Tasks, Joined(t) PROVE DisposalMove(t)
  BY <1>0, <1>a, <1>4 DEF Joined
<1>5. ASSUME NEW t \in Tasks, HooksReturn(t) PROVE DisposalMove(t)
  BY <1>0, <1>a, HooksMove, <1>5 DEF Readies
<1>6. ASSUME NEW t \in Tasks, HooksRaise(t) PROVE DisposalMove(t)
  BY <1>0, <1>a, <1>6 DEF HooksRaise, FailsStart
<1>7. ASSUME NEW t \in Tasks, HookPushes(t) PROVE DisposalMove(t)
  BY <1>0, <1>a, <1>7 DEF HookPushes
<1>8. ASSUME NEW t \in Tasks, ListenerEmits(t) PROVE DisposalMove(t)
  BY <1>0, <1>a, <1>8 DEF ListenerEmits
<1>9. ASSUME NEW t \in Tasks, Delivered(t) PROVE DisposalMove(t)
  BY <1>0, <1>a, <1>9 DEF Delivered, Continues, Readies
<1>10. ASSUME NEW t \in Tasks, DrainCancelled(t) PROVE DisposalMove(t)
  BY <1>0, <1>a, <1>10 DEF DrainCancelled, Raises, FailsStart
<1>11. ASSUME NEW t \in Tasks, Answered(t) PROVE DisposalMove(t)
  BY <1>0, <1>a, <1>11 DEF Answered, Continues, Raises, Readies, FailsStart
<1>12. ASSUME NEW t \in Tasks, WaitCancelled(t) PROVE DisposalMove(t)
  BY <1>0, <1>a, <1>12 DEF WaitCancelled, Raises, FailsStart
<1>13. ASSUME NEW t \in Tasks, Push(t) PROVE DisposalMove(t)
  BY <1>0, <1>a, <1>13 DEF Push, AsksRearm
<1>14. ASSUME NEW t \in Tasks, StartsAgain(t) PROVE DisposalMove(t)
  BY <1>0, <1>a, <1>14 DEF StartsAgain
<1>15. ASSUME NEW t \in Tasks, Rearm(t) PROVE DisposalMove(t)
  BY <1>0, <1>a, <1>15 DEF Rearm
<1>16. ASSUME NEW t \in Tasks, Rearmed(t) PROVE DisposalMove(t)
  BY <1>0, <1>a, <1>16 DEF Rearmed, Continues, Readies
<1>17. ASSUME NEW t \in Tasks, RearmRaises(t) PROVE DisposalMove(t)
  BY <1>0, <1>a, <1>17 DEF RearmRaises, FailsStart
<1>18. ASSUME NEW t \in Tasks, Handled(t) PROVE DisposalMove(t)
  BY <1>0, <1>a, <1>18 DEF Handled
<1>19. ASSUME NEW t \in Tasks, DisposeBegins(t) PROVE DisposalMove(t)
  <2>1. at[t].pc = "disposeWait" /\ OperationsIdle
    BY <1>19 DEF DisposeBegins
  <2>2. CASE /\ Lands(t, "disposeHooks", at[t].kind, at[t].back)
             /\ disabled' = TRUE /\ UNCHANGED phase
    BY <2>1, <2>2
  <2>3. CASE /\ at'[t] = Idle /\ phase' = "active" /\ UNCHANGED disabled
             /\ \A u \in Tasks \ {t} :
                  at'[u] = IF at[u].pc = "joinDispose" THEN Idle ELSE at[u]
    BY <2>1, <2>3
  <2>4. ~Disposes(t)
    BY <2>1 DEF Disposes
  <2> QED BY <1>0, <1>19, <2>2, <2>3, <2>4, DisposalLands
<1>20. ASSUME NEW t \in Tasks, DisposeCancelsJob(t) PROVE DisposalMove(t)
  BY <1>0, <1>a, <1>20 DEF DisposeCancelsJob
<1>21. ASSUME NEW t \in Tasks, Disposes(t) PROVE DisposalMove(t)
  <2>1. at[t].pc = "disposeHooks" /\ phase' = "disposed" /\ UNCHANGED disabled
    BY <1>21 DEF Disposes
  <2>2. ~DisposeBegins(t)
    BY <2>1 DEF DisposeBegins
  <2>3. /\ at'[t] = Idle
        /\ \A u \in Tasks \ {t} :
             at'[u] = IF at[u].pc = "joinDispose" THEN Idle ELSE at[u]
    BY <1>0, <1>21, <2>2, DisposalLands
  <2> QED BY <2>1, <2>3
<1> HIDE DEF DisposalMove
<1> QED
  BY <1>1, <1>2, <1>3, <1>4, <1>5, <1>6, <1>7, <1>8, <1>9, <1>10, <1>11, <1>12,
     <1>13, <1>14, <1>15, <1>16, <1>17, <1>18, <1>19, <1>20, <1>21 DEF Next

\* A task in an operation keeps a disposal from running its hooks.
LEMMA Undisturbed ==
  ASSUME PlaceInv, DisposalInv, NEW t \in Tasks,
         at[t].pc \in Working \/ phase = "active"
  PROVE  ~disabled
<1>1. CASE at[t].pc \in Working
  BY <1>1 DEF PlaceInv, DisposalInv, OperationsIdle, InOperation, Working
<1>2. CASE phase = "active"
  BY <1>2 DEF DisposalInv, Disposing
<1> QED BY <1>1, <1>2

\* The disposal keeps to its invariant.
LEMMA DisposalStep ==
  ASSUME RuntimeInv, [Next]_vars
  PROVE  DisposalInv'
<1>0. PlaceInv /\ DisposalInv /\ disabled \in BOOLEAN
  BY DEF RuntimeInv, TypeOK
<1>1. ASSUME UNCHANGED <<phase, disabled, at>> PROVE DisposalInv'
  BY <1>0, <1>1 DEF DisposalInv, OperationsIdle, InOperation
<1>2. ASSUME NEW t \in Tasks, DisposalMove(t) PROVE DisposalInv'
  <2>1. CASE /\ UNCHANGED <<phase, disabled>>
             /\ at[t].pc \in Working \/ (at[t].pc = "idle" /\ phase = "active")
             /\ at'[t].pc \notin Disposing /\ \A u \in Tasks \ {t} : at'[u] = at[u]
    <3>1. ~disabled
      BY <1>0, <2>1, Undisturbed
    <3>2. \A u \in Tasks : at'[u].pc \in Disposing => u # t /\ at'[u] = at[u]
      BY <2>1
    <3> QED BY <1>0, <2>1, <3>1, <3>2 DEF DisposalInv, Disposing
  <2>2. CASE /\ at[t].pc = "idle" /\ phase # "disposed" /\ phase' = "disposing"
             /\ UNCHANGED disabled
             /\ at'[t].pc = IF phase = "active" THEN "disposeWait" ELSE "joinDispose"
             /\ at'[t].kind = "dispose" /\ \A u \in Tasks \ {t} : at'[u] = at[u]
    <3>1. phase = "active" => \A u \in Tasks : at[u].pc \notin Disposing
      BY <1>0 DEF DisposalInv
    <3>2. disabled => OperationsIdle'
      BY <1>0, <2>2 DEF DisposalInv, OperationsIdle, InOperation
    <3> QED BY <1>0, <2>2, <3>1, <3>2 DEF DisposalInv, Disposing
  <2>3. CASE /\ at[t].pc \in {"disposeWait", "disposeHooks"} /\ at'[t] = Idle
             /\ \A u \in Tasks \ {t} :
                  at'[u] = IF at[u].pc = "joinDispose" THEN Idle ELSE at[u]
             /\ UNCHANGED disabled
             /\ \/ at[t].pc = "disposeWait" /\ phase' = "active"
                \/ at[t].pc = "disposeHooks" /\ phase' = "disposed"
    <3>1. \A u \in Tasks : at'[u].pc \notin Disposing
      BY <1>0, <2>3 DEF DisposalInv, Disposing, Idle
    <3>2. disabled => OperationsIdle'
      BY <1>0, <2>3 DEF DisposalInv, OperationsIdle, InOperation, Idle
    <3>3. disabled' <=> phase' = "disposed"
      BY <1>0, <2>3 DEF DisposalInv, Disposing
    <3> QED BY <2>3, <3>1, <3>2, <3>3 DEF DisposalInv, Disposing
  <2>4. CASE /\ at[t].pc = "disposeWait" /\ at'[t].pc = "disposeHooks"
             /\ at'[t].kind = at[t].kind
             /\ \A u \in Tasks \ {t} : at'[u] = at[u]
             /\ OperationsIdle /\ disabled' = TRUE /\ UNCHANGED phase
    <3>1. OperationsIdle'
      BY <2>4 DEF OperationsIdle, InOperation
    <3> QED BY <1>0, <2>4, <3>1 DEF DisposalInv, Disposing
  <2> QED BY <1>1, <1>2, <2>1, <2>2, <2>3, <2>4 DEF DisposalMove
<1> QED BY <1>1, <1>2, DisposalMoves DEF vars, alarms

\* What a step does to the alarm: it makes it the deadline, leaves a write owed, loses
\* one, or leaves the alarm and what is owed as they were.
OwedBy(t) == at[t].pc \in {"rearm", "disposeHooks"} \/ (rearmAsked /\ Early(t))
AlarmMove(t) ==
  \/ alarm' = Deadline(jobs')
  \/ \E u \in Tasks : OwedBy(u)'
  \/ lock' = NoTask /\ lost'
  \/ /\ UNCHANGED <<jobs, alarm>>
     /\ ~lost' \/ lock' # NoTask => ~lost \/ lock # NoTask
     /\ OwedBy(t) => OwedBy(t)'
     /\ \A u \in Tasks \ {t} : OwedBy(u) => at'[u] = at[u] /\ (Early(u) => rearmAsked')

\* Each action, told as a move of the alarm.
LEMMA AlarmMoves ==
  ASSUME RuntimeInv, [Next]_vars
  PROVE  UNCHANGED vars \/ \E t \in Tasks : AlarmMove(t)
<1>0. /\ StartInv /\ PlaceInv /\ DisposalInv /\ AtType
      /\ attempt \in Nat /\ Len(fate) \in Nat /\ Len(done) + 1 \in Nat
      /\ pending # <<>> => pending[Len(pending)] \in Nat
      /\ ready \in BOOLEAN /\ starting \in BOOLEAN
      /\ \A t \in Tasks : at[t].kind \in Kinds /\ t # NoTask
  BY RuntimeAssumption, SMTT(30) DEF RuntimeInv, TypeOK, AtType
<1>a. \A t \in Tasks : TaskLands(t)
  BY <1>0, TaskLanding
<1>b. \A t \in Tasks : at[t].pc \in Working => ~disabled
  BY <1>0, Undisturbed
<1>c. \A t, u \in Tasks : StartsUp(t) /\ Early(u) => t = u
  BY <1>0 DEF StartInv, StartsUp, Early, Passing
<1>d. starting => \E u \in Tasks : at[u].pc = "hooks"
  BY <1>0 DEF StartInv
<1>e. lost \in BOOLEAN /\ rearmAsked \in BOOLEAN
  BY DEF RuntimeInv, TypeOK
<1> USE DEF AlarmMove, OwedBy, StartsUp, Early, Passing, Lands, DrainsTo,
       TaskLands, Working, events
<1>1. ASSUME NEW t \in Tasks, Call(t) PROVE AlarmMove(t)
  <2>1. at[t].pc = "idle" /\ UNCHANGED <<jobs, alarm, lock, lost, rearmAsked>>
    BY <1>1 DEF Call, alarms
  <2>2. \E place \in {"handler", "join", "hooks"}, call \in Kinds \ {"dispose"} :
          Lands(t, place, call, "call")
    BY <1>0, <1>a, CallMoves, <1>1
  <2> QED BY <2>1, <2>2
<1>2. ASSUME NEW t \in Tasks, Emit(t) PROVE AlarmMove(t)
  <2>1. UNCHANGED <<jobs, alarm, lock, lost, rearmAsked>>
    BY <1>2 DEF Emit, alarms
  <2>2. CASE Buffering
    BY <1>0, <2>1, <2>2, EmitMoves, <1>2
  <2>3. CASE ~Buffering
    <3>1. at[t].pc \in {"idle", "handler"}
      BY <1>0, <2>3, EmitMoves, <1>2 DEF StartInv, Buffering
    <3>2. \E place \in {"drain", "await"}, call \in Kinds,
             to \in {"call", "handler"} :
            Lands(t, place, call, to)
      BY <1>0, <2>3, EmitMoves, <1>2 DEF Kinds
    <3> QED BY <2>1, <3>1, <3>2
  <2> QED BY <2>2, <2>3
<1>3. ASSUME NEW t \in Tasks, Dispose(t) PROVE AlarmMove(t)
  BY <1>0, <1>a, <1>b, <1>c, <1>e, DisposalLands, <1>3 DEF Dispose, alarms
<1>4. ASSUME NEW t \in Tasks, Joined(t) PROVE AlarmMove(t)
  BY <1>0, <1>a, <1>b, <1>c, <1>e, <1>4 DEF Joined, alarms
<1>5. ASSUME NEW t \in Tasks, HooksReturn(t) PROVE AlarmMove(t)
  BY <1>0, <1>a, <1>b, <1>c, <1>e, HooksMove, <1>5 DEF Readies, alarms
<1>6. ASSUME NEW t \in Tasks, HooksRaise(t) PROVE AlarmMove(t)
  BY <1>0, <1>a, <1>b, <1>c, <1>e, <1>6 DEF HooksRaise, FailsStart, alarms
<1>7. ASSUME NEW t \in Tasks, HookPushes(t) PROVE AlarmMove(t)
  BY <1>0, <1>a, <1>b, <1>c, <1>e, <1>7 DEF HookPushes
<1>8. ASSUME NEW t \in Tasks, ListenerEmits(t) PROVE AlarmMove(t)
  BY <1>0, <1>a, <1>b, <1>c, <1>e, <1>8 DEF ListenerEmits, alarms
<1>9. ASSUME NEW t \in Tasks, Delivered(t) PROVE AlarmMove(t)
  BY <1>0, <1>a, <1>b, <1>c, <1>e, <1>9 DEF Delivered, Continues, alarms,
     Readies
<1>10. ASSUME NEW t \in Tasks, DrainCancelled(t) PROVE AlarmMove(t)
  BY <1>0, <1>a, <1>b, <1>c, <1>e, <1>10 DEF DrainCancelled, Raises, alarms,
     FailsStart
<1>11. ASSUME NEW t \in Tasks, Answered(t) PROVE AlarmMove(t)
  BY <1>0, <1>a, <1>b, <1>c, <1>e, <1>11 DEF Answered, Continues, Raises,
     alarms, Readies, FailsStart
<1>12. ASSUME NEW t \in Tasks, WaitCancelled(t) PROVE AlarmMove(t)
  BY <1>0, <1>a, <1>b, <1>c, <1>e, <1>12 DEF WaitCancelled, Raises, alarms,
     FailsStart
<1>13. ASSUME NEW t \in Tasks, Push(t) PROVE AlarmMove(t)
  <2>1. at[t].pc = "handler" /\ ~disabled /\ AsksRearm(t)
    BY <1>b, <1>13 DEF Push
  <2>2. CASE Lands(t, "rearm", at[t].kind, "call")
    BY <2>2
  <2>3. CASE starting /\ rearmAsked' = TRUE /\ Lands(t, "idle", "start", "call")
    <3>1. PICK u \in Tasks : at[u].pc = "hooks"
      BY <1>d, <2>3
    <3>2. u # t /\ at'[u] = at[u]
      BY <2>1, <2>3, <3>1
    <3> QED BY <2>3, <3>1, <3>2
  <2> QED BY <1>0, <1>a, <1>e, <2>1, <2>2, <2>3 DEF AsksRearm
<1>14. ASSUME NEW t \in Tasks, StartsAgain(t) PROVE AlarmMove(t)
  BY <1>0, <1>a, <1>b, <1>c, <1>e, <1>14 DEF StartsAgain, alarms
<1>15. ASSUME NEW t \in Tasks, Rearm(t) PROVE AlarmMove(t)
  BY <1>0, <1>a, <1>b, <1>c, <1>e, <1>15 DEF Rearm
<1>16. ASSUME NEW t \in Tasks, Rearmed(t) PROVE AlarmMove(t)
  <2>1. /\ at[t].pc = "rearming" /\ lock = t /\ UNCHANGED <<jobs, alarm>>
        /\ lock # NoTask
        /\ rearmAsked' = (rearmAsked /\ at[t].back \notin {"startup", "failure"})
    BY <1>0, <1>16 DEF Rearmed, PlaceInv
  <2>2. CASE Lands(t, "rearm", at[t].kind, "startup")
    BY <2>2
  <2>3. CASE \A u \in Tasks \ {t} : at'[u] = at[u]
    <3>1. CASE at[t].back \in {"startup", "failure"}
      <4>1. \A u \in Tasks : ~Early(u)
        BY <1>c, <2>1, <3>1
      <4> HIDE DEF Early
      <4> QED BY <2>1, <2>3, <4>1
    <3>2. CASE at[t].back \notin {"startup", "failure"}
      BY <1>e, <2>1, <2>3, <3>2
    <3> QED BY <3>1, <3>2
  <2> QED BY <1>a, <2>2, <2>3, <1>16 DEF Rearmed, Continues, Readies
<1>17. ASSUME NEW t \in Tasks, RearmRaises(t) PROVE AlarmMove(t)
  <2>1. /\ at[t].pc = "rearming" /\ lock = t /\ lock # NoTask
        /\ lock' = NoTask /\ UNCHANGED jobs
        /\ lost' \in BOOLEAN /\ (~lost' => alarm' = alarm)
    BY <1>0, <1>17 DEF RearmRaises, PlaceInv
  <2>2. CASE Lands(t, "rearm", at[t].kind, "failure")
    BY <2>2
  <2>3. CASE rearmAsked' = rearmAsked /\ \A u \in Tasks \ {t} : at'[u] = at[u]
    BY <1>e, <2>1, <2>3
  <2> QED BY <1>a, <2>2, <2>3, <1>17 DEF RearmRaises, FailsStart
<1>18. ASSUME NEW t \in Tasks, Handled(t) PROVE AlarmMove(t)
  BY <1>0, <1>a, <1>b, <1>c, <1>e, <1>18 DEF Handled, alarms
<1>19. ASSUME NEW t \in Tasks, DisposeBegins(t) PROVE AlarmMove(t)
  BY <1>0, <1>a, <1>b, <1>c, <1>e, DisposalLands, <1>19 DEF DisposeBegins
<1>20. ASSUME NEW t \in Tasks, DisposeCancelsJob(t) PROVE AlarmMove(t)
  BY <1>0, <1>a, <1>b, <1>c, <1>e, <1>20 DEF DisposeCancelsJob
<1>21. ASSUME NEW t \in Tasks, Disposes(t) PROVE AlarmMove(t)
  <2>1. /\ at[t].pc = "disposeHooks" /\ UNCHANGED <<jobs, lock>>
        /\ alarm' = Deadline(jobs) \/ lost' = TRUE
    BY <1>21 DEF Disposes
  <2>2. lock = NoTask
    <3>1. disabled /\ lock \in Tasks \cup {NoTask}
      BY <2>1 DEF RuntimeInv, DisposalInv, TypeOK
    <3>2. \A u \in Tasks : at[u].pc # "rearming"
      BY <1>b, <3>1
    <3> QED BY <1>0, <3>1, <3>2 DEF PlaceInv
  <2> QED BY <2>1, <2>2
<1> HIDE DEF AlarmMove
<1> QED
  BY <1>1, <1>2, <1>3, <1>4, <1>5, <1>6, <1>7, <1>8, <1>9, <1>10, <1>11, <1>12,
     <1>13, <1>14, <1>15, <1>16, <1>17, <1>18, <1>19, <1>20, <1>21 DEF Next

\* The alarm keeps to its invariant.
LEMMA AlarmStep ==
  ASSUME RuntimeInv, [Next]_vars
  PROVE  AlarmInv'
<1>0. AlarmInv /\ lost \in BOOLEAN
  BY DEF RuntimeInv, TypeOK
<1>1. IsFiniteSet(jobs')
  <2>1. jobs' = jobs \/ \E time : jobs' = jobs \cup {time} \/ jobs' = jobs \ {time}
    BY DEF Next, vars, alarms, Call, Emit, Dispose, Joined, HooksReturn, HooksRaise,
       HookPushes, ListenerEmits, Delivered, DrainCancelled, Answered, WaitCancelled,
       Push, StartsAgain, Rearm, Rearmed, RearmRaises, Handled, DisposeBegins,
       DisposeCancelsJob, Disposes
  <2> QED BY <1>0, <2>1, FS_AddElement, FS_RemoveElement DEF AlarmInv
<1>2. ASSUME UNCHANGED vars PROVE AlarmInv'
  BY <1>0, <1>2 DEF AlarmInv, Owed, Early, Deadline, vars, alarms
<1>3. ASSUME NEW t \in Tasks, AlarmMove(t) PROVE AlarmInv'
  <2>1. Owed' <=> \E u \in Tasks : OwedBy(u)'
    BY DEF Owed, OwedBy
  <2>2. Deadline(jobs)' = Deadline(jobs')
    BY DEF Deadline
  <2>3. CASE /\ UNCHANGED <<jobs, alarm>>
             /\ ~lost' \/ lock' # NoTask => ~lost \/ lock # NoTask
             /\ OwedBy(t) => OwedBy(t)'
             /\ \A u \in Tasks \ {t} :
                  OwedBy(u) => at'[u] = at[u] /\ (Early(u) => rearmAsked')
    <3>1. ASSUME NEW u \in Tasks, OwedBy(u) PROVE OwedBy(u)'
      BY <2>3, <3>1 DEF OwedBy, Early
    <3>2. Owed => Owed'
      BY <2>1, <3>1 DEF Owed, OwedBy
    <3> QED BY <1>0, <1>1, <2>2, <2>3, <3>2 DEF AlarmInv
  <2> QED BY <1>1, <1>3, <2>1, <2>2, <2>3 DEF AlarmMove, AlarmInv
<1> QED BY <1>2, <1>3, AlarmMoves

-----------------------------------------------------------------------------
(* The theorems.                                                           *)

\* The parts of the type, and of the order of events, as the lemmas have them.
LEMMA Parts ==
  /\ TypeOK <=> /\ PlainType /\ AtType /\ FateType
                /\ done \in Seq(Futures) /\ EventTypes
  /\ EventInv <=> InOrder /\ BufferOpen
BY DEF TypeOK, PlainType, AtType, FateType, Futures, EventTypes, EventInv

\* The inductive invariant holds at first,
LEMMA RuntimeStart == Init => RuntimeInv
<1> SUFFICES ASSUME Init PROVE RuntimeInv
  OBVIOUS
<1>1. PlainType /\ FateType
  <2>1. {MaxCalls, MaxFaults} \subseteq Nat
    BY RuntimeAssumption
  <2>2. calls = 0 /\ faults = 0 /\ 0 \in 0..MaxCalls /\ 0 \in 0..MaxFaults
    BY <2>1 DEF Init
  <2>3. PlainType
    BY <2>2 DEF Init, PlainType
  <2>4. fate = <<>> /\ attempt = 0
    BY DEF Init, NoAttempt
  <2> QED BY <2>3, <2>4 DEF FateType
<1>2. AtType /\ \A t \in Tasks : at[t].pc = "idle" /\ t # NoTask
  BY RuntimeAssumption DEF Init, AtType, Idle, Places, Kinds, Returns
<1>3. done \in Seq(Futures) /\ EventTypes /\ InOrder /\ BufferOpen
  BY DEF Init, EventTypes, InOrder, BufferOpen, Increasing
<1>4. StartInv /\ PlaceInv
  BY <1>2 DEF Init, StartInv, PlaceInv, StartsUp, Passing, Working, Disposing
<1>5. DisposalInv
  BY <1>2 DEF Init, DisposalInv, Disposing, OperationsIdle, InOperation
<1>6. AlarmInv
  BY FS_EmptySet DEF Init, AlarmInv, Deadline
<1> QED BY <1>1, <1>2, <1>3, <1>4, <1>5, <1>6, Parts DEF RuntimeInv

\* and every step keeps it, and hears events in order.
LEMMA RuntimeStep ==
  ASSUME RuntimeInv, [Next]_vars
  PROVE  RuntimeInv' /\ (heard' # heard => heard' > heard)
<1>1. /\ done \in Seq(Futures) /\ EventTypes /\ InOrder
      /\ pending # <<>> => Buffering
  BY Parts DEF RuntimeInv, BufferOpen
<1>2. EventMove
  BY EventSteps
<1>3. /\ done' \in Seq(Futures) /\ EventTypes' /\ InOrder'
      /\ heard' # heard => heard' > heard
  BY <1>1, <1>2, OrderStep DEF EventMove
<1>4. PlainType' /\ AtType' /\ FateType' /\ BufferOpen'
  BY PlainStep, AtStep, FateStep, BufferStep
<1>5. TypeOK' /\ EventInv'
  BY <1>3, <1>4 DEF TypeOK, PlainType, AtType, FateType, Futures, EventTypes, EventInv
<1>6. StartInv' /\ PlaceInv' /\ DisposalInv' /\ AlarmInv'
  BY StartStep, PlaceStep, DisposalStep, AlarmStep
<1> QED BY <1>3, <1>5, <1>6 DEF RuntimeInv

\* The inductive invariant says what the run checks of a Lifecycle left alone.
LEMMA RuntimeImplies == RuntimeInv => LifecycleInOrder
<1> SUFFICES ASSUME RuntimeInv PROVE LifecycleInOrder
  OBVIOUS
<1>1. HooksRunAlone
  <2> SUFFICES ASSUME (\E t \in Tasks : at[t].pc = "disposeHooks") \/ phase = "disposed"
               PROVE  OperationsIdle /\ queue = <<>> /\ lock = NoTask /\ ~starting
    BY DEF HooksRunAlone
  <2>1. disabled /\ OperationsIdle
    BY DEF RuntimeInv, DisposalInv
  <2>2. \A t \in Tasks : at[t].pc \notin Working
    BY <2>1, Undisturbed DEF RuntimeInv
  <2>3. /\ lock = NoTask /\ drainer = NoTask
    BY <2>2 DEF RuntimeInv, TypeOK, PlaceInv, Working
  <2>4. queue = <<>>
    BY <2>3 DEF RuntimeInv, EventInv, InOrder
  <2>5. ~starting
    BY <2>2 DEF RuntimeInv, StartInv, Working
  <2> QED BY <2>1, <2>3, <2>4, <2>5
<1>2. AlarmFollowsJobs
  <2> SUFFICES ASSUME \A t \in Tasks : at[t].pc = "idle", ~lost
               PROVE  alarm = Deadline(jobs)
    BY DEF AlarmFollowsJobs
  <2>1. ~Owed
    BY DEF Owed, Early
  <2> QED BY <2>1 DEF RuntimeInv, AlarmInv
<1> QED BY <1>1, <1>2 DEF LifecycleInOrder, RuntimeInv

\* A Lifecycle left alone is in order (run runtime): its disposal hooks run alone,
\* with nothing admitted left behind, and once every call has ended the alarm is the
\* next deadline of the job table, unless the last write was lost.
THEOREM LifecycleIsInOrder == Spec => []LifecycleInOrder
<1>1. RuntimeInv /\ [Next]_vars => RuntimeInv'
  BY RuntimeStep
<1> QED BY RuntimeStart, <1>1, RuntimeImplies, PTL DEF Spec

\* Listeners hear the events in the order they were emitted, each at most once
\* (run runtime), over startups that fail, cancelled drains and listeners that emit.
THEOREM EventsHeardInOrder == Spec => HeardInOrder
<1>1. RuntimeInv /\ [Next]_vars => RuntimeInv'
  BY RuntimeStep
<1>2. RuntimeInv /\ [Next]_vars => [heard' # heard => heard' > heard]_vars
  BY RuntimeStep
<1> QED BY RuntimeStart, <1>1, <1>2, PTL DEF Spec, HeardInOrder
-----------------------------------------------------------------------------
(* Facets: what the stacks of the root's calls say of the tables.          *)

CallPlaces == {"init", "lock", "hooks", "retry", "schedules", "tasks", "boot", "booted"}
CallReasons   == {"spawn", "delete", "route", "alarm", "start", "retry", "stale"}

\* Where a call is that started the root, or took a gate, on its way.
Low == {"init", "retry", "schedules", "tasks"}

CallFrames == [pc: CallPlaces, why: CallReasons, f: Facets, existed: BOOLEAN, todo: SUBSET Nat,
               list: Seq(Facets)]
JobRecords == [facet: Facets, kind: {"schedule", "task"}, gone: BOOLEAN]

\* A frame that holds its facet's gate.
Guarding(x) ==
  \/ x.pc \in {"boot", "booted"}
  \/ x.pc \in {"schedules", "tasks"} /\ x.why # "stale"

\* What holds of a frame of a call, in the gates, jobs, rows and children given:
\* under the gate no job of the facet escapes the cleanup, and a child that
\* starts is listed.
FrameOK(t, x, G, J, R, C) ==
  Guarding(x) =>
    /\ G[x.f] # <<>> /\ Head(G[x.f]) = t
    /\ x.pc = "schedules" =>
         \A id \in DOMAIN J : J[id].facet = x.f /\ J[id].kind = "schedule" => id \in x.todo
    /\ x.pc = "tasks" =>
         \A id \in DOMAIN J : J[id].facet = x.f => J[id].kind = "task" /\ id \in x.todo
    /\ x.pc \in {"boot", "booted"} => x.f \in R
    /\ x.pc = "boot" /\ ~x.existed => C[x.f] # "started"

StackOK(t, s, G, J, R, C) ==
  /\ s \in Seq(CallFrames)
  /\ \A i \in DOMAIN s : FrameOK(t, s[i], G, J, R, C)
  /\ \A i \in DOMAIN s : i > 1 => s[i].pc \in Low
  /\ \A i, j \in DOMAIN s : i # j /\ Guarding(s[i]) /\ Guarding(s[j]) => s[i].f # s[j].f

FacetTypes ==
  /\ gate \in [Facets -> Seq(Calls)] /\ dels \subseteq Facets /\ ids \in Nat
  /\ child \in [Facets -> {"none", "stored", "started"}]
  /\ DOMAIN routed \subseteq Nat /\ \A id \in DOMAIN routed : routed[id] \in JobRecords
  /\ DOMAIN stack = Calls

FacetInv ==
  /\ FacetTypes
  /\ \A t \in Calls : StackOK(t, stack[t], gate, routed, rows, child)
  /\ Sub!OrphansAreRecorded /\ Sub!StartedChildIsListed

\* Between two states the facets outside H keep their gates' heads, their rows
\* and their children, and get no further jobs.
Elsewhere(H, G, J, R, C, G2, J2, R2, C2) ==
  /\ \A g \in Facets \ H :
       /\ G[g] # <<>> => G2[g] # <<>> /\ Head(G2[g]) = Head(G[g])
       /\ g \in R => g \in R2
       /\ C2[g] = C[g]
  /\ \A id \in DOMAIN J2 :
       J2[id].facet \notin H =>
         id \in DOMAIN J /\ J2[id].facet = J[id].facet /\ J2[id].kind = J[id].kind

NoneGuards(s, H) == \A i \in DOMAIN s : Guarding(s[i]) => s[i].f \notin H

\* A stack that guards none of the facets touched is as right as before.
LEMMA StackPasses ==
  ASSUME NEW t, NEW s, NEW H, NEW G, NEW J, NEW R, NEW C, NEW G2, NEW J2, NEW R2, NEW C2,
         StackOK(t, s, G, J, R, C), NoneGuards(s, H),
         Elsewhere(H, G, J, R, C, G2, J2, R2, C2)
  PROVE  StackOK(t, s, G2, J2, R2, C2)
<1>1. s \in Seq(CallFrames) /\ \A i \in DOMAIN s : s[i] \in CallFrames
  <2>1. s \in Seq(CallFrames)
    BY DEF StackOK
  <2> QED BY <2>1, LenProperties
<1>2. ASSUME NEW i \in DOMAIN s PROVE FrameOK(t, s[i], G2, J2, R2, C2)
  <2> DEFINE x == s[i]
  <2> SUFFICES ASSUME Guarding(x) PROVE FrameOK(t, x, G2, J2, R2, C2)
    BY DEF FrameOK
  <2>1. x \in CallFrames /\ FrameOK(t, x, G, J, R, C) /\ x.f \notin H
    BY <1>1, <1>2 DEF StackOK, NoneGuards
  <2>2. x.f \in Facets \ H
    BY <2>1 DEF CallFrames
  <2> HIDE DEF x
  <2>3. G2[x.f] # <<>> /\ Head(G2[x.f]) = t
    BY <2>1, <2>2 DEF FrameOK, Elsewhere
  <2>4. x.pc \in {"boot", "booted"} => x.f \in R2
    BY <2>1, <2>2 DEF FrameOK, Elsewhere
  <2>5. x.pc = "boot" /\ ~x.existed => C2[x.f] # "started"
    BY <2>1, <2>2 DEF FrameOK, Elsewhere
  <2>6. ASSUME NEW id \in DOMAIN J2, J2[id].facet = x.f
        PROVE  id \in DOMAIN J /\ J[id].facet = x.f /\ J2[id].kind = J[id].kind
    BY <2>2, <2>6 DEF Elsewhere
  <2>7. x.pc = "schedules" =>
          \A id \in DOMAIN J2 : J2[id].facet = x.f /\ J2[id].kind = "schedule" => id \in x.todo
    BY <2>1, <2>6 DEF FrameOK
  <2>8. x.pc = "tasks" =>
          \A id \in DOMAIN J2 : J2[id].facet = x.f => J2[id].kind = "task" /\ id \in x.todo
    BY <2>1, <2>6 DEF FrameOK
  <2> QED BY <2>3, <2>4, <2>5, <2>7, <2>8 DEF FrameOK
<1> QED BY <1>1, <1>2 DEF StackOK

\* A frame is put on a stack.
LEMMA Pushed ==
  ASSUME NEW t, NEW s, NEW x \in CallFrames, NEW G, NEW J, NEW R, NEW C,
         StackOK(t, s, G, J, R, C), FrameOK(t, x, G, J, R, C),
         s # <<>> => s[1].pc \in Low,
         Guarding(x) => NoneGuards(s, {x.f})
  PROVE  StackOK(t, <<x>> \o s, G, J, R, C)
<1> DEFINE p == <<x>> \o s
<1>1. s \in Seq(CallFrames) /\ <<x>> \in Seq(CallFrames) /\ Len(<<x>>) = 1 /\ <<x>>[1] = x
  BY DEF StackOK
<1>2. Len(s) \in Nat /\ DOMAIN s = 1..Len(s)
  BY <1>1, LenProperties
<1>3. /\ p \in Seq(CallFrames) /\ Len(p) = 1 + Len(s)
      /\ \A i \in 1..(1 + Len(s)) : p[i] = IF i <= 1 THEN <<x>>[i] ELSE s[i - 1]
  BY <1>1, ConcatProperties
<1>4. DOMAIN p = 1..(1 + Len(s))
  BY <1>3, LenProperties
<1>5. p[1] = x /\ \A i \in DOMAIN p : i # 1 => i - 1 \in DOMAIN s /\ p[i] = s[i - 1]
  BY <1>1, <1>2, <1>3, <1>4
<1>6. 1 \in DOMAIN p /\ \A i \in DOMAIN p : i \in Nat /\ (i # 1 => i > 1)
  BY <1>2, <1>4
<1> HIDE DEF p
<1>7. \A i \in DOMAIN p : FrameOK(t, p[i], G, J, R, C)
  BY <1>5 DEF StackOK
<1>8. ASSUME NEW i \in DOMAIN p, i > 1 PROVE p[i].pc \in Low
  <2>1. i # 1 /\ i - 1 \in DOMAIN s /\ p[i] = s[i - 1]
    BY <1>5, <1>8
  <2>2. CASE i - 1 = 1
    <3>1. s # <<>>
      BY <1>2, <2>1, EmptySeq
    <3> QED BY <2>1, <2>2, <3>1
  <2>3. CASE i - 1 # 1
    BY <1>2, <2>1, <2>3 DEF StackOK
  <2> QED BY <2>2, <2>3
<1>9. ASSUME NEW i \in DOMAIN p, NEW j \in DOMAIN p, i # j, Guarding(p[i]), Guarding(p[j])
      PROVE  p[i].f # p[j].f
  <2>1. CASE i = 1
    <3>1. j - 1 \in DOMAIN s /\ p[j] = s[j - 1] /\ p[i] = x
      BY <1>5, <1>9, <2>1
    <3> QED BY <1>9, <3>1 DEF NoneGuards
  <2>2. CASE j = 1
    <3>1. i - 1 \in DOMAIN s /\ p[i] = s[i - 1] /\ p[j] = x
      BY <1>5, <1>9, <2>2
    <3> QED BY <1>9, <3>1 DEF NoneGuards
  <2>3. CASE i # 1 /\ j # 1
    <3>1. /\ i - 1 \in DOMAIN s /\ p[i] = s[i - 1] /\ j - 1 \in DOMAIN s /\ p[j] = s[j - 1]
          /\ i \in Nat /\ j \in Nat
      BY <1>5, <1>6, <2>3
    <3>2. i - 1 # j - 1
      BY <1>9, <3>1
    <3> QED BY <1>9, <3>1, <3>2 DEF StackOK
  <2> QED BY <2>1, <2>2, <2>3
<1>10. StackOK(t, p, G, J, R, C)
  BY <1>3, <1>7, <1>8, <1>9 DEF StackOK, p
<1> QED BY <1>10 DEF p

\* The frame on top goes: those under it guard other facets.
LEMMA Popped ==
  ASSUME NEW t, NEW s, NEW G, NEW J, NEW R, NEW C, StackOK(t, s, G, J, R, C), s # <<>>
  PROVE  /\ StackOK(t, Tail(s), G, J, R, C)
         /\ s[1] \in CallFrames /\ FrameOK(t, s[1], G, J, R, C)
         /\ Tail(s) # <<>> => Tail(s)[1].pc \in Low
         /\ Guarding(s[1]) => NoneGuards(Tail(s), {s[1].f})
         /\ \A i \in DOMAIN Tail(s) : i + 1 \in 2..Len(s) /\ Tail(s)[i] = s[i + 1]
         /\ \A i \in DOMAIN Tail(s) : Tail(s)[i].pc \in Low
<1>1. s \in Seq(CallFrames)
  BY DEF StackOK
<1> DEFINE p == Tail(s)
<1>2. Len(s) \in Nat \ {0} /\ DOMAIN s = 1..Len(s)
  BY <1>1, LenProperties, EmptySeq
<1>3. p \in Seq(CallFrames) /\ Len(p) = Len(s) - 1 /\ \A i \in 1..Len(p) : p[i] = s[i + 1]
  BY <1>1, HeadTailProperties
<1>4. DOMAIN p = 1..(Len(s) - 1)
  BY <1>3, LenProperties
<1> HIDE DEF p
<1>5. 1 \in DOMAIN s /\ s[1] \in CallFrames
  BY <1>1, <1>2, ElementOfSeq
<1>6. \A i \in DOMAIN p : i \in Nat /\ i + 1 \in DOMAIN s /\ i + 1 \in 2..Len(s) /\ i + 1 > 1 /\ p[i] = s[i + 1]
  BY <1>2, <1>3, <1>4
<1>7. \A i \in DOMAIN p : FrameOK(t, p[i], G, J, R, C) /\ p[i].pc \in Low
  BY <1>6 DEF StackOK
<1>8. ASSUME NEW i \in DOMAIN p, NEW j \in DOMAIN p, i # j, Guarding(p[i]), Guarding(p[j])
      PROVE  p[i].f # p[j].f
  <2>1. i + 1 # j + 1
    BY <1>6, <1>8
  <2> QED BY <1>6, <1>8, <2>1 DEF StackOK
<1>9. p # <<>> => p[1].pc \in Low
  <2> SUFFICES ASSUME p # <<>> PROVE 1 \in DOMAIN p
    BY <1>7
  <2>1. Len(p) \in Nat \ {0}
    BY <1>3, EmptySeq
  <2> QED BY <1>2, <1>3, <1>4, <2>1
<1>10. Guarding(s[1]) => NoneGuards(p, {s[1].f})
  <2> SUFFICES ASSUME Guarding(s[1]), NEW i \in DOMAIN p, Guarding(p[i]) PROVE p[i].f # s[1].f
    BY DEF NoneGuards
  <2>1. i + 1 # 1
    BY <1>6
  <2> QED BY <1>5, <1>6, <2>1 DEF StackOK
<1>11. FrameOK(t, s[1], G, J, R, C)
  BY <1>5 DEF StackOK
<1>12. StackOK(t, p, G, J, R, C)
  BY <1>3, <1>7, <1>8 DEF StackOK
<1> QED BY <1>5, <1>6, <1>7, <1>9, <1>10, <1>11, <1>12 DEF p

\* The frame on top is replaced.
LEMMA TopReplaced ==
  ASSUME NEW s \in Seq(CallFrames), s # <<>>, NEW x \in CallFrames
  PROVE  [s EXCEPT ![1] = x] = <<x>> \o Tail(s)
<1> DEFINE l == [s EXCEPT ![1] = x]
           r == <<x>> \o Tail(s)
<1>1. Len(s) \in Nat \ {0}
  BY EmptySeq
<1>2. Tail(s) \in Seq(CallFrames) /\ Len(Tail(s)) = Len(s) - 1 /\ \A i \in 1..Len(Tail(s)) : Tail(s)[i] = s[i + 1]
  BY HeadTailProperties
<1>3. <<x>> \in Seq(CallFrames) /\ Len(<<x>>) = 1 /\ <<x>>[1] = x
  OBVIOUS
<1>4. /\ r \in Seq(CallFrames) /\ Len(r) = 1 + (Len(s) - 1)
      /\ \A i \in 1..(1 + (Len(s) - 1)) : r[i] = IF i <= 1 THEN <<x>>[i] ELSE Tail(s)[i - 1]
  BY <1>2, <1>3, ConcatProperties
<1>5. l \in Seq(CallFrames) /\ Len(l) = Len(s) /\ \A j \in 1..Len(s) : l[j] = IF j = 1 THEN x ELSE s[j]
  <2>1. 1 \in 1..Len(s)
    BY <1>1
  <2> QED BY <2>1, ExceptSeq
<1> HIDE DEF l, r
<1>6. Len(l) = Len(r)
  BY <1>1, <1>4, <1>5
<1>7. ASSUME NEW i \in 1..Len(l) PROVE l[i] = r[i]
  <2>1. CASE i = 1
    BY <1>1, <1>3, <1>4, <1>5, <2>1
  <2>2. CASE i # 1
    <3>1. i - 1 \in 1..Len(Tail(s)) /\ i \in 1..(1 + (Len(s) - 1)) /\ ~(i <= 1) /\ (i - 1) + 1 = i
      BY <1>1, <1>2, <1>5, <2>2
    <3>2. r[i] = Tail(s)[i - 1] /\ Tail(s)[i - 1] = s[i]
      BY <1>2, <1>4, <3>1
    <3> QED BY <1>5, <2>2, <3>2
  <2> QED BY <2>1, <2>2
<1>8. l = r
  BY <1>4, <1>5, <1>6, <1>7, SeqEqual
<1> QED BY <1>8 DEF l, r

LEMMA EmptyStack ==
  ASSUME NEW t, NEW G, NEW J, NEW R, NEW C PROVE StackOK(t, <<>>, G, J, R, C)
<1>1. <<>> \in Seq(CallFrames) /\ DOMAIN <<>> = {}
  BY EmptySeq
<1> QED BY <1>1 DEF StackOK

\* A call changes its own stack, and beyond it only what the gates of H guard.
LEMMA CallLands ==
  ASSUME FacetInv, NEW t \in Calls, NEW s, NEW H, stack' = [stack EXCEPT ![t] = s],
         StackOK(t, s, gate', routed', rows', child'),
         Elsewhere(H, gate, routed, rows, child, gate', routed', rows', child'),
         \A u \in Calls : u # t => NoneGuards(stack[u], H)
  PROVE  /\ DOMAIN stack' = Calls
         /\ \A u \in Calls : StackOK(u, stack'[u], gate', routed', rows', child')
<1>1. DOMAIN stack' = Calls /\ stack'[t] = s /\ \A u \in Calls : u # t => stack'[u] = stack[u]
  BY DEF FacetInv, FacetTypes
<1>2. ASSUME NEW u \in Calls, u # t PROVE StackOK(u, stack[u], gate', routed', rows', child')
  <2>1. StackOK(u, stack[u], gate, routed, rows, child) /\ NoneGuards(stack[u], H)
    BY <1>2 DEF FacetInv
  <2> QED BY <2>1, StackPasses
<1> QED BY <1>1, <1>2

\* Who guards a facet is at the head of its gate, alone.
LEMMA GuardsAlone ==
  ASSUME FacetInv, NEW t \in Calls, NEW f \in Facets, gate[f] # <<>>, Head(gate[f]) = t
  PROVE  \A u \in Calls : u # t => NoneGuards(stack[u], {f})
<1> SUFFICES ASSUME NEW u \in Calls, u # t, NEW i \in DOMAIN stack[u], Guarding(stack[u][i])
             PROVE  stack[u][i].f # f
  BY DEF NoneGuards
<1>1. FrameOK(u, stack[u][i], gate, routed, rows, child)
  BY DEF FacetInv, StackOK
<1> QED BY <1>1 DEF FrameOK

LEMMA FreeGate ==
  ASSUME NEW t, NEW s, NEW f, NEW G, NEW J, NEW R, NEW C, StackOK(t, s, G, J, R, C), G[f] = <<>>
  PROVE  NoneGuards(s, {f})
BY DEF NoneGuards, StackOK, FrameOK

\* Nothing but the stack changes.
LEMMA StackAlone ==
  ASSUME FacetInv, NEW t \in Calls, NEW s, stack' = [stack EXCEPT ![t] = s],
         UNCHANGED <<gate, routed, rows, child, dels, ids>>,
         StackOK(t, s, gate, routed, rows, child)
  PROVE  FacetInv'
<1>1. Elsewhere({}, gate, routed, rows, child, gate', routed', rows', child')
  BY DEF Elsewhere
<1>2. StackOK(t, s, gate', routed', rows', child')
  OBVIOUS
<1>3. \A u \in Calls : NoneGuards(stack[u], {})
  BY DEF NoneGuards
<1>4. DOMAIN stack' = Calls /\ \A u \in Calls : StackOK(u, stack'[u], gate', routed', rows', child')
  BY <1>1, <1>2, <1>3, CallLands
<1> QED BY <1>4 DEF FacetInv, FacetTypes, Sub!OrphansAreRecorded, Sub!StartedChildIsListed

LEMMA PlainFrame ==
  ASSUME NEW place \in CallPlaces, NEW why \in CallReasons, NEW f \in Facets
  PROVE  Sub!Frame(place, why, f) \in CallFrames
BY EmptySeq DEF Sub!Frame, CallFrames

-----------------------------------------------------------------------------
(* What is done under a gate.                                              *)

LEMMA BootstrapsKeep ==
  ASSUME FacetInv, NEW t \in Calls, NEW f \in Facets, NEW why \in CallReasons, NEW rest,
         StackOK(t, rest, gate, routed, rows, child), rest # <<>> => rest[1].pc \in Low,
         NoneGuards(rest, {f}), \A u \in Calls : u # t => NoneGuards(stack[u], {f}),
         Sub!Bootstraps(t, f, why, rest),
         gate' \in [Facets -> Seq(Calls)], gate'[f] # <<>>, Head(gate'[f]) = t,
         \A g \in Facets : g # f => gate'[g] = gate[g],
         dels' \subseteq Facets, UNCHANGED <<routed, ids>>, Sub!OrphansAreRecorded'
  PROVE  FacetInv'
<1> DEFINE x == [Sub!Frame("boot", why, f) EXCEPT !.existed = (f \in rows)]
<1>1. /\ rows' = rows \cup {f} /\ stack' = [stack EXCEPT ![t] = <<x>> \o rest]
      /\ child' = [child EXCEPT ![f] = IF @ = "none" THEN "stored" ELSE @]
  BY DEF Sub!Bootstraps, Sub!Becomes
<1>2. FacetTypes /\ Sub!OrphansAreRecorded /\ Sub!StartedChildIsListed
  BY DEF FacetInv
<1>3. child' \in [Facets -> {"none", "stored", "started"}]
      /\ (child'[f] = "started" => child[f] = "started") /\ \A g \in Facets : g # f => child'[g] = child[g]
  BY <1>1, <1>2 DEF FacetTypes
<1>4. x \in CallFrames /\ x.pc = "boot" /\ x.f = f /\ x.existed = (f \in rows)
  <2>1. "boot" \in CallPlaces
    BY DEF CallPlaces
  <2> DEFINE listed == f \in rows
  <2>2. listed \in BOOLEAN
    OBVIOUS
  <2>3. x = [Sub!Frame("boot", why, f) EXCEPT !.existed = listed]
    OBVIOUS
  <2>4. Sub!Frame("boot", why, f) \in CallFrames
    BY <2>1, PlainFrame
  <2>5. Sub!Frame("boot", why, f).pc = "boot" /\ Sub!Frame("boot", why, f).f = f
    BY DEF Sub!Frame
  <2> HIDE DEF x, listed
  <2>6. x \in CallFrames /\ x.pc = "boot" /\ x.f = f /\ x.existed = listed
    BY <2>2, <2>3, <2>4, <2>5 DEF CallFrames
  <2> QED BY <2>6 DEF listed
<1> HIDE DEF x
<1>5. Elsewhere({f}, gate, routed, rows, child, gate', routed', rows', child')
  BY <1>1, <1>3 DEF Elsewhere
<1>6. StackOK(t, rest, gate', routed', rows', child')
  BY <1>5, StackPasses
<1>7. FrameOK(t, x, gate', routed', rows', child')
  <2>1. ~x.existed => child'[f] # "started"
    BY <1>2, <1>3, <1>4 DEF Sub!StartedChildIsListed
  <2> QED BY <1>1, <1>4, <2>1 DEF FrameOK
<1>8. StackOK(t, <<x>> \o rest, gate', routed', rows', child')
  BY <1>4, <1>6, <1>7, Pushed
<1>9. DOMAIN stack' = Calls /\ \A u \in Calls : StackOK(u, stack'[u], gate', routed', rows', child')
  BY <1>1, <1>5, <1>8, CallLands
<1>10. Sub!StartedChildIsListed'
  BY <1>1, <1>2, <1>3 DEF Sub!StartedChildIsListed
<1>11. FacetTypes'
  BY <1>2, <1>3, <1>9 DEF FacetTypes
<1> QED BY <1>9, <1>10, <1>11 DEF FacetInv

LEMMA ResolvesKeep ==
  ASSUME FacetInv, NEW t \in Calls, NEW f \in Facets, NEW why \in CallReasons, NEW rest,
         NEW waiters \in Seq(Calls), waiters # <<>>, Head(waiters) = t,
         StackOK(t, rest, gate, routed, rows, child), rest # <<>> => rest[1].pc \in Low,
         NoneGuards(rest, {f}), \A u \in Calls : u # t => NoneGuards(stack[u], {f}),
         Sub!Resolves(t, f, why, rest, waiters)
  PROVE  FacetInv'
<1>1. /\ Sub!Bootstraps(t, f, why, rest) /\ gate' = [gate EXCEPT ![f] = waiters]
      /\ UNCHANGED <<dels, routed, ids>>
  BY DEF Sub!Resolves
<1>2. FacetTypes /\ Sub!OrphansAreRecorded
  BY DEF FacetInv
<1>3. gate' \in [Facets -> Seq(Calls)] /\ gate'[f] = waiters /\ \A g \in Facets : g # f => gate'[g] = gate[g]
  BY <1>1, <1>2 DEF FacetTypes
<1>4. Sub!OrphansAreRecorded' /\ dels' \subseteq Facets
  BY <1>1, <1>2 DEF Sub!OrphansAreRecorded, FacetTypes
<1> QED BY <1>1, <1>3, <1>4, BootstrapsKeep

LEMMA RoutedKeeps ==
  ASSUME FacetInv, NEW t \in Calls, NEW f \in Facets, NEW why \in CallReasons, NEW rest,
         NEW waiters \in Seq(Calls), waiters # <<>>, Head(waiters) = t,
         StackOK(t, rest, gate, routed, rows, child),
         NoneGuards(rest, {f}), \A u \in Calls : u # t => NoneGuards(stack[u], {f}),
         Sub!Routed(t, f, why, rest, waiters)
  PROVE  FacetInv'
<1>1. /\ stack' = [stack EXCEPT ![t] = rest] /\ gate' = [gate EXCEPT ![f] = Tail(waiters)]
      /\ UNCHANGED <<rows, dels, child>>
  BY DEF Sub!Routed, Sub!Becomes
<1>2. FacetTypes /\ Sub!OrphansAreRecorded /\ Sub!StartedChildIsListed
  BY DEF FacetInv
<1>3. gate' \in [Facets -> Seq(Calls)] /\ \A g \in Facets : g # f => gate'[g] = gate[g]
  BY <1>1, <1>2, HeadTailProperties DEF FacetTypes
<1>4. /\ ids' \in Nat /\ DOMAIN routed' \subseteq Nat
      /\ \A id \in DOMAIN routed' :
           \/ id \in DOMAIN routed /\ routed'[id] = routed[id]
           \/ routed'[id] \in JobRecords /\ routed'[id].facet = f /\ ~routed'[id].gone
  <2>1. CASE UNCHANGED <<routed, ids>>
    BY <1>2, <2>1 DEF FacetTypes
  <2>2. CASE /\ ids' = ids + 1
             /\ \E k \in {"schedule", "task"} :
                  routed' = [id \in DOMAIN routed \cup {ids'} |->
                               IF id = ids' THEN [facet |-> f, kind |-> k, gone |-> FALSE]
                               ELSE routed[id]]
    <3>1. ids' \in Nat
      BY <1>2, <2>2 DEF FacetTypes
    <3> QED BY <1>2, <2>2, <3>1 DEF FacetTypes, JobRecords
  <2> QED BY <2>1, <2>2 DEF Sub!Routed
<1>5. Elsewhere({f}, gate, routed, rows, child, gate', routed', rows', child')
  BY <1>1, <1>3, <1>4 DEF Elsewhere
<1>6. StackOK(t, rest, gate', routed', rows', child')
  BY <1>5, StackPasses
<1>7. DOMAIN stack' = Calls /\ \A u \in Calls : StackOK(u, stack'[u], gate', routed', rows', child')
  BY <1>1, <1>5, <1>6, CallLands
<1>8. Sub!OrphansAreRecorded' /\ Sub!StartedChildIsListed'
  BY <1>1, <1>2, <1>4 DEF Sub!OrphansAreRecorded, Sub!StartedChildIsListed
<1>9. FacetTypes'
  BY <1>1, <1>2, <1>3, <1>4, <1>7 DEF FacetTypes
<1> QED BY <1>7, <1>8, <1>9 DEF FacetInv

LEMMA DeletesKeep ==
  ASSUME FacetInv, NEW t \in Calls, NEW f \in Facets, NEW why \in CallReasons, NEW rest,
         NEW waiters \in Seq(Calls), waiters # <<>>, Head(waiters) = t,
         StackOK(t, rest, gate, routed, rows, child), rest # <<>> => rest[1].pc \in Low,
         NoneGuards(rest, {f}), \A u \in Calls : u # t => NoneGuards(stack[u], {f}),
         Sub!Deletes(t, f, why, rest, waiters)
  PROVE  FacetInv'
<1> DEFINE todo == Sub!JobsOf(f, "schedule")
           x == [Sub!Frame("schedules", why, f) EXCEPT !.todo = todo]
<1>1. /\ stack' = [stack EXCEPT ![t] = <<x>> \o rest] /\ gate' = [gate EXCEPT ![f] = waiters]
      /\ dels' = Sub!Recorded(f, why) /\ rows' = rows \ {f} /\ child' = [child EXCEPT ![f] = "none"]
      /\ routed' = [id \in DOMAIN routed |->
                      IF routed[id].facet = f /\ f \in dels' THEN [routed[id] EXCEPT !.gone = TRUE]
                      ELSE routed[id]]
      /\ ids' = ids
  BY DEF Sub!Deletes, Sub!Becomes
<1>2. FacetTypes /\ Sub!OrphansAreRecorded /\ Sub!StartedChildIsListed
  BY DEF FacetInv
<1>3. gate' \in [Facets -> Seq(Calls)] /\ gate'[f] = waiters /\ \A g \in Facets : g # f => gate'[g] = gate[g]
  BY <1>1, <1>2 DEF FacetTypes
<1>4. dels \subseteq dels' /\ dels' \subseteq Facets
  BY <1>1, <1>2 DEF Sub!Recorded, FacetTypes
<1>5. /\ DOMAIN routed' = DOMAIN routed
      /\ \A id \in DOMAIN routed :
           /\ routed'[id] \in JobRecords
           /\ routed'[id].facet = routed[id].facet /\ routed'[id].kind = routed[id].kind
           /\ routed'[id].gone => routed[id].gone \/ routed[id].facet \in dels'
  BY <1>1, <1>2 DEF FacetTypes, JobRecords
<1>6. x \in CallFrames /\ x.pc = "schedules" /\ x.f = f /\ x.todo = todo
  <2>1. "schedules" \in CallPlaces /\ todo \in SUBSET Nat
    BY <1>2 DEF CallPlaces, Sub!JobsOf, FacetTypes
  <2> HIDE DEF todo
  <2> QED BY <2>1, EmptySeq DEF Sub!Frame, CallFrames
<1> HIDE DEF x
<1>7. /\ child' \in [Facets -> {"none", "stored", "started"}] /\ child'[f] = "none"
      /\ \A g \in Facets : g # f => child'[g] = child[g]
  BY <1>1, <1>2 DEF FacetTypes
<1>8. Elsewhere({f}, gate, routed, rows, child, gate', routed', rows', child')
  BY <1>1, <1>3, <1>5, <1>7 DEF Elsewhere
<1>9. StackOK(t, rest, gate', routed', rows', child')
  BY <1>8, StackPasses
<1>10. FrameOK(t, x, gate', routed', rows', child')
  <2>1. \A id \in DOMAIN routed' : routed'[id].facet = f /\ routed'[id].kind = "schedule" => id \in todo
    BY <1>5 DEF Sub!JobsOf
  <2> QED BY <1>3, <1>6, <2>1 DEF FrameOK
<1>11. StackOK(t, <<x>> \o rest, gate', routed', rows', child')
  BY <1>6, <1>9, <1>10, Pushed
<1>12. DOMAIN stack' = Calls /\ \A u \in Calls : StackOK(u, stack'[u], gate', routed', rows', child')
  BY <1>1, <1>8, <1>11, CallLands
<1>13. Sub!OrphansAreRecorded'
  BY <1>2, <1>4, <1>5 DEF Sub!OrphansAreRecorded
<1>14. Sub!StartedChildIsListed'
  BY <1>1, <1>2, <1>7 DEF Sub!StartedChildIsListed
<1>15. FacetTypes'
  BY <1>1, <1>2, <1>3, <1>4, <1>5, <1>7, <1>12 DEF FacetTypes
<1> QED BY <1>12, <1>13, <1>14, <1>15 DEF FacetInv

LEMMA DeleteFailsKeeps ==
  ASSUME FacetInv, NEW t \in Calls, NEW f \in Facets, NEW why \in CallReasons, NEW rest,
         NEW waiters \in Seq(Calls), waiters # <<>>, Head(waiters) = t,
         StackOK(t, rest, gate, routed, rows, child),
         NoneGuards(rest, {f}), \A u \in Calls : u # t => NoneGuards(stack[u], {f}),
         Sub!DeleteFails(t, f, why, rest, waiters)
  PROVE  FacetInv'
<1>1. /\ stack' = [stack EXCEPT ![t] = rest] /\ gate' = [gate EXCEPT ![f] = Tail(waiters)]
      /\ dels' = Sub!Recorded(f, why) /\ UNCHANGED <<rows, routed, child, ids>>
  BY DEF Sub!DeleteFails, Sub!Becomes
<1>2. FacetTypes /\ Sub!OrphansAreRecorded /\ Sub!StartedChildIsListed
  BY DEF FacetInv
<1>3. gate' \in [Facets -> Seq(Calls)] /\ \A g \in Facets : g # f => gate'[g] = gate[g]
  BY <1>1, <1>2, HeadTailProperties DEF FacetTypes
<1>4. dels \subseteq dels' /\ dels' \subseteq Facets
  BY <1>1, <1>2 DEF Sub!Recorded, FacetTypes
<1>5. Elsewhere({f}, gate, routed, rows, child, gate', routed', rows', child')
  BY <1>1, <1>3 DEF Elsewhere
<1>6. StackOK(t, rest, gate', routed', rows', child')
  BY <1>5, StackPasses
<1>7. DOMAIN stack' = Calls /\ \A u \in Calls : StackOK(u, stack'[u], gate', routed', rows', child')
  BY <1>1, <1>5, <1>6, CallLands
<1>8. Sub!OrphansAreRecorded' /\ Sub!StartedChildIsListed'
  BY <1>1, <1>2, <1>4 DEF Sub!OrphansAreRecorded, Sub!StartedChildIsListed
<1>9. FacetTypes'
  BY <1>1, <1>2, <1>3, <1>4, <1>7 DEF FacetTypes
<1> QED BY <1>7, <1>8, <1>9 DEF FacetInv

LEMMA ActsKeep ==
  ASSUME FacetInv, NEW t \in Calls, NEW f \in Facets, NEW why \in CallReasons, NEW rest,
         NEW waiters \in Seq(Calls), waiters # <<>>, Head(waiters) = t,
         StackOK(t, rest, gate, routed, rows, child), rest # <<>> => rest[1].pc \in Low,
         NoneGuards(rest, {f}), \A u \in Calls : u # t => NoneGuards(stack[u], {f}),
         Sub!ActsOrFails(t, f, why, rest, waiters)
  PROVE  FacetInv'
BY ResolvesKeep, RoutedKeeps, DeletesKeep, DeleteFailsKeeps DEF Sub!ActsOrFails, Sub!Acts

\* The lock is taken, or waited for.
LEMMA LocksKeep ==
  ASSUME FacetInv, NEW t \in Calls, NEW f \in Facets, NEW why \in CallReasons, NEW rest,
         StackOK(t, rest, gate, routed, rows, child), rest # <<>> => rest[1].pc \in Low,
         Sub!Locks(t, f, why, rest)
  PROVE  FacetInv'
<1>1. FacetTypes /\ Sub!OrphansAreRecorded /\ Sub!StartedChildIsListed
  BY DEF FacetInv
<1>2. CASE gate[f] = <<>> /\ Sub!ActsOrFails(t, f, why, rest, <<t>>)
  <2>1. NoneGuards(rest, {f}) /\ \A u \in Calls : NoneGuards(stack[u], {f})
    BY <1>2, FreeGate DEF FacetInv
  <2>2. <<t>> \in Seq(Calls) /\ <<t>> # <<>> /\ Head(<<t>>) = t
    OBVIOUS
  <2> QED BY <1>2, <2>1, <2>2, ActsKeep
<1>3. CASE /\ gate[f] # <<>> /\ gate' = [gate EXCEPT ![f] = Append(@, t)]
           /\ Sub!Becomes(t, <<Sub!Frame("lock", why, f)>> \o rest)
           /\ UNCHANGED <<Sub!tables, active, ids, raised>>
  <2> DEFINE x == Sub!Frame("lock", why, f)
  <2>1. /\ gate' = [gate EXCEPT ![f] = Append(@, t)] /\ stack' = [stack EXCEPT ![t] = <<x>> \o rest]
        /\ UNCHANGED <<rows, dels, routed, child, ids>>
    BY <1>3 DEF Sub!Becomes, Sub!tables
  <2>2. x \in CallFrames /\ ~Guarding(x)
    <3>1. "lock" \in CallPlaces
      BY DEF CallPlaces
    <3> QED BY <3>1, PlainFrame DEF Sub!Frame, Guarding
  <2> HIDE DEF x
  <2>3. gate[f] \in Seq(Calls)
    BY <1>1 DEF FacetTypes
  <2>4. Append(gate[f], t) \in Seq(Calls) /\ Append(gate[f], t) # <<>> /\ Head(Append(gate[f], t)) = Head(gate[f])
    <3>1. /\ Append(gate[f], t) \in Seq(Calls) /\ Len(Append(gate[f], t)) = Len(gate[f]) + 1
          /\ \A i \in 1..Len(gate[f]) : Append(gate[f], t)[i] = gate[f][i]
      BY <2>3, AppendProperties
    <3>2. Len(gate[f]) \in Nat \ {0}
      BY <1>3, <2>3, EmptySeq
    <3>3. Append(gate[f], t) # <<>>
      BY <3>1, <3>2, EmptySeq
    <3>4. Append(gate[f], t)[1] = gate[f][1]
      BY <3>1, <3>2
    <3> QED BY <1>3, <2>3, <3>1, <3>3, <3>4
  <2>5. /\ gate' \in [Facets -> Seq(Calls)] /\ gate'[f] # <<>> /\ Head(gate'[f]) = Head(gate[f])
        /\ \A g \in Facets : g # f => gate'[g] = gate[g]
    BY <1>1, <2>1, <2>4 DEF FacetTypes
  <2>6. Elsewhere({}, gate, routed, rows, child, gate', routed', rows', child')
    BY <2>1, <2>5 DEF Elsewhere
  <2>7. NoneGuards(rest, {}) /\ \A u \in Calls : NoneGuards(stack[u], {})
    BY DEF NoneGuards
  <2>8. StackOK(t, rest, gate', routed', rows', child')
    BY <2>6, <2>7, StackPasses
  <2>9. StackOK(t, <<x>> \o rest, gate', routed', rows', child')
    BY <2>2, <2>8, Pushed DEF FrameOK
  <2>10. DOMAIN stack' = Calls /\ \A u \in Calls : StackOK(u, stack'[u], gate', routed', rows', child')
    BY <2>1, <2>6, <2>7, <2>9, CallLands
  <2>11. Sub!OrphansAreRecorded' /\ Sub!StartedChildIsListed' /\ FacetTypes'
    BY <1>1, <2>1, <2>5, <2>10 DEF Sub!OrphansAreRecorded, Sub!StartedChildIsListed, FacetTypes
  <2> QED BY <2>10, <2>11 DEF FacetInv
<1> QED BY <1>2, <1>3 DEF Sub!Locks

-----------------------------------------------------------------------------
(* Each step of a call.                                                    *)

LEMMA TopFacts ==
  ASSUME FacetInv, NEW t \in Calls, Sub!Busy(t)
  PROVE  /\ stack[t] \in Seq(CallFrames) /\ stack[t] # <<>> /\ Sub!Top(t) = stack[t][1]
         /\ StackOK(t, stack[t], gate, routed, rows, child)
         /\ StackOK(t, Tail(stack[t]), gate, routed, rows, child)
         /\ Sub!Top(t) \in CallFrames /\ Sub!Top(t).f \in Facets /\ Sub!Top(t).why \in CallReasons
         /\ FrameOK(t, Sub!Top(t), gate, routed, rows, child)
         /\ Tail(stack[t]) # <<>> => Tail(stack[t])[1].pc \in Low
         /\ Guarding(Sub!Top(t)) => NoneGuards(Tail(stack[t]), {Sub!Top(t).f})
         /\ \A i \in DOMAIN Tail(stack[t]) :
              /\ i + 1 \in 2..Len(stack[t]) /\ Tail(stack[t])[i] = stack[t][i + 1]
              /\ Tail(stack[t])[i].pc \in Low
<1>1. StackOK(t, stack[t], gate, routed, rows, child) /\ stack[t] # <<>> /\ Sub!Top(t) = stack[t][1]
  BY DEF FacetInv, Sub!Busy, Sub!Top
<1>2. stack[t] \in Seq(CallFrames)
  BY <1>1 DEF StackOK
<1>3. /\ StackOK(t, Tail(stack[t]), gate, routed, rows, child)
      /\ stack[t][1] \in CallFrames /\ FrameOK(t, stack[t][1], gate, routed, rows, child)
      /\ Tail(stack[t]) # <<>> => Tail(stack[t])[1].pc \in Low
      /\ Guarding(stack[t][1]) => NoneGuards(Tail(stack[t]), {stack[t][1].f})
      /\ \A i \in DOMAIN Tail(stack[t]) :
           i + 1 \in 2..Len(stack[t]) /\ Tail(stack[t])[i] = stack[t][i + 1]
      /\ \A i \in DOMAIN Tail(stack[t]) : Tail(stack[t])[i].pc \in Low
  BY <1>1, Popped
<1>4. stack[t][1].f \in Facets /\ stack[t][1].why \in CallReasons
  BY <1>3 DEF CallFrames
<1> QED BY <1>1, <1>2, <1>3, <1>4

LEMMA MovesKeep ==
  ASSUME FacetInv, NEW t \in Calls, Sub!Busy(t), NEW x \in CallFrames,
         stack' = [stack EXCEPT ![t] = [stack[t] EXCEPT ![1] = x]],
         UNCHANGED <<gate, routed, rows, child, dels, ids>>,
         FrameOK(t, x, gate, routed, rows, child),
         Guarding(x) => Guarding(Sub!Top(t)) /\ x.f = Sub!Top(t).f
  PROVE  FacetInv'
<1>1. /\ stack[t] \in Seq(CallFrames) /\ stack[t] # <<>>
      /\ StackOK(t, Tail(stack[t]), gate, routed, rows, child)
      /\ Tail(stack[t]) # <<>> => Tail(stack[t])[1].pc \in Low
      /\ Guarding(Sub!Top(t)) => NoneGuards(Tail(stack[t]), {Sub!Top(t).f})
  BY TopFacts
<1>2. [stack[t] EXCEPT ![1] = x] = <<x>> \o Tail(stack[t])
  BY <1>1, TopReplaced
<1>3. StackOK(t, <<x>> \o Tail(stack[t]), gate, routed, rows, child)
  BY <1>1, Pushed
<1> QED BY <1>2, <1>3, StackAlone

LEMMA PopKeeps ==
  ASSUME FacetInv, NEW t \in Calls, Sub!Busy(t), Sub!Pops(t),
         UNCHANGED <<gate, routed, rows, child, dels, ids>>
  PROVE  FacetInv'
<1>1. stack' = [stack EXCEPT ![t] = Tail(stack[t])]
  BY DEF Sub!Pops
<1> QED BY <1>1, TopFacts, StackAlone

\* A guarding frame goes, and its gate is passed on.
LEMMA LeavesKeep ==
  ASSUME FacetInv, NEW t \in Calls, Sub!Busy(t), Guarding(Sub!Top(t)),
         Sub!Pops(t), Sub!Leaves(Sub!Top(t).f),
         UNCHANGED <<routed, child, ids>>, dels' \subseteq Facets,
         \A g \in Facets : g # Sub!Top(t).f => (g \in rows => g \in rows'),
         Sub!OrphansAreRecorded', Sub!StartedChildIsListed'
  PROVE  FacetInv'
<1> DEFINE f == Sub!Top(t).f
<1>1. /\ StackOK(t, Tail(stack[t]), gate, routed, rows, child) /\ f \in Facets
      /\ FrameOK(t, Sub!Top(t), gate, routed, rows, child) /\ NoneGuards(Tail(stack[t]), {f})
  BY TopFacts
<1>2. gate[f] # <<>> /\ Head(gate[f]) = t
  BY <1>1 DEF FrameOK
<1>3. \A u \in Calls : u # t => NoneGuards(stack[u], {f})
  BY <1>1, <1>2, GuardsAlone
<1>4. /\ stack' = [stack EXCEPT ![t] = Tail(stack[t])] /\ gate' = [gate EXCEPT ![f] = Tail(gate[f])]
  BY DEF Sub!Pops, Sub!Leaves
<1> HIDE DEF f
<1>5. FacetTypes
  BY DEF FacetInv
<1>6. gate[f] \in Seq(Calls) /\ Tail(gate[f]) \in Seq(Calls)
  BY <1>1, <1>2, <1>5, HeadTailProperties DEF FacetTypes
<1>7. gate' \in [Facets -> Seq(Calls)] /\ \A g \in Facets : g # f => gate'[g] = gate[g]
  BY <1>1, <1>4, <1>5, <1>6 DEF FacetTypes
<1>8. Elsewhere({f}, gate, routed, rows, child, gate', routed', rows', child')
  BY <1>7 DEF Elsewhere, f
<1>9. StackOK(t, Tail(stack[t]), gate', routed', rows', child')
  BY <1>1, <1>8, StackPasses
<1>10. DOMAIN stack' = Calls /\ \A u \in Calls : StackOK(u, stack'[u], gate', routed', rows', child')
  BY <1>3, <1>4, <1>8, <1>9, CallLands
<1>11. FacetTypes'
  BY <1>5, <1>7, <1>10 DEF FacetTypes
<1> QED BY <1>10, <1>11 DEF FacetInv

LEMMA SpawnKeeps ==
  ASSUME FacetInv, NEW t \in Calls, Sub!Spawn(t)
  PROVE  FacetInv'
<1>1. PICK f \in Facets : Sub!Locks(t, f, "spawn", <<>>)
  BY DEF Sub!Spawn
<1>2. StackOK(t, <<>>, gate, routed, rows, child) /\ "spawn" \in CallReasons
  BY EmptyStack DEF CallReasons
<1> QED BY <1>1, <1>2, LocksKeep

LEMMA AsksKeeps ==
  ASSUME FacetInv, NEW t \in Calls, Sub!Asks(t)
  PROVE  FacetInv'
<1>1. PICK f \in Facets, why \in {"delete", "route", "alarm"} :
        stack' = [stack EXCEPT ![t] = <<Sub!Frame("init", why, f)>>]
  BY DEF Sub!Asks, Sub!Becomes
<1> DEFINE x == Sub!Frame("init", why, f)
<1>2. x \in CallFrames /\ ~Guarding(x)
  <2>1. "init" \in CallPlaces /\ why \in CallReasons
    BY DEF CallPlaces, CallReasons
  <2> QED BY <2>1, PlainFrame DEF Guarding, Sub!Frame
<1> HIDE DEF x
<1>3. StackOK(t, <<>>, gate, routed, rows, child)
  BY EmptyStack
<1>4. StackOK(t, <<x>> \o <<>>, gate, routed, rows, child)
  BY <1>2, <1>3, Pushed DEF FrameOK
<1>5. <<x>> \o <<>> = <<x>>
  <2>1. <<x>> \in Seq(CallFrames)
    BY <1>2
  <2> QED BY <2>1, ConcatEmptySeq
<1>6. StackOK(t, <<x>>, gate, routed, rows, child)
  BY <1>4, <1>5
<1>7. UNCHANGED <<gate, routed, rows, child, dels, ids>>
  BY DEF Sub!Asks, Sub!tables
<1> QED BY <1>1, <1>6, <1>7, StackAlone DEF x

LEMMA AdmittedKeeps ==
  ASSUME FacetInv, NEW t \in Calls, Sub!Admitted(t)
  PROVE  FacetInv'
<1>1. Sub!Busy(t) /\ Sub!Locks(t, Sub!Top(t).f, Sub!Top(t).why, <<>>)
  BY DEF Sub!Admitted, Sub!In
<1>2. StackOK(t, <<>>, gate, routed, rows, child)
  BY EmptyStack
<1>3. Sub!Top(t).f \in Facets /\ Sub!Top(t).why \in CallReasons
  BY <1>1, TopFacts
<1> QED BY <1>1, <1>2, <1>3, LocksKeep

LEMMA StaleRouteKeeps ==
  ASSUME FacetInv, NEW t \in Calls, Sub!StaleRoute(t)
  PROVE  FacetInv'
<1> DEFINE todo == Sub!JobsOf(Sub!Top(t).f, "schedule")
           x == [Sub!Top(t) EXCEPT !.pc = "schedules", !.why = "stale", !.todo = todo]
<1>1. /\ Sub!Busy(t) /\ Sub!Moves(t, x)
      /\ UNCHANGED <<gate, routed, rows, child, dels, ids>>
  BY DEF Sub!StaleRoute, Sub!In, Sub!tables, Sub!bounds
<1>2. todo \in SUBSET Nat
  BY DEF FacetInv, FacetTypes, Sub!JobsOf
<1>3. x \in CallFrames /\ ~Guarding(x)
  <2>1. Sub!Top(t) \in CallFrames /\ "schedules" \in CallPlaces /\ "stale" \in CallReasons
    BY <1>1, TopFacts DEF CallPlaces, CallReasons
  <2> HIDE DEF todo
  <2> QED BY <1>2, <2>1 DEF CallFrames, Guarding
<1> HIDE DEF x
<1>4. stack' = [stack EXCEPT ![t] = [stack[t] EXCEPT ![1] = x]]
  BY <1>1 DEF Sub!Moves, FacetInv, FacetTypes
<1> QED BY <1>1, <1>3, <1>4, MovesKeep DEF FrameOK

LEMMA StartsRootKeeps ==
  ASSUME FacetInv, NEW t \in Calls, Sub!StartsRoot(t)
  PROVE  FacetInv'
<1> DEFINE x == Sub!Frame("hooks", "start", Sub!Top(t).f)
<1>1. /\ Sub!NeedsRoot(t) /\ stack' = [stack EXCEPT ![t] = <<x>> \o stack[t]]
      /\ UNCHANGED <<gate, routed, rows, child, dels, ids>>
  BY DEF Sub!StartsRoot, Sub!Becomes, Sub!tables, Sub!bounds
<1>2. Sub!Busy(t) /\ Sub!Top(t).pc \in Low
  BY <1>1 DEF Sub!NeedsRoot, Sub!Cleaning, Low
<1>3. /\ StackOK(t, stack[t], gate, routed, rows, child) /\ Sub!Top(t) = stack[t][1]
      /\ Sub!Top(t).f \in Facets
  BY <1>2, TopFacts
<1>4. x \in CallFrames /\ ~Guarding(x)
  <2>1. "hooks" \in CallPlaces /\ "start" \in CallReasons
    BY DEF CallPlaces, CallReasons
  <2> QED BY <1>3, <2>1, PlainFrame DEF Guarding, Sub!Frame
<1> HIDE DEF x
<1>5. StackOK(t, <<x>> \o stack[t], gate, routed, rows, child)
  BY <1>2, <1>3, <1>4, Pushed DEF FrameOK
<1> QED BY <1>1, <1>5, StackAlone

\* The list of a retry is worked off.
LEMMA RetriesKeep ==
  ASSUME FacetInv, NEW t \in Calls, Sub!Busy(t), NEW list \in Seq(Facets),
         Sub!Retries(t, list, Tail(stack[t])), UNCHANGED crashes
  PROVE  FacetInv'
<1> DEFINE x(i) == [Sub!Frame("retry", "start", Sub!Top(t).f) EXCEPT
                      !.list = SubSeq(list, i + 1, Len(list))]
<1>1. /\ StackOK(t, Tail(stack[t]), gate, routed, rows, child)
      /\ Tail(stack[t]) # <<>> => Tail(stack[t])[1].pc \in Low
      /\ Sub!Top(t).f \in Facets
  BY TopFacts
<1>2. Len(list) \in Nat /\ DOMAIN list = 1..Len(list) /\ \A i \in DOMAIN list : list[i] \in Facets
  BY LenProperties, ElementOfSeq
<1>3. ASSUME NEW i \in 0..Len(list)
      PROVE  /\ x(i).pc = "retry" /\ x(i) \in CallFrames
             /\ StackOK(t, <<x(i)>> \o Tail(stack[t]), gate, routed, rows, child)
             /\ <<x(i)>> \o Tail(stack[t]) # <<>> => (<<x(i)>> \o Tail(stack[t]))[1].pc \in Low
  <2> DEFINE rest == SubSeq(list, i + 1, Len(list))
             y == [Sub!Frame("retry", "start", Sub!Top(t).f) EXCEPT !.list = rest]
  <2>1. rest \in Seq(Facets)
    <3>1. i + 1 \in Int /\ Len(list) \in Int /\ \A k \in (i + 1)..Len(list) : list[k] \in Facets
      BY <1>2, <1>3
    <3> QED BY <3>1, SubSeqProperties
  <2>2. "retry" \in CallPlaces /\ "start" \in CallReasons
    BY DEF CallPlaces, CallReasons
  <2>3. y \in CallFrames /\ y.pc = "retry" /\ ~Guarding(y)
    <3>1. Sub!Frame("retry", "start", Sub!Top(t).f) \in CallFrames
          /\ Sub!Frame("retry", "start", Sub!Top(t).f).pc = "retry"
      BY <1>1, <2>2, PlainFrame DEF Sub!Frame
    <3> HIDE DEF rest
    <3> QED BY <2>1, <3>1 DEF CallFrames, Guarding
  <2>4. y = x(i)
    OBVIOUS
  <2> HIDE DEF y
  <2>5. StackOK(t, <<y>> \o Tail(stack[t]), gate, routed, rows, child)
    BY <1>1, <2>3, Pushed DEF FrameOK
  <2>6. (<<y>> \o Tail(stack[t]))[1] = y
    <3>1. Tail(stack[t]) \in Seq(CallFrames) /\ <<y>> \in Seq(CallFrames) /\ Len(<<y>>) = 1 /\ <<y>>[1] = y
      BY <1>1, <2>3 DEF StackOK
    <3>2. Len(Tail(stack[t])) \in Nat
      BY <3>1, LenProperties
    <3>3. 1 \in 1..(Len(<<y>>) + Len(Tail(stack[t]))) /\ 1 <= Len(<<y>>)
      BY <3>1, <3>2
    <3> QED BY <3>1, <3>3, ConcatProperties
  <2> QED BY <2>3, <2>4, <2>5, <2>6 DEF Low
<1>4. CASE /\ stack' = [stack EXCEPT ![t] = <<x(Len(list))>> \o Tail(stack[t])]
           /\ UNCHANGED <<gate, routed, rows, child, dels, ids>>
  <2>1. Len(list) \in 0..Len(list)
    BY <1>2
  <2>2. StackOK(t, <<x(Len(list))>> \o Tail(stack[t]), gate, routed, rows, child)
    BY <1>3, <2>1
  <2> QED BY <1>4, <2>2, StackAlone
<1>5. CASE \E i \in DOMAIN list :
             Sub!Locks(t, list[i], "retry", <<x(i)>> \o Tail(stack[t]))
  <2>1. PICK i \in DOMAIN list : Sub!Locks(t, list[i], "retry", <<x(i)>> \o Tail(stack[t]))
    BY <1>5
  <2>2. i \in 0..Len(list) /\ list[i] \in Facets /\ "retry" \in CallReasons
    BY <1>2, <2>1 DEF CallReasons
  <2>3. /\ StackOK(t, <<x(i)>> \o Tail(stack[t]), gate, routed, rows, child)
        /\ <<x(i)>> \o Tail(stack[t]) # <<>> => (<<x(i)>> \o Tail(stack[t]))[1].pc \in Low
    BY <1>3, <2>2
  <2> HIDE DEF x
  <2> QED BY <2>1, <2>2, <2>3, LocksKeep
<1> QED BY <1>4, <1>5 DEF Sub!Retries, Sub!Becomes, Sub!tables

\* What SetToSeq makes of the recorded deletions is a sequence of facets.
LEMMA DeletionList ==
  ASSUME NEW S, S \subseteq Facets
  PROVE  Sub!SetToSeq(S) \in Seq(Facets)
<1>1. IsFiniteSet(S)
  <2>1. Sub!IsFiniteSet(Facets)
    BY SubAgentsAssumption DEF Sub!FacetsAssumption
  <2>2. IsFiniteSet(Facets)
    BY <2>1 DEF Sub!IsFiniteSet, IsFiniteSet
  <2> QED BY <2>2, FS_Subset
<1>2. PICK n \in Nat : ExistsBijection(1..n, S)
  BY <1>1, FS_NatBijection
<1>3. n = Cardinality(S)
  BY <1>1, <1>2, FS_CountingElements
<1>4. PICK g \in Bijection(1..n, S) : TRUE
  BY <1>2 DEF ExistsBijection
<1>5. g \in [1..Cardinality(S) -> S] /\ IsInjective(g)
  BY <1>3, <1>4 DEF Bijection, Injection, IsInjective
<1>6. Sub!SetToSeq(S) \in [1..Cardinality(S) -> S]
  <2>1. Sub!Cardinality(S) = Cardinality(S)
    BY Zenon DEF Sub!Cardinality, Cardinality
  <2> QED BY <1>5, <2>1 DEF Sub!SetToSeq, Sub!IsInjective, IsInjective
<1> QED BY <1>3, <1>6, SeqDef

LEMMA StartupKeeps ==
  ASSUME FacetInv, NEW t \in Calls,
         Sub!RetryBegins(t) \/ Sub!RetryNext(t) \/ Sub!RootStarts(t)
  PROVE  FacetInv'
<1>1. Sub!Busy(t)
  BY DEF Sub!RetryBegins, Sub!RetryNext, Sub!RootStarts, Sub!In
<1>2. CASE Sub!RetryBegins(t)
  <2>1. Sub!SetToSeq(dels) \in Seq(Facets)
    BY DeletionList DEF FacetInv, FacetTypes
  <2>2. Sub!Retries(t, Sub!SetToSeq(dels), Tail(stack[t])) /\ UNCHANGED crashes
    BY <1>2 DEF Sub!RetryBegins
  <2> QED BY <1>1, <2>1, <2>2, RetriesKeep
<1>3. CASE Sub!RetryNext(t)
  <2>1. Sub!Top(t).list \in Seq(Facets)
    BY <1>1, TopFacts DEF CallFrames
  <2>2. Sub!Retries(t, Sub!Top(t).list, Tail(stack[t])) /\ UNCHANGED crashes
    BY <1>3 DEF Sub!RetryNext
  <2> QED BY <1>1, <2>1, <2>2, RetriesKeep
<1>4. CASE Sub!RootStarts(t)
  BY <1>1, <1>4, PopKeeps DEF Sub!RootStarts, Sub!tables, Sub!bounds
<1> QED BY <1>2, <1>3, <1>4

\* The attempt fails: gates go on from those who waited for it.
LEMMA RootFailsKeeps ==
  ASSUME FacetInv, NEW t \in Calls, Sub!RootFails(t)
  PROVE  FacetInv'
<1>1. PICK failed : failed = {t} \cup {u \in Calls : Sub!NeedsRoot(u)}
  OBVIOUS
<1> DEFINE held == {f \in Facets : gate[f] # <<>> /\ Head(gate[f]) \in failed}
<1>2. /\ stack' = [u \in Calls |-> IF u \in failed THEN <<>> ELSE stack[u]]
      /\ gate' = [f \in Facets |-> IF f \in held THEN Tail(gate[f]) ELSE gate[f]]
      /\ UNCHANGED <<routed, rows, child, dels, ids>>
  BY <1>1 DEF Sub!RootFails, Sub!tables
<1>3. FacetTypes /\ Sub!OrphansAreRecorded /\ Sub!StartedChildIsListed
  BY DEF FacetInv
<1>4. gate' \in [Facets -> Seq(Calls)]
  <2>1. \A f \in held : Tail(gate[f]) \in Seq(Calls)
    BY <1>3, HeadTailProperties DEF FacetTypes
  <2> HIDE DEF held
  <2> QED BY <1>2, <1>3, <2>1 DEF FacetTypes
<1>5. Elsewhere(held, gate, routed, rows, child, gate', routed', rows', child')
  <2> HIDE DEF held
  <2> QED BY <1>2 DEF Elsewhere
<1>6. ASSUME NEW u \in Calls PROVE StackOK(u, stack'[u], gate', routed', rows', child')
  <2>1. CASE u \in failed
    BY <1>2, <2>1, EmptyStack
  <2>2. CASE u \notin failed
    <3>1. StackOK(u, stack[u], gate, routed, rows, child)
      BY DEF FacetInv
    <3>2. NoneGuards(stack[u], held)
      <4> SUFFICES ASSUME NEW i \in DOMAIN stack[u], Guarding(stack[u][i])
                   PROVE  stack[u][i].f \notin held
        BY DEF NoneGuards
      <4>1. Head(gate[stack[u][i].f]) = u
        BY <3>1 DEF StackOK, FrameOK
      <4> QED BY <2>2, <4>1
    <3> HIDE DEF held
    <3>3. StackOK(u, stack[u], gate', routed', rows', child')
      BY <1>5, <3>1, <3>2, StackPasses
    <3> QED BY <1>2, <2>2, <3>3
  <2> QED BY <2>1, <2>2
<1>7. Sub!OrphansAreRecorded' /\ Sub!StartedChildIsListed'
  BY <1>2, <1>3 DEF Sub!OrphansAreRecorded, Sub!StartedChildIsListed
<1>8. FacetTypes'
  BY <1>2, <1>3, <1>4 DEF FacetTypes
<1> QED BY <1>6, <1>7, <1>8 DEF FacetInv

LEMMA WokenKeeps ==
  ASSUME FacetInv, NEW t \in Calls, Sub!Woken(t)
  PROVE  FacetInv'
<1> DEFINE f == Sub!Top(t).f
           rest == Tail(stack[t])
<1>1. /\ Sub!Busy(t) /\ Sub!Top(t).pc = "lock" /\ gate[f] # <<>> /\ Head(gate[f]) = t
      /\ ~Sub!HoldsBelow(t, f)
      /\ Sub!ActsOrFails(t, f, Sub!Top(t).why, rest, gate[f])
  BY DEF Sub!Woken, Sub!In
<1>2. /\ StackOK(t, rest, gate, routed, rows, child) /\ f \in Facets
      /\ Sub!Top(t).why \in CallReasons
      /\ rest # <<>> => rest[1].pc \in Low
      /\ \A i \in DOMAIN rest : /\ i + 1 \in 2..Len(stack[t]) /\ rest[i] = stack[t][i + 1]
                                /\ rest[i].pc \in Low
  BY <1>1, TopFacts
<1>3. NoneGuards(rest, {f})
  <2> SUFFICES ASSUME NEW i \in DOMAIN rest, Guarding(rest[i]), rest[i].f = f PROVE FALSE
    BY DEF NoneGuards
  <2>1. /\ i + 1 \in 2..Len(stack[t]) /\ rest[i] = stack[t][i + 1] /\ rest[i].pc \in Low
    BY <1>2
  <2>2. rest[i].pc \in {"schedules", "tasks"}
    BY <2>1 DEF Guarding, Low
  <2> QED BY <1>1, <2>1, <2>2 DEF Sub!HoldsBelow
<1>4. \A u \in Calls : u # t => NoneGuards(stack[u], {f})
  BY <1>1, <1>2, GuardsAlone
<1>5. gate[f] \in Seq(Calls)
  BY <1>2 DEF FacetInv, FacetTypes
<1> HIDE DEF f, rest
<1> QED BY <1>1, <1>2, <1>3, <1>4, <1>5, ActsKeep

LEMMA ChildStartsKeeps ==
  ASSUME FacetInv, NEW t \in Calls, Sub!ChildStarts(t)
  PROVE  FacetInv'
<1> DEFINE f == Sub!Top(t).f
           x == [Sub!Top(t) EXCEPT !.pc = "booted"]
           rest == Tail(stack[t])
<1>1. /\ Sub!Busy(t) /\ Sub!Top(t).pc = "boot" /\ child' = [child EXCEPT ![f] = "started"]
      /\ Sub!Moves(t, x) /\ UNCHANGED <<gate, routed, rows, dels, ids>>
  BY DEF Sub!ChildStarts, Sub!In, Sub!bounds
<1>2. /\ StackOK(t, rest, gate, routed, rows, child) /\ f \in Facets
      /\ stack[t] \in Seq(CallFrames) /\ stack[t] # <<>>
      /\ rest # <<>> => rest[1].pc \in Low
      /\ Sub!Top(t) \in CallFrames /\ FrameOK(t, Sub!Top(t), gate, routed, rows, child)
      /\ Guarding(Sub!Top(t)) => NoneGuards(rest, {f})
  BY <1>1, TopFacts
<1>3. gate[f] # <<>> /\ Head(gate[f]) = t /\ f \in rows /\ NoneGuards(rest, {f})
  BY <1>1, <1>2 DEF FrameOK, Guarding
<1>4. \A u \in Calls : u # t => NoneGuards(stack[u], {f})
  BY <1>2, <1>3, GuardsAlone
<1>5. x \in CallFrames /\ x.pc = "booted" /\ x.f = f
  <2>1. "booted" \in CallPlaces
    BY DEF CallPlaces
  <2> QED BY <1>2, <2>1 DEF CallFrames
<1>6. stack' = [stack EXCEPT ![t] = [stack[t] EXCEPT ![1] = x]]
  BY <1>1 DEF Sub!Moves, FacetInv, FacetTypes
<1> HIDE DEF f, x, rest
<1>7. FacetTypes /\ Sub!OrphansAreRecorded /\ Sub!StartedChildIsListed
  BY DEF FacetInv
<1>8. /\ child' \in [Facets -> {"none", "stored", "started"}]
      /\ \A g \in Facets : g # f => child'[g] = child[g]
  BY <1>1, <1>7 DEF FacetTypes
<1>9. Elsewhere({f}, gate, routed, rows, child, gate', routed', rows', child')
  BY <1>1, <1>8 DEF Elsewhere
<1>10. StackOK(t, rest, gate', routed', rows', child')
  BY <1>2, <1>3, <1>9, StackPasses
<1>11. FrameOK(t, x, gate', routed', rows', child')
  BY <1>1, <1>3, <1>5 DEF FrameOK
<1>12. StackOK(t, <<x>> \o rest, gate', routed', rows', child')
  BY <1>2, <1>3, <1>5, <1>10, <1>11, Pushed
<1>13. [stack[t] EXCEPT ![1] = x] = <<x>> \o rest
  BY <1>2, <1>5, TopReplaced DEF rest
<1>14. DOMAIN stack' = Calls /\ \A u \in Calls : StackOK(u, stack'[u], gate', routed', rows', child')
  BY <1>4, <1>6, <1>9, <1>12, <1>13, CallLands
<1>15. Sub!OrphansAreRecorded' /\ Sub!StartedChildIsListed'
  BY <1>1, <1>3, <1>7, <1>8 DEF Sub!OrphansAreRecorded, Sub!StartedChildIsListed
<1>16. FacetTypes'
  BY <1>1, <1>7, <1>8, <1>14 DEF FacetTypes
<1> QED BY <1>14, <1>15, <1>16 DEF FacetInv

LEMMA BootEndsKeep ==
  ASSUME FacetInv, NEW t \in Calls, Sub!Spawned(t) \/ Sub!BootFails(t)
  PROVE  FacetInv'
<1>1. /\ Sub!Busy(t) /\ Sub!Top(t).pc \in {"boot", "booted"} /\ Sub!Pops(t) /\ Sub!Leaves(Sub!Top(t).f)
      /\ UNCHANGED <<routed, child, dels, ids>>
  BY DEF Sub!Spawned, Sub!BootFails, Sub!In, Sub!tables, Sub!bounds
<1>2. Guarding(Sub!Top(t)) /\ FrameOK(t, Sub!Top(t), gate, routed, rows, child)
  BY <1>1, TopFacts DEF Guarding
<1>3. FacetTypes /\ Sub!OrphansAreRecorded /\ Sub!StartedChildIsListed
  BY DEF FacetInv
<1>4. Sub!OrphansAreRecorded' /\ dels' \subseteq Facets
  BY <1>1, <1>3 DEF Sub!OrphansAreRecorded, FacetTypes
<1>5. \/ rows' = rows
      \/ rows' = rows \ {Sub!Top(t).f} /\ child[Sub!Top(t).f] # "started"
  <2>1. CASE Sub!Spawned(t)
    BY <2>1 DEF Sub!Spawned, Sub!tables
  <2>2. CASE Sub!BootFails(t)
    <3>1. Sub!Top(t).pc = "boot" /\ rows' = IF Sub!Top(t).existed THEN rows ELSE rows \ {Sub!Top(t).f}
      BY <2>2 DEF Sub!BootFails, Sub!In
    <3> QED BY <1>2, <3>1 DEF FrameOK
  <2> QED BY <2>1, <2>2
<1>6. \A g \in Facets : g # Sub!Top(t).f => (g \in rows => g \in rows')
  BY <1>5
<1>7. Sub!StartedChildIsListed'
  BY <1>1, <1>3, <1>5 DEF Sub!StartedChildIsListed
<1> QED BY <1>1, <1>2, <1>4, <1>6, <1>7, LeavesKeep

LEMMA CancelsKeep ==
  ASSUME FacetInv, NEW t \in Calls, Sub!Cancels(t)
  PROVE  FacetInv'
<1>1. Sub!Busy(t) /\ Sub!Top(t).pc \in {"schedules", "tasks"}
      /\ UNCHANGED <<gate, rows, dels, child, ids>>
  BY DEF Sub!Cancels, Sub!Cleaning, Sub!bounds
<1>2. PICK id \in Sub!Top(t).todo :
        /\ routed' = [i \in DOMAIN routed \ {id} |-> routed[i]]
        /\ Sub!Moves(t, [Sub!Top(t) EXCEPT !.todo = @ \ {id}])
  BY DEF Sub!Cancels
<1> DEFINE todo == Sub!Top(t).todo \ {id}
           x == [Sub!Top(t) EXCEPT !.todo = todo]
           rest == Tail(stack[t])
<1>3. /\ StackOK(t, rest, gate, routed, rows, child)
      /\ stack[t] \in Seq(CallFrames) /\ stack[t] # <<>>
      /\ rest # <<>> => rest[1].pc \in Low
      /\ Sub!Top(t) \in CallFrames /\ FrameOK(t, Sub!Top(t), gate, routed, rows, child)
      /\ Guarding(Sub!Top(t)) => NoneGuards(rest, {Sub!Top(t).f})
  BY <1>1, TopFacts
<1>4. /\ x \in CallFrames /\ x.f = Sub!Top(t).f /\ x.pc = Sub!Top(t).pc /\ x.why = Sub!Top(t).why
      /\ x.existed = Sub!Top(t).existed /\ x.todo = Sub!Top(t).todo \ {id}
  BY <1>3 DEF CallFrames
<1>5. stack' = [stack EXCEPT ![t] = [stack[t] EXCEPT ![1] = x]]
  BY <1>2 DEF Sub!Moves, FacetInv, FacetTypes
<1> HIDE DEF x, rest
<1>6. FacetTypes /\ Sub!OrphansAreRecorded /\ Sub!StartedChildIsListed
  BY DEF FacetInv
<1>7. DOMAIN routed' = DOMAIN routed \ {id} /\ \A i \in DOMAIN routed' : routed'[i] = routed[i]
  BY <1>2
<1>8. Elsewhere({}, gate, routed, rows, child, gate', routed', rows', child')
  BY <1>1, <1>7 DEF Elsewhere
<1>9. NoneGuards(rest, {}) /\ \A u \in Calls : NoneGuards(stack[u], {})
  BY DEF NoneGuards
<1>10. StackOK(t, rest, gate', routed', rows', child')
  BY <1>3, <1>8, <1>9, StackPasses
<1>11. FrameOK(t, x, gate', routed', rows', child')
  BY <1>1, <1>3, <1>4, <1>7 DEF FrameOK, Guarding
<1>12. Guarding(x) => NoneGuards(rest, {x.f})
  BY <1>3, <1>4 DEF Guarding
<1>13. StackOK(t, <<x>> \o rest, gate', routed', rows', child')
  BY <1>3, <1>4, <1>10, <1>11, <1>12, Pushed
<1>14. [stack[t] EXCEPT ![1] = x] = <<x>> \o rest
  BY <1>3, <1>4, TopReplaced DEF rest
<1>15. DOMAIN stack' = Calls /\ \A u \in Calls : StackOK(u, stack'[u], gate', routed', rows', child')
  BY <1>5, <1>8, <1>9, <1>13, <1>14, CallLands
<1>16. Sub!OrphansAreRecorded' /\ Sub!StartedChildIsListed'
  BY <1>1, <1>6, <1>7 DEF Sub!OrphansAreRecorded, Sub!StartedChildIsListed
<1>17. FacetTypes'
  BY <1>1, <1>6, <1>7, <1>15 DEF FacetTypes
<1> QED BY <1>15, <1>16, <1>17 DEF FacetInv

\* The schedules are cancelled: what is left of the facet's jobs are tasks.
LEMMA SchedulesCleanedKeeps ==
  ASSUME FacetInv, NEW t \in Calls, Sub!SchedulesCleaned(t)
  PROVE  FacetInv'
<1> DEFINE f == Sub!Top(t).f
           todo == Sub!JobsOf(f, "task")
           x == [Sub!Top(t) EXCEPT !.pc = "tasks", !.todo = todo]
<1>1. /\ Sub!Busy(t) /\ Sub!Top(t).pc = "schedules" /\ Sub!Top(t).todo = {} /\ Sub!Moves(t, x)
      /\ UNCHANGED <<gate, routed, rows, child, dels, ids>>
  BY DEF Sub!SchedulesCleaned, Sub!In, Sub!tables, Sub!bounds
<1>2. Sub!Top(t) \in CallFrames /\ FrameOK(t, Sub!Top(t), gate, routed, rows, child)
  BY <1>1, TopFacts
<1>3. todo \in SUBSET Nat /\ \A id \in DOMAIN routed : routed[id].kind \in {"schedule", "task"}
  BY DEF FacetInv, FacetTypes, Sub!JobsOf, JobRecords
<1>4. stack' = [stack EXCEPT ![t] = [stack[t] EXCEPT ![1] = x]]
  BY <1>1 DEF Sub!Moves, FacetInv, FacetTypes
<1>5. \A id \in DOMAIN routed : routed[id].facet = f /\ routed[id].kind = "task" => id \in todo
  BY DEF Sub!JobsOf
<1>6. x \in CallFrames /\ x.pc = "tasks" /\ x.f = f /\ x.todo = todo /\ x.why = Sub!Top(t).why
  <2>1. "tasks" \in CallPlaces
    BY DEF CallPlaces
  <2> HIDE DEF todo
  <2> QED BY <1>2, <1>3, <2>1 DEF CallFrames
<1> HIDE DEF x, todo, f
<1>7. Guarding(x) => Guarding(Sub!Top(t)) /\ x.f = Sub!Top(t).f
  BY <1>1, <1>6 DEF Guarding, f
<1>8. FrameOK(t, x, gate, routed, rows, child)
  <2> SUFFICES ASSUME Guarding(x) PROVE FrameOK(t, x, gate, routed, rows, child)
    BY DEF FrameOK
  <2>1. \A id \in DOMAIN routed : routed[id].facet = f => routed[id].kind # "schedule"
    BY <1>1, <1>2, <1>7 DEF FrameOK, f
  <2>2. gate[f] # <<>> /\ Head(gate[f]) = t
    BY <1>2, <1>7 DEF FrameOK, f
  <2> QED BY <1>3, <1>5, <1>6, <2>1, <2>2 DEF FrameOK
<1> QED BY <1>1, <1>4, <1>6, <1>7, <1>8, MovesKeep

\* Nothing of the facet is left, so that its deletion may be forgotten.
LEMMA CleanedKeeps ==
  ASSUME FacetInv, NEW t \in Calls, Sub!Cleaned(t)
  PROVE  FacetInv'
<1> DEFINE f == Sub!Top(t).f
           rest == Tail(stack[t])
<1>1. /\ Sub!Busy(t) /\ Sub!Top(t).pc = "tasks" /\ Sub!Top(t).todo = {} /\ UNCHANGED <<routed, ids>>
  BY DEF Sub!Cleaned, Sub!In, Sub!bounds
<1>2. FacetTypes /\ Sub!OrphansAreRecorded /\ Sub!StartedChildIsListed
  BY DEF FacetInv
<1>3. /\ FrameOK(t, Sub!Top(t), gate, routed, rows, child) /\ f \in Facets /\ Sub!Top(t).why \in CallReasons
      /\ StackOK(t, rest, gate, routed, rows, child)
      /\ rest # <<>> => rest[1].pc \in Low
      /\ Guarding(Sub!Top(t)) => NoneGuards(rest, {f})
  BY <1>1, TopFacts
<1>4. CASE Sub!Pops(t) /\ UNCHANGED <<dels, active, gate, rows, child>>
  BY <1>1, <1>4, PopKeeps
<1>5. CASE Sub!Gated(t) /\ dels' = dels \ {f}
  <2>1. Guarding(Sub!Top(t))
    BY <1>1, <1>5 DEF Sub!Gated, Guarding
  <2>2. \A id \in DOMAIN routed : routed[id].facet # f
    BY <1>1, <1>3, <2>1 DEF FrameOK
  <2>3. Sub!OrphansAreRecorded' /\ dels' \subseteq Facets
    BY <1>1, <1>2, <1>5, <2>2 DEF Sub!OrphansAreRecorded, FacetTypes
  <2>4. gate[f] # <<>> /\ Head(gate[f]) = t /\ NoneGuards(rest, {f})
    BY <1>3, <2>1 DEF FrameOK
  <2>5. \A u \in Calls : u # t => NoneGuards(stack[u], {f})
    BY <1>3, <2>4, GuardsAlone
  <2>6. CASE gate' = gate /\ Sub!Bootstraps(t, f, Sub!Top(t).why, rest)
    <3>1. gate' \in [Facets -> Seq(Calls)]
      BY <1>2, <2>6 DEF FacetTypes
    <3> HIDE DEF f, rest
    <3> QED BY <1>1, <1>3, <2>3, <2>4, <2>5, <2>6, <3>1, BootstrapsKeep
  <2>7. CASE Sub!Pops(t) /\ Sub!Leaves(f) /\ UNCHANGED <<rows, child>>
    <3>1. Sub!StartedChildIsListed'
      BY <1>2, <2>7 DEF Sub!StartedChildIsListed
    <3> QED BY <1>1, <2>1, <2>3, <2>7, <3>1, LeavesKeep
  <2> QED BY <1>5, <2>6, <2>7 DEF Sub!Cleaned
<1> QED BY <1>4, <1>5 DEF Sub!Cleaned

LEMMA CleanupFailsKeeps ==
  ASSUME FacetInv, NEW t \in Calls, Sub!CleanupFails(t)
  PROVE  FacetInv'
<1>1. /\ Sub!Busy(t) /\ Sub!Top(t).pc \in {"schedules", "tasks"} /\ Sub!Pops(t)
      /\ UNCHANGED <<routed, rows, child, dels, ids>>
  BY DEF Sub!CleanupFails, Sub!Cleaning, Sub!tables
<1>2. CASE UNCHANGED gate
  BY <1>1, <1>2, PopKeeps
<1>3. CASE Sub!Gated(t) /\ Sub!Leaves(Sub!Top(t).f)
  <2>1. Guarding(Sub!Top(t))
    BY <1>1, <1>3 DEF Guarding, Sub!Gated
  <2>2. /\ Sub!OrphansAreRecorded' /\ Sub!StartedChildIsListed' /\ dels' \subseteq Facets
    BY <1>1 DEF FacetInv, FacetTypes, Sub!OrphansAreRecorded, Sub!StartedChildIsListed
  <2> QED BY <1>1, <1>3, <2>1, <2>2, LeavesKeep
<1> QED BY <1>2, <1>3 DEF Sub!CleanupFails

LEMMA CrashKeeps == ASSUME FacetInv, Sub!Crash PROVE FacetInv'
<1>1. /\ gate' = [f \in Facets |-> <<>>] /\ stack' = [t \in Calls |-> <<>>]
      /\ UNCHANGED <<routed, rows, child, dels, ids>>
  BY DEF Sub!Crash, Sub!tables
<1>2. \A t \in Calls : StackOK(t, stack'[t], gate', routed', rows', child')
  BY <1>1, EmptyStack
<1>3. gate' \in [Facets -> Seq(Calls)]
  BY <1>1, EmptySeq
<1> QED BY <1>1, <1>2, <1>3
        DEF FacetInv, FacetTypes, Sub!OrphansAreRecorded, Sub!StartedChildIsListed

-----------------------------------------------------------------------------
LEMMA FacetsStart == Sub!Init => FacetInv
<1> SUFFICES ASSUME Sub!Init PROVE FacetInv
  OBVIOUS
<1>1. /\ rows = {} /\ dels = {} /\ routed = <<>> /\ child = [f \in Facets |-> "none"] /\ ids = 0
      /\ gate = [f \in Facets |-> <<>>] /\ stack = [t \in Calls |-> <<>>]
  BY DEF Sub!Init
<1>2. DOMAIN routed = {}
  BY <1>1, EmptySeq
<1>3. \A t \in Calls : StackOK(t, stack[t], gate, routed, rows, child)
  BY <1>1, EmptyStack
<1>4. gate \in [Facets -> Seq(Calls)]
  BY <1>1, EmptySeq
<1> QED BY <1>1, <1>2, <1>3, <1>4
        DEF FacetInv, FacetTypes, Sub!OrphansAreRecorded, Sub!StartedChildIsListed

LEMMA FacetsStep == FacetInv /\ [Sub!Next]_(Sub!vars) => FacetInv'
<1> SUFFICES ASSUME FacetInv, [Sub!Next]_(Sub!vars) PROVE FacetInv'
  OBVIOUS
<1>1. CASE UNCHANGED Sub!vars
  BY <1>1 DEF FacetInv, FacetTypes, Sub!OrphansAreRecorded, Sub!StartedChildIsListed, Sub!vars,
              Sub!tables, Sub!bounds
<1>2. ASSUME NEW t \in Calls, Sub!Spawn(t) \/ Sub!Asks(t) \/ Sub!Admitted(t) \/ Sub!StaleRoute(t)
      PROVE  FacetInv'
  BY <1>2, SpawnKeeps, AsksKeeps, AdmittedKeeps, StaleRouteKeeps
<1>3. ASSUME NEW t \in Calls,
             \/ Sub!StartsRoot(t) \/ Sub!RetryBegins(t) \/ Sub!RetryNext(t) \/ Sub!RootStarts(t)
             \/ Sub!RootFails(t)
      PROVE  FacetInv'
  BY <1>3, StartsRootKeeps, StartupKeeps, RootFailsKeeps
<1>4. ASSUME NEW t \in Calls,
             Sub!Woken(t) \/ Sub!ChildStarts(t) \/ Sub!Spawned(t) \/ Sub!BootFails(t)
      PROVE  FacetInv'
  BY <1>4, WokenKeeps, ChildStartsKeeps, BootEndsKeep
<1>5. ASSUME NEW t \in Calls,
             Sub!Cancels(t) \/ Sub!SchedulesCleaned(t) \/ Sub!Cleaned(t) \/ Sub!CleanupFails(t)
      PROVE  FacetInv'
  BY <1>5, CancelsKeep, SchedulesCleanedKeeps, CleanedKeeps, CleanupFailsKeeps
<1> QED BY <1>1, <1>2, <1>3, <1>4, <1>5, CrashKeeps DEF Sub!Next

\* What exists of a child is recorded until it is gone, whatever call, startup or
\* cleanup is interrupted: a job of a destroyed child stays no longer than the
\* deletion that destroyed it is recorded, and a child that was started is listed.
THEOREM ChildrenStayRecorded == Sub!Spec => []ChildrenAreRecorded
<1>1. FacetInv /\ [Sub!Next]_(Sub!vars) => FacetInv'
  BY FacetsStep
<1>2. FacetInv => ChildrenAreRecorded
  BY DEF FacetInv, ChildrenAreRecorded, Sub!ChildrenAreRecorded
<1> QED BY <1>1, <1>2, FacetsStart, PTL DEF Sub!Spec

=============================================================================

--------------------------- MODULE Scheduler_proofs ---------------------------
(***************************************************************************)
(* Proofs about Scheduler: a recurring schedule has one row, and a callback *)
(* is not called again once its facet learnt of the cancellation.  For any  *)
(* number of schedules, facets, executions, calls, evictions and attempts.  *)
(***************************************************************************)
EXTENDS Scheduler, TLAPS

-----------------------------------------------------------------------------
(* The inductive invariant.                                                *)

KindsOfRows == {"once", "interval", "cron"}
Phases      == {"sent", "ready", "calling", "backoff", "done", "failed"}
AtFacet     == {"ready", "calling", "backoff"}

Executions == [id: Ids, owner: Owners, kind: KindsOfRows, attempt: Nat, phase: Phases,
               orphan: BOOLEAN]
SetCalls == [op: {"set"}, owner: Facets, kind: KindsOfRows, idempotent: BOOLEAN,
             at: {"sent", "answered"}, ok: BOOLEAN]
CancelCalls == [op: {"cancel"}, owner: Facets, id: Ids, at: {"sent", "answered"}, ok: BOOLEAN]
Legacies == [rows: SUBSET Ids, malformed: BOOLEAN, current: BOOLEAN]

\* The table, its ids and the clock have their types.
TableTypes ==
  /\ jobs \in [Ids -> Rows \union {NoJob}]
  /\ used \subseteq Ids /\ awaited \subseteq Ids
  /\ started \in {"no", "version", "yes"} /\ legacy \in Legacies
  /\ now \in 0..Interval - 1

\* So do the executions and the notes of the facets.
ExecTypes ==
  /\ execs \in [Execs -> Executions \union {Idle}]
  /\ executing \in [Facets -> SUBSET Ids] /\ cancelled \in [Facets -> SUBSET Ids]

\* A recurring schedule is asked for idempotently.
CallTypes ==
  /\ calls \in [Callers -> SetCalls \union CancelCalls \union {NoCall}]
  /\ \A c \in Callers : calls[c].op = "set" /\ calls[c].kind # "once" => calls[c].idempotent = TRUE

\* What has an id got it from the table.
IdsAreUsed ==
  /\ \A id \in Ids : jobs[id] # NoJob => id \in used
  /\ \A e \in Execs : Active(e) => execs[e].id \in used
  /\ \A f \in Facets : executing[f] \subseteq used

\* An id stands for one schedule, of one owner, as long as anything has it.
OwnersAgree ==
  /\ \A e \in Execs : Active(e) /\ jobs[execs[e].id] # NoJob => jobs[execs[e].id].owner = Owner(e)
  /\ \A d, e \in Execs : Active(d) /\ Active(e) /\ execs[d].id = execs[e].id => Owner(d) = Owner(e)
  /\ \A f \in Facets : \A id \in executing[f] : jobs[id] # NoJob => jobs[id].owner = f
  /\ \A f \in Facets : \A e \in Execs : Active(e) /\ execs[e].id \in executing[f] => Owner(e) = f

\* What a facet was told to stop is marked over there as long as it goes on.
DoomedAreMarked ==
  \A e \in doomed :
    /\ e \in Execs /\ execs[e].phase \in AtFacet
    /\ Owner(e) \in Facets /\ execs[e].id \in cancelled[Owner(e)]

\* The rows of an older version have ids of their own, and are the first.
LegacyFirst ==
  /\ legacy.rows \subseteq Legacy /\ legacy.rows \cap used = {}
  /\ legacy.rows # {} /\ legacy.malformed = FALSE => started = "no" /\ used = {}
  /\ legacy.current = TRUE => legacy.rows = {} \/ legacy.malformed = TRUE

AllTypes == TableTypes /\ ExecTypes /\ CallTypes
SchedulerInv == AllTypes /\ IdsAreUsed /\ OwnersAgree /\ DoomedAreMarked /\ LegacyFirst

-----------------------------------------------------------------------------
(* Moves: what the actions do to the table, and to the executions.         *)

\* Rows go, or stay what they are.
RowsKept ==
  /\ used' = used
  /\ \A id \in Ids : jobs'[id] # NoJob =>
       /\ jobs[id] # NoJob
       /\ jobs'[id].owner = jobs[id].owner /\ jobs'[id].kind = jobs[id].kind

\* One row comes, under a new id; a recurring one only if there is none of it.
RowAdded ==
  \E id \in Ids \ (used \union legacy.rows), owner \in Owners, kind \in KindsOfRows :
    /\ jobs' = [jobs EXCEPT ![id] = Row(owner, kind, Delay(kind))]
    /\ used' = used \union {id}
    /\ awaited' = awaited \union {id}
    /\ kind # "once" => Matching(owner, kind) = {}

\* The rows of an older version come, when there are no others.
RowsMigrated ==
  /\ legacy.malformed = FALSE /\ started = "no"
  /\ jobs' = [id \in Ids |-> IF id \in legacy.rows THEN Row(Root, "cron", 0) ELSE jobs[id]]
  /\ used' = used \union legacy.rows
  /\ legacy'.rows = {}

\* Executions go on or end, and facets forget.
ExecsGoOn ==
  \A e \in Execs : execs'[e].phase # "idle" =>
    /\ Active(e)
    /\ execs'[e].id = execs[e].id /\ execs'[e].owner = execs[e].owner
NotesGo == \A f \in Facets : executing'[f] \subseteq executing[f]

\* An execution ends: what is left of it is for its driver, if it has one.
LEMMA EndingExecution ==
  ASSUME AllTypes, NEW e \in Execs, Ends(e)
  PROVE  /\ \E x \in {Idle, [execs[e] EXCEPT !.phase = "done"]} : execs' = [execs EXCEPT ![e] = x]
         /\ doomed' = {d \in doomed \ {e} : execs[d].id # execs[e].id}
         /\ \/ UNCHANGED facets
            \/ /\ Owner(e) # Root
               /\ executing' = [executing EXCEPT ![Owner(e)] = executing[Owner(e)] \ {execs[e].id}]
               /\ cancelled' = [cancelled EXCEPT ![Owner(e)] = cancelled[Owner(e)] \ {execs[e].id}]
<1>1. \E x \in {Idle, [execs[e] EXCEPT !.phase = "done"]} : execs' = [execs EXCEPT ![e] = x]
  <2>1. execs' = [execs EXCEPT ![e] = IF execs[e].orphan THEN Idle
                                      ELSE [execs[e] EXCEPT !.phase = "done"]]
    BY DEF Ends
  <2>2. CASE execs[e].orphan  BY <2>1, <2>2, Zenon
  <2>3. CASE ~execs[e].orphan  BY <2>1, <2>3, Zenon
  <2> QED  BY <2>2, <2>3
<1>2. doomed' = {d \in doomed \ {e} : execs[d].id # execs[e].id}  BY DEF Ends
<1>3. CASE Owner(e) = Root
  <2>1. UNCHANGED facets  BY <1>3 DEF Ends
  <2> QED  BY <1>1, <1>2, <2>1
<1>4. CASE Owner(e) # Root
  <2>1. /\ executing' = [executing EXCEPT ![Owner(e)] = executing[Owner(e)] \ {execs[e].id}]
        /\ cancelled' = [cancelled EXCEPT ![Owner(e)] = cancelled[Owner(e)] \ {execs[e].id}]
    BY <1>4 DEF Ends
  <2> QED  BY <1>1, <1>2, <1>4, <2>1
<1> QED  BY <1>3, <1>4

\* Inserting adds a row, or finds one.
LEMMA InsertMoves ==
  ASSUME AllTypes, NEW owner \in Owners, NEW kind \in KindsOfRows, NEW idempotent,
         kind # "once" => idempotent = TRUE,
         Insert(owner, kind, idempotent)
  PROVE  \/ RowAdded
         \/ UNCHANGED <<jobs, used>> /\ awaited' \subseteq Ids
<1>1. CASE idempotent /\ Matching(owner, kind) # {}
  <2>1. Found(owner, kind)  BY <1>1 DEF Insert
  <2> QED  BY <2>1 DEF Found, Matching, AllTypes, TableTypes
<1>2. CASE ~(idempotent /\ Matching(owner, kind) # {})
  <2>1. Created(owner, kind)  BY <1>2 DEF Insert
  <2>2. kind # "once" => Matching(owner, kind) = {}  BY <1>2
  <2>3. PICK id \in Fresh : /\ jobs' = [jobs EXCEPT ![id] = Row(owner, kind, Delay(kind))]
                            /\ used' = used \union {id}
                            /\ awaited' = awaited \union {id}
    BY <2>1 DEF Created
  <2> QED  BY <2>2, <2>3 DEF RowAdded, Fresh
<1> QED  BY <1>1, <1>2

LEMMA CancelledMoves ==
  ASSUME AllTypes, NEW id \in Ids, NEW owner, Cancelled(id, owner), UNCHANGED used
  PROVE  RowsKept /\ awaited' \subseteq Ids /\ jobs' \in [Ids -> Rows \union {NoJob}]
BY DEF Cancelled, RowsKept, AllTypes, TableTypes

-----------------------------------------------------------------------------
(* Types.                                                                  *)

LEMMA DelayIsTime ==
  ASSUME now \in 0..Interval - 1, NEW kind \in KindsOfRows
  PROVE  Delay(kind) \in 0..Interval
BY SchedulerAssumption DEF Delay, KindsOfRows

LEMMA RowTyped ==
  ASSUME NEW owner \in Owners, NEW kind \in KindsOfRows, NEW left \in 0..Interval
  PROVE  /\ Row(owner, kind, left) \in Rows
         /\ Row(owner, kind, left).owner = owner /\ Row(owner, kind, left).kind = kind
BY SchedulerAssumption DEF Row, Rows, KindsOfRows

LEMMA Bounds == Interval \in Nat \ {0} /\ 0 \in 0..Interval /\ 0 \in 0..HungTimeout
<1>1. Interval \in Nat \ {0} /\ HungTimeout \in Nat \ {0}  BY SchedulerAssumption
<1> QED  BY <1>1

\* The columns an execution changes are not those that tell schedules apart.
LEMMA RowChanged ==
  ASSUME NEW row \in Rows, NEW claim \in Execs \union {NoExec}
  PROVE  /\ [row EXCEPT !.claim = claim, !.age = 0] \in Rows
         /\ [row EXCEPT !.claim = claim, !.age = 0].owner = row.owner
         /\ [row EXCEPT !.claim = claim, !.age = 0].kind = row.kind
BY Bounds DEF Rows

LEMMA RowAgain ==
  ASSUME NEW row \in Rows, NEW left \in 0..Interval
  PROVE  /\ [row EXCEPT !.claim = NoExec, !.age = 0, !.left = left] \in Rows
         /\ [row EXCEPT !.claim = NoExec, !.age = 0, !.left = left].owner = row.owner
         /\ [row EXCEPT !.claim = NoExec, !.age = 0, !.left = left].kind = row.kind
BY Bounds DEF Rows

LEMMA AddedTyped ==
  ASSUME AllTypes, RowAdded
  PROVE  /\ jobs' \in [Ids -> Rows \union {NoJob}]
         /\ used' \subseteq Ids /\ awaited' \subseteq Ids
<1>1. PICK id \in Ids \ (used \union legacy.rows), owner \in Owners, kind \in KindsOfRows :
        /\ jobs' = [jobs EXCEPT ![id] = Row(owner, kind, Delay(kind))]
        /\ used' = used \union {id}
        /\ awaited' = awaited \union {id}
  BY DEF RowAdded
<1>2. Row(owner, kind, Delay(kind)) \in Rows
  BY DelayIsTime, RowTyped DEF AllTypes, TableTypes
<1> QED  BY <1>1, <1>2 DEF AllTypes, TableTypes

LEMMA SettleMoves ==
  ASSUME AllTypes, NEW e \in Execs, Settle(e)
  PROVE  RowsKept /\ jobs' \in [Ids -> Rows \union {NoJob}]
<1>1. execs[e] \in Executions  BY DEF Settle, AllTypes, ExecTypes, Idle
<1>2. PICK id \in Ids : id = execs[e].id  BY <1>1 DEF Executions
<1>0. execs[e].kind \in KindsOfRows  BY <1>1 DEF Executions
<1>3. CASE ~Mine(e)  BY <1>3 DEF Settle, RowsKept, AllTypes, TableTypes
<1>4. CASE Mine(e)
  <2>1. PICK row \in Rows : row = jobs[id] /\ row # NoJob
    BY <1>2, <1>4 DEF Mine, AllTypes, TableTypes
  <2>2. jobs' = [jobs EXCEPT ![id] = Outcome(e)]  BY <1>2, <1>4 DEF Settle
  <2>3. \/ Outcome(e) = NoJob
        \/ /\ Outcome(e) \in Rows
           /\ Outcome(e).owner = row.owner /\ Outcome(e).kind = row.kind
    <3>1. CASE execs[e].phase = "failed"
      <4>1. Outcome(e) = [row EXCEPT !.claim = NoExec, !.age = 0]  BY <1>2, <2>1, <3>1 DEF Outcome
      <4> DEFINE free == [row EXCEPT !.claim = NoExec, !.age = 0]
      <4>3. Outcome(e) = free  BY <4>1
      <4>2. free \in Rows /\ free.owner = row.owner /\ free.kind = row.kind  BY RowChanged
      <4> HIDE DEF free
      <4> QED  BY <4>2, <4>3
    <3>2. CASE execs[e].phase # "failed" /\ row.kind = "once"  BY <1>2, <2>1, <3>2 DEF Outcome
    <3>3. CASE execs[e].phase # "failed" /\ row.kind # "once"
      <4>1. PICK d \in 0..Interval : d = Delay(execs[e].kind)
        BY <1>0, DelayIsTime DEF AllTypes, TableTypes
      <4>2. Outcome(e) = [row EXCEPT !.claim = NoExec, !.age = 0, !.left = d]
        BY <1>2, <2>1, <3>3, <4>1 DEF Outcome
      <4> DEFINE next == [row EXCEPT !.claim = NoExec, !.age = 0, !.left = d]
      <4>3. next \in Rows /\ next.owner = row.owner /\ next.kind = row.kind  BY RowAgain
      <4>4. Outcome(e) = next  BY <4>2
      <4> HIDE DEF next
      <4> QED  BY <4>3, <4>4
    <3> QED  BY <3>1, <3>2, <3>3
  <2>4. jobs' \in [Ids -> Rows \union {NoJob}]
    BY <1>2, <2>2, <2>3 DEF AllTypes, TableTypes
  <2>5. \A i \in Ids : jobs'[i] = IF i = id THEN Outcome(e) ELSE jobs[i]
    BY <1>2, <2>2 DEF AllTypes, TableTypes
  <2>6. RowsKept  BY <2>1, <2>3, <2>5 DEF RowsKept, Settle
  <2> QED  BY <2>4, <2>6
<1> QED  BY <1>3, <1>4

LEMMA TickMoves ==
  ASSUME AllTypes, Tick
  PROVE  RowsKept /\ jobs' \in [Ids -> Rows \union {NoJob}] /\ now' \in 0..Interval - 1
<1>1. now' \in 0..Interval - 1
  <2>1. now' = (now + 1) % Interval  BY DEF Tick
  <2>2. now \in Nat  BY Bounds DEF AllTypes, TableTypes
  <2> QED  BY <2>1, <2>2, Bounds
<1>2. ASSUME NEW id \in Ids, jobs[id] # NoJob
      PROVE  /\ jobs'[id] \in Rows
             /\ jobs'[id].owner = jobs[id].owner /\ jobs'[id].kind = jobs[id].kind
  <2>1. jobs[id] \in Rows  BY <1>2 DEF AllTypes, TableTypes
  <2>2. PICK left \in 0..Interval : left = IF jobs[id].left = 0 THEN 0 ELSE jobs[id].left - 1
    BY <2>1, SchedulerAssumption DEF Rows
  <2>3. PICK age \in 0..HungTimeout : age = IF Ages(id) THEN jobs[id].age + 1 ELSE jobs[id].age
    BY <2>1, SchedulerAssumption DEF Rows, Ages
  <2>4. jobs'[id] = [jobs[id] EXCEPT !.left = left, !.age = age]
    BY <1>2, <2>2, <2>3 DEF Tick
  <2> QED  BY <2>1, <2>4 DEF Rows
<1>3. \A id \in Ids : jobs[id] = NoJob => jobs'[id] = NoJob  BY DEF Tick
<1>4. jobs' = [id \in Ids |-> jobs'[id]]  BY DEF Tick
<1>5. jobs' \in [Ids -> Rows \union {NoJob}]
  <2>1. \A id \in Ids : jobs'[id] \in Rows \union {NoJob}  BY <1>2, <1>3
  <2> QED  BY <1>4, <2>1
<1>6. RowsKept  BY <1>2, <1>3 DEF RowsKept, Tick
<1> QED  BY <1>1, <1>5, <1>6

LEMMA DispatchMoves ==
  ASSUME AllTypes, NEW e \in Execs, NEW id \in Ids, Dispatch(e, id)
  PROVE  /\ RowsKept /\ jobs' \in [Ids -> Rows \union {NoJob}]
         /\ jobs[id] # NoJob /\ ~Active(e)
         /\ \E x \in Executions : /\ execs' = [execs EXCEPT ![e] = x]
                                  /\ x.id = id /\ x.owner = jobs[id].owner /\ x.phase # "idle"
         /\ UNCHANGED <<legacy, started, facets, calls, used, now, history>>
<1>1. jobs[id] \in Rows /\ jobs[id] # NoJob  BY DEF Dispatch, Claimable, Due, AllTypes, TableTypes
<1> DEFINE x == [id |-> id, owner |-> jobs[id].owner, kind |-> jobs[id].kind, attempt |-> 0,
                 phase |-> IF jobs[id].owner = Root THEN "ready" ELSE "sent", orphan |-> FALSE]
           row == [jobs[id] EXCEPT !.claim = e, !.age = 0]
<1>2. x \in Executions
  <2>1. (IF jobs[id].owner = Root THEN "ready" ELSE "sent") \in Phases  BY DEF Phases
  <2>2. jobs[id].owner \in Owners /\ jobs[id].kind \in KindsOfRows  BY <1>1 DEF Rows, KindsOfRows
  <2> QED  BY <2>1, <2>2 DEF Executions
<1>3. x.phase # "idle"  OBVIOUS
<1>4. execs' = [execs EXCEPT ![e] = x]  BY DEF Dispatch
<1>5. jobs' = [jobs EXCEPT ![id] = row]  BY DEF Dispatch
<1>6. row \in Rows /\ row.owner = jobs[id].owner /\ row.kind = jobs[id].kind
  BY <1>1, RowChanged
<1>7. RowsKept /\ jobs' \in [Ids -> Rows \union {NoJob}]
  BY <1>1, <1>5, <1>6 DEF RowsKept, AllTypes, TableTypes, Dispatch
<1>8. \E y \in Executions : /\ execs' = [execs EXCEPT ![e] = y]
                            /\ y.id = id /\ y.owner = jobs[id].owner /\ y.phase # "idle"
  <2> WITNESS x \in Executions
  <2> QED  BY <1>3, <1>4
<1> QED  BY <1>1, <1>7, <1>8 DEF Dispatch

LEMMA MigrateMoves ==
  ASSUME AllTypes, Migrate
  PROVE  /\ RowsKept \/ RowsMigrated
         /\ TableTypes'
<1>1. CASE UNCHANGED <<jobs, legacy, used, awaited>>
  <2>1. RowsKept  BY <1>1 DEF RowsKept
  <2> QED  BY <1>1, <2>1 DEF Migrate, AllTypes, TableTypes
<1>2. CASE /\ ~legacy.malformed
           /\ jobs' = [id \in Ids |-> IF id \in legacy.rows THEN Row(Root, "cron", 0) ELSE jobs[id]]
           /\ used' = used \union legacy.rows
           /\ awaited' = awaited \union legacy.rows
           /\ legacy' = [legacy EXCEPT !.rows = {}]
           /\ started' = "version"
  <2>1. legacy.rows \subseteq Ids /\ legacy.malformed \in BOOLEAN  BY DEF AllTypes, TableTypes, Legacies
  <2>7. legacy'.rows = {}  BY <1>2 DEF AllTypes, TableTypes, Legacies
  <2>2. RowsMigrated  BY <1>2, <2>1, <2>7 DEF RowsMigrated, Migrate
  <2>3. Row(Root, "cron", 0) \in Rows  BY RowTyped, SchedulerAssumption DEF Owners, KindsOfRows
  <2>4. jobs' \in [Ids -> Rows \union {NoJob}]
    BY <1>2, <2>3 DEF AllTypes, TableTypes
  <2>5. legacy' \in Legacies  BY <1>2 DEF AllTypes, TableTypes, Legacies
  <2>6. used' \subseteq Ids /\ awaited' \subseteq Ids /\ now' = now
    BY <1>2, <2>1 DEF AllTypes, TableTypes, Migrate
  <2> QED  BY <1>2, <2>2, <2>4, <2>5, <2>6 DEF AllTypes, TableTypes
<1> QED  BY <1>1, <1>2 DEF Migrate

\* What each step does to the table, and who else moves with it.
TableMoves ==
  \/ RowsKept
  \/ RowAdded /\ started = "yes" /\ UNCHANGED <<execs, executing, started, legacy>>
  \/ RowsMigrated /\ UNCHANGED <<execs, executing>>

LEMMA RouteMoves ==
  ASSUME AllTypes, NEW c \in Callers, RouteArrives(c)
  PROVE  TableMoves /\ TableTypes'
<1>1. started = "yes" /\ UNCHANGED <<legacy, started, execs, facets, now, doomed>>
  BY DEF RouteArrives
<1>2. CASE /\ calls[c].op = "set"
           /\ Insert(calls[c].owner, calls[c].kind, calls[c].idempotent)
  <2>1. calls[c] \in SetCalls  BY <1>2 DEF RouteArrives, AllTypes, CallTypes, CancelCalls, NoCall
  <2>2. calls[c].owner \in Owners /\ calls[c].kind \in KindsOfRows  BY <2>1 DEF SetCalls, Owners
  <2>3. calls[c].kind # "once" => calls[c].idempotent = TRUE  BY <1>2 DEF AllTypes, CallTypes
  <2>4. PICK owner \in Owners, kind \in KindsOfRows, idempotent \in {calls[c].idempotent} :
          /\ kind # "once" => idempotent = TRUE
          /\ Insert(owner, kind, idempotent)
    BY <1>2, <2>2, <2>3, Zenon
  <2>5. RowAdded \/ (UNCHANGED <<jobs, used>> /\ awaited' \subseteq Ids)
    BY <2>4, InsertMoves
  <2>6. CASE RowAdded
    BY <1>1, <2>6, AddedTyped DEF TableMoves, AllTypes, TableTypes, facets
  <2>7. CASE UNCHANGED <<jobs, used>> /\ awaited' \subseteq Ids
    BY <1>1, <2>7 DEF TableMoves, RowsKept, AllTypes, TableTypes
  <2> QED  BY <2>5, <2>6, <2>7
<1>3. CASE /\ calls[c].op = "cancel"
           /\ Cancelled(calls[c].id, calls[c].owner) /\ UNCHANGED used
  <2>1. calls[c] \in CancelCalls  BY <1>3 DEF RouteArrives, AllTypes, CallTypes, SetCalls, NoCall
  <2>2. calls[c].id \in Ids  BY <2>1 DEF CancelCalls
  <2>3. RowsKept /\ awaited' \subseteq Ids /\ jobs' \in [Ids -> Rows \union {NoJob}]
    BY <1>3, <2>2, CancelledMoves
  <2> QED  BY <1>1, <1>3, <2>3 DEF TableMoves, AllTypes, TableTypes
<1> QED  BY <1>2, <1>3 DEF RouteArrives

LEMMA SetMoves ==
  ASSUME AllTypes, NEW kind \in Kinds, NEW idempotent \in Idempotent(kind),
         SetAtRoot(kind, idempotent)
  PROVE  TableMoves /\ TableTypes'
<1>1. Root \in Owners /\ kind \in KindsOfRows  BY SchedulerAssumption DEF Owners, KindsOfRows
<1>2. kind # "once" => idempotent = TRUE  BY DEF Idempotent
<1>3. Insert(Root, kind, idempotent)  BY DEF SetAtRoot
<1>4. RowAdded \/ (UNCHANGED <<jobs, used>> /\ awaited' \subseteq Ids)
  BY <1>1, <1>2, <1>3, InsertMoves
<1>5. started = "yes" /\ UNCHANGED <<legacy, started, execs, facets, now>>  BY DEF SetAtRoot
<1>6. CASE RowAdded
  BY <1>5, <1>6, AddedTyped DEF TableMoves, AllTypes, TableTypes, facets
<1>7. CASE UNCHANGED <<jobs, used>> /\ awaited' \subseteq Ids
  BY <1>5, <1>7 DEF TableMoves, RowsKept, AllTypes, TableTypes
<1> QED  BY <1>4, <1>6, <1>7

LEMMA TableMoved ==
  ASSUME AllTypes, [Next]_vars
  PROVE  TableMoves /\ TableTypes'
<1>1. ASSUME NEW kind \in Kinds, NEW i \in Idempotent(kind), SetAtRoot(kind, i)
      PROVE  TableMoves /\ TableTypes'
  BY <1>1, SetMoves
<1>2. ASSUME NEW c \in Callers, RouteArrives(c)
      PROVE  TableMoves /\ TableTypes'
  BY <1>2, RouteMoves
<1>3. ASSUME NEW id \in Ids, CancelAtRoot(id)
      PROVE  TableMoves /\ TableTypes'
  <2>1. RowsKept /\ awaited' \subseteq Ids /\ jobs' \in [Ids -> Rows \union {NoJob}]
    BY <1>3, CancelledMoves DEF CancelAtRoot
  <2> QED  BY <1>3, <2>1 DEF TableMoves, CancelAtRoot, AllTypes, TableTypes
<1>4. ASSUME NEW e \in Execs, NEW id \in Ids, Dispatch(e, id)
      PROVE  TableMoves /\ TableTypes'
  BY <1>4, DispatchMoves DEF TableMoves, AllTypes, TableTypes, history
<1>5. ASSUME NEW e \in Execs, Settle(e)
      PROVE  TableMoves /\ TableTypes'
  BY <1>5, SettleMoves DEF TableMoves, AllTypes, TableTypes, history, Settle
<1>6. CASE Migrate
  <2>1. (RowsKept \/ RowsMigrated) /\ TableTypes'  BY <1>6, MigrateMoves
  <2>2. UNCHANGED <<execs, executing>>  BY <1>6 DEF Migrate, facets
  <2> QED  BY <2>1, <2>2 DEF TableMoves
<1>7. CASE Tick
  BY <1>7, TickMoves DEF TableMoves, AllTypes, TableTypes, history, Tick
<1>8. CASE VersionWritten
  <2>1. legacy' \in Legacies  BY <1>8 DEF VersionWritten, AllTypes, TableTypes, Legacies
  <2> QED  BY <1>8, <2>1 DEF TableMoves, RowsKept, AllTypes, TableTypes, VersionWritten, history
<1>9. ASSUME UNCHANGED <<jobs, used, legacy, now>>, started' \in {started, "no"},
             awaited' \subseteq Ids
      PROVE  TableMoves /\ TableTypes'
  BY <1>9 DEF TableMoves, RowsKept, AllTypes, TableTypes
<1>10. ASSUME NEW c \in Callers, NEW f \in Facets, NEW kind, NEW i, SetAtFacet(c, f, kind, i)
       PROVE  TableMoves /\ TableTypes'
  BY <1>9, <1>10 DEF SetAtFacet, Ask, history, AllTypes, TableTypes
<1>11. ASSUME NEW c \in Callers, NEW f \in Facets, NEW id, CancelAtFacet(c, f, id)
       PROVE  TableMoves /\ TableTypes'
  BY <1>9, <1>11 DEF CancelAtFacet, Ask, history, AllTypes, TableTypes
<1>12. ASSUME NEW c \in Callers, AnswerArrives(c)
       PROVE  TableMoves /\ TableTypes'
  BY <1>9, <1>12 DEF AnswerArrives, AllTypes, TableTypes
<1>13. ASSUME NEW e \in Execs,
              RoutedStarts(e) \/ Attempt(e) \/ BackoffEnds(e) \/ CallbackReturns(e) \/ CallbackRaises(e)
       PROVE  TableMoves /\ TableTypes'
  <2>1. UNCHANGED <<jobs, used, legacy, now, started>>
    BY <1>13 DEF RoutedStarts, Attempt, BackoffEnds, CallbackReturns, CallbackRaises
  <2>2. awaited' = awaited \/ awaited' = awaited \ {execs[e].id}
    BY <1>13 DEF RoutedStarts, Attempt, BackoffEnds, CallbackReturns, CallbackRaises, history
  <2> QED  BY <1>9, <2>1, <2>2 DEF AllTypes, TableTypes
<1>14. CASE RootEvicted \/ (\E f \in Facets : FacetEvicted(f)) \/ UNCHANGED vars
  BY <1>9, <1>14 DEF RootEvicted, FacetEvicted, vars, history, AllTypes, TableTypes
<1> QED
  BY <1>1, <1>2, <1>3, <1>4, <1>5, <1>6, <1>7, <1>8, <1>10, <1>11, <1>12, <1>13, <1>14 DEF Next

\* What each step does to the executions, and to what facets note of them.
ExecMoves ==
  \/ ExecsGoOn /\ NotesGo
  \/ \E e \in Execs, id \in Ids : Dispatch(e, id)
  \/ \E e \in Execs : RoutedStarts(e)

\* One execution is changed, or ends.
LEMMA ExecChanged ==
  ASSUME AllTypes, NEW e \in Execs, Active(e), NEW x \in Executions \union {Idle},
         x = Idle \/ (x.id = execs[e].id /\ x.owner = execs[e].owner),
         execs' = [execs EXCEPT ![e] = x]
  PROVE  execs' \in [Execs -> Executions \union {Idle}] /\ ExecsGoOn
<1>1. Idle.phase = "idle"  BY DEF Idle
<1>2. execs' \in [Execs -> Executions \union {Idle}]  BY DEF AllTypes, ExecTypes
<1>3. \A d \in Execs : execs'[d] = IF d = e THEN x ELSE execs[d]  BY DEF AllTypes, ExecTypes
<1>4. ExecsGoOn  BY <1>1, <1>3 DEF ExecsGoOn, Active
<1> QED  BY <1>2, <1>4

LEMMA ExecTyped ==
  ASSUME AllTypes, NEW e \in Execs, Active(e)
  PROVE  /\ execs[e] \in Executions
         /\ \A phase \in Phases :
              /\ [execs[e] EXCEPT !.phase = phase] \in Executions
              /\ [execs[e] EXCEPT !.phase = phase].id = execs[e].id
              /\ [execs[e] EXCEPT !.phase = phase].owner = execs[e].owner
         /\ /\ [execs[e] EXCEPT !.orphan = TRUE] \in Executions
            /\ [execs[e] EXCEPT !.orphan = TRUE].id = execs[e].id
            /\ [execs[e] EXCEPT !.orphan = TRUE].owner = execs[e].owner
<1>1. execs[e] \in Executions  BY DEF AllTypes, ExecTypes, Active, Idle
<1> QED  BY <1>1 DEF Executions

LEMMA EndsMoves ==
  ASSUME AllTypes, NEW e \in Execs, Active(e), Ends(e)
  PROVE  ExecMoves /\ ExecTypes'
<1>1. PICK x \in {Idle, [execs[e] EXCEPT !.phase = "done"]} : execs' = [execs EXCEPT ![e] = x]
  BY EndingExecution
<1>2. /\ x \in Executions \union {Idle}
      /\ x = Idle \/ (x.id = execs[e].id /\ x.owner = execs[e].owner)
  BY ExecTyped DEF Phases
<1>3. execs' \in [Execs -> Executions \union {Idle}] /\ ExecsGoOn
  BY <1>1, <1>2, ExecChanged
<1>4. NotesGo /\ executing' \in [Facets -> SUBSET Ids] /\ cancelled' \in [Facets -> SUBSET Ids]
  <2>1. CASE UNCHANGED facets  BY <2>1 DEF facets, NotesGo, AllTypes, ExecTypes
  <2>2. CASE /\ executing' = [executing EXCEPT ![Owner(e)] = executing[Owner(e)] \ {execs[e].id}]
             /\ cancelled' = [cancelled EXCEPT ![Owner(e)] = cancelled[Owner(e)] \ {execs[e].id}]
    BY <2>2 DEF NotesGo, AllTypes, ExecTypes
  <2> QED  BY <2>1, <2>2, EndingExecution
<1> QED  BY <1>3, <1>4 DEF ExecMoves, ExecTypes

LEMMA ContinuesMoves ==
  ASSUME AllTypes, NEW e \in Execs, Active(e), NEW phase \in Phases, Continues(e, phase)
  PROVE  ExecMoves /\ ExecTypes'
<1>1. PICK x : x = [execs[e] EXCEPT !.phase = phase]  OBVIOUS
<1>2. x \in Executions /\ x.id = execs[e].id /\ x.owner = execs[e].owner  BY <1>1, ExecTyped
<1>3. execs' = [execs EXCEPT ![e] = x]  BY <1>1 DEF Continues
<1>4. execs' \in [Execs -> Executions \union {Idle}] /\ ExecsGoOn
  BY <1>2, <1>3, ExecChanged
<1> QED  BY <1>4 DEF ExecMoves, ExecTypes, Continues, facets, NotesGo, AllTypes

LEMMA AttemptMoves ==
  ASSUME AllTypes, NEW e \in Execs, Attempt(e)
  PROVE  ExecMoves /\ ExecTypes'
<1>1. Active(e)  BY DEF Attempt, Active
<1>2. CASE Ends(e)  BY <1>1, <1>2, EndsMoves
<1>3. CASE ~Stopped(e)
  <2>1. execs[e] \in Executions  BY <1>1, ExecTyped
  <2>2. PICK n \in Nat : n = execs[e].attempt + 1  BY <2>1 DEF Executions
  <2>3. PICK x : x = [execs[e] EXCEPT !.phase = "calling", !.attempt = n]  OBVIOUS
  <2>4. x \in Executions /\ x.id = execs[e].id /\ x.owner = execs[e].owner
    BY <2>1, <2>3 DEF Executions, Phases
  <2>5. execs' = [execs EXCEPT ![e] = x] /\ UNCHANGED facets
    <3>1. execs' = [execs EXCEPT ![e] = [execs[e] EXCEPT !.phase = "calling", !.attempt = n]]
      BY <1>3, <2>2 DEF Attempt
    <3> QED  BY <1>3, <2>3, <3>1 DEF Attempt
  <2>6. execs' \in [Execs -> Executions \union {Idle}] /\ ExecsGoOn
    BY <1>1, <2>4, <2>5, ExecChanged
  <2> QED  BY <2>5, <2>6 DEF ExecMoves, ExecTypes, facets, NotesGo, AllTypes
<1> QED  BY <1>2, <1>3 DEF Attempt

LEMMA RoutedStartsMoves ==
  ASSUME AllTypes, NEW e \in Execs, RoutedStarts(e)
  PROVE  /\ ExecTypes' /\ Active(e)
         /\ \E x \in Executions : /\ execs' = [execs EXCEPT ![e] = x]
                                  /\ x.id = execs[e].id /\ x.owner = execs[e].owner
<1>1. Active(e)  BY DEF RoutedStarts, Active
<1>2. PICK x : x = [execs[e] EXCEPT !.phase = "ready"]  OBVIOUS
<1>3. x \in Executions /\ x.id = execs[e].id /\ x.owner = execs[e].owner
  BY <1>1, <1>2, ExecTyped DEF Phases
<1>4. execs' = [execs EXCEPT ![e] = x]  BY <1>2 DEF RoutedStarts
<1>5. execs' \in [Execs -> Executions \union {Idle}]  BY <1>3, <1>4 DEF AllTypes, ExecTypes
<1>6. execs[e].id \in Ids  BY <1>1, ExecTyped DEF Executions
<1>7. executing' \in [Facets -> SUBSET Ids] /\ cancelled' = cancelled
  BY <1>6 DEF RoutedStarts, AllTypes, ExecTypes
<1> QED  BY <1>1, <1>3, <1>4, <1>5, <1>7 DEF AllTypes, ExecTypes

LEMMA EvictionMoves ==
  ASSUME AllTypes, RootEvicted \/ \E f \in Facets : FacetEvicted(f)
  PROVE  ExecMoves /\ ExecTypes'
<1>0. Idle.phase = "idle"  BY DEF Idle
<1>1. CASE RootEvicted
  <2>1. ASSUME NEW e \in Execs
        PROVE  /\ execs'[e] \in Executions \union {Idle}
               /\ execs'[e].phase # "idle" =>
                    Active(e) /\ execs'[e].id = execs[e].id /\ execs'[e].owner = execs[e].owner
    <3>1. CASE Active(e) /\ execs'[e] = [execs[e] EXCEPT !.orphan = TRUE]
      BY <3>1, ExecTyped
    <3>2. CASE execs'[e] = Idle  BY <1>0, <3>2
    <3> QED  BY <1>1, <3>1, <3>2 DEF RootEvicted
  <2>2. execs' \in [Execs -> Executions \union {Idle}]
    <3>1. execs' = [e \in Execs |-> execs'[e]]  BY <1>1 DEF RootEvicted
    <3> QED  BY <2>1, <3>1
  <2> QED  BY <1>1, <2>1, <2>2 DEF ExecMoves, ExecTypes, ExecsGoOn, NotesGo, RootEvicted, facets, AllTypes
<1>2. ASSUME NEW f \in Facets, FacetEvicted(f)
      PROVE  ExecMoves /\ ExecTypes'
  <2>1. ASSUME NEW e \in Execs
        PROVE  /\ execs'[e] \in Executions \union {Idle}
               /\ execs'[e].phase # "idle" =>
                    Active(e) /\ execs'[e].id = execs[e].id /\ execs'[e].owner = execs[e].owner
    <3>1. CASE Active(e) /\ execs'[e] = [execs[e] EXCEPT !.phase = "failed"]
      BY <3>1, ExecTyped DEF Phases
    <3>2. CASE execs'[e] = Idle  BY <1>0, <3>2
    <3>3. CASE execs'[e] = execs[e]  BY <3>3 DEF AllTypes, ExecTypes, Active
    <3> QED  BY <1>2, <3>1, <3>2, <3>3 DEF FacetEvicted
  <2>2. execs' \in [Execs -> Executions \union {Idle}]
    <3>1. execs' = [e \in Execs |-> execs'[e]]  BY <1>2 DEF FacetEvicted
    <3> QED  BY <2>1, <3>1
  <2> QED  BY <1>2, <2>1, <2>2 DEF ExecMoves, ExecTypes, ExecsGoOn, NotesGo, FacetEvicted, AllTypes
<1> QED  BY <1>1, <1>2

LEMMA ExecsMoved ==
  ASSUME AllTypes, [Next]_vars
  PROVE  ExecMoves /\ ExecTypes'
<1>1. ASSUME NEW e \in Execs, NEW id \in Ids, Dispatch(e, id)
      PROVE  ExecMoves /\ ExecTypes'
  BY <1>1, DispatchMoves DEF ExecMoves, AllTypes, ExecTypes, facets
<1>2. ASSUME NEW e \in Execs, RoutedStarts(e)
      PROVE  ExecMoves /\ ExecTypes'
  BY <1>2, RoutedStartsMoves DEF ExecMoves
<1>3. ASSUME NEW e \in Execs, Attempt(e)
      PROVE  ExecMoves /\ ExecTypes'
  BY <1>3, AttemptMoves
<1>4. ASSUME NEW e \in Execs, BackoffEnds(e) \/ CallbackReturns(e) \/ CallbackRaises(e)
      PROVE  ExecMoves /\ ExecTypes'
  <2>1. Active(e)  BY <1>4 DEF BackoffEnds, CallbackReturns, CallbackRaises, Active
  <2>2. Ends(e) \/ \E phase \in Phases : Continues(e, phase)
    BY <1>4 DEF BackoffEnds, CallbackReturns, CallbackRaises, Phases
  <2> QED  BY <2>1, <2>2, EndsMoves, ContinuesMoves
<1>5. ASSUME NEW e \in Execs, Settle(e)
      PROVE  ExecMoves /\ ExecTypes'
  <2>1. Active(e)  BY <1>5 DEF Settle, Active
  <2>2. execs' = [execs EXCEPT ![e] = Idle] /\ UNCHANGED facets  BY <1>5 DEF Settle
  <2>3. execs' \in [Execs -> Executions \union {Idle}] /\ ExecsGoOn  BY <2>1, <2>2, ExecChanged
  <2> QED  BY <2>2, <2>3 DEF ExecMoves, ExecTypes, NotesGo, facets, AllTypes
<1>6. CASE RootEvicted \/ \E f \in Facets : FacetEvicted(f)
  BY <1>6, EvictionMoves
<1>7. ASSUME NEW c \in Callers, AnswerArrives(c)
      PROVE  ExecMoves /\ ExecTypes'
  <2>1. cancelled' \in [Facets -> SUBSET Ids]
    <3>1. CASE cancelled' = cancelled  BY <3>1 DEF AllTypes, ExecTypes
    <3>2. CASE /\ calls[c].op = "cancel"
               /\ cancelled' = [cancelled EXCEPT ![calls[c].owner] =
                                   cancelled[calls[c].owner] \union {calls[c].id}]
      <4>1. calls[c] \in CancelCalls
        BY <1>7, <3>2 DEF AnswerArrives, AllTypes, CallTypes, SetCalls, NoCall
      <4>2. calls[c].id \in Ids  BY <4>1 DEF CancelCalls
      <4> QED  BY <3>2, <4>2 DEF AllTypes, ExecTypes
    <3> QED  BY <1>7, <3>1, <3>2 DEF AnswerArrives
  <2>2. UNCHANGED <<execs, executing>>  BY <1>7 DEF AnswerArrives
  <2> QED  BY <2>1, <2>2 DEF ExecMoves, ExecTypes, ExecsGoOn, Active, NotesGo, AllTypes
<1>8. ASSUME UNCHANGED <<execs, executing, cancelled>>
      PROVE  ExecMoves /\ ExecTypes'
  BY <1>8 DEF ExecMoves, ExecTypes, ExecsGoOn, Active, NotesGo, AllTypes
<1>9. ASSUME NEW kind \in Kinds, NEW i \in Idempotent(kind),
             SetAtRoot(kind, i) \/ \E c \in Callers, f \in Facets : SetAtFacet(c, f, kind, i)
      PROVE  ExecMoves /\ ExecTypes'
  BY <1>8, <1>9 DEF SetAtRoot, SetAtFacet, Ask, facets
<1>10. ASSUME NEW id \in Ids,
              CancelAtRoot(id) \/ \E c \in Callers, f \in Facets : CancelAtFacet(c, f, id)
       PROVE  ExecMoves /\ ExecTypes'
  BY <1>8, <1>10 DEF CancelAtRoot, CancelAtFacet, Ask, facets
<1>11. CASE \/ Migrate \/ VersionWritten \/ Tick \/ UNCHANGED vars
            \/ \E c \in Callers : RouteArrives(c)
  BY <1>8, <1>11 DEF Migrate, VersionWritten, Tick, RouteArrives, facets, vars
<1> QED
  BY <1>1, <1>2, <1>3, <1>4, <1>5, <1>6, <1>7, <1>9, <1>10, <1>11 DEF Next

LEMMA CallsTyped ==
  ASSUME AllTypes, [Next]_vars
  PROVE  CallTypes'
<1> DEFINE Typed(call) == /\ call \in SetCalls \union CancelCalls \union {NoCall}
                          /\ call.op = "set" /\ call.kind # "once" => call.idempotent = TRUE
<1>1. \A c \in Callers : Typed(calls[c])  BY DEF AllTypes, CallTypes
<1>2. DOMAIN calls = Callers /\ calls = [c \in Callers |-> calls[c]]  BY DEF AllTypes, CallTypes
<1>3. ASSUME calls' = [c \in Callers |-> calls'[c]], \A c \in Callers : Typed(calls'[c])
      PROVE  CallTypes'
  BY <1>3 DEF CallTypes
<1>4. ASSUME NEW c \in Callers, NEW call, Typed(call), calls' = [calls EXCEPT ![c] = call]
      PROVE  CallTypes'
  <2>1. calls' = [d \in Callers |-> IF d = c THEN call ELSE calls[d]]  BY <1>2, <1>4
  <2>2. \A d \in Callers : calls'[d] = IF d = c THEN call ELSE calls[d]  BY <2>1
  <2> HIDE DEF Typed
  <2>3. \A d \in Callers : Typed(calls'[d])  BY <1>1, <1>4, <2>2, Zenon
  <2>4. calls' = [d \in Callers |-> calls'[d]]  BY <2>1
  <2> QED  BY <1>3, <2>3, <2>4
<1>5. Typed(NoCall)  BY DEF NoCall
<1>6. ASSUME NEW c \in Callers, NEW f \in Facets, NEW kind \in Kinds, NEW i \in Idempotent(kind),
             SetAtFacet(c, f, kind, i)
      PROVE  CallTypes'
  <2> DEFINE call == [op |-> "set", owner |-> f, kind |-> kind, idempotent |-> i,
                      at |-> "sent", ok |-> FALSE]
  <2>1. i \in BOOLEAN /\ (kind # "once" => i = TRUE) /\ kind \in KindsOfRows
    BY SchedulerAssumption DEF Idempotent, KindsOfRows
  <2>2. call \in SetCalls  BY <2>1 DEF SetCalls
  <2>3. Typed(call)  BY <2>1, <2>2
  <2> QED  BY <1>4, <1>6, <2>3 DEF SetAtFacet, Ask
<1>7. ASSUME NEW c \in Callers, NEW f \in Facets, NEW id \in Ids, CancelAtFacet(c, f, id)
      PROVE  CallTypes'
  <2> DEFINE call == [op |-> "cancel", owner |-> f, id |-> id, at |-> "sent", ok |-> FALSE]
  <2>1. Typed(call)  BY DEF CancelCalls
  <2> QED  BY <1>4, <1>7, <2>1 DEF CancelAtFacet, Ask
<1>8. ASSUME NEW c \in Callers, RouteArrives(c)
      PROVE  CallTypes'
  <2>1. PICK ok \in BOOLEAN :
          \/ calls[c].op = "set" /\ calls' = [calls EXCEPT ![c].at = "answered"]
          \/ /\ calls[c].op = "cancel"
             /\ calls' = [calls EXCEPT ![c].at = "answered", ![c].ok = ok]
    BY <1>8, Zenon DEF RouteArrives
  <2>2. calls[c] # NoCall  BY <1>8 DEF RouteArrives
  <2>3. CASE calls[c].op = "set" /\ calls' = [calls EXCEPT ![c].at = "answered"]
    <3>1. calls[c] \in SetCalls  BY <1>1, <2>2, <2>3 DEF CancelCalls
    <3>2. PICK call : call = [calls[c] EXCEPT !.at = "answered"]  OBVIOUS
    <3>3. /\ call \in SetCalls
          /\ call.op = calls[c].op /\ call.kind = calls[c].kind /\ call.idempotent = calls[c].idempotent
      BY <3>1, <3>2 DEF SetCalls
    <3>4. Typed(call)  BY <1>1, <3>3
    <3>5. calls' = [calls EXCEPT ![c] = call]  BY <2>3, <3>2
    <3> QED  BY <1>4, <3>4, <3>5
  <2>4. CASE /\ calls[c].op = "cancel"
             /\ calls' = [calls EXCEPT ![c].at = "answered", ![c].ok = ok]
    <3>1. calls[c] \in CancelCalls  BY <1>1, <2>2, <2>4 DEF SetCalls
    <3>2. PICK call : call = [calls[c] EXCEPT !.at = "answered", !.ok = ok]  OBVIOUS
    <3>3. call \in CancelCalls /\ call.op = "cancel"
      BY <3>1, <3>2 DEF CancelCalls
    <3>4. Typed(call)  BY <3>3
    <3>5. calls' = [calls EXCEPT ![c] = call]  BY <2>4, <3>2, <1>2
    <3> QED  BY <1>4, <3>4, <3>5
  <2> QED  BY <2>1, <2>3, <2>4
<1>9. ASSUME NEW c \in Callers, AnswerArrives(c)
      PROVE  CallTypes'
  BY <1>4, <1>5, <1>9 DEF AnswerArrives
<1>10. ASSUME calls' = [c \in Callers |-> calls'[c]],
              \A c \in Callers : calls'[c] = NoCall \/ calls'[c] = calls[c]
       PROVE  CallTypes'
  <2> HIDE DEF Typed
  <2>1. \A c \in Callers : Typed(calls'[c])  BY <1>1, <1>5, <1>10, Zenon
  <2> QED  BY <1>3, <1>10, <2>1
<1>11. CASE RootEvicted
  <2>1. calls' = [c \in Callers |-> NoCall]  BY <1>11 DEF RootEvicted
  <2> QED  BY <1>10, <2>1
<1>12. ASSUME NEW f \in Facets, FacetEvicted(f)
       PROVE  CallTypes'
  <2>1. calls' = [c \in Callers |-> IF calls[c] # NoCall /\ calls[c].owner = f THEN NoCall
                                    ELSE calls[c]]
    BY <1>12 DEF FacetEvicted
  <2> QED  BY <1>10, <2>1, Zenon
<1>13. ASSUME UNCHANGED calls
       PROVE  CallTypes'
  BY <1>2, <1>10, <1>13
<1>14. ASSUME NEW e \in Execs, Execution(e) \/ \E id \in Ids : Dispatch(e, id)
       PROVE  CallTypes'
  BY <1>13, <1>14 DEF Execution, Dispatch, RoutedStarts, Attempt, BackoffEnds, Settle, CallbackReturns,
                      CallbackRaises
<1>15. CASE \/ Migrate \/ VersionWritten \/ Tick \/ UNCHANGED vars
            \/ \E id \in Ids : CancelAtRoot(id)
            \/ \E kind \in Kinds : \E i \in Idempotent(kind) : SetAtRoot(kind, i)
  BY <1>13, <1>15 DEF Migrate, VersionWritten, Tick, CancelAtRoot, SetAtRoot, vars
<1> QED
  BY <1>6, <1>7, <1>8, <1>9, <1>11, <1>12, <1>14, <1>15 DEF Next, Execution

-----------------------------------------------------------------------------
(* Ids and owners.                                                         *)

LEMMA AddedRow ==
  ASSUME AllTypes, RowAdded
  PROVE  \E id \in Ids \ (used \union legacy.rows), owner \in Owners, kind \in KindsOfRows :
           /\ used' = used \union {id}
           /\ \A i \in Ids : i # id => jobs'[i] = jobs[i]
           /\ jobs'[id].owner = owner /\ jobs'[id].kind = kind
           /\ kind # "once" => Matching(owner, kind) = {}
<1>1. PICK id \in Ids \ (used \union legacy.rows), owner \in Owners, kind \in KindsOfRows :
        /\ jobs' = [jobs EXCEPT ![id] = Row(owner, kind, Delay(kind))]
        /\ used' = used \union {id}
        /\ kind # "once" => Matching(owner, kind) = {}
  BY DEF RowAdded
<1>2. Row(owner, kind, Delay(kind)).owner = owner /\ Row(owner, kind, Delay(kind)).kind = kind
  BY DelayIsTime, RowTyped DEF AllTypes, TableTypes
<1>3. /\ jobs'[id] = Row(owner, kind, Delay(kind))
      /\ \A i \in Ids : i # id => jobs'[i] = jobs[i]
  BY <1>1 DEF AllTypes, TableTypes
<1> QED  BY <1>1, <1>2, <1>3

LEMMA IdsStayUsed ==
  ASSUME AllTypes, IdsAreUsed, [Next]_vars
  PROVE  IdsAreUsed'
<1>1. used \subseteq used' /\ \A id \in Ids : jobs'[id] # NoJob => id \in used'
  <2>1. CASE RowsKept  BY <2>1 DEF RowsKept, IdsAreUsed
  <2>2. CASE RowAdded  BY <2>2, AddedRow DEF IdsAreUsed
  <2>3. CASE RowsMigrated  BY <2>3 DEF RowsMigrated, IdsAreUsed
  <2> QED  BY <2>1, <2>2, <2>3, TableMoved DEF TableMoves
<1>2. CASE ExecsGoOn /\ NotesGo
  BY <1>1, <1>2 DEF ExecsGoOn, NotesGo, IdsAreUsed, Active
<1>3. ASSUME NEW e \in Execs, NEW id \in Ids, Dispatch(e, id)
      PROVE  IdsAreUsed'
  <2>1. PICK x \in Executions : execs' = [execs EXCEPT ![e] = x] /\ x.id = id
    BY <1>3, DispatchMoves
  <2>2. id \in used  BY <1>3, DispatchMoves DEF IdsAreUsed
  <2>3. \A d \in Execs : execs'[d] = IF d = e THEN x ELSE execs[d]
    BY <2>1 DEF AllTypes, ExecTypes
  <2>4. executing' = executing  BY <1>3 DEF Dispatch, facets
  <2> QED  BY <1>1, <2>1, <2>2, <2>3, <2>4 DEF IdsAreUsed, Active
<1>4. ASSUME NEW e \in Execs, RoutedStarts(e)
      PROVE  IdsAreUsed'
  <2>1. PICK x \in Executions : execs' = [execs EXCEPT ![e] = x] /\ x.id = execs[e].id
    BY <1>4, RoutedStartsMoves
  <2>2. execs[e].id \in used  BY <1>4, RoutedStartsMoves DEF IdsAreUsed
  <2>3. \A d \in Execs : execs'[d] = IF d = e THEN x ELSE execs[d]
    BY <2>1 DEF AllTypes, ExecTypes
  <2>4. \A f \in Facets : executing'[f] \subseteq executing[f] \union {execs[e].id}
    BY <1>4 DEF RoutedStarts, AllTypes, ExecTypes
  <2> QED  BY <1>1, <1>4, <2>1, <2>2, <2>3, <2>4, RoutedStartsMoves DEF IdsAreUsed, Active
<1> QED  BY <1>2, <1>3, <1>4, ExecsMoved DEF ExecMoves

\* A row, if there is one, belongs to whoever its id belonged to.
LEMMA OwnerOfRow ==
  ASSUME AllTypes, [Next]_vars, LegacyFirst, NEW id \in used, jobs'[id] # NoJob
  PROVE  jobs[id] # NoJob /\ jobs'[id].owner = jobs[id].owner
<1>1. id \in Ids  BY DEF AllTypes, TableTypes
<1>2. CASE RowsKept  BY <1>1, <1>2 DEF RowsKept
<1>3. CASE RowAdded  BY <1>1, <1>3, AddedRow
<1>4. CASE RowsMigrated  BY <1>1, <1>4 DEF RowsMigrated, LegacyFirst
<1> QED  BY <1>2, <1>3, <1>4, TableMoved DEF TableMoves

LEMMA OwnersStayAgreed ==
  ASSUME AllTypes, IdsAreUsed, OwnersAgree, LegacyFirst, [Next]_vars
  PROVE  OwnersAgree'
<1>1. CASE ExecsGoOn /\ NotesGo
  BY <1>1, OwnerOfRow DEF ExecsGoOn, NotesGo, OwnersAgree, IdsAreUsed, Active, Owner
<1>2. ASSUME NEW e \in Execs, NEW id \in Ids, Dispatch(e, id)
      PROVE  OwnersAgree'
  <2>1. PICK x \in Executions : /\ execs' = [execs EXCEPT ![e] = x]
                                /\ x.id = id /\ x.owner = jobs[id].owner
    BY <1>2, DispatchMoves
  <2>2. jobs[id] # NoJob /\ id \in used  BY <1>2, DispatchMoves DEF IdsAreUsed
  <2>3. \A d \in Execs : execs'[d] = IF d = e THEN x ELSE execs[d]
    BY <2>1 DEF AllTypes, ExecTypes
  <2>4. executing' = executing  BY <1>2 DEF Dispatch, facets
  <2> QED  BY <2>1, <2>2, <2>3, <2>4, OwnerOfRow DEF OwnersAgree, IdsAreUsed, Active, Owner
<1>3. ASSUME NEW e \in Execs, RoutedStarts(e)
      PROVE  OwnersAgree'
  <2>1. PICK x \in Executions : /\ execs' = [execs EXCEPT ![e] = x]
                                /\ x.id = execs[e].id /\ x.owner = execs[e].owner
    BY <1>3, RoutedStartsMoves
  <2>2. Active(e) /\ execs[e].id \in used  BY <1>3, RoutedStartsMoves DEF IdsAreUsed
  <2>3. \A d \in Execs : execs'[d] = IF d = e THEN x ELSE execs[d]
    BY <2>1 DEF AllTypes, ExecTypes
  <2>4. \A d \in Execs : execs'[d].phase # "idle" =>
          Active(d) /\ execs'[d].id = execs[d].id /\ execs'[d].owner = execs[d].owner
    BY <2>1, <2>2, <2>3 DEF Active
  <2>5. \A f \in Facets : \A id \in executing'[f] :
          id \in executing[f] \/ (f = Owner(e) /\ id = execs[e].id)
    BY <1>3 DEF RoutedStarts, AllTypes, ExecTypes
  <2> QED  BY <2>2, <2>4, <2>5, OwnerOfRow DEF OwnersAgree, IdsAreUsed, Active, Owner
<1> QED  BY <1>1, <1>2, <1>3, ExecsMoved DEF ExecMoves

LEMMA LegacyStaysFirst ==
  ASSUME AllTypes, LegacyFirst, [Next]_vars
  PROVE  LegacyFirst'
<1>1. CASE Migrate
  BY <1>1 DEF Migrate, LegacyFirst, AllTypes, TableTypes, Legacies
<1>2. CASE VersionWritten
  BY <1>2 DEF VersionWritten, LegacyFirst, AllTypes, TableTypes, Legacies
<1>3. CASE ~Migrate /\ ~VersionWritten
  <2>1. legacy' = legacy /\ (started' = started \/ started' = "no")
    BY <1>3 DEF Next, vars, SetAtRoot, SetAtFacet, Ask, CancelAtRoot, CancelAtFacet, Dispatch,
         RouteArrives, AnswerArrives, RoutedStarts, Attempt, BackoffEnds, Settle, CallbackReturns,
         CallbackRaises, RootEvicted, Tick, FacetEvicted
  <2>2. CASE RowsKept  BY <2>1, <2>2 DEF RowsKept, LegacyFirst
  <2>3. CASE RowAdded /\ started = "yes"
    BY <2>1, <2>3, AddedRow DEF LegacyFirst, AllTypes, TableTypes, Legacies
  <2>4. CASE RowsMigrated  BY <2>1, <2>4 DEF RowsMigrated, LegacyFirst
  <2> QED  BY <2>2, <2>3, <2>4, TableMoved DEF TableMoves
<1> QED  BY <1>1, <1>2, <1>3

-----------------------------------------------------------------------------
(* Cancellations.                                                          *)

\* What is doomed goes on as it was, and the note of it stays.
LEMMA DoomedGoOn ==
  ASSUME DoomedAreMarked, doomed' \subseteq doomed,
         \A d \in doomed' : /\ execs'[d].phase \in AtFacet
                            /\ execs'[d].id = execs[d].id /\ execs'[d].owner = execs[d].owner
                            /\ execs[d].id \in cancelled'[execs[d].owner]
  PROVE  DoomedAreMarked'
BY DEF DoomedAreMarked, Owner

LEMMA DoomedSurviveEnds ==
  ASSUME AllTypes, DoomedAreMarked, NEW e \in Execs, Ends(e)
  PROVE  DoomedAreMarked'
<1>1. PICK x \in {Idle, [execs[e] EXCEPT !.phase = "done"]} : execs' = [execs EXCEPT ![e] = x]
  BY EndingExecution
<1>2. doomed' = {d \in doomed \ {e} : execs[d].id # execs[e].id}  BY EndingExecution
<1>3. \A f \in Facets : cancelled[f] \ {execs[e].id} \subseteq cancelled'[f]
  BY EndingExecution DEF facets, AllTypes, ExecTypes
<1>4. ASSUME NEW d \in doomed'
      PROVE  execs'[d] = execs[d] /\ execs[d].id \in cancelled'[execs[d].owner]
  <2>1. d \in doomed /\ d # e /\ execs[d].id # execs[e].id  BY <1>2
  <2>2. d \in Execs /\ execs[d].owner \in Facets /\ execs[d].id \in cancelled[execs[d].owner]
    BY <2>1 DEF DoomedAreMarked, Owner
  <2>3. execs'[d] = execs[d]  BY <1>1, <2>1, <2>2 DEF AllTypes, ExecTypes
  <2> QED  BY <1>3, <2>1, <2>2, <2>3
<1> QED  BY <1>2, <1>4, DoomedGoOn DEF DoomedAreMarked

\* One execution goes on, and no note changes.
LEMMA DoomedSurviveChange ==
  ASSUME AllTypes, DoomedAreMarked, NEW e \in Execs, NEW x,
         execs' = [execs EXCEPT ![e] = x], UNCHANGED <<cancelled, doomed>>,
         e \in doomed => x.phase \in AtFacet /\ x.id = execs[e].id /\ x.owner = execs[e].owner
  PROVE  DoomedAreMarked'
<1>1. \A d \in Execs : execs'[d] = IF d = e THEN x ELSE execs[d]  BY DEF AllTypes, ExecTypes
<1> QED  BY <1>1, DoomedGoOn DEF DoomedAreMarked, Owner

LEMMA DoomedStayMarked ==
  ASSUME AllTypes, OwnersAgree, DoomedAreMarked, [Next]_vars
  PROVE  DoomedAreMarked'
<1>1. ASSUME NEW e \in Execs, NEW id \in Ids, Dispatch(e, id)
      PROVE  DoomedAreMarked'
  <2>1. PICK x : execs' = [execs EXCEPT ![e] = x]  BY <1>1 DEF Dispatch
  <2>2. e \notin doomed  BY <1>1, DispatchMoves DEF DoomedAreMarked, AtFacet, Active
  <2> QED  BY <1>1, <2>1, <2>2, DoomedSurviveChange DEF Dispatch, facets, history
<1>2. ASSUME NEW e \in Execs, RoutedStarts(e)
      PROVE  DoomedAreMarked'
  <2>1. PICK x : execs' = [execs EXCEPT ![e] = x]  BY <1>2, RoutedStartsMoves
  <2>2. e \notin doomed  BY <1>2 DEF DoomedAreMarked, AtFacet, RoutedStarts
  <2> QED  BY <1>2, <2>1, <2>2, DoomedSurviveChange DEF RoutedStarts, history
<1>3. ASSUME NEW e \in Execs, NEW phase \in AtFacet, Continues(e, phase), Active(e)
      PROVE  DoomedAreMarked'
  <2>1. PICK x : x = [execs[e] EXCEPT !.phase = phase]  OBVIOUS
  <2>2. phase \in Phases  BY DEF AtFacet, Phases
  <2>3. x.id = execs[e].id /\ x.owner = execs[e].owner  BY <1>3, <2>1, <2>2, ExecTyped
  <2>4. x.phase = phase
    <3>1. execs[e] \in Executions  BY <1>3, ExecTyped
    <3> QED  BY <2>1, <3>1 DEF Executions
  <2>5. execs' = [execs EXCEPT ![e] = x]  BY <1>3, <2>1 DEF Continues
  <2> QED  BY <1>3, <2>3, <2>4, <2>5, DoomedSurviveChange DEF Continues, facets
<1>4. ASSUME NEW e \in Execs, Attempt(e)
      PROVE  DoomedAreMarked'
  <2>1. CASE Ends(e)  BY <2>1, DoomedSurviveEnds
  <2>2. CASE ~Stopped(e) /\ ~Ends(e)
    <3>1. e \notin doomed
      BY <2>2, SchedulerAssumption DEF DoomedAreMarked, Stopped, Owner
    <3>2. PICK x : execs' = [execs EXCEPT ![e] = x]  BY <1>4, <2>2 DEF Attempt
    <3>3. UNCHANGED <<cancelled, doomed>>  BY <1>4, <2>2 DEF Attempt, facets
    <3> QED  BY <3>1, <3>2, <3>3, DoomedSurviveChange
  <2> QED  BY <1>4, <2>1, <2>2 DEF Attempt
<1>5. ASSUME NEW e \in Execs, BackoffEnds(e) \/ CallbackReturns(e) \/ CallbackRaises(e)
      PROVE  DoomedAreMarked'
  <2>1. Active(e)  BY <1>5 DEF BackoffEnds, CallbackReturns, CallbackRaises, Active
  <2>2. Ends(e) \/ \E phase \in AtFacet : Continues(e, phase)
    BY <1>5 DEF BackoffEnds, CallbackReturns, CallbackRaises, AtFacet
  <2> QED  BY <1>3, <2>1, <2>2, DoomedSurviveEnds
<1>6. ASSUME NEW e \in Execs, Settle(e)
      PROVE  DoomedAreMarked'
  <2>1. e \notin doomed  BY <1>6 DEF Settle, DoomedAreMarked, AtFacet
  <2> QED  BY <1>6, <2>1, DoomedSurviveChange DEF Settle, facets, history
<1>7. ASSUME NEW c \in Callers, AnswerArrives(c)
      PROVE  DoomedAreMarked'
  <2> DEFINE f == calls[c].owner
             id == calls[c].id
             marks == calls[c].op = "cancel" /\ calls[c].ok /\ id \in executing[f]
             marked == {e \in Execs : /\ Active(e) /\ execs[e].id = id
                                      /\ execs[e].phase \in {"ready", "calling", "backoff"}}
  <2>1. execs' = execs  BY <1>7 DEF AnswerArrives
  <2>2. CASE ~marks
    BY <1>7, <2>1, <2>2, DoomedGoOn DEF AnswerArrives, DoomedAreMarked, Owner
  <2>3. CASE marks
    <3>1. cancelled' = [cancelled EXCEPT ![f] = cancelled[f] \union {id}]
      BY <1>7, <2>3 DEF AnswerArrives
    <3>2. doomed' = doomed \union marked  BY <1>7, <2>3 DEF AnswerArrives
    <3>3. f \in Facets
      <4>1. calls[c] \in CancelCalls
        BY <1>7, <2>3 DEF AnswerArrives, AllTypes, CallTypes, SetCalls, NoCall
      <4> QED  BY <4>1 DEF CancelCalls
    <3>4. \A g \in Facets : cancelled[g] \subseteq cancelled'[g]  BY <3>1 DEF AllTypes, ExecTypes
    <3>5. id \in cancelled'[f]  BY <3>1, <3>3 DEF AllTypes, ExecTypes
    <3>6. \A e \in marked : Owner(e) = f
      BY <2>3, <3>3 DEF OwnersAgree
    <3> HIDE DEF f, id, marks
    <3>7. ASSUME NEW e \in doomed'
          PROVE  /\ e \in Execs /\ execs[e].phase \in AtFacet
                 /\ Owner(e) \in Facets /\ execs[e].id \in cancelled'[Owner(e)]
      <4>1. CASE e \in doomed  BY <3>4, <4>1 DEF DoomedAreMarked
      <4>2. CASE e \in marked  BY <3>3, <3>5, <3>6, <4>2 DEF AtFacet
      <4> QED  BY <3>2, <4>1, <4>2
    <3> QED  BY <2>1, <3>7 DEF DoomedAreMarked, Owner
  <2> QED  BY <2>2, <2>3
<1>8. CASE RootEvicted
  <2>1. ASSUME NEW d \in doomed
        PROVE  /\ execs'[d].phase = execs[d].phase
               /\ execs'[d].id = execs[d].id /\ execs'[d].owner = execs[d].owner
    <3>1. /\ d \in Execs /\ Active(d) /\ Owner(d) # Root
          /\ execs[d].phase \in {"ready", "calling", "backoff"}
      BY SchedulerAssumption DEF DoomedAreMarked, AtFacet, Active
    <3>2. execs'[d] = [execs[d] EXCEPT !.orphan = TRUE]  BY <1>8, <3>1 DEF RootEvicted
    <3>3. execs[d] \in Executions  BY <3>1, ExecTyped
    <3> QED  BY <3>2, <3>3 DEF Executions
  <2> QED  BY <1>8, <2>1, DoomedGoOn DEF DoomedAreMarked, Owner, RootEvicted, facets, history
<1>9. ASSUME NEW f \in Facets, FacetEvicted(f)
      PROVE  DoomedAreMarked'
  <2>1. doomed' = {e \in doomed : Owner(e) # f}  BY <1>9 DEF FacetEvicted
  <2>2. \A e \in doomed' : execs'[e] = execs[e]
    BY <1>9, <2>1 DEF FacetEvicted, DoomedAreMarked
  <2>3. \A g \in Facets : g # f => cancelled'[g] = cancelled[g]
    BY <1>9 DEF FacetEvicted, AllTypes, ExecTypes
  <2> QED  BY <2>1, <2>2, <2>3, DoomedGoOn DEF DoomedAreMarked, Owner
<1>10. ASSUME UNCHANGED <<execs, cancelled, doomed>>
       PROVE  DoomedAreMarked'
  BY <1>10, DoomedGoOn DEF DoomedAreMarked, Owner
<1>11. ASSUME NEW kind \in Kinds, NEW i \in Idempotent(kind),
              SetAtRoot(kind, i) \/ \E c \in Callers, f \in Facets : SetAtFacet(c, f, kind, i)
       PROVE  DoomedAreMarked'
  BY <1>10, <1>11 DEF SetAtRoot, SetAtFacet, Ask, facets, history
<1>12. ASSUME NEW id \in Ids,
              CancelAtRoot(id) \/ \E c \in Callers, f \in Facets : CancelAtFacet(c, f, id)
       PROVE  DoomedAreMarked'
  BY <1>10, <1>12 DEF CancelAtRoot, CancelAtFacet, Ask, facets, history
<1>13. CASE \/ Migrate \/ VersionWritten \/ Tick \/ UNCHANGED vars
            \/ \E c \in Callers : RouteArrives(c)
  BY <1>10, <1>13 DEF Migrate, VersionWritten, Tick, RouteArrives, facets, history, vars
<1> QED
  BY <1>1, <1>2, <1>4, <1>5, <1>6, <1>7, <1>8, <1>9, <1>11, <1>12, <1>13 DEF Next

-----------------------------------------------------------------------------
(* The theorems.                                                           *)

LEMMA SchedulerInvHolds == Spec => []SchedulerInv
<1>1. Init => SchedulerInv
  <2> SUFFICES ASSUME Init  PROVE SchedulerInv
    OBVIOUS
  <2>1. TableTypes
    <3>1. legacy \in Legacies  BY SchedulerAssumption DEF Init, Legacies
    <3> QED  BY <3>1, Bounds DEF Init, TableTypes
  <2>2. ExecTypes /\ CallTypes  BY DEF Init, ExecTypes, CallTypes, NoCall
  <2>3. IdsAreUsed /\ OwnersAgree /\ DoomedAreMarked
    BY DEF Init, IdsAreUsed, OwnersAgree, DoomedAreMarked, Active, Idle
  <2>4. LegacyFirst  BY DEF Init, LegacyFirst
  <2> QED  BY <2>1, <2>2, <2>3, <2>4 DEF SchedulerInv, AllTypes
<1>2. SchedulerInv /\ [Next]_vars => SchedulerInv'
  <2> SUFFICES ASSUME SchedulerInv, [Next]_vars  PROVE SchedulerInv'
    OBVIOUS
  <2>1. AllTypes /\ IdsAreUsed /\ OwnersAgree /\ DoomedAreMarked /\ LegacyFirst  BY DEF SchedulerInv
  <2>2. AllTypes'  BY <2>1, TableMoved, ExecsMoved, CallsTyped DEF AllTypes
  <2>3. IdsAreUsed' /\ OwnersAgree'  BY <2>1, IdsStayUsed, OwnersStayAgreed
  <2>4. DoomedAreMarked' /\ LegacyFirst'  BY <2>1, DoomedStayMarked, LegacyStaysFirst
  <2> QED  BY <2>2, <2>3, <2>4 DEF SchedulerInv
<1> QED  BY <1>1, <1>2, PTL DEF Spec

\* A recurring row comes when there is no other, and an older version's alone.
LEMMA RowsStaySingle ==
  ASSUME AllTypes, IdsAreUsed, LegacyFirst, OneRowPerSchedule, [Next]_vars,
         \A a, b \in Legacy : a = b
  PROVE  OneRowPerSchedule'
<1>1. CASE RowsKept  BY <1>1 DEF RowsKept, OneRowPerSchedule
<1>2. CASE RowAdded
  <2>1. PICK id \in Ids \ (used \union legacy.rows), owner \in Owners, kind \in KindsOfRows :
          /\ \A i \in Ids : i # id => jobs'[i] = jobs[i]
          /\ jobs'[id].owner = owner /\ jobs'[id].kind = kind
          /\ kind # "once" => Matching(owner, kind) = {}
    BY <1>2, AddedRow
  <2>2. ASSUME NEW a \in Ids, a # id, kind # "once"
        PROVE  ~(jobs[a] # NoJob /\ jobs[a].owner = owner /\ jobs[a].kind = kind)
    BY <2>1, <2>2 DEF Matching
  <2> QED  BY <2>1, <2>2 DEF OneRowPerSchedule
<1>3. CASE RowsMigrated
  <2>1. CASE legacy.rows = {}  BY <1>3, <2>1 DEF RowsMigrated, OneRowPerSchedule
  <2>2. CASE legacy.rows # {}
    <3>1. \A id \in Ids : jobs[id] = NoJob
      BY <1>3, <2>2 DEF RowsMigrated, LegacyFirst, IdsAreUsed
    <3>2. \A id \in Ids : jobs'[id] # NoJob => id \in Legacy
      BY <1>3, <3>1 DEF RowsMigrated, LegacyFirst
    <3> QED  BY <3>2 DEF OneRowPerSchedule
  <2> QED  BY <2>1, <2>2
<1> QED  BY <1>1, <1>2, <1>3, TableMoved DEF TableMoves

\* See Scheduler: asking again for a recurring schedule leaves one row of it,
\* whoever asks, over evictions and the migration of an older version.  Rows of
\* that version differ in their callback, which the model leaves out: there is
\* at most one of the callback that is asked for.
THEOREM OneRowEach == (\A a, b \in Legacy : a = b) /\ Spec => []SchedulesAreOrderly
<1> SUFFICES ASSUME \A a, b \in Legacy : a = b  PROVE Spec => []SchedulesAreOrderly
  OBVIOUS
<1>1. Init => OneRowPerSchedule  BY DEF Init, OneRowPerSchedule
<1>2. SchedulerInv /\ OneRowPerSchedule /\ [Next]_vars => OneRowPerSchedule'
  BY RowsStaySingle DEF SchedulerInv
<1>3. SchedulerInv => TypeOK
  <2> SUFFICES ASSUME SchedulerInv  PROVE TypeOK
    OBVIOUS
  <2>1. TableTypes /\ ExecTypes /\ DoomedAreMarked  BY DEF SchedulerInv, AllTypes
  <2>2. \A e \in Execs : execs[e].phase \in Phases \union {"idle"}
    BY <2>1 DEF ExecTypes, Executions, Idle
  <2> QED  BY <2>1, <2>2 DEF TypeOK, TableTypes, ExecTypes, DoomedAreMarked, Phases
<1> QED  BY <1>1, <1>2, <1>3, SchedulerInvHolds, PTL DEF Spec, SchedulesAreOrderly

\* See Scheduler: whatever a facet was told to stop is not attempted again.
THEOREM CancelledStayStopped == Spec => CancelStopsRetries
<1> DEFINE Stops == \A e \in doomed : execs'[e].attempt = execs[e].attempt \/ execs'[e] = Idle
<1>1. SchedulerInv /\ [Next]_vars => Stops
  <2> SUFFICES ASSUME SchedulerInv, [Next]_vars, NEW d \in doomed
               PROVE  execs'[d].attempt = execs[d].attempt \/ execs'[d] = Idle
    OBVIOUS
  <2>1. AllTypes /\ DoomedAreMarked  BY DEF SchedulerInv
  <2>2. d \in Execs /\ Active(d) /\ Stopped(d) /\ execs[d].phase \in AtFacet
    BY <2>1, SchedulerAssumption DEF DoomedAreMarked, AtFacet, Active, Stopped
  <2>3. execs[d] \in Executions  BY <2>1, <2>2, ExecTyped
  <2>4. ASSUME NEW phase  PROVE [execs[d] EXCEPT !.phase = phase].attempt = execs[d].attempt
    BY <2>3 DEF Executions
  <2>5. [execs[d] EXCEPT !.orphan = TRUE].attempt = execs[d].attempt  BY <2>3 DEF Executions
  <2>6. ASSUME NEW e \in Execs, Ends(e)
        PROVE  execs'[d].attempt = execs[d].attempt \/ execs'[d] = Idle
    <3>1. PICK x \in {Idle, [execs[e] EXCEPT !.phase = "done"]} : execs' = [execs EXCEPT ![e] = x]
      BY <2>1, <2>6, EndingExecution
    <3>2. execs'[d] = IF d = e THEN x ELSE execs[d]  BY <2>1, <2>2, <3>1 DEF AllTypes, ExecTypes
    <3>3. x = Idle \/ (d = e => x.attempt = execs[d].attempt)  BY <2>4, <3>1
    <3> QED  BY <3>2, <3>3
  <2>7. ASSUME NEW e \in Execs, NEW phase, Continues(e, phase)
        PROVE  execs'[d].attempt = execs[d].attempt \/ execs'[d] = Idle
    <3>1. execs'[d] = IF d = e THEN [execs[e] EXCEPT !.phase = phase] ELSE execs[d]
      BY <2>1, <2>2, <2>7 DEF Continues, AllTypes, ExecTypes
    <3> QED  BY <2>4, <3>1
  <2>8. ASSUME NEW e \in Execs, e # d, NEW x, execs' = [execs EXCEPT ![e] = x]
        PROVE  execs'[d].attempt = execs[d].attempt
    BY <2>1, <2>2, <2>8 DEF AllTypes, ExecTypes
  <2>9. ASSUME NEW e \in Execs, Execution(e)
        PROVE  execs'[d].attempt = execs[d].attempt \/ execs'[d] = Idle
    <3>1. CASE Attempt(e)
      <4>1. CASE ~Stopped(e)
        <5>1. e # d  BY <2>2, <4>1
        <5>2. CASE Ends(e)  BY <2>6, <5>2
        <5>3. CASE ~Ends(e)
          <6>1. \E x : execs' = [execs EXCEPT ![e] = x]  BY <3>1, <5>3 DEF Attempt
          <6> QED  BY <2>8, <5>1, <6>1
        <5> QED  BY <5>2, <5>3
      <4>2. CASE Stopped(e)  BY <2>6, <3>1, <4>2 DEF Attempt
      <4> QED  BY <4>1, <4>2
    <3>2. CASE BackoffEnds(e) \/ CallbackReturns(e) \/ CallbackRaises(e)
      BY <2>6, <2>7, <3>2 DEF BackoffEnds, CallbackReturns, CallbackRaises
    <3>3. CASE RoutedStarts(e)
      <4>1. e # d  BY <2>2, <3>3 DEF RoutedStarts, AtFacet
      <4>2. \E x : execs' = [execs EXCEPT ![e] = x]  BY <2>1, <3>3, RoutedStartsMoves
      <4> QED  BY <2>8, <4>1, <4>2
    <3>4. CASE Settle(e)
      <4>1. e # d  BY <2>2, <3>4 DEF Settle, AtFacet
      <4> QED  BY <2>8, <3>4, <4>1 DEF Settle
    <3> QED  BY <2>9, <3>1, <3>2, <3>3, <3>4 DEF Execution
  <2>10. ASSUME NEW e \in Execs, NEW id \in Ids, Dispatch(e, id)
         PROVE  execs'[d].attempt = execs[d].attempt
    <3>1. e # d  BY <2>1, <2>2, <2>10, DispatchMoves
    <3>2. \E x : execs' = [execs EXCEPT ![e] = x]  BY <2>10 DEF Dispatch
    <3> QED  BY <2>8, <3>1, <3>2
  <2>11. CASE RootEvicted
    <3>1. execs'[d] = [execs[d] EXCEPT !.orphan = TRUE] \/ execs'[d] = Idle
      BY <2>2, <2>11 DEF RootEvicted
    <3> QED  BY <2>5, <3>1
  <2>12. ASSUME NEW f \in Facets, FacetEvicted(f)
         PROVE  execs'[d].attempt = execs[d].attempt \/ execs'[d] = Idle
    <3>1. \/ execs'[d] = [execs[d] EXCEPT !.phase = "failed"]
          \/ execs'[d] = Idle \/ execs'[d] = execs[d]
      BY <2>2, <2>12 DEF FacetEvicted
    <3> QED  BY <2>4, <3>1
  <2>13. CASE UNCHANGED execs  BY <2>13
  <2>14. ASSUME NEW kind \in Kinds, NEW i \in Idempotent(kind),
                SetAtRoot(kind, i) \/ \E c \in Callers, f \in Facets : SetAtFacet(c, f, kind, i)
         PROVE  UNCHANGED execs
    BY <2>14 DEF SetAtRoot, SetAtFacet, Ask
  <2>15. ASSUME NEW id \in Ids,
                CancelAtRoot(id) \/ \E c \in Callers, f \in Facets : CancelAtFacet(c, f, id)
         PROVE  UNCHANGED execs
    BY <2>15 DEF CancelAtRoot, CancelAtFacet, Ask
  <2>16. ASSUME \/ Migrate \/ VersionWritten \/ Tick \/ UNCHANGED vars
                \/ \E c \in Callers : RouteArrives(c) \/ AnswerArrives(c)
         PROVE  UNCHANGED execs
    BY <2>16 DEF Migrate, VersionWritten, Tick, RouteArrives, AnswerArrives, vars
  <2> QED
    BY <2>9, <2>10, <2>11, <2>12, <2>13, <2>14, <2>15, <2>16 DEF Next, Execution
<1> QED  BY <1>1, SchedulerInvHolds, PTL DEF Spec, CancelStopsRetries

=============================================================================

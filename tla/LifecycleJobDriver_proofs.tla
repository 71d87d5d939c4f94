---------------------- MODULE LifecycleJobDriver_proofs --------------------
(***************************************************************************)
(* What holds of the alarm driver for any number of jobs and of overlapping *)
(* alarms: the type invariant, and the fence between a claim and the newer  *)
(* intents of its job.                                                      *)
(***************************************************************************)
EXTENDS LifecycleJobDriver, FiniteSetTheorems, WellFoundedInduction, SequenceTheorems, TLAPS

-----------------------------------------------------------------------------
(* The statements of the job table: every one of them maps tables to tables, *)
(* and a table with a row in it has a next alarm.                            *)

(* A finite non-empty set of numbers has a least element (the sets of the   *)
(* elements up to each element, ordered by strict inclusion).               *)
LEMMA FiniteMinimum ==
  ASSUME NEW S \in SUBSET Nat, IsFiniteSet(S), S # {}
  PROVE  \E m \in S : \A x \in S : m <= x
<1> DEFINE UpTo(x) == {y \in S : y <= x}
           T == {UpTo(x) : x \in S}
<1>1. IsWellFoundedOn(StrictSubsetOrdering(S), SUBSET S)
  BY FS_StrictSubsetOrderingWellFounded, FS_FiniteSubsetsOfFinite
<1>2. T \subseteq SUBSET S /\ T # {}
  OBVIOUS
<1>3. PICK a \in T : \A b \in T : <<b, a>> \notin StrictSubsetOrdering(S)
  <2> HIDE DEF T
  <2> QED BY <1>1, <1>2, WFMin
<1>4. PICK m \in S : a = UpTo(m)
  BY <1>3
<1>5. \A x \in S : m <= x
  <2> SUFFICES ASSUME NEW x \in S, ~(m <= x) PROVE FALSE
    OBVIOUS
  <2>1. x \in Nat /\ m \in Nat /\ x < m
    OBVIOUS
  <2>2. \A y \in UpTo(x) : y \in UpTo(m)
    BY <2>1
  <2>3. m \notin UpTo(x) /\ m \in UpTo(m)
    BY <2>1
  <2>4. UpTo(x) \in SUBSET S /\ UpTo(m) \in SUBSET S
    OBVIOUS
  <2>5. UpTo(x) \in T
    OBVIOUS
  <2> HIDE DEF UpTo, T
  <2>6. <<UpTo(x), UpTo(m)>> \in StrictSubsetOrdering(S)
    BY <2>2, <2>3, <2>4 DEF StrictSubsetOrdering
  <2> QED BY <2>5, <2>6, <1>3, <1>4
<1> QED BY <1>5

(* The least time of a non-empty finite set of times is one of them.        *)
LEMMA MinTimeType ==
  ASSUME NEW S \in SUBSET Nat, IsFiniteSet(S), S # {}
  PROVE  MinTime(S) \in S
BY FiniteMinimum DEF MinTime

(* The image of a finite set is finite.                                     *)
LEMMA FiniteImage ==
  ASSUME NEW S, IsFiniteSet(S), NEW f
  PROVE  IsFiniteSet({f[x] : x \in S})
<1> DEFINE T == {f[x] : x \in S}
           g == [x \in S |-> f[x]]
<1>1. g \in Surjection(S, T)
  BY DEF Surjection
<1> QED BY <1>1, FS_Surjection

(* Releasing a claim or moving a row's time leaves a row.                   *)
LEMMA RowType ==
  ASSUME NEW r \in Row, NEW time \in Nat
  PROVE  /\ Release(r) \in Row
         /\ Retimed(r, time) \in Row
         /\ [r EXCEPT !.running = TRUE, !.started = time] \in Row
         /\ Release(r).running = FALSE
         /\ Retimed(r, time).running = FALSE
BY DEF Row, Release, Retimed

(* What push writes for the options it is given is a row.                   *)
LEMMA NewRowType ==
  ASSUME NEW o \in Owners, NEW opt \in Options, NEW time \in Nat
  PROVE  NewRow(o, opt, time) \in Row /\ NewRow(o, opt, time).running = FALSE
BY DEF NewRow, Row, Options

(* Every statement of the queue leaves a table behind.                      *)
LEMMA TablesType ==
  ASSUME NEW t \in Tables, NEW j \in Jobs, NEW time \in Nat
  PROVE  /\ Delete(t, j) \in Tables
         /\ Present(t, j) => Reschedule(t, j, time) \in Tables
         /\ Present(t, j) => MarkRunning(t, j, time) \in Tables
         /\ \A o \in Owners, opt \in Options : Push(t, o, j, opt, time) \in Tables
         /\ \A r \in Row : ClearIntent(t, j, r) \in Tables
         /\ \A r \in Row, b \in BOOLEAN : DeleteIntent(t, j, r, b) \in Tables
         /\ \A r \in Row, b \in BOOLEAN :
              RetimeIntent(t, j, r, time, b) \in Tables
         /\ DelayRecoveryLoopJobs(t, time) \in Tables
         /\ PurgeRecoveryLoopJobs(t) \in Tables
<1> USE DEF Tables, Present
<1>1. \A k \in Jobs : t[k] # NoRow => t[k] \in Row
  OBVIOUS
<1>2. Delete(t, j) \in Tables
  BY DEF Delete
<1>3. Present(t, j) => Reschedule(t, j, time) \in Tables
  BY <1>1, RowType DEF Reschedule
<1>4. Present(t, j) => MarkRunning(t, j, time) \in Tables
  BY <1>1, RowType DEF MarkRunning
<1>5. \A o \in Owners, opt \in Options : Push(t, o, j, opt, time) \in Tables
  BY NewRowType DEF Push
<1>6. \A r \in Row : ClearIntent(t, j, r) \in Tables
  BY <1>1, RowType DEF ClearIntent, IntentGuard
<1>7. \A r \in Row, b \in BOOLEAN : DeleteIntent(t, j, r, b) \in Tables
  BY <1>2 DEF DeleteIntent
<1>8. \A r \in Row, b \in BOOLEAN : RetimeIntent(t, j, r, time, b) \in Tables
  BY <1>1, RowType DEF RetimeIntent, IntentGuard
<1>9. DelayRecoveryLoopJobs(t, time) \in Tables
  BY <1>1, RowType DEF DelayRecoveryLoopJobs
<1>10. PurgeRecoveryLoopJobs(t) \in Tables
  BY DEF PurgeRecoveryLoopJobs
<1> QED BY <1>2, <1>3, <1>4, <1>5, <1>6, <1>7, <1>8, <1>9, <1>10

(* What a handler's outcome does to the job table leaves a job table.       *)
LEMMA ApplyOutcomeType ==
  ASSUME NEW t \in Tables, NEW j \in Jobs, NEW r \in Row,
         NEW times \in SUBSET Nat, NEW outcome \in Outcomes(times)
  PROVE  ApplyOutcome(t, j, r, outcome) \in Tables
<1>1. CASE outcome \in [kind : {"done", "yield"}]
  BY <1>1, TablesType DEF ApplyOutcome
<1>2. CASE outcome \in [kind : {"reschedule"}, at : times]
  BY <1>2, TablesType DEF ApplyOutcome
<1> QED BY <1>1, <1>2 DEF Outcomes

(* While there is a row there is a time to look at it again: neither an     *)
(* exclusive job nor a live singleflight run hides the whole table.         *)
THEOREM NextAlarmExists ==
  ASSUME NEW t \in Tables, NEW now \in Nat
  PROVE  /\ NextAlarmTime(t, now) \in Nat \cup {NoTime}
         /\ (\E j \in Jobs : Present(t, j)) => NextAlarmTime(t, now) \in Nat
<1> DEFINE exclusive == HasExclusive(t)
           inPlay  == {j \in Jobs : Present(t, j) /\ (exclusive => t[j].exclusive)}
           flying  == {j \in inPlay : InFlight(t[j], now)}
           times   == {t[j].time : j \in inPlay \ flying}
           ready   == MinTime(times)
           recheck == {t[j].started + HungTimeout : j \in flying}
           floor   == IF exclusive \/ ready = NoTime \/ ready > now
                      THEN ready ELSE now + 1
           all     == recheck \cup ({floor} \ {NoTime})
<1>1. \A j \in Jobs : Present(t, j) => t[j].time \in Nat /\ t[j].started \in Nat
  BY DEF Tables, Present, Row
<1>2. times \in SUBSET Nat /\ recheck \in SUBSET Nat
  BY <1>1, HungTimeoutAssumption
<1>3. IsFiniteSet(inPlay \ flying) /\ IsFiniteSet(flying)
  BY JobsAssumption, FS_Subset
<1>4. IsFiniteSet(times)
  <2> DEFINE f == [j \in inPlay \ flying |-> t[j].time]
  <2>2. times = {f[x] : x \in inPlay \ flying}
    OBVIOUS
  <2> HIDE DEF f, times, inPlay, flying
  <2> QED BY <1>3, <2>2, FiniteImage
<1>5. IsFiniteSet(recheck)
  <2> DEFINE g == [j \in flying |-> t[j].started + HungTimeout]
  <2>1. recheck = {g[x] : x \in flying}
    OBVIOUS
  <2> HIDE DEF g, recheck, flying
  <2> QED BY <1>3, <2>1, FiniteImage
<1>6. ready \in Nat \cup {NoTime} /\ (times # {} => ready \in Nat)
  <2>1. CASE times = {}
    BY <2>1 DEF MinTime
  <2>2. CASE times # {}
    <3> HIDE DEF times
    <3> QED BY <2>2, <1>2, <1>4, MinTimeType
  <2> QED BY <2>1, <2>2
<1>7. floor \in Nat \cup {NoTime} /\ (times # {} => floor \in Nat)
  <2> HIDE DEF ready, times, exclusive
  <2> QED BY <1>6, NoTimeAssumption
<1>8. all \in SUBSET Nat /\ IsFiniteSet(all)
  <2> HIDE DEF floor, recheck
  <2>1. IsFiniteSet({floor} \ {NoTime})
    BY FS_Singleton, FS_Subset
  <2> QED BY <2>1, <1>2, <1>5, <1>7, FS_Union
<1>9. NextAlarmTime(t, now) = MinTime(all)
  BY DEF NextAlarmTime
<1>10. all # {} => MinTime(all) \in Nat
  <2> HIDE DEF all
  <2> QED BY <1>8, MinTimeType
<1>11. all = {} => MinTime(all) = NoTime
  BY DEF MinTime
<1>12. (\E j \in Jobs : Present(t, j)) => all # {}
  <2> SUFFICES ASSUME NEW k \in Jobs, Present(t, k) PROVE all # {}
    OBVIOUS
  <2>1. PICK j \in Jobs : j \in inPlay
    BY DEF HasExclusive
  <2>2. CASE j \in flying
    BY <2>2
  <2>3. CASE j \notin flying
    <3>1. times # {}
      BY <2>1, <2>3
    <3>2. floor \in Nat
      BY <3>1, <1>7
    <3> HIDE DEF floor
    <3> QED BY <3>2, NoTimeAssumption
  <2> QED BY <2>2, <2>3
<1> QED
  <2> HIDE DEF all
  <2> QED BY <1>9, <1>10, <1>11, <1>12

-----------------------------------------------------------------------------

TypeInv == TypeOK /\ ClaimOK

-----------------------------------------------------------------------------
(* A new scope has its type.                                                *)
LEMMA NewScopeType ==
  ASSUME NEW g \in Nat
  PROVE  /\ NewScope(g) \in Scopes
         /\ NewScope(g).job = NoJob /\ NewScope(g).pc = "start"
<1>1. <<>> \in Seq(Jobs)
  BY EmptySeq
<1> QED BY <1>1 DEF Scopes, Phases, NewScope

(* Marking a scope outdated and leaving it idle keep its type.              *)
LEMMA ScopeType ==
  ASSUME NEW sc \in Scopes, NEW X
  PROVE  /\ Outdated(sc, X) \in Scopes
         /\ Outdated(sc, X).pc = sc.pc
         /\ Outdated(sc, X).job = sc.job
         /\ Outdated(sc, X).row = sc.row
         /\ Outdated(sc, X).due = sc.due
         /\ Idle(sc) \in Scopes /\ Idle(sc).job = NoJob /\ Idle(sc).pc = "idle"
<1>1. <<>> \in Seq(Jobs)
  BY EmptySeq
<1> QED BY <1>1 DEF Scopes, Phases, Outdated, Idle

(* A scope moves on to another phase.                                       *)
LEMMA PcType ==
  ASSUME NEW sc \in Scopes, NEW c \in Phases
  PROVE  /\ [sc EXCEPT !.pc = c] \in Scopes
         /\ [sc EXCEPT !.pc = c].pc = c
         /\ [sc EXCEPT !.pc = c].job = sc.job
         /\ [sc EXCEPT !.pc = c].row = sc.row
BY DEF Scopes

(* The record of an absent handoff has its type.                            *)
LEMMA NoWorkType ==
  NoWork \in Works /\ NoWork.pc = "none" /\ NoWork.job = NoJob
BY DEF Works, NoWork

(* So does marking a handoff.                                               *)
LEMMA WorkType ==
  ASSUME NEW w \in Works, NEW X
  PROVE  /\ Outdated(w, X) \in Works
         /\ Outdated(w, X).pc = w.pc
         /\ Outdated(w, X).job = w.job
         /\ Outdated(w, X).row = w.row
BY DEF Works, Outdated

(* Marking changes a history field of the scopes and handoffs only.         *)
LEMMA MarkScopesType ==
  ASSUME TypeOK, NEW X, MarkScopes(X)
  PROVE  /\ scope' \in [Alarms -> Scopes]
         /\ \A p \in Alarms : /\ scope'[p] = Outdated(scope[p], X)
                              /\ scope'[p].pc = scope[p].pc
                              /\ scope'[p].job = scope[p].job
                              /\ scope'[p].row = scope[p].row
<1>1. \A p \in Alarms : scope[p] \in Scopes /\ scope'[p] = Outdated(scope[p], X)
  BY DEF TypeOK, MarkScopes
<1>2. \A p \in Alarms : /\ scope'[p] \in Scopes
                        /\ scope'[p].pc = scope[p].pc
                        /\ scope'[p].job = scope[p].job
                        /\ scope'[p].row = scope[p].row
  BY <1>1, ScopeType
<1>3. scope' = [p \in Alarms |-> scope'[p]]
  BY DEF MarkScopes
<1> QED BY <1>1, <1>2, <1>3

(* The same for the handoffs.                                               *)
LEMMA MarkWorkType ==
  ASSUME TypeOK, NEW X, MarkWork(X)
  PROVE  /\ work' \in [Alarms -> Works]
         /\ \A p \in Alarms : /\ work'[p] = Outdated(work[p], X)
                              /\ work'[p].pc = work[p].pc
                              /\ work'[p].job = work[p].job
                              /\ work'[p].row = work[p].row
<1>1. \A p \in Alarms : work[p] \in Works /\ work'[p] = Outdated(work[p], X)
  BY DEF TypeOK, MarkWork
<1>2. \A p \in Alarms : /\ work'[p] \in Works
                        /\ work'[p].pc = work[p].pc
                        /\ work'[p].job = work[p].job
                        /\ work'[p].row = work[p].row
  BY <1>1, WorkType
<1>3. work' = [p \in Alarms |-> work'[p]]
  BY DEF MarkWork
<1> QED BY <1>1, <1>2, <1>3

(* The list of due ids is a sequence of ids.                                *)
LEMMA DueType ==
  ASSUME NEW t, NEW time, NEW b, NEW q \in DueLists(t, time, b)
  PROVE  q \in Seq(Jobs)
<1> DEFINE due == {j \in Jobs : IsDue(t, j, time, b)}
<1>1. Cardinality(due) \in Nat
  BY JobsAssumption, FS_Subset, FS_CardinalityType
<1>2. q \in [1..Cardinality(due) -> due]
  BY DEF DueLists
<1>3. q \in [1..Cardinality(due) -> Jobs]
  BY <1>2
<1> QED BY <1>1, <1>3, SeqDef

(* So is what is left of it.                                                *)
LEMMA RestType ==
  ASSUME NEW s \in Seq(Jobs), NEW i \in 1..Len(s)
  PROVE  SubSeq(s, i + 1, Len(s)) \in Seq(Jobs) /\ s[i] \in Jobs
<1>1. Len(s) \in Nat
  BY LenProperties
<1>2. s[i] \in Jobs
  BY ElementOfSeq
<1>3. SubSeq(s, i + 1, Len(s)) \in Seq(Jobs)
  BY <1>1, SubSeqProperties
<1> QED BY <1>2, <1>3

(* Pruning and noting versions keep their type.                             *)
LEMMA PrunedType ==
  ASSUME versions \in [Jobs -> Nat], NEW j, NEW c, NEW b
  PROVE  Pruned(j, c, b) \in [Jobs -> Nat]
BY DEF Pruned

(* Noting a mutation gives a job a new version.                             *)
LEMMA NoteMutationType ==
  ASSUME TypeOK, NEW j \in Jobs, NoteMutation(j)
  PROVE  versions' \in [Jobs -> Nat] /\ mutationSequence' \in Nat
BY DEF TypeOK, NoteMutation

(* After a rearm the alarm has its type, and is there if a row is.          *)
LEMMA RearmType ==
  ASSUME TypeOK, NEW t \in Tables, Rearm(t)
  PROVE  /\ alarm' \in Nat \cup {NoAlarm}
         /\ delivery' \in Alarms \cup {NoSlot}
         /\ rearmRequested' \in BOOLEAN
<1>1. NextAlarmTime(t, clock) \in Nat \cup {NoTime}
  BY NextAlarmExists DEF TypeOK
<1> QED BY <1>1 DEF TypeOK, Rearm

(* The same when alarm() returns after it.                                  *)
LEMMA RearmAndReturnType ==
  ASSUME TypeOK, NEW p \in Alarms, RearmAndReturn(p)
  PROVE  /\ alarm' \in Nat \cup {NoAlarm}
         /\ delivery' \in Alarms \cup {NoSlot}
         /\ rearmRequested' \in BOOLEAN
<1>1. rows \in Tables
  BY DEF TypeOK
<1> QED BY <1>1, RearmType DEF TypeOK, RearmAndReturn

-----------------------------------------------------------------------------
(* The initial state has its types.                                         *)
LEMMA TypeInit == Init => TypeInv
<1> SUFFICES ASSUME Init PROVE TypeInv
  OBVIOUS
<1>1. Idle(NewScope(0)) \in Scopes /\ Idle(NewScope(0)).job = NoJob
      /\ Idle(NewScope(0)).pc = "idle"
  BY NewScopeType, ScopeType
<1>2. rows \in Tables
  BY DEF Init, Tables
<1>3. Free \in [holder : Threads \cup {NoThread},
                stage : {"free", "strike", "policy", "seal", "rearm"},
                sealed : BOOLEAN, delay : Nat]
  BY DEF Free
<1>4. TypeOK
  <2>1. scope \in [Alarms -> Scopes] /\ work \in [Alarms -> Works]
    BY <1>1, NoWorkType DEF Init
  <2>2. versions \in [Jobs -> Nat] /\ active \in [Jobs -> Int]
    BY DEF Init
  <2> QED BY <1>2, <1>3, <2>1, <2>2 DEF Init, TypeOK
<1>5. ClaimOK
  BY <1>1, NoWorkType DEF Init, ClaimOK, IsTracked
<1> QED BY <1>4, <1>5 DEF TypeInv

(* An operation on the queue keeps the types.                               *)
LEMMA TypeOperation ==
  ASSUME TypeInv, NEW j \in Jobs, NEW t \in Tables, NEW taken \in BOOLEAN,
         Operation(j, t, taken), acked' \subseteq Jobs
  PROVE  TypeInv'
<1>1. versions' \in [Jobs -> Nat] /\ mutationSequence' \in Nat
  BY NoteMutationType DEF TypeInv, TypeOK, Operation
<1>2. /\ scope' \in [Alarms -> Scopes]
      /\ \A p \in Alarms : /\ scope'[p].pc = scope[p].pc
                           /\ scope'[p].job = scope[p].job
                           /\ scope'[p].row = scope[p].row
  <2>1. CASE taken
    BY <2>1, MarkScopesType DEF TypeInv, Operation
  <2>2. CASE ~taken
    BY <2>2 DEF TypeInv, TypeOK, Operation
  <2> QED BY <2>1, <2>2
<1>3. /\ work' \in [Alarms -> Works]
      /\ \A p \in Alarms : /\ work'[p].pc = work[p].pc
                           /\ work'[p].job = work[p].job
                           /\ work'[p].row = work[p].row
  <2>1. CASE taken
    BY <2>1, MarkWorkType DEF TypeInv, Operation
  <2>2. CASE ~taken
    BY <2>2 DEF TypeInv, TypeOK, Operation
  <2> QED BY <2>1, <2>2
<1>4. ClaimOK'
  BY <1>2, <1>3 DEF TypeInv, ClaimOK, IsTracked
<1>5. TypeOK'
  BY <1>1, <1>2, <1>3 DEF TypeInv, TypeOK, Operation, CanOperate, OweRearm
<1> QED BY <1>4, <1>5 DEF TypeInv

(* Startup keeps the types.                                                 *)
LEMMA TypeStartup ==
  ASSUME TypeInv,
         StartBegin \/ Starting \/ \E k \in StartupFailures : StartFails(k)
  PROVE  TypeInv'
<1> USE DEF TypeInv
<1>1. NextAlarmTime(rows, clock) \in Nat \cup {NoTime}
  BY NextAlarmExists DEF TypeOK
<1>2. CASE StartBegin
  BY <1>2 DEF StartBegin, TypeOK, ClaimOK, IsTracked, durable, fences,
              operation, bounds
<1>3. CASE HookRearms
  BY <1>3 DEF HookRearms, TypeOK, ClaimOK, IsTracked, durable, fences,
              operation, bounds
<1>4. CASE StartDone
  BY <1>1, <1>4 DEF StartDone, RearmOwed, TypeOK, ClaimOK, IsTracked, fences, bounds
<1>5. ASSUME NEW k \in StartupFailures, StartFails(k)
      PROVE  TypeInv'
  <2>1. k \in {"fail", "oom"}
    BY DriverAssumption
  <2>2. /\ scope' \in [Alarms -> Scopes]
        /\ \A p \in Alarms :
             /\ scope'[p].pc = scope[p].pc \/ scope'[p].pc = k
             /\ scope'[p].job = scope[p].job /\ scope'[p].row = scope[p].row
    <3>1. \A p \in Alarms : scope[p] \in Scopes
      BY DEF TypeOK
    <3>2. \A p \in Alarms :
            /\ [scope[p] EXCEPT !.pc = k] \in Scopes
            /\ [scope[p] EXCEPT !.pc = k].pc = k
            /\ [scope[p] EXCEPT !.pc = k].job = scope[p].job
            /\ [scope[p] EXCEPT !.pc = k].row = scope[p].row
      <4>1. k \in Phases
        BY <2>1 DEF Phases
      <4> QED BY <4>1, <3>1, PcType
    <3>3. scope' = [p \in Alarms |->
            IF scope[p].pc = "start" THEN [scope[p] EXCEPT !.pc = k]
                                     ELSE scope[p]]
      BY <1>5 DEF StartFails
    <3> QED BY <3>1, <3>2, <3>3
  <2>3. ClaimOK'
    BY <1>5, <2>1, <2>2 DEF StartFails, ClaimOK, IsTracked
  <2>4. faults' \in Nat /\ ooms' \in Nat
    BY <1>5 DEF StartFails, TypeOK
  <2>5. alarm' \in Nat \cup {NoAlarm} /\ delivery' \in Alarms \cup {NoSlot}
    BY <1>1, <1>5 DEF StartFails, RearmOwed, TypeOK
  <2>6. TypeOK'
    BY <1>5, <2>2, <2>4, <2>5 DEF StartFails, TypeOK, fences
  <2> QED BY <2>3, <2>6
<1> QED BY <1>2, <1>3, <1>4, <1>5 DEF Starting

(* So do the operations on the queue and their rearms.                      *)
LEMMA TypeOperations ==
  ASSUME TypeInv, Operations \/ \E j \in Jobs : OperationRearms(j)
  PROVE  TypeInv'
<1>0. rows \in Tables
  BY DEF TypeInv, TypeOK
<1>1. ASSUME NEW j \in Jobs, NEW o \in Owners, NEW opt \in PushOptions,
             NEW t \in RescheduleTo, PushJob(o, j, opt, t)
      PROVE  TypeInv'
  <2>1. Push(rows, o, j, opt, t) \in Tables
    BY <1>0, TablesType, DriverAssumption
  <2>2. acked' \subseteq Jobs
    BY <1>1 DEF PushJob, TypeInv, TypeOK
  <2> QED BY <1>1, <2>1, <2>2, TypeOperation DEF PushJob
<1>2. ASSUME NEW j \in Jobs, NEW o \in Owners, CancelJob(o, j)
      PROVE  TypeInv'
  <2> DEFINE t == IF Owned(rows, o, j) THEN Delete(rows, j) ELSE rows
             b == Owned(rows, o, j)
  <2>1. t \in Tables
    BY <1>0, TablesType, 0 \in Nat
  <2>2. acked' \subseteq Jobs
    BY <1>2 DEF CancelJob, TypeInv, TypeOK
  <2>3. b \in BOOLEAN
    BY DEF Owned, Present
  <2>4. Operation(j, t, b)
    BY <1>2 DEF CancelJob
  <2> HIDE DEF t, b
  <2> QED BY <2>1, <2>2, <2>3, <2>4, TypeOperation
<1>3. ASSUME NEW j \in Jobs, NEW o \in Owners, NEW t \in RescheduleTo,
             RescheduleJob(o, j, t)
      PROVE  TypeInv'
  <2>1. Reschedule(rows, j, t) \in Tables
    BY <1>0, <1>3, TablesType, DriverAssumption DEF RescheduleJob, Owned
  <2>2. acked' \subseteq Jobs
    BY <1>3 DEF RescheduleJob, TypeInv, TypeOK
  <2> QED BY <1>3, <2>1, <2>2, TypeOperation DEF RescheduleJob
<1>4. ASSUME NEW j \in Jobs, OperationRearms(j)
      PROVE  TypeInv'
  <2>1. /\ alarm' \in Nat \cup {NoAlarm}
        /\ delivery' \in Alarms \cup {NoSlot}
        /\ rearmRequested' \in BOOLEAN
    BY <1>0, <1>4, RearmType DEF OperationRearms, TypeInv
  <2> QED BY <1>4, <2>1 DEF OperationRearms, TypeInv, TypeOK, ClaimOK,
             IsTracked, fences, bounds
<1> QED BY <1>1, <1>2, <1>3, <1>4 DEF Operations
-----------------------------------------------------------------------------
(* What an invocation needs of its scope and of its handoff.                *)
ScopeOK(sc) ==
  /\ sc \in Scopes
  /\ sc.pc = "dispatch" => sc.job # NoJob
  /\ sc.job # NoJob => sc.row \in Row
HandoffOK(w) ==
  /\ w \in Works
  /\ w.pc \in {"running", "oom"} => w.job # NoJob
  /\ w.job # NoJob => w.row \in Row

(* The invariant, slot by slot.                                             *)
LEMMA Slots ==
  TypeInv => \A p \in Alarms : ScopeOK(scope[p]) /\ HandoffOK(work[p])
BY DEF TypeInv, TypeOK, ClaimOK, IsTracked, ScopeOK, HandoffOK

(* Conversely, the slots of the next state give its part of the invariant.  *)
LEMMA SlotsNext ==
  ASSUME DOMAIN scope' = Alarms, scope' = [p \in Alarms |-> scope'[p]],
         work' = [p \in Alarms |-> work'[p]],
         \A p \in Alarms : ScopeOK(scope'[p]) /\ HandoffOK(work'[p])
  PROVE  /\ scope' \in [Alarms -> Scopes] /\ work' \in [Alarms -> Works]
         /\ ClaimOK'
BY DEF ClaimOK, IsTracked, ScopeOK, HandoffOK

(* An update of one slot.                                                   *)
LEMMA ScopeUpdate ==
  ASSUME TypeInv, NEW p \in Alarms, NEW sc, ScopeOK(sc),
         scope' = [scope EXCEPT ![p] = sc], UNCHANGED work
  PROVE  /\ scope' \in [Alarms -> Scopes] /\ work' \in [Alarms -> Works]
         /\ ClaimOK'
<1>1. scope' = [q \in Alarms |-> scope'[q]] /\ work' = [q \in Alarms |-> work'[q]]
  BY DEF TypeInv, TypeOK
<1>2. \A q \in Alarms : ScopeOK(scope'[q]) /\ HandoffOK(work'[q])
  BY Slots DEF TypeInv, TypeOK
<1> QED BY <1>1, <1>2, SlotsNext

(* An update of one handoff.                                                *)
LEMMA WorkUpdate ==
  ASSUME TypeInv, NEW p \in Alarms, NEW w, HandoffOK(w),
         work' = [work EXCEPT ![p] = w], UNCHANGED scope
  PROVE  /\ scope' \in [Alarms -> Scopes] /\ work' \in [Alarms -> Works]
         /\ ClaimOK'
<1>1. scope' = [q \in Alarms |-> scope'[q]] /\ work' = [q \in Alarms |-> work'[q]]
  BY DEF TypeInv, TypeOK
<1>2. \A q \in Alarms : ScopeOK(scope'[q]) /\ HandoffOK(work'[q])
  BY Slots DEF TypeInv, TypeOK
<1> QED BY <1>1, <1>2, SlotsNext

(* Counting a scope as finished keeps its type.                             *)
LEMMA FinishedType ==
  ASSUME NEW sc \in Scopes, NEW b \in BOOLEAN
  PROVE  /\ [sc EXCEPT !.finished = b] \in Scopes
         /\ [sc EXCEPT !.finished = b].pc = sc.pc
         /\ [sc EXCEPT !.finished = b].job = sc.job
         /\ [sc EXCEPT !.finished = b].row = sc.row
BY DEF Scopes

(* So does counting a strike.                                               *)
LEMMA CountedType ==
  ASSUME NEW sc \in Scopes, NEW n \in Nat
  PROVE  /\ [sc EXCEPT !.counted = n] \in Scopes
         /\ [sc EXCEPT !.counted = n].pc = sc.pc
         /\ [sc EXCEPT !.counted = n].job = sc.job
         /\ [sc EXCEPT !.counted = n].row = sc.row
BY DEF Scopes

(* An idle or fresh scope is in order.                                      *)
LEMMA IdleOK ==
  ASSUME NEW sc \in Scopes
  PROVE  /\ ScopeOK(Idle(sc))
         /\ ScopeOK([Idle(sc) EXCEPT !.finished = TRUE])
         /\ \A g \in Nat : ScopeOK(NewScope(g))
<1>1. \A g \in Nat : ScopeOK(NewScope(g))
  BY NewScopeType DEF ScopeOK, NewScope
<1>2. Idle(sc) \in Scopes /\ Idle(sc).job = NoJob /\ Idle(sc).pc = "idle"
  BY ScopeType
<1>3. ScopeOK(Idle(sc))
  BY <1>2 DEF ScopeOK
<1>4. ScopeOK([Idle(sc) EXCEPT !.finished = TRUE])
  BY <1>2, FinishedType DEF ScopeOK
<1> QED BY <1>1, <1>3, <1>4

(* The steps of a delivery up to the claims.                                *)
LEMMA TypeDelivery ==
  ASSUME TypeInv, NEW p \in Alarms,
         AlarmFires(p) \/ Snapshot(p) \/ ArmDeadman(p) \/ LoopEnds(p)
  PROVE  TypeInv'
<1>1. scope[p] \in Scopes /\ ScopeOK(scope[p])
  BY Slots DEF TypeInv, TypeOK
<1>2. CASE AlarmFires(p)
  <2>1. ScopeOK(NewScope(memoryGeneration))
    BY <1>1, IdleOK DEF TypeInv, TypeOK
  <2>2. scope' \in [Alarms -> Scopes] /\ work' \in [Alarms -> Works] /\ ClaimOK'
    BY <1>2, <2>1, ScopeUpdate DEF AlarmFires
  <2> QED BY <1>2, <2>2 DEF AlarmFires, TypeInv, TypeOK, startup, fences,
             operation, bounds
<1>3. CASE Snapshot(p)
  <2>1. PICK q \in DueLists(rows, clock, HasExclusive(rows)) :
          scope' = [scope EXCEPT ![p].inv = clock, ![p].due = q,
                      ![p].pc = IF q = <<>> THEN "host" ELSE "deadman"]
    BY <1>3 DEF Snapshot
  <2> DEFINE sc == [scope[p] EXCEPT !.inv = clock, !.due = q,
                      !.pc = IF q = <<>> THEN "host" ELSE "deadman"]
  <2>2. q \in Seq(Jobs) /\ clock \in Nat
    BY DueType DEF TypeInv, TypeOK
  <2>3. ScopeOK(sc)
    BY <1>1, <2>2 DEF ScopeOK, Scopes, Phases
  <2>4. scope' = [scope EXCEPT ![p] = sc]
    BY <2>1
  <2>5. scope' \in [Alarms -> Scopes] /\ work' \in [Alarms -> Works] /\ ClaimOK'
    <3> HIDE DEF sc
    <3> QED BY <1>3, <2>3, <2>4, ScopeUpdate DEF Snapshot
  <2> QED BY <1>3, <2>5 DEF Snapshot, TypeInv, TypeOK, durable, startup, fences,
             operation, bounds
<1>4. CASE ArmDeadman(p)
  <2> DEFINE sc == [scope[p] EXCEPT !.pc = "loop"]
  <2>1. ScopeOK(sc)
    BY <1>1, PcType DEF ScopeOK, Phases
  <2>2. scope' = [scope EXCEPT ![p] = sc]
    BY <1>4 DEF ArmDeadman
  <2>3. scope' \in [Alarms -> Scopes] /\ work' \in [Alarms -> Works] /\ ClaimOK'
    <3> HIDE DEF sc
    <3> QED BY <1>4, <2>1, <2>2, ScopeUpdate DEF ArmDeadman
  <2>4. alarm' \in Nat
    <3>1. scope[p].inv \in Nat
      BY <1>1 DEF Scopes
    <3> QED BY <1>4, <3>1, DriverAssumption DEF ArmDeadman
  <2> QED BY <1>4, <2>3, <2>4 DEF ArmDeadman, TypeInv, TypeOK, startup, fences,
             operation, bounds
<1>5. CASE LoopEnds(p)
  <2> DEFINE sc == [scope[p] EXCEPT !.pc = "host", !.due = <<>>]
  <2>0. <<>> \in Seq(Jobs)
    BY EmptySeq
  <2>1. ScopeOK(sc)
    BY <1>1, <2>0 DEF ScopeOK, Scopes, Phases
  <2>2. scope' = [scope EXCEPT ![p] = sc]
    BY <1>5 DEF LoopEnds
  <2>3. scope' \in [Alarms -> Scopes] /\ work' \in [Alarms -> Works] /\ ClaimOK'
    <3> HIDE DEF sc
    <3> QED BY <1>5, <2>1, <2>2, ScopeUpdate DEF LoopEnds
  <2> QED BY <1>5, <2>3 DEF LoopEnds, TypeInv, TypeOK, durable, startup, fences,
             operation, bounds
<1> QED BY <1>2, <1>3, <1>4, <1>5

(* A version taken from the mutation sequence has its type.                 *)
LEMMA ClaimTimeType ==
  ASSUME TypeInv, NEW p \in Alarms
  PROVE  ClaimTime(p) \in Nat /\ ClaimTime(p) > lastClaim
<1>1. scope[p].inv \in Nat /\ lastClaim \in Nat
  BY DEF TypeInv, TypeOK, Scopes
<1> QED BY <1>1 DEF ClaimTime, Later

(* A claim, and the deletion of a row nobody handles.                       *)
LEMMA TypeClaim ==
  ASSUME TypeInv, NEW p \in Alarms, Claim(p) \/ DropUnhandled(p)
  PROVE  TypeInv'
<1>1. ScopeOK(scope[p]) /\ scope[p].due \in Seq(Jobs)
  BY Slots DEF ScopeOK, Scopes
<1>2. rows \in Tables /\ ClaimTime(p) \in Nat
  BY ClaimTimeType DEF TypeInv, TypeOK
<1>3. \A i \in 1..Len(scope[p].due) :
        scope[p].due[i] \in Jobs /\ Rest(p, i) \in Seq(Jobs)
  BY <1>1, RestType DEF Rest
<1>4. CASE Claim(p)
  <2> DEFINE t(j) == MarkRunning(rows, j, ClaimTime(p))
             sc(i, j) == [scope[p] EXCEPT !.pc = "dispatch", !.due = Rest(p, i),
                 !.job = j, !.row = t(j)[j],
                 !.version = mutationSequence + 1, !.stale = FALSE]
  <2>1. PICK i \in 1..Len(scope[p].due) :
          LET j == scope[p].due[i] IN
            /\ ClaimAt(p, i)
            /\ rows' = t(j)
            /\ lastClaim' = ClaimTime(p)
            /\ mutationSequence' = mutationSequence + 1
            /\ versions' = [versions EXCEPT ![j] = mutationSequence + 1]
            /\ active' = [active EXCEPT ![j] = @ + 1]
            /\ scope' = [q \in Alarms |-> IF q = p THEN sc(i, j)
                                          ELSE Outdated(scope[q], {j})]
            /\ MarkWork({j})
            /\ UNCHANGED <<clock, alarm, strikes, delivery, startup,
                   memoryGeneration, breaker, operation, resetPending, bounds>>
    BY <1>4 DEF Claim
  <2> DEFINE j == scope[p].due[i]
  <2>2. j \in Jobs /\ Rest(p, i) \in Seq(Jobs)
    BY <1>3
  <2>3. Present(rows, j)
    BY <2>1 DEF ClaimAt, Eligible, IsDue
  <2>4. t(j) \in Tables /\ t(j)[j] \in Row
    <3>1. t(j) \in Tables
      BY <1>2, <2>2, <2>3, TablesType
    <3>2. rows[j] \in Row
      BY <1>2, <2>2, <2>3 DEF Tables, Present
    <3>3. t(j)[j] = [rows[j] EXCEPT !.running = TRUE, !.started = ClaimTime(p)]
      BY <1>2, <2>2 DEF MarkRunning, Tables
    <3> QED BY <3>1, <3>2, <3>3, <1>2, RowType
  <2>5. mutationSequence + 1 \in Nat /\ j # NoJob
    BY <2>2, NoJobAssumption DEF TypeInv, TypeOK
  <2>6. ScopeOK(sc(i, j))
    <3> HIDE DEF j, t
    <3> QED BY <1>1, <2>2, <2>4, <2>5 DEF ScopeOK, Scopes, Phases
  <2>7. \A q \in Alarms : ScopeOK(Outdated(scope[q], {j}))
    BY Slots, ScopeType DEF ScopeOK
  <2>8. \A q \in Alarms : HandoffOK(work'[q])
    BY <2>1, Slots, MarkWorkType DEF TypeInv, HandoffOK
  <2>9. \A q \in Alarms : ScopeOK(scope'[q])
    <3> HIDE DEF sc
    <3> QED BY <2>1, <2>6, <2>7
  <2>10. scope' = [q \in Alarms |-> scope'[q]] /\ work' = [q \in Alarms |-> work'[q]]
    <3> HIDE DEF sc
    <3> QED BY <2>1 DEF MarkWork
  <2>11. scope' \in [Alarms -> Scopes] /\ work' \in [Alarms -> Works] /\ ClaimOK'
    BY <2>8, <2>9, <2>10, SlotsNext
  <2>12. rows' \in Tables /\ lastClaim' \in Nat /\ mutationSequence' \in Nat
    BY <2>1, <2>4, <2>5, <1>2
  <2>13. versions' \in [Jobs -> Nat]
    <3>1. versions \in [Jobs -> Nat]
      BY DEF TypeInv, TypeOK
    <3>2. versions' = [versions EXCEPT ![j] = mutationSequence + 1]
      BY <2>1
    <3> HIDE DEF j, sc, t
    <3> QED BY <3>1, <3>2, <2>2, <2>5
  <2>14. active' \in [Jobs -> Int]
    <3>1. active \in [Jobs -> Int]
      BY DEF TypeInv, TypeOK
    <3>2. active' = [active EXCEPT ![j] = @ + 1]
      BY <2>1
    <3> HIDE DEF j, sc, t
    <3> QED BY <3>1, <3>2, <2>2
  <2>15. UNCHANGED <<clock, alarm, strikes, delivery, startup,
                   memoryGeneration, breaker, operation, resetPending, bounds>>
    BY <2>1
  <2> QED BY <2>11, <2>12, <2>13, <2>14, <2>15 DEF TypeInv, TypeOK, startup,
             operation, bounds
<1>5. CASE DropUnhandled(p)
  <2>1. PICK i \in 1..Len(scope[p].due) :
          LET j == scope[p].due[i] IN
            /\ rows' = Delete(rows, j)
            /\ lastClaim' = ClaimTime(p)
            /\ mutationSequence' = mutationSequence + 1
            /\ versions' = IF active[j] > 0 \/ HasTracked(j)
                   THEN [versions EXCEPT ![j] = mutationSequence + 1]
                   ELSE [versions EXCEPT ![j] = 0]
            /\ scope' = [[q \in Alarms |-> Outdated(scope[q], {j})]
                           EXCEPT ![p].due = Rest(p, i)]
            /\ MarkWork({j})
            /\ UNCHANGED <<clock, alarm, strikes, delivery, startup, active,
                   memoryGeneration, breaker, operation, resetPending, bounds>>
    BY <1>5 DEF DropUnhandled
  <2> DEFINE j == scope[p].due[i]
             o(q) == Outdated(scope[q], {j})
             sc == [o(p) EXCEPT !.due = Rest(p, i)]
  <2>2. j \in Jobs /\ Rest(p, i) \in Seq(Jobs)
    BY <1>3
  <2>3. \A q \in Alarms : ScopeOK(o(q))
    BY Slots, ScopeType DEF ScopeOK
  <2>4. scope' = [q \in Alarms |-> IF q = p THEN sc ELSE o(q)]
    BY <2>1
  <2>5. ScopeOK(sc)
    <3>1. ScopeOK(o(p))
      BY <2>3
    <3> HIDE DEF o
    <3> QED BY <2>2, <3>1 DEF ScopeOK, Scopes
  <2>6. \A q \in Alarms : ScopeOK(scope'[q])
    <3> HIDE DEF sc, o
    <3> QED BY <2>3, <2>4, <2>5
  <2>7. \A q \in Alarms : HandoffOK(work'[q])
    BY <2>1, Slots, MarkWorkType DEF TypeInv, HandoffOK
  <2>8. scope' = [q \in Alarms |-> scope'[q]] /\ work' = [q \in Alarms |-> work'[q]]
    <3>1. work' = [q \in Alarms |-> work'[q]]
      BY <2>1 DEF MarkWork
    <3> HIDE DEF sc, o
    <3> QED BY <2>4, <3>1
  <2>9. scope' \in [Alarms -> Scopes] /\ work' \in [Alarms -> Works] /\ ClaimOK'
    BY <2>6, <2>7, <2>8, SlotsNext
  <2>10. rows' \in Tables /\ lastClaim' \in Nat /\ mutationSequence' \in Nat
    <3>1. Delete(rows, j) \in Tables
      BY <2>2, <1>2, TablesType
    <3>2. mutationSequence \in Nat
      BY DEF TypeInv, TypeOK
    <3> QED BY <2>1, <3>1, <3>2, <1>2
  <2>11. versions' \in [Jobs -> Nat]
    <3>1. versions \in [Jobs -> Nat] /\ mutationSequence + 1 \in Nat
      BY DEF TypeInv, TypeOK
    <3>2. \/ versions' = [versions EXCEPT ![j] = mutationSequence + 1]
          \/ versions' = [versions EXCEPT ![j] = 0]
      BY <2>1
    <3> HIDE DEF j
    <3> QED BY <2>2, <3>1, <3>2
  <2>12. UNCHANGED <<clock, alarm, strikes, delivery, startup, active,
                   memoryGeneration, breaker, operation, resetPending, bounds>>
    BY <2>1
  <2> QED BY <2>9, <2>10, <2>11, <2>12 DEF TypeInv, TypeOK, startup, operation,
             bounds
<1> QED BY <1>4, <1>5

(* Ending a claim and forgetting versions keep the types of the fences.     *)
LEMMA EndClaimType ==
  ASSUME TypeInv, NEW j, NEW b
  PROVE  /\ EndClaim(j) \in [Jobs -> Int]
         /\ Pruned(j, EndClaim(j), b) \in [Jobs -> Nat]
         /\ Pruned(j, active, b) \in [Jobs -> Nat]
<1>1. active \in [Jobs -> Int] /\ versions \in [Jobs -> Nat]
  BY DEF TypeInv, TypeOK
<1>2. EndClaim(j) \in [Jobs -> Int]
  <2>1. CASE j \in Jobs
    <3>1. active[j] - 1 \in Int
      BY <1>1, <2>1
    <3> QED BY <1>1, <2>1, <3>1 DEF EndClaim
  <2>2. CASE j \notin Jobs
    BY <1>1, <2>2 DEF EndClaim
  <2> QED BY <2>1, <2>2
<1> QED BY <1>1, <1>2, PrunedType

(* The end of a dispatch, and a handoff from it.                            *)
LEMMA TypeSettles ==
  ASSUME TypeInv, NEW p \in Alarms, Settles(p) \/ Track(p)
  PROVE  TypeInv'
<1>1. ScopeOK(scope[p]) /\ rows \in Tables
  BY Slots DEF TypeInv, TypeOK
<1>2. ASSUME scope[p].pc = "dispatch"
      PROVE  scope[p].job \in Jobs /\ scope[p].row \in Row
  BY <1>1, <1>2 DEF ScopeOK, Scopes
<1>3. EndClaim(scope[p].job) \in [Jobs -> Int]
  BY EndClaimType
<1>4. ASSUME NEW outcome \in Outcomes(RescheduleTo), JobReturns(p, outcome)
      PROVE  TypeInv'
  <2> DEFINE j == scope[p].job
             sc == [scope[p] EXCEPT !.pc = "loop", !.job = NoJob,
                      !.row = NoRow, !.version = 0, !.stale = FALSE]
  <2>1. ScopeOK(sc)
    BY <1>1 DEF ScopeOK, Scopes, Phases
  <2>2. scope' = [scope EXCEPT ![p] = sc]
    BY <1>4 DEF JobReturns
  <2>3. scope' \in [Alarms -> Scopes] /\ work' \in [Alarms -> Works] /\ ClaimOK'
    <3> HIDE DEF sc
    <3> QED BY <1>4, <2>1, <2>2, ScopeUpdate DEF JobReturns
  <2>4. rows' \in Tables
    <3>1. ApplyOutcome(rows, j, scope[p].row, outcome) \in Tables
      BY <1>1, <1>2, <1>4, ApplyOutcomeType, DriverAssumption DEF JobReturns
    <3> QED BY <1>1, <1>4, <3>1 DEF JobReturns
  <2>5. versions' \in [Jobs -> Nat] /\ active' \in [Jobs -> Int]
    BY <1>4, EndClaimType DEF JobReturns
  <2>6. faults' \in Nat
    BY <1>4 DEF JobReturns, TypeInv, TypeOK
  <2> QED BY <1>4, <2>3, <2>4, <2>5, <2>6 DEF JobReturns, TypeInv, TypeOK,
             startup, operation
<1>5. CASE JobAborts(p)
  <2> DEFINE sc == [scope[p] EXCEPT !.pc = "fail"]
  <2>1. ScopeOK(sc)
    BY <1>1, PcType DEF ScopeOK, Phases
  <2>2. scope' = [scope EXCEPT ![p] = sc]
    BY <1>5 DEF JobAborts
  <2>3. scope' \in [Alarms -> Scopes] /\ work' \in [Alarms -> Works] /\ ClaimOK'
    <3> HIDE DEF sc
    <3> QED BY <1>5, <2>1, <2>2, ScopeUpdate DEF JobAborts
  <2>4. rows' \in Tables
    <3>1. ClearIntent(rows, scope[p].job, scope[p].row) \in Tables
      <4>1. 0 \in Nat
        OBVIOUS
      <4> QED BY <1>1, <1>2, <1>5, <4>1, TablesType DEF JobAborts
    <3> QED BY <1>1, <1>5, <3>1 DEF JobAborts
  <2> QED BY <1>3, <1>5, <2>3, <2>4 DEF JobAborts, TypeInv, TypeOK, startup,
             operation
<1>6. CASE JobOoms(p)
  <2> DEFINE sc == [scope[p] EXCEPT !.pc = "oom"]
  <2>1. ScopeOK(sc)
    BY <1>1, PcType DEF ScopeOK, Phases
  <2>2. scope' = [scope EXCEPT ![p] = sc]
    BY <1>6 DEF JobOoms
  <2>3. scope' \in [Alarms -> Scopes] /\ work' \in [Alarms -> Works] /\ ClaimOK'
    <3> HIDE DEF sc
    <3> QED BY <1>6, <2>1, <2>2, ScopeUpdate DEF JobOoms
  <2> QED BY <1>3, <1>6, <2>3 DEF JobOoms, TypeInv, TypeOK, durable, startup,
             operation
<1>7. CASE Track(p)
  <2> DEFINE w == [pc |-> "running", job |-> scope[p].job, row |-> scope[p].row,
                   version |-> scope[p].version, stale |-> scope[p].stale]
  <2>1. HandoffOK(w)
    <3>1. scope[p] \in Scopes /\ scope[p].job # NoJob /\ scope[p].row \in Row
      BY <1>1, <1>2, <1>7, NoJobAssumption DEF ScopeOK, Track
    <3> QED BY <3>1 DEF HandoffOK, Works, Scopes
  <2>2. work' = [work EXCEPT ![p] = w]
    BY <1>7 DEF Track
  <2>3. scope' \in [Alarms -> Scopes] /\ work' \in [Alarms -> Works] /\ ClaimOK'
    <3> HIDE DEF w
    <3> QED BY <1>7, <2>1, <2>2, WorkUpdate DEF Track
  <2> QED BY <1>7, <2>3 DEF Track, TypeInv, TypeOK, durable, startup, fences,
             operation, bounds
<1> QED BY <1>4, <1>5, <1>6, <1>7 DEF Settles

(* The end of an invocation.                                                *)
LEMMA TypeEnds ==
  ASSUME TypeInv, NEW p \in Alarms,
         \/ \E r \in {"clear", "fail", "oom"} : HostAlarm(p, r)
         \/ AlarmRaises(p) \/ AlarmClears(p) \/ AlarmReturns(p)
  PROVE  TypeInv'
<1>1. ScopeOK(scope[p]) /\ scope[p] \in Scopes /\ rows \in Tables
  BY Slots DEF TypeInv, TypeOK
<1>2. ASSUME NEW r \in {"clear", "fail", "oom"}, HostAlarm(p, r)
      PROVE  TypeInv'
  <2> DEFINE c == IF r = "clear" /\ scope[p].failed THEN "rearm" ELSE r
             sc == [scope[p] EXCEPT !.pc = c, !.finished = (r = "clear")]
  <2>1. c \in Phases \ {"dispatch"}
    BY DEF Phases
  <2>2. ScopeOK(sc)
    <3> HIDE DEF c
    <3> QED BY <1>1, <2>1 DEF ScopeOK, Scopes
  <2>3. scope' = [scope EXCEPT ![p] = sc]
    BY <1>2 DEF HostAlarm
  <2>4. scope' \in [Alarms -> Scopes] /\ work' \in [Alarms -> Works] /\ ClaimOK'
    <3> HIDE DEF sc
    <3> QED BY <1>2, <2>2, <2>3, ScopeUpdate DEF HostAlarm
  <2>5. faults' \in Nat /\ ooms' \in Nat
    BY <1>2 DEF HostAlarm, TypeInv, TypeOK
  <2> QED BY <1>2, <2>4, <2>5 DEF HostAlarm, TypeInv, TypeOK, durable, startup,
             fences, operation
<1>3. CASE AlarmRaises(p)
  <2>1. ScopeOK(Idle(scope[p]))
    BY <1>1, IdleOK
  <2>2. scope' \in [Alarms -> Scopes] /\ work' \in [Alarms -> Works] /\ ClaimOK'
    BY <1>3, <2>1, ScopeUpdate DEF AlarmRaises
  <2>3. versions' \in [Jobs -> Nat]
    BY <1>3, EndClaimType DEF AlarmRaises, TypeInv, TypeOK
  <2>4. /\ alarm' \in Nat \cup {NoAlarm}
        /\ delivery' \in Alarms \cup {NoSlot}
        /\ rearmRequested' \in BOOLEAN
    <3>1. CASE life = "starting"
      BY <1>3, <3>1 DEF AlarmRaises, TypeInv, TypeOK
    <3>2. CASE life # "starting"
      BY <1>1, <1>3, <3>2, RearmType DEF AlarmRaises, TypeInv
    <3> QED BY <3>1, <3>2
  <2> QED BY <1>3, <2>2, <2>3, <2>4 DEF AlarmRaises, TypeInv, TypeOK, operation,
             bounds
<1>4. CASE AlarmClears(p)
  <2> DEFINE sc == [scope[p] EXCEPT !.pc = "rearm"]
  <2>1. ScopeOK(sc)
    BY <1>1, PcType DEF ScopeOK, Phases
  <2>2. scope' = [scope EXCEPT ![p] = sc]
    BY <1>4 DEF AlarmClears
  <2>3. scope' \in [Alarms -> Scopes] /\ work' \in [Alarms -> Works] /\ ClaimOK'
    <3> HIDE DEF sc
    <3> QED BY <1>4, <2>1, <2>2, ScopeUpdate DEF AlarmClears
  <2>4. strikes' \in Nat
    BY <1>4 DEF AlarmClears, StrikesAfterClear, TypeInv, TypeOK
  <2> QED BY <1>4, <2>3, <2>4 DEF AlarmClears, TypeInv, TypeOK, startup, fences,
             operation, bounds
<1>5. CASE AlarmReturns(p)
  <2>1. ScopeOK(Idle(scope[p]))
    BY <1>1, IdleOK
  <2>2. scope' \in [Alarms -> Scopes] /\ work' \in [Alarms -> Works] /\ ClaimOK'
    BY <1>5, <2>1, ScopeUpdate DEF AlarmReturns
  <2>3. /\ alarm' \in Nat \cup {NoAlarm}
        /\ delivery' \in Alarms \cup {NoSlot}
        /\ rearmRequested' \in BOOLEAN
    BY <1>5, RearmAndReturnType DEF AlarmReturns, TypeInv
  <2> QED BY <1>5, <2>2, <2>3 DEF AlarmReturns, TypeInv, TypeOK, fences,
             operation, bounds
<1> QED BY <1>2, <1>3, <1>4, <1>5

(* A handoff settles, and clears the strikes.                               *)
LEMMA TypeWork ==
  ASSUME TypeInv, NEW p \in Alarms, WorkEnds(p) \/ WorkClears(p)
  PROVE  TypeInv'
<1>1. /\ ScopeOK(scope[p]) /\ HandoffOK(work[p])
      /\ scope = [q \in Alarms |-> scope[q]] /\ work = [q \in Alarms |-> work[q]]
  BY Slots DEF TypeInv, TypeOK
<1>2. ASSUME NEW r \in {"clear", "fail", "oom"}, WorkSettles(p, r)
      PROVE  TypeInv'
  <2> DEFINE sc == [scope[p] EXCEPT !.failed = @ \/ r # "clear"]
             clean == r = "clear" /\ scope[p].finished /\ ~scope[p].failed
  <2>1. ScopeOK(sc)
    BY <1>1 DEF ScopeOK, Scopes
  <2>2. scope' = [scope EXCEPT ![p] = sc]
    BY <1>2 DEF WorkSettles
  <2>3. /\ HandoffOK([work[p] EXCEPT !.pc = "oom"])
        /\ HandoffOK([work[p] EXCEPT !.pc = "clear"]) /\ HandoffOK(NoWork)
    BY <1>1, <1>2 DEF HandoffOK, Works, NoWork, WorkSettles
  <2>4. PICK v : HandoffOK(v) /\ work' = [work EXCEPT ![p] = v]
    <3>1. CASE r = "oom"
      BY <1>2, <2>3, <3>1 DEF WorkSettles
    <3>2. CASE clean
      BY <1>2, <2>3, <3>2 DEF WorkSettles
    <3>3. CASE r # "oom" /\ ~clean
      BY <1>2, <2>3, <3>3 DEF WorkSettles
    <3> QED BY <3>1, <3>2, <3>3
  <2>5. \A q \in Alarms : ScopeOK(scope'[q]) /\ HandoffOK(work'[q])
    <3> HIDE DEF sc
    <3> QED BY <2>1, <2>2, <2>4, <1>1, Slots
  <2>6. scope' = [q \in Alarms |-> scope'[q]] /\ work' = [q \in Alarms |-> work'[q]]
    <3> HIDE DEF sc
    <3> QED BY <2>2, <2>4, <1>1
  <2>7. scope' \in [Alarms -> Scopes] /\ work' \in [Alarms -> Works] /\ ClaimOK'
    BY <2>5, <2>6, SlotsNext
  <2>8. versions' \in [Jobs -> Nat]
    <3> DEFINE others == \E q \in Alarms \ {p} :
                           IsTracked(q) /\ work[q].job = work[p].job
    <3>1. versions' \in {versions, Pruned(work[p].job, active, others)}
      BY <1>2 DEF WorkSettles
    <3>2. versions \in [Jobs -> Nat]
      BY DEF TypeInv, TypeOK
    <3> HIDE DEF others
    <3> QED BY <3>1, <3>2, EndClaimType
  <2>9. faults' \in Nat /\ ooms' \in Nat
    <3>1. \/ UNCHANGED <<faults, ooms>>
          \/ faults' = faults + 1 /\ UNCHANGED ooms
          \/ ooms' = ooms + 1 /\ UNCHANGED faults
      BY <1>2 DEF WorkSettles
    <3> QED BY <3>1 DEF TypeInv, TypeOK
  <2> QED BY <1>2, <2>7, <2>8, <2>9 DEF WorkSettles, TypeInv, TypeOK, durable,
             startup, operation
<1>3. CASE WorkClears(p)
  <2>1. HandoffOK(NoWork)
    BY NoWorkType DEF HandoffOK
  <2>2. scope' \in [Alarms -> Scopes] /\ work' \in [Alarms -> Works] /\ ClaimOK'
    BY <1>3, <2>1, WorkUpdate DEF WorkClears
  <2>3. strikes' \in Nat
    BY <1>3 DEF WorkClears, StrikesAfterClear, TypeInv, TypeOK
  <2>4. versions' \in [Jobs -> Nat]
    BY <1>3, EndClaimType DEF WorkClears
  <2> QED BY <1>3, <2>2, <2>3, <2>4 DEF WorkClears, TypeInv, TypeOK, startup,
             operation, bounds
<1> QED BY <1>2, <1>3 DEF WorkEnds

(* What a thread leaves behind when it leaves the breaker.                  *)
LEMMA LeaveType ==
  ASSUME TypeInv, NEW th \in Threads, Leave(th)
  PROVE  /\ scope' \in [Alarms -> Scopes] /\ work' \in [Alarms -> Works]
         /\ ClaimOK' /\ versions' \in [Jobs -> Nat]
<1>1. th[1] \in Alarms
  BY DEF Threads
<1>2. scope[th[1]] \in Scopes
  BY <1>1 DEF TypeInv, TypeOK
<1>3. scope' \in [Alarms -> Scopes] /\ work' \in [Alarms -> Works] /\ ClaimOK'
  <2>1. CASE th[2] = "alarm"
    <3>1. ScopeOK([Idle(scope[th[1]]) EXCEPT !.finished = TRUE])
      BY <1>2, IdleOK
    <3>2. /\ scope' = [scope EXCEPT ![th[1]] =
                         [Idle(scope[th[1]]) EXCEPT !.finished = TRUE]]
          /\ UNCHANGED work
      BY <2>1 DEF Leave
    <3> QED BY <1>1, <3>1, <3>2, ScopeUpdate
  <2>2. CASE th[2] # "alarm"
    <3>1. HandoffOK(NoWork)
      BY NoWorkType DEF HandoffOK
    <3>2. work' = [work EXCEPT ![th[1]] = NoWork] /\ UNCHANGED scope
      BY <2>2 DEF Leave
    <3> QED BY <1>1, <3>1, <3>2, WorkUpdate
  <2> QED BY <2>1, <2>2
<1>4. versions' \in [Jobs -> Nat]
  <2> DEFINE j == IF th[2] = "alarm" THEN scope[th[1]].job ELSE work[th[1]].job
             tracked == \E q \in Alarms :
                          /\ IsTracked(q) /\ work[q].job = j
                          /\ ~(q = th[1] /\ th[2] = "work")
  <2>1. versions' \in {versions, Pruned(j, active, tracked)}
    BY DEF Leave
  <2>2. versions \in [Jobs -> Nat]
    BY DEF TypeInv, TypeOK
  <2> HIDE DEF j, tracked
  <2> QED BY <2>1, <2>2, EndClaimType
<1> QED BY <1>3, <1>4

(* What the policy makes of the table.                                      *)
LEMMA PolicyType ==
  ASSUME TypeInv, NEW th \in Threads
  PROVE  PolicyRows(th) \in Tables
<1> DEFINE r    == PolicyRow(th)
           next == clock + breaker.delay
           must == th[2] = "alarm"
           own  == IF r.job = NoJob \/ ~VersionMatches(r.job, r.version) THEN rows
                   ELSE IF breaker.sealed
                        THEN DeleteIntent(rows, r.job, r.row, must)
                        ELSE RetimeIntent(rows, r.job, r.row, next, must)
<1>1. rows \in Tables /\ next \in Nat /\ th[1] \in Alarms /\ must \in BOOLEAN
  BY DEF TypeInv, TypeOK, Threads
<1>2. r.job \in Jobs \cup {NoJob} /\ (r.job # NoJob => r.row \in Row)
  BY <1>1, Slots DEF PolicyRow, ScopeOK, HandoffOK, Scopes, Works
<1>3. own \in Tables
  <2> HIDE DEF r, next, must
  <2>1. CASE r.job \in Jobs /\ r.row \in Row
    <3>1. DeleteIntent(rows, r.job, r.row, must) \in Tables
      BY <1>1, <2>1, TablesType
    <3>2. RetimeIntent(rows, r.job, r.row, next, must) \in Tables
      BY <1>1, <2>1, TablesType
    <3> QED BY <1>1, <3>1, <3>2
  <2>2. CASE r.job = NoJob
    BY <1>1, <2>2
  <2> QED BY <1>2, <2>1, <2>2
<1>4. /\ PurgeRecoveryLoopJobs(own) \in Tables
      /\ DelayRecoveryLoopJobs(own, next) \in Tables
  <2> HIDE DEF own, next
  <2>1. PurgeRecoveryLoopJobs(own) \in Tables
    BY <1>3 DEF PurgeRecoveryLoopJobs, Tables
  <2>2. DelayRecoveryLoopJobs(own, next) \in Tables
    <3>1. \A k \in Jobs : own[k] # NoRow => Retimed(own[k], next) \in Row
      BY <1>1, <1>3, RowType DEF Tables
    <3> QED BY <1>3, <3>1 DEF DelayRecoveryLoopJobs, Tables, Present
  <2> QED BY <2>1, <2>2
<1>5. PolicyRows(th) = IF breaker.sealed THEN PurgeRecoveryLoopJobs(own)
                       ELSE DelayRecoveryLoopJobs(own, next)
  BY DEF PolicyRows
<1> QED
  <2> HIDE DEF own, next
  <2> QED BY <1>4, <1>5

(* The stages of the breaker.                                               *)
LEMMA TypeBreaker ==
  ASSUME TypeInv, NEW th \in Threads, Breaker(th)
  PROVE  TypeInv'
<1> DEFINE B == [holder : Threads \cup {NoThread},
                 stage : {"free", "strike", "policy", "seal", "rearm"},
                 sealed : BOOLEAN, delay : Nat]
<1>1. th[1] \in Alarms /\ breaker \in B /\ Free \in B
  BY DEF Threads, TypeInv, TypeOK, Free
<1>2. \A p \in Alarms : ScopeOK(scope[p]) /\ HandoffOK(work[p])
  BY Slots
<1>3. scope = [q \in Alarms |-> scope[q]] /\ work = [q \in Alarms |-> work[q]]
  BY DEF TypeInv, TypeOK
<1>4. CASE BreakerSkips(th)
  <2>1. Leave(th)
    BY <1>4 DEF BreakerSkips
  <2>2. alarm' \in Nat \cup {NoAlarm} /\ delivery' \in Alarms \cup {NoSlot}
    BY <1>4 DEF BreakerSkips, TypeInv, TypeOK
  <2> QED BY <1>4, <2>1, <2>2, LeaveType DEF BreakerSkips, TypeInv, TypeOK,
             startup, operation, bounds
<1>5. CASE BreakerEnters(th)
  <2> DEFINE sc(p) == [scope[p] EXCEPT !.hit = TRUE,
                         !.struck = @ \/ p = th[1]]
  <2>1. \A p \in Alarms : ScopeOK(sc(p))
    BY <1>2 DEF ScopeOK, Scopes
  <2>2. scope' = [p \in Alarms |-> sc(p)] /\ UNCHANGED work
    BY <1>5 DEF BreakerEnters
  <2>3. scope' \in [Alarms -> Scopes] /\ work' \in [Alarms -> Works] /\ ClaimOK'
    <3> HIDE DEF sc
    <3>1. scope' = [q \in Alarms |-> scope'[q]]
          /\ work' = [q \in Alarms |-> work'[q]]
      BY <1>3, <2>2
    <3>2. \A q \in Alarms : ScopeOK(scope'[q]) /\ HandoffOK(work'[q])
      BY <1>2, <2>1, <2>2
    <3> QED BY <3>1, <3>2, SlotsNext
  <2>4. breaker' \in B
    BY <1>5, <1>1 DEF BreakerEnters, Free
  <2>5. memoryGeneration' \in Nat
    <3>1. memoryGeneration' = memoryGeneration + 1
      BY <1>5 DEF BreakerEnters
    <3> QED BY <3>1 DEF TypeInv, TypeOK
  <2>6. UNCHANGED <<clock, durable, startup, fences, operation, resetPending,
                    bounds>>
    BY <1>5 DEF BreakerEnters
  <2> QED BY <2>3, <2>4, <2>5, <2>6 DEF TypeInv, TypeOK, durable, startup,
             fences, operation, bounds
<1>6. CASE BreakerStrikes(th)
  <2> DEFINE sc(p) == [scope[p] EXCEPT !.counted = IF p = th[1] THEN @ + 1 ELSE @]
  <2>1. \A p \in Alarms : ScopeOK(sc(p))
    <3> SUFFICES ASSUME NEW p \in Alarms PROVE ScopeOK(sc(p))
      OBVIOUS
    <3>1. scope[p].counted \in Nat /\ scope[p].counted + 1 \in Nat
      BY <1>2 DEF ScopeOK, Scopes
    <3>2. PICK n \in Nat :
            sc(p) = [scope[p] EXCEPT !.counted = n]
      BY <3>1
    <3>3. scope[p] \in Scopes
      BY <1>2 DEF ScopeOK
    <3>4. /\ sc(p) \in Scopes /\ sc(p).pc = scope[p].pc
          /\ sc(p).job = scope[p].job /\ sc(p).row = scope[p].row
      <4> DEFINE new == [scope[p] EXCEPT !.counted = n]
      <4>1. /\ new \in Scopes /\ new.pc = scope[p].pc
            /\ new.job = scope[p].job /\ new.row = scope[p].row
        BY <3>3, CountedType
      <4>2. sc(p) = new
        BY <3>2
      <4> HIDE DEF sc, new
      <4> QED BY <4>1, <4>2
    <3> HIDE DEF sc
    <3> QED BY <1>2, <3>4 DEF ScopeOK
  <2>2. scope' = [p \in Alarms |-> sc(p)] /\ UNCHANGED work
    BY <1>6 DEF BreakerStrikes
  <2>3. scope' \in [Alarms -> Scopes] /\ work' \in [Alarms -> Works] /\ ClaimOK'
    <3> HIDE DEF sc
    <3>1. scope' = [q \in Alarms |-> scope'[q]]
          /\ work' = [q \in Alarms |-> work'[q]]
      BY <1>3, <2>2
    <3>2. \A q \in Alarms : ScopeOK(scope'[q]) /\ HandoffOK(work'[q])
      BY <1>2, <2>1, <2>2
    <3> QED BY <3>1, <3>2, SlotsNext
  <2>4. strikes \in Nat /\ MaxStrikeDelay \in Nat
        /\ StrikeStep * (strikes + 1) \in Nat
    BY DriverAssumption DEF TypeInv, TypeOK
  <2>5. Sooner(MaxStrikeDelay, StrikeStep * (strikes + 1)) \in Nat
    BY <2>4 DEF Sooner
  <2>6. breaker' \in B /\ strikes' \in Nat
    <3> DEFINE d == Sooner(MaxStrikeDelay, StrikeStep * (strikes + 1))
               b == strikes + 1 >= StrikeLimit
    <3>1. breaker' = [breaker EXCEPT !.stage = "policy", !.sealed = b, !.delay = d]
          /\ strikes' = strikes + 1
      BY <1>6 DEF BreakerStrikes
    <3>2. b \in BOOLEAN /\ d \in Nat
      BY <2>5
    <3>3. breaker' \in B
      <4> HIDE DEF b, d
      <4> QED BY <1>1, <3>1, <3>2
    <3> QED BY <2>4, <3>1, <3>3
  <2> QED BY <1>6, <2>3, <2>6 DEF BreakerStrikes, TypeInv, TypeOK, startup,
             fences, operation, bounds
<1>7. CASE BreakerDecides(th)
  <2>1. scope' \in [Alarms -> Scopes] /\ work' \in [Alarms -> Works] /\ ClaimOK'
    <3>1. \A q \in Alarms : ScopeOK(scope'[q]) /\ HandoffOK(work'[q])
      BY <1>2, <1>7, MarkScopesType DEF BreakerDecides, ScopeOK, TypeInv
    <3>2. scope' = [q \in Alarms |-> scope'[q]]
          /\ work' = [q \in Alarms |-> work'[q]]
      BY <1>3, <1>7 DEF BreakerDecides, MarkScopes
    <3> QED BY <3>1, <3>2, SlotsNext
  <2>2. breaker' \in B
    BY <1>7, <1>1 DEF BreakerDecides
  <2>3. rows' \in Tables
    BY <1>7, PolicyType DEF BreakerDecides
  <2> QED BY <1>7, <2>1, <2>2, <2>3 DEF BreakerDecides, TypeInv, TypeOK,
             startup, fences, operation, bounds
<1>8. CASE BreakerSeals(th)
  <2>1. breaker' \in B
    BY <1>8, <1>1 DEF BreakerSeals
  <2>2. ClaimOK'
    BY <1>8 DEF BreakerSeals, TypeInv, ClaimOK, IsTracked
  <2> QED BY <1>8, <2>1, <2>2 DEF BreakerSeals, TypeInv, TypeOK, startup,
             fences, operation, bounds
<1>9. CASE BreakerLeaves(th)
  <2>1. Leave(th) /\ breaker' = Free
    BY <1>9 DEF BreakerLeaves
  <2>2. /\ alarm' \in Nat \cup {NoAlarm}
        /\ delivery' \in Alarms \cup {NoSlot}
        /\ rearmRequested' \in BOOLEAN
    <3>1. CASE th[2] = "alarm"
      BY <1>1, <1>9, <3>1, RearmAndReturnType DEF BreakerLeaves, TypeInv
    <3>2. CASE th[2] # "alarm"
      <4>1. rows \in Tables
        BY DEF TypeInv, TypeOK
      <4> QED BY <1>9, <3>2, <4>1, RearmType DEF BreakerLeaves, TypeInv
    <3> QED BY <3>1, <3>2
  <2>3. resetPending' \in BOOLEAN
    BY <1>9, DriverAssumption DEF BreakerLeaves
  <2> QED BY <1>1, <1>9, <2>1, <2>2, <2>3, LeaveType DEF BreakerLeaves, TypeInv,
             TypeOK, operation, bounds
<1> QED BY <1>4, <1>5, <1>6, <1>7, <1>8, <1>9 DEF Breaker

(* The isolate goes away, or time passes.                                   *)
LEMMA TypeWorld ==
  ASSUME TypeInv, Crash \/ Reset \/ Tick \/ UNCHANGED vars
  PROVE  TypeInv'
<1>1. ASSUME Forget PROVE
        /\ scope' \in [Alarms -> Scopes] /\ work' \in [Alarms -> Works]
        /\ ClaimOK' /\ versions' \in [Jobs -> Nat] /\ active' \in [Jobs -> Int]
  <2>1. ScopeOK(Idle(NewScope(0))) /\ HandoffOK(NoWork)
    BY NewScopeType, IdleOK, NoWorkType DEF HandoffOK
  <2>2. \A q \in Alarms : ScopeOK(scope'[q]) /\ HandoffOK(work'[q])
    BY <1>1, <2>1 DEF Forget
  <2>3. scope' = [q \in Alarms |-> scope'[q]] /\ work' = [q \in Alarms |-> work'[q]]
    BY <1>1 DEF Forget
  <2>4. versions' \in [Jobs -> Nat] /\ active' \in [Jobs -> Int]
    BY <1>1 DEF Forget
  <2> QED BY <2>2, <2>3, <2>4, SlotsNext
<1>2. ASSUME Forget, alarm' \in Nat \cup {NoAlarm}, faults' \in Nat
      PROVE  TypeInv'
  BY <1>1, <1>2 DEF Forget, TypeInv, TypeOK, Free
<1>3. CASE Crash
  BY <1>2, <1>3 DEF Crash, TypeInv, TypeOK
<1>4. CASE Reset
  BY <1>2, <1>4 DEF Reset, TypeInv, TypeOK
<1>5. CASE Tick
  BY <1>5 DEF Tick, TypeInv, TypeOK, ClaimOK, IsTracked, durable, startup,
              fences, operation, bounds
<1>6. CASE UNCHANGED vars
  BY <1>6 DEF vars, TypeInv, TypeOK, ClaimOK, IsTracked, durable, startup,
              fences, operation, bounds
<1> QED BY <1>3, <1>4, <1>5, <1>6

(* Every step keeps the types.                                              *)
LEMMA TypeNext == TypeInv /\ [Next]_vars => TypeInv'
<1> SUFFICES ASSUME TypeInv, [Next]_vars PROVE TypeInv'
  OBVIOUS
<1>1. CASE Operations \/ \E j \in Jobs : OperationRearms(j)
  BY <1>1, TypeOperations
<1>2. CASE StartBegin \/ Starting \/ \E k \in StartupFailures : StartFails(k)
  BY <1>2, TypeStartup
<1>3. ASSUME NEW p \in Alarms,
             \/ AlarmFires(p) \/ Invocation(p) \/ Settles(p) \/ Track(p)
             \/ \E r \in {"fail", "oom"} : HostAlarm(p, r)
             \/ WorkEnds(p)
      PROVE  TypeInv'
  BY <1>3, TypeDelivery, TypeClaim, TypeSettles, TypeEnds, TypeWork
     DEF Invocation
<1>4. ASSUME NEW th \in Threads, Breaker(th) PROVE TypeInv'
  BY <1>4, TypeBreaker
<1>5. CASE Crash \/ Reset \/ Tick \/ UNCHANGED vars
  BY <1>5, TypeWorld
<1> QED BY <1>1, <1>2, <1>3, <1>4, <1>5 DEF Next, Work

(* Whatever the jobs, the overlapping alarms, the faults and their number:  *)
(* every variable of the alarm driver has its type, and a dispatch has      *)
(* claimed a row that it can compare with the table when it settles.        *)
THEOREM TypeCorrect == Spec => [](TypeOK /\ ClaimOK)
<1>1. Init => TypeInv
  BY TypeInit
<1>2. TypeInv /\ [Next]_vars => TypeInv'
  BY TypeNext
<1>3. TypeInv => TypeOK /\ ClaimOK
  BY DEF TypeInv
<1> QED BY <1>1, <1>2, <1>3, PTL DEF Spec
-----------------------------------------------------------------------------
(* The fence.  A statement frees a row when it deletes it or releases its   *)
(* claim; only a claim leaves a row running, and with a start later than    *)
(* that of every claim before it.                                           *)
Freed(t, j) == t[j] = NoRow \/ ~t[j].running
OnlyFrees(t, u) == \A j \in Jobs : u[j] = t[j] \/ Freed(u, j)

(* An outdated claim no longer recognises its row: the row is free, or a    *)
(* later claim holds it.                                                    *)
FenceOK ==
  \A p \in Alarms : scope[p].job # NoJob =>
    /\ scope[p].row.started <= lastClaim
    /\ scope[p].stale => \/ Freed(rows, scope[p].job)
                         \/ rows[scope[p].job].started > scope[p].row.started

(* While nothing changed its row since, a dispatch holds the row as it      *)
(* claimed it, and no two dispatches claimed at the same time.              *)
HoldsOK ==
  \A p \in Alarms : scope[p].pc = "dispatch" =>
    /\ ~scope[p].stale => rows[scope[p].job] = scope[p].row
    /\ scope[p].row.running
    /\ \A q \in Alarms \ {p} :
         scope[q].pc = "dispatch" =>
           scope[p].row.started # scope[q].row.started

FenceInv == TypeInv /\ FenceOK /\ HoldsOK

(* A slot forgets its claim, or keeps it and knows when its row changed.    *)
KeepsClaim(p) ==
  \/ scope'[p].job = NoJob /\ scope'[p].pc # "dispatch"
  \/ /\ scope'[p].job = scope[p].job /\ scope'[p].row = scope[p].row
     /\ scope'[p].pc = "dispatch" => scope[p].pc = "dispatch"
     /\ scope[p].stale => scope'[p].stale
     /\ scope'[p].stale => scope[p].stale \/ Freed(rows', scope[p].job)
     /\ scope'[p].pc = "dispatch" /\ ~scope'[p].stale =>
          rows'[scope[p].job] = rows[scope[p].job]

(* Every step but a claim keeps the fence.                                  *)
LEMMA FenceKept ==
  ASSUME FenceInv, TypeInv', OnlyFrees(rows, rows'), lastClaim' >= lastClaim,
         \A p \in Alarms : KeepsClaim(p)
  PROVE  FenceInv'
<1>1. \A p \in Alarms : /\ ScopeOK(scope[p]) /\ ScopeOK(scope'[p])
                        /\ scope[p] \in Scopes
  <2>1. \A p \in Alarms : ScopeOK(scope[p])
    BY Slots DEF FenceInv
  <2>2. \A p \in Alarms : ScopeOK(scope'[p])
    BY DEF TypeInv, TypeOK, ClaimOK, ScopeOK
  <2> QED BY <2>1, <2>2 DEF ScopeOK
<1>2. lastClaim \in Nat /\ lastClaim' \in Nat
  BY DEF TypeInv, TypeOK, FenceInv
<1>3. FenceOK'
  <2> SUFFICES ASSUME NEW p \in Alarms, scope'[p].job # NoJob
               PROVE  /\ scope'[p].row.started <= lastClaim'
                      /\ scope'[p].stale =>
                           \/ Freed(rows', scope'[p].job)
                           \/ rows'[scope'[p].job].started
                                > scope'[p].row.started
    BY DEF FenceOK
  <2>1. scope'[p].job = scope[p].job /\ scope'[p].row = scope[p].row
        /\ (scope'[p].stale => scope[p].stale \/ Freed(rows', scope[p].job))
    BY DEF KeepsClaim
  <2>2. scope[p].job \in Jobs /\ scope[p].row \in Row
    BY <1>1, <2>1 DEF ScopeOK, Scopes
  <2>3. /\ scope[p].row.started <= lastClaim
        /\ scope[p].stale => \/ Freed(rows, scope[p].job)
                             \/ rows[scope[p].job].started > scope[p].row.started
    BY <2>1 DEF FenceInv, FenceOK
  <2>4. scope'[p].row.started <= lastClaim'
    BY <1>2, <2>1, <2>2, <2>3 DEF Row
  <2>5. ASSUME scope[p].stale
        PROVE  \/ Freed(rows', scope[p].job)
               \/ rows'[scope[p].job].started > scope[p].row.started
    BY <2>2, <2>3, <2>5 DEF OnlyFrees, Freed
  <2> QED BY <2>1, <2>4, <2>5
<1>4. HoldsOK'
  <2> SUFFICES ASSUME NEW p \in Alarms, scope'[p].pc = "dispatch"
               PROVE  /\ ~scope'[p].stale => rows'[scope'[p].job] = scope'[p].row
                      /\ scope'[p].row.running
                      /\ \A q \in Alarms \ {p} :
                           scope'[q].pc = "dispatch" =>
                             scope'[p].row.started # scope'[q].row.started
    BY DEF HoldsOK
  <2>1. \A q \in Alarms : scope'[q].pc = "dispatch" =>
          scope[q].pc = "dispatch" /\ scope'[q].row = scope[q].row
    BY DEF KeepsClaim
  <2>2. scope[p].pc = "dispatch" /\ scope'[p].row = scope[p].row
        /\ scope'[p].job = scope[p].job
        /\ (scope[p].stale => scope'[p].stale)
        /\ (~scope'[p].stale => rows'[scope[p].job] = rows[scope[p].job])
    BY DEF KeepsClaim
  <2>3. ~scope'[p].stale => rows'[scope'[p].job] = scope'[p].row
    BY <2>2 DEF FenceInv, HoldsOK
  <2> QED BY <2>1, <2>2, <2>3 DEF FenceInv, HoldsOK
<1> QED BY <1>3, <1>4 DEF FenceInv

(* The statements other than a claim only free rows.                        *)
LEMMA StatementsFree ==
  ASSUME NEW t \in Tables, NEW j \in Jobs, NEW time \in Nat
  PROVE  /\ OnlyFrees(t, Delete(t, j)) /\ Freed(Delete(t, j), j)
         /\ Present(t, j) => /\ OnlyFrees(t, Reschedule(t, j, time))
                             /\ Freed(Reschedule(t, j, time), j)
         /\ \A o \in Owners, opt \in Options :
              /\ OnlyFrees(t, Push(t, o, j, opt, time))
              /\ Freed(Push(t, o, j, opt, time), j)
         /\ \A r \in Row : OnlyFrees(t, ClearIntent(t, j, r))
         /\ \A r \in Row, b \in BOOLEAN :
              /\ OnlyFrees(t, DeleteIntent(t, j, r, b))
              /\ OnlyFrees(t, RetimeIntent(t, j, r, time, b))
         /\ OnlyFrees(t, DelayRecoveryLoopJobs(t, time))
         /\ OnlyFrees(t, PurgeRecoveryLoopJobs(t))
<1> USE DEF Tables, OnlyFrees, Freed
<1>1. \A k \in Jobs : t[k] # NoRow =>
        t[k] \in Row /\ ~Release(t[k]).running /\ ~Retimed(t[k], time).running
  BY RowType
<1>2. OnlyFrees(t, Delete(t, j)) /\ Freed(Delete(t, j), j)
  BY DEF Delete
<1>3. Present(t, j) => /\ OnlyFrees(t, Reschedule(t, j, time))
                       /\ Freed(Reschedule(t, j, time), j)
  BY <1>1 DEF Reschedule, Present
<1>4. \A o \in Owners, opt \in Options :
        /\ OnlyFrees(t, Push(t, o, j, opt, time))
        /\ Freed(Push(t, o, j, opt, time), j)
  BY NewRowType DEF Push
<1>5. \A r \in Row : OnlyFrees(t, ClearIntent(t, j, r))
  BY <1>1 DEF ClearIntent, IntentGuard, Present
<1>6. \A r \in Row, b \in BOOLEAN :
        /\ OnlyFrees(t, DeleteIntent(t, j, r, b))
        /\ OnlyFrees(t, RetimeIntent(t, j, r, time, b))
  BY <1>1 DEF DeleteIntent, RetimeIntent, Delete, IntentGuard, Present
<1>7. OnlyFrees(t, DelayRecoveryLoopJobs(t, time))
  BY <1>1 DEF DelayRecoveryLoopJobs, Present
<1>8. OnlyFrees(t, PurgeRecoveryLoopJobs(t))
  BY DEF PurgeRecoveryLoopJobs
<1> QED BY <1>2, <1>3, <1>4, <1>5, <1>6, <1>7, <1>8

(* A claim keeps the fence: it starts later than all claims before it, and  *)
(* outdates those of the same job.                                          *)
LEMMA FenceClaim ==
  ASSUME FenceInv, TypeInv', NEW p \in Alarms, Claim(p)
  PROVE  FenceInv'
<1> DEFINE t(j) == MarkRunning(rows, j, ClaimTime(p))
           sc(i, j) == [scope[p] EXCEPT !.pc = "dispatch", !.due = Rest(p, i),
               !.job = j, !.row = t(j)[j],
               !.version = mutationSequence + 1, !.stale = FALSE]
<1>1. PICK i \in 1..Len(scope[p].due) :
        LET j == scope[p].due[i] IN
          /\ ClaimAt(p, i)
          /\ rows' = t(j) /\ lastClaim' = ClaimTime(p)
          /\ scope' = [q \in Alarms |-> IF q = p THEN sc(i, j)
                                        ELSE Outdated(scope[q], {j})]
  BY DEF Claim
<1> DEFINE j == scope[p].due[i]
<1>2. /\ lastClaim' > lastClaim /\ lastClaim \in Nat /\ lastClaim' \in Nat
      /\ rows \in Tables
  BY <1>1, ClaimTimeType DEF FenceInv, TypeInv, TypeOK
<1>3. \A q \in Alarms : ScopeOK(scope[q]) /\ scope[q] \in Scopes
  BY Slots DEF FenceInv, ScopeOK
<1>4. j \in Jobs /\ j # NoJob /\ Present(rows, j)
  <2>1. scope[p].due \in Seq(Jobs)
    BY <1>3 DEF Scopes
  <2>2. Present(rows, j)
    BY <1>1 DEF ClaimAt, Eligible, IsDue
  <2> QED BY <2>1, <2>2, RestType, NoJobAssumption
<1>5. /\ rows'[j].running /\ rows'[j].started = lastClaim'
      /\ \A k \in Jobs \ {j} : rows'[k] = rows[k]
  <2>1. rows[j] \in Row
    BY <1>2, <1>4 DEF Tables, Present
  <2>2. rows' = MarkRunning(rows, j, lastClaim')
    BY <1>1
  <2> HIDE DEF j
  <2>3. rows' = [rows EXCEPT ![j] =
                   [rows[j] EXCEPT !.running = TRUE, !.started = lastClaim']]
    BY <2>2 DEF MarkRunning
  <2>4. /\ rows'[j] = [rows[j] EXCEPT !.running = TRUE, !.started = lastClaim']
        /\ \A k \in Jobs \ {j} : rows'[k] = rows[k]
    BY <1>2, <1>4, <2>3 DEF Tables
  <2> QED BY <2>1, <2>4 DEF Row
<1>6. /\ scope'[p].pc = "dispatch" /\ scope'[p].job = j
      /\ scope'[p].row = rows'[j] /\ scope'[p].stale = FALSE
  <2>1. scope'[p] = sc(i, j)
    BY <1>1
  <2>2. sc(i, j).pc = "dispatch" /\ sc(i, j).job = j /\ sc(i, j).row = t(j)[j]
        /\ sc(i, j).stale = FALSE
    <3> HIDE DEF j, t
    <3> QED BY <1>3 DEF Scopes
  <2> HIDE DEF sc
  <2> QED BY <1>1, <2>1, <2>2
<1>7. \A q \in Alarms \ {p} :
        /\ scope'[q].pc = scope[q].pc /\ scope'[q].job = scope[q].job
        /\ scope'[q].row = scope[q].row
        /\ scope'[q].stale <=> scope[q].stale \/ scope[q].job = j
  <2>1. \A q \in Alarms \ {p} : scope'[q] = Outdated(scope[q], {j})
    <3> HIDE DEF sc
    <3> QED BY <1>1
  <2>2. \A q \in Alarms : Outdated(scope[q], {j}).stale <=>
                            scope[q].stale \/ scope[q].job = j
    BY <1>3 DEF Outdated, Scopes
  <2>3. \A q \in Alarms : /\ Outdated(scope[q], {j}).pc = scope[q].pc
                          /\ Outdated(scope[q], {j}).job = scope[q].job
                          /\ Outdated(scope[q], {j}).row = scope[q].row
    BY <1>3, ScopeType
  <2> HIDE DEF j
  <2> QED BY <2>1, <2>2, <2>3
<1> HIDE DEF j, t, sc
<1>8. \A q \in Alarms : scope[q].job # NoJob =>
        scope[q].row.started <= lastClaim /\ scope[q].row.started \in Nat
  BY <1>3 DEF ScopeOK, Row, FenceInv, FenceOK
<1>9. FenceOK'
  <2> SUFFICES ASSUME NEW q \in Alarms, scope'[q].job # NoJob
               PROVE  /\ scope'[q].row.started <= lastClaim'
                      /\ scope'[q].stale =>
                           \/ Freed(rows', scope'[q].job)
                           \/ rows'[scope'[q].job].started
                                > scope'[q].row.started
    BY DEF FenceOK
  <2>1. CASE q = p
    BY <1>2, <1>5, <1>6, <2>1
  <2>2. CASE q # p /\ scope[q].job = j
    BY <1>2, <1>5, <1>7, <1>8, <2>2
  <2>3. CASE q # p /\ scope[q].job # j
    <3>1. scope[q].job \in Jobs
      BY <1>3, <1>7, <2>3 DEF Scopes
    <3>2. rows'[scope[q].job] = rows[scope[q].job]
      BY <1>5, <2>3, <3>1
    <3> QED BY <1>2, <1>7, <1>8, <2>3, <3>2 DEF FenceInv, FenceOK, Freed
  <2> QED BY <2>1, <2>2, <2>3
<1>10. HoldsOK'
  <2>1. \A q \in Alarms : scope[q].pc = "dispatch" => scope[q].job \in Jobs
    BY <1>3 DEF ScopeOK, Scopes
  <2> SUFFICES ASSUME NEW q \in Alarms, scope'[q].pc = "dispatch"
               PROVE  /\ ~scope'[q].stale => rows'[scope'[q].job] = scope'[q].row
                      /\ scope'[q].row.running
                      /\ \A r \in Alarms \ {q} :
                           scope'[r].pc = "dispatch" =>
                             scope'[q].row.started # scope'[r].row.started
    BY DEF HoldsOK
  <2>2. CASE q = p
    <3>1. \A r \in Alarms \ {p} : scope'[r].pc = "dispatch" =>
            scope'[r].row.started <= lastClaim /\ scope'[r].row.started \in Nat
      BY <1>7, <1>8, <2>1, NoJobAssumption
    <3> QED BY <1>2, <1>5, <1>6, <2>2, <3>1
  <2>3. CASE q # p
    <3>1. scope[q].pc = "dispatch" /\ scope'[q].row = scope[q].row
          /\ scope'[q].job = scope[q].job
      BY <1>7, <2>3
    <3>2. scope[q].row.started <= lastClaim /\ scope[q].row.started \in Nat
      BY <1>8, <2>1, <3>1, NoJobAssumption
    <3>3. \A r \in Alarms \ {q} : scope'[r].pc = "dispatch" =>
            scope'[q].row.started # scope'[r].row.started
      <4> SUFFICES ASSUME NEW r \in Alarms \ {q}, scope'[r].pc = "dispatch"
                   PROVE  scope'[q].row.started # scope'[r].row.started
        OBVIOUS
      <4>1. CASE r = p
        BY <1>2, <1>5, <1>6, <3>1, <3>2, <4>1
      <4>2. CASE r # p
        BY <1>7, <3>1, <4>2 DEF FenceInv, HoldsOK
      <4> QED BY <4>1, <4>2
    <3>4. scope'[q].row.running
      BY <3>1 DEF FenceInv, HoldsOK
    <3>5. ~scope'[q].stale => rows'[scope'[q].job] = scope'[q].row
      BY <1>5, <1>7, <2>1, <2>3, <3>1 DEF FenceInv, HoldsOK
    <3> QED BY <3>3, <3>4, <3>5
  <2> QED BY <2>2, <2>3
<1> QED BY <1>9, <1>10 DEF FenceInv

(* An outcome touches one row, frees it, and only if the row still is the   *)
(* one that was claimed.                                                    *)
LEMMA GuardedOutcome ==
  ASSUME NEW t \in Tables, NEW j \in Jobs, NEW r \in Row,
         NEW outcome \in Outcomes(RescheduleTo),
         NEW u,
         \/ u = t
         \/ u = ApplyOutcome(t, j, r, outcome)
         \/ u = ClearIntent(t, j, r)
  PROVE  /\ OnlyFrees(t, u)
         /\ \A k \in Jobs \ {j} : u[k] = t[k]
         /\ ~IntentGuard(t, j, r, TRUE) => u = t
<1>0. 0 \in Nat /\ TRUE \in BOOLEAN
  OBVIOUS
<1>1. CASE u = t
  BY <1>1 DEF OnlyFrees
<1>2. CASE u = ClearIntent(t, j, r)
  <2>1. OnlyFrees(t, u)
    BY <1>0, <1>2, StatementsFree
  <2> QED BY <1>2, <2>1 DEF ClearIntent, Tables
<1>3. CASE u = DeleteIntent(t, j, r, TRUE)
  <2>1. OnlyFrees(t, u)
    BY <1>0, <1>3, StatementsFree
  <2> QED BY <1>3, <2>1 DEF DeleteIntent, Delete, Tables
<1>4. ASSUME outcome.at \in Nat, u = RetimeIntent(t, j, r, outcome.at, TRUE)
      PROVE  /\ OnlyFrees(t, u)
             /\ \A k \in Jobs \ {j} : u[k] = t[k]
             /\ ~IntentGuard(t, j, r, TRUE) => u = t
  <2>1. OnlyFrees(t, u)
    BY <1>0, <1>4, StatementsFree
  <2> QED BY <1>4, <2>1 DEF RetimeIntent, Tables
<1>5. CASE u = ApplyOutcome(t, j, r, outcome)
  <2>1. CASE outcome \in [kind : {"done", "yield"}]
    BY <1>2, <1>3, <1>5, <2>1 DEF ApplyOutcome
  <2>2. CASE outcome \in [kind : {"reschedule"}, at : RescheduleTo]
    BY <1>4, <1>5, <2>2, DriverAssumption DEF ApplyOutcome
  <2> QED BY <2>1, <2>2 DEF Outcomes
<1> QED BY <1>1, <1>2, <1>5

(* The handler of a dispatch settles.                                       *)
LEMMA FenceSettles ==
  ASSUME FenceInv, NEW p \in Alarms,
         \/ \E outcome \in Outcomes(RescheduleTo) : JobReturns(p, outcome)
         \/ JobAborts(p)
  PROVE  /\ OnlyFrees(rows, rows') /\ lastClaim' = lastClaim
         /\ \A q \in Alarms : KeepsClaim(q)
         /\ scope[p].stale => rows' = rows
         /\ \A q \in Alarms \ {p} : scope'[q] = scope[q]
<1> DEFINE j == scope[p].job
           r == scope[p].row
<1>1. \A q \in Alarms : ScopeOK(scope[q]) /\ scope[q] \in Scopes
  BY Slots DEF FenceInv, ScopeOK
<1>2. /\ scope[p].pc = "dispatch" /\ j \in Jobs /\ r \in Row
      /\ rows \in Tables
  BY <1>1 DEF ScopeOK, Scopes, JobReturns, JobAborts, FenceInv, TypeInv, TypeOK
<1>3. /\ \/ scope'[p].job = NoJob
         \/ scope'[p].job = j /\ scope'[p].row = r
            /\ scope'[p].stale = scope[p].stale
      /\ scope'[p].pc # "dispatch"
      /\ \A q \in Alarms \ {p} : scope'[q] = scope[q]
  <2>0. scope \in [Alarms -> Scopes]
    BY DEF FenceInv, TypeInv, TypeOK
  <2>1. ASSUME NEW outcome, JobReturns(p, outcome)
        PROVE  /\ scope'[p].job = NoJob /\ scope'[p].pc # "dispatch"
               /\ \A q \in Alarms \ {p} : scope'[q] = scope[q]
    <3>1. scope' = [scope EXCEPT ![p] =
             [scope[p] EXCEPT !.pc = "loop", !.job = NoJob, !.row = NoRow,
                              !.version = 0, !.stale = FALSE]]
      BY <2>1 DEF JobReturns
    <3> QED BY <1>1, <2>0, <3>1 DEF Scopes
  <2>2. CASE JobAborts(p)
    <3>1. scope' = [scope EXCEPT ![p] = [scope[p] EXCEPT !.pc = "fail"]]
      BY <2>2 DEF JobAborts
    <3> QED BY <1>1, <2>0, <3>1 DEF Scopes
  <2> QED BY <2>1, <2>2
<1>4. PICK outcome \in Outcomes(RescheduleTo) :
        \/ rows' = rows
        \/ rows' = ApplyOutcome(rows, j, r, outcome)
        \/ rows' = ClearIntent(rows, j, r)
  <2>1. [kind |-> "done"] \in Outcomes(RescheduleTo)
    BY DEF Outcomes
  <2> QED BY <2>1 DEF JobReturns, JobAborts
<1>5. /\ OnlyFrees(rows, rows')
      /\ \A k \in Jobs \ {j} : rows'[k] = rows[k]
      /\ ~IntentGuard(rows, j, r, TRUE) => rows' = rows
  <2> HIDE DEF j, r
  <2> QED BY <1>2, <1>4, GuardedOutcome
<1>6. IntentGuard(rows, j, r, TRUE) =>
        rows[j] # NoRow /\ rows[j].running /\ rows[j].started = r.started
  BY DEF IntentGuard, Present
<1>7. scope[p].stale => rows' = rows
  <2>1. scope[p].stale => Freed(rows, j) \/ rows[j].started > r.started
    BY <1>2, NoJobAssumption DEF FenceInv, FenceOK
  <2>2. rows[j] # NoRow => rows[j].started \in Nat /\ r.started \in Nat
    BY <1>2 DEF Tables, Row
  <2>3. ~(scope[p].stale /\ IntentGuard(rows, j, r, TRUE))
    <3> SUFFICES ASSUME scope[p].stale, IntentGuard(rows, j, r, TRUE)
                 PROVE  FALSE
      OBVIOUS
    <3>1. rows[j] # NoRow /\ rows[j].started = r.started
      BY <1>6
    <3>2. ~Freed(rows, j)
      BY <1>6, Zenon DEF Freed
    <3>3. rows[j].started > r.started
      BY <2>1, <3>2
    <3> HIDE DEF j, r
    <3> QED BY <2>2, <3>1, <3>3
  <2> QED BY <1>5, <2>3
<1>8. ASSUME NEW q \in Alarms \ {p} PROVE KeepsClaim(q)
  <2>1. ASSUME scope[q].pc = "dispatch", ~scope[q].stale
        PROVE  rows'[scope[q].job] = rows[scope[q].job]
    <3>1. rows[scope[q].job] = scope[q].row
          /\ scope[q].row.started # r.started
      BY <1>2, <2>1 DEF FenceInv, HoldsOK
    <3>2. CASE scope[q].job = j
      BY <1>5, <1>6, <3>1, <3>2
    <3>3. CASE scope[q].job # j
      BY <1>1, <1>5, <2>1, <3>3 DEF ScopeOK, Scopes
    <3> QED BY <3>2, <3>3
  <2>2. scope'[q] = scope[q]
    BY <1>3
  <2> QED BY <2>1, <2>2 DEF KeepsClaim
<1>9. KeepsClaim(p)
  BY <1>3 DEF KeepsClaim
<1>10. lastClaim' = lastClaim
  BY DEF JobReturns, JobAborts
<1> QED BY <1>3, <1>5, <1>7, <1>8, <1>9, <1>10

(* The state predicates of a step that leaves the table alone, and what a   *)
(* step does to slots whose handler does not settle in it.                  *)
Keeps ==
  /\ OnlyFrees(rows, rows') /\ lastClaim' >= lastClaim
  /\ \A p \in Alarms : KeepsClaim(p)
StaleUntouched ==
  \A p \in Alarms :
    scope[p].pc = "dispatch" /\ scope'[p].pc # "dispatch" /\ scope[p].stale
      => rows'[scope[p].job] = rows[scope[p].job]

(* A slot keeps its claim when a step touches neither it nor the table.     *)
LEMMA UntouchedKeeps ==
  ASSUME FenceInv, NEW p \in Alarms, UNCHANGED <<rows, lastClaim>>,
         \A q \in Alarms \ {p} : scope'[q] = scope[q],
         KeepsClaim(p)
  PROVE  Keeps
<1>1. \A q \in Alarms \ {p} : KeepsClaim(q)
  BY DEF KeepsClaim
<1>2. lastClaim \in Nat
  BY DEF FenceInv, TypeInv, TypeOK
<1> QED BY <1>1, <1>2 DEF Keeps, OnlyFrees

(* The steps of one invocation that leave the table alone.                  *)
LEMMA InvocationKeeps ==
  ASSUME FenceInv, NEW p \in Alarms,
         \/ AlarmFires(p) \/ Snapshot(p) \/ ArmDeadman(p) \/ LoopEnds(p)
         \/ JobOoms(p) \/ AlarmRaises(p) \/ AlarmClears(p)
         \/ AlarmReturns(p) \/ WorkEnds(p)
         \/ \E r \in {"clear", "fail", "oom"} : HostAlarm(p, r)
  PROVE  Keeps
<1>0. scope \in [Alarms -> Scopes] /\ scope[p] \in Scopes
  BY DEF FenceInv, TypeInv, TypeOK
<1>1. UNCHANGED <<rows, lastClaim>>
  BY DEF AlarmFires, Snapshot, ArmDeadman, LoopEnds, JobOoms, AlarmRaises,
         AlarmClears, AlarmReturns, WorkEnds, WorkSettles, HostAlarm, durable,
         fences
<1> DEFINE Forgets == scope'[p].job = NoJob /\ scope'[p].pc # "dispatch"
           Same == /\ scope'[p].job = scope[p].job
                   /\ scope'[p].row = scope[p].row
                   /\ scope'[p].stale = scope[p].stale
                   /\ scope'[p].pc = "dispatch" => scope[p].pc = "dispatch"
           Elsewhere == \A q \in Alarms \ {p} : scope'[q] = scope[q]
<1>2. Elsewhere /\ (Forgets \/ Same)
  <2>1. CASE AlarmFires(p)
    <3>1. memoryGeneration \in Nat
      BY DEF FenceInv, TypeInv, TypeOK
    <3> QED BY <1>0, <2>1, <3>1, NewScopeType DEF AlarmFires
  <2>2. CASE Snapshot(p)
    <3>1. PICK q \in DueLists(rows, clock, HasExclusive(rows)) :
            scope' = [scope EXCEPT ![p] =
              [scope[p] EXCEPT !.inv = clock, !.due = q,
                 !.pc = IF q = <<>> THEN "host" ELSE "deadman"]]
      BY <2>2 DEF Snapshot
    <3> QED BY <1>0, <3>1 DEF Scopes
  <2>3. CASE ArmDeadman(p)
    <3>1. scope' = [scope EXCEPT ![p] = [scope[p] EXCEPT !.pc = "loop"]]
      BY <2>3 DEF ArmDeadman
    <3> QED BY <1>0, <3>1 DEF Scopes
  <2>4. CASE LoopEnds(p)
    <3>1. scope' = [scope EXCEPT ![p] =
                      [scope[p] EXCEPT !.pc = "host", !.due = <<>>]]
      BY <2>4 DEF LoopEnds
    <3> QED BY <1>0, <3>1 DEF Scopes
  <2>5. CASE JobOoms(p)
    <3>1. scope' = [scope EXCEPT ![p] = [scope[p] EXCEPT !.pc = "oom"]]
      BY <2>5 DEF JobOoms
    <3> QED BY <1>0, <3>1 DEF Scopes
  <2>6. CASE AlarmRaises(p) \/ AlarmReturns(p)
    <3>1. scope' = [scope EXCEPT ![p] = Idle(scope[p])]
      BY <2>6 DEF AlarmRaises, AlarmReturns
    <3>2. scope'[p] = Idle(scope[p])
      BY <1>0, <3>1
    <3> QED BY <1>0, <3>1, <3>2, ScopeType
  <2>7. CASE AlarmClears(p)
    <3>1. scope' = [scope EXCEPT ![p] = [scope[p] EXCEPT !.pc = "rearm"]]
      BY <2>7 DEF AlarmClears
    <3> QED BY <1>0, <3>1 DEF Scopes
  <2>8. ASSUME NEW r \in {"clear", "fail", "oom"}, WorkSettles(p, r)
        PROVE  Elsewhere /\ Same
    <3>1. scope' = [scope EXCEPT ![p] =
                      [scope[p] EXCEPT !.failed = @ \/ r # "clear"]]
      BY <2>8 DEF WorkSettles
    <3> QED BY <1>0, <3>1 DEF Scopes
  <2>9. ASSUME NEW r \in {"clear", "fail", "oom"}, HostAlarm(p, r)
        PROVE  Elsewhere /\ Same
    <3>1. scope' = [scope EXCEPT ![p] =
              [scope[p] EXCEPT
                 !.pc = IF r = "clear" /\ scope[p].failed THEN "rearm" ELSE r,
                 !.finished = (r = "clear")]]
      BY <2>9 DEF HostAlarm
    <3> QED BY <1>0, <3>1 DEF Scopes
  <2> QED BY <2>1, <2>2, <2>3, <2>4, <2>5, <2>6, <2>7, <2>8, <2>9 DEF WorkEnds
<1>3. KeepsClaim(p)
  BY <1>1, <1>2 DEF KeepsClaim
<1> QED BY <1>1, <1>2, <1>3, UntouchedKeeps

(* A step that touches no scope and no row keeps the fence.                 *)
LEMMA StillKeeps ==
  ASSUME FenceInv, UNCHANGED <<rows, scope, lastClaim>>
  PROVE  Keeps
<1>1. lastClaim \in Nat
  BY DEF FenceInv, TypeInv, TypeOK
<1> QED BY <1>1 DEF Keeps, OnlyFrees, KeepsClaim

(* A failed startup turns the waiting invocations away.                     *)
LEMMA StartFailsKeeps ==
  ASSUME FenceInv, NEW k \in StartupFailures, StartFails(k)
  PROVE  Keeps
<1>1. lastClaim \in Nat /\ k # "dispatch" /\ \A p \in Alarms : scope[p] \in Scopes
  BY DriverAssumption DEF FenceInv, TypeInv, TypeOK
<1>2. \A p \in Alarms :
        scope'[p] = IF scope[p].pc = "start" THEN [scope[p] EXCEPT !.pc = k]
                                             ELSE scope[p]
  BY DEF StartFails
<1>3. \A p \in Alarms :
        /\ scope'[p].job = scope[p].job /\ scope'[p].row = scope[p].row
        /\ scope'[p].stale = scope[p].stale
        /\ scope'[p].pc = "dispatch" => scope[p].pc = "dispatch"
  BY <1>1, <1>2 DEF Scopes
<1>4. UNCHANGED <<rows, lastClaim>>
  BY DEF StartFails, fences
<1> QED BY <1>1, <1>3, <1>4 DEF Keeps, OnlyFrees, KeepsClaim

(* A statement on one row outdates the claims on it.                        *)
LEMMA MarkedKeeps ==
  ASSUME FenceInv, NEW X \in SUBSET Jobs, MarkScopes(X),
         OnlyFrees(rows, rows'), \A k \in X : Freed(rows', k),
         \A k \in Jobs \ X : rows'[k] = rows[k], lastClaim' >= lastClaim
  PROVE  Keeps
<1>1. \A p \in Alarms : ScopeOK(scope[p]) /\ scope[p] \in Scopes
  BY Slots DEF FenceInv, ScopeOK
<1> SUFFICES ASSUME NEW p \in Alarms PROVE KeepsClaim(p)
  BY DEF Keeps
<1>2. /\ scope'[p].pc = scope[p].pc /\ scope'[p].job = scope[p].job
      /\ scope'[p].row = scope[p].row
  BY MarkScopesType DEF FenceInv, TypeInv
<1>3. scope'[p].stale <=> scope[p].stale \/ scope[p].job \in X
  <2>1. scope'[p] = Outdated(scope[p], X)
    BY DEF MarkScopes
  <2> QED BY <1>1, <2>1 DEF Outdated, Scopes
<1>4. scope[p].pc = "dispatch" => scope[p].job \in Jobs
  BY <1>1 DEF ScopeOK, Scopes
<1> QED BY <1>2, <1>3, <1>4 DEF KeepsClaim

(* An operation of the queue frees its row, or leaves the table alone.      *)
LEMMA OperationKeeps ==
  ASSUME FenceInv, NEW j \in Jobs, NEW t, NEW taken \in BOOLEAN,
         Operation(j, t, taken),
         taken => /\ OnlyFrees(rows, t) /\ Freed(t, j)
                  /\ \A k \in Jobs \ {j} : t[k] = rows[k],
         ~taken => t = rows
  PROVE  Keeps
<1>1. lastClaim \in Nat /\ UNCHANGED lastClaim /\ rows' = t
  BY DEF FenceInv, TypeInv, TypeOK, Operation
<1>2. CASE taken
  <2>1. MarkScopes({j})
    BY <1>2 DEF Operation
  <2> QED BY <1>1, <1>2, <2>1, MarkedKeeps
<1>3. CASE ~taken
  BY <1>1, <1>3, StillKeeps DEF Operation
<1> QED BY <1>2, <1>3

(* So does every operation.                                                 *)
LEMMA OperationsKeep == FenceInv /\ Operations => Keeps
<1> SUFFICES ASSUME FenceInv, Operations PROVE Keeps
  OBVIOUS
<1>0. rows \in Tables /\ 0 \in Nat
  BY DEF FenceInv, TypeInv, TypeOK
<1>1. ASSUME NEW j \in Jobs, NEW o \in Owners, NEW opt \in PushOptions,
             NEW time \in RescheduleTo, PushJob(o, j, opt, time)
      PROVE  Keeps
  <2>1. /\ OnlyFrees(rows, Push(rows, o, j, opt, time))
        /\ Freed(Push(rows, o, j, opt, time), j)
    BY <1>0, StatementsFree, DriverAssumption
  <2>2. \A k \in Jobs \ {j} : Push(rows, o, j, opt, time)[k] = rows[k]
    BY <1>0 DEF Push, Tables
  <2> QED BY <1>1, <2>1, <2>2, OperationKeeps DEF PushJob
<1>2. ASSUME NEW j \in Jobs, NEW o \in Owners, CancelJob(o, j) PROVE Keeps
  <2>1. OnlyFrees(rows, Delete(rows, j)) /\ Freed(Delete(rows, j), j)
    BY <1>0, StatementsFree
  <2>2. \A k \in Jobs \ {j} : Delete(rows, j)[k] = rows[k]
    BY <1>0 DEF Delete, Tables
  <2>3. CASE Owned(rows, o, j)
    <3>1. Operation(j, Delete(rows, j), TRUE)
      BY <1>2, <2>3 DEF CancelJob
    <3> QED BY <2>1, <2>2, <3>1, OperationKeeps
  <2>4. CASE ~Owned(rows, o, j)
    <3>1. Owned(rows, o, j) = FALSE
      BY <2>4 DEF Owned, Present
    <3>2. Operation(j, rows, FALSE)
      BY <1>2, <3>1 DEF CancelJob
    <3> QED BY <3>2, OperationKeeps
  <2> QED BY <2>3, <2>4
<1>3. ASSUME NEW j \in Jobs, NEW o \in Owners, NEW time \in RescheduleTo,
             RescheduleJob(o, j, time)
      PROVE  Keeps
  <2>1. /\ OnlyFrees(rows, Reschedule(rows, j, time))
        /\ Freed(Reschedule(rows, j, time), j)
    BY <1>0, <1>3, StatementsFree, DriverAssumption DEF RescheduleJob, Owned
  <2>2. \A k \in Jobs \ {j} : Reschedule(rows, j, time)[k] = rows[k]
    BY <1>0 DEF Reschedule, Tables
  <2> QED BY <1>3, <2>1, <2>2, OperationKeeps DEF RescheduleJob
<1> QED BY <1>1, <1>2, <1>3 DEF Operations

(* A row nobody handles is deleted, and the claims on it are outdated.      *)
LEMMA DropKeeps ==
  ASSUME FenceInv, NEW p \in Alarms, DropUnhandled(p)
  PROVE  Keeps /\ \A q \in Alarms : scope'[q].pc = scope[q].pc
<1>1. PICK i \in 1..Len(scope[p].due) :
        /\ rows' = Delete(rows, scope[p].due[i])
        /\ lastClaim' = ClaimTime(p)
        /\ scope' = [[q \in Alarms |-> Outdated(scope[q], {scope[p].due[i]})]
                       EXCEPT ![p].due = Rest(p, i)]
  BY DEF DropUnhandled
<1> DEFINE j == scope[p].due[i]
<1>2. \A q \in Alarms : ScopeOK(scope[q]) /\ scope[q] \in Scopes
  BY Slots DEF FenceInv, ScopeOK
<1>3. rows \in Tables /\ 0 \in Nat /\ lastClaim \in Nat
      /\ lastClaim' \in Nat /\ lastClaim' > lastClaim
  BY <1>1, ClaimTimeType DEF FenceInv, TypeInv, TypeOK
<1>4. j \in Jobs
  BY <1>2, RestType DEF Scopes
<1>5. /\ OnlyFrees(rows, rows') /\ Freed(rows', j)
      /\ \A k \in Jobs \ {j} : rows'[k] = rows[k]
  <2>1. OnlyFrees(rows, Delete(rows, j)) /\ Freed(Delete(rows, j), j)
    BY <1>3, <1>4, StatementsFree
  <2> QED BY <1>1, <1>3, <2>1 DEF Delete, Tables
<1>6. \A q \in Alarms :
        /\ scope'[q].pc = scope[q].pc /\ scope'[q].job = scope[q].job
        /\ scope'[q].row = scope[q].row
        /\ scope'[q].stale <=> scope[q].stale \/ scope[q].job = j
  <2> SUFFICES ASSUME NEW q \in Alarms
      PROVE  /\ scope'[q].pc = scope[q].pc /\ scope'[q].job = scope[q].job
             /\ scope'[q].row = scope[q].row
             /\ scope'[q].stale <=> scope[q].stale \/ scope[q].job = j
    OBVIOUS
  <2>1. \/ scope'[q] = Outdated(scope[q], {j})
        \/ scope'[q] = [Outdated(scope[q], {j}) EXCEPT !.due = Rest(p, i)]
    BY <1>1
  <2>2. Outdated(scope[q], {j}) \in Scopes
        /\ Outdated(scope[q], {j}).pc = scope[q].pc
        /\ Outdated(scope[q], {j}).job = scope[q].job
        /\ Outdated(scope[q], {j}).row = scope[q].row
    BY <1>2, ScopeType
  <2>3. Outdated(scope[q], {j}).stale <=> scope[q].stale \/ scope[q].job = j
    BY <1>2 DEF Outdated, Scopes
  <2> QED BY <2>1, <2>2, <2>3 DEF Scopes
<1>7. \A q \in Alarms : KeepsClaim(q)
  <2> SUFFICES ASSUME NEW q \in Alarms PROVE KeepsClaim(q)
    OBVIOUS
  <2>1. scope[q].pc = "dispatch" => scope[q].job \in Jobs
    BY <1>2 DEF ScopeOK, Scopes
  <2> HIDE DEF j
  <2> QED BY <1>5, <1>6, <2>1 DEF KeepsClaim
<1>8. lastClaim' >= lastClaim
  BY <1>3
<1> QED BY <1>5, <1>6, <1>7, <1>8 DEF Keeps

(* The policy only frees rows.                                              *)
LEMMA PolicyFrees ==
  ASSUME FenceInv, NEW th \in Threads
  PROVE  OnlyFrees(rows, PolicyRows(th))
<1> DEFINE r    == PolicyRow(th)
           next == clock + breaker.delay
           must == th[2] = "alarm"
           own  == IF r.job = NoJob \/ ~VersionMatches(r.job, r.version) THEN rows
                   ELSE IF breaker.sealed
                        THEN DeleteIntent(rows, r.job, r.row, must)
                        ELSE RetimeIntent(rows, r.job, r.row, next, must)
<1>1. rows \in Tables /\ next \in Nat /\ th[1] \in Alarms /\ must \in BOOLEAN
  BY DEF FenceInv, TypeInv, TypeOK, Threads
<1>2. r.job \in Jobs \cup {NoJob} /\ (r.job # NoJob => r.row \in Row)
  BY <1>1, Slots DEF FenceInv, PolicyRow, ScopeOK, HandoffOK, Scopes, Works
<1>3. own \in Tables /\ OnlyFrees(rows, own)
  <2> HIDE DEF r, next, must
  <2>1. CASE r.job \in Jobs /\ r.row \in Row
    <3>1. /\ DeleteIntent(rows, r.job, r.row, must) \in Tables
          /\ OnlyFrees(rows, DeleteIntent(rows, r.job, r.row, must))
      BY <1>1, <2>1, TablesType, StatementsFree
    <3>2. /\ RetimeIntent(rows, r.job, r.row, next, must) \in Tables
          /\ OnlyFrees(rows, RetimeIntent(rows, r.job, r.row, next, must))
      BY <1>1, <2>1, TablesType, StatementsFree
    <3>3. rows \in Tables /\ OnlyFrees(rows, rows)
      BY <1>1 DEF OnlyFrees
    <3> QED BY <3>1, <3>2, <3>3
  <2>2. CASE r.job = NoJob
    BY <1>1, <2>2 DEF OnlyFrees
  <2> QED BY <1>2, <2>1, <2>2
<1>4. /\ OnlyFrees(own, PurgeRecoveryLoopJobs(own))
      /\ OnlyFrees(own, DelayRecoveryLoopJobs(own, next))
  <2> HIDE DEF own, next
  <2>1. \A k \in Jobs : own[k] # NoRow => ~Retimed(own[k], next).running
    BY <1>1, <1>3, RowType DEF Tables
  <2> QED BY <2>1 DEF OnlyFrees, Freed, PurgeRecoveryLoopJobs,
             DelayRecoveryLoopJobs, Present
<1>5. PolicyRows(th) = IF breaker.sealed THEN PurgeRecoveryLoopJobs(own)
                       ELSE DelayRecoveryLoopJobs(own, next)
  BY DEF PolicyRows
<1> QED
  <2> HIDE DEF own, next
  <2>1. PICK u : PolicyRows(th) = u /\ OnlyFrees(own, u)
    BY <1>4, <1>5
  <2> QED BY <1>3, <2>1 DEF OnlyFrees, Freed

(* The breaker frees rows and marks the claims on them.                     *)
LEMMA BreakerKeeps ==
  ASSUME FenceInv, NEW th \in Threads, Breaker(th)
  PROVE  Keeps /\ \A q \in Alarms : scope[q].pc = "dispatch" =>
                                      scope'[q].pc = "dispatch" \/ rows' = rows
<1>1. /\ \A q \in Alarms : ScopeOK(scope[q]) /\ scope[q] \in Scopes
      /\ scope \in [Alarms -> Scopes]
      /\ th[1] \in Alarms /\ lastClaim \in Nat
  BY Slots DEF FenceInv, ScopeOK, Threads, TypeInv, TypeOK
<1>2. CASE BreakerSkips(th) \/ BreakerLeaves(th)
  <2>1. UNCHANGED <<rows, lastClaim>> /\ Leave(th)
    BY <1>2 DEF BreakerSkips, BreakerLeaves
  <2>2. CASE th[2] = "alarm"
    <3>1. scope' = [scope EXCEPT ![th[1]] =
                      [Idle(scope[th[1]]) EXCEPT !.finished = TRUE]]
      BY <2>1, <2>2 DEF Leave
    <3>2. Idle(scope[th[1]]) \in Scopes /\ Idle(scope[th[1]]).job = NoJob
          /\ Idle(scope[th[1]]).pc = "idle"
      BY <1>1, ScopeType
    <3>3. scope'[th[1]] = [Idle(scope[th[1]]) EXCEPT !.finished = TRUE]
          /\ \A q \in Alarms \ {th[1]} : scope'[q] = scope[q]
      BY <1>1, <3>1
    <3>4. KeepsClaim(th[1])
      BY <3>2, <3>3, FinishedType DEF KeepsClaim
    <3> QED BY <1>1, <2>1, <3>3, <3>4, UntouchedKeeps
  <2>3. CASE th[2] # "alarm"
    BY <2>1, <2>3, StillKeeps DEF Leave
  <2> QED BY <2>1, <2>2, <2>3
<1>3. CASE BreakerEnters(th) \/ BreakerStrikes(th)
  <2>1. \A q \in Alarms :
          /\ scope'[q].pc = scope[q].pc /\ scope'[q].job = scope[q].job
          /\ scope'[q].row = scope[q].row /\ scope'[q].stale = scope[q].stale
    <3>1. CASE BreakerEnters(th)
      <4>1. scope' = [p \in Alarms |->
              [scope[p] EXCEPT !.hit = TRUE, !.struck = @ \/ p = th[1]]]
        BY <3>1 DEF BreakerEnters
      <4> QED BY <1>1, <4>1 DEF Scopes
    <3>2. CASE BreakerStrikes(th)
      <4>1. scope' = [p \in Alarms |->
              [scope[p] EXCEPT !.counted = IF p = th[1] THEN @ + 1 ELSE @]]
        BY <3>2 DEF BreakerStrikes
      <4> QED BY <1>1, <4>1 DEF Scopes
    <3> QED BY <1>3, <3>1, <3>2
  <2>2. UNCHANGED <<rows, lastClaim>>
    BY <1>3 DEF BreakerEnters, BreakerStrikes, durable, fences
  <2>3. \A q \in Alarms : KeepsClaim(q)
    BY <2>1, <2>2 DEF KeepsClaim
  <2> QED BY <1>1, <2>2, <2>3 DEF Keeps, OnlyFrees
<1>4. CASE BreakerDecides(th)
  <2> DEFINE u == PolicyRows(th)
             X == {j \in Jobs : u[j] # rows[j]}
  <2>1. rows' = u /\ MarkScopes(X) /\ UNCHANGED lastClaim
    BY <1>4 DEF BreakerDecides, fences
  <2>2. OnlyFrees(rows, u)
    BY PolicyFrees
  <2>3. \A q \in Alarms : scope'[q].pc = scope[q].pc
    BY <2>1, MarkScopesType DEF FenceInv, TypeInv
  <2>4. (\A k \in X : Freed(u, k)) /\ X \in SUBSET Jobs
        /\ \A k \in Jobs \ X : u[k] = rows[k]
    BY <2>2 DEF OnlyFrees
  <2> HIDE DEF u, X
  <2> QED BY <1>1, <2>1, <2>2, <2>3, <2>4, MarkedKeeps
<1>5. CASE BreakerSeals(th)
  <2>1. UNCHANGED <<rows, scope, lastClaim>>
    BY <1>5 DEF BreakerSeals, fences
  <2> QED BY <2>1, StillKeeps
<1> QED BY <1>2, <1>3, <1>4, <1>5 DEF Breaker

(* A new isolate has no claims.                                             *)
LEMMA ForgetFence ==
  ASSUME Forget, TypeInv'
  PROVE  FenceInv'
<1>1. Idle(NewScope(0)).job = NoJob /\ Idle(NewScope(0)).pc = "idle"
  BY NewScopeType, ScopeType
<1>2. \A p \in Alarms : scope'[p].job = NoJob /\ scope'[p].pc = "idle"
  BY <1>1 DEF Forget
<1> QED BY <1>2 DEF FenceInv, FenceOK, HoldsOK

(* Initially nothing is claimed.                                            *)
LEMMA FenceInit == Init => FenceInv
<1> SUFFICES ASSUME Init PROVE FenceInv
  OBVIOUS
<1>1. Idle(NewScope(0)).job = NoJob /\ Idle(NewScope(0)).pc = "idle"
  BY NewScopeType, ScopeType
<1>2. \A p \in Alarms : scope[p].job = NoJob /\ scope[p].pc = "idle"
  BY <1>1 DEF Init
<1> QED BY <1>2, TypeInit DEF FenceInv, FenceOK, HoldsOK

(* Every step keeps the fence, and leaves the row of an outdated claim      *)
(* alone when the claim ends.                                               *)
LEMMA FenceNext == FenceInv /\ [Next]_vars => FenceInv' /\ StaleUntouched
<1> SUFFICES ASSUME FenceInv, [Next]_vars PROVE FenceInv' /\ StaleUntouched
  OBVIOUS
<1>0. TypeInv'
  BY TypeNext DEF FenceInv
<1>1. Keeps => FenceInv'
  BY <1>0, FenceKept DEF Keeps
<1>2. rows' = rows => StaleUntouched
  BY DEF StaleUntouched
<1>3. (\A q \in Alarms : scope[q].pc = "dispatch" => scope'[q].pc = "dispatch")
        => StaleUntouched
  BY DEF StaleUntouched
<1>4. CASE Operations
  <2>1. \A q \in Alarms : scope'[q].pc = scope[q].pc
    <3>1. \E j \in Jobs : \E t : \E taken \in BOOLEAN : Operation(j, t, taken)
      <4>1. ASSUME NEW j \in Jobs, NEW o \in Owners, CancelJob(o, j)
            PROVE  \E t : \E taken \in BOOLEAN : Operation(j, t, taken)
        <5>1. Owned(rows, o, j) \in BOOLEAN
          BY DEF Owned, Present
        <5> QED BY <4>1, <5>1 DEF CancelJob
      <4>2. ASSUME NEW j \in Jobs, NEW o \in Owners, NEW opt \in PushOptions,
                   NEW time \in RescheduleTo, PushJob(o, j, opt, time)
            PROVE  \E t : \E taken \in BOOLEAN : Operation(j, t, taken)
        BY <4>2 DEF PushJob
      <4>3. ASSUME NEW j \in Jobs, NEW o \in Owners, NEW time \in RescheduleTo,
                   RescheduleJob(o, j, time)
            PROVE  \E t : \E taken \in BOOLEAN : Operation(j, t, taken)
        BY <4>3 DEF RescheduleJob
      <4> QED BY <1>4, <4>1, <4>2, <4>3 DEF Operations
    <3>2. ASSUME NEW j, NEW t, Operation(j, t, TRUE)
          PROVE  \A q \in Alarms : scope'[q].pc = scope[q].pc
      BY <3>2, MarkScopesType DEF Operation, FenceInv, TypeInv
    <3>3. ASSUME NEW j, NEW t, Operation(j, t, FALSE)
          PROVE  \A q \in Alarms : scope'[q].pc = scope[q].pc
      BY <3>3 DEF Operation
    <3> QED BY <3>1, <3>2, <3>3
  <2> QED BY <1>1, <1>3, <1>4, <2>1, OperationsKeep
<1>5. ASSUME UNCHANGED <<rows, scope, lastClaim>>
      PROVE  FenceInv' /\ StaleUntouched
  BY <1>1, <1>2, <1>5, StillKeeps
<1>6. CASE \E j \in Jobs : OperationRearms(j)
  BY <1>5, <1>6 DEF OperationRearms, fences
<1>7. CASE StartBegin \/ Starting
  BY <1>5, <1>7 DEF StartBegin, Starting, HookRearms, StartDone, durable, fences
<1>8. CASE \E k \in StartupFailures : StartFails(k)
  BY <1>1, <1>2, <1>8, StartFailsKeeps DEF StartFails
<1>9. ASSUME NEW p \in Alarms,
             \/ AlarmFires(p) \/ Snapshot(p) \/ ArmDeadman(p) \/ LoopEnds(p)
             \/ JobOoms(p) \/ AlarmRaises(p) \/ AlarmClears(p)
             \/ AlarmReturns(p) \/ WorkEnds(p)
             \/ \E r \in {"clear", "fail", "oom"} : HostAlarm(p, r)
      PROVE  FenceInv' /\ StaleUntouched
  <2>1. UNCHANGED rows
    BY <1>9 DEF AlarmFires, Snapshot, ArmDeadman, LoopEnds, JobOoms,
       AlarmRaises, AlarmClears, AlarmReturns, WorkEnds, WorkSettles,
       HostAlarm, durable
  <2> QED BY <1>1, <1>2, <1>9, <2>1, InvocationKeeps
<1>10. ASSUME NEW p \in Alarms, WorkClears(p) \/ Track(p)
       PROVE  FenceInv' /\ StaleUntouched
  BY <1>5, <1>10 DEF WorkClears, Track, durable, fences
<1>11. ASSUME NEW p \in Alarms, Claim(p) PROVE FenceInv' /\ StaleUntouched
  <2>1. \A q \in Alarms \ {p} : scope'[q].pc = scope[q].pc
    <3>1. \A q \in Alarms : scope[q] \in Scopes
      BY DEF FenceInv, TypeInv, TypeOK
    <3>2. \A q \in Alarms \ {p} : \E j : scope'[q] = Outdated(scope[q], {j})
      BY <1>11 DEF Claim
    <3>3. ASSUME NEW q \in Alarms \ {p} PROVE scope'[q].pc = scope[q].pc
      <4>1. PICK j : scope'[q] = Outdated(scope[q], {j})
        BY <3>2
      <4> QED BY <3>1, <4>1, ScopeType
    <3> QED BY <3>3
  <2>2. scope[p].pc # "dispatch"
    BY <1>11 DEF Claim, ClaimAt
  <2> QED BY <1>0, <1>3, <1>11, <2>1, <2>2, FenceClaim
<1>12. ASSUME NEW p \in Alarms, DropUnhandled(p)
       PROVE  FenceInv' /\ StaleUntouched
  BY <1>1, <1>3, <1>12, DropKeeps
<1>13. ASSUME NEW p \in Alarms,
              \/ \E outcome \in Outcomes(RescheduleTo) : JobReturns(p, outcome)
              \/ JobAborts(p)
       PROVE  FenceInv' /\ StaleUntouched
  <2>1. Keeps
    <3>1. lastClaim \in Nat
      BY DEF FenceInv, TypeInv, TypeOK
    <3> QED BY <1>13, <3>1, FenceSettles DEF Keeps
  <2>2. /\ scope[p].stale => rows' = rows
        /\ \A q \in Alarms \ {p} : scope'[q] = scope[q]
    BY <1>13, FenceSettles
  <2>3. StaleUntouched
    BY <2>2 DEF StaleUntouched
  <2> QED BY <1>1, <2>1, <2>3
<1>14. ASSUME NEW th \in Threads, Breaker(th)
       PROVE  FenceInv' /\ StaleUntouched
  <2>1. Keeps /\ \A q \in Alarms : scope[q].pc = "dispatch" =>
                                     scope'[q].pc = "dispatch" \/ rows' = rows
    BY <1>14, BreakerKeeps
  <2> QED BY <1>1, <1>2, <2>1 DEF StaleUntouched
<1>15. CASE Crash \/ Reset
  BY <1>0, <1>2, <1>15, ForgetFence DEF Crash, Reset, Forget
<1>16. CASE Tick \/ UNCHANGED vars
  BY <1>5, <1>16 DEF Tick, vars, durable, fences
<1>17. ASSUME NEW p \in Alarms,
              \/ AlarmFires(p) \/ Invocation(p) \/ Settles(p) \/ Track(p)
              \/ \E r \in {"fail", "oom"} : HostAlarm(p, r)
              \/ WorkEnds(p)
       PROVE  FenceInv' /\ StaleUntouched
  BY <1>9, <1>10, <1>11, <1>12, <1>13, <1>17 DEF Invocation, Settles
<1> QED BY <1>4, <1>6, <1>7, <1>8, <1>14, <1>15, <1>16, <1>17 DEF Next, Work

(* Only a claim starts a dispatch.                                          *)
LEMMA ClaimsOnly ==
  ASSUME FenceInv, [Next]_vars, NEW q \in Alarms,
         scope[q].pc # "dispatch", scope'[q].pc = "dispatch"
  PROVE  Claim(q)
<1>1. ASSUME Keeps PROVE FALSE
  BY <1>1 DEF Keeps, KeepsClaim
<1>2. ASSUME UNCHANGED <<rows, scope, lastClaim>> PROVE FALSE
  BY <1>2
<1>3. ASSUME NEW p \in Alarms, Claim(p), p # q PROVE FALSE
  <2>1. \E j : scope'[q] = Outdated(scope[q], {j})
    BY <1>3 DEF Claim
  <2>2. scope[q] \in Scopes
    BY DEF FenceInv, TypeInv, TypeOK
  <2> QED BY <2>1, <2>2, ScopeType
<1>4. ASSUME Forget PROVE FALSE
  <2>1. Idle(NewScope(0)).pc = "idle"
    BY NewScopeType, ScopeType
  <2> QED BY <1>4, <2>1 DEF Forget
<1>5. ASSUME NEW p \in Alarms, Settles(p) PROVE FALSE
  <2>1. CASE JobOoms(p)
    BY <1>1, <2>1, InvocationKeeps
  <2>2. CASE \/ \E outcome \in Outcomes(RescheduleTo) : JobReturns(p, outcome)
             \/ JobAborts(p)
    BY <2>2, FenceSettles DEF KeepsClaim
  <2> QED BY <1>5, <2>1, <2>2 DEF Settles
<1>6. ASSUME NEW p \in Alarms, Invocation(p), ~Claim(p) PROVE FALSE
  <2>1. CASE DropUnhandled(p)
    BY <1>1, <2>1, DropKeeps
  <2>2. CASE WorkClears(p)
    BY <1>2, <2>2 DEF WorkClears, durable, fences
  <2>3. CASE ~DropUnhandled(p) /\ ~WorkClears(p)
    BY <1>1, <1>6, <2>3, InvocationKeeps DEF Invocation
  <2> QED BY <2>1, <2>2, <2>3
<1>7. ASSUME NEW p \in Alarms,
             \/ AlarmFires(p) \/ Track(p) \/ WorkEnds(p)
             \/ \E r \in {"fail", "oom"} : HostAlarm(p, r)
      PROVE  FALSE
  <2>1. CASE Track(p)
    BY <1>2, <2>1 DEF Track, durable, fences
  <2>2. CASE ~Track(p)
    BY <1>1, <1>7, <2>2, InvocationKeeps
  <2> QED BY <2>1, <2>2
<1>8. ASSUME Operations \/ \E k \in StartupFailures : StartFails(k) PROVE FALSE
  BY <1>1, <1>8, OperationsKeep, StartFailsKeeps
<1>9. ASSUME \/ \E j \in Jobs : OperationRearms(j)
             \/ StartBegin \/ Starting \/ Tick \/ UNCHANGED vars
      PROVE  FALSE
  BY <1>2, <1>9 DEF OperationRearms, StartBegin, Starting, HookRearms,
     StartDone, Tick, vars, durable, fences
<1>10. ASSUME NEW th \in Threads, Breaker(th) PROVE FALSE
  BY <1>1, <1>10, BreakerKeeps
<1>11. ASSUME Crash \/ Reset PROVE FALSE
  BY <1>4, <1>11 DEF Crash, Reset
<1> QED BY <1>3, <1>5, <1>6, <1>7, <1>8, <1>9, <1>10, <1>11 DEF Next, Work

(* However many alarms overlap and however their handlers end: a claim      *)
(* whose row was pushed, moved, cancelled, backed off or claimed again      *)
(* never writes that row.  The version note_mutation keeps is not needed    *)
(* for it, the guard of the statements alone is enough, since no two claims *)
(* of an isolate start at the same time.                                    *)
THEOREM StaleOutcomeIgnoredHolds == Spec => StaleOutcomeIgnored
<1>1. Init => FenceInv
  BY FenceInit
<1>2. FenceInv /\ [Next]_vars => FenceInv' /\ StaleUntouched
  BY FenceNext
<1>3. StaleUntouched => [\A p \in Alarms :
       scope[p].pc = "dispatch" /\ scope'[p].pc # "dispatch" /\ scope[p].stale
         => rows'[scope[p].job] = rows[scope[p].job]]_vars
  BY DEF StaleUntouched
<1> QED BY <1>1, <1>2, <1>3, PTL DEF Spec, StaleOutcomeIgnored

(* And so a singleflight job runs on one live claim at a time: an           *)
(* overlapping alarm takes it over only when its run counts as hung.        *)
THEOREM SingleflightRunsOnceHolds == Spec => SingleflightRunsOnce
<1> DEFINE Once ==
      \A p, q \in Alarms :
        /\ p # q /\ scope[p].pc = "dispatch" /\ ~scope[p].stale
        /\ scope[p].row.singleflight
        /\ scope[q].pc # "dispatch" /\ scope'[q].pc = "dispatch"
        /\ scope'[q].job = scope[p].job
        => IsHung(scope[p].row, scope[q].inv)
<1>1. Init => FenceInv
  BY FenceInit
<1>2. FenceInv /\ [Next]_vars => FenceInv'
  BY FenceNext
<1>3. FenceInv /\ [Next]_vars => [Once]_vars
  <2> SUFFICES ASSUME FenceInv, [Next]_vars, NEW p \in Alarms, NEW q \in Alarms,
                      p # q, scope[p].pc = "dispatch", ~scope[p].stale,
                      scope[p].row.singleflight,
                      scope[q].pc # "dispatch", scope'[q].pc = "dispatch",
                      scope'[q].job = scope[p].job
               PROVE  IsHung(scope[p].row, scope[q].inv)
    OBVIOUS
  <2>1. Claim(q)
    BY ClaimsOnly
  <2>2. PICK i \in 1..Len(scope[q].due) :
          /\ Eligible(q, scope[q].due[i])
          /\ scope'[q] = [scope[q] EXCEPT !.pc = "dispatch", !.due = Rest(q, i),
                 !.job = scope[q].due[i],
                 !.row = MarkRunning(rows, scope[q].due[i],
                                     ClaimTime(q))[scope[q].due[i]],
                 !.version = mutationSequence + 1, !.stale = FALSE]
    BY <2>1 DEF Claim, ClaimAt
  <2>3. scope'[q].job = scope[q].due[i]
    <3>1. scope[q] \in Scopes
      BY DEF FenceInv, TypeInv, TypeOK
    <3> QED BY <2>2, <3>1 DEF Scopes
  <2>4. ~InFlight(rows[scope[p].job], scope[q].inv)
    BY <2>2, <2>3 DEF Eligible
  <2>5. rows[scope[p].job] = scope[p].row /\ scope[p].row.running
    BY DEF FenceInv, HoldsOK
  <2> QED BY <2>4, <2>5 DEF InFlight
<1> QED BY <1>1, <1>2, <1>3, PTL DEF Spec, SingleflightRunsOnce

-----------------------------------------------------------------------------
(***************************************************************************)
(* What the memory-limit breaker and the rearms of the alarm driver keep    *)
(* for any number of jobs, overlapping alarms, handoffs and incidents: one  *)
(* strike per alarm, no back-off on behalf of an outdated claim, strikes    *)
(* that a clean end cannot wipe out, and no acknowledged job without a      *)
(* physical alarm.                                                          *)
(***************************************************************************)
(* What an invocation remembers of incidents; it begins with a clean sheet. *)
SameHistory(a, b) ==
  /\ b.struck = a.struck /\ b.hit = a.hit
  /\ b.counted = a.counted /\ b.generation = a.generation
Begins(q) ==
  /\ scope[q].pc = "idle" /\ work[q].pc = "none" /\ work'[q].pc = "none"
  /\ scope'[q].pc = "start" /\ ~scope'[q].struck /\ ~scope'[q].hit
  /\ scope'[q].counted = 0 /\ scope'[q].generation = memoryGeneration

(* Phases an invocation reaches only after the shared startup.              *)
Past == {"deadman", "loop", "dispatch", "host", "oom", "clear", "rearm"}
Claiming == {"loop", "dispatch"}

(* What a step outside the breaker does to a slot.                          *)
Moves(q) ==
  /\ SameHistory(scope[q], scope'[q]) \/ Begins(q)
  /\ scope[q].pc = "oom" => scope'[q].pc = "oom"
  /\ work[q].pc = "oom" => work'[q].pc = "oom"
  /\ scope'[q].pc \in Past =>
       scope[q].pc \in Past \/ life = "ready" \/ "oom" \in StartupFailures
  /\ work'[q].pc # "none" => work[q].pc # "none" \/ scope[q].pc = "dispatch"
  /\ scope'[q].pc \in Claiming => scope[q].pc \in Claiming \/ delivery' # q
  /\ delivery' = q => delivery = q \/ Begins(q)
AllMove ==
  /\ \A q \in Alarms : Moves(q)
  /\ UNCHANGED <<breaker, memoryGeneration>>
  /\ life = "ready" => life' = "ready"

(* Only a delivery gives a slot the alarm.                                  *)
NoneDelivered == delivery' = delivery \/ delivery' = NoSlot

(* A slot whose phase and history stay.                                     *)
LEMMA StaysMoves ==
  ASSUME NEW q \in Alarms, NoneDelivered, scope'[q].pc = scope[q].pc,
         SameHistory(scope[q], scope'[q]), work'[q].pc = work[q].pc
  PROVE  Moves(q)
BY NoSlotAssumption DEF Moves, NoneDelivered, Past, Claiming

(* Marking a scope keeps its history.                                       *)
LEMMA OutdatedHistory ==
  ASSUME NEW sc \in Scopes, NEW X
  PROVE  SameHistory(sc, Outdated(sc, X)) /\ SameHistory(sc, sc)
BY DEF Scopes, SameHistory, Outdated

(* One slot takes its invocation a phase further.                           *)
LEMMA PhaseMoves ==
  ASSUME TypeInv, NEW p \in Alarms, NEW sc, scope' = [scope EXCEPT ![p] = sc],
         UNCHANGED work, NoneDelivered, SameHistory(scope[p], sc),
         scope[p].pc # "oom",
         sc.pc \in Past => scope[p].pc \in Past \/ life = "ready",
         sc.pc \in Claiming => scope[p].pc \in Claiming \/ delivery' # p
  PROVE  \A q \in Alarms : Moves(q)
<1>1. scope \in [Alarms -> Scopes]
  BY DEF TypeInv, TypeOK
<1>2. ASSUME NEW q \in Alarms \ {p} PROVE Moves(q)
  <2>1. scope'[q] = scope[q]
    BY <1>1
  <2> QED BY <2>1, StaysMoves DEF SameHistory
<1>3. Moves(p)
  <2>1. scope'[p] = sc
    BY <1>1
  <2> QED BY <2>1, NoSlotAssumption DEF Moves, NoneDelivered
<1> QED BY <1>2, <1>3

(* The steps of one invocation, but for its claims.                         *)
LEMMA InvocationMoves ==
  ASSUME TypeInv, NEW p \in Alarms,
         \/ Snapshot(p) \/ ArmDeadman(p) \/ LoopEnds(p)
         \/ Settles(p) \/ AlarmRaises(p) \/ AlarmClears(p) \/ AlarmReturns(p)
         \/ \E r \in {"clear", "fail", "oom"} : HostAlarm(p, r)
  PROVE  AllMove
<1>1. scope[p] \in Scopes
  BY DEF TypeInv, TypeOK
<1>2. UNCHANGED <<work, breaker, memoryGeneration, life>>
  BY DEF Snapshot, ArmDeadman, LoopEnds, Settles, JobReturns, JobAborts,
         JobOoms, AlarmRaises, AlarmClears, AlarmReturns, HostAlarm, startup
<1>3. NoneDelivered
  BY DEF NoneDelivered, Snapshot, ArmDeadman, LoopEnds, Settles, JobReturns,
         JobAborts, JobOoms, AlarmRaises, AlarmClears, AlarmReturns, HostAlarm,
         durable, Rearm, RearmAndReturn
<1> DEFINE Goes(sc) ==
      /\ scope' = [scope EXCEPT ![p] = sc] /\ SameHistory(scope[p], sc)
      /\ scope[p].pc # "oom"
      /\ sc.pc \in Past => scope[p].pc \in Past \/ life = "ready"
      /\ sc.pc \in Claiming => scope[p].pc \in Claiming \/ delivery' # p
<1>4. \E sc : Goes(sc)
  <2>1. CASE Snapshot(p)
    <3>1. PICK q \in DueLists(rows, clock, HasExclusive(rows)) :
            scope' = [scope EXCEPT ![p] =
              [scope[p] EXCEPT !.inv = clock, !.due = q,
                 !.pc = IF q = <<>> THEN "host" ELSE "deadman"]]
      BY <2>1 DEF Snapshot
    <3>2. Goes([scope[p] EXCEPT !.inv = clock, !.due = q,
                  !.pc = IF q = <<>> THEN "host" ELSE "deadman"])
      BY <1>1, <2>1, <3>1 DEF Scopes, SameHistory, Past, Claiming, Snapshot
    <3> QED BY <3>2
  <2>2. CASE ArmDeadman(p)
    <3>1. Goes([scope[p] EXCEPT !.pc = "loop"])
      BY <1>1, <2>2, NoSlotAssumption
         DEF Scopes, SameHistory, Past, Claiming, ArmDeadman
    <3> QED BY <3>1
  <2>3. CASE LoopEnds(p)
    <3>1. Goes([scope[p] EXCEPT !.pc = "host", !.due = <<>>])
      BY <1>1, <2>3 DEF Scopes, SameHistory, Past, Claiming, LoopEnds
    <3> QED BY <3>1
  <2>4. CASE \E outcome \in Outcomes(RescheduleTo) : JobReturns(p, outcome)
    <3>1. Goes([scope[p] EXCEPT !.pc = "loop", !.job = NoJob, !.row = NoRow,
                  !.version = 0, !.stale = FALSE])
      BY <1>1, <2>4 DEF Scopes, SameHistory, Past, Claiming, JobReturns
    <3> QED BY <3>1
  <2>5. CASE JobAborts(p)
    <3>1. Goes([scope[p] EXCEPT !.pc = "fail"])
      BY <1>1, <2>5 DEF Scopes, SameHistory, Past, Claiming, JobAborts
    <3> QED BY <3>1
  <2>6. CASE JobOoms(p)
    <3>1. Goes([scope[p] EXCEPT !.pc = "oom"])
      BY <1>1, <2>6 DEF Scopes, SameHistory, Past, Claiming, JobOoms
    <3> QED BY <3>1
  <2>7. CASE AlarmRaises(p) \/ AlarmReturns(p)
    <3>1. Goes(Idle(scope[p]))
      BY <1>1, <2>7 DEF Scopes, SameHistory, Past, Claiming, Idle, AlarmRaises,
         AlarmReturns
    <3> QED BY <3>1
  <2>8. CASE AlarmClears(p)
    <3>1. Goes([scope[p] EXCEPT !.pc = "rearm"])
      BY <1>1, <2>8 DEF Scopes, SameHistory, Past, Claiming, AlarmClears
    <3> QED BY <3>1
  <2>9. ASSUME NEW r \in {"clear", "fail", "oom"}, HostAlarm(p, r)
        PROVE  \E sc : Goes(sc)
    <3> DEFINE c == IF r = "clear" /\ scope[p].failed THEN "rearm" ELSE r
               sc == [scope[p] EXCEPT !.pc = c, !.finished = (r = "clear")]
    <3>1. scope[p].pc = "host" /\ scope' = [scope EXCEPT ![p] = sc]
      BY <2>9, ZenonT(30) DEF HostAlarm
    <3>2. SameHistory(scope[p], sc) /\ sc.pc = c
      BY <1>1 DEF Scopes, SameHistory
    <3>3. c \notin Claiming
      BY DEF Claiming
    <3> HIDE DEF sc, c
    <3>4. Goes(sc)
      BY <3>1, <3>2, <3>3 DEF Past
    <3> QED BY <3>4
  <2> HIDE DEF Goes
  <2> QED BY <2>1, <2>2, <2>3, <2>4, <2>5, <2>6, <2>7, <2>8, <2>9 DEF Settles
<1> QED
  <2>1. PICK sc : Goes(sc)
    BY <1>4
  <2>2. \A q \in Alarms : Moves(q)
    BY <1>2, <1>3, <2>1, PhaseMoves
  <2> QED BY <1>2, <2>2 DEF AllMove

(* The claims of an invocation mark the claims they replace.                *)
LEMMA ClaimsMove ==
  ASSUME TypeInv, NEW p \in Alarms, Claim(p) \/ DropUnhandled(p)
  PROVE  AllMove
<1>1. \A q \in Alarms : scope[q] \in Scopes /\ work[q] \in Works
  BY DEF TypeInv, TypeOK
<1>2. \E j \in Jobs : MarkWork({j})
  <2>1. \A i \in 1..Len(scope[p].due) : scope[p].due[i] \in Jobs
    BY <1>1, RestType DEF Scopes
  <2> QED BY <2>1 DEF Claim, DropUnhandled
<1>3. \A q \in Alarms : work'[q].pc = work[q].pc
  BY <1>2, MarkWorkType DEF TypeInv
<1>4. NoneDelivered /\ UNCHANGED <<breaker, memoryGeneration, life>>
  BY DEF Claim, DropUnhandled, NoneDelivered, startup
<1>5. ASSUME NEW q \in Alarms \ {p} PROVE Moves(q)
  <2>1. PICK j : scope'[q] = Outdated(scope[q], {j})
    <3>1. CASE Claim(p)
      BY <3>1 DEF Claim
    <3>2. CASE DropUnhandled(p)
      BY <3>2 DEF DropUnhandled
    <3> QED BY <3>1, <3>2
  <2> QED BY <1>1, <1>3, <1>4, <2>1, ScopeType, OutdatedHistory, StaysMoves
<1>6. Moves(p)
  <2>1. SameHistory(scope[p], scope'[p]) /\ scope'[p].pc \in Claiming
    <3>1. CASE Claim(p)
      <4>1. PICK i \in 1..Len(scope[p].due) : scope'[p] =
              [scope[p] EXCEPT !.pc = "dispatch", !.due = Rest(p, i),
                 !.job = scope[p].due[i],
                 !.row = MarkRunning(rows, scope[p].due[i],
                                     ClaimTime(p))[scope[p].due[i]],
                 !.version = mutationSequence + 1, !.stale = FALSE]
        BY <3>1 DEF Claim
      <4> QED BY <1>1, <4>1 DEF Scopes, SameHistory, Claiming
    <3>2. CASE DropUnhandled(p)
      <4>1. PICK i \in 1..Len(scope[p].due) :
              scope' = [[q \in Alarms |-> Outdated(scope[q], {scope[p].due[i]})]
                          EXCEPT ![p].due = Rest(p, i)]
        BY <3>2 DEF DropUnhandled
      <4>2. scope'[p] = [Outdated(scope[p], {scope[p].due[i]})
                           EXCEPT !.due = Rest(p, i)]
        BY <4>1
      <4>3. scope[p].pc = "loop"
        BY <3>2 DEF DropUnhandled, ClaimAt
      <4> QED BY <1>1, <4>2, <4>3 DEF Outdated, Scopes, SameHistory, Claiming
    <3> QED BY <3>1, <3>2
  <2>2. scope[p].pc = "loop"
    BY DEF Claim, DropUnhandled, ClaimAt
  <2> QED BY <1>3, <1>4, <2>1, <2>2, NoSlotAssumption
          DEF Moves, NoneDelivered, Past, Claiming
<1> QED BY <1>4, <1>5, <1>6 DEF AllMove

(* A handoff begins, settles or clears the strikes.                         *)
LEMMA HandoffMoves ==
  ASSUME TypeInv, NEW p \in Alarms, Track(p) \/ WorkEnds(p) \/ WorkClears(p)
  PROVE  AllMove
<1>1. /\ scope \in [Alarms -> Scopes] /\ scope[p] \in Scopes
      /\ work \in [Alarms -> Works] /\ work[p] \in Works
  BY DEF TypeInv, TypeOK
<1>2. NoneDelivered /\ UNCHANGED <<breaker, memoryGeneration, life>>
  BY DEF Track, WorkEnds, WorkSettles, WorkClears, NoneDelivered, startup, durable
<1>3. \A q \in Alarms : scope'[q].pc = scope[q].pc
                          /\ SameHistory(scope[q], scope'[q])
  <2>1. CASE Track(p) \/ WorkClears(p)
    BY <2>1 DEF Track, WorkClears, SameHistory
  <2>2. CASE WorkEnds(p)
    <3>1. PICK r \in {"clear", "fail", "oom"} :
            scope' = [scope EXCEPT ![p].failed = @ \/ r # "clear"]
      BY <2>2 DEF WorkEnds, WorkSettles
    <3>2. scope' = [scope EXCEPT ![p] =
                      [scope[p] EXCEPT !.failed = @ \/ r # "clear"]]
      BY <3>1
    <3> QED BY <1>1, <3>2 DEF Scopes, SameHistory
  <2> QED BY <2>1, <2>2
<1>4. \A q \in Alarms \ {p} : work'[q] = work[q]
  BY <1>1 DEF Track, WorkEnds, WorkSettles, WorkClears
<1>5. \/ scope[p].pc = "dispatch" /\ work[p].pc = "none"
      \/ work[p].pc \in {"running", "clear"}
  BY <1>1, NoWorkType DEF Track, WorkEnds, WorkSettles, WorkClears
<1>6. ASSUME NEW q \in Alarms PROVE Moves(q)
  <2>1. CASE q # p
    BY <1>2, <1>3, <1>4, <2>1, StaysMoves
  <2>2. CASE q = p
    BY <1>2, <1>3, <1>5, <2>2, NoSlotAssumption DEF Moves, NoneDelivered
  <2> QED BY <2>1, <2>2
<1> QED BY <1>2, <1>6 DEF AllMove

(* A step that leaves the slots alone.                                      *)
LEMMA StillMoves ==
  ASSUME TypeInv, UNCHANGED <<scope, work, breaker, memoryGeneration>>,
         NoneDelivered, life = "ready" => life' = "ready"
  PROVE  AllMove
<1>1. \A q \in Alarms : Moves(q)
  BY StaysMoves DEF SameHistory
<1> QED BY <1>1 DEF AllMove

(* The operations of the queue.                                             *)
LEMMA OperationMoves ==
  ASSUME TypeInv, NEW j \in Jobs, NEW t, NEW taken \in BOOLEAN,
         Operation(j, t, taken)
  PROVE  AllMove
<1>1. NoneDelivered /\ UNCHANGED <<breaker, memoryGeneration, life>>
  BY DEF Operation, NoneDelivered
<1>2. CASE taken
  <2>1. MarkScopes({j}) /\ MarkWork({j})
    BY <1>2 DEF Operation
  <2>2. ASSUME NEW q \in Alarms PROVE Moves(q)
    <3>1. scope[q] \in Scopes /\ scope'[q] = Outdated(scope[q], {j})
          /\ work'[q].pc = work[q].pc
      BY <2>1, MarkScopesType, MarkWorkType DEF TypeInv, TypeOK
    <3> QED BY <1>1, <3>1, ScopeType, OutdatedHistory, StaysMoves
  <2> QED BY <1>1, <2>2 DEF AllMove
<1>3. CASE ~taken
  BY <1>1, <1>3, StillMoves DEF Operation
<1> QED BY <1>2, <1>3

(* All of them are steps of that form.                                      *)
LEMMA OperationsAre ==
  Operations => \E j \in Jobs : \E t : \E taken \in BOOLEAN : Operation(j, t, taken)
<1>1. ASSUME NEW j \in Jobs, NEW o \in Owners, CancelJob(o, j)
      PROVE  \E t : \E taken \in BOOLEAN : Operation(j, t, taken)
  <2>1. Owned(rows, o, j) \in BOOLEAN
    BY DEF Owned, Present
  <2> QED BY <1>1, <2>1 DEF CancelJob
<1>2. ASSUME NEW j \in Jobs, NEW o \in Owners, NEW opt \in PushOptions,
             NEW time \in RescheduleTo, PushJob(o, j, opt, time)
      PROVE  \E t : \E taken \in BOOLEAN : Operation(j, t, taken)
  BY <1>2 DEF PushJob
<1>3. ASSUME NEW j \in Jobs, NEW o \in Owners, NEW time \in RescheduleTo,
             RescheduleJob(o, j, time)
      PROVE  \E t : \E taken \in BOOLEAN : Operation(j, t, taken)
  BY <1>3 DEF RescheduleJob
<1> QED BY <1>1, <1>2, <1>3 DEF Operations

(* A delivery begins, and a startup fails.                                  *)
LEMMA BeginsMove ==
  ASSUME TypeInv, (\E p \in Alarms : AlarmFires(p))
                    \/ \E k \in StartupFailures : StartFails(k)
  PROVE  AllMove
<1>1. scope \in [Alarms -> Scopes] /\ memoryGeneration \in Nat
  BY DEF TypeInv, TypeOK
<1>2. ASSUME NEW p \in Alarms, AlarmFires(p) PROVE AllMove
  <2>1. scope'[p] = NewScope(memoryGeneration)
        /\ (\A q \in Alarms \ {p} : scope'[q] = scope[q])
    BY <1>1, <1>2 DEF AlarmFires
  <2>2. UNCHANGED <<work, breaker, memoryGeneration, life>> /\ delivery' = p
        /\ work[p].pc = "none" /\ scope[p].pc = "idle"
    BY <1>2, NoWorkType DEF AlarmFires, startup
  <2>3. Begins(p)
    BY <2>1, <2>2 DEF Begins, NewScope
  <2>4. Moves(p)
    BY <2>1, <2>2, <2>3 DEF Moves, NewScope, Past, Claiming
  <2>5. \A q \in Alarms \ {p} : Moves(q)
    BY <2>1, <2>2 DEF Moves, SameHistory
  <2> QED BY <2>2, <2>4, <2>5 DEF AllMove
<1>3. ASSUME NEW k \in StartupFailures, StartFails(k) PROVE AllMove
  <2>1. k \in {"fail", "oom"}
    BY DriverAssumption
  <2>2. UNCHANGED <<work, breaker, memoryGeneration>> /\ NoneDelivered
        /\ life = "starting"
    BY <1>3 DEF StartFails, RearmOwed, NoneDelivered
  <2>3. ASSUME NEW q \in Alarms, scope[q].pc # "start" PROVE Moves(q)
    <3>1. scope'[q] = scope[q]
      BY <1>3, <2>3 DEF StartFails
    <3> QED BY <2>2, <3>1, StaysMoves DEF SameHistory
  <2>4. ASSUME NEW q \in Alarms, scope[q].pc = "start" PROVE Moves(q)
    <3>1. scope'[q] = [scope[q] EXCEPT !.pc = k]
      BY <1>3, <2>4 DEF StartFails
    <3>2. SameHistory(scope[q], scope'[q]) /\ scope'[q].pc = k
      BY <1>1, <3>1 DEF Scopes, SameHistory
    <3> QED BY <2>1, <2>2, <2>4, <3>2, NoSlotAssumption
            DEF Moves, NoneDelivered, Past, Claiming
  <2> QED BY <2>2, <2>3, <2>4 DEF AllMove
<1> QED BY <1>2, <1>3

(* Every step but the breaker's, and the loss of the isolate.               *)
LEMMA StepsMove ==
  ASSUME TypeInv, [Next]_vars
  PROVE  AllMove \/ (\E th \in Threads : Breaker(th)) \/ Crash \/ Reset
<1>1. CASE Operations
  BY <1>1, OperationsAre, OperationMoves
<1>2. CASE \E j \in Jobs : OperationRearms(j)
  <2>1. NoneDelivered
    BY <1>2 DEF OperationRearms, Rearm, NoneDelivered
  <2> QED BY <1>2, <2>1, StillMoves DEF OperationRearms
<1>3. CASE StartBegin \/ Starting
  <2>1. NoneDelivered
    BY <1>3 DEF StartBegin, Starting, HookRearms, StartDone, RearmOwed, durable,
       NoneDelivered
  <2> QED BY <1>3, <2>1, StillMoves DEF StartBegin, Starting, HookRearms, StartDone
<1>4. CASE Tick \/ UNCHANGED vars
  BY <1>4, StillMoves DEF Tick, vars, durable, startup, NoneDelivered
<1>5. ASSUME NEW p \in Alarms, Invocation(p) \/ Settles(p) \/ Track(p)
               \/ WorkEnds(p) \/ \E r \in {"fail", "oom"} : HostAlarm(p, r)
      PROVE  AllMove
  BY <1>5, InvocationMoves, ClaimsMove, HandoffMoves DEF Invocation
<1> QED BY <1>1, <1>2, <1>3, <1>4, <1>5, BeginsMove DEF Next, Work

-----------------------------------------------------------------------------
(* The strike lock.  Whoever holds it exhausted the memory and has been     *)
(* noted as struck; nothing is recorded for it before its strike, and no    *)
(* invocation ever has two strikes.                                         *)
BreakerOK ==
  /\ breaker.stage # "free" =>
       /\ breaker.holder \in Threads /\ Waiting(breaker.holder)
       /\ scope[breaker.holder[1]].struck
  /\ breaker.stage = "strike" => scope[breaker.holder[1]].counted = 0
  /\ \A p \in Alarms :
       scope[p].counted <= 1 /\ (scope[p].struck \/ scope[p].counted = 0)

(* An invocation that was under way when an incident began has an older     *)
(* generation.                                                              *)
GenerationOK ==
  \A p \in Alarms :
    /\ scope[p].generation <= memoryGeneration
    /\ scope[p].hit => scope[p].generation < memoryGeneration

IncidentInv == TypeInv /\ BreakerOK /\ GenerationOK

(* The fields the invariants read are typed.                                *)
LEMMA HistoryType ==
  ASSUME TypeInv
  PROVE  /\ memoryGeneration \in Nat
         /\ \A p \in Alarms :
              /\ scope[p].generation \in Nat /\ scope[p].counted \in Nat
              /\ scope[p].struck \in BOOLEAN /\ scope[p].hit \in BOOLEAN
BY DEF TypeInv, TypeOK, Scopes

(* No step outside the breaker disturbs them.                               *)
LEMMA IncidentMoves ==
  ASSUME IncidentInv, AllMove, TypeInv'
  PROVE  IncidentInv'
<1>1. GenerationOK'
  BY HistoryType DEF IncidentInv, GenerationOK, AllMove, Moves, SameHistory, Begins
<1>2. ASSUME breaker.stage # "free"
      PROVE  Waiting(breaker.holder)' /\ scope'[breaker.holder[1]].struck
                 /\ SameHistory(scope[breaker.holder[1]], scope'[breaker.holder[1]])
  <2> DEFINE p == breaker.holder[1]
  <2>1. p \in Alarms /\ Moves(p) /\ breaker' = breaker
    BY <1>2 DEF AllMove, IncidentInv, BreakerOK, Threads
  <2>2. Waiting(breaker.holder) /\ scope[p].struck
    BY <1>2 DEF IncidentInv, BreakerOK
  <2>3. ~Begins(p)
    BY <2>2 DEF Waiting, Begins
  <2>4. SameHistory(scope[p], scope'[p])
    BY <2>1, <2>3 DEF Moves
  <2>5. Waiting(breaker.holder)'
    BY <2>1, <2>2 DEF Waiting, Moves
  <2> QED BY <2>2, <2>4, <2>5 DEF SameHistory
<1>3. \A p \in Alarms : /\ scope'[p].counted <= 1
                        /\ scope'[p].struck \/ scope'[p].counted = 0
  BY HistoryType DEF IncidentInv, BreakerOK, AllMove, Moves, SameHistory, Begins
<1>4. breaker' = breaker
  BY DEF AllMove
<1>5. BreakerOK'
  BY <1>2, <1>3, <1>4 DEF BreakerOK, IncidentInv, SameHistory
<1> QED BY <1>1, <1>5 DEF IncidentInv

(* The breaker takes an incident up once, and strikes for it once.          *)
LEMMA IncidentBreaker ==
  ASSUME IncidentInv, TypeInv', NEW th \in Threads, Breaker(th)
  PROVE  IncidentInv'
<1>0. /\ scope \in [Alarms -> Scopes] /\ th[1] \in Alarms
      /\ \A q \in Alarms : scope[q] \in Scopes
  BY DEF IncidentInv, TypeInv, TypeOK, Threads
<1> DEFINE Same == \A q \in Alarms : SameHistory(scope[q], scope'[q])
           Phase == \A q \in Alarms : scope'[q].pc = scope[q].pc
<1>1. CASE BreakerSkips(th) \/ BreakerLeaves(th)
  <2>1. Same
    <3>1. CASE th[2] = "alarm"
      <4>1. scope' = [scope EXCEPT ![th[1]] =
                        [Idle(scope[th[1]]) EXCEPT !.finished = TRUE]]
        BY <1>1, <3>1 DEF BreakerSkips, BreakerLeaves, Leave
      <4>2. SameHistory(scope[th[1]],
                        [Idle(scope[th[1]]) EXCEPT !.finished = TRUE])
        BY <1>0 DEF SameHistory, Idle, Scopes
      <4> QED BY <1>0, <4>1, <4>2 DEF SameHistory
    <3>2. CASE th[2] # "alarm"
      BY <1>1, <3>2 DEF BreakerSkips, BreakerLeaves, Leave, SameHistory
    <3> QED BY <3>1, <3>2
  <2>2. breaker' = Free /\ memoryGeneration' = memoryGeneration
    BY <1>1 DEF BreakerSkips, BreakerLeaves
  <2>3. GenerationOK'
    BY <2>1, <2>2 DEF IncidentInv, GenerationOK, SameHistory
  <2>4. BreakerOK'
    BY <2>1, <2>2 DEF IncidentInv, BreakerOK, SameHistory, Free
  <2> QED BY <2>3, <2>4 DEF IncidentInv
<1>2. CASE BreakerEnters(th)
  <2>1. \A q \in Alarms : /\ scope'[q].hit = TRUE /\ scope'[q].pc = scope[q].pc
                          /\ scope'[q].struck = (scope[q].struck \/ q = th[1])
                          /\ scope'[q].counted = scope[q].counted
                          /\ scope'[q].generation = scope[q].generation
    <3>1. scope' = [p \in Alarms |->
            [scope[p] EXCEPT !.hit = TRUE, !.struck = @ \/ p = th[1]]]
      BY <1>2 DEF BreakerEnters
    <3> QED BY <1>0, <3>1 DEF Scopes
  <2>2. memoryGeneration' = memoryGeneration + 1 /\ UNCHANGED work
        /\ breaker'.holder = th /\ breaker'.stage = "strike"
        /\ Waiting(th) /\ ~scope[th[1]].struck
    BY <1>2 DEF BreakerEnters, MayStrike, Free
  <2>3. GenerationOK'
    BY <2>1, <2>2, HistoryType DEF IncidentInv, GenerationOK
  <2>4. Waiting(breaker.holder)'
    BY <1>0, <2>1, <2>2 DEF Waiting
  <2>5. \A p \in Alarms : /\ scope'[p].counted <= 1
                          /\ scope'[p].struck \/ scope'[p].counted = 0
    BY <2>1 DEF IncidentInv, BreakerOK
  <2>6. scope'[th[1]].struck /\ scope'[th[1]].counted = 0
    BY <1>0, <2>1, <2>2 DEF IncidentInv, BreakerOK
  <2>7. BreakerOK'
    BY <2>2, <2>4, <2>5, <2>6 DEF BreakerOK
  <2> QED BY <2>3, <2>7 DEF IncidentInv
<1>3. CASE BreakerStrikes(th)
  <2>1. \A q \in Alarms : /\ scope'[q].hit = scope[q].hit
                          /\ scope'[q].pc = scope[q].pc
                          /\ scope'[q].struck = scope[q].struck
                          /\ scope'[q].counted = IF q = th[1]
                               THEN scope[q].counted + 1 ELSE scope[q].counted
                          /\ scope'[q].generation = scope[q].generation
    <3>1. scope' = [p \in Alarms |->
            [scope[p] EXCEPT !.counted = IF p = th[1] THEN @ + 1 ELSE @]]
      BY <1>3 DEF BreakerStrikes
    <3> QED BY <1>0, <3>1 DEF Scopes
  <2>2. UNCHANGED <<memoryGeneration, work>> /\ breaker.holder = th
        /\ breaker.stage = "strike"
    BY <1>3 DEF BreakerStrikes
  <2>3. breaker'.holder = th /\ breaker'.stage = "policy"
    <3>1. breaker \in [holder : Threads \cup {NoThread},
                       stage : {"free", "strike", "policy", "seal", "rearm"},
                       sealed : BOOLEAN, delay : Nat]
      BY DEF IncidentInv, TypeInv, TypeOK
    <3> QED BY <1>3, <2>2, <3>1 DEF BreakerStrikes
  <2>4. GenerationOK'
    BY <2>1, <2>2, HistoryType DEF IncidentInv, GenerationOK
  <2>5. Waiting(breaker.holder)'
    BY <1>0, <2>1, <2>2, <2>3 DEF Waiting, IncidentInv, BreakerOK
  <2>6. \A p \in Alarms : /\ scope'[p].counted <= 1
                          /\ scope'[p].struck \/ scope'[p].counted = 0
    BY <1>0, <2>1, <2>2 DEF IncidentInv, BreakerOK
  <2>7. BreakerOK'
    BY <1>0, <2>1, <2>2, <2>3, <2>5, <2>6 DEF IncidentInv, BreakerOK
  <2> QED BY <2>4, <2>7 DEF IncidentInv
<1>4. CASE BreakerDecides(th) \/ BreakerSeals(th)
  <2>1. Same /\ Phase
    <3>1. CASE BreakerDecides(th)
      <4>1. \A q \in Alarms : \E X : scope'[q] = Outdated(scope[q], X)
        BY <3>1 DEF BreakerDecides, MarkScopes
      <4>2. ASSUME NEW q \in Alarms
            PROVE  SameHistory(scope[q], scope'[q]) /\ scope'[q].pc = scope[q].pc
        <5>1. PICK X : scope'[q] = Outdated(scope[q], X)
          BY <4>1
        <5> QED BY <1>0, <5>1, OutdatedHistory, ScopeType
      <4> QED BY <4>2
    <3>2. CASE BreakerSeals(th)
      BY <3>2 DEF BreakerSeals, SameHistory
    <3> QED BY <1>4, <3>1, <3>2
  <2>2. UNCHANGED <<memoryGeneration, work>> /\ breaker.holder = th
        /\ breaker.stage # "free"
    BY <1>4 DEF BreakerDecides, BreakerSeals
  <2>3. breaker'.holder = th /\ breaker'.stage \in {"seal", "rearm"}
    <3>1. breaker \in [holder : Threads \cup {NoThread},
                       stage : {"free", "strike", "policy", "seal", "rearm"},
                       sealed : BOOLEAN, delay : Nat]
      BY DEF IncidentInv, TypeInv, TypeOK
    <3> QED BY <1>4, <2>2, <3>1 DEF BreakerDecides, BreakerSeals
  <2>4. GenerationOK'
    BY <2>1, <2>2 DEF IncidentInv, GenerationOK, SameHistory
  <2>5. Waiting(breaker.holder)'
    BY <1>0, <2>1, <2>2, <2>3 DEF Waiting, IncidentInv, BreakerOK
  <2>6. BreakerOK'
    BY <1>0, <2>1, <2>2, <2>3, <2>5 DEF IncidentInv, BreakerOK, SameHistory
  <2> QED BY <2>4, <2>6 DEF IncidentInv
<1> QED BY <1>1, <1>2, <1>3, <1>4 DEF Breaker

(* A new isolate knows of no incident.                                      *)
LEMMA FreshIncidents ==
  ASSUME TypeInv, scope = [p \in Alarms |-> Idle(NewScope(0))], breaker = Free,
         memoryGeneration = 0
  PROVE  IncidentInv
<1>1. \A p \in Alarms : /\ ~scope[p].struck /\ ~scope[p].hit
                        /\ scope[p].counted = 0 /\ scope[p].generation = 0
  BY DEF Idle, NewScope
<1> QED BY <1>1 DEF IncidentInv, BreakerOK, GenerationOK, Free

(* Every step keeps the lock and the generations in order.                  *)
LEMMA IncidentNext == IncidentInv /\ [Next]_vars => IncidentInv'
<1> SUFFICES ASSUME IncidentInv, [Next]_vars PROVE IncidentInv'
  OBVIOUS
<1>1. TypeInv'
  BY TypeNext DEF IncidentInv
<1>2. CASE AllMove
  BY <1>1, <1>2, IncidentMoves
<1>3. ASSUME NEW th \in Threads, Breaker(th) PROVE IncidentInv'
  BY <1>1, <1>3, IncidentBreaker
<1>4. CASE Crash \/ Reset
  <2>1. /\ scope' = [p \in Alarms |-> Idle(NewScope(0))] /\ breaker' = Free
        /\ memoryGeneration' = 0
    BY <1>4 DEF Crash, Reset, Forget
  <2>2. \A p \in Alarms : /\ ~scope'[p].struck /\ ~scope'[p].hit
                          /\ scope'[p].counted = 0 /\ scope'[p].generation = 0
    BY <2>1 DEF Idle, NewScope
  <2> QED BY <1>1, <2>1, <2>2 DEF IncidentInv, BreakerOK, GenerationOK, Free
<1> QED BY <1>2, <1>3, <1>4, StepsMove DEF IncidentInv

(* Initially nobody has run out of memory.                                  *)
LEMMA IncidentInit == Init => IncidentInv
BY TypeInit, FreshIncidents DEF Init

(* The strikes change at a strike, at a seal, and when an invocation or a   *)
(* handoff clears them.                                                     *)
LEMMA StrikesChange ==
  ASSUME TypeInv, [Next]_vars, strikes' # strikes
  PROVE  \/ \E p \in Alarms : AlarmClears(p) \/ WorkClears(p)
         \/ \E th \in Threads : BreakerStrikes(th) \/ BreakerSeals(th)
<1>1. ~Operations
  BY OperationsAre DEF Operation
<1>2. /\ ~StartBegin /\ ~Starting /\ ~Tick /\ ~UNCHANGED vars /\ ~Crash
      /\ ~Reset
      /\ \A j \in Jobs : ~OperationRearms(j)
      /\ \A k \in StartupFailures : ~StartFails(k)
  BY DEF StartBegin, Starting, HookRearms, StartDone, Tick, vars, Crash, Reset,
     Forget, OperationRearms, StartFails, durable
<1>3. ASSUME NEW p \in Alarms,
             \/ AlarmFires(p) \/ Invocation(p) \/ Settles(p) \/ Track(p)
             \/ \E r \in {"fail", "oom"} : HostAlarm(p, r)
             \/ WorkEnds(p)
      PROVE  AlarmClears(p) \/ WorkClears(p)
  BY <1>3 DEF AlarmFires, Settles, JobReturns, JobAborts, JobOoms, Track, WorkEnds,
     WorkSettles, HostAlarm, Invocation, Snapshot, ArmDeadman, Claim,
     DropUnhandled, LoopEnds, AlarmRaises, AlarmReturns, durable
<1>4. ASSUME NEW th \in Threads, Breaker(th)
      PROVE  BreakerStrikes(th) \/ BreakerSeals(th)
  BY <1>4 DEF Breaker, BreakerSkips, BreakerEnters, BreakerDecides,
     BreakerLeaves, durable
<1> QED BY <1>1, <1>2, <1>3, <1>4 DEF Next, Work

(* However many alarms and handoffs overlap: an invocation of alarm() costs *)
(* at most one strike, whether its handler, its handoff or both exhaust the *)
(* memory (incident.memory_struck under the strike lock).                   *)
THEOREM OneStrike == Spec => []OneStrikePerAlarm
<1>1. IncidentInv => OneStrikePerAlarm
  BY DEF IncidentInv, BreakerOK, OneStrikePerAlarm
<1> QED BY <1>1, IncidentInit, IncidentNext, PTL DEF Spec

(* An alarm that was under way when an incident began never wipes out its   *)
(* strike: not when it ends, and not through its handoff, whatever else     *)
(* began or ended in between (the generation _clear_strikes_if_quiescent    *)
(* compares).                                                               *)
THEOREM StrikesAreKept == Spec => CleanAlarmKeepsStrike
<1> DEFINE Kept ==
      \A p \in Alarms : Clears(p) /\ scope[p].hit => strikes' = strikes
<1>1. IncidentInv /\ [Next]_vars => [Kept]_vars
  <2> SUFFICES ASSUME IncidentInv, [Next]_vars, NEW p \in Alarms, Clears(p),
                      scope[p].hit, strikes' # strikes
               PROVE  FALSE
    OBVIOUS
  <2>0. /\ scope \in [Alarms -> Scopes] /\ work \in [Alarms -> Works]
        /\ scope[p].generation < memoryGeneration
        /\ scope[p].generation \in Nat /\ memoryGeneration \in Nat
    BY HistoryType DEF IncidentInv, TypeInv, TypeOK, GenerationOK
  <2>1. ASSUME NEW q \in Alarms, AlarmClears(q) PROVE FALSE
    <3>1. scope' = [scope EXCEPT ![q] = [scope[q] EXCEPT !.pc = "rearm"]]
          /\ UNCHANGED work
      BY <2>1 DEF AlarmClears
    <3>2. p = q
      BY <2>0, <3>1 DEF Clears
    <3> QED BY <2>0, <2>1, <3>2 DEF AlarmClears, StrikesAfterClear
  <2>2. ASSUME NEW q \in Alarms, WorkClears(q) PROVE FALSE
    <3>1. work' = [work EXCEPT ![q] = NoWork] /\ UNCHANGED scope
      BY <2>2 DEF WorkClears
    <3>2. p = q
      BY <2>0, <3>1 DEF Clears
    <3> QED BY <2>0, <2>2, <3>2 DEF WorkClears, StrikesAfterClear
  <2>3. ASSUME NEW th \in Threads, BreakerStrikes(th) \/ BreakerSeals(th)
        PROVE  FALSE
    <3>1. UNCHANGED work /\ scope'[p].pc = scope[p].pc
      <4>1. CASE BreakerStrikes(th)
        <5>1. scope'[p] =
                [scope[p] EXCEPT !.counted = IF p = th[1] THEN @ + 1 ELSE @]
          BY <4>1 DEF BreakerStrikes
        <5> QED BY <2>0, <4>1, <5>1 DEF Scopes, BreakerStrikes
      <4>2. CASE BreakerSeals(th)
        BY <4>2 DEF BreakerSeals
      <4> QED BY <2>3, <4>1, <4>2
    <3> QED BY <3>1 DEF Clears
  <2> QED BY <2>1, <2>2, <2>3, StrikesChange DEF IncidentInv
<1> QED BY <1>1, IncidentInit, IncidentNext, PTL DEF Spec, CleanAlarmKeepsStrike

-----------------------------------------------------------------------------
(* The physical alarm.  What an operation still owes is performed by the    *)
(* startup it ran in; no alarm is in delivery when the isolate is reset; an *)
(* invocation that got past startup finds it done, and one that still owns  *)
(* the alarm in delivery has no handoff and no claims, and is struck only   *)
(* while it holds the strike lock itself.                                   *)
OwedOK ==
  /\ life = "cold" => pending = {}
  /\ life = "starting" /\ pending # {} => rearmRequested
  /\ resetPending => delivery = NoSlot
DeliveryOK ==
  \A p \in Alarms :
    /\ scope[p].pc \in Past \/ work[p].pc # "none" => life = "ready"
    /\ delivery = p =>
         /\ work[p].pc = "none" /\ scope[p].pc \notin Claiming
         /\ scope[p].struck =>
              breaker.stage # "free" /\ breaker.holder = <<p, "alarm">>

ArmedInv == IncidentInv /\ AckedJobsAreArmed /\ OwedOK /\ DeliveryOK

(* What the breaker does to the phases of the slots.                        *)
LEMMA BreakerPhases ==
  ASSUME TypeInv, NEW th \in Threads, Breaker(th), NEW q \in Alarms
  PROVE  /\ scope'[q].pc = scope[q].pc \/ scope'[q].pc = "idle"
         /\ work'[q].pc = work[q].pc \/ work'[q].pc = "none"
         /\ scope'[q].struck => \/ scope[q].struck
                                \/ BreakerEnters(th) /\ q = th[1]
<1>1. /\ scope \in [Alarms -> Scopes] /\ work \in [Alarms -> Works]
      /\ scope[q] \in Scopes /\ th[1] \in Alarms
  BY DEF TypeInv, TypeOK, Threads
<1>2. CASE BreakerSkips(th) \/ BreakerLeaves(th)
  <2>1. Leave(th)
    BY <1>2 DEF BreakerSkips, BreakerLeaves
  <2>2. CASE th[2] = "alarm"
    <3>1. scope' = [scope EXCEPT ![th[1]] =
                      [Idle(scope[th[1]]) EXCEPT !.finished = TRUE]]
          /\ UNCHANGED work
      BY <2>1, <2>2 DEF Leave
    <3> QED BY <1>1, <3>1 DEF Idle, Scopes
  <2>3. CASE th[2] # "alarm"
    BY <1>1, <2>1, <2>3, NoWorkType DEF Leave
  <2> QED BY <2>2, <2>3
<1>3. CASE BreakerEnters(th)
  <2>1. scope'[q] = [scope[q] EXCEPT !.hit = TRUE, !.struck = @ \/ q = th[1]]
        /\ UNCHANGED work
    BY <1>3 DEF BreakerEnters
  <2> QED BY <1>1, <1>3, <2>1 DEF Scopes
<1>4. CASE BreakerStrikes(th)
  <2>1. scope'[q] = [scope[q] EXCEPT !.counted = IF q = th[1] THEN @ + 1 ELSE @]
        /\ UNCHANGED work
    BY <1>4 DEF BreakerStrikes
  <2> QED BY <1>1, <2>1 DEF Scopes
<1>5. CASE BreakerDecides(th)
  <2>1. PICK X : scope'[q] = Outdated(scope[q], X)
    BY <1>5 DEF BreakerDecides, MarkScopes
  <2> QED BY <1>1, <1>5, <2>1, ScopeType, OutdatedHistory
          DEF SameHistory, BreakerDecides
<1>6. CASE BreakerSeals(th)
  BY <1>6 DEF BreakerSeals
<1> QED BY <1>2, <1>3, <1>4, <1>5, <1>6 DEF Breaker

(* Once startup is over a rearm leaves an alarm if it leaves a row.         *)
LEMMA RearmCovers ==
  ASSUME TypeInv, Rearm(rows), life # "starting"
  PROVE  /\ \A j \in Jobs : Present(rows, j) => alarm' # NoAlarm
         /\ delivery' = NoSlot /\ UNCHANGED rearmRequested
<1>1. rows \in Tables /\ clock \in Nat
  BY DEF TypeInv, TypeOK
<1> QED BY <1>1, NextAlarmExists, NoAlarmAssumption, NoTimeAssumption DEF Rearm

(* So does the rearm a startup owes.                                        *)
LEMMA OwedCovers ==
  ASSUME TypeInv, RearmOwed, rearmRequested
  PROVE  \A j \in Jobs : Present(rows, j) => alarm' # NoAlarm
<1>1. rows \in Tables /\ clock \in Nat
  BY DEF TypeInv, TypeOK
<1> QED BY <1>1, NextAlarmExists, NoAlarmAssumption, NoTimeAssumption
        DEF RearmOwed

(* No statement but a push makes a row.                                     *)
NoneAppears(t, u) == \A j \in Jobs : Present(u, j) => Present(t, j)
LEMMA StatementsShrink ==
  ASSUME NEW t \in Tables, NEW j, NEW time, NEW r, NEW b
  PROVE  /\ NoneAppears(t, Delete(t, j)) /\ NoneAppears(t, ClearIntent(t, j, r))
         /\ Present(t, j) => NoneAppears(t, Reschedule(t, j, time))
                             /\ NoneAppears(t, MarkRunning(t, j, time))
         /\ NoneAppears(t, DeleteIntent(t, j, r, b))
         /\ NoneAppears(t, RetimeIntent(t, j, r, time, b))
BY DEF Tables, NoneAppears, Present, Delete, ClearIntent, Reschedule,
   MarkRunning, DeleteIntent, RetimeIntent, IntentGuard

(* Nor does the policy of the breaker.                                      *)
LEMMA PolicyShrinks ==
  ASSUME TypeInv, NEW th
  PROVE  NoneAppears(rows, PolicyRows(th))
<1> DEFINE r    == PolicyRow(th)
           next == clock + breaker.delay
           must == th[2] = "alarm"
           own  == IF r.job = NoJob \/ ~VersionMatches(r.job, r.version) THEN rows
                   ELSE IF breaker.sealed THEN DeleteIntent(rows, r.job, r.row, must)
                   ELSE RetimeIntent(rows, r.job, r.row, next, must)
<1>1. NoneAppears(rows, own)
  <2>1. rows \in Tables
    BY DEF TypeInv, TypeOK
  <2>2. /\ NoneAppears(rows, DeleteIntent(rows, r.job, r.row, must))
        /\ NoneAppears(rows, RetimeIntent(rows, r.job, r.row, next, must))
    BY <2>1, StatementsShrink
  <2> QED BY <2>2 DEF NoneAppears
<1>2. /\ NoneAppears(own, PurgeRecoveryLoopJobs(own))
      /\ NoneAppears(own, DelayRecoveryLoopJobs(own, next))
  <2> HIDE DEF own, next
  <2> QED BY DEF NoneAppears, PurgeRecoveryLoopJobs, DelayRecoveryLoopJobs, Present
<1>3. PolicyRows(th) = IF breaker.sealed THEN PurgeRecoveryLoopJobs(own)
                       ELSE DelayRecoveryLoopJobs(own, next)
  BY DEF PolicyRows
<1> QED
  <2> HIDE DEF own, next
  <2>1. PICK u : PolicyRows(th) = u /\ NoneAppears(own, u)
    BY <1>2, <1>3
  <2> QED BY <1>1, <2>1 DEF NoneAppears

(* The steps of an invocation make no row either.                           *)
LEMMA InvocationShrinks ==
  ASSUME TypeInv, NEW p \in Alarms,
         Invocation(p) \/ Settles(p)
  PROVE  NoneAppears(rows, rows')
<1>1. rows \in Tables /\ scope[p] \in Scopes
  BY DEF TypeInv, TypeOK
<1>2. CASE Claim(p) \/ DropUnhandled(p)
  <2>1. PICK j : \/ rows' = Delete(rows, j)
                 \/ Present(rows, j) /\ rows' = MarkRunning(rows, j, ClaimTime(p))
    BY <1>2 DEF Claim, DropUnhandled, ClaimAt, Eligible, IsDue
  <2> QED BY <1>1, <2>1, StatementsShrink
<1>3. ASSUME NEW outcome \in Outcomes(RescheduleTo), JobReturns(p, outcome)
      PROVE  NoneAppears(rows, rows')
  <2>1. CASE rows' = rows
    BY <2>1 DEF NoneAppears
  <2>2. CASE rows' = ApplyOutcome(rows, scope[p].job, scope[p].row, outcome)
    <3>1. outcome.kind \in {"done", "yield", "reschedule"}
      BY DEF Outcomes
    <3> QED BY <1>1, <2>2, <3>1, StatementsShrink DEF ApplyOutcome
  <2> QED BY <1>3, <2>1, <2>2 DEF JobReturns
<1>4. CASE JobAborts(p)
  <2>1. \/ rows' = rows
        \/ rows' = ClearIntent(rows, scope[p].job, scope[p].row)
    BY <1>4 DEF JobAborts
  <2> QED BY <1>1, <2>1, StatementsShrink DEF NoneAppears
<1>5. ASSUME UNCHANGED rows PROVE NoneAppears(rows, rows')
  BY <1>5 DEF NoneAppears
<1>6. CASE \/ Snapshot(p) \/ ArmDeadman(p) \/ LoopEnds(p) \/ AlarmRaises(p)
           \/ AlarmClears(p) \/ AlarmReturns(p) \/ HostAlarm(p, "clear")
           \/ WorkClears(p) \/ JobOoms(p)
  BY <1>5, <1>6 DEF Snapshot, ArmDeadman, LoopEnds, AlarmRaises, AlarmClears,
     AlarmReturns, HostAlarm, WorkClears, JobOoms, durable
<1> QED BY <1>2, <1>3, <1>4, <1>6 DEF Invocation, Settles

(* A step that touches neither the alarm nor what is owed.                  *)
LEMMA SteadyArmed ==
  ASSUME ArmedInv, UNCHANGED <<alarm, pending, acked, life, rearmRequested>>,
         NoneAppears(rows, rows')
  PROVE  /\ AckedJobsAreArmed'
         /\ (life = "cold" => pending = {})'
         /\ (life = "starting" /\ pending # {} => rearmRequested)'
<1>1. acked \subseteq Jobs
  BY DEF ArmedInv, IncidentInv, TypeInv, TypeOK
<1> QED BY <1>1 DEF ArmedInv, OwedOK, AckedJobsAreArmed, NoneAppears

(* A step that looks at the whole table and leaves an alarm for it.         *)
LEMMA CoveredArmed ==
  ASSUME ArmedInv, UNCHANGED rows, acked' \subseteq Jobs,
         \A j \in Jobs : Present(rows, j) => alarm' # NoAlarm
  PROVE  AckedJobsAreArmed'
BY DEF AckedJobsAreArmed, Present

Covered ==
  /\ AckedJobsAreArmed'
  /\ (life = "cold" => pending = {})'
  /\ (life = "starting" /\ pending # {} => rearmRequested)'

(* Startup performs what the operations within it owe.                      *)
LEMMA StartupCovers ==
  ASSUME ArmedInv, \/ StartBegin \/ Starting
                   \/ \E k \in StartupFailures : StartFails(k)
  PROVE  Covered
<1>1. acked \subseteq Jobs /\ pending \subseteq Jobs /\ TypeInv
  BY DEF ArmedInv, IncidentInv, TypeInv, TypeOK
<1>2. CASE StartBegin
  BY <1>2 DEF StartBegin, Covered, ArmedInv, OwedOK, AckedJobsAreArmed, durable,
     operation
<1>3. CASE HookRearms
  BY <1>3 DEF HookRearms, Covered, ArmedInv, OwedOK, AckedJobsAreArmed, durable,
     operation
<1>4. ASSUME RearmOwed, UNCHANGED rows, life = "starting",
             acked' = acked \/ acked' = acked \cup pending
      PROVE  AckedJobsAreArmed'
  <2>1. CASE rearmRequested
    BY <1>1, <1>4, <2>1, OwedCovers, CoveredArmed
  <2>2. CASE ~rearmRequested
    <3>1. acked' = acked /\ UNCHANGED alarm
      BY <1>4, <2>2 DEF RearmOwed, ArmedInv, OwedOK
    <3> QED BY <1>4, <3>1 DEF ArmedInv, AckedJobsAreArmed
  <2> QED BY <2>1, <2>2
<1>5. CASE StartDone
  <2>1. AckedJobsAreArmed'
    BY <1>4, <1>5 DEF StartDone
  <2> QED BY <1>5, <2>1 DEF StartDone, Covered
<1>6. ASSUME NEW k \in StartupFailures, StartFails(k) PROVE Covered
  <2>1. AckedJobsAreArmed'
    BY <1>4, <1>6 DEF StartFails
  <2> QED BY <1>6, <2>1 DEF StartFails, Covered
<1> QED BY <1>2, <1>3, <1>5, <1>6 DEF Starting

(* An operation acknowledges its job only with the rearm it owes.           *)
LEMMA OperationCovers ==
  ASSUME ArmedInv, NEW j \in Jobs, NEW t, NEW taken, Operation(j, t, taken),
         acked' \subseteq acked,
         \A k \in acked' : Present(t, k) => Present(rows, k)
  PROVE  Covered
<1>1. /\ rows' = t /\ UNCHANGED <<alarm, life>> /\ life \in {"starting", "ready"}
      /\ rearmRequested' = (rearmRequested \/ life = "starting")
  BY DEF Operation, CanOperate, OweRearm
<1>2. AckedJobsAreArmed'
  BY <1>1 DEF ArmedInv, AckedJobsAreArmed
<1> QED BY <1>1, <1>2 DEF Covered

(* The operations of the queue.                                             *)
LEMMA OperationsCover == ArmedInv /\ Operations => Covered
<1> SUFFICES ASSUME ArmedInv, Operations PROVE Covered
  OBVIOUS
<1>1. rows \in Tables /\ acked \subseteq Jobs
  BY DEF ArmedInv, IncidentInv, TypeInv, TypeOK
<1>2. ASSUME NEW j \in Jobs, NEW o \in Owners, NEW opt \in PushOptions,
             NEW time \in RescheduleTo, PushJob(o, j, opt, time)
      PROVE  Covered
  <2> DEFINE t == Push(rows, o, j, opt, time)
  <2>1. \A k \in acked' : Present(t, k) => Present(rows, k)
    BY <1>1, <1>2 DEF PushJob, Push, Present, Tables
  <2>2. acked' \subseteq acked /\ Operation(j, t, TRUE)
    BY <1>2 DEF PushJob
  <2> HIDE DEF t
  <2> QED BY <2>1, <2>2, OperationCovers
<1>3. ASSUME NEW j \in Jobs, NEW o \in Owners, CancelJob(o, j) PROVE Covered
  <2>1. PICK t, taken : Operation(j, t, taken) /\ t \in {rows, Delete(rows, j)}
    BY <1>3 DEF CancelJob
  <2>2. \A k \in acked : Present(t, k) => Present(rows, k)
    BY <1>1, <2>1 DEF Delete, Present, Tables
  <2> QED BY <1>3, <2>1, <2>2, OperationCovers DEF CancelJob
<1>4. ASSUME NEW j \in Jobs, NEW o \in Owners, NEW time \in RescheduleTo,
             RescheduleJob(o, j, time)
      PROVE  Covered
  <2>1. Operation(j, Reschedule(rows, j, time), TRUE) /\ Present(rows, j)
    BY <1>4 DEF RescheduleJob, Owned
  <2>2. \A k \in acked : Present(Reschedule(rows, j, time), k) => Present(rows, k)
    BY <1>1, <2>1 DEF Reschedule, Present, Tables
  <2> QED BY <1>4, <2>1, <2>2, OperationCovers DEF RescheduleJob
<1> QED BY <1>2, <1>3, <1>4 DEF Operations

(* So do the rearms of the operations, the invocations and the breaker.     *)
LEMMA RearmsCover ==
  ASSUME ArmedInv,
         \/ \E j \in Jobs : OperationRearms(j)
         \/ \E p \in Alarms : ArmDeadman(p) \/ AlarmRaises(p) \/ AlarmReturns(p)
         \/ \E th \in Threads : BreakerSkips(th) \/ BreakerLeaves(th)
  PROVE  Covered
<1>1. /\ acked \subseteq Jobs /\ pending \subseteq Jobs /\ TypeInv
      /\ life \in {"cold", "starting", "ready"}
  BY DEF ArmedInv, IncidentInv, TypeInv, TypeOK
<1>2. ASSUME UNCHANGED <<life, rows>>, acked' \subseteq Jobs, life # "starting",
             Rearm(rows), pending' \subseteq pending
      PROVE  Covered
  <2>1. \A j \in Jobs : Present(rows, j) => alarm' # NoAlarm
    BY <1>1, <1>2, RearmCovers
  <2>2. AckedJobsAreArmed'
    BY <1>2, <2>1, CoveredArmed
  <2> QED BY <1>2, <2>2 DEF Covered, ArmedInv, OwedOK
<1>3. ASSUME UNCHANGED <<life, rows, pending, acked, alarm>>,
             rearmRequested' = rearmRequested \/ rearmRequested' = TRUE
      PROVE  Covered
  BY <1>3 DEF Covered, ArmedInv, OwedOK, AckedJobsAreArmed, Present
<1>4. ASSUME NEW j \in Jobs, OperationRearms(j) PROVE Covered
  BY <1>1, <1>2, <1>4 DEF OperationRearms
<1>5. ASSUME NEW p \in Alarms, ArmDeadman(p) PROVE Covered
  <2>1. alarm' # NoAlarm
    <3>1. scope[p].inv \in Nat
      BY <1>1 DEF TypeInv, TypeOK, Scopes
    <3>2. alarm' \in Nat
      BY <1>5, <3>1, DriverAssumption DEF ArmDeadman
    <3> QED BY <3>2, NoAlarmAssumption
  <2>2. UNCHANGED <<life, rows, pending, acked, rearmRequested>>
    BY <1>5 DEF ArmDeadman, startup, operation
  <2> QED BY <2>1, <2>2 DEF Covered, ArmedInv, OwedOK, AckedJobsAreArmed
<1>6. ASSUME NEW p \in Alarms, AlarmRaises(p) PROVE Covered
  <2>1. UNCHANGED <<life, rows, pending, acked>>
    BY <1>6 DEF AlarmRaises, operation
  <2>2. CASE life = "starting"
    BY <1>3, <1>6, <2>1, <2>2 DEF AlarmRaises
  <2>3. CASE life # "starting"
    BY <1>1, <1>2, <1>6, <2>1, <2>3 DEF AlarmRaises
  <2> QED BY <2>2, <2>3
<1>7. ASSUME NEW p \in Alarms, AlarmReturns(p) PROVE Covered
  <2>1. UNCHANGED <<life, rows, pending, acked>> /\ scope[p].pc = "rearm"
    BY <1>7 DEF AlarmReturns, operation
  <2>2. life = "ready"
    BY <2>1 DEF ArmedInv, DeliveryOK, Past
  <2> QED BY <1>1, <1>2, <1>7, <2>1, <2>2 DEF AlarmReturns, RearmAndReturn
<1>8. ASSUME NEW th \in Threads, BreakerSkips(th) PROVE Covered
  <2>1. UNCHANGED <<life, rows, pending, acked, rearmRequested>>
        /\ breaker = Free /\ scope[th[1]].struck /\ th[1] \in Alarms
    BY <1>8 DEF BreakerSkips, MayStrike, operation, startup, Threads
  <2>2. delivery # th[1]
    BY <2>1 DEF ArmedInv, DeliveryOK, Free
  <2> QED BY <1>3, <1>8, <2>1, <2>2 DEF BreakerSkips
<1>9. ASSUME NEW th \in Threads, BreakerLeaves(th) PROVE Covered
  <2>1. UNCHANGED <<life, rows, pending, acked>> /\ breaker.holder = th
        /\ breaker.stage = "rearm" /\ th[1] \in Alarms
    BY <1>9 DEF BreakerLeaves, operation, Threads
  <2>2. Waiting(th)
    BY <2>1 DEF ArmedInv, IncidentInv, BreakerOK
  <2>3. life = "ready"
    BY <2>1, <2>2 DEF ArmedInv, DeliveryOK, Waiting, Past
  <2> QED BY <1>1, <1>2, <1>9, <2>1, <2>3 DEF BreakerLeaves, RearmAndReturn
<1> QED BY <1>4, <1>5, <1>6, <1>7, <1>8, <1>9

(* A crash keeps the alarm, and a reset finds none in delivery.             *)
LEMMA ForgetCovers == ArmedInv /\ (Crash \/ Reset) => Covered
BY DEF Crash, Reset, Forget, Covered, ArmedInv, OwedOK, AckedJobsAreArmed

(* Every other step is a steady one.                                        *)
LEMMA StepsCover ==
  ASSUME ArmedInv, [Next]_vars
  PROVE  Covered
<1>0. TypeInv
  BY DEF ArmedInv, IncidentInv
<1>1. ASSUME UNCHANGED <<alarm, pending, acked, life, rearmRequested>>,
             NoneAppears(rows, rows')
      PROVE  Covered
  BY <1>1, SteadyArmed DEF Covered
<1>2. ASSUME UNCHANGED <<alarm, pending, acked, life, rearmRequested, rows>>
      PROVE  Covered
  BY <1>1, <1>2 DEF NoneAppears
<1>3. CASE Tick \/ UNCHANGED vars
  BY <1>2, <1>3 DEF Tick, vars, durable, startup, operation
<1>4. ASSUME NEW p \in Alarms, Invocation(p) \/ Settles(p) PROVE Covered
  <2>1. CASE ArmDeadman(p) \/ AlarmRaises(p) \/ AlarmReturns(p)
    BY <2>1, RearmsCover
  <2>2. CASE ~(ArmDeadman(p) \/ AlarmRaises(p) \/ AlarmReturns(p))
    <3>1. UNCHANGED <<alarm, pending, acked, life, rearmRequested>>
      BY <1>4, <2>2 DEF Invocation, Snapshot, Claim, DropUnhandled, LoopEnds,
         AlarmClears, HostAlarm, WorkClears, Settles, JobReturns, JobAborts,
         JobOoms, durable, startup, operation
    <3> QED BY <1>0, <1>1, <1>4, <3>1, InvocationShrinks
  <2> QED BY <2>1, <2>2
<1>5. ASSUME NEW p \in Alarms,
             \/ AlarmFires(p) \/ Track(p) \/ WorkEnds(p)
             \/ \E r \in {"fail", "oom"} : HostAlarm(p, r)
      PROVE  Covered
  BY <1>2, <1>5 DEF AlarmFires, Track, WorkEnds, WorkSettles, HostAlarm,
     durable, startup, operation
<1>6. ASSUME NEW th \in Threads, Breaker(th) PROVE Covered
  <2>1. CASE BreakerSkips(th) \/ BreakerLeaves(th)
    BY <2>1, RearmsCover
  <2>2. CASE BreakerEnters(th) \/ BreakerStrikes(th) \/ BreakerSeals(th)
    BY <1>2, <2>2 DEF BreakerEnters, BreakerStrikes, BreakerSeals, durable,
       startup, operation
  <2>3. CASE BreakerDecides(th)
    BY <1>0, <1>1, <2>3, PolicyShrinks DEF BreakerDecides, startup, operation
  <2> QED BY <1>6, <2>1, <2>2, <2>3 DEF Breaker
<1> QED BY <1>3, <1>4, <1>5, <1>6, OperationsCover, StartupCovers, RearmsCover,
           ForgetCovers DEF Next, Work

(* A reset is queued only where nothing is in delivery, and stops further   *)
(* deliveries.                                                              *)
LEMMA ResetSteps ==
  ASSUME [Next]_vars
  PROVE  \/ resetPending' = resetPending /\ (NoneDelivered \/ ~resetPending)
         \/ Crash \/ Reset
         \/ \E th \in Threads : BreakerLeaves(th)
<1>1. CASE Operations
  BY <1>1, OperationsAre DEF Operation, NoneDelivered
<1>2. CASE \/ StartBegin \/ Starting \/ Tick \/ UNCHANGED vars
           \/ \E j \in Jobs : OperationRearms(j)
           \/ \E k \in StartupFailures : StartFails(k)
  BY <1>2 DEF StartBegin, Starting, HookRearms, StartDone, Tick, vars,
     OperationRearms, StartFails, RearmOwed, Rearm, NoneDelivered, durable
<1>3. ASSUME NEW p \in Alarms,
             \/ AlarmFires(p) \/ Invocation(p) \/ Settles(p) \/ Track(p)
             \/ \E r \in {"fail", "oom"} : HostAlarm(p, r)
             \/ WorkEnds(p)
      PROVE  resetPending' = resetPending /\ (NoneDelivered \/ ~resetPending)
  BY <1>3 DEF AlarmFires, Settles, JobReturns, JobAborts, JobOoms, Track, WorkEnds,
     WorkSettles, HostAlarm, Invocation, Snapshot, ArmDeadman, Claim,
     DropUnhandled, LoopEnds, AlarmRaises, AlarmClears, AlarmReturns, WorkClears,
     durable, Rearm, RearmAndReturn, NoneDelivered
<1>4. ASSUME NEW th \in Threads, Breaker(th), ~BreakerLeaves(th)
      PROVE  resetPending' = resetPending /\ NoneDelivered
  BY <1>4 DEF Breaker, BreakerSkips, BreakerEnters, BreakerStrikes,
     BreakerDecides, BreakerSeals, durable, NoneDelivered
<1> QED BY <1>1, <1>2, <1>3, <1>4 DEF Next, Work

(* The breaker keeps the delivery in order: when it leaves, nothing is in   *)
(* delivery any more.                                                       *)
LEMMA DeliveryBreaker ==
  ASSUME ArmedInv, NEW th \in Threads, Breaker(th)
  PROVE  DeliveryOK' /\ (BreakerLeaves(th) => delivery' = NoSlot)
<1>0. /\ TypeInv /\ th[1] \in Alarms /\ th = <<th[1], th[2]>>
      /\ th[2] \in {"alarm", "work"}
  BY DEF ArmedInv, IncidentInv, Threads
<1>1. life' = life
  BY DEF Breaker, BreakerSkips, BreakerEnters, BreakerStrikes, BreakerDecides,
     BreakerSeals, BreakerLeaves, startup
<1>2. ASSUME BreakerLeaves(th) PROVE delivery' = NoSlot
  <2>1. breaker.holder = th /\ breaker.stage = "rearm"
    BY <1>2 DEF BreakerLeaves
  <2>2. Waiting(th)
    BY <2>1 DEF ArmedInv, IncidentInv, BreakerOK
  <2>3. life = "ready"
    BY <1>0, <2>2 DEF ArmedInv, DeliveryOK, Waiting, Past
  <2> QED BY <1>0, <1>2, <2>3, RearmCovers DEF BreakerLeaves, RearmAndReturn
<1>3. NoneDelivered
  BY <1>2 DEF Breaker, BreakerSkips, BreakerEnters, BreakerStrikes,
     BreakerDecides, BreakerSeals, durable, NoneDelivered
<1>4. ASSUME NEW p \in Alarms
      PROVE  /\ scope'[p].pc \in Past \/ work'[p].pc # "none" => life' = "ready"
             /\ delivery' = p =>
                  /\ work'[p].pc = "none" /\ scope'[p].pc \notin Claiming
                  /\ scope'[p].struck =>
                       breaker'.stage # "free" /\ breaker'.holder = <<p, "alarm">>
  <2>1. /\ scope'[p].pc = scope[p].pc \/ scope'[p].pc = "idle"
        /\ work'[p].pc = work[p].pc \/ work'[p].pc = "none"
        /\ scope'[p].struck => \/ scope[p].struck
                               \/ BreakerEnters(th) /\ p = th[1]
    BY <1>0, BreakerPhases
  <2>2. scope'[p].pc \in Past \/ work'[p].pc # "none" => life' = "ready"
    BY <1>1, <2>1 DEF ArmedInv, DeliveryOK, Past
  <2>3. ASSUME delivery' = p
        PROVE  delivery = p /\ work[p].pc = "none" /\ scope[p].pc \notin Claiming
    BY <1>3, <2>3, NoSlotAssumption DEF NoneDelivered, ArmedInv, DeliveryOK
  <2>4. ASSUME delivery' = p, scope'[p].struck
        PROVE  breaker'.stage # "free" /\ breaker'.holder = <<p, "alarm">>
    <3>1. CASE scope[p].struck
      <4>1. breaker.stage # "free" /\ breaker.holder = <<p, "alarm">>
        BY <2>3, <2>4, <3>1 DEF ArmedInv, DeliveryOK
      <4>2. ~BreakerSkips(th) /\ ~BreakerEnters(th)
        <5>1. breaker # Free
          BY <4>1 DEF Free
        <5> QED BY <5>1 DEF BreakerSkips, BreakerEnters
      <4>3. ~BreakerLeaves(th)
        BY <1>2, <2>4, NoSlotAssumption
      <4>4. breaker \in [holder : Threads \cup {NoThread},
                         stage : {"free", "strike", "policy", "seal", "rearm"},
                         sealed : BOOLEAN, delay : Nat]
        BY <1>0 DEF TypeInv, TypeOK
      <4>5. breaker'.holder = breaker.holder /\ breaker'.stage # "free"
        BY <4>2, <4>3, <4>4 DEF Breaker, BreakerStrikes, BreakerDecides,
           BreakerSeals
      <4> QED BY <4>1, <4>5
    <3>2. CASE BreakerEnters(th) /\ p = th[1]
      <4>1. th[2] = "alarm"
        BY <1>0, <2>3, <2>4, <3>2 DEF BreakerEnters, Waiting
      <4> QED BY <1>0, <3>2, <4>1 DEF BreakerEnters, Free
    <3> QED BY <2>1, <2>4, <3>1, <3>2
  <2>5. scope'[p].pc \notin Claiming \/ delivery' # p
    BY <2>1, <2>3 DEF Claiming
  <2> QED BY <2>1, <2>2, <2>3, <2>4, <2>5
<1> QED BY <1>2, <1>4 DEF DeliveryOK

(* Every other step keeps the delivery in order, if no startup runs out of  *)
(* memory.                                                                  *)
LEMMA DeliveryMoves ==
  ASSUME ArmedInv, AllMove, "oom" \notin StartupFailures
  PROVE  DeliveryOK'
<1>1. ASSUME NEW p \in Alarms
      PROVE  /\ scope'[p].pc \in Past \/ work'[p].pc # "none" => life' = "ready"
             /\ delivery' = p =>
                  /\ work'[p].pc = "none" /\ scope'[p].pc \notin Claiming
                  /\ scope'[p].struck =>
                       breaker'.stage # "free" /\ breaker'.holder = <<p, "alarm">>
  <2>1. /\ Moves(p) /\ breaker' = breaker /\ (life = "ready" => life' = "ready")
    BY DEF AllMove
  <2>2. scope'[p].pc \in Past \/ work'[p].pc # "none" => life' = "ready"
    BY <2>1 DEF Moves, ArmedInv, DeliveryOK, Past
  <2>3. CASE delivery' = p /\ Begins(p)
    BY <2>2, <2>3 DEF Begins, Claiming
  <2>4. CASE delivery' = p /\ ~Begins(p)
    <3>1. delivery = p /\ SameHistory(scope[p], scope'[p])
      BY <2>1, <2>4 DEF Moves
    <3>2. /\ work[p].pc = "none" /\ scope[p].pc \notin Claiming
          /\ scope[p].struck =>
               breaker.stage # "free" /\ breaker.holder = <<p, "alarm">>
      BY <3>1 DEF ArmedInv, DeliveryOK
    <3>3. work'[p].pc = "none" /\ scope'[p].pc \notin Claiming
      BY <2>1, <2>4, <3>2 DEF Moves, Claiming
    <3> QED BY <2>1, <2>2, <3>1, <3>2, <3>3 DEF SameHistory
  <2> QED BY <2>2, <2>3, <2>4
<1> QED BY <1>1 DEF DeliveryOK

(* Every step keeps the invariant.                                          *)
LEMMA ArmedNext ==
  ASSUME ArmedInv, [Next]_vars, "oom" \notin StartupFailures
  PROVE  ArmedInv'
<1>1. IncidentInv' /\ Covered
  BY IncidentNext, StepsCover DEF ArmedInv
<1>2. CASE Crash \/ Reset
  <2>1. Idle(NewScope(0)).pc = "idle" /\ NoWork.pc = "none"
    BY NewScopeType, ScopeType, NoWorkType
  <2>2. \A p \in Alarms : scope'[p].pc = "idle" /\ work'[p].pc = "none"
    BY <1>2, <2>1 DEF Crash, Reset, Forget
  <2>3. delivery' = NoSlot
    BY <1>2 DEF Crash, Reset, Forget
  <2>4. DeliveryOK'
    BY <2>2, <2>3, NoSlotAssumption DEF DeliveryOK, Past
  <2> QED BY <1>1, <2>3, <2>4 DEF ArmedInv, OwedOK, Covered
<1>3. CASE ~(Crash \/ Reset)
  <2>1. DeliveryOK'
    BY <1>3, StepsMove, DeliveryMoves, DeliveryBreaker DEF ArmedInv, IncidentInv
  <2>2. resetPending' => delivery' = NoSlot
    <3>1. ASSUME NEW th \in Threads, BreakerLeaves(th) PROVE delivery' = NoSlot
      BY <3>1, DeliveryBreaker DEF Breaker
    <3> QED BY <1>3, <3>1, ResetSteps DEF ArmedInv, OwedOK, NoneDelivered
  <2> QED BY <1>1, <2>1, <2>2 DEF ArmedInv, OwedOK, Covered
<1> QED BY <1>2, <1>3

(* Initially no job has been acknowledged.                                  *)
LEMMA ArmedInit == Init => ArmedInv
<1> SUFFICES ASSUME Init PROVE ArmedInv
  OBVIOUS
<1>1. Idle(NewScope(0)).pc = "idle" /\ NoWork.pc = "none"
  BY NewScopeType, ScopeType, NoWorkType
<1>2. \A p \in Alarms : scope[p].pc = "idle" /\ work[p].pc = "none"
  BY <1>1 DEF Init
<1>3. DeliveryOK
  BY <1>2, NoSlotAssumption DEF DeliveryOK, Init, Past
<1> QED BY <1>3, IncidentInit DEF Init, ArmedInv, OwedOK, AckedJobsAreArmed

(* A job whose push has returned is never left without a physical alarm,    *)
(* for any number of jobs, overlapping alarms, crashes, resets and memory   *)
(* limits, as long as no startup itself runs out of memory: an alarm whose  *)
(* own startup does would be dropped without a rearm while the next startup *)
(* is under way.                                                            *)
THEOREM JobsStayArmed ==
  ASSUME "oom" \notin StartupFailures
  PROVE  Spec => []AckedJobsAreArmed
<1>1. ArmedInv /\ [Next]_vars => ArmedInv'
  BY ArmedNext
<1>2. ArmedInv => AckedJobsAreArmed
  BY DEF ArmedInv
<1> QED BY <1>1, <1>2, ArmedInit, PTL DEF Spec

-----------------------------------------------------------------------------
(* The versions that fence the policy.  A claim has a version of its own    *)
(* and hands it to its handoff; active counts the dispatches of a job, so   *)
(* that a newer intent of a job that runs always takes the version away.    *)
Dispatching(j) == {p \in Alarms : scope[p].pc = "dispatch" /\ scope[p].job = j}
ActiveOK == \A j \in Jobs : active[j] = Cardinality(Dispatching(j))

VersionOK ==
  /\ \A j \in Jobs : versions[j] <= mutationSequence
  /\ \A p \in Alarms :
       /\ scope[p].stale => scope[p].job # NoJob
       /\ scope[p].job # NoJob => scope[p].version \in 1..mutationSequence
       /\ IsTracked(p) => work[p].version \in 1..mutationSequence
       /\ \A q \in Alarms \ {p} : scope[q].job # NoJob =>
            /\ scope[p].job # NoJob => scope[p].version # scope[q].version
            /\ IsTracked(p) => work[p].version # scope[q].version

(* An outdated dispatch or handoff has lost its version, unless its job is  *)
(* a recovery-loop job or its own invocation was struck; a struck handoff   *)
(* never enters the breaker again.                                          *)
OutdatedOK ==
  \A p \in Alarms :
    /\ scope[p].pc = "dispatch" /\ scope[p].stale
         /\ VersionMatches(scope[p].job, scope[p].version)
         => scope[p].row.recoveryLoop \/ scope[p].struck
    /\ IsTracked(p) /\ work[p].stale
         /\ VersionMatches(work[p].job, work[p].version)
         => \/ work[p].row.recoveryLoop
            \/ /\ scope[p].struck
               /\ breaker.stage # "free" => breaker.holder # <<p, "work">>

VersionInv == FenceInv /\ IncidentInv /\ ActiveOK /\ VersionOK /\ OutdatedOK

(* A slot with a dispatch counts.                                           *)
LEMMA DispatchCounts ==
  ASSUME TypeInv, ActiveOK, NEW p \in Alarms, scope[p].pc = "dispatch"
  PROVE  scope[p].job \in Jobs /\ active[scope[p].job] > 0
<1>1. scope[p].job \in Jobs
  BY DEF TypeInv, TypeOK, ClaimOK, Scopes
<1>2. p \in Dispatching(scope[p].job)
  BY DEF Dispatching
<1>3. IsFiniteSet(Dispatching(scope[p].job))
  BY AlarmsAssumption, FS_Subset DEF Dispatching
<1>4. /\ Cardinality(Dispatching(scope[p].job)) \in Nat
      /\ Cardinality(Dispatching(scope[p].job)) # 0
  BY <1>2, <1>3, FS_EmptySet, FS_CardinalityType
<1> QED BY <1>1, <1>4 DEF ActiveOK

(* No dispatch begins or ends.                                              *)
LEMMA ActiveStays ==
  ASSUME ActiveOK, UNCHANGED active,
         \A q \in Alarms : /\ scope'[q].pc = "dispatch" <=> scope[q].pc = "dispatch"
                           /\ scope'[q].pc = "dispatch" => scope'[q].job = scope[q].job
  PROVE  ActiveOK'
<1>1. \A j : Dispatching(j)' = Dispatching(j)
  BY DEF Dispatching
<1> QED BY <1>1 DEF ActiveOK

(* One ends.                                                                *)
LEMMA ActiveEnds ==
  ASSUME TypeInv, ActiveOK, NEW p \in Alarms, scope[p].pc = "dispatch",
         active' = EndClaim(scope[p].job), scope'[p].pc # "dispatch",
         \A q \in Alarms \ {p} : scope'[q] = scope[q]
  PROVE  ActiveOK'
<1>0. PICK k \in Jobs : k = scope[p].job
  BY DispatchCounts
<1>1. active \in [Jobs -> Int]
  BY DEF TypeInv, TypeOK
<1>2. \A j : IsFiniteSet(Dispatching(j))
  BY AlarmsAssumption, FS_Subset DEF Dispatching
<1>3. Dispatching(k)' = Dispatching(k) \ {p} /\ p \in Dispatching(k)
  BY <1>0 DEF Dispatching
<1>4. Cardinality(Dispatching(k)') = Cardinality(Dispatching(k)) - 1
  BY <1>2, <1>3, FS_RemoveElement
<1>5. \A j \in Jobs \ {k} : Dispatching(j)' = Dispatching(j)
  BY <1>0 DEF Dispatching
<1>6. /\ active'[k] = active[k] - 1
      /\ \A j \in Jobs \ {k} : active'[j] = active[j]
  BY <1>0, <1>1 DEF EndClaim
<1> QED BY <1>1, <1>4, <1>5, <1>6 DEF ActiveOK

(* One begins.                                                              *)
LEMMA ActiveBegins ==
  ASSUME TypeInv, ActiveOK, NEW p \in Alarms, NEW k \in Jobs,
         scope[p].pc # "dispatch", active' = [active EXCEPT ![k] = @ + 1],
         scope'[p].pc = "dispatch", scope'[p].job = k,
         \A q \in Alarms \ {p} : /\ scope'[q].pc = scope[q].pc
                                 /\ scope'[q].job = scope[q].job
  PROVE  ActiveOK'
<1>1. active \in [Jobs -> Int]
  BY DEF TypeInv, TypeOK
<1>2. \A j : IsFiniteSet(Dispatching(j))
  BY AlarmsAssumption, FS_Subset DEF Dispatching
<1>3. Dispatching(k)' = Dispatching(k) \cup {p} /\ p \notin Dispatching(k)
  BY DEF Dispatching
<1>4. Cardinality(Dispatching(k)') = Cardinality(Dispatching(k)) + 1
  BY <1>2, <1>3, FS_AddElement
<1>5. \A j \in Jobs \ {k} : Dispatching(j)' = Dispatching(j)
  BY DEF Dispatching
<1>6. /\ active'[k] = active[k] + 1
      /\ \A j \in Jobs \ {k} : active'[j] = active[j]
  BY <1>1
<1> QED BY <1>4, <1>5, <1>6 DEF ActiveOK

(* A step drops versions or takes the next one.                             *)
VersionsStep ==
  /\ mutationSequence' \in {mutationSequence, mutationSequence + 1}
  /\ \A j \in Jobs : \/ versions'[j] \in {versions[j], 0}
                     \/ /\ versions'[j] = mutationSequence + 1
                        /\ mutationSequence' = mutationSequence + 1

(* A scope forgets its claim, keeps it, or has just made one.               *)
Forgotten(q) ==
  scope'[q].job = NoJob /\ ~scope'[q].stale /\ scope'[q].pc # "dispatch"
Kept(q) ==
  /\ scope'[q].job = scope[q].job /\ scope'[q].row = scope[q].row
  /\ scope'[q].version = scope[q].version
  /\ scope'[q].stale => scope[q].stale \/ scope[q].job # NoJob
  /\ scope'[q].pc = "dispatch" =>
       /\ scope[q].pc = "dispatch" /\ (scope[q].struck => scope'[q].struck)
       /\ scope'[q].stale =>
            \/ scope[q].stale \/ versions'[scope[q].job] # scope[q].version
            \/ scope[q].row.recoveryLoop \/ scope'[q].struck
Claimed(q) ==
  /\ scope'[q].job # NoJob /\ ~scope'[q].stale
  /\ scope'[q].version = mutationSequence + 1
  /\ mutationSequence' = mutationSequence + 1

(* A handoff ends, stays or is made of its dispatch.                        *)
StruckStays(q) == scope[q].struck => scope'[q].struck
HandoffStays(q) ==
  /\ IsTracked(q) /\ StruckStays(q)
  /\ work'[q].job = work[q].job /\ work'[q].row = work[q].row
  /\ work'[q].version = work[q].version
  /\ work'[q].stale => work[q].stale \/ versions'[work[q].job] # work[q].version
  /\ breaker'.stage # "free" /\ breaker'.holder = <<q, "work">> =>
       ~scope[q].struck \/ (breaker.stage # "free" /\ breaker.holder = <<q, "work">>)
HandoffMade(q) ==
  /\ scope[q].pc = "dispatch" /\ StruckStays(q)
  /\ work'[q].job = scope[q].job /\ work'[q].row = scope[q].row
  /\ work'[q].version = scope[q].version /\ work'[q].stale = scope[q].stale
  /\ breaker'.stage # "free" => breaker'.holder # <<q, "work">>
Carries(q) ==
  /\ Forgotten(q) \/ Kept(q) \/ Claimed(q)
  /\ IsTracked(q)' => HandoffStays(q) \/ HandoffMade(q)

(* The types the argument needs.                                            *)
LEMMA VersionType ==
  ASSUME TypeInv
  PROVE  /\ mutationSequence \in Nat /\ versions \in [Jobs -> Nat]
         /\ \A p \in Alarms :
              /\ scope[p] \in Scopes /\ work[p] \in Works
              /\ scope[p].version \in Nat /\ work[p].version \in Nat
              /\ scope[p].job # NoJob => scope[p].job \in Jobs
              /\ scope[p].pc = "dispatch" => scope[p].job \in Jobs
              /\ IsTracked(p) => work[p].job \in Jobs
BY DEF TypeInv, TypeOK, ClaimOK, IsTracked, Scopes, Works

(* A step that carries every slot along keeps the fence of versions.        *)
LEMMA VersionsCarried ==
  ASSUME VersionInv, TypeInv', VersionsStep, \A q \in Alarms : Carries(q),
         NEW claimer, \A q \in Alarms \ {claimer} : Forgotten(q) \/ Kept(q)
  PROVE  VersionOK' /\ OutdatedOK'
<1>0. \A q, r \in Alarms : Claimed(q) /\ Claimed(r) => q = r
  <2>1. mutationSequence \in Nat
    BY VersionType DEF VersionInv, FenceInv
  <2>2. \A q \in Alarms \ {claimer} : ~Claimed(q)
    BY <2>1 DEF Claimed, Forgotten, Kept, VersionInv, VersionOK
  <2> QED BY <2>2
<1>1. TypeInv
  BY DEF VersionInv, FenceInv
<1>2. mutationSequence \in Nat /\ versions \in [Jobs -> Nat]
      /\ \A p \in Alarms : scope[p].version \in Nat /\ work[p].version \in Nat
  BY <1>1, VersionType
<1>3. \A j \in Jobs : versions'[j] <= mutationSequence'
  BY <1>2 DEF VersionsStep, VersionInv, VersionOK
<1>4. ASSUME NEW p \in Alarms, scope'[p].job # NoJob, ~Claimed(p)
      PROVE  /\ Kept(p) /\ scope[p].job # NoJob
             /\ scope'[p].version = scope[p].version
             /\ scope[p].version \in 1..mutationSequence
  BY <1>4 DEF Carries, Forgotten, Kept, VersionInv, VersionOK
<1>5. ASSUME NEW p \in Alarms, IsTracked(p)'
      PROVE  /\ work'[p].version \in 1..mutationSequence
             /\ \A q \in Alarms \ {p} : scope[q].job # NoJob =>
                  work'[p].version # scope[q].version
  <2>1. CASE HandoffStays(p)
    BY <2>1 DEF HandoffStays, VersionInv, VersionOK
  <2>2. CASE HandoffMade(p)
    <3>1. scope[p].job # NoJob
      BY <1>1, <2>2 DEF HandoffMade, TypeInv, ClaimOK
    <3> QED BY <2>2, <3>1 DEF HandoffMade, VersionInv, VersionOK
  <2> QED BY <1>5, <2>1, <2>2 DEF Carries
<1>6. ASSUME NEW p \in Alarms
      PROVE  /\ scope'[p].stale => scope'[p].job # NoJob
             /\ scope'[p].job # NoJob => scope'[p].version \in 1..mutationSequence'
             /\ IsTracked(p)' => work'[p].version \in 1..mutationSequence'
             /\ \A q \in Alarms \ {p} : scope'[q].job # NoJob =>
                  /\ scope'[p].job # NoJob => scope'[p].version # scope'[q].version
                  /\ IsTracked(p)' => work'[p].version # scope'[q].version
  <2>1. scope'[p].stale => scope'[p].job # NoJob
    BY DEF Carries, Forgotten, Kept, Claimed, VersionInv, VersionOK
  <2>2. scope'[p].job # NoJob => scope'[p].version \in 1..mutationSequence'
    BY <1>2, <1>4 DEF Claimed, VersionsStep
  <2>3. IsTracked(p)' => work'[p].version \in 1..mutationSequence'
    BY <1>2, <1>5 DEF VersionsStep
  <2>4. ASSUME NEW q \in Alarms \ {p}, scope'[q].job # NoJob, scope'[p].job # NoJob
        PROVE  scope'[p].version # scope'[q].version
    BY <1>0, <1>2, <1>4, <2>4 DEF Claimed, VersionInv, VersionOK
  <2>5. ASSUME NEW q \in Alarms \ {p}, scope'[q].job # NoJob, IsTracked(p)'
        PROVE  work'[p].version # scope'[q].version
    BY <1>2, <1>4, <1>5, <2>5 DEF Claimed
  <2> QED BY <2>1, <2>2, <2>3, <2>4, <2>5
<1>7. VersionOK'
  BY <1>3, <1>6 DEF VersionOK
<1>8. ASSUME NEW j \in Jobs, NEW v \in 1..mutationSequence, versions'[j] = v
      PROVE  versions[j] = v
  BY <1>2, <1>8 DEF VersionsStep
<1>9. ASSUME NEW p \in Alarms, scope'[p].pc = "dispatch", scope'[p].stale,
             versions'[scope'[p].job] = scope'[p].version
      PROVE  scope'[p].row.recoveryLoop \/ scope'[p].struck
  <2>1. Kept(p) /\ scope[p].pc = "dispatch" /\ scope[p].job \in Jobs
    <3>1. Kept(p)
      BY <1>9 DEF Carries, Forgotten, Claimed
    <3> QED BY <1>1, <1>9, <3>1, VersionType DEF Kept
  <2>2. scope[p].version \in 1..mutationSequence
    BY <2>1, NoJobAssumption DEF VersionInv, VersionOK
  <2>3. versions[scope[p].job] = scope[p].version
    BY <1>8, <1>9, <2>1, <2>2 DEF Kept
  <2> QED BY <1>9, <2>1, <2>3 DEF Kept, VersionInv, OutdatedOK, VersionMatches
<1>10. ASSUME NEW p \in Alarms, IsTracked(p)', work'[p].stale,
              versions'[work'[p].job] = work'[p].version
       PROVE  \/ work'[p].row.recoveryLoop
              \/ /\ scope'[p].struck
                 /\ breaker'.stage # "free" => breaker'.holder # <<p, "work">>
  <2>1. CASE HandoffStays(p)
    <3>1. IsTracked(p) /\ work[p].job \in Jobs
      BY <1>1, <2>1, VersionType DEF HandoffStays
    <3>2. work[p].version \in 1..mutationSequence
      BY <3>1 DEF VersionInv, VersionOK
    <3>3. versions[work[p].job] = work[p].version /\ work[p].stale
      BY <1>8, <1>10, <2>1, <3>1, <3>2 DEF HandoffStays
    <3>4. \/ work[p].row.recoveryLoop
          \/ /\ scope[p].struck
             /\ breaker.stage # "free" => breaker.holder # <<p, "work">>
      BY <3>1, <3>3 DEF VersionInv, OutdatedOK, VersionMatches
    <3> QED BY <2>1, <3>4 DEF HandoffStays, StruckStays
  <2>2. CASE HandoffMade(p)
    <3>1. scope[p].pc = "dispatch" /\ scope[p].job \in Jobs
      BY <1>1, <2>2, VersionType DEF HandoffMade
    <3>2. scope[p].version \in 1..mutationSequence
      BY <3>1, NoJobAssumption DEF VersionInv, VersionOK
    <3>3. versions[scope[p].job] = scope[p].version /\ scope[p].stale
      BY <1>8, <1>10, <2>2, <3>1, <3>2 DEF HandoffMade
    <3>4. scope[p].row.recoveryLoop \/ scope[p].struck
      BY <3>1, <3>3 DEF VersionInv, OutdatedOK, VersionMatches
    <3> QED BY <2>2, <3>4 DEF HandoffMade, StruckStays
  <2> QED BY <1>10, <2>1, <2>2 DEF Carries
<1>11. OutdatedOK'
  BY <1>9, <1>10 DEF OutdatedOK, VersionMatches
<1> QED BY <1>7, <1>11

(* Pruning a version is such a step.                                        *)
LEMMA PrunedSteps ==
  ASSUME TypeInv, mutationSequence' = mutationSequence,
         versions' = versions \/ \E j, c, b : versions' = Pruned(j, c, b)
  PROVE  VersionsStep
BY VersionType DEF VersionsStep, Pruned

(* So is noting a mutation, which takes the version of a job that runs.     *)
LEMMA NoteSteps ==
  ASSUME TypeInv, NEW j \in Jobs, NoteMutation(j)
  PROVE  /\ VersionsStep
         /\ active[j] > 0 \/ HasTracked(j) => versions'[j] = mutationSequence + 1
BY VersionType DEF TypeInv, TypeOK, VersionsStep, NoteMutation

(* The fields a mark leaves alone.                                          *)
LEMMA OutdatedFields ==
  ASSUME NEW j, NEW sc \in Scopes, NEW w \in Works
  PROVE  /\ Outdated(sc, {j}).job = sc.job /\ Outdated(sc, {j}).row = sc.row
         /\ Outdated(sc, {j}).version = sc.version
         /\ Outdated(sc, {j}).pc = sc.pc /\ Outdated(sc, {j}).struck = sc.struck
         /\ Outdated(sc, {j}).stale => sc.stale \/ sc.job = j
         /\ Outdated(w, {j}).job = w.job /\ Outdated(w, {j}).row = w.row
         /\ Outdated(w, {j}).version = w.version /\ Outdated(w, {j}).pc = w.pc
         /\ Outdated(w, {j}).stale => w.stale \/ w.job = j
BY DEF Outdated, Scopes, Works

(* The same of a handoff and its next state.                                *)
LEMMA OutdatedHandoff ==
  ASSUME NEW j, NEW q, work[q] \in Works, work'[q] = Outdated(work[q], {j})
  PROVE  /\ work'[q].job = work[q].job /\ work'[q].row = work[q].row
         /\ work'[q].version = work[q].version /\ work'[q].pc = work[q].pc
         /\ work'[q].stale => work[q].stale \/ work[q].job = j
BY DEF Outdated, Works

(* A mark outdates a dispatch or a handoff together with its version.       *)
LEMMA MarkCarries ==
  ASSUME VersionInv, NEW j \in Jobs, VersionsStep, NEW q \in Alarms,
         UNCHANGED breaker,
         active[j] > 0 \/ HasTracked(j) => versions'[j] = mutationSequence + 1,
         scope'[q] = Outdated(scope[q], {j}), work'[q] = Outdated(work[q], {j})
  PROVE  Kept(q) /\ (IsTracked(q)' => HandoffStays(q))
<1>1. TypeInv
  BY DEF VersionInv, FenceInv
<1>2. /\ scope[q] \in Scopes /\ work[q] \in Works /\ mutationSequence \in Nat
      /\ scope[q].version \in Nat /\ work[q].version \in Nat
  BY <1>1, VersionType
<1>3. /\ scope'[q].job = scope[q].job /\ scope'[q].row = scope[q].row
      /\ scope'[q].version = scope[q].version /\ scope'[q].pc = scope[q].pc
      /\ scope'[q].struck = scope[q].struck
      /\ scope'[q].stale => scope[q].stale \/ scope[q].job = j
      /\ work'[q].job = work[q].job /\ work'[q].row = work[q].row
      /\ work'[q].version = work[q].version /\ work'[q].pc = work[q].pc
      /\ work'[q].stale => work[q].stale \/ work[q].job = j
  <2> DEFINE sc == scope[q]
             w == work[q]
  <2>1. sc \in Scopes /\ w \in Works
    BY <1>2
  <2> HIDE DEF sc, w
  <2>2. /\ Outdated(sc, {j}).job = sc.job /\ Outdated(sc, {j}).row = sc.row
        /\ Outdated(sc, {j}).version = sc.version
        /\ Outdated(sc, {j}).pc = sc.pc /\ Outdated(sc, {j}).struck = sc.struck
        /\ Outdated(sc, {j}).stale => sc.stale \/ sc.job = j
        /\ Outdated(w, {j}).job = w.job /\ Outdated(w, {j}).row = w.row
        /\ Outdated(w, {j}).version = w.version /\ Outdated(w, {j}).pc = w.pc
        /\ Outdated(w, {j}).stale => w.stale \/ w.job = j
    BY <2>1, OutdatedFields
  <2> QED BY <2>2 DEF sc, w
<1>4. j # NoJob
  BY NoJobAssumption
<1>5. ASSUME scope[q].pc = "dispatch", scope[q].job = j
      PROVE  versions'[j] # scope[q].version
  <2>1. versions'[j] = mutationSequence + 1
    BY <1>1, <1>5, DispatchCounts DEF VersionInv
  <2>2. scope[q].version \in 1..mutationSequence
    BY <1>4, <1>5 DEF VersionInv, VersionOK
  <2> QED BY <1>2, <2>1, <2>2
<1>6. ASSUME IsTracked(q), work[q].job = j
      PROVE  versions'[j] # work[q].version
  <2>1. versions'[j] = mutationSequence + 1
    BY <1>6 DEF HasTracked
  <2>2. work[q].version \in 1..mutationSequence
    BY <1>6 DEF VersionInv, VersionOK
  <2> QED BY <1>2, <2>1, <2>2
<1>7. Kept(q)
  BY <1>3, <1>4, <1>5 DEF Kept
<1>8. IsTracked(q)' => HandoffStays(q)
  BY <1>3, <1>6 DEF IsTracked, HandoffStays, StruckStays
<1> QED BY <1>7, <1>8

(* A slot nobody touches.                                                   *)
LEMMA SameCarries ==
  ASSUME NEW q \in Alarms, scope'[q] = scope[q], work'[q] = work[q],
         UNCHANGED breaker
  PROVE  Kept(q) /\ Carries(q)
BY DEF Kept, Carries, HandoffStays, IsTracked, StruckStays

(* Incidents stay with a slot that has a dispatch or a handoff.             *)
LEMMA StruckKept ==
  ASSUME AllMove, NEW q \in Alarms, IsTracked(q) \/ scope[q].pc = "dispatch"
  PROVE  StruckStays(q)
BY DEF AllMove, Moves, Begins, SameHistory, StruckStays, IsTracked

(* The steps of one invocation, but for its claims.                         *)
LEMMA InvocationCarries ==
  ASSUME VersionInv, NEW p \in Alarms, AllMove,
         \/ AlarmFires(p) \/ Snapshot(p) \/ ArmDeadman(p) \/ LoopEnds(p)
         \/ Settles(p) \/ AlarmRaises(p) \/ AlarmClears(p) \/ AlarmReturns(p)
         \/ \E r \in {"clear", "fail", "oom"} : HostAlarm(p, r)
  PROVE  /\ \A q \in Alarms : Carries(q) /\ (q # p => Kept(q))
         /\ VersionsStep /\ ActiveOK'
<1>0. TypeInv /\ scope \in [Alarms -> Scopes] /\ scope[p] \in Scopes
  BY DEF VersionInv, FenceInv, TypeInv, TypeOK
<1>1. UNCHANGED <<work, breaker, mutationSequence>>
  BY DEF AlarmFires, Snapshot, ArmDeadman, LoopEnds, Settles, JobReturns,
         JobAborts, JobOoms, AlarmRaises, AlarmClears, AlarmReturns, HostAlarm,
         fences
<1>2. VersionsStep
  <2>1. versions' = versions \/ \E j, c, b : versions' = Pruned(j, c, b)
    BY DEF AlarmFires, Snapshot, ArmDeadman, LoopEnds, Settles, JobReturns,
           JobAborts, JobOoms, AlarmRaises, AlarmClears, AlarmReturns, HostAlarm,
           fences
  <2> QED BY <1>0, <1>1, <2>1, PrunedSteps
<1> DEFINE Goes(sc) ==
      /\ scope' = [scope EXCEPT ![p] = sc] /\ sc.pc # "dispatch"
      /\ \/ sc.job = NoJob /\ ~sc.stale
         \/ /\ sc.job = scope[p].job /\ sc.row = scope[p].row
            /\ sc.version = scope[p].version /\ sc.stale = scope[p].stale
<1>3. \E sc : Goes(sc)
  <2>1. CASE Snapshot(p)
    <3>1. PICK q \in DueLists(rows, clock, HasExclusive(rows)) :
            scope' = [scope EXCEPT ![p] =
              [scope[p] EXCEPT !.inv = clock, !.due = q,
                 !.pc = IF q = <<>> THEN "host" ELSE "deadman"]]
      BY <2>1 DEF Snapshot
    <3>2. Goes([scope[p] EXCEPT !.inv = clock, !.due = q,
                  !.pc = IF q = <<>> THEN "host" ELSE "deadman"])
      BY <1>0, <3>1 DEF Scopes
    <3> QED BY <3>2
  <2>2. CASE ArmDeadman(p)
    <3>1. Goes([scope[p] EXCEPT !.pc = "loop"])
      BY <1>0, <2>2 DEF Scopes, ArmDeadman
    <3> QED BY <3>1
  <2>3. CASE LoopEnds(p)
    <3>1. Goes([scope[p] EXCEPT !.pc = "host", !.due = <<>>])
      BY <1>0, <2>3 DEF Scopes, LoopEnds
    <3> QED BY <3>1
  <2>4. CASE \E outcome \in Outcomes(RescheduleTo) : JobReturns(p, outcome)
    <3>1. Goes([scope[p] EXCEPT !.pc = "loop", !.job = NoJob, !.row = NoRow,
                  !.version = 0, !.stale = FALSE])
      BY <1>0, <2>4 DEF Scopes, JobReturns
    <3> QED BY <3>1
  <2>5. CASE JobAborts(p)
    <3>1. Goes([scope[p] EXCEPT !.pc = "fail"])
      BY <1>0, <2>5 DEF Scopes, JobAborts
    <3> QED BY <3>1
  <2>6. CASE JobOoms(p)
    <3>1. Goes([scope[p] EXCEPT !.pc = "oom"])
      BY <1>0, <2>6 DEF Scopes, JobOoms
    <3> QED BY <3>1
  <2>7. CASE AlarmRaises(p) \/ AlarmReturns(p)
    <3>1. Goes(Idle(scope[p]))
      BY <1>0, <2>7 DEF Scopes, Idle, AlarmRaises, AlarmReturns
    <3> QED BY <3>1
  <2>8. CASE AlarmClears(p)
    <3>1. Goes([scope[p] EXCEPT !.pc = "rearm"])
      BY <1>0, <2>8 DEF Scopes, AlarmClears
    <3> QED BY <3>1
  <2>9. ASSUME NEW r \in {"clear", "fail", "oom"}, HostAlarm(p, r)
        PROVE  \E sc : Goes(sc)
    <3> DEFINE c == IF r = "clear" /\ scope[p].failed THEN "rearm" ELSE r
               sc == [scope[p] EXCEPT !.pc = c, !.finished = (r = "clear")]
    <3>1. scope' = [scope EXCEPT ![p] = sc]
      BY <2>9 DEF HostAlarm
    <3>2. /\ sc.job = scope[p].job /\ sc.row = scope[p].row
          /\ sc.version = scope[p].version /\ sc.stale = scope[p].stale
          /\ sc.pc = c
      BY <1>0 DEF Scopes
    <3>3. c # "dispatch"
      OBVIOUS
    <3> HIDE DEF sc, c
    <3>4. Goes(sc)
      BY <3>1, <3>2, <3>3
    <3> QED BY <3>4
  <2>10. CASE AlarmFires(p)
    <3>1. Goes(NewScope(memoryGeneration))
      BY <2>10 DEF AlarmFires, NewScope
    <3> QED BY <3>1
  <2> HIDE DEF Goes
  <2> QED BY <2>1, <2>2, <2>3, <2>4, <2>5, <2>6, <2>7, <2>8, <2>9, <2>10
          DEF Settles
<1>4. /\ \A q \in Alarms \ {p} : scope'[q] = scope[q]
      /\ scope'[p].pc # "dispatch" /\ (Forgotten(p) \/ Kept(p))
  <2>1. PICK sc : Goes(sc)
    BY <1>3
  <2>2. scope'[p] = sc /\ \A q \in Alarms \ {p} : scope'[q] = scope[q]
    BY <1>0, <2>1
  <2> QED BY <2>1, <2>2 DEF Forgotten, Kept
<1>5. \A q \in Alarms \ {p} : Kept(q) /\ Carries(q)
  BY <1>1, <1>4, SameCarries
<1>6. Carries(p)
  BY <1>1, <1>4, StruckKept DEF Carries, HandoffStays, IsTracked
<1>7. ActiveOK'
  <2>1. CASE Settles(p)
    <3>1. scope[p].pc = "dispatch" /\ active' = EndClaim(scope[p].job)
      BY <2>1 DEF Settles, JobReturns, JobAborts, JobOoms
    <3> QED BY <1>0, <1>4, <3>1, ActiveEnds DEF VersionInv
  <2>2. CASE ~Settles(p)
    <3>1. scope[p].pc # "dispatch" /\ UNCHANGED active
      BY <2>2 DEF AlarmFires, Snapshot, ArmDeadman, LoopEnds, AlarmRaises,
         AlarmClears, AlarmReturns, HostAlarm, fences
    <3> QED BY <1>4, <3>1, ActiveStays DEF VersionInv
  <2> QED BY <2>1, <2>2
<1> QED BY <1>2, <1>5, <1>6, <1>7

(* A step that leaves the slots and the versions alone.                     *)
LEMMA StillCarries ==
  ASSUME VersionInv,
         UNCHANGED <<scope, work, breaker, versions, mutationSequence, active>>
  PROVE  /\ \A q \in Alarms : Carries(q) /\ Kept(q)
         /\ VersionsStep /\ ActiveOK'
<1>1. VersionsStep
  BY DEF VersionsStep
<1>2. ActiveOK'
  BY ActiveStays DEF VersionInv
<1> QED BY <1>1, <1>2, SameCarries

(* The operations of the queue mark what they change.                       *)
LEMMA OperationCarries ==
  ASSUME VersionInv, NEW j \in Jobs, NEW t, NEW taken \in BOOLEAN,
         Operation(j, t, taken)
  PROVE  /\ \A q \in Alarms : Carries(q) /\ Kept(q)
         /\ VersionsStep /\ ActiveOK'
<1>0. TypeInv
  BY DEF VersionInv, FenceInv
<1>1. UNCHANGED <<breaker, active>>
  BY DEF Operation
<1>2. CASE ~taken
  <2>1. UNCHANGED <<scope, work, versions, mutationSequence>>
    BY <1>2 DEF Operation
  <2> QED BY <1>1, <2>1, StillCarries
<1>3. CASE taken
  <2>1. NoteMutation(j) /\ MarkScopes({j}) /\ MarkWork({j})
    BY <1>3 DEF Operation
  <2>2. /\ VersionsStep
        /\ active[j] > 0 \/ HasTracked(j) => versions'[j] = mutationSequence + 1
    BY <1>0, <2>1, NoteSteps
  <2>3. ASSUME NEW q \in Alarms
        PROVE  /\ Kept(q) /\ Carries(q) /\ scope'[q].pc = scope[q].pc
               /\ scope'[q].job = scope[q].job
    <3>1. scope'[q] = Outdated(scope[q], {j}) /\ work'[q] = Outdated(work[q], {j})
      BY <2>1 DEF MarkScopes, MarkWork
    <3>2. Kept(q) /\ (IsTracked(q)' => HandoffStays(q))
      BY <1>1, <2>2, <3>1, MarkCarries
    <3>3. scope'[q].pc = scope[q].pc /\ scope'[q].job = scope[q].job
      BY <1>0, <2>1, MarkScopesType DEF TypeInv
    <3> QED BY <3>2, <3>3 DEF Carries
  <2>4. ActiveOK'
    BY <1>1, <2>3, ActiveStays DEF VersionInv
  <2> QED BY <2>2, <2>3, <2>4
<1> QED BY <1>2, <1>3

(* A claim takes the next version.                                          *)
LEMMA ClaimCarries ==
  ASSUME VersionInv, NEW p \in Alarms, Claim(p)
  PROVE  /\ \A q \in Alarms : Carries(q) /\ (q # p => Kept(q))
         /\ VersionsStep /\ ActiveOK'
<1>0. /\ TypeInv /\ mutationSequence \in Nat /\ versions \in [Jobs -> Nat]
      /\ scope[p] \in Scopes
  BY VersionType DEF VersionInv, FenceInv
<1>1. PICK j \in Jobs :
        /\ versions' = [versions EXCEPT ![j] = mutationSequence + 1]
        /\ active' = [active EXCEPT ![j] = @ + 1]
        /\ \A q \in Alarms \ {p} : scope'[q] = Outdated(scope[q], {j})
        /\ \E d, r : scope'[p] =
             [scope[p] EXCEPT !.pc = "dispatch", !.due = d, !.job = j, !.row = r,
                !.version = mutationSequence + 1, !.stale = FALSE]
        /\ MarkWork({j})
  <2>1. PICK i \in 1..Len(scope[p].due) :
          /\ versions' = [versions EXCEPT ![scope[p].due[i]] = mutationSequence + 1]
          /\ active' = [active EXCEPT ![scope[p].due[i]] = @ + 1]
          /\ scope' = [q \in Alarms |->
               IF q = p
               THEN [scope[p] EXCEPT !.pc = "dispatch", !.due = Rest(p, i),
                       !.job = scope[p].due[i],
                       !.row = MarkRunning(rows, scope[p].due[i],
                                           ClaimTime(p))[scope[p].due[i]],
                       !.version = mutationSequence + 1, !.stale = FALSE]
               ELSE Outdated(scope[q], {scope[p].due[i]})]
          /\ MarkWork({scope[p].due[i]})
    BY DEF Claim
  <2>2. scope[p].due[i] \in Jobs
    BY <1>0, RestType DEF Scopes
  <2>3. \A q \in Alarms \ {p} : scope'[q] = Outdated(scope[q], {scope[p].due[i]})
    BY <2>1
  <2>4. scope'[p] = [scope[p] EXCEPT !.pc = "dispatch", !.due = Rest(p, i),
                       !.job = scope[p].due[i],
                       !.row = MarkRunning(rows, scope[p].due[i],
                                           ClaimTime(p))[scope[p].due[i]],
                       !.version = mutationSequence + 1, !.stale = FALSE]
    BY <2>1
  <2> QED BY <2>1, <2>2, <2>3, <2>4
<1>2. /\ UNCHANGED breaker /\ scope[p].pc = "loop"
      /\ mutationSequence' = mutationSequence + 1
  BY DEF Claim, ClaimAt
<1>3. VersionsStep /\ versions'[j] = mutationSequence + 1
  BY <1>0, <1>1, <1>2 DEF VersionsStep
<1>4. ASSUME NEW q \in Alarms PROVE work'[q] = Outdated(work[q], {j})
  BY <1>1 DEF MarkWork
<1>5. ASSUME NEW q \in Alarms \ {p}
      PROVE  /\ Kept(q) /\ Carries(q) /\ scope'[q].pc = scope[q].pc
             /\ scope'[q].job = scope[q].job
  <2>1. scope'[q] = Outdated(scope[q], {j}) /\ scope[q] \in Scopes
    BY <1>0, <1>1, VersionType
  <2>2. Kept(q) /\ (IsTracked(q)' => HandoffStays(q))
    BY <1>2, <1>3, <1>4, <2>1, MarkCarries
  <2> QED BY <2>1, <2>2, ScopeType DEF Carries
<1>6. /\ scope'[p].pc = "dispatch" /\ scope'[p].job = j /\ ~scope'[p].stale
      /\ scope'[p].version = mutationSequence + 1
      /\ scope'[p].struck = scope[p].struck
  BY <1>0, <1>1 DEF Scopes
<1>7. Claimed(p)
  BY <1>2, <1>6, NoJobAssumption DEF Claimed
<1>8. IsTracked(p)' => HandoffStays(p)
  <2>1. /\ work'[p].job = work[p].job /\ work'[p].row = work[p].row
        /\ work'[p].version = work[p].version /\ work'[p].pc = work[p].pc
        /\ work'[p].stale => work[p].stale \/ work[p].job = j
    <3>1. work[p] \in Works
      BY <1>0, VersionType
    <3> QED BY <1>4, <3>1, OutdatedHandoff
  <2>2. IsTracked(p) => work[p].version \in 1..mutationSequence
    BY DEF VersionInv, VersionOK
  <2> QED BY <1>0, <1>2, <1>3, <1>6, <2>1, <2>2
          DEF IsTracked, HandoffStays, StruckStays
<1>9. Carries(p)
  BY <1>7, <1>8 DEF Carries
<1>10. ActiveOK'
  BY <1>0, <1>1, <1>2, <1>5, <1>6, ActiveBegins DEF VersionInv
<1> QED BY <1>3, <1>5, <1>9, <1>10

(* A row nobody handles is deleted as an operation would.                   *)
LEMMA DropCarries ==
  ASSUME VersionInv, NEW p \in Alarms, DropUnhandled(p)
  PROVE  /\ \A q \in Alarms : Carries(q) /\ (q # p => Kept(q))
         /\ VersionsStep /\ ActiveOK'
<1>0. /\ TypeInv /\ mutationSequence \in Nat /\ versions \in [Jobs -> Nat]
      /\ scope[p] \in Scopes /\ work[p] \in Works
  BY VersionType DEF VersionInv, FenceInv
<1>1. PICK j \in Jobs :
        /\ versions' = IF active[j] > 0 \/ HasTracked(j)
                       THEN [versions EXCEPT ![j] = mutationSequence + 1]
                       ELSE [versions EXCEPT ![j] = 0]
        /\ \A q \in Alarms \ {p} : scope'[q] = Outdated(scope[q], {j})
        /\ \E d : scope'[p] = [Outdated(scope[p], {j}) EXCEPT !.due = d]
        /\ MarkWork({j})
  <2>1. PICK i \in 1..Len(scope[p].due) :
          /\ versions' = IF active[scope[p].due[i]] > 0 \/ HasTracked(scope[p].due[i])
                         THEN [versions EXCEPT ![scope[p].due[i]] = mutationSequence + 1]
                         ELSE [versions EXCEPT ![scope[p].due[i]] = 0]
          /\ scope' = [[q \in Alarms |-> Outdated(scope[q], {scope[p].due[i]})]
                        EXCEPT ![p].due = Rest(p, i)]
          /\ MarkWork({scope[p].due[i]})
    BY DEF DropUnhandled
  <2>2. scope[p].due[i] \in Jobs
    BY <1>0, RestType DEF Scopes
  <2>3. /\ \A q \in Alarms \ {p} : scope'[q] = Outdated(scope[q], {scope[p].due[i]})
        /\ scope'[p] = [Outdated(scope[p], {scope[p].due[i]}) EXCEPT !.due = Rest(p, i)]
    BY <2>1
  <2> QED BY <2>1, <2>2, <2>3
<1>2. /\ UNCHANGED <<breaker, active>> /\ scope[p].pc = "loop"
      /\ mutationSequence' = mutationSequence + 1
  BY DEF DropUnhandled, ClaimAt
<1>3. /\ VersionsStep
      /\ active[j] > 0 \/ HasTracked(j) => versions'[j] = mutationSequence + 1
  BY <1>0, <1>1, <1>2 DEF VersionsStep
<1>4. ASSUME NEW q \in Alarms PROVE work'[q] = Outdated(work[q], {j})
  BY <1>1 DEF MarkWork
<1>5. ASSUME NEW q \in Alarms \ {p}
      PROVE  /\ Kept(q) /\ Carries(q) /\ scope'[q].pc = scope[q].pc
             /\ scope'[q].job = scope[q].job
  <2>1. scope'[q] = Outdated(scope[q], {j}) /\ scope[q] \in Scopes
    BY <1>0, <1>1, VersionType
  <2>2. Kept(q) /\ (IsTracked(q)' => HandoffStays(q))
    BY <1>2, <1>3, <1>4, <2>1, MarkCarries
  <2> QED BY <2>1, <2>2, ScopeType DEF Carries
<1>6. /\ scope'[p].pc = "loop" /\ scope'[p].job = scope[p].job
      /\ scope'[p].row = scope[p].row /\ scope'[p].version = scope[p].version
      /\ scope'[p].stale => scope[p].stale \/ scope[p].job = j
      /\ scope'[p].struck = scope[p].struck
  <2>1. PICK d : scope'[p] = [Outdated(scope[p], {j}) EXCEPT !.due = d]
    BY <1>1
  <2> QED BY <1>0, <1>2, <2>1 DEF Outdated, Scopes
<1>7. Kept(p)
  BY <1>6, NoJobAssumption DEF Kept
<1>8. IsTracked(p)' => HandoffStays(p)
  <2>1. /\ work'[p].job = work[p].job /\ work'[p].row = work[p].row
        /\ work'[p].version = work[p].version /\ work'[p].pc = work[p].pc
        /\ work'[p].stale => work[p].stale \/ work[p].job = j
    BY <1>0, <1>4, OutdatedHandoff
  <2>2. IsTracked(p) => work[p].version \in 1..mutationSequence
    BY DEF VersionInv, VersionOK
  <2>3. IsTracked(p) /\ work[p].job = j => versions'[j] = mutationSequence + 1
    BY <1>3 DEF HasTracked
  <2> QED BY <1>0, <1>2, <1>6, <2>1, <2>2, <2>3
          DEF IsTracked, HandoffStays, StruckStays
<1>9. Carries(p)
  BY <1>7, <1>8 DEF Carries
<1>10. ActiveOK'
  BY <1>2, <1>5, <1>6, ActiveStays DEF VersionInv
<1> QED BY <1>3, <1>5, <1>9, <1>10

(* A handoff takes the claim of its dispatch with it.                       *)
LEMMA HandoffCarries ==
  ASSUME VersionInv, NEW p \in Alarms, Track(p) \/ WorkEnds(p) \/ WorkClears(p)
  PROVE  /\ \A q \in Alarms : Carries(q) /\ Kept(q)
         /\ VersionsStep /\ ActiveOK'
<1>0. /\ TypeInv /\ scope \in [Alarms -> Scopes] /\ work \in [Alarms -> Works]
      /\ scope[p] \in Scopes /\ work[p] \in Works
  BY DEF VersionInv, FenceInv, TypeInv, TypeOK
<1>1. UNCHANGED <<breaker, mutationSequence, active>>
  BY DEF Track, WorkEnds, WorkSettles, WorkClears, fences
<1>2. VersionsStep
  <2>1. versions' = versions \/ \E j, c, b : versions' = Pruned(j, c, b)
    <3>1. ASSUME NEW r \in {"clear", "fail", "oom"}, WorkSettles(p, r)
          PROVE  versions' = versions \/ \E j, c, b : versions' = Pruned(j, c, b)
      BY <3>1 DEF WorkSettles
    <3> QED BY <3>1 DEF Track, WorkEnds, WorkClears, fences
  <2> QED BY <1>0, <1>1, <2>1, PrunedSteps
<1>3. \A q \in Alarms :
        /\ scope'[q].pc = scope[q].pc /\ scope'[q].job = scope[q].job
        /\ scope'[q].row = scope[q].row /\ scope'[q].version = scope[q].version
        /\ scope'[q].stale = scope[q].stale /\ scope'[q].struck = scope[q].struck
  <2>1. CASE Track(p) \/ WorkClears(p)
    BY <2>1 DEF Track, WorkClears
  <2>2. CASE WorkEnds(p)
    <3>1. PICK r \in {"clear", "fail", "oom"} :
            scope' = [scope EXCEPT ![p].failed = @ \/ r # "clear"]
      BY <2>2 DEF WorkEnds, WorkSettles
    <3>2. scope' = [scope EXCEPT ![p] =
                      [scope[p] EXCEPT !.failed = @ \/ r # "clear"]]
      BY <3>1
    <3> QED BY <1>0, <3>2 DEF Scopes
  <2> QED BY <2>1, <2>2
<1>4. \A q \in Alarms : Kept(q) /\ StruckStays(q)
  BY <1>3 DEF Kept, StruckStays
<1>5. \A q \in Alarms \ {p} : work'[q] = work[q]
  BY <1>0 DEF Track, WorkEnds, WorkSettles, WorkClears
<1>6. ASSUME NEW q \in Alarms \ {p} PROVE Carries(q)
  BY <1>1, <1>4, <1>5 DEF Carries, HandoffStays, IsTracked
<1>7. Carries(p)
  <2>1. CASE Track(p)
    <3>1. /\ work'[p].job = scope[p].job /\ work'[p].row = scope[p].row
          /\ work'[p].version = scope[p].version
          /\ work'[p].stale = scope[p].stale
          /\ scope[p].pc = "dispatch" /\ work[p] = NoWork
      BY <1>0, <2>1 DEF Track
    <3>2. breaker.stage # "free" => breaker.holder # <<p, "work">>
      BY <3>1, NoWorkType DEF VersionInv, IncidentInv, BreakerOK, Waiting
    <3> QED BY <1>1, <1>4, <3>1, <3>2 DEF Carries, HandoffMade
  <2>2. CASE WorkEnds(p)
    <3>1. \/ work' = [work EXCEPT ![p] = [work[p] EXCEPT !.pc = "oom"]]
             /\ work[p].pc = "running"
          \/ work' = [work EXCEPT ![p] = [work[p] EXCEPT !.pc = "clear"]]
          \/ work' = [work EXCEPT ![p] = NoWork]
      BY <2>2 DEF WorkEnds, WorkSettles
    <3>2. \/ /\ work'[p].job = work[p].job /\ work'[p].row = work[p].row
             /\ work'[p].version = work[p].version
             /\ work'[p].stale = work[p].stale /\ IsTracked(p)
          \/ work'[p].pc \in {"clear", "none"}
      BY <1>0, <3>1, NoWorkType DEF Works, IsTracked
    <3> QED BY <1>1, <1>4, <3>2 DEF Carries, HandoffStays, IsTracked
  <2>3. CASE WorkClears(p)
    <3>1. work'[p] = NoWork
      BY <1>0, <2>3 DEF WorkClears
    <3> QED BY <1>4, <3>1, NoWorkType DEF Carries, IsTracked
  <2> QED BY <2>1, <2>2, <2>3
<1>8. ActiveOK'
  BY <1>1, <1>3, ActiveStays DEF VersionInv
<1> QED BY <1>2, <1>4, <1>6, <1>7, <1>8

(* A startup that fails turns away invocations without claims.              *)
LEMMA StartFailsCarries ==
  ASSUME VersionInv, NEW k \in StartupFailures, StartFails(k)
  PROVE  /\ \A q \in Alarms : Carries(q) /\ Kept(q)
         /\ VersionsStep /\ ActiveOK'
<1>0. k # "dispatch" /\ \A q \in Alarms : scope[q] \in Scopes
  BY DriverAssumption DEF VersionInv, FenceInv, TypeInv, TypeOK
<1>1. UNCHANGED <<work, breaker, versions, mutationSequence, active>>
  BY DEF StartFails, fences
<1>2. \A q \in Alarms :
        /\ scope'[q].pc = "dispatch" <=> scope[q].pc = "dispatch"
        /\ scope'[q].job = scope[q].job
        /\ scope'[q].row = scope[q].row /\ scope'[q].version = scope[q].version
        /\ scope'[q].stale = scope[q].stale /\ scope'[q].struck = scope[q].struck
  <2>1. \A q \in Alarms :
          scope'[q] = IF scope[q].pc = "start" THEN [scope[q] EXCEPT !.pc = k]
                                               ELSE scope[q]
    BY DEF StartFails
  <2> QED BY <1>0, <2>1 DEF Scopes
<1>3. \A q \in Alarms : Kept(q) /\ Carries(q)
  BY <1>1, <1>2 DEF Kept, Carries, HandoffStays, StruckStays, IsTracked
<1>4. VersionsStep
  BY <1>1 DEF VersionsStep
<1>5. ActiveOK'
  BY <1>1, <1>2, ActiveStays DEF VersionInv
<1> QED BY <1>3, <1>4, <1>5

(* The policy changes recovery-loop rows, and the row of the thread's own   *)
(* job while its version and its row are still the ones it claimed.         *)
LEMMA PolicyChanges ==
  ASSUME TypeInv, NEW th \in Threads, NEW k \in Jobs,
         PolicyRows(th)[k] # rows[k]
  PROVE  \/ Present(rows, k) /\ rows[k].recoveryLoop
         \/ /\ k = PolicyRow(th).job
            /\ VersionMatches(k, PolicyRow(th).version)
            /\ IntentGuard(rows, k, PolicyRow(th).row, th[2] = "alarm")
<1> DEFINE r    == PolicyRow(th)
           next == clock + breaker.delay
           must == th[2] = "alarm"
           own  == IF r.job = NoJob \/ ~VersionMatches(r.job, r.version) THEN rows
                   ELSE IF breaker.sealed THEN DeleteIntent(rows, r.job, r.row, must)
                   ELSE RetimeIntent(rows, r.job, r.row, next, must)
<1>0. rows \in Tables
  BY DEF TypeInv, TypeOK
<1>1. PolicyRows(th) = IF breaker.sealed THEN PurgeRecoveryLoopJobs(own)
                       ELSE DelayRecoveryLoopJobs(own, next)
  BY DEF PolicyRows
<1>2. own[k] = rows[k] \/ /\ k = r.job /\ VersionMatches(k, r.version)
                          /\ IntentGuard(rows, k, r.row, must)
  <2>1. CASE r.job = NoJob \/ ~VersionMatches(r.job, r.version)
    BY <2>1
  <2>2. CASE r.job # NoJob /\ VersionMatches(r.job, r.version)
    <3>1. own = rows \/ /\ IntentGuard(rows, r.job, r.row, must)
                        /\ \E x : own = [rows EXCEPT ![r.job] = x]
      BY <2>2 DEF DeleteIntent, RetimeIntent, Delete
    <3> HIDE DEF own, r, must
    <3> QED BY <1>0, <2>2, <3>1 DEF Tables
  <2> QED BY <2>1, <2>2
<1>3. own[k] = rows[k] => Present(rows, k) /\ rows[k].recoveryLoop
  <2> HIDE DEF own, next
  <2> QED BY <1>1 DEF PurgeRecoveryLoopJobs, DelayRecoveryLoopJobs, Present
<1> QED BY <1>2, <1>3

(* What the breaker does to the slots, the versions and the lock.           *)
LEMMA BreakerCarries ==
  ASSUME VersionInv, NEW th \in Threads, Breaker(th)
  PROVE  /\ \A q \in Alarms : Carries(q) /\ (Forgotten(q) \/ Kept(q))
         /\ VersionsStep /\ ActiveOK'
<1>0. /\ TypeInv /\ scope \in [Alarms -> Scopes] /\ work \in [Alarms -> Works]
      /\ th[1] \in Alarms /\ th = <<th[1], th[2]>>
      /\ \A q \in Alarms : scope[q] \in Scopes /\ ScopeOK(scope[q])
  BY Slots DEF VersionInv, FenceInv, TypeInv, TypeOK, Threads
<1>1. UNCHANGED <<mutationSequence, active>>
  BY DEF Breaker, BreakerSkips, BreakerEnters, BreakerStrikes, BreakerDecides,
     BreakerSeals, BreakerLeaves, fences
<1>2. VersionsStep
  <2>1. versions' = versions \/ \E j, c, b : versions' = Pruned(j, c, b)
    <3>1. CASE BreakerSkips(th) \/ BreakerLeaves(th)
      <4>1. Leave(th)
        BY <3>1 DEF BreakerSkips, BreakerLeaves
      <4> QED BY <4>1 DEF Leave
    <3>2. CASE ~(BreakerSkips(th) \/ BreakerLeaves(th))
      BY <3>2 DEF Breaker, BreakerEnters, BreakerStrikes, BreakerDecides,
         BreakerSeals, fences
    <3> QED BY <3>1, <3>2
  <2> QED BY <1>0, <1>1, <2>1, PrunedSteps
<1>3. CASE BreakerSkips(th) \/ BreakerLeaves(th)
  <2>1. Leave(th) /\ breaker' = Free /\ Waiting(th)
    BY <1>3 DEF BreakerSkips, BreakerLeaves, VersionInv, IncidentInv, BreakerOK
  <2>2. \A q \in Alarms :
          /\ \/ Forgotten(q) /\ scope[q].pc # "dispatch"
             \/ scope'[q] = scope[q]
          /\ scope'[q].struck = scope[q].struck
          /\ work'[q] = work[q] \/ work'[q] = NoWork
    <3>1. CASE th[2] = "alarm"
      <4>1. /\ scope' = [scope EXCEPT ![th[1]] =
                           [Idle(scope[th[1]]) EXCEPT !.finished = TRUE]]
            /\ UNCHANGED work /\ scope[th[1]].pc = "oom"
        BY <2>1, <3>1 DEF Leave, Waiting
      <4>2. /\ [Idle(scope[th[1]]) EXCEPT !.finished = TRUE].job = NoJob
            /\ ~[Idle(scope[th[1]]) EXCEPT !.finished = TRUE].stale
            /\ [Idle(scope[th[1]]) EXCEPT !.finished = TRUE].pc = "idle"
            /\ [Idle(scope[th[1]]) EXCEPT !.finished = TRUE].struck
                 = scope[th[1]].struck
        BY <1>0 DEF Idle, Scopes
      <4> QED BY <1>0, <4>1, <4>2 DEF Forgotten
    <3>2. CASE th[2] # "alarm"
      BY <1>0, <2>1, <3>2 DEF Leave
    <3> QED BY <3>1, <3>2
  <2>3. ASSUME NEW q \in Alarms
        PROVE  Carries(q) /\ (Forgotten(q) \/ Kept(q))
    <3>1. Forgotten(q) \/ Kept(q)
      BY <2>2 DEF Kept
    <3>2. IsTracked(q)' => HandoffStays(q)
      BY <2>1, <2>2, NoWorkType DEF IsTracked, HandoffStays, StruckStays, Free
    <3> QED BY <3>1, <3>2 DEF Carries
  <2>4. ActiveOK'
    BY <1>1, <2>2, ActiveStays DEF VersionInv, Forgotten
  <2> QED BY <1>2, <2>3, <2>4
<1>4. ASSUME \A q \in Alarms :
               /\ scope'[q].pc = scope[q].pc /\ scope'[q].job = scope[q].job
               /\ scope'[q].row = scope[q].row
               /\ scope'[q].version = scope[q].version
               /\ scope'[q].stale => scope[q].stale \/ scope[q].job # NoJob
               /\ scope'[q].pc = "dispatch" /\ scope'[q].stale =>
                    \/ scope[q].stale \/ versions'[scope[q].job] # scope[q].version
                    \/ scope[q].row.recoveryLoop \/ scope'[q].struck
               /\ StruckStays(q)
               /\ breaker'.stage # "free" /\ breaker'.holder = <<q, "work">> =>
                    \/ ~scope[q].struck
                    \/ breaker.stage # "free" /\ breaker.holder = <<q, "work">>,
             UNCHANGED work
      PROVE  /\ \A q \in Alarms : Carries(q) /\ (Forgotten(q) \/ Kept(q))
             /\ VersionsStep /\ ActiveOK'
  <2>1. \A q \in Alarms : Kept(q)
    BY <1>4 DEF Kept, StruckStays
  <2>2. ASSUME NEW q \in Alarms, IsTracked(q)' PROVE HandoffStays(q)
    BY <1>4, <2>2 DEF IsTracked, HandoffStays
  <2>3. ActiveOK'
    BY <1>1, <1>4, ActiveStays DEF VersionInv
  <2> QED BY <1>2, <2>1, <2>2, <2>3 DEF Carries
<1>5. CASE BreakerEnters(th)
  <2>1. ASSUME NEW q \in Alarms
        PROVE  /\ scope'[q].pc = scope[q].pc /\ scope'[q].job = scope[q].job
               /\ scope'[q].row = scope[q].row
               /\ scope'[q].version = scope[q].version
               /\ scope'[q].stale = scope[q].stale
               /\ scope[q].struck => scope'[q].struck
    <3>1. scope'[q] = [scope[q] EXCEPT !.hit = TRUE, !.struck = @ \/ q = th[1]]
      BY <1>5 DEF BreakerEnters
    <3> QED BY <1>0, <3>1 DEF Scopes
  <2>2. breaker'.holder = th /\ ~scope[th[1]].struck /\ UNCHANGED work
    BY <1>5 DEF BreakerEnters, MayStrike, Free
  <2>3. \A q \in Alarms : breaker'.holder = <<q, "work">> => ~scope[q].struck
    BY <2>2
  <2> QED BY <1>4, <2>1, <2>2, <2>3 DEF StruckStays, VersionInv, VersionOK
<1>6. breaker \in [holder : Threads \cup {NoThread},
                   stage : {"free", "strike", "policy", "seal", "rearm"},
                   sealed : BOOLEAN, delay : Nat]
  BY <1>0 DEF TypeInv, TypeOK
<1>7. CASE BreakerStrikes(th) \/ BreakerSeals(th)
  <2>1. ASSUME NEW q \in Alarms
        PROVE  /\ scope'[q].pc = scope[q].pc /\ scope'[q].job = scope[q].job
               /\ scope'[q].row = scope[q].row
               /\ scope'[q].version = scope[q].version
               /\ scope'[q].stale = scope[q].stale
               /\ scope[q].struck => scope'[q].struck
    <3>1. CASE BreakerStrikes(th)
      <4>1. scope'[q] = [scope[q] EXCEPT !.counted = IF q = th[1] THEN @ + 1 ELSE @]
        BY <3>1 DEF BreakerStrikes
      <4> QED BY <1>0, <4>1 DEF Scopes
    <3>2. CASE BreakerSeals(th)
      BY <3>2 DEF BreakerSeals
    <3> QED BY <1>7, <3>1, <3>2
  <2>2. breaker'.holder = breaker.holder /\ breaker.stage # "free" /\ UNCHANGED work
    BY <1>6, <1>7 DEF BreakerStrikes, BreakerSeals
  <2> QED BY <1>4, <2>1, <2>2 DEF StruckStays, VersionInv, VersionOK
<1>8. CASE BreakerDecides(th)
  <2>1. breaker'.holder = breaker.holder /\ breaker.holder = th
        /\ breaker.stage # "free" /\ UNCHANGED <<work, versions>>
    BY <1>6, <1>8 DEF BreakerDecides, fences
  <2>2. Waiting(th) /\ scope[th[1]].struck
    BY <2>1 DEF VersionInv, IncidentInv, BreakerOK
  <2> DEFINE X == {j \in Jobs : PolicyRows(th)[j] # rows[j]}
  <2>3. MarkScopes(X)
    BY <1>8 DEF BreakerDecides
  <2>4. X \subseteq Jobs
    OBVIOUS
  <2>5. ASSUME NEW j \in X
        PROVE  \/ Present(rows, j) /\ rows[j].recoveryLoop
               \/ j = PolicyRow(th).job /\ versions[j] = PolicyRow(th).version
    BY <1>0, PolicyChanges DEF VersionMatches
  <2> HIDE DEF X
  <2>6. ASSUME NEW q \in Alarms
        PROVE  /\ scope'[q].pc = scope[q].pc /\ scope'[q].job = scope[q].job
               /\ scope'[q].row = scope[q].row
               /\ scope'[q].version = scope[q].version
               /\ scope'[q].stale => scope[q].stale \/ scope[q].job \in X
               /\ scope'[q].struck = scope[q].struck
    <3>1. scope'[q] = Outdated(scope[q], X)
      BY <2>3 DEF MarkScopes
    <3> QED BY <1>0, <3>1 DEF Outdated, Scopes
  <2>7. ASSUME NEW q \in Alarms, scope[q].pc = "dispatch", ~scope[q].stale,
               scope[q].job \in X, versions[scope[q].job] = scope[q].version
        PROVE  scope[q].row.recoveryLoop \/ scope[q].struck
    <3>1. rows[scope[q].job] = scope[q].row
      BY <2>7 DEF VersionInv, FenceInv, HoldsOK
    <3>2. CASE rows[scope[q].job].recoveryLoop
      BY <3>1, <3>2
    <3>3. CASE scope[q].job = PolicyRow(th).job
               /\ versions[scope[q].job] = PolicyRow(th).version
      <4>0. scope[q].job # NoJob
        BY <2>4, <2>7, NoJobAssumption
      <4>1. CASE th[2] = "alarm"
        <5>1. scope[th[1]].job # NoJob /\ scope[th[1]].version = scope[q].version
          BY <2>7, <3>3, <4>0, <4>1 DEF PolicyRow
        <5>2. th[1] = q
          BY <1>0, <4>0, <5>1 DEF VersionInv, VersionOK
        <5> QED BY <2>2, <5>2
      <4>2. CASE th[2] # "alarm"
        <5>1. IsTracked(th[1]) /\ work[th[1]].version = scope[q].version
          BY <2>2, <2>7, <3>3, <4>2 DEF PolicyRow, Waiting, IsTracked
        <5>2. th[1] = q
          BY <1>0, <4>0, <5>1 DEF VersionInv, VersionOK
        <5> QED BY <2>2, <5>2
      <4> QED BY <4>1, <4>2
    <3> QED BY <2>5, <2>7, <3>2, <3>3
  <2> QED BY <1>4, <2>1, <2>4, <2>6, <2>7, NoJobAssumption DEF StruckStays
<1> QED BY <1>3, <1>5, <1>7, <1>8 DEF Breaker

(* A new isolate has no claims, no handoffs and no versions.                *)
LEMMA FreshVersions ==
  ASSUME TypeInv, scope = [p \in Alarms |-> Idle(NewScope(0))],
         work = [p \in Alarms |-> NoWork], versions = [j \in Jobs |-> 0],
         active = [j \in Jobs |-> 0], mutationSequence = 0
  PROVE  ActiveOK /\ VersionOK /\ OutdatedOK
<1>1. \A p \in Alarms : /\ scope[p].job = NoJob /\ scope[p].pc = "idle"
                        /\ ~scope[p].stale /\ ~IsTracked(p)
  BY NewScopeType, ScopeType, NoWorkType DEF IsTracked, Idle, NewScope
<1>2. \A j : Dispatching(j) = {}
  BY <1>1 DEF Dispatching
<1>3. ActiveOK
  BY <1>2, FS_EmptySet DEF ActiveOK
<1> QED BY <1>1, <1>3 DEF VersionOK, OutdatedOK

(* Every step keeps the fence of versions.                                  *)
LEMMA VersionNext == VersionInv /\ [Next]_vars => VersionInv'
<1> SUFFICES ASSUME VersionInv, [Next]_vars PROVE VersionInv'
  OBVIOUS
<1>0. FenceInv' /\ IncidentInv' /\ TypeInv /\ TypeInv'
  BY FenceNext, IncidentNext DEF VersionInv, FenceInv, IncidentInv
<1>1. ASSUME NEW p, \A q \in Alarms : Carries(q) /\ (q # p => Forgotten(q) \/ Kept(q)),
             VersionsStep, ActiveOK'
      PROVE  VersionInv'
  <2>1. VersionOK' /\ OutdatedOK'
    BY <1>0, <1>1, VersionsCarried
  <2> QED BY <1>0, <1>1, <2>1 DEF VersionInv
<1>2. ASSUME \A q \in Alarms : Carries(q) /\ Kept(q), VersionsStep, ActiveOK'
      PROVE  VersionInv'
  BY <1>1, <1>2
<1>3. CASE Operations
  BY <1>2, <1>3, OperationsAre, OperationCarries
<1>4. CASE \/ StartBegin \/ Starting \/ Tick \/ UNCHANGED vars
           \/ \E j \in Jobs : OperationRearms(j)
  <2>1. UNCHANGED <<scope, work, breaker, versions, mutationSequence, active>>
    BY <1>4 DEF StartBegin, Starting, HookRearms, StartDone, Tick, vars,
       OperationRearms, fences
  <2> QED BY <1>2, <2>1, StillCarries
<1>5. CASE \E k \in StartupFailures : StartFails(k)
  BY <1>2, <1>5, StartFailsCarries
<1>6. ASSUME NEW p \in Alarms,
             \/ AlarmFires(p) \/ Snapshot(p) \/ ArmDeadman(p) \/ LoopEnds(p)
             \/ Settles(p) \/ AlarmRaises(p) \/ AlarmClears(p) \/ AlarmReturns(p)
             \/ \E r \in {"clear", "fail", "oom"} : HostAlarm(p, r)
      PROVE  VersionInv'
  <2>1. AllMove
    BY <1>0, <1>6, InvocationMoves, BeginsMove
  <2> QED BY <1>1, <1>6, <2>1, InvocationCarries
<1>7. ASSUME NEW p \in Alarms, Claim(p) \/ DropUnhandled(p) PROVE VersionInv'
  BY <1>1, <1>7, ClaimCarries, DropCarries
<1>8. ASSUME NEW p \in Alarms, Track(p) \/ WorkEnds(p) \/ WorkClears(p)
      PROVE  VersionInv'
  BY <1>2, <1>8, HandoffCarries
<1>9. ASSUME NEW p \in Alarms,
             \/ AlarmFires(p) \/ Invocation(p) \/ Settles(p) \/ Track(p)
             \/ \E r \in {"fail", "oom"} : HostAlarm(p, r)
             \/ WorkEnds(p)
      PROVE  VersionInv'
  BY <1>6, <1>7, <1>8, <1>9 DEF Invocation
<1>10. ASSUME NEW th \in Threads, Breaker(th) PROVE VersionInv'
  BY <1>1, <1>10, BreakerCarries
<1>11. CASE Crash \/ Reset
  <2>1. /\ scope' = [p \in Alarms |-> Idle(NewScope(0))]
        /\ work' = [p \in Alarms |-> NoWork] /\ versions' = [j \in Jobs |-> 0]
        /\ active' = [j \in Jobs |-> 0] /\ mutationSequence' = 0
    BY <1>11 DEF Crash, Reset, Forget
  <2>2. \A p \in Alarms : /\ scope'[p].job = NoJob /\ scope'[p].pc = "idle"
                          /\ ~scope'[p].stale /\ ~IsTracked(p)'
    BY <2>1, NewScopeType, ScopeType, NoWorkType DEF IsTracked, Idle, NewScope
  <2>3. \A j : Dispatching(j)' = {}
    BY <2>2 DEF Dispatching
  <2>4. ActiveOK'
    BY <2>1, <2>3, FS_EmptySet DEF ActiveOK
  <2> QED BY <1>0, <2>1, <2>2, <2>4 DEF VersionInv, VersionOK, OutdatedOK
<1> QED BY <1>3, <1>4, <1>5, <1>9, <1>10, <1>11 DEF Next, Work

(* Initially there is no version.                                           *)
LEMMA VersionInit == Init => VersionInv
BY FenceInit, IncidentInit, FreshVersions DEF Init, VersionInv, IncidentInv

(* The policy never acts for an outdated claim or handoff, unless it does   *)
(* so to every recovery-loop job.  A claim is kept from it by the guard on  *)
(* the row (running, and started when it claimed); a handoff, whose row may *)
(* have been released in between, by the version alone.                     *)
THEOREM BackoffIsFenced == Spec => StaleBackoffIgnored
<1> DEFINE Fenced ==
      \A th \in Threads :
        breaker.holder = th /\ breaker.stage = "policy"
          /\ breaker'.stage # "policy" /\ PolicyRow(th).stale
          => LET j == PolicyRow(th).job
             IN  rows'[j] = rows[j] \/ rows[j].recoveryLoop
<1>1. VersionInv /\ [Next]_vars => [Fenced]_vars
  <2> SUFFICES ASSUME VersionInv, [Next]_vars, NEW th \in Threads,
                      breaker.holder = th, breaker.stage = "policy",
                      breaker'.stage # "policy", PolicyRow(th).stale
               PROVE  \/ rows'[PolicyRow(th).job] = rows[PolicyRow(th).job]
                      \/ rows[PolicyRow(th).job].recoveryLoop
    OBVIOUS
  <2>0. /\ TypeInv /\ th[1] \in Alarms /\ th = <<th[1], th[2]>>
        /\ Waiting(th) /\ th[2] \in {"alarm", "work"}
    BY DEF VersionInv, FenceInv, IncidentInv, BreakerOK, Threads
  <2>1. CASE Crash \/ Reset
    BY <2>1 DEF Crash, Reset, Forget
  <2>2. CASE AllMove
    BY <2>2 DEF AllMove
  <2>3. ASSUME NEW t \in Threads, Breaker(t), ~BreakerDecides(t) PROVE FALSE
    <3>1. breaker # Free
      BY DEF Free
    <3> QED BY <2>3, <3>1 DEF Breaker, BreakerSkips, BreakerEnters,
               BreakerStrikes, BreakerSeals, BreakerLeaves
  <2>4. ASSUME NEW t \in Threads, BreakerDecides(t)
        PROVE  \/ rows'[PolicyRow(th).job] = rows[PolicyRow(th).job]
               \/ rows[PolicyRow(th).job].recoveryLoop
    <3>1. rows' = PolicyRows(th)
      BY <2>4 DEF BreakerDecides
    <3>2. PICK k \in Jobs : k = PolicyRow(th).job
      <4>1. CASE th[2] = "alarm"
        BY <2>0, <4>1, VersionType DEF PolicyRow, VersionInv, VersionOK
      <4>2. CASE th[2] = "work"
        BY <2>0, <4>2, VersionType DEF PolicyRow, Waiting, IsTracked
      <4> QED BY <2>0, <4>1, <4>2
    <3>3. ASSUME VersionMatches(k, PolicyRow(th).version),
                 IntentGuard(rows, k, PolicyRow(th).row, th[2] = "alarm")
          PROVE  rows[k].recoveryLoop
      <4>1. CASE th[2] = "alarm"
        <5>1. /\ scope[th[1]].stale /\ k = scope[th[1]].job
              /\ rows[k] # NoRow /\ rows[k].running
              /\ rows[k].started = scope[th[1]].row.started
          BY <3>2, <3>3, <4>1 DEF PolicyRow, IntentGuard, Present
        <5>2. \/ Freed(rows, k)
              \/ rows[k].started > scope[th[1]].row.started
          BY <2>0, <5>1, NoJobAssumption DEF VersionInv, FenceInv, FenceOK
        <5>3. rows[k].started \in Nat
          BY <2>0, <5>1 DEF TypeInv, TypeOK, Tables, Row
        <5> QED BY <5>1, <5>2, <5>3 DEF Freed
      <4>2. CASE th[2] = "work"
        <5>1. /\ IsTracked(th[1]) /\ work[th[1]].stale /\ k = work[th[1]].job
              /\ VersionMatches(work[th[1]].job, work[th[1]].version)
          BY <2>0, <3>2, <3>3, <4>2 DEF PolicyRow, Waiting, IsTracked
        <5>2. work[th[1]].row.recoveryLoop
          BY <2>0, <4>2, <5>1 DEF VersionInv, OutdatedOK
        <5>3. rows[k].recoveryLoop = work[th[1]].row.recoveryLoop
          BY <3>3, <4>2 DEF PolicyRow, IntentGuard, SameIntent
        <5> QED BY <5>2, <5>3
      <4> QED BY <2>0, <4>1, <4>2
    <3> QED BY <2>0, <3>1, <3>2, <3>3, PolicyChanges
  <2> QED BY <2>0, <2>1, <2>2, <2>3, <2>4, StepsMove
<1> QED BY <1>1, VersionInit, VersionNext, PTL DEF Spec, StaleBackoffIgnored

(* What the memory-limit breaker may do holds for any number of jobs, of    *)
(* overlapping alarms, of handoffs and of incidents.                        *)
THEOREM BreakerStaysOrderly == Spec => BreakerIsOrderly
BY OneStrike, StrikesAreKept, BackoffIsFenced, PTL DEF BreakerIsOrderly

(* While an exclusive job exists no ordinary job is claimed, whatever list  *)
(* of due jobs a running alarm still holds.                                 *)
THEOREM ExclusiveHolds == Spec => ExclusiveHoldsUpOthers
<1> DEFINE Holds ==
      \A p \in Alarms :
        /\ scope[p].pc # "dispatch" /\ scope'[p].pc = "dispatch"
        /\ HasExclusive(rows)
        => scope'[p].row.exclusive
<1>1. FenceInv /\ [Next]_vars => [Holds]_vars
  <2> SUFFICES ASSUME FenceInv, [Next]_vars, NEW p \in Alarms,
                      scope[p].pc # "dispatch", scope'[p].pc = "dispatch",
                      HasExclusive(rows)
               PROVE  scope'[p].row.exclusive
    OBVIOUS
  <2>0. rows \in Tables /\ scope[p] \in Scopes
    BY DEF FenceInv, TypeInv, TypeOK
  <2>1. Claim(p)
    BY ClaimsOnly
  <2>2. PICK i \in 1..Len(scope[p].due) :
          /\ Eligible(p, scope[p].due[i])
          /\ scope' = [q \in Alarms |->
               IF q = p
               THEN [scope[p] EXCEPT !.pc = "dispatch", !.due = Rest(p, i),
                       !.job = scope[p].due[i],
                       !.row = MarkRunning(rows, scope[p].due[i],
                                           ClaimTime(p))[scope[p].due[i]],
                       !.version = mutationSequence + 1, !.stale = FALSE]
               ELSE Outdated(scope[q], {scope[p].due[i]})]
    BY <2>1 DEF Claim, ClaimAt
  <2>3. PICK j \in Jobs : j = scope[p].due[i]
    BY <2>0, RestType DEF Scopes
  <2>4. scope'[p].row = MarkRunning(rows, j, ClaimTime(p))[j]
    <3>1. scope'[p] = [scope[p] EXCEPT !.pc = "dispatch", !.due = Rest(p, i),
             !.job = j, !.row = MarkRunning(rows, j, ClaimTime(p))[j],
             !.version = mutationSequence + 1, !.stale = FALSE]
      BY <2>2, <2>3
    <3> QED BY <2>0, <3>1 DEF Scopes
  <2>5. rows[j] \in Row /\ rows[j].exclusive
    BY <2>0, <2>2, <2>3 DEF Eligible, IsDue, Present, Tables
  <2> QED BY <2>0, <2>4, <2>5 DEF MarkRunning, Tables, Row
<1> QED BY <1>1, FenceInit, FenceNext, PTL DEF Spec, ExclusiveHoldsUpOthers

=============================================================================

---------------------------- MODULE Fiber_proofs ----------------------------
(***************************************************************************)
(* Proofs about Fiber, for every set of ids, runners and waiters, every    *)
(* kind of call, refusal and hook answer, and any number of evictions:     *)
(* leases keep the job, the ledger is implemented, whatever memory holds of *)
(* a fiber has a task that owns it, a started fiber has the job behind it, *)
(* and the scan takes up interrupted fibers only.                          *)
(***************************************************************************)
EXTENDS Fiber, SequenceTheorems, TLAPS

-----------------------------------------------------------------------------
(* A held lease keeps the maintenance job.                                 *)

\* Inductive: while a lease is held, an outcome that would drop the job was
\* computed before the row was last written, and is ignored.
LeaseInv ==
    leases # {} => /\ job
                   /\ fired = "drop" => touched

\* At first no lease is held.
LEMMA LeaseInit == Init => LeaseInv
  BY DEF Init, LeaseInv

\* No step takes the job from under a lease: each is looked at on its own.
LEMMA LeaseStep == LeaseInv /\ [Next]_vars => LeaseInv'
  <1> SUFFICES ASSUME LeaseInv, [Next]_vars PROVE LeaseInv'
    OBVIOUS
  <1> USE DEF LeaseInv
  <1>1. ASSUME NEW r \in Runners, RunnerStep(r) PROVE LeaseInv'
    <2>1. ASSUME NEW from, NEW arming, NEW got, TakeLease(r, from, arming, got)
          PROVE LeaseInv'
      BY <2>1 DEF TakeLease, others
    <2>2. ASSUME NEW arming, NEW got, AlarmArmed(r, arming, got) PROVE LeaseInv'
      BY <2>2 DEF AlarmArmed, others
    <2>3. CASE LeaseUndone(r)
      BY <2>3 DEF LeaseUndone, Wanted, others
    <2>4. CASE ArmUndone(r)
      BY <2>4 DEF ArmUndone
    <2>5. CASE Accept(r)
      BY <2>5 DEF Accept, others
    <2>6. CASE Enter(r)
      BY <2>6 DEF Enter
    <2>7. ASSUME NEW o, Returns(r, o) PROVE LeaseInv'
      BY <2>7 DEF Returns
    <2>8. CASE Release(r)
      BY <2>8 DEF Release, others
    <2>9. CASE Released(r)
      BY <2>9 DEF Released, others
    <2> QED BY <1>1, <2>1, <2>2, <2>3, <2>4, <2>5, <2>6, <2>7, <2>8, <2>9 DEF RunnerStep
  <1>2. ASSUME NEW r \in Runners, RunnerFails(r) PROVE LeaseInv'
    <2>1. ASSUME NEW arming, NEW failed, AlarmFails(r, arming, failed) PROVE LeaseInv'
      BY <2>1 DEF AlarmFails, Wanted, others
    <2>2. CASE CallerCancelled(r)
      BY <2>2 DEF CallerCancelled, Wanted, others
    <2>3. CASE Interrupted(r)
      BY <2>3 DEF Interrupted, others
    <2> QED BY <1>2, <2>1, <2>2, <2>3 DEF RunnerFails
  <1>3. ASSUME NEW r \in Runners, NEW i \in Ids,
               StartDetached(r, i) \/ StartWaited(r, i) \/ StartPlain(r, i)
        PROVE LeaseInv'
    BY <1>3 DEF StartDetached, StartWaited, StartPlain, others
  <1>4. ASSUME NEW i \in ManagedIds, CancelFiber(i) \/ DeleteFiber(i) PROVE LeaseInv'
    BY <1>4 DEF CancelFiber, DeleteFiber, memory, others
  <1>5. ASSUME NEW i \in ManagedIds, NEW s, ResolveFiber(i, s) PROVE LeaseInv'
    BY <1>5 DEF ResolveFiber, memory
  <1>6. ASSUME NEW i \in ManagedIds, NEW w, Wait(w, i) PROVE LeaseInv'
    BY <1>6 DEF Wait, memory
  <1>7. CASE CancelReleases
    BY <1>7 DEF CancelReleases
  <1>8. CASE ScanStep
    <2>1. ASSUME NEW i \in Ids, ScanRow(i) \/ ScanLedgerRow(i) PROVE LeaseInv'
      BY <2>1 DEF ScanRow, ScanLedgerRow, memory
    <2>2. CASE ListLedger
      BY <2>2 DEF ListLedger, memory
    <2>3. CASE ScanEnds
      <3>1. leases' = leases
        BY <2>3 DEF ScanEnds, memory
      <3>2. leases # {} => Wanted(leases, ledger, rows, active)
        BY DEF Wanted
      <3> QED BY <2>3, <3>1, <3>2 DEF ScanEnds
    <2>4. ASSUME NEW end, NEW old, NEW late, HookReturns(end, old, late) PROVE LeaseInv'
      BY <2>4 DEF HookReturns, memory
    <2> QED BY <1>8, <2>1, <2>2, <2>3, <2>4 DEF ScanStep
  <1>9. CASE HookFails
    BY <1>9 DEF HookFails, memory
  <1>10. CASE JobFires
    BY <1>10 DEF JobFires, Wanted, memory
  <1>11. CASE JobOutcome
    BY <1>11 DEF JobOutcome, memory
  <1>12. CASE Crash
    BY <1>12 DEF Crash
  <1>13. CASE Restart
    BY <1>13 DEF Restart, Wanted, memory
  <1>14. CASE UNCHANGED vars
    BY <1>14 DEF vars
  <1> QED BY <1>1, <1>2, <1>3, <1>4, <1>5, <1>6, <1>7, <1>8, <1>9, <1>10, <1>11,
             <1>12, <1>13, <1>14 DEF Next

\* keep_alive: as long as a lease is held the maintenance job stays in the table,
\* whatever dispatch, release, cancel or scan overlaps with it.
THEOREM LeasesKeepJobHolds == Spec => []LeasesKeepJob
  <1>1. LeaseInv => LeasesKeepJob
    BY DEF LeaseInv, LeasesKeepJob
  <1> QED BY LeaseInit, LeaseStep, <1>1, PTL DEF Spec

-----------------------------------------------------------------------------
(* The ledger and what points into it, and the ledger's promise.           *)

RunType  == [kind : {"detached", "waited", "plain"}, id : Ids, pc : RunPcs,
             ran : BOOLEAN, aborted : BOOLEAN]
ScanType == [pc : {"idle", "rows", "hook", "ledger", "ledgerHook"},
             by : {"job", "start"} \cup Waiters, left : SUBSET Ids, id : Ids,
             was : Statuses, seen : [Ids -> Statuses]]

\* The part of the type invariant the ledger's steps depend on.
LedgerType ==
    /\ ledger \in [Ids -> Statuses] /\ rows \subseteq Ids
    /\ run \in [Runners -> RunType] /\ scan \in ScanType

\* The records of a task and a scan that do nothing are in type.
LEMMA SomeId == NoRun.id \in Ids /\ NoRun \in RunType /\ NoScan \in ScanType
  <1>1. (CHOOSE i \in Ids : TRUE) \in Ids
    BY FiberAssumption
  <1> QED BY <1>1 DEF NoRun, NoScan, RunType, ScanType, RunPcs, Statuses

\* At first the ledger and what points into it are in type.
LEMMA LedgerInit == Init => LedgerType
  BY SomeId DEF Init, LedgerType, Statuses

\* Setting a run's phase keeps its record in type.
LEMMA GoesType ==
    ASSUME run \in [Runners -> RunType], NEW r \in Runners, NEW pc \in RunPcs, Goes(r, pc)
    PROVE  run' \in [Runners -> RunType] /\ run'[r].id = run[r].id
  BY DEF Goes, RunType

\* One step of the ledger, as a change of one id to one status.
Writes(i, s) == i \in Ids /\ s \in Statuses /\ ledger' = [ledger EXCEPT ![i] = s]

\* The allowed changes of a status, one pair per action of FiberLedger.
Allowed(a, b) ==
    \/ a = "none" /\ b \in {"pending", "running", "error"}
    \/ a = "pending" /\ b \in {"none", "running", "error", "aborted", "interrupted"}
    \/ a = "running" /\ b \in Ended \cup {"interrupted"}
    \/ a = "interrupted" /\ b \in Terminal \cup Open
    \/ a \in Terminal /\ b = "none"

LedgerMoves == \E i \in Ids, s \in Statuses : Writes(i, s) /\ Allowed(ledger[i], s)

\* An allowed change of a status is a step of FiberLedger.
LEMMA AllowedIsNext == LedgerMoves => Ledger!Next
  <1> SUFFICES ASSUME NEW i \in Ids, NEW s \in Statuses,
                      ledger' = [ledger EXCEPT ![i] = s], Allowed(ledger[i], s)
               PROVE  Ledger!Next
    BY DEF LedgerMoves, Writes
  <1> USE DEF Ledger!Moves, Ledger!Ended, Ledger!Open, Ledger!Terminal, Ended, Open, Terminal
  <1>1. CASE ledger[i] = "none" /\ s \in {"pending", "running", "error"}
    <2>1. Ledger!Start(i) BY <1>1 DEF Ledger!Start
    <2> QED BY <2>1 DEF Ledger!Next
  <1>2. CASE ledger[i] = "pending" /\ s = "none"
    <2>1. Ledger!Withdraw(i) BY <1>2 DEF Ledger!Withdraw
    <2> QED BY <2>1 DEF Ledger!Next
  <1>3. CASE ledger[i] = "pending" /\ s \in {"running", "error"}
    <2>1. Ledger!Begin(i) BY <1>3 DEF Ledger!Begin
    <2> QED BY <2>1 DEF Ledger!Next
  <1>4. CASE ledger[i] = "pending" /\ s = "aborted"
    <2>1. Ledger!Cancel(i) BY <1>4 DEF Ledger!Cancel
    <2> QED BY <2>1 DEF Ledger!Next
  <1>5. CASE ledger[i] \in Open /\ s = "interrupted"
    <2>1. Ledger!Interrupt(i) BY <1>5 DEF Ledger!Interrupt
    <2> QED BY <2>1 DEF Ledger!Next
  <1>6. CASE ledger[i] = "running" /\ s \in Ended
    <2>1. Ledger!Settle(i) BY <1>6 DEF Ledger!Settle
    <2> QED BY <2>1 DEF Ledger!Next
  <1>7. CASE ledger[i] = "interrupted" /\ s \in Terminal
    <2>1. Ledger!Recover(i) BY <1>7 DEF Ledger!Recover
    <2> QED BY <2>1 DEF Ledger!Next
  <1>8. CASE ledger[i] = "interrupted" /\ s \in Open
    <2>1. Ledger!PutBack(i) BY <1>8 DEF Ledger!PutBack
    <2> QED BY <2>1 DEF Ledger!Next
  <1>9. CASE ledger[i] \in Terminal /\ s = "none"
    <2>1. Ledger!Delete(i) BY <1>9 DEF Ledger!Delete
    <2> QED BY <2>1 DEF Ledger!Next
  <1> QED BY <1>1, <1>2, <1>3, <1>4, <1>5, <1>6, <1>7, <1>8, <1>9 DEF Allowed

\* What a step may do to the ledger.
LedgerStepOK == LedgerMoves \/ UNCHANGED ledger

\* ... which keeps the ledger's own type.
LEMMA LedgerKept ==
    ASSUME ledger \in [Ids -> Statuses], LedgerStepOK
    PROVE  ledger' \in [Ids -> Statuses]
  BY DEF LedgerStepOK, LedgerMoves, Writes

\* What a step keeps: the ledger moves as it may, the rest stays in type.
StepOK ==
    /\ LedgerStepOK
    /\ rows' \subseteq Ids /\ run' \in [Runners -> RunType] /\ scan' \in ScanType

\* Writing an allowed status is a step the ledger may take.
LEMMA WriteOK ==
    ASSUME NEW i \in Ids, NEW s \in Statuses, Allowed(ledger[i], s),
           ledger' = [ledger EXCEPT ![i] = s]
    PROVE  LedgerStepOK
  BY DEF LedgerStepOK, LedgerMoves, Writes

\* So is every step of a task, up to its settling (start_fiber, run_fiber).
LEMMA RunnerStepOK ==
    ASSUME LedgerType, NEW r \in Runners, RunnerStep(r)
    PROVE  StepOK
  <1> USE DEF LedgerType
  <1> DEFINE i == run[r].id
  <1>0. i \in Ids
    BY DEF RunType
  <1> HIDE DEF i
  <1>1. ASSUME NEW from, NEW arming \in RunPcs, NEW got \in RunPcs,
               TakeLease(r, from, arming, got)
        PROVE  StepOK
    <2>1. Goes(r, arming) \/ Goes(r, got)
      BY <1>1 DEF TakeLease
    <2>2. run' \in [Runners -> RunType]
      BY <2>1, GoesType
    <2> QED BY <1>1, <2>2 DEF TakeLease, StepOK, LedgerStepOK, tables, others
  <1>2. ASSUME NEW arming, NEW got \in RunPcs, AlarmArmed(r, arming, got) PROVE StepOK
    <2>1. run' \in [Runners -> RunType]
      BY <1>2, GoesType DEF AlarmArmed
    <2> QED BY <1>2, <2>1 DEF AlarmArmed, StepOK, LedgerStepOK, tables, others
  <1>3. CASE LeaseUndone(r)
    <2>1. run' \in [Runners -> RunType]
      BY <1>3, GoesType DEF LeaseUndone, RunPcs
    <2>2. LedgerStepOK
      <3>1. CASE ledger[i] = "pending"
        <4>1. ledger' = [ledger EXCEPT ![i] = "none"]
          BY <1>3, <3>1 DEF LeaseUndone, i
        <4> QED BY <3>1, <4>1, <1>0, WriteOK DEF Allowed, Statuses
      <3>2. CASE ledger[i] # "pending"
        BY <1>3, <3>2 DEF LeaseUndone, LedgerStepOK, i
      <3> QED BY <3>1, <3>2
    <2> QED BY <1>3, <2>1, <2>2 DEF LeaseUndone, StepOK, others
  <1>4. CASE ArmUndone(r)
    <2>1. run' \in [Runners -> RunType]
      BY <1>4, GoesType DEF ArmUndone, RunPcs
    <2>2. LedgerStepOK
      <3> DEFINE s == IF run[r].aborted THEN "aborted" ELSE "error"
      <3>1. CASE ledger[i] = "running"
        <4>1. ledger' = [ledger EXCEPT ![i] = s]
          BY <1>4, <3>1 DEF ArmUndone, i
        <4>2. s \in Statuses /\ Allowed(ledger[i], s)
          BY <3>1 DEF Allowed, Statuses, Terminal, Ended
        <4> QED BY <4>1, <4>2, <1>0, WriteOK
      <3>2. CASE ledger[i] # "running"
        BY <1>4, <3>2 DEF ArmUndone, LedgerStepOK, i
      <3> QED BY <3>1, <3>2
    <2> QED BY <1>4, <2>1, <2>2 DEF ArmUndone, StepOK
  <1>5. CASE Accept(r)
    <2>1. Goes(r, "spawned") \/ Goes(r, "release")
      BY <1>5 DEF Accept
    <2>2. run' \in [Runners -> RunType]
      BY <2>1, GoesType DEF RunPcs
    <2> QED BY <1>5, <2>2 DEF Accept, StepOK, LedgerStepOK, tables, others
  <1>6. CASE Enter(r)
    <2>1. CASE ledger[i] = "pending" /\ i \notin rows
      <3>1. /\ ledger' = [ledger EXCEPT ![i] = "running"]
            /\ rows' = rows \cup {i}
            /\ run' = [run EXCEPT ![r].pc = "running", ![r].ran = TRUE]
            /\ scan' = scan
        BY <1>6, <2>1 DEF Enter, i
      <3>2. run' \in [Runners -> RunType]
        <4>1. /\ run \in [Runners -> RunType] /\ run[r] \in RunType
              /\ "running" \in RunPcs
          BY DEF RunPcs
        <4>2. [run[r] EXCEPT !.pc = "running", !.ran = TRUE] \in RunType
          BY <4>1 DEF RunType
        <4>3. run' = [run EXCEPT ![r] = [run[r] EXCEPT !.pc = "running", !.ran = TRUE]]
          BY <3>1, <4>1 DEF RunType
        <4> QED BY <4>1, <4>2, <4>3
      <3>3. LedgerStepOK
        BY <3>1, <2>1, <1>0, WriteOK DEF Allowed, Statuses, Open
      <3> QED BY <3>1, <3>2, <3>3, <1>0 DEF StepOK
    <2>2. CASE ledger[i] = "pending" /\ i \in rows
      <3>1. /\ ledger' = [ledger EXCEPT ![i] = "error"]
            /\ rows' = rows /\ Goes(r, "release") /\ scan' = scan
        BY <1>6, <2>2 DEF Enter, i
      <3>2. run' \in [Runners -> RunType]
        BY <3>1, GoesType DEF RunPcs
      <3>3. LedgerStepOK
        BY <3>1, <2>2, <1>0, WriteOK DEF Allowed, Statuses, Terminal, Ended
      <3> QED BY <3>1, <3>2, <3>3 DEF StepOK
    <2>3. CASE ledger[i] # "pending"
      <3>1. ledger' = ledger /\ rows' = rows /\ Goes(r, "release") /\ scan' = scan
        BY <1>6, <2>3 DEF Enter, i
      <3>2. run' \in [Runners -> RunType]
        BY <3>1, GoesType DEF RunPcs
      <3> QED BY <3>1, <3>2 DEF StepOK, LedgerStepOK
    <2> QED BY <2>1, <2>2, <2>3
  <1>7. ASSUME NEW o, Returns(r, o) PROVE StepOK
    <2>1. run' \in [Runners -> RunType]
      BY <1>7, GoesType DEF Returns, RunPcs
    <2>2. LedgerStepOK
      <3> DEFINE s == IF o = "completed" THEN "completed"
                      ELSE IF run[r].aborted THEN "aborted" ELSE "error"
      <3>1. CASE run[r].kind # "plain" /\ ledger[i] = "running"
        <4>1. ledger' = [ledger EXCEPT ![i] = s]
          BY <1>7, <3>1 DEF Returns, Settled, i
        <4>2. s \in Statuses /\ Allowed(ledger[i], s)
          BY <3>1 DEF Allowed, Statuses, Terminal, Ended
        <4> QED BY <4>1, <4>2, <1>0, WriteOK
      <3>2. CASE run[r].kind = "plain" \/ ledger[i] # "running"
        BY <1>7, <3>2 DEF Returns, Settled, LedgerStepOK, i
      <3> QED BY <3>1, <3>2
    <2> QED BY <1>7, <2>1, <2>2 DEF Returns, StepOK
  <1>8. ASSUME Release(r) \/ Released(r) PROVE StepOK
    <2>1. Goes(r, "releasing") \/ Goes(r, "done")
      BY <1>8 DEF Release, Released, Wrapper
    <2>2. run' \in [Runners -> RunType]
      BY <2>1, GoesType DEF RunPcs
    <2> QED BY <1>8, <2>2 DEF Release, Released, StepOK, LedgerStepOK, tables, others
  <1>9. {"lease", "leaseArm", "leased", "arm", "arming", "running"} \subseteq RunPcs
    BY DEF RunPcs
  <1> QED BY <1>1, <1>2, <1>3, <1>4, <1>5, <1>6, <1>7, <1>8, <1>9 DEF RunnerStep

\* So is every call: start, cancel, resolve, delete and wait.
LEMMA ClientStepOK ==
    ASSUME LedgerType, NEW i \in Ids,
           \/ \E r \in Runners : StartDetached(r, i) \/ StartWaited(r, i) \/ StartPlain(r, i)
           \/ CancelFiber(i) \/ DeleteFiber(i)
           \/ \E s \in Terminal : ResolveFiber(i, s)
           \/ \E w \in Waiters : Wait(w, i)
    PROVE  StepOK
  <1> USE DEF LedgerType
  <1>1. ASSUME NEW r \in Runners, StartDetached(r, i) PROVE StepOK
    <2>1. [NoRun EXCEPT !.id = i, !.pc = "lease"] \in RunType
      BY SomeId DEF RunType, RunPcs
    <2>2. run' \in [Runners -> RunType]
      BY <1>1, <2>1 DEF StartDetached
    <2>3. ledger[i] = "none" /\ ledger' = [ledger EXCEPT ![i] = "pending"]
      BY <1>1 DEF StartDetached
    <2>4. LedgerStepOK
      BY <2>3, WriteOK DEF Allowed, Statuses, Open
    <2> QED BY <1>1, <2>2, <2>4 DEF StartDetached, StepOK
  <1>2. ASSUME NEW r \in Runners, StartWaited(r, i) PROVE StepOK
    <2>1. CASE i \in rows
      <3>1. [NoRun EXCEPT !.kind = "waited", !.id = i, !.pc = "done"] \in RunType
        BY SomeId DEF RunType, RunPcs
      <3>2. /\ run' \in [Runners -> RunType] /\ rows' = rows /\ scan' = scan
            /\ ledger[i] = "none" /\ ledger' = [ledger EXCEPT ![i] = "error"]
        BY <1>2, <2>1, <3>1 DEF StartWaited
      <3>3. LedgerStepOK
        BY <3>2, WriteOK DEF Allowed, Statuses, Terminal, Ended
      <3> QED BY <3>2, <3>3 DEF StepOK
    <2>2. CASE i \notin rows
      <3>1. [kind |-> "waited", id |-> i, pc |-> "arm", ran |-> TRUE, aborted |-> FALSE]
               \in RunType
        BY DEF RunType, RunPcs
      <3>2. /\ run' \in [Runners -> RunType] /\ rows' = rows \cup {i} /\ scan' = scan
            /\ ledger[i] = "none" /\ ledger' = [ledger EXCEPT ![i] = "running"]
        BY <1>2, <2>2, <3>1 DEF StartWaited
      <3>3. LedgerStepOK
        BY <3>2, WriteOK DEF Allowed, Statuses, Open
      <3> QED BY <3>2, <3>3 DEF StepOK
    <2> QED BY <2>1, <2>2
  <1>3. ASSUME NEW r \in Runners, StartPlain(r, i) PROVE StepOK
    <2>1. [kind |-> "plain", id |-> i, pc |-> "arm", ran |-> TRUE, aborted |-> FALSE]
             \in RunType
      BY DEF RunType, RunPcs
    <2>2. run' \in [Runners -> RunType]
      BY <1>3, <2>1 DEF StartPlain
    <2> QED BY <1>3, <2>2 DEF StartPlain, StepOK, LedgerStepOK, others
  <1>4. CASE CancelFiber(i)
    <2>1. ledger[i] \in Open /\ ledger' = [ledger EXCEPT ![i] = "aborted"]
      BY <1>4 DEF CancelFiber
    <2>2. LedgerStepOK
      BY <2>1, WriteOK DEF Allowed, Statuses, Open, Terminal, Ended
    <2>3. run' = [r \in Runners |-> [run[r] EXCEPT !.aborted = @ \/ aborts[i] = r]]
      BY <1>4 DEF CancelFiber
    <2>4. ASSUME NEW r \in Runners, NEW b \in BOOLEAN
          PROVE  [run[r] EXCEPT !.aborted = b] \in RunType
      BY DEF RunType
    <2>5. \A r \in Runners : (run[r].aborted \/ aborts[i] = r) \in BOOLEAN
      OBVIOUS
    <2>6. \A r \in Runners : [run[r] EXCEPT !.aborted = @ \/ aborts[i] = r] \in RunType
      BY <2>4, <2>5
    <2>7. run' \in [Runners -> RunType]
      BY <2>3, <2>6
    <2> QED BY <1>4, <2>2, <2>7 DEF CancelFiber, StepOK
  <1>5. CASE DeleteFiber(i)
    <2>1. ledger[i] \in Terminal /\ ledger' = [ledger EXCEPT ![i] = "none"]
      BY <1>5 DEF DeleteFiber
    <2>2. LedgerStepOK
      BY <2>1, WriteOK DEF Allowed, Statuses
    <2> QED BY <1>5, <2>2 DEF DeleteFiber, StepOK, others
  <1>6. ASSUME NEW s \in Terminal, ResolveFiber(i, s) PROVE StepOK
    <2>1. ledger[i] = "interrupted" /\ ledger' = [ledger EXCEPT ![i] = s]
      BY <1>6 DEF ResolveFiber, Resolved
    <2>2. LedgerStepOK
      BY <2>1, WriteOK DEF Allowed, Statuses
    <2> QED BY <1>6, <2>2 DEF ResolveFiber, StepOK
  <1>7. ASSUME NEW w \in Waiters, Wait(w, i) PROVE StepOK
    <2>1. scan' = scan \/ BeginScan(w)
      BY <1>7 DEF Wait
    <2>2. scan' \in ScanType
      BY <2>1, SomeId DEF BeginScan, ScanType
    <2> QED BY <1>7, <2>2 DEF Wait, StepOK, LedgerStepOK, tables
  <1> QED BY <1>1, <1>2, <1>3, <1>4, <1>5, <1>6, <1>7

\* So is every failure of a task's alarm or caller.
LEMMA FailStepOK ==
    ASSUME LedgerType, NEW r \in Runners, RunnerFails(r)
    PROVE  StepOK
  <1> USE DEF LedgerType
  <1>1. ASSUME NEW arming, NEW failed \in RunPcs, AlarmFails(r, arming, failed)
        PROVE  StepOK
    <2>1. run' \in [Runners -> RunType]
      BY <1>1, GoesType DEF AlarmFails
    <2> QED BY <1>1, <2>1 DEF AlarmFails, StepOK, LedgerStepOK, tables, others
  <1>2. CASE CallerCancelled(r)
    <2>1. run' \in [Runners -> RunType]
      BY <1>2, GoesType DEF CallerCancelled, RunPcs
    <2> QED BY <1>2, <2>1 DEF CallerCancelled, StepOK, LedgerStepOK, tables, others
  <1>3. CASE Interrupted(r)
    <2>1. run' \in [Runners -> RunType]
      BY <1>3, GoesType DEF Interrupted, RunPcs
    <2> QED BY <1>3, <2>1 DEF Interrupted, StepOK, LedgerStepOK, tables, others
  <1>4. {"leaseFailed", "armFailed"} \subseteq RunPcs
    BY DEF RunPcs
  <1> QED BY <1>1, <1>2, <1>3, <1>4 DEF RunnerFails

\* So is every step of the recovery scan and its hook.
LEMMA ScanStepOK ==
    ASSUME LedgerType, ScanStep \/ HookFails
    PROVE  StepOK
  <1> USE DEF LedgerType
  <1>1. "interrupted" \in Statuses /\ Terminal \subseteq Statuses /\ Open \subseteq Statuses
    BY DEF Statuses, Terminal
  <1>0. ASSUME NEW i \in Ids, ledger' = ledger \/ ledger' = Marked(i) PROVE LedgerStepOK
    <2>1. CASE ledger' = Marked(i) /\ ledger[i] \in Open
      <3>1. ledger' = [ledger EXCEPT ![i] = "interrupted"]
        BY <2>1 DEF Marked
      <3>2. Allowed(ledger[i], "interrupted")
        BY <2>1 DEF Allowed, Open
      <3> QED BY <3>1, <3>2, <1>1, WriteOK
    <2>2. CASE ledger' = ledger \/ ledger[i] \notin Open
      BY <1>0, <2>2 DEF Marked, LedgerStepOK
    <2> QED BY <1>0, <2>1, <2>2
  <1>2. ASSUME NEW i \in Ids, ScanRow(i) PROVE StepOK
    <2>1. ledger' = ledger \/ ledger' = Marked(i)
      BY <1>2 DEF ScanRow
    <2>2. LedgerStepOK
      BY <2>1, <1>0
    <2>3. scan' \in ScanType
      <3> DEFINE rest == [scan EXCEPT !.left = @ \ {i}]
      <3>1. rest \in ScanType
        BY DEF ScanType
      <3>2. scan' = rest \/ scan' = [rest EXCEPT !.pc = "hook", !.id = i, !.was = ledger[i]]
        BY <1>2 DEF ScanRow
      <3>3. ledger[i] \in Statuses
        OBVIOUS
      <3> HIDE DEF rest
      <3> QED BY <3>1, <3>2, <3>3 DEF ScanType
    <2> QED BY <1>2, <2>2, <2>3 DEF ScanRow, StepOK
  <1>3. ASSUME NEW i \in Ids, ScanLedgerRow(i) PROVE StepOK
    <2>1. ledger' = ledger \/ ledger' = Marked(i)
      BY <1>3 DEF ScanLedgerRow
    <2>2. LedgerStepOK
      BY <2>1, <1>0
    <2>3. scan' \in ScanType
      <3> DEFINE rest == [scan EXCEPT !.left = @ \ {i}]
      <3>1. rest \in ScanType
        BY DEF ScanType
      <3>2. \/ scan' = rest
            \/ scan' = [rest EXCEPT !.pc = "ledgerHook", !.id = i, !.was = scan.seen[i]]
        BY <1>3 DEF ScanLedgerRow
      <3>3. scan.seen[i] \in Statuses
        BY DEF ScanType
      <3> HIDE DEF rest
      <3> QED BY <3>1, <3>2, <3>3 DEF ScanType
    <2> QED BY <1>3, <2>2, <2>3 DEF ScanLedgerRow, StepOK
  <1>4. CASE ListLedger
    <2>1. scan' = [scan EXCEPT !.pc = "ledger", !.left = LedgerOnly, !.seen = ledger]
      BY <1>4 DEF ListLedger
    <2>2. scan' \in ScanType
      BY <2>1 DEF ScanType, LedgerOnly
    <2> QED BY <1>4, <2>2 DEF ListLedger, StepOK, LedgerStepOK, tables
  <1>5. CASE ScanEnds
    BY <1>5, SomeId DEF ScanEnds, StepOK, LedgerStepOK, tables
  <1>6. ASSUME NEW end \in HookEnds, NEW old \in BOOLEAN, NEW late \in BOOLEAN,
               HookReturns(end, old, late)
        PROVE  StepOK
    <2> DEFINE i == scan.id
    <2>1. i \in Ids
      BY DEF ScanType
    <2>2. LedgerStepOK
      <3>1. CASE Managed /\ end # "nothing" /\ ledger[i] = "interrupted"
        <4>1. HookStatus(end) \in Terminal
          BY <1>6, <3>1, FiberAssumption DEF HookReturns, HookStatus, Terminal, Ended
        <4>2. ledger' = [ledger EXCEPT ![i] = HookStatus(end)]
          BY <1>6, <3>1 DEF HookReturns, Resolved
        <4>3. Allowed(ledger[i], HookStatus(end))
          BY <3>1, <4>1 DEF Allowed
        <4> HIDE DEF i
        <4> QED BY <2>1, <4>1, <4>2, <4>3, <1>1, WriteOK
      <3>2. CASE ~(Managed /\ end # "nothing" /\ ledger[i] = "interrupted")
        BY <1>6, <3>2 DEF HookReturns, Resolved, LedgerStepOK
      <3> QED BY <3>1, <3>2
    <2>3. scan' \in ScanType
      <3>1. \/ scan' = [scan EXCEPT !.pc = "ledger", !.left = {}]
            \/ scan' = [scan EXCEPT !.pc = "rows"]
            \/ scan' = [scan EXCEPT !.pc = "ledger"]
        BY <1>6 DEF HookReturns
      <3> QED BY <3>1 DEF ScanType
    <2>4. rows' \subseteq Ids /\ run' = run
      BY <1>6 DEF HookReturns
    <2> QED BY <2>2, <2>3, <2>4 DEF StepOK
  <1>7. CASE HookFails
    <2> DEFINE i == scan.id
    <2>1. i \in Ids
      BY DEF ScanType
    <2>2. LedgerStepOK
      <3>1. CASE scan.was \in Open /\ ledger[i] = "interrupted"
        <4>1. ledger' = [ledger EXCEPT ![i] = scan.was]
          BY <1>7, <3>1 DEF HookFails, Resolved
        <4>2. Allowed(ledger[i], scan.was)
          BY <3>1 DEF Allowed
        <4> HIDE DEF i
        <4> QED BY <2>1, <3>1, <4>1, <4>2, <1>1, WriteOK
      <3>2. CASE ~(scan.was \in Open /\ ledger[i] = "interrupted")
        BY <1>7, <3>2 DEF HookFails, Resolved, LedgerStepOK
      <3> QED BY <3>1, <3>2
    <2> QED BY <1>7, <2>2, SomeId DEF HookFails, StepOK
  <1> QED BY <1>2, <1>3, <1>4, <1>5, <1>6, <1>7 DEF ScanStep

\* So is every step there is: evictions, restarts and the job's dispatch as well.
LEMMA EveryStepOK == LedgerType /\ [Next]_vars => StepOK
  <1> SUFFICES ASSUME LedgerType, [Next]_vars PROVE StepOK
    OBVIOUS
  <1> USE DEF LedgerType
  <1>1. ASSUME NEW r \in Runners, RunnerStep(r) PROVE StepOK
    BY <1>1, RunnerStepOK
  <1>2. ASSUME NEW r \in Runners, RunnerFails(r) PROVE StepOK
    BY <1>2, FailStepOK
  <1>3. ASSUME NEW r \in Runners, NEW i \in Ids,
               StartDetached(r, i) \/ StartWaited(r, i) \/ StartPlain(r, i)
        PROVE  StepOK
    BY <1>3, ClientStepOK
  <1>4. ASSUME NEW i \in ManagedIds,
               \/ CancelFiber(i) \/ DeleteFiber(i)
               \/ \E s \in Terminal : ResolveFiber(i, s)
               \/ \E w \in Waiters : Wait(w, i)
        PROVE  StepOK
    <2>1. i \in Ids
      BY DEF Ids
    <2> QED BY <1>4, <2>1, ClientStepOK
  <1>5. CASE CancelReleases
    BY <1>5 DEF CancelReleases, StepOK, LedgerStepOK, tables
  <1>6. CASE ScanStep \/ HookFails
    BY <1>6, ScanStepOK
  <1>7. CASE JobFires
    <2>1. scan' = scan \/ BeginScan("job")
      BY <1>7 DEF JobFires
    <2>2. scan' \in ScanType
      BY <2>1, SomeId DEF BeginScan, ScanType
    <2> QED BY <1>7, <2>2 DEF JobFires, StepOK, LedgerStepOK, tables
  <1>8. CASE JobOutcome
    BY <1>8 DEF JobOutcome, StepOK, LedgerStepOK, tables
  <1>9. CASE Crash
    <2>1. run' \in [Runners -> RunType]
      <3>1. ASSUME NEW r \in Runners PROVE [run[r] EXCEPT !.pc = "lost"] \in RunType
        BY DEF RunType, RunPcs
      <3> QED BY <1>9, <3>1 DEF Crash
    <2> QED BY <1>9, <2>1, SomeId DEF Crash, StepOK, LedgerStepOK, tables
  <1>10. CASE Restart
    <2>1. scan' = scan \/ BeginScan("start")
      BY <1>10 DEF Restart
    <2>2. scan' \in ScanType
      BY <2>1, SomeId DEF BeginScan, ScanType
    <2> QED BY <1>10, <2>2 DEF Restart, StepOK, LedgerStepOK, tables
  <1>11. CASE UNCHANGED vars
    BY <1>11 DEF vars, StepOK, LedgerStepOK
  <1> QED BY <1>1, <1>2, <1>3, <1>4, <1>5, <1>6, <1>7, <1>8, <1>9, <1>10, <1>11 DEF Next

\* The ledger holds statuses only, and what the tasks and the scan point at are ids.
THEOREM LedgerTypeCorrect == Spec => []LedgerType
  <1>1. LedgerType /\ [Next]_vars => LedgerType'
    BY EveryStepOK, LedgerKept DEF StepOK, LedgerType
  <1> QED BY LedgerInit, <1>1, PTL DEF Spec

\* Every status change any task, scan, client or eviction makes is one the ledger
\* promises: a settled fiber stays settled, a begun one is not queued again.
THEOREM LedgerImplemented == Spec => ImplementsLedger
  <1>1. Init => Ledger!Init
    BY DEF Init, Ledger!Init
  <1>2. LedgerType /\ [Next]_vars => [Ledger!Next]_ledger
    BY EveryStepOK, AllowedIsNext DEF StepOK, LedgerStepOK
  <1> QED BY LedgerTypeCorrect, <1>1, <1>2, PTL DEF Spec, ImplementsLedger, Ledger!Spec

\* In particular no late callback, hook answer, cancel or resolve changes how a
\* fiber settled, and a fiber that began waits for no second run.
THEOREM SettledStaysSettled ==
    Spec => Ledger!SettledIsFinal /\ Ledger!BegunIsNotQueued
  <1>1. ASSUME LedgerType, [Next]_vars, NEW i \in Ids
        PROVE  /\ ledger[i] \in Ended => ledger'[i] \in {ledger[i], "none"}
               /\ ledger[i] = "running" => ledger'[i] # "pending"
    <2>1. CASE UNCHANGED ledger
      BY <2>1 DEF Ended
    <2>2. CASE LedgerMoves
      <3>1. PICK j \in Ids, s \in Statuses : Writes(j, s) /\ Allowed(ledger[j], s)
        BY <2>2 DEF LedgerMoves
      <3>2. CASE i = j
        BY <3>1, <3>2 DEF Writes, Allowed, LedgerType, Ended, Terminal, Open
      <3>3. CASE i # j
        BY <3>1, <3>3 DEF Writes, LedgerType, Ended
      <3> QED BY <3>2, <3>3
    <2> QED BY <1>1, <2>1, <2>2, EveryStepOK DEF StepOK, LedgerStepOK
  <1>2. LedgerType /\ [Next]_vars =>
          /\ [\A i \in Ids : ledger[i] \in Ledger!Ended =>
                             ledger'[i] \in {ledger[i], "none"}]_ledger
          /\ [\A i \in Ids : ledger[i] = "running" => ledger'[i] # "pending"]_ledger
    BY <1>1 DEF Ended, Ledger!Ended
  <1> QED BY LedgerTypeCorrect, <1>2, PTL
          DEF Spec, Ledger!SettledIsFinal, Ledger!BegunIsNotQueued

-----------------------------------------------------------------------------
(* The lock of the leases, and the types.                                  *)

Queued == Runners \cup {Canceller}

\* The phases in which a call has the lock and waits with it.
Holding == {"leaseArm", "leaseFailed", "arming", "armFailed", "releasing"}

\* Whoever waits with the lock is at the head of the queue: at most one does.
LockInv ==
    /\ \A r \in Runners : run[r].pc \in Holding => HasLock(r)
    /\ cancel.pc = "releasing" => HasLock(Canceller)

TypeInv == TypeOK /\ LockInv

\* The parts of the type invariant that LedgerType leaves.
MemoryType ==
    /\ active \subseteq Ids /\ leases \subseteq Runners /\ queue \in Seq(Queued)
    /\ aborts \in [Ids -> Runners \cup {NoRunner}]
    /\ pending \in [Ids -> Runners \cup {NoRunner}]
    /\ cancel \in [pc : {"idle", "release", "releasing"}, id : Ids,
                   lease : Runners \cup {NoRunner}]
RestType ==
    /\ job \in BOOLEAN /\ touched \in BOOLEAN
    /\ fired \in {"no", "scanning", "keep", "drop"}
    /\ waiter \in [Waiters -> [pc : {"idle", "scanning", "waiting", "done"}, id : Ids]]
    /\ turn \in Runners \cup {Canceller, Scanner, Free}
    /\ up \in {"ready", "starting", "down"} /\ returned \subseteq Ids
    /\ crashes \in 0..MaxCrashes

\* The type invariant is those parts and the ledger's.
LEMMA TypeParts == TypeOK <=> LedgerType /\ MemoryType /\ RestType
  BY DEF TypeOK, LedgerType, MemoryType, RestType, RunType, ScanType, Queued

\* Queueing gives no one else the lock.
LEMMA EnqueueKeepsHead ==
    ASSUME queue \in Seq(Queued), NEW t \in Queued, Enqueue(t)
    PROVE  /\ queue' \in Seq(Queued) /\ queue' # <<>> /\ turn' \in {t, Free}
           /\ queue # <<>> => Head(queue') = Head(queue)
  <1>1. queue' = Append(queue, t) /\ turn' \in {t, Free}
    BY DEF Enqueue
  <1> QED BY <1>1, HeadTailAppend, AppendProperties

\* Nor does leaving the queue from behind.
LEMMA RemoveKeepsHead ==
    ASSUME queue \in Seq(Queued), NEW k \in DOMAIN queue, queue' = RemoveAt(queue, k)
    PROVE  /\ queue' \in Seq(Queued)
           /\ queue[k] # Head(queue) => queue' # <<>> /\ Head(queue') = Head(queue)
  <1> DEFINE front == SubSeq(queue, 1, k - 1)
             back  == SubSeq(queue, k + 1, Len(queue))
  <1>1. /\ Len(queue) \in Nat /\ k \in 1..Len(queue)
        /\ \A j \in 1..Len(queue) : queue[j] \in Queued
    BY LenProperties
  <1>2. /\ front \in Seq(Queued) /\ Len(front) = k - 1
        /\ \A j \in 1..(k - 1) : front[j] = queue[j]
    <2>1. /\ 1 \in Int /\ k - 1 \in Int /\ \A j \in 1..(k - 1) : queue[j] \in Queued
      BY <1>1
    <2>2. /\ SubSeq(queue, 1, k - 1) \in Seq(Queued)
          /\ Len(SubSeq(queue, 1, k - 1)) = IF 1 <= k - 1 THEN (k - 1) - 1 + 1 ELSE 0
          /\ \A i \in 1..((k - 1) - 1 + 1) :
               SubSeq(queue, 1, k - 1)[i] = queue[1 + i - 1]
      BY <2>1, SubSeqProperties
    <2> QED BY <1>1, <2>2
  <1>3. back \in Seq(Queued) /\ Len(back) \in Nat
    <2>1. /\ k + 1 \in Int /\ Len(queue) \in Int
          /\ \A j \in (k + 1)..Len(queue) : queue[j] \in Queued
      BY <1>1
    <2>2. back \in Seq(Queued)
      BY <2>1, SubSeqProperties
    <2> QED BY <2>2, LenProperties
  <1>4. queue' = front \o back
    BY DEF RemoveAt
  <1> HIDE DEF front, back
  <1>5. /\ queue' \in Seq(Queued) /\ Len(queue') = Len(front) + Len(back)
        /\ \A j \in 1..(Len(front) + Len(back)) :
             queue'[j] = IF j <= Len(front) THEN front[j] ELSE back[j - Len(front)]
    BY <1>2, <1>3, <1>4, ConcatProperties
  <1>6. ASSUME queue[k] # Head(queue) PROVE queue' # <<>> /\ Head(queue') = Head(queue)
    <2>1. Head(queue) = queue[1]
      BY <1>1
    <2>2. k > 1
      BY <1>1, <1>6, <2>1
    <2>3. Len(queue') > 0 /\ queue'[1] = queue[1]
      BY <1>1, <1>2, <1>3, <1>5, <2>2
    <2> QED BY <1>5, <2>1, <2>3
  <1> QED BY <1>5, <1>6

\* One call moves ...
Moves(r, pc) ==
    /\ run' \in [Runners -> RunType] /\ run'[r].pc = pc
    /\ \A s \in Runners : s # r => run'[s] = run[s]

\* ... and nothing of it but its phase changes.
Only(r, pc) ==
    /\ Moves(r, pc)
    /\ run'[r].id = run[r].id /\ run'[r].kind = run[r].kind /\ run'[r].ran = run[r].ran

\* That is what setting its phase does.
LEMMA GoesOnly ==
    ASSUME run \in [Runners -> RunType], NEW r \in Runners, NEW pc \in RunPcs, Goes(r, pc)
    PROVE  Only(r, pc)
  BY GoesType DEF Goes, Only, Moves, RunType

\* Waiting futures stay futures.
LEMMA NotifiedType ==
    ASSUME RestType, NEW ids, NEW l
    PROVE  Notified(ids, l) \in
             [Waiters -> [pc : {"idle", "scanning", "waiting", "done"}, id : Ids]]
  BY DEF RestType, Notified

\* A task with the lock excludes the others: what it does with the head of the
\* queue leaves no second holder behind.
LEMMA HolderLeaves ==
    ASSUME TypeInv, NEW r \in Runners, HasLock(r), NEW pc \in RunPcs \ Holding,
           Moves(r, pc), UNCHANGED cancel, queue' = Tail(queue)
    PROVE  LockInv' /\ queue' \in Seq(Queued)
  <1>1. queue \in Seq(Queued) /\ queue # <<>> /\ Head(queue) = r
    BY TypeParts DEF TypeInv, MemoryType, HasLock
  <1>2. \A s \in Runners : s # r => run[s].pc \notin Holding
    BY <1>1 DEF TypeInv, LockInv, HasLock
  <1>3. cancel.pc # "releasing"
    BY <1>1, FiberAssumption DEF TypeInv, LockInv, HasLock
  <1> QED BY <1>1, <1>2, <1>3, HeadTailProperties DEF LockInv, Moves

\* A task that goes on holding the lock.
LEMMA HolderStays ==
    ASSUME TypeInv, NEW r \in Runners, HasLock(r), NEW pc \in RunPcs,
           Moves(r, pc), UNCHANGED <<cancel, queue>>
    PROVE  LockInv'
  BY DEF LockInv, Moves, HasLock, TypeInv

\* A task without it queues, or goes on to something else.
LEMMA OutsiderMoves ==
    ASSUME TypeInv, NEW r \in Runners, NEW pc \in RunPcs \ Holding, Moves(r, pc),
           UNCHANGED cancel,
           Enqueue(r) \/ UNCHANGED queue
    PROVE  LockInv' /\ queue' \in Seq(Queued)
  <1>1. queue \in Seq(Queued) /\ r \in Queued
    BY TypeParts DEF TypeInv, MemoryType, Queued
  <1>2. /\ queue' \in Seq(Queued)
        /\ queue # <<>> => queue' # <<>> /\ Head(queue') = Head(queue)
    BY <1>1, EnqueueKeepsHead
  <1> QED BY <1>2 DEF TypeInv, LockInv, HasLock, Moves

\* What a step keeps besides what StepOK says: the lock and the types.
MemoryOK == MemoryType' /\ RestType' /\ LockInv'

\* The steps of a task keep them.
LEMMA RunnerMemoryOK ==
    ASSUME TypeInv, NEW r \in Runners, RunnerStep(r)
    PROVE  MemoryOK
  <1>0. /\ LedgerType /\ MemoryType /\ RestType
        /\ run[r].id \in Ids /\ r \in Queued
    BY TypeParts DEF TypeInv, LedgerType, RunType, Queued
  <1>a. run \in [Runners -> RunType]
    BY <1>0 DEF LedgerType
  <1>b. run[r].pc \in Holding => HasLock(r)
    BY DEF TypeInv, LockInv
  <1>1. ASSUME NEW from \in {"lease", "arm"}, NEW arming \in RunPcs,
               NEW got \in RunPcs \ Holding, TakeLease(r, from, arming, got)
        PROVE  MemoryOK
    <2>1. CASE leases = {}
      <3>1. Only(r, arming) /\ UNCHANGED <<cancel, queue>> /\ HasLock(r)
        BY <1>1, <1>a, <2>1, GoesOnly DEF TakeLease, others
      <3>2. LockInv'
        BY <3>1, HolderStays DEF Only
      <3>3. MemoryType'
        BY <1>0, <1>1, <3>1 DEF TakeLease, MemoryType, others
      <3>4. RestType'
        BY <1>0, <1>1, <2>1 DEF TakeLease, RestType, others
      <3> QED BY <3>2, <3>3, <3>4 DEF MemoryOK
    <2>2. CASE leases # {}
      <3>1. Only(r, got) /\ UNCHANGED cancel /\ HasLock(r) /\ queue' = Tail(queue)
        BY <1>1, <1>a, <2>2, GoesOnly DEF TakeLease, others
      <3>2. LockInv' /\ queue' \in Seq(Queued)
        BY <3>1, HolderLeaves DEF Only
      <3>3. MemoryType'
        BY <1>0, <1>1, <3>1, <3>2 DEF TakeLease, MemoryType, others
      <3>4. RestType'
        BY <1>0, <1>1, <2>2 DEF TakeLease, RestType, others
      <3> QED BY <3>2, <3>3, <3>4 DEF MemoryOK
    <2> QED BY <2>1, <2>2
  <1>2. ASSUME NEW arming \in Holding, NEW got \in RunPcs \ Holding,
               AlarmArmed(r, arming, got)
        PROVE  MemoryOK
    <2>1. Only(r, got) /\ UNCHANGED cancel /\ HasLock(r) /\ queue' = Tail(queue)
      BY <1>2, <1>a, <1>b, GoesOnly DEF AlarmArmed, others
    <2>2. LockInv' /\ queue' \in Seq(Queued)
      BY <2>1, HolderLeaves DEF Only
    <2>3. MemoryType'
      BY <1>0, <1>2, <2>1, <2>2 DEF AlarmArmed, MemoryType, others
    <2>4. RestType'
      BY <1>0, <1>2 DEF AlarmArmed, RestType, others
    <2> QED BY <2>2, <2>3, <2>4 DEF MemoryOK
  <1>3. CASE LeaseUndone(r)
    <2>1. Only(r, "done") /\ UNCHANGED cancel /\ HasLock(r) /\ queue' = Tail(queue)
      BY <1>3, <1>a, <1>b, GoesOnly DEF LeaseUndone, others, Holding, RunPcs
    <2>2. LockInv' /\ queue' \in Seq(Queued)
      BY <2>1, HolderLeaves DEF Only, RunPcs, Holding
    <2>3. MemoryType'
      BY <1>0, <1>3, <2>1, <2>2 DEF LeaseUndone, MemoryType, others
    <2>4. RestType'
      BY <1>0, <1>3 DEF LeaseUndone, RestType, others, Wanted, HasPendingRecovery
    <2> QED BY <2>2, <2>3, <2>4 DEF MemoryOK
  <1>4. CASE ArmUndone(r)
    <2>1. Only(r, "done") /\ UNCHANGED cancel /\ HasLock(r) /\ queue' = Tail(queue)
      BY <1>4, <1>a, <1>b, GoesOnly DEF ArmUndone, Holding, RunPcs
    <2>2. LockInv' /\ queue' \in Seq(Queued)
      BY <2>1, HolderLeaves DEF Only, RunPcs, Holding
    <2>3. MemoryType'
      BY <1>0, <1>4, <2>1, <2>2 DEF ArmUndone, MemoryType
    <2>4. RestType'
      <3>1. waiter' \in [Waiters -> [pc : {"idle", "scanning", "waiting", "done"}, id : Ids]]
        BY <1>0, <1>4, NotifiedType DEF ArmUndone
      <3> QED BY <1>0, <1>4, <3>1 DEF ArmUndone, RestType
    <2> QED BY <2>2, <2>3, <2>4 DEF MemoryOK
  <1>5. CASE Accept(r)
    <2>1. PICK pc \in {"spawned", "release"} :
            Only(r, pc) /\ (Enqueue(r) \/ (UNCHANGED queue /\ turn' = Free))
      BY <1>5, <1>a, GoesOnly DEF Accept, RunPcs
    <2>2. LockInv' /\ queue' \in Seq(Queued)
      BY <1>5, <2>1, OutsiderMoves DEF Only, Accept, others, RunPcs, Holding
    <2>3. MemoryType'
      BY <1>0, <1>5, <2>2 DEF Accept, MemoryType, others
    <2>4. RestType'
      BY <1>0, <1>5, <2>1 DEF Accept, RestType, others, Enqueue
    <2> QED BY <2>2, <2>3, <2>4 DEF MemoryOK
  <1>6. CASE Enter(r)
    <2>1. CASE ledger[run[r].id] = "pending" /\ run[r].id \notin rows
      <3>1. /\ run' = [run EXCEPT ![r].pc = "running", ![r].ran = TRUE]
            /\ UNCHANGED <<queue, cancel>>
        BY <1>6, <2>1 DEF Enter
      <3>2. Moves(r, "running")
        <4>1. run' \in [Runners -> RunType]
          BY <1>0, RunnerStepOK DEF StepOK
        <4> QED BY <1>a, <3>1, <4>1 DEF Moves, RunType
      <3>3. LockInv' /\ queue' \in Seq(Queued)
        BY <3>1, <3>2, OutsiderMoves DEF RunPcs, Holding
      <3>4. MemoryType'
        BY <1>0, <1>6, <2>1, <3>1, <3>3 DEF Enter, MemoryType
      <3>5. RestType'
        BY <1>0, <1>6, <2>1 DEF Enter, RestType
      <3> QED BY <3>3, <3>4, <3>5 DEF MemoryOK
    <2>2. CASE ~(ledger[run[r].id] = "pending" /\ run[r].id \notin rows)
      <3>1. Only(r, "release") /\ Enqueue(r) /\ UNCHANGED cancel
        BY <1>6, <1>a, <2>2, GoesOnly DEF Enter, RunPcs
      <3>2. LockInv' /\ queue' \in Seq(Queued)
        BY <3>1, OutsiderMoves DEF Only, RunPcs, Holding
      <3>3. MemoryType'
        BY <1>0, <1>6, <2>2, <3>1, <3>2 DEF Enter, MemoryType
      <3>4. RestType'
        <4>1. waiter' \in [Waiters -> [pc : {"idle", "scanning", "waiting", "done"}, id : Ids]]
          BY <1>0, <1>6, <2>2, NotifiedType DEF Enter
        <4> QED BY <1>0, <1>6, <3>1, <4>1 DEF Enter, RestType, Enqueue
      <3> QED BY <3>2, <3>3, <3>4 DEF MemoryOK
    <2> QED BY <2>1, <2>2
  <1>7. ASSUME NEW o, Returns(r, o) PROVE MemoryOK
    <2>1. Only(r, "release") /\ Enqueue(r) /\ UNCHANGED cancel
      BY <1>7, <1>a, GoesOnly DEF Returns, RunPcs
    <2>2. LockInv' /\ queue' \in Seq(Queued)
      BY <2>1, OutsiderMoves DEF Only, RunPcs, Holding
    <2>3. MemoryType'
      BY <1>0, <1>7, <2>1, <2>2 DEF Returns, MemoryType
    <2>4. RestType'
      <3>1. waiter' \in [Waiters -> [pc : {"idle", "scanning", "waiting", "done"}, id : Ids]]
        BY <1>0, <1>7, NotifiedType DEF Returns
      <3> QED BY <1>0, <1>7, <2>1, <3>1 DEF Returns, RestType, Enqueue
    <2> QED BY <2>2, <2>3, <2>4 DEF MemoryOK
  <1>8. CASE Release(r)
    <2>1. CASE r \in leases /\ leases \ {r} = {}
      <3>1. Only(r, "releasing") /\ UNCHANGED <<queue, cancel>> /\ HasLock(r)
        BY <1>8, <1>a, <2>1, GoesOnly DEF Release, RunPcs, others
      <3>2. LockInv'
        BY <3>1, HolderStays DEF Only, RunPcs
      <3>3. MemoryType'
        BY <1>0, <1>8, <2>1, <3>1 DEF Release, MemoryType
      <3>4. RestType'
        BY <1>0, <1>8, <2>1 DEF Release, RestType, others, Wanted, HasPendingRecovery
      <3> QED BY <3>2, <3>3, <3>4 DEF MemoryOK
    <2>2. CASE ~(r \in leases /\ leases \ {r} = {})
      <3>1. /\ Wrapper(r) /\ UNCHANGED <<cancel, job, touched>> /\ HasLock(r)
            /\ queue' = Tail(queue) /\ leases' = leases \ {r}
        BY <1>8, <2>2 DEF Release, others
      <3>2. Only(r, "done")
        BY <1>a, <3>1, GoesOnly DEF Wrapper, RunPcs
      <3>3. LockInv' /\ queue' \in Seq(Queued)
        BY <3>1, <3>2, HolderLeaves DEF Only, RunPcs, Holding
      <3>4. MemoryType'
        BY <1>0, <3>1, <3>3 DEF Wrapper, MemoryType
      <3>5. RestType'
        BY <1>0, <1>8, <3>1 DEF Release, RestType, others
      <3> QED BY <3>3, <3>4, <3>5 DEF MemoryOK
    <2> QED BY <2>1, <2>2
  <1>9. CASE Released(r)
    <2>1. Only(r, "done") /\ UNCHANGED cancel /\ HasLock(r) /\ queue' = Tail(queue)
      BY <1>9, <1>a, <1>b, GoesOnly DEF Released, Wrapper, others, Holding, RunPcs
    <2>2. LockInv' /\ queue' \in Seq(Queued)
      BY <2>1, HolderLeaves DEF Only, RunPcs, Holding
    <2>3. MemoryType'
      BY <1>0, <1>9, <2>1, <2>2 DEF Released, Wrapper, MemoryType
    <2>4. RestType'
      BY <1>0, <1>9 DEF Released, RestType, others
    <2> QED BY <2>2, <2>3, <2>4 DEF MemoryOK
  <1>10. {"leaseArm", "arming"} \subseteq RunPcs \cap Holding
    BY DEF RunPcs, Holding
  <1>11. {"leased", "running"} \subseteq RunPcs \ Holding
    BY DEF RunPcs, Holding
  <1> QED BY <1>1, <1>2, <1>3, <1>4, <1>5, <1>6, <1>7, <1>8, <1>9, <1>10, <1>11
          DEF RunnerStep

\* So do the failures of its alarm and its caller.
LEMMA FailMemoryOK ==
    ASSUME TypeInv, NEW r \in Runners, RunnerFails(r)
    PROVE  MemoryOK
  <1>0. /\ LedgerType /\ MemoryType /\ RestType
        /\ run[r].id \in Ids /\ r \in Queued
    BY TypeParts DEF TypeInv, LedgerType, RunType, Queued
  <1>a. run \in [Runners -> RunType]
    BY <1>0 DEF LedgerType
  <1>b. run[r].pc \in Holding => HasLock(r)
    BY DEF TypeInv, LockInv
  <1>1. ASSUME NEW arming \in Holding, NEW failed \in RunPcs, AlarmFails(r, arming, failed)
        PROVE  MemoryOK
    <2>1. Only(r, failed) /\ UNCHANGED <<queue, cancel>> /\ HasLock(r)
      BY <1>1, <1>a, <1>b, GoesOnly DEF AlarmFails, others
    <2>2. LockInv'
      BY <2>1, HolderStays DEF Only
    <2>3. MemoryType'
      BY <1>0, <1>1, <2>1 DEF AlarmFails, MemoryType
    <2>4. RestType'
      BY <1>0, <1>1 DEF AlarmFails, RestType, others, Wanted, HasPendingRecovery
    <2> QED BY <2>2, <2>3, <2>4 DEF MemoryOK
  <1>2. CASE CallerCancelled(r)
    <2>1. Only(r, "done") /\ UNCHANGED cancel
      BY <1>2, <1>a, GoesOnly DEF CallerCancelled, RunPcs, others
    <2>2. PICK k \in DOMAIN queue : queue[k] = r /\ queue' = RemoveAt(queue, k)
      BY <1>2 DEF CallerCancelled
    <2>3. /\ queue' \in Seq(Queued)
          /\ Head(queue) # r => queue' # <<>> /\ Head(queue') = Head(queue)
      BY <1>0, <2>2, RemoveKeepsHead DEF MemoryType
    <2>4. LockInv'
      BY <2>1, <2>3, FiberAssumption DEF LockInv, TypeInv, HasLock, Only, Moves, Holding
    <2>5. MemoryType'
      BY <1>0, <1>2, <2>1, <2>3 DEF CallerCancelled, MemoryType
    <2>6. RestType'
      BY <1>0, <1>2 DEF CallerCancelled, RestType, others, Wanted, HasPendingRecovery
    <2> QED BY <2>4, <2>5, <2>6 DEF MemoryOK
  <1>3. CASE Interrupted(r)
    <2>1. Only(r, "release") /\ Enqueue(r) /\ UNCHANGED cancel
      BY <1>3, <1>a, GoesOnly DEF Interrupted, RunPcs, others
    <2>2. LockInv' /\ queue' \in Seq(Queued)
      BY <2>1, OutsiderMoves DEF Only, RunPcs, Holding
    <2>3. MemoryType'
      BY <1>0, <1>3, <2>1, <2>2 DEF Interrupted, MemoryType
    <2>4. RestType'
      BY <1>0, <1>3, <2>1 DEF Interrupted, RestType, others, Enqueue
    <2> QED BY <2>2, <2>3, <2>4 DEF MemoryOK
  <1>4. {"leaseArm", "arming"} \subseteq Holding /\ {"leaseFailed", "armFailed"} \subseteq RunPcs
    BY DEF Holding, RunPcs
  <1> QED BY <1>1, <1>2, <1>3, <1>4 DEF RunnerFails

\* A start takes an idle call and writes what the call is about.
LEMMA StartMoves ==
    ASSUME LedgerType, NEW r \in Runners, NEW i \in Ids,
           StartDetached(r, i) \/ StartWaited(r, i) \/ StartPlain(r, i)
    PROVE  \E pc \in {"lease", "arm", "done"} :
             /\ Moves(r, pc) /\ run[r].pc = "idle" /\ run'[r].id = i
             /\ pc = "done" => i \in rows /\ UNCHANGED queue
             /\ pc # "done" => Enqueue(r)
  <1>0. run' \in [Runners -> RunType]
    BY ClientStepOK DEF StepOK
  <1>1. CASE StartDetached(r, i)
    BY <1>0, <1>1 DEF StartDetached, Moves, NoRun
  <1>2. CASE StartWaited(r, i) /\ i \in rows
    BY <1>0, <1>2, ZenonT(30) DEF StartWaited, Moves, NoRun
  <1>3. CASE StartWaited(r, i) /\ i \notin rows
    BY <1>0, <1>3 DEF StartWaited, Moves
  <1>4. CASE StartPlain(r, i)
    BY <1>0, <1>4 DEF StartPlain, Moves
  <1> QED BY <1>1, <1>2, <1>3, <1>4

\* The calls of the clients keep them.
LEMMA ClientMemoryOK ==
    ASSUME TypeInv, NEW i \in Ids,
           \/ \E r \in Runners : StartDetached(r, i) \/ StartWaited(r, i) \/ StartPlain(r, i)
           \/ CancelFiber(i) \/ DeleteFiber(i)
           \/ \E s \in Terminal : ResolveFiber(i, s)
           \/ \E w \in Waiters : Wait(w, i)
    PROVE  MemoryOK
  <1>0. LedgerType /\ MemoryType /\ RestType
    BY TypeParts DEF TypeInv
  <1>1. ASSUME NEW r \in Runners,
               StartDetached(r, i) \/ StartWaited(r, i) \/ StartPlain(r, i)
        PROVE  MemoryOK
    <2>1. PICK pc \in {"lease", "arm", "done"} :
            Moves(r, pc) /\ (Enqueue(r) \/ UNCHANGED queue)
      BY <1>0, <1>1, StartMoves
    <2>2. UNCHANGED cancel
      BY <1>1 DEF StartDetached, StartWaited, StartPlain, others
    <2>3. LockInv' /\ queue' \in Seq(Queued)
      BY <2>1, <2>2, OutsiderMoves DEF RunPcs, Holding
    <2>4. /\ active' \subseteq Ids /\ aborts' \in [Ids -> Runners \cup {NoRunner}]
          /\ returned' \subseteq Ids /\ turn' \in {turn, r, Free}
      BY <1>0, <1>1 DEF StartDetached, StartWaited, StartPlain, MemoryType, RestType,
                        others, Enqueue
    <2>5. UNCHANGED <<leases, pending, job, touched, fired, waiter, up, crashes>>
      BY <1>1 DEF StartDetached, StartWaited, StartPlain, others
    <2> QED BY <1>0, <2>2, <2>3, <2>4, <2>5 DEF MemoryOK, MemoryType, RestType
  <1>2. CASE CancelFiber(i)
    <2>1. waiter' \in [Waiters -> [pc : {"idle", "scanning", "waiting", "done"}, id : Ids]]
      BY <1>0, <1>2, NotifiedType DEF CancelFiber, RestType
    <2>2. Canceller \in Queued /\ queue \in Seq(Queued)
      BY <1>0 DEF Queued, MemoryType
    <2>3. /\ queue' \in Seq(Queued) /\ turn' \in {turn, Canceller, Free}
          /\ queue # <<>> => queue' # <<>> /\ Head(queue') = Head(queue)
      BY <1>2, <2>2, EnqueueKeepsHead DEF CancelFiber
    <2>4. \A r \in Runners : run'[r].pc = run[r].pc
      BY <1>0, <1>2 DEF CancelFiber, LedgerType, RunType
    <2>5. cancel.pc = "idle" /\ cancel'.pc # "releasing"
      BY <1>2 DEF CancelFiber
    <2>6. LockInv'
      BY <2>3, <2>4, <2>5 DEF LockInv, TypeInv, HasLock
    <2>7. MemoryType'
      BY <1>0, <1>2, <2>3 DEF CancelFiber, MemoryType
    <2>8. RestType'
      BY <1>0, <1>2, <2>1, <2>3 DEF CancelFiber, RestType
    <2> QED BY <2>6, <2>7, <2>8 DEF MemoryOK
  <1>3. CASE DeleteFiber(i)
    BY <1>0, <1>3 DEF DeleteFiber, MemoryOK, MemoryType, RestType, LockInv, TypeInv,
                      HasLock, memory, others
  <1>4. ASSUME NEW s \in Terminal, ResolveFiber(i, s) PROVE MemoryOK
    <2>1. waiter' \in [Waiters -> [pc : {"idle", "scanning", "waiting", "done"}, id : Ids]]
      BY <1>0, <1>4, NotifiedType DEF ResolveFiber
    <2> QED BY <1>0, <1>4, <2>1 DEF ResolveFiber, MemoryOK, MemoryType, RestType, LockInv,
                                    TypeInv, HasLock, memory
  <1>5. ASSUME NEW w \in Waiters, Wait(w, i) PROVE MemoryOK
    <2>1. waiter' \in [Waiters -> [pc : {"idle", "scanning", "waiting", "done"}, id : Ids]]
      BY <1>0, <1>5 DEF Wait, RestType
    <2>2. turn' \in {turn, Scanner}
      BY <1>5 DEF Wait, BeginScan
    <2> QED BY <1>0, <1>5, <2>1, <2>2 DEF Wait, MemoryOK, MemoryType, RestType, LockInv,
                                          TypeInv, HasLock, memory
  <1> QED BY <1>1, <1>2, <1>3, <1>4, <1>5

\* The scan, the hook, the job's dispatch, evictions and restarts keep them.
LEMMA ObjectMemoryOK ==
    ASSUME TypeInv,
           \/ CancelReleases \/ ScanStep \/ HookFails \/ JobFires \/ JobOutcome
           \/ Crash \/ Restart \/ UNCHANGED vars
    PROVE  MemoryOK
  <1>0. LedgerType /\ MemoryType /\ RestType
    BY TypeParts DEF TypeInv
  <1> DEFINE Waiting == [Waiters -> [pc : {"idle", "scanning", "waiting", "done"}, id : Ids]]
  <1>n. \A ids, l : Notified(ids, l) \in Waiting
    BY <1>0, NotifiedType
  <1>w. ASSUME waiter' \in Waiting,
               UNCHANGED <<memory, run, cancel, returned, crashes>>,
               turn' \in {turn, Free, Scanner}, touched' \in BOOLEAN, job' \in BOOLEAN,
               fired' \in {"no", "scanning", "keep", "drop"},
               up' \in {"ready", "starting", "down"}
        PROVE  MemoryOK
    BY <1>0, <1>w DEF MemoryOK, MemoryType, RestType, LockInv, TypeInv, HasLock, memory
  <1> HIDE DEF Waiting
  <1>1. CASE CancelReleases
    <2>1. waiter' \in Waiting
      BY <1>0, <1>1, <1>n DEF CancelReleases, RestType, Waiting
    <2>2. queue \in Seq(Queued) /\ queue # <<>> /\ Head(queue) = Canceller
      BY <1>0, <1>1 DEF MemoryType, CancelReleases, HasLock
    <2>3. \A r \in Runners : run[r].pc \notin Holding
      BY <2>2, FiberAssumption DEF TypeInv, LockInv, HasLock
    <2>4. queue' \in Seq(Queued)
      BY <1>1, <2>2, HeadTailProperties DEF CancelReleases
    <2>5. cancel' \in [pc : {"idle", "release", "releasing"}, id : Ids,
                       lease : Runners \cup {NoRunner}]
      BY <1>0, <1>1, SomeId DEF CancelReleases, MemoryType, NoCancel
    <2>6. LockInv'
      <3>1. run' = run
        BY <1>1 DEF CancelReleases
      <3>2. cancel'.pc = "releasing" => queue' = queue
        BY <1>1 DEF CancelReleases, NoCancel
      <3> QED BY <2>2, <2>3, <3>1, <3>2 DEF LockInv, HasLock
    <2>7. MemoryType'
      BY <1>0, <1>1, <2>4, <2>5 DEF CancelReleases, MemoryType
    <2>8. RestType'
      BY <1>0, <1>1, <2>1 DEF CancelReleases, RestType, Wanted, HasPendingRecovery, Waiting
    <2> QED BY <2>6, <2>7, <2>8 DEF MemoryOK
  <1>2. ASSUME NEW i \in Ids, ScanRow(i) \/ ScanLedgerRow(i) PROVE MemoryOK
    <2>1. waiter' \in Waiting
      BY <1>0, <1>2, <1>n DEF ScanRow, ScanLedgerRow, RestType, Waiting
    <2> QED BY <1>0, <1>2, <2>1, <1>w DEF ScanRow, ScanLedgerRow, RestType
  <1>3. CASE ListLedger
    BY <1>0, <1>3, <1>w DEF ListLedger, RestType, Waiting
  <1>4. CASE ScanEnds
    <2>1. waiter' \in Waiting
      <3>1. CASE scan.by \in {"job", "start"}
        BY <1>0, <1>4, <3>1 DEF ScanEnds, RestType, Waiting
      <3>2. CASE scan.by \notin {"job", "start"}
        BY <1>0, <1>4, <3>2 DEF ScanEnds, RestType, Waiting
      <3> QED BY <3>1, <3>2
    <2>2. /\ fired' \in {"no", "scanning", "keep", "drop"}
          /\ job' \in BOOLEAN /\ touched' \in BOOLEAN
          /\ up' \in {"ready", "starting", "down"}
      BY <1>0, <1>4 DEF ScanEnds, RestType, Wanted, HasPendingRecovery
    <2> QED BY <1>4, <2>1, <2>2, <1>w DEF ScanEnds
  <1>5. ASSUME NEW end, NEW old, NEW late, HookReturns(end, old, late) PROVE MemoryOK
    <2>1. waiter' \in Waiting
      BY <1>0, <1>5, <1>n DEF HookReturns, RestType, Waiting
    <2> QED BY <1>0, <1>5, <2>1, <1>w DEF HookReturns, RestType
  <1>6. CASE HookFails
    <2>1. waiter' \in Waiting
      BY <1>0, <1>6 DEF HookFails, RestType, Waiting
    <2> QED BY <1>0, <1>6, <2>1, <1>w DEF HookFails, RestType
  <1>7. CASE JobFires
    BY <1>0, <1>7, <1>w DEF JobFires, BeginScan, RestType, Waiting
  <1>8. CASE JobOutcome
    BY <1>0, <1>8, <1>w DEF JobOutcome, RestType, Waiting
  <1>9. CASE Crash
    <2>1. waiter' \in Waiting
      BY <1>0, <1>9 DEF Crash, RestType, Waiting
    <2>2. MemoryType'
      BY <1>0, <1>9, SomeId, EmptySeq DEF Crash, MemoryType, NoCancel
    <2>3. RestType'
      BY <1>0, <1>9, <2>1, FiberAssumption DEF Crash, RestType, Waiting
    <2>4. LockInv'
      <3>1. \A r \in Runners : run'[r].pc \in {"idle", "done", "lost"}
        BY <1>0, <1>9 DEF Crash, LedgerType, RunType
      <3> QED BY <1>9, <3>1 DEF Crash, LockInv, NoCancel, Holding
    <2> QED BY <2>2, <2>3, <2>4 DEF MemoryOK
  <1>10. CASE Restart
    <2>1. job' \in BOOLEAN
      BY <1>0, <1>10 DEF Restart, RestType, Wanted, HasPendingRecovery
    <2> QED BY <1>0, <1>10, <2>1, <1>w DEF Restart, BeginScan, RestType, Waiting
  <1>11. CASE UNCHANGED vars
    BY <1>0, <1>11, <1>w DEF vars, memory, RestType, Waiting
  <1> QED BY <1>1, <1>2, <1>3, <1>4, <1>5, <1>6, <1>7, <1>8, <1>9, <1>10, <1>11 DEF ScanStep

\* At first the lock is free and memory is empty.
LEMMA TypeInit == Init => TypeInv
  <1> SUFFICES ASSUME Init PROVE TypeInv
    OBVIOUS
  <1>1. LedgerType
    BY LedgerInit
  <1>2. MemoryType
    BY SomeId, EmptySeq DEF Init, MemoryType, NoCancel
  <1>3. RestType
    <2>1. waiter \in [Waiters -> [pc : {"idle", "scanning", "waiting", "done"}, id : Ids]]
      BY SomeId DEF Init
    <2>2. crashes \in 0..MaxCrashes
      BY FiberAssumption DEF Init
    <2> QED BY <2>1, <2>2 DEF Init, RestType
  <1>4. LockInv
    BY DEF Init, LockInv, NoRun, NoCancel, Holding
  <1> QED BY <1>1, <1>2, <1>3, <1>4, TypeParts DEF TypeInv

\* A step of Next belongs to a task, to a client, or to the object.
LEMMA NextParts ==
    ASSUME Next
    PROVE  \/ \E r \in Runners : RunnerStep(r) \/ RunnerFails(r)
           \/ \E i \in Ids :
                \/ \E r \in Runners :
                     StartDetached(r, i) \/ StartWaited(r, i) \/ StartPlain(r, i)
                \/ CancelFiber(i) \/ DeleteFiber(i)
                \/ \E s \in Terminal : ResolveFiber(i, s)
                \/ \E w \in Waiters : Wait(w, i)
           \/ CancelReleases \/ ScanStep \/ HookFails \/ JobFires \/ JobOutcome
           \/ Crash \/ Restart
  <1>1. ManagedIds \subseteq Ids
    BY DEF Ids
  <1> QED BY <1>1 DEF Next

\* Every step keeps the lock and the types.
LEMMA TypeStep == TypeInv /\ [Next]_vars => TypeInv'
  <1> SUFFICES ASSUME TypeInv, [Next]_vars PROVE TypeInv'
    OBVIOUS
  <1>1. LedgerType
    BY TypeParts DEF TypeInv
  <1>2. LedgerType'
    BY <1>1, EveryStepOK, LedgerKept DEF StepOK, LedgerType
  <1>3. MemoryOK
    <2>1. ASSUME NEW r \in Runners, RunnerStep(r) \/ RunnerFails(r) PROVE MemoryOK
      BY <2>1, RunnerMemoryOK, FailMemoryOK
    <2>2. ASSUME NEW i \in Ids,
                 \/ \E r \in Runners :
                      StartDetached(r, i) \/ StartWaited(r, i) \/ StartPlain(r, i)
                 \/ CancelFiber(i) \/ DeleteFiber(i)
                 \/ \E s \in Terminal : ResolveFiber(i, s)
                 \/ \E w \in Waiters : Wait(w, i)
          PROVE  MemoryOK
      BY <2>2, ClientMemoryOK
    <2>3. CASE \/ CancelReleases \/ ScanStep \/ HookFails \/ JobFires \/ JobOutcome
               \/ Crash \/ Restart \/ UNCHANGED vars
      BY <2>3, ObjectMemoryOK
    <2> QED BY <2>1, <2>2, <2>3, NextParts
  <1>4. TypeOK'
    BY <1>2, <1>3 DEF TypeOK, MemoryOK, LedgerType, MemoryType, RestType, RunType, ScanType, Queued
  <1> QED BY <1>3, <1>4 DEF MemoryOK, TypeInv

-----------------------------------------------------------------------------
(* Claims, leases and pending leases have an owner.                        *)

\* The phases of a call that answers for the claim on its id.
Claims == Claiming \ {"release", "releasing"}

\* Every claim is some call's to give back ...
ActiveInv == \A i \in active : \E r \in Runners : run[r].id = i /\ run[r].pc \in Claims

\* ... and every lease, which a call has from setAlarm on.
LeaseOwnerInv ==
    /\ \A r \in leases : run[r].pc \in Leasing
    /\ \A r \in Runners : run[r].pc \in {"leaseArm", "leased", "arming"} => r \in leases

\* A pending lease is that of a retained task that did not get the loop yet, and no
\* canceller gives it back.
PendingInv ==
    /\ \A i \in Ids : pending[i] # NoRunner =>
         /\ pending[i] \in leases
         /\ run[pending[i]].pc = "spawned" /\ run[pending[i]].id = i
    /\ cancel.pc # "idle" =>
         /\ cancel.lease \in Runners
         /\ run[cancel.lease].pc \in {"spawned", "running", "release", "releasing", "done"}
         /\ \A i \in Ids : pending[i] # cancel.lease

ClaimInv == ActiveInv /\ LeaseOwnerInv /\ PendingInv

\* The steps of a task keep the owners.
LEMMA RunnerKeepsClaims ==
    ASSUME TypeInv, ClaimInv, NEW r \in Runners, RunnerStep(r)
    PROVE  ClaimInv'
  <1>0. /\ run \in [Runners -> RunType] /\ run[r].id \in Ids
        /\ active \subseteq Ids /\ leases \subseteq Runners
        /\ pending \in [Ids -> Runners \cup {NoRunner}] /\ NoRunner \notin Runners
    BY TypeParts, FiberAssumption DEF TypeInv, LedgerType, MemoryType, RunType
  <1> USE DEF ClaimInv
  <1>1. ASSUME NEW from, NEW arming, NEW got, TakeLease(r, from, arming, got),
               \/ from = "lease" /\ arming = "leaseArm" /\ got = "leased"
               \/ from = "arm" /\ arming = "arming" /\ got = "running"
        PROVE  ClaimInv'
    <2>1. PICK pc \in {arming, got} :
            Only(r, pc) /\ leases' = leases \cup {r} /\ UNCHANGED <<active, pending, cancel>>
      BY <1>0, <1>1, GoesOnly DEF TakeLease, RunPcs, others
    <2>2. run[r].pc \in {"lease", "arm"}
      BY <1>1 DEF TakeLease
    <2>3. ActiveInv'
      BY <1>0, <1>1, <2>1, <2>2 DEF ActiveInv, Only, Moves, Claims, Claiming, RunPcs
    <2>4. LeaseOwnerInv'
      BY <1>0, <1>1, <2>1, <2>2 DEF LeaseOwnerInv, Only, Moves, Leasing
    <2>5. PendingInv'
      BY <1>0, <1>1, <2>1, <2>2 DEF PendingInv, Only, Moves
    <2> QED BY <2>3, <2>4, <2>5
  <1>2. ASSUME NEW arming, NEW got, AlarmArmed(r, arming, got),
               \/ arming = "leaseArm" /\ got = "leased"
               \/ arming = "arming" /\ got = "running"
        PROVE  ClaimInv'
    <2>1. Only(r, got) /\ UNCHANGED <<active, leases, pending, cancel>>
      BY <1>0, <1>2, GoesOnly DEF AlarmArmed, RunPcs, others
    <2>2. run[r].pc = arming
      BY <1>2 DEF AlarmArmed
    <2>3. ActiveInv'
      BY <1>0, <1>2, <2>1, <2>2 DEF ActiveInv, Only, Moves, Claims, Claiming, RunPcs
    <2>4. LeaseOwnerInv'
      BY <1>0, <1>2, <2>1, <2>2 DEF LeaseOwnerInv, Only, Moves, Leasing
    <2>5. PendingInv'
      BY <1>0, <1>2, <2>1, <2>2 DEF PendingInv, Only, Moves
    <2> QED BY <2>3, <2>4, <2>5
  <1>3. CASE LeaseUndone(r) \/ ArmUndone(r)
    <2>1. /\ Only(r, "done") /\ active' = active \ {run[r].id}
          /\ UNCHANGED <<leases, pending, cancel>>
          /\ run[r].pc \in {"leaseFailed", "armFailed"}
      BY <1>0, <1>3, GoesOnly DEF LeaseUndone, ArmUndone, RunPcs, others
    <2>2. ActiveInv'
      BY <1>0, <2>1 DEF ActiveInv, Only, Moves
    <2>3. LeaseOwnerInv'
      BY <1>0, <2>1 DEF LeaseOwnerInv, Only, Moves, Leasing
    <2>4. PendingInv'
      BY <1>0, <2>1 DEF PendingInv, Only, Moves
    <2> QED BY <2>2, <2>3, <2>4
  <1>4. CASE Accept(r)
    <2>1. run[r].pc = "leased" /\ UNCHANGED <<leases, cancel>>
      BY <1>4 DEF Accept, others
    <2>2. CASE ledger[run[r].id] = "pending"
      <3>1. /\ Only(r, "spawned") /\ pending' = [pending EXCEPT ![run[r].id] = r]
            /\ UNCHANGED active
        BY <1>0, <1>4, <2>2, GoesOnly DEF Accept, RunPcs
      <3>2. ActiveInv'
        BY <1>0, <2>1, <3>1 DEF ActiveInv, Only, Moves, Claims, Claiming, RunPcs
      <3>3. LeaseOwnerInv'
        BY <1>0, <2>1, <3>1 DEF LeaseOwnerInv, Only, Moves, Leasing
      <3>4. PendingInv'
        BY <1>0, <2>1, <3>1 DEF PendingInv, LeaseOwnerInv, Only, Moves
      <3> QED BY <3>2, <3>3, <3>4
    <2>3. CASE ledger[run[r].id] # "pending"
      <3>1. /\ Only(r, "release") /\ pending' = [pending EXCEPT ![run[r].id] = NoRunner]
            /\ active' = active \ {run[r].id}
        BY <1>0, <1>4, <2>3, GoesOnly DEF Accept, RunPcs
      <3>2. ActiveInv'
        BY <1>0, <2>1, <3>1 DEF ActiveInv, Only, Moves
      <3>3. LeaseOwnerInv'
        BY <1>0, <2>1, <3>1 DEF LeaseOwnerInv, Only, Moves, Leasing
      <3>4. PendingInv'
        BY <1>0, <2>1, <3>1 DEF PendingInv, Only, Moves
      <3> QED BY <3>2, <3>3, <3>4
    <2> QED BY <2>2, <2>3
  <1>5. CASE Enter(r)
    <2>1. /\ run[r].pc = "spawned" /\ UNCHANGED <<leases, cancel>>
          /\ pending' = [pending EXCEPT ![run[r].id] = NoRunner]
      BY <1>5 DEF Enter
    <2>2. /\ Moves(r, "running") \/ Moves(r, "release")
          /\ run'[r].id = run[r].id
          /\ \/ run'[r].pc = "running" /\ active' = active \cup {run[r].id}
             \/ active' = active \ {run[r].id}
      <3>1. CASE ledger[run[r].id] = "pending" /\ run[r].id \notin rows
        <4>1. /\ run' = [run EXCEPT ![r].pc = "running", ![r].ran = TRUE]
              /\ active' = active \cup {run[r].id}
          BY <1>5, <3>1 DEF Enter
        <4>2. run' \in [Runners -> RunType]
          BY RunnerStepOK, TypeParts DEF StepOK, TypeInv
        <4> QED BY <1>0, <4>1, <4>2 DEF Moves, RunType
      <3>2. CASE ~(ledger[run[r].id] = "pending" /\ run[r].id \notin rows)
        BY <1>0, <1>5, <3>2, GoesOnly DEF Enter, RunPcs, Only
      <3> QED BY <3>1, <3>2
    <2>3. ActiveInv'
      BY <1>0, <2>1, <2>2 DEF ActiveInv, Moves, Claims, Claiming, RunPcs
    <2>4. LeaseOwnerInv'
      BY <1>0, <2>1, <2>2 DEF LeaseOwnerInv, Moves, Leasing
    <2>5. PendingInv'
      BY <1>0, <2>1, <2>2 DEF PendingInv, Moves
    <2> QED BY <2>3, <2>4, <2>5
  <1>6. ASSUME NEW o, Returns(r, o) PROVE ClaimInv'
    <2>1. /\ Only(r, "release") /\ active' = active \ {run[r].id}
          /\ UNCHANGED <<leases, pending, cancel>> /\ run[r].pc = "running"
      BY <1>0, <1>6, GoesOnly DEF Returns, RunPcs
    <2>2. ActiveInv'
      BY <1>0, <2>1 DEF ActiveInv, Only, Moves
    <2>3. LeaseOwnerInv'
      BY <1>0, <2>1 DEF LeaseOwnerInv, Only, Moves, Leasing
    <2>4. PendingInv'
      BY <1>0, <2>1 DEF PendingInv, Only, Moves
    <2> QED BY <2>2, <2>3, <2>4
  <1>7. CASE Release(r) \/ Released(r)
    <2>1. /\ Only(r, "releasing") \/ Only(r, "done")
          /\ run[r].pc \in {"release", "releasing"}
          /\ active' \in {active, active \ {run[r].id}}
          /\ pending' \in {pending, [pending EXCEPT ![run[r].id] = NoRunner]}
          /\ \/ leases' = leases \ {r}
             \/ run[r].pc = "releasing" /\ UNCHANGED leases
          /\ UNCHANGED cancel
      <3>1. CASE Released(r)
        BY <1>0, <3>1, GoesOnly DEF Released, Wrapper, RunPcs, others
      <3>2. ASSUME Release(r)
            PROVE  /\ run[r].pc = "release" /\ leases' = leases \ {r} /\ UNCHANGED cancel
                   /\ \/ Goes(r, "releasing") /\ UNCHANGED <<active, pending>>
                      \/ Wrapper(r)
        BY <3>2 DEF Release, others
      <3>3. ASSUME Wrapper(r)
            PROVE  /\ Only(r, "done") /\ active' \in {active, active \ {run[r].id}}
                   /\ pending' \in {pending, [pending EXCEPT ![run[r].id] = NoRunner]}
        BY <1>0, <3>3, GoesOnly DEF Wrapper, RunPcs
      <3>4. Goes(r, "releasing") => Only(r, "releasing")
        BY <1>0, GoesOnly DEF RunPcs
      <3> QED BY <1>7, <3>1, <3>2, <3>3, <3>4
    <2>2. ActiveInv'
      BY <1>0, <2>1 DEF ActiveInv, Only, Moves, Claims
    <2>3. LeaseOwnerInv'
      BY <1>0, <2>1 DEF LeaseOwnerInv, Only, Moves, Leasing
    <2>4. PendingInv'
      BY <1>0, <2>1 DEF PendingInv, Only, Moves
    <2> QED BY <2>2, <2>3, <2>4
  <1> QED BY <1>1, <1>2, <1>3, <1>4, <1>5, <1>6, <1>7 DEF RunnerStep

\* The failures of its alarm and its caller keep them.
LEMMA FailKeepsClaims ==
    ASSUME TypeInv, ClaimInv, NEW r \in Runners, RunnerFails(r)
    PROVE  ClaimInv'
  <1>0. /\ run \in [Runners -> RunType] /\ run[r].id \in Ids
        /\ active \subseteq Ids /\ leases \subseteq Runners
        /\ pending \in [Ids -> Runners \cup {NoRunner}] /\ NoRunner \notin Runners
    BY TypeParts, FiberAssumption DEF TypeInv, LedgerType, MemoryType, RunType
  <1> USE DEF ClaimInv
  <1>1. ASSUME NEW arming \in {"leaseArm", "arming"},
               NEW failed \in {"leaseFailed", "armFailed"}, AlarmFails(r, arming, failed)
        PROVE  ClaimInv'
    <2>1. /\ Only(r, failed) /\ leases' = leases \ {r} /\ run[r].pc = arming
          /\ UNCHANGED <<active, pending, cancel>>
      BY <1>0, <1>1, GoesOnly DEF AlarmFails, RunPcs, others
    <2>2. ActiveInv'
      BY <1>0, <2>1 DEF ActiveInv, Only, Moves, Claims, Claiming, RunPcs
    <2>3. LeaseOwnerInv'
      BY <1>0, <2>1 DEF LeaseOwnerInv, Only, Moves
    <2>4. PendingInv'
      BY <1>0, <2>1 DEF PendingInv, Only, Moves
    <2> QED BY <2>2, <2>3, <2>4
  <1>2. CASE CallerCancelled(r)
    <2>1. /\ Only(r, "done") /\ leases' = leases \ {r} /\ active' = active \ {run[r].id}
          /\ run[r].pc \in {"lease", "leaseArm", "arm", "arming"}
          /\ UNCHANGED <<pending, cancel>>
      BY <1>0, <1>2, GoesOnly DEF CallerCancelled, RunPcs, others
    <2>2. ActiveInv'
      BY <1>0, <2>1 DEF ActiveInv, Only, Moves
    <2>3. LeaseOwnerInv'
      BY <1>0, <2>1 DEF LeaseOwnerInv, Only, Moves
    <2>4. PendingInv'
      BY <1>0, <2>1 DEF PendingInv, Only, Moves
    <2> QED BY <2>2, <2>3, <2>4
  <1>3. CASE Interrupted(r)
    <2>1. /\ Only(r, "release") /\ active' = active \ {run[r].id} /\ run[r].pc = "running"
          /\ UNCHANGED <<leases, pending, cancel>>
      BY <1>0, <1>3, GoesOnly DEF Interrupted, RunPcs, others
    <2>2. ActiveInv'
      BY <1>0, <2>1 DEF ActiveInv, Only, Moves
    <2>3. LeaseOwnerInv'
      BY <1>0, <2>1 DEF LeaseOwnerInv, Only, Moves, Leasing
    <2>4. PendingInv'
      BY <1>0, <2>1 DEF PendingInv, Only, Moves
    <2> QED BY <2>2, <2>3, <2>4
  <1> QED BY <1>1, <1>2, <1>3 DEF RunnerFails

\* The calls of the clients keep them: cancel_fiber takes the pending lease over.
LEMMA ClientKeepsClaims ==
    ASSUME TypeInv, ClaimInv, NEW i \in Ids,
           \/ \E r \in Runners : StartDetached(r, i) \/ StartWaited(r, i) \/ StartPlain(r, i)
           \/ CancelFiber(i) \/ DeleteFiber(i)
           \/ \E s \in Terminal : ResolveFiber(i, s)
           \/ \E w \in Waiters : Wait(w, i)
    PROVE  ClaimInv'
  <1>0. /\ LedgerType /\ run \in [Runners -> RunType]
        /\ active \subseteq Ids /\ leases \subseteq Runners
        /\ pending \in [Ids -> Runners \cup {NoRunner}] /\ NoRunner \notin Runners
    BY TypeParts, FiberAssumption DEF TypeInv, LedgerType, MemoryType
  <1> USE DEF ClaimInv
  <1>1. ASSUME NEW r \in Runners,
               StartDetached(r, i) \/ StartWaited(r, i) \/ StartPlain(r, i)
        PROVE  ClaimInv'
    <2>1. /\ Moves(r, run'[r].pc) /\ run'[r].pc \in {"lease", "arm", "done"}
          /\ run[r].pc = "idle" /\ run'[r].id = i
      BY <1>0, <1>1, StartMoves DEF Moves
    <2>2. UNCHANGED <<leases, pending, cancel>>
      BY <1>1 DEF StartDetached, StartWaited, StartPlain, others
    <2>3. active' = active \/ (active' = active \cup {i} /\ run'[r].pc \in Claims)
      <3>1. CASE StartDetached(r, i)
        BY <1>0, <3>1 DEF StartDetached, NoRun, Claims, Claiming, RunPcs
      <3>2. CASE StartPlain(r, i)
        BY <1>0, <3>2 DEF StartPlain, Claims, Claiming, RunPcs
      <3>3. CASE StartWaited(r, i)
        BY <1>0, <3>3 DEF StartWaited, Claims, Claiming, RunPcs
      <3> QED BY <1>1, <3>1, <3>2, <3>3
    <2>4. ActiveInv'
      BY <1>0, <2>1, <2>3 DEF ActiveInv, Moves, Claims, Claiming
    <2>5. LeaseOwnerInv'
      BY <1>0, <2>1, <2>2 DEF LeaseOwnerInv, Moves, Leasing
    <2>6. PendingInv'
      BY <1>0, <2>1, <2>2 DEF PendingInv, Moves
    <2> QED BY <2>4, <2>5, <2>6
  <1>2. CASE CancelFiber(i)
    <2>1. \A r \in Runners : run'[r].pc = run[r].pc /\ run'[r].id = run[r].id
      BY <1>0, <1>2 DEF CancelFiber, RunType
    <2>2. /\ pending' = [pending EXCEPT ![i] = NoRunner] /\ UNCHANGED leases
          /\ cancel.pc = "idle" /\ active' \subseteq active
          /\ \/ pending[i] = NoRunner /\ UNCHANGED cancel
             \/ /\ pending[i] # NoRunner
                /\ cancel' = [pc |-> "release", id |-> i, lease |-> pending[i]]
      BY <1>2 DEF CancelFiber
    <2>3. ActiveInv'
      BY <1>0, <2>1, <2>2 DEF ActiveInv
    <2>4. LeaseOwnerInv'
      BY <1>0, <2>1, <2>2 DEF LeaseOwnerInv
    <2>5. PendingInv'
      BY <1>0, <2>1, <2>2 DEF PendingInv
    <2> QED BY <2>3, <2>4, <2>5
  <1>3. ASSUME UNCHANGED <<active, leases, pending, run, cancel>> PROVE ClaimInv'
    BY <1>3 DEF ActiveInv, LeaseOwnerInv, PendingInv
  <1>4. CASE \/ DeleteFiber(i) \/ \E s \in Terminal : ResolveFiber(i, s)
             \/ \E w \in Waiters : Wait(w, i)
    BY <1>3, <1>4 DEF DeleteFiber, ResolveFiber, Wait, memory, others
  <1> QED BY <1>1, <1>2, <1>4

\* So do the steps of the object and its scan.
LEMMA ObjectKeepsClaims ==
    ASSUME TypeInv, ClaimInv,
           \/ CancelReleases \/ ScanStep \/ HookFails \/ JobFires \/ JobOutcome
           \/ Crash \/ Restart \/ UNCHANGED vars
    PROVE  ClaimInv'
  <1>0. /\ run \in [Runners -> RunType] /\ leases \subseteq Runners
        /\ pending \in [Ids -> Runners \cup {NoRunner}]
    BY TypeParts DEF TypeInv, LedgerType, MemoryType
  <1> USE DEF ClaimInv
  <1>1. CASE CancelReleases
    <2>1. /\ UNCHANGED <<active, pending, run>> /\ leases' = leases \ {cancel.lease}
          /\ cancel.pc # "idle"
          /\ cancel'.pc # "idle" => cancel'.lease = cancel.lease
      <3>1. cancel' = NoCancel \/ cancel' = [cancel EXCEPT !.pc = "releasing"]
        BY <1>1 DEF CancelReleases
      <3>2. cancel \in [pc : {"idle", "release", "releasing"}, id : Ids,
                        lease : Runners \cup {NoRunner}]
        BY TypeParts DEF TypeInv, MemoryType
      <3>3. CASE cancel' = NoCancel
        BY <1>1, <3>3 DEF CancelReleases, NoCancel
      <3>4. CASE cancel' = [cancel EXCEPT !.pc = "releasing"]
        <4>1. cancel'.pc = "releasing" /\ cancel'.lease = cancel.lease
          BY <3>2, <3>4
        <4> QED BY <1>1, <4>1 DEF CancelReleases
      <3> QED BY <3>1, <3>3, <3>4
    <2>2. LeaseOwnerInv'
      BY <2>1 DEF LeaseOwnerInv, PendingInv
    <2>3. PendingInv'
      BY <2>1 DEF PendingInv
    <2> QED BY <2>1, <2>2, <2>3 DEF ActiveInv
  <1>2. ASSUME UNCHANGED <<active, leases, pending, run, cancel>> PROVE ClaimInv'
    BY <1>2 DEF ActiveInv, LeaseOwnerInv, PendingInv
  <1>3. CASE ScanStep \/ HookFails \/ JobFires \/ JobOutcome \/ Restart \/ UNCHANGED vars
    <2>1. UNCHANGED memory /\ UNCHANGED <<run, cancel>>
      BY <1>3 DEF ScanStep, ScanRow, ScanLedgerRow, ListLedger, ScanEnds, HookReturns,
                  HookFails, JobFires, JobOutcome, Restart, vars, memory
    <2> QED BY <1>2, <2>1 DEF memory
  <1>4. CASE Crash
    <2>1. /\ active' = {} /\ leases' = {} /\ cancel'.pc = "idle"
          /\ pending' = [i \in Ids |-> NoRunner]
      BY <1>4 DEF Crash, NoCancel
    <2>2. \A r \in Runners : run'[r].pc \in {"idle", "done", "lost"}
      BY <1>0, <1>4 DEF Crash, RunType
    <2> QED BY <2>1, <2>2 DEF ActiveInv, LeaseOwnerInv, PendingInv
  <1> QED BY <1>1, <1>3, <1>4

\* At first nothing is claimed.
LEMMA ClaimInit == Init => ClaimInv
  BY DEF Init, ClaimInv, ActiveInv, LeaseOwnerInv, PendingInv, NoRun, NoCancel

\* Every step keeps the owners.
LEMMA ClaimStep == TypeInv /\ ClaimInv /\ [Next]_vars => ClaimInv'
  <1> SUFFICES ASSUME TypeInv, ClaimInv, [Next]_vars PROVE ClaimInv'
    OBVIOUS
  <1>1. ASSUME NEW r \in Runners, RunnerStep(r) \/ RunnerFails(r) PROVE ClaimInv'
    BY <1>1, RunnerKeepsClaims, FailKeepsClaims
  <1>2. ASSUME NEW i \in Ids,
               \/ \E r \in Runners :
                    StartDetached(r, i) \/ StartWaited(r, i) \/ StartPlain(r, i)
               \/ CancelFiber(i) \/ DeleteFiber(i)
               \/ \E s \in Terminal : ResolveFiber(i, s)
               \/ \E w \in Waiters : Wait(w, i)
        PROVE  ClaimInv'
    BY <1>2, ClientKeepsClaims
  <1>3. CASE \/ CancelReleases \/ ScanStep \/ HookFails \/ JobFires \/ JobOutcome
             \/ Crash \/ Restart \/ UNCHANGED vars
    BY <1>3, ObjectKeepsClaims
  <1> QED BY <1>1, <1>2, <1>3, NextParts

\* In every behaviour, Restarts or not: a claim, a lease or a pending lease always
\* belongs to a call that is still there to give it back.
THEOREM ClaimsOwned == Spec => []ClaimsAreOwned
  <1>1. TypeInv /\ ClaimInv => ClaimsAreOwned
    BY DEF ClaimInv, ActiveInv, LeaseOwnerInv, PendingInv, ClaimsAreOwned, Claims
  <1>2. Init => TypeInv /\ ClaimInv
    BY TypeInit, ClaimInit
  <1>3. TypeInv /\ ClaimInv /\ [Next]_vars => TypeInv' /\ ClaimInv'
    BY TypeStep, ClaimStep
  <1> QED BY <1>1, <1>2, <1>3, PTL DEF Spec

-----------------------------------------------------------------------------
(* A fiber is started, runs and is recovered once: under the hypothesis    *)
(* that no id is started again after its row is deleted, which the code    *)
(* leaves to its callers.                                                  *)

\* Neither open nor waiting for anybody: settled, or no row at all.
Gone(i) == ledger[i] \in Ended \cup {"none"}

Used(i) == \E r \in Runners : run[r].id = i /\ run[r].pc # "idle"

\* A detached call before its callback, and the calls whose run row is written.
Fresh == {"lease", "leaseArm", "leased", "leaseFailed", "spawned"}
Begun == {"arm", "arming", "armFailed", "running"}

\* The phases that hold the claim whatever happens; a spawned call may lose it to
\* cancel_fiber.
Working == {"lease", "leaseArm", "leased", "arm", "arming", "running"}

\* No two calls are about the same id ...
OneEach == \A r, s \in Runners :
    run[r].pc # "idle" /\ run[s].pc # "idle" /\ run[r].id = run[s].id => r = s

InHookOf(i) == scan.pc \in {"hook", "ledgerHook"} /\ scan.id = i

\* ... and nothing is kept about an id nobody started.
UsedInv == \A i \in Ids :
    \/ ledger[i] # "none" \/ i \in rows \/ i \in scan.left \/ i \in returned
    \/ InHookOf(i)
    => Used(i)

\* What is known of a call's id in each of its phases.
OwnShape(r) ==
    /\ run[r].pc \in Fresh => /\ run[r].kind = "detached" /\ ~run[r].ran
                              /\ run[r].id \in ManagedIds
    /\ run[r].pc \in Begun => run[r].ran
    /\ run[r].kind = "plain" => run[r].id \in PlainIds
    /\ run[r].id \in rows => run[r].ran
OwnClaim(r) ==
    /\ run[r].pc \in Working => run[r].id \in active
    /\ run[r].pc = "spawned" =>
         Gone(run[r].id) \/ (pending[run[r].id] = r /\ run[r].id \in active)
    /\ run[r].pc = "running" => r \in leases /\ (cancel.pc # "idle" => cancel.lease # r)
OwnRow(r) ==
    /\ run[r].pc \in {"arm", "arming", "running"} =>
         ledger[run[r].id] \notin {"pending", "interrupted"}
    /\ run[r].id \in returned \cap ManagedIds => Gone(run[r].id)
    /\ InHookOf(run[r].id) =>
         \/ run[r].pc \in {"leaseFailed", "armFailed", "release", "releasing", "done", "lost"}
         \/ run[r].pc = "spawned" /\ Gone(run[r].id)
OwnInv(r) == run[r].pc # "idle" => OwnShape(r) /\ OwnClaim(r) /\ OwnRow(r)

AloneInv == OneEach /\ UsedInv /\ \A r \in Runners : OwnInv(r)

\* Everything about ids other than i, and leases of calls other than r, stays.
OthersStay(r, i) ==
    /\ \A j \in Ids \ {i} :
         /\ ledger'[j] = ledger[j] /\ pending'[j] = pending[j]
         /\ j \in rows' <=> j \in rows
         /\ j \in active' <=> j \in active
         /\ j \in returned' <=> j \in returned
    /\ \A s \in Runners \ {r} : s \in leases' <=> s \in leases
    /\ UNCHANGED <<scan, cancel>>

\* A step of one call about its own id: what has to be seen is that call alone.
LEMMA OwnStep ==
    ASSUME TypeInv, AloneInv, NEW r \in Runners, NEW pc \in RunPcs \ {"idle"}, Moves(r, pc),
           run[r].pc # "idle", run'[r].id = run[r].id, OthersStay(r, run[r].id), OwnInv(r)'
    PROVE  AloneInv'
  <1>0. run \in [Runners -> RunType] /\ \A s \in Runners : run[s].id \in Ids
    BY TypeParts DEF TypeInv, LedgerType, RunType
  <1>1. \A s \in Runners : /\ run'[s].id = run[s].id
                           /\ run'[s].pc = "idle" <=> run[s].pc = "idle"
    BY DEF Moves
  <1>2. OneEach'
    BY <1>1 DEF AloneInv, OneEach
  <1>3. UsedInv'
    <2>1. ASSUME NEW i \in Ids PROVE Used(i)' <=> Used(i)
      BY <1>1 DEF Used
    <2>2. Used(run[r].id)
      BY DEF Used
    <2> QED BY <2>1, <2>2 DEF AloneInv, UsedInv, OthersStay, InHookOf
  <1>4. ASSUME NEW s \in Runners, s # r, run[s].pc # "idle" PROVE OwnInv(s)'
    <2>1. run'[s] = run[s] /\ run[s].id \in Ids \ {run[r].id}
      BY <1>0, <1>4 DEF Moves, AloneInv, OneEach
    <2>2. OwnShape(s) /\ OwnClaim(s) /\ OwnRow(s)
      BY <1>4 DEF AloneInv, OwnInv
    <2>3. OwnShape(s)'
      BY <2>1, <2>2 DEF OwnShape, OthersStay
    <2>4. OwnClaim(s)'
      BY <1>4, <2>1, <2>2 DEF OwnClaim, OthersStay, Gone
    <2>5. OwnRow(s)'
      BY <2>1, <2>2 DEF OwnRow, OthersStay, Gone, InHookOf
    <2> QED BY <2>3, <2>4, <2>5 DEF OwnInv
  <1>5. ASSUME NEW s \in Runners, run[s].pc = "idle" PROVE OwnInv(s)'
    BY <1>1, <1>5 DEF OwnInv
  <1> QED BY <1>2, <1>3, <1>4, <1>5 DEF AloneInv

\* A start is such a step about an id of its own.
LEMMA FirstStep ==
    ASSUME TypeInv, AloneInv, NEW r \in Runners, NEW i \in Ids,
           NEW pc \in RunPcs \ {"idle"}, Moves(r, pc),
           run[r].pc = "idle", run'[r].id = i, Unused(i),
           OthersStay(r, i), OwnShape(r)', OwnClaim(r)', OwnRow(r)'
    PROVE  AloneInv'
  <1>0. run \in [Runners -> RunType] /\ \A s \in Runners : run[s].id \in Ids
    BY TypeParts DEF TypeInv, LedgerType, RunType
  <1>1. \A s \in Runners : s # r => run'[s] = run[s] /\ (run[s].pc # "idle" => run[s].id # i)
    BY DEF Moves, Unused
  <1>2. OneEach'
    BY <1>1 DEF AloneInv, OneEach
  <1>3. UsedInv'
    <2>1. ASSUME NEW j \in Ids, j # i, Used(j) PROVE Used(j)'
      BY <1>1, <2>1 DEF Used
    <2>2. Used(i)'
      BY DEF Used, Moves
    <2>3. ASSUME NEW j \in Ids, j # i PROVE InHookOf(j)' <=> InHookOf(j)
      BY DEF InHookOf, OthersStay
    <2> QED BY <2>1, <2>2, <2>3 DEF AloneInv, UsedInv, OthersStay
  <1>4. ASSUME NEW s \in Runners, s # r, run[s].pc # "idle" PROVE OwnInv(s)'
    <2>1. run'[s] = run[s] /\ run[s].id \in Ids \ {i}
      BY <1>0, <1>1, <1>4
    <2>2. OwnShape(s) /\ OwnClaim(s) /\ OwnRow(s)
      BY <1>4 DEF AloneInv, OwnInv
    <2>3. OwnShape(s)'
      BY <2>1, <2>2 DEF OwnShape, OthersStay
    <2>4. OwnClaim(s)'
      BY <1>4, <2>1, <2>2 DEF OwnClaim, OthersStay, Gone
    <2>5. OwnRow(s)'
      BY <2>1, <2>2 DEF OwnRow, OthersStay, Gone, InHookOf
    <2> QED BY <2>3, <2>4, <2>5 DEF OwnInv
  <1>5. ASSUME NEW s \in Runners, s # r, run[s].pc = "idle" PROVE OwnInv(s)'
    BY <1>1, <1>5 DEF OwnInv
  <1> QED BY <1>2, <1>3, <1>4, <1>5 DEF AloneInv, OwnInv

\* The steps of a task are of that kind.
LEMMA RunnerKeepsAlone ==
    ASSUME TypeInv, ClaimInv, AloneInv, NEW r \in Runners, RunnerStep(r)
    PROVE  AloneInv'
  <1> DEFINE i == run[r].id
  <1>0. /\ run \in [Runners -> RunType] /\ i \in Ids /\ ledger \in [Ids -> Statuses]
        /\ active \subseteq Ids /\ leases \subseteq Runners
        /\ pending \in [Ids -> Runners \cup {NoRunner}] /\ NoRunner \notin Runners
    BY TypeParts, FiberAssumption DEF TypeInv, LedgerType, MemoryType, RunType
  <1>o. run[r].pc # "idle" => OwnShape(r) /\ OwnClaim(r) /\ OwnRow(r)
    BY DEF AloneInv, OwnInv
  <1>q. /\ {"leaseArm", "leased", "spawned", "arming", "running", "release", "releasing",
            "done"} \subseteq RunPcs \ {"idle"}
        /\ run[r].pc \in RunPcs
    BY <1>0 DEF RunPcs, RunType
  <1>c. cancel.pc # "idle" =>
          run[cancel.lease].pc \in {"spawned", "running", "release", "releasing", "done"}
    BY DEF ClaimInv, PendingInv
  <1>1. ASSUME NEW from, NEW arming, NEW got, TakeLease(r, from, arming, got),
               \/ from = "lease" /\ arming = "leaseArm" /\ got = "leased"
               \/ from = "arm" /\ arming = "arming" /\ got = "running"
        PROVE  AloneInv'
    <2>1. PICK pc \in {arming, got} :
            /\ Only(r, pc) /\ leases' = leases \cup {r} /\ run[r].pc = from
            /\ UNCHANGED <<active, pending, cancel, ledger, rows, scan, returned>>
      BY <1>0, <1>1, <1>q, GoesOnly DEF TakeLease, tables, others
    <2>2. OwnShape(r)'
      BY <1>1, <1>o, <2>1 DEF OwnShape, Only, Moves, Fresh, Begun
    <2>3. OwnClaim(r)'
      BY <1>1, <1>o, <1>c, <2>1 DEF OwnClaim, Only, Moves, Working
    <2>4. OwnRow(r)'
      BY <1>1, <1>o, <2>1 DEF OwnRow, Only, Moves, Gone, InHookOf
    <2>5. OthersStay(r, i)
      BY <2>1 DEF OthersStay
    <2> QED BY <1>1, <1>q, <2>1, <2>2, <2>3, <2>4, <2>5, OwnStep DEF OwnInv, Only
  <1>2. ASSUME NEW arming, NEW got, AlarmArmed(r, arming, got),
               \/ arming = "leaseArm" /\ got = "leased"
               \/ arming = "arming" /\ got = "running"
        PROVE  AloneInv'
    <2>1. /\ Only(r, got) /\ run[r].pc = arming
          /\ UNCHANGED <<active, pending, cancel, ledger, rows, scan, returned, leases>>
      BY <1>0, <1>2, <1>q, GoesOnly DEF AlarmArmed, tables, others
    <2>2. OwnShape(r)'
      BY <1>2, <1>o, <2>1 DEF OwnShape, Only, Moves, Fresh, Begun
    <2>3. OwnClaim(r)'
      BY <1>2, <1>o, <1>c, <2>1 DEF OwnClaim, Only, Moves, Working, ClaimInv, LeaseOwnerInv
    <2>4. OwnRow(r)'
      BY <1>2, <1>o, <2>1 DEF OwnRow, Only, Moves, Gone, InHookOf
    <2>5. OthersStay(r, i)
      BY <2>1 DEF OthersStay
    <2> QED BY <1>2, <1>q, <2>1, <2>2, <2>3, <2>4, <2>5, OwnStep DEF OwnInv, Only
  <1>3. CASE LeaseUndone(r)
    <2>1. /\ Only(r, "done") /\ run[r].pc = "leaseFailed" /\ active' = active \ {i}
          /\ UNCHANGED <<pending, cancel, rows, scan, returned, leases>>
          /\ \/ ledger[i] = "pending" /\ ledger' = [ledger EXCEPT ![i] = "none"]
             \/ UNCHANGED ledger
      BY <1>0, <1>3, <1>q, GoesOnly DEF LeaseUndone, tables, others
    <2>2. OwnShape(r)'
      BY <1>o, <2>1 DEF OwnShape, Only, Moves, Fresh, Begun
    <2>3. OwnClaim(r)'
      BY <1>o, <2>1 DEF OwnClaim, Only, Moves, Working
    <2>4. OwnRow(r)'
      BY <1>0, <1>o, <2>1 DEF OwnRow, Only, Moves, Gone, InHookOf
    <2>5. OthersStay(r, i)
      BY <1>0, <2>1 DEF OthersStay
    <2> QED BY <1>q, <2>1, <2>2, <2>3, <2>4, <2>5, OwnStep DEF OwnInv, Only
  <1>4. CASE ArmUndone(r)
    <2>1. /\ Only(r, "done") /\ run[r].pc = "armFailed" /\ active' = active \ {i}
          /\ rows' = rows \ {i} /\ UNCHANGED <<pending, cancel, scan, returned, leases>>
          /\ \/ /\ ledger[i] = "running"
                /\ \E s \in Ended : ledger' = [ledger EXCEPT ![i] = s]
             \/ UNCHANGED ledger
      BY <1>0, <1>4, <1>q, GoesOnly DEF ArmUndone, Ended
    <2>2. OwnShape(r)'
      BY <1>0, <1>o, <2>1 DEF OwnShape, Only, Moves, Fresh, Begun
    <2>3. OwnClaim(r)'
      BY <1>o, <2>1 DEF OwnClaim, Only, Moves, Working
    <2>4. OwnRow(r)'
      BY <1>0, <1>o, <2>1 DEF OwnRow, Only, Moves, Gone, InHookOf
    <2>5. OthersStay(r, i)
      BY <1>0, <2>1 DEF OthersStay
    <2> QED BY <1>q, <2>1, <2>2, <2>3, <2>4, <2>5, OwnStep DEF OwnInv, Only
  <1>5. CASE Accept(r)
    <2>1. /\ run[r].pc = "leased"
          /\ UNCHANGED <<cancel, ledger, rows, scan, returned, leases>>
      BY <1>5 DEF Accept, tables, others
    <2>2. PICK pc \in {"spawned", "release"} :
            /\ Only(r, pc)
            /\ \/ /\ pc = "spawned" /\ UNCHANGED active
                  /\ pending' = [pending EXCEPT ![i] = r]
               \/ /\ pc = "release" /\ active' = active \ {i}
                  /\ pending' = [pending EXCEPT ![i] = NoRunner]
      BY <1>0, <1>5, <1>q, GoesOnly DEF Accept
    <2>3. OwnShape(r)'
      BY <1>o, <2>1, <2>2 DEF OwnShape, Only, Moves, Fresh, Begun
    <2>4. OwnClaim(r)'
      BY <1>0, <1>o, <2>1, <2>2 DEF OwnClaim, Only, Moves, Working
    <2>5. OwnRow(r)'
      BY <1>o, <2>1, <2>2 DEF OwnRow, Only, Moves, Gone, InHookOf
    <2>6. OthersStay(r, i)
      BY <1>0, <2>1, <2>2 DEF OthersStay
    <2> QED BY <1>q, <2>1, <2>2, <2>3, <2>4, <2>5, <2>6, OwnStep DEF OwnInv, Only
  <1>7. ASSUME NEW o, Returns(r, o) PROVE AloneInv'
    <2>1. /\ Only(r, "release") /\ run[r].pc = "running" /\ active' = active \ {i}
          /\ rows' = rows \ {i} /\ returned' = returned \cup {i}
          /\ UNCHANGED <<pending, cancel, scan, leases>>
          /\ \/ /\ ledger[i] = "running"
                /\ \E s \in Ended : ledger' = [ledger EXCEPT ![i] = s]
             \/ (ledger[i] # "running" \/ run[r].kind = "plain") /\ UNCHANGED ledger
      BY <1>0, <1>7, <1>q, GoesOnly DEF Returns, Settled, Ended
    <2>2. OwnShape(r)'
      BY <1>0, <1>o, <2>1 DEF OwnShape, Only, Moves, Fresh, Begun
    <2>3. OwnClaim(r)'
      BY <1>o, <2>1 DEF OwnClaim, Only, Moves, Working
    <2>4. OwnRow(r)'
      <3>1. /\ ~InHookOf(i) /\ ledger[i] \notin {"pending", "interrupted"}
            /\ run[r].kind = "plain" => i \in PlainIds
        BY <1>o, <2>1 DEF OwnRow, OwnShape
      <3>2. i \in ManagedIds => ledger'[i] \in Ended \cup {"none"}
        BY <1>0, <2>1, <3>1, FiberAssumption DEF Statuses, Terminal, Open
      <3> QED BY <2>1, <3>1, <3>2 DEF OwnRow, Only, Moves, Gone, InHookOf
    <2>5. OthersStay(r, i)
      BY <1>0, <2>1 DEF OthersStay
    <2> QED BY <1>q, <2>1, <2>2, <2>3, <2>4, <2>5, OwnStep DEF OwnInv, Only
  <1>8. CASE Release(r) \/ Released(r)
    <2>1. ASSUME Wrapper(r)
          PROVE  /\ Only(r, "done") /\ active' \in {active, active \ {i}}
                 /\ pending' \in {pending, [pending EXCEPT ![i] = NoRunner]}
      BY <1>0, <1>q, <2>1, GoesOnly DEF Wrapper
    <2>2. Goes(r, "releasing") => Only(r, "releasing")
      BY <1>0, <1>q, GoesOnly
    <2>3. /\ \/ Goes(r, "releasing") /\ UNCHANGED <<active, pending>>
             \/ Wrapper(r)
          /\ run[r].pc \in {"release", "releasing"} /\ leases' \in {leases, leases \ {r}}
          /\ UNCHANGED <<cancel, ledger, rows, scan, returned>>
      BY <1>8 DEF Release, Released, tables, others
    <2>4. PICK pc \in {"releasing", "done"} :
            /\ Only(r, pc) /\ active' \in {active, active \ {i}}
            /\ pending' \in {pending, [pending EXCEPT ![i] = NoRunner]}
      BY <2>1, <2>2, <2>3
    <2>5. OwnShape(r)'
      BY <1>o, <2>3, <2>4 DEF OwnShape, Only, Moves, Fresh, Begun
    <2>6. OwnClaim(r)'
      BY <1>o, <2>3, <2>4 DEF OwnClaim, Only, Moves, Working
    <2>7. OwnRow(r)'
      BY <1>o, <2>3, <2>4 DEF OwnRow, Only, Moves, Gone, InHookOf
    <2>8. OthersStay(r, i)
      BY <1>0, <2>3, <2>4 DEF OthersStay
    <2> QED BY <1>q, <2>3, <2>4, <2>5, <2>6, <2>7, <2>8, OwnStep DEF OwnInv, Only
  <1>6. CASE Enter(r)
    <2>1. /\ run[r].pc = "spawned" /\ pending' = [pending EXCEPT ![i] = NoRunner]
          /\ UNCHANGED <<cancel, scan, leases, returned>>
      BY <1>6 DEF Enter
    <2>2. i \notin rows
      BY <1>o, <2>1 DEF OwnShape, Fresh
    <2>3. CASE ledger[i] = "pending"
      <3>1. /\ run' = [run EXCEPT ![r].pc = "running", ![r].ran = TRUE]
            /\ ledger' = [ledger EXCEPT ![i] = "running"]
            /\ rows' = rows \cup {i} /\ active' = active \cup {i}
        BY <1>6, <2>2, <2>3 DEF Enter
      <3>2. run' \in [Runners -> RunType]
        BY RunnerStepOK, TypeParts DEF StepOK, TypeInv
      <3>3. /\ Moves(r, "running") /\ run'[r].ran
            /\ run'[r].id = i /\ run'[r].kind = run[r].kind
        BY <1>0, <3>1, <3>2 DEF Moves, RunType
      <3>4. OwnShape(r)'
        BY <1>o, <2>1, <3>3 DEF OwnShape, Moves, Fresh, Begun
      <3>5. r \in leases /\ (cancel.pc # "idle" => cancel.lease # r)
        BY <1>o, <1>0, <2>1, <2>3 DEF OwnClaim, Gone, Ended, ClaimInv, PendingInv
      <3>6. OwnClaim(r)'
        BY <2>1, <3>1, <3>3, <3>5 DEF OwnClaim, Moves, Working
      <3>7. OwnRow(r)'
        BY <1>0, <1>o, <2>1, <2>3, <3>1, <3>3 DEF OwnRow, Moves, Gone, Ended, InHookOf
      <3>8. OthersStay(r, i)
        BY <1>0, <2>1, <3>1 DEF OthersStay
      <3> QED BY <1>q, <2>1, <3>3, <3>4, <3>6, <3>7, <3>8, OwnStep DEF OwnInv
    <2>4. CASE ledger[i] # "pending"
      <3>1. /\ Only(r, "release") /\ UNCHANGED <<ledger, rows>> /\ active' = active \ {i}
        BY <1>0, <1>6, <2>4, <1>q, GoesOnly DEF Enter
      <3>2. OwnShape(r)'
        BY <1>o, <2>1, <3>1 DEF OwnShape, Only, Moves, Fresh, Begun
      <3>3. OwnClaim(r)'
        BY <1>o, <2>1, <3>1 DEF OwnClaim, Only, Moves, Working
      <3>4. OwnRow(r)'
        BY <1>o, <2>1, <3>1 DEF OwnRow, Only, Moves, Gone, InHookOf
      <3>5. OthersStay(r, i)
        BY <1>0, <2>1, <3>1 DEF OthersStay
      <3> QED BY <1>q, <2>1, <3>1, <3>2, <3>3, <3>4, <3>5, OwnStep DEF OwnInv, Only
    <2> QED BY <2>3, <2>4
  <1> QED BY <1>1, <1>2, <1>3, <1>4, <1>5, <1>6, <1>7, <1>8 DEF RunnerStep

\* So are the failures of its alarm and its caller.
LEMMA FailKeepsAlone ==
    ASSUME TypeInv, AloneInv, NEW r \in Runners, RunnerFails(r)
    PROVE  AloneInv'
  <1> DEFINE i == run[r].id
  <1>0. /\ run \in [Runners -> RunType] /\ i \in Ids
        /\ active \subseteq Ids /\ leases \subseteq Runners
    BY TypeParts DEF TypeInv, LedgerType, MemoryType, RunType
  <1>o. run[r].pc # "idle" => OwnShape(r) /\ OwnClaim(r) /\ OwnRow(r)
    BY DEF AloneInv, OwnInv
  <1>q. {"leaseFailed", "armFailed", "release", "done"} \subseteq RunPcs \ {"idle"}
    BY DEF RunPcs
  <1>1. ASSUME NEW arming, NEW failed, AlarmFails(r, arming, failed),
               \/ arming = "leaseArm" /\ failed = "leaseFailed"
               \/ arming = "arming" /\ failed = "armFailed"
        PROVE  AloneInv'
    <2>1. /\ Only(r, failed) /\ leases' = leases \ {r} /\ run[r].pc = arming
          /\ UNCHANGED <<active, pending, cancel, ledger, rows, scan, returned>>
      BY <1>0, <1>1, <1>q, GoesOnly DEF AlarmFails, tables, others
    <2>2. OwnShape(r)'
      BY <1>1, <1>o, <2>1 DEF OwnShape, Only, Moves, Fresh, Begun
    <2>3. OwnClaim(r)'
      BY <1>1, <1>o, <2>1 DEF OwnClaim, Only, Moves, Working
    <2>4. OwnRow(r)'
      BY <1>1, <1>o, <2>1 DEF OwnRow, Only, Moves, Gone, InHookOf
    <2>5. OthersStay(r, i)
      BY <2>1 DEF OthersStay
    <2> QED BY <1>1, <1>q, <2>1, <2>2, <2>3, <2>4, <2>5, OwnStep DEF OwnInv, Only
  <1>2. ASSUME NEW pc \in {"release", "done"}, Only(r, pc),
               run[r].pc \in Working \ {"leased"}, active' = active \ {i},
               leases' \in {leases, leases \ {r}},
               UNCHANGED <<pending, cancel, ledger, rows, scan, returned>>
        PROVE  AloneInv'
    <2>0. run[r].pc # "idle"
      BY <1>2 DEF Working
    <2>2. OwnShape(r)'
      BY <1>2, <1>o, <2>0 DEF OwnShape, Only, Moves, Fresh, Begun
    <2>3. OwnClaim(r)'
      BY <1>2, <1>o, <2>0 DEF OwnClaim, Only, Moves, Working
    <2>4. OwnRow(r)'
      BY <1>2, <1>o, <2>0 DEF OwnRow, Only, Moves, Gone, InHookOf
    <2>5. OthersStay(r, i)
      BY <1>2 DEF OthersStay
    <2> QED BY <1>q, <1>2, <2>0, <2>2, <2>3, <2>4, <2>5, OwnStep DEF OwnInv, Only
  <1>3. CASE CallerCancelled(r)
    <2>1. /\ Only(r, "done") /\ leases' = leases \ {r} /\ active' = active \ {i}
          /\ run[r].pc \in {"lease", "leaseArm", "arm", "arming"}
          /\ UNCHANGED <<pending, cancel, ledger, rows, scan, returned>>
      BY <1>0, <1>3, <1>q, GoesOnly DEF CallerCancelled, tables, others
    <2> QED BY <1>2, <2>1 DEF Working
  <1>4. CASE Interrupted(r)
    <2>1. /\ Only(r, "release") /\ active' = active \ {i} /\ run[r].pc = "running"
          /\ UNCHANGED <<leases, pending, cancel, ledger, rows, scan, returned>>
      BY <1>0, <1>4, <1>q, GoesOnly DEF Interrupted, tables, others
    <2> QED BY <1>2, <2>1 DEF Working
  <1> QED BY <1>1, <1>3, <1>4 DEF RunnerFails

\* A start of an id that was not started before is the first step about it.
LEMMA StartKeepsAlone ==
    ASSUME TypeInv, ClaimInv, AloneInv, ~Restarts, NEW r \in Runners, NEW i \in Ids,
           StartDetached(r, i) \/ StartWaited(r, i) \/ StartPlain(r, i)
    PROVE  AloneInv'
  <1>0. /\ LedgerType /\ run \in [Runners -> RunType] /\ run' \in [Runners -> RunType]
        /\ active \subseteq Ids /\ leases \subseteq Runners /\ ledger \in [Ids -> Statuses]
    BY TypeParts, ClientStepOK DEF TypeInv, LedgerType, MemoryType, StepOK
  <1>1. Unused(i) /\ run[r].pc = "idle"
    BY DEF StartDetached, StartWaited, StartPlain
  <1>2. ledger[i] = "none" /\ i \notin rows /\ i \notin returned /\ ~InHookOf(i)
    BY <1>1 DEF Unused, Used, AloneInv, UsedInv
  <1>3. /\ UNCHANGED <<leases, pending, cancel, scan>>
        /\ active' = active \cup {i} /\ returned' \subseteq returned
        /\ \A j \in Ids \ {i} : j \in returned' <=> j \in returned
    BY <1>2 DEF StartDetached, StartWaited, StartPlain, others
  <1>4. CASE StartDetached(r, i)
    <2>1. /\ run' = [run EXCEPT ![r] = [NoRun EXCEPT !.id = i, !.pc = "lease"]]
          /\ ledger' = [ledger EXCEPT ![i] = "pending"] /\ rows' = rows /\ i \in ManagedIds
      BY <1>4 DEF StartDetached
    <2>2. /\ Moves(r, "lease") /\ run'[r].id = i
          /\ run'[r].kind = "detached" /\ ~run'[r].ran
      BY <1>0, <2>1 DEF Moves, NoRun
    <2>3. OwnShape(r)'
      BY <1>2, <2>1, <2>2 DEF OwnShape, Moves, Begun
    <2>4. OwnClaim(r)'
      BY <1>3, <2>2 DEF OwnClaim, Moves
    <2>5. OwnRow(r)'
      BY <1>2, <1>3, <2>2 DEF OwnRow, Moves, InHookOf
    <2>6. OthersStay(r, i)
      BY <1>0, <1>3, <2>1 DEF OthersStay
    <2> QED BY <1>1, <2>2, <2>3, <2>4, <2>5, <2>6, FirstStep DEF RunPcs
  <1>5. ASSUME NEW kind \in {"waited", "plain"},
               run' = [run EXCEPT ![r] = [kind |-> kind, id |-> i, pc |-> "arm",
                                          ran |-> TRUE, aborted |-> FALSE]],
               kind = "plain" => i \in PlainIds,
               ledger' = ledger \/ ledger' = [ledger EXCEPT ![i] = "running"],
               rows' = rows \cup {i}
        PROVE  AloneInv'
    <2>2. /\ Moves(r, "arm") /\ run'[r].id = i /\ run'[r].kind = kind /\ run'[r].ran
      BY <1>0, <1>5 DEF Moves
    <2>3. OwnShape(r)'
      BY <1>5, <2>2 DEF OwnShape, Moves, Fresh
    <2>4. OwnClaim(r)'
      BY <1>3, <2>2 DEF OwnClaim, Moves
    <2>5. OwnRow(r)'
      BY <1>0, <1>2, <1>3, <1>5, <2>2 DEF OwnRow, Moves, InHookOf
    <2>6. OthersStay(r, i)
      BY <1>0, <1>3, <1>5 DEF OthersStay
    <2> QED BY <1>1, <2>2, <2>3, <2>4, <2>5, <2>6, FirstStep DEF RunPcs
  <1>6. CASE StartWaited(r, i)
    BY <1>2, <1>5, <1>6 DEF StartWaited
  <1>7. CASE StartPlain(r, i)
    BY <1>5, <1>7 DEF StartPlain
  <1> QED BY <1>4, <1>6, <1>7

\* The calls stay where they are.
CallsStay ==
    \A r \in Runners : /\ run'[r].pc = run[r].pc /\ run'[r].id = run[r].id
                       /\ run'[r].kind = run[r].kind /\ run'[r].ran = run[r].ran

\* A step of somebody else may drop rows, and write the ledger row of an id that is
\* not about to run here, unless it was settled.
LEMMA TableStep ==
    ASSUME TypeInv, AloneInv, CallsStay, UNCHANGED <<active, pending, leases, cancel, returned>>,
           rows' \subseteq rows,
           NEW i \in Ids, NEW s,
           \/ UNCHANGED ledger
           \/ /\ ledger' = [ledger EXCEPT ![i] = s]
              /\ Gone(i) => s \in Ended \cup {"none"}
              /\ s # "none" => ledger[i] # "none"
              /\ \A r \in Runners : run[r].id = i => run[r].pc \notin {"arm", "arming", "running"},
           \A j \in Ids : j \in scan'.left => j \in scan.left \/ j \in rows \/ ledger[j] # "none",
           \A j \in Ids : InHookOf(j)' =>
             \/ InHookOf(j)
             \/ /\ j \in scan.left
                /\ \A r \in Runners : run[r].id = j =>
                     \/ run[r].pc \in {"idle", "leaseFailed", "armFailed", "release",
                                       "releasing", "done", "lost"}
                     \/ run[r].pc = "spawned" /\ Gone(j)
    PROVE  AloneInv'
  <1>0. ledger \in [Ids -> Statuses] /\ \A r \in Runners : run[r].id \in Ids
    BY TypeParts DEF TypeInv, LedgerType, RunType
  <1>1. OneEach'
    BY DEF AloneInv, OneEach, CallsStay
  <1>2. UsedInv'
    <2>1. ASSUME NEW j \in Ids PROVE Used(j)' <=> Used(j)
      BY DEF Used, CallsStay
    <2>2. \A j \in Ids : ledger'[j] # "none" => ledger[j] # "none"
      BY <1>0
    <2> QED BY <2>1, <2>2 DEF AloneInv, UsedInv
  <1>3. \A j \in Ids : Gone(j) => Gone(j)'
    BY <1>0 DEF Gone
  <1>4. ASSUME NEW r \in Runners, run[r].pc # "idle" PROVE OwnInv(r)'
    <2>1. OwnShape(r) /\ OwnClaim(r) /\ OwnRow(r)
      BY <1>4 DEF AloneInv, OwnInv
    <2>2. OwnShape(r)'
      BY <2>1 DEF OwnShape, CallsStay
    <2>3. OwnClaim(r)'
      BY <1>0, <1>3, <2>1 DEF OwnClaim, CallsStay
    <2>4. OwnRow(r)'
      <3>1. run[r].pc \in {"arm", "arming", "running"} => ledger'[run[r].id] = ledger[run[r].id]
        BY <1>0
      <3>2. ASSUME NEW j \in Ids, j = run[r].id, InHookOf(j)'
            PROVE  \/ run[r].pc \in {"leaseFailed", "armFailed", "release", "releasing",
                                     "done", "lost"}
                   \/ run[r].pc = "spawned" /\ Gone(j)
        BY <1>4, <2>1, <3>2 DEF OwnRow
      <3> QED BY <1>0, <1>3, <2>1, <3>1, <3>2 DEF OwnRow, CallsStay, InHookOf
    <2> QED BY <2>2, <2>3, <2>4 DEF OwnInv
  <1>5. ASSUME NEW r \in Runners, run[r].pc = "idle" PROVE OwnInv(r)'
    BY <1>5 DEF OwnInv, CallsStay
  <1> QED BY <1>1, <1>2, <1>4, <1>5 DEF AloneInv

\* The scan comes to an unowned row: nobody is about to run what it is of.
LEMMA UnownedRests ==
    ASSUME TypeInv, AloneInv, NEW i \in Ids, i \notin active
    PROVE  \A r \in Runners : run[r].id = i =>
             \/ run[r].pc \in {"idle", "leaseFailed", "armFailed", "release", "releasing",
                               "done", "lost"}
             \/ run[r].pc = "spawned" /\ Gone(i)
  <1>1. \A r \in Runners : run[r].pc \in RunPcs
    BY TypeParts DEF TypeInv, LedgerType, RunType
  <1> QED BY <1>1 DEF AloneInv, OwnInv, OwnClaim, Working, RunPcs

\* The scan and its hook keep all that.
LEMMA ScanKeepsAlone ==
    ASSUME TypeInv, AloneInv, ScanStep \/ HookFails
    PROVE  AloneInv'
  <1>0. /\ ledger \in [Ids -> Statuses] /\ scan \in ScanType
        /\ scan.id \in Ids /\ scan.left \subseteq Ids
    BY TypeParts DEF TypeInv, LedgerType, ScanType
  <1>1. ASSUME NEW i \in Ids, ScanRow(i) \/ ScanLedgerRow(i) PROVE AloneInv'
    <2>1. /\ CallsStay /\ UNCHANGED <<active, pending, leases, cancel, returned>>
          /\ rows' \subseteq rows /\ i \in scan.left /\ scan.pc \in {"rows", "ledger"}
      BY <1>1 DEF ScanRow, ScanLedgerRow, memory, CallsStay, Scans
    <2>2. \/ /\ UNCHANGED ledger /\ scan' = [scan EXCEPT !.left = @ \ {i}]
          \/ /\ i \notin active /\ ledger' = Marked(i) /\ scan'.id = i
             /\ scan'.left = scan.left \ {i}
      BY <1>0, <1>1 DEF ScanRow, ScanLedgerRow, Owned, ScanType
    <2>3. CASE UNCHANGED ledger /\ scan' = [scan EXCEPT !.left = @ \ {i}]
      <3>1. scan'.pc = scan.pc /\ scan'.id = scan.id /\ scan'.left = scan.left \ {i}
        BY <1>0, <2>3 DEF ScanType
      <3>2. \A j \in Ids : InHookOf(j)' => InHookOf(j)
        BY <3>1 DEF InHookOf
      <3> QED BY <2>1, <2>3, <3>1, <3>2, TableStep
    <2>4. CASE /\ i \notin active /\ ledger' = Marked(i) /\ scan'.id = i
               /\ scan'.left = scan.left \ {i}
      <3>1. \A r \in Runners : run[r].id = i =>
             \/ run[r].pc \in {"idle", "leaseFailed", "armFailed", "release", "releasing",
                               "done", "lost"}
             \/ run[r].pc = "spawned" /\ Gone(i)
        BY <2>4, UnownedRests
      <3>2. \/ UNCHANGED ledger
            \/ ledger' = [ledger EXCEPT ![i] = "interrupted"] /\ ledger[i] \in Open
        BY <2>4 DEF Marked
      <3>3. \A j \in Ids : InHookOf(j)' => j = i
        BY <2>4 DEF InHookOf
      <3>4. ledger[i] \in Open => ~Gone(i) /\ ledger[i] # "none"
        BY DEF Open, Gone, Ended
      <3> QED BY <2>1, <2>4, <3>1, <3>2, <3>3, <3>4, TableStep
    <2> QED BY <2>2, <2>3, <2>4
  <1>2. CASE ListLedger
    <2>1. /\ CallsStay /\ UNCHANGED <<ledger, rows, active, pending, leases, cancel, returned>>
          /\ scan' = [scan EXCEPT !.pc = "ledger", !.left = LedgerOnly, !.seen = ledger]
      BY <1>2 DEF ListLedger, tables, memory, CallsStay
    <2>2. scan'.pc = "ledger" /\ scan'.left = LedgerOnly
      BY <1>0, <2>1 DEF ScanType
    <2>3. \A j \in Ids : j \in scan'.left => ledger[j] # "none"
      BY <2>2 DEF LedgerOnly, Open
    <2>4. \A j \in Ids : ~InHookOf(j)'
      BY <2>2 DEF InHookOf
    <2> QED BY <1>0, <2>1, <2>3, <2>4, TableStep
  <1>3. CASE ScanEnds
    <2>1. /\ CallsStay /\ UNCHANGED <<ledger, rows, active, pending, leases, cancel, returned>>
          /\ scan' = NoScan
      BY <1>3 DEF ScanEnds, tables, memory, CallsStay
    <2>2. scan'.pc = "idle" /\ scan'.left = {}
      BY <2>1 DEF NoScan
    <2>4. \A j \in Ids : ~InHookOf(j)'
      BY <2>2 DEF InHookOf
    <2> QED BY <1>0, <2>1, <2>2, <2>4, TableStep
  <1>4. ASSUME NEW s,
               CallsStay, UNCHANGED <<active, pending, leases, cancel, returned>>,
               scan.pc \in {"hook", "ledgerHook"}, rows' \subseteq rows,
               \/ UNCHANGED ledger
               \/ /\ ledger' = [ledger EXCEPT ![scan.id] = s]
                  /\ ledger[scan.id] = "interrupted",
               scan'.pc \in {"idle", "rows", "ledger"}, scan'.left \in {{}, scan.left}
        PROVE  AloneInv'
    <2>1. \A r \in Runners :
            run[r].id = scan.id => run[r].pc \notin {"arm", "arming", "running"}
      BY <1>0, <1>4 DEF AloneInv, OwnInv, OwnRow, InHookOf
    <2>2. ledger[scan.id] = "interrupted" => ~Gone(scan.id) /\ ledger[scan.id] # "none"
      BY DEF Gone, Ended
    <2>3. \A j \in Ids : ~InHookOf(j)'
      BY <1>4 DEF InHookOf
    <2> QED BY <1>0, <1>4, <2>1, <2>2, <2>3, TableStep
  <1>5. ASSUME NEW end, NEW old, NEW late, HookReturns(end, old, late) PROVE AloneInv'
    <2>1. /\ CallsStay /\ UNCHANGED <<active, pending, leases, cancel, returned>>
          /\ scan.pc \in {"hook", "ledgerHook"} /\ rows' \subseteq rows
      BY <1>5 DEF HookReturns, memory, CallsStay, InHook
    <2>2. \/ UNCHANGED ledger
          \/ /\ ledger' = [ledger EXCEPT ![scan.id] = HookStatus(end)]
             /\ ledger[scan.id] = "interrupted"
      BY <1>5 DEF HookReturns, Resolved
    <2>3. \/ scan' = [scan EXCEPT !.pc = "ledger", !.left = {}]
          \/ scan' = [scan EXCEPT !.pc = "rows"]
          \/ scan' = [scan EXCEPT !.pc = "ledger"]
      BY <1>5 DEF HookReturns
    <2>4. scan'.pc \in {"idle", "rows", "ledger"} /\ scan'.left \in {{}, scan.left}
      BY <1>0, <2>3 DEF ScanType
    <2> QED BY <1>4, <2>1, <2>2, <2>4
  <1>6. CASE HookFails
    <2>1. /\ CallsStay /\ UNCHANGED <<active, pending, leases, cancel, returned>>
          /\ scan.pc \in {"hook", "ledgerHook"} /\ rows' = rows /\ scan' = NoScan
      BY <1>6 DEF HookFails, memory, CallsStay, InHook
    <2>2. \/ UNCHANGED ledger
          \/ /\ ledger' = [ledger EXCEPT ![scan.id] = scan.was]
             /\ ledger[scan.id] = "interrupted"
      BY <1>6 DEF HookFails, Resolved
    <2>3. scan'.pc = "idle" /\ scan'.left = {}
      BY <2>1 DEF NoScan
    <2> QED BY <1>4, <2>1, <2>2, <2>3
  <1> QED BY <1>1, <1>2, <1>3, <1>5, <1>6 DEF ScanStep

\* The clients' other calls, the job's dispatch, evictions and restarts keep it too.
LEMMA OthersKeepAlone ==
    ASSUME TypeInv, ClaimInv, AloneInv,
           \/ \E i \in Ids : \/ CancelFiber(i) \/ DeleteFiber(i)
                             \/ \E s \in Terminal : ResolveFiber(i, s)
                             \/ \E w \in Waiters : Wait(w, i)
           \/ CancelReleases \/ JobFires \/ JobOutcome \/ Crash \/ Restart \/ UNCHANGED vars
    PROVE  AloneInv'
  <1>0. /\ ledger \in [Ids -> Statuses] /\ run \in [Runners -> RunType]
        /\ pending \in [Ids -> Runners \cup {NoRunner}]
        /\ \A r \in Runners : run[r].id \in Ids /\ run[r].pc \in RunPcs
    BY TypeParts DEF TypeInv, LedgerType, MemoryType, RunType
  <1>1. ASSUME NEW i \in Ids, CancelFiber(i) PROVE AloneInv'
    <2>1. /\ CallsStay /\ UNCHANGED <<rows, leases, scan, returned>>
          /\ ledger[i] \in Open /\ ledger' = [ledger EXCEPT ![i] = "aborted"]
          /\ pending' = [pending EXCEPT ![i] = NoRunner] /\ cancel.pc = "idle"
          /\ \/ UNCHANGED <<active, cancel>>
             \/ /\ pending[i] # NoRunner /\ active' = active \ {i}
                /\ cancel'.lease = pending[i]
      BY <1>0, <1>1 DEF CancelFiber, CallsStay, RunType
    <2>2. OneEach'
      BY <2>1 DEF AloneInv, OneEach, CallsStay
    <2>3. UsedInv'
      <3>1. ASSUME NEW j \in Ids PROVE (Used(j)' <=> Used(j)) /\ (InHookOf(j)' <=> InHookOf(j))
        BY <2>1 DEF Used, CallsStay, InHookOf
      <3> QED BY <1>0, <2>1, <3>1 DEF AloneInv, UsedInv, Open
    <2>4. ASSUME NEW r \in Runners, run[r].pc # "idle" PROVE OwnInv(r)'
      <3>1. OwnShape(r) /\ OwnClaim(r) /\ OwnRow(r)
        BY <2>4 DEF AloneInv, OwnInv
      <3>2. /\ pending[i] # NoRunner => run[pending[i]].pc = "spawned"
            /\ pending[i] # NoRunner /\ run[r].id = i => r = pending[i]
        BY <1>0, <2>4 DEF ClaimInv, PendingInv, AloneInv, OneEach
      <3>3. OwnShape(r)'
        BY <2>1, <3>1 DEF OwnShape, CallsStay
      <3>4. OwnClaim(r)'
        BY <1>0, <2>1, <3>1, <3>2 DEF OwnClaim, CallsStay, Gone, Ended, Working
      <3>5. OwnRow(r)'
        BY <1>0, <2>1, <3>1 DEF OwnRow, CallsStay, InHookOf, Gone, Ended
      <3> QED BY <3>3, <3>4, <3>5 DEF OwnInv
    <2>5. ASSUME NEW r \in Runners, run[r].pc = "idle" PROVE OwnInv(r)'
      BY <2>1, <2>5 DEF OwnInv, CallsStay
    <2> QED BY <2>2, <2>3, <2>4, <2>5 DEF AloneInv
  <1>2. ASSUME NEW i \in Ids, DeleteFiber(i) PROVE AloneInv'
    <2>1. /\ CallsStay /\ UNCHANGED <<active, pending, leases, cancel, returned, rows, scan>>
          /\ ledger' = [ledger EXCEPT ![i] = "none"] /\ ledger[i] \in Terminal
      BY <1>2 DEF DeleteFiber, memory, others, CallsStay
    <2>2. \A r \in Runners : run[r].id = i => OwnInv(r)'
      <3> SUFFICES ASSUME NEW r \in Runners, run[r].id = i, run[r].pc # "idle"
                   PROVE  OwnInv(r)'
        BY <2>1 DEF CallsStay, OwnInv
      <3>1. OwnShape(r) /\ OwnClaim(r) /\ OwnRow(r)
        BY DEF AloneInv, OwnInv
      <3>2. OwnShape(r)' /\ OwnClaim(r)' /\ OwnRow(r)'
        BY <1>0, <2>1, <3>1 DEF OwnShape, OwnClaim, OwnRow, CallsStay, InHookOf, Gone
      <3> QED BY <3>2 DEF OwnInv
    <2>3. \A r \in Runners : run[r].id # i => OwnInv(r)'
      <3> SUFFICES ASSUME NEW r \in Runners, run[r].id # i, run[r].pc # "idle"
                   PROVE  OwnInv(r)'
        BY <2>1 DEF CallsStay, OwnInv
      <3>1. OwnShape(r) /\ OwnClaim(r) /\ OwnRow(r)
        BY DEF AloneInv, OwnInv
      <3>2. OwnShape(r)' /\ OwnClaim(r)' /\ OwnRow(r)'
        BY <1>0, <2>1, <3>1 DEF OwnShape, OwnClaim, OwnRow, CallsStay, InHookOf, Gone
      <3> QED BY <3>2 DEF OwnInv
    <2>4. OneEach'
      BY <2>1 DEF AloneInv, OneEach, CallsStay
    <2>5. UsedInv'
      <3>1. ASSUME NEW j \in Ids PROVE (Used(j)' <=> Used(j)) /\ (InHookOf(j)' <=> InHookOf(j))
        BY <2>1 DEF Used, CallsStay, InHookOf
      <3> QED BY <1>0, <2>1, <3>1 DEF AloneInv, UsedInv
    <2> QED BY <2>2, <2>3, <2>4, <2>5 DEF AloneInv
  <1>3. ASSUME NEW i \in Ids, NEW s \in Terminal, ResolveFiber(i, s) PROVE AloneInv'
    <2>1. /\ CallsStay /\ UNCHANGED <<active, pending, leases, cancel, returned, rows, scan>>
          /\ ledger' = [ledger EXCEPT ![i] = s] /\ ledger[i] = "interrupted"
      BY <1>3 DEF ResolveFiber, Resolved, memory, CallsStay
    <2>2. \A r \in Runners : run[r].id = i => run[r].pc \notin {"arm", "arming", "running"}
      BY <2>1 DEF AloneInv, OwnInv, OwnRow
    <2>3. ~Gone(i) /\ \A j \in Ids : InHookOf(j)' <=> InHookOf(j)
      BY <2>1 DEF Gone, Ended, InHookOf
    <2> QED BY <2>1, <2>2, <2>3, TableStep
  <1>4. ASSUME CallsStay,
               UNCHANGED <<active, pending, leases, cancel, returned, rows, ledger>>,
               scan' = scan \/ (scan'.pc = "rows" /\ scan'.left = rows)
        PROVE  AloneInv'
    <2>1. Ids # {}
      BY FiberAssumption
    <2>2. \A j \in Ids : InHookOf(j)' => InHookOf(j)
      BY <1>4 DEF InHookOf
    <2> QED BY <1>4, <2>1, <2>2, TableStep
  <1>5. \A by : BeginScan(by) => scan'.pc = "rows" /\ scan'.left = rows
    BY DEF BeginScan, NoScan
  <1>6. ASSUME NEW i \in Ids, NEW w \in Waiters, Wait(w, i) PROVE AloneInv'
    BY <1>4, <1>5, <1>6 DEF Wait, tables, memory, CallsStay
  <1>7. CASE JobFires \/ JobOutcome \/ Restart \/ UNCHANGED vars
    BY <1>4, <1>5, <1>7 DEF JobFires, JobOutcome, Restart, vars, tables, memory, CallsStay
  <1>8. CASE CancelReleases
    <2>1. /\ CallsStay /\ UNCHANGED <<active, pending, returned, rows, ledger, scan>>
          /\ leases' = leases \ {cancel.lease} /\ cancel.pc # "idle"
          /\ cancel'.pc # "idle" => cancel'.lease = cancel.lease
      <3>1. cancel \in [pc : {"idle", "release", "releasing"}, id : Ids,
                        lease : Runners \cup {NoRunner}]
        BY TypeParts DEF TypeInv, MemoryType
      <3>2. CASE cancel' = NoCancel
        BY <1>8, <3>2 DEF CancelReleases, NoCancel, tables, CallsStay
      <3>3. CASE cancel' = [cancel EXCEPT !.pc = "releasing"]
        <4>1. cancel'.lease = cancel.lease
          BY <3>1, <3>3
        <4> QED BY <1>8, <4>1 DEF CancelReleases, tables, CallsStay
      <3> QED BY <1>8, <3>2, <3>3 DEF CancelReleases
    <2>2. OneEach'
      BY <2>1 DEF AloneInv, OneEach, CallsStay
    <2>3. UsedInv'
      <3>1. ASSUME NEW j \in Ids PROVE (Used(j)' <=> Used(j)) /\ (InHookOf(j)' <=> InHookOf(j))
        BY <2>1 DEF Used, CallsStay, InHookOf
      <3> QED BY <2>1, <3>1 DEF AloneInv, UsedInv
    <2>4. ASSUME NEW r \in Runners, run[r].pc # "idle" PROVE OwnInv(r)'
      <3>1. OwnShape(r) /\ OwnClaim(r) /\ OwnRow(r)
        BY <2>4 DEF AloneInv, OwnInv
      <3>2. OwnShape(r)' /\ OwnRow(r)'
        BY <2>1, <3>1 DEF OwnShape, OwnRow, CallsStay, InHookOf, Gone
      <3>3. OwnClaim(r)'
        BY <2>1, <3>1 DEF OwnClaim, CallsStay, Gone
      <3> QED BY <3>2, <3>3 DEF OwnInv
    <2>5. ASSUME NEW r \in Runners, run[r].pc = "idle" PROVE OwnInv(r)'
      BY <2>1, <2>5 DEF OwnInv, CallsStay
    <2> QED BY <2>2, <2>3, <2>4, <2>5 DEF AloneInv
  <1>9. CASE Crash
    <2>1. /\ UNCHANGED <<ledger, rows, returned>> /\ scan' = NoScan
          /\ \A r \in Runners :
               /\ run'[r].id = run[r].id /\ run'[r].kind = run[r].kind
               /\ run'[r].ran = run[r].ran
               /\ \/ run'[r].pc = "idle" /\ run[r].pc = "idle"
                  \/ run'[r].pc \in {"done", "lost"} /\ run[r].pc # "idle"
      BY <1>0, <1>9 DEF Crash, tables, RunType
    <2>2. scan'.pc = "idle" /\ scan'.left = {}
      BY <2>1 DEF NoScan
    <2>3. OneEach'
      BY <2>1 DEF AloneInv, OneEach
    <2>4. UsedInv'
      <3>1. ASSUME NEW j \in Ids PROVE (Used(j)' <=> Used(j)) /\ ~InHookOf(j)'
        BY <2>1, <2>2 DEF Used, InHookOf
      <3> QED BY <2>1, <2>2, <3>1 DEF AloneInv, UsedInv
    <2>5. ASSUME NEW r \in Runners, run[r].pc # "idle" PROVE OwnInv(r)'
      <3>1. OwnShape(r) /\ OwnRow(r)
        BY <2>5 DEF AloneInv, OwnInv
      <3>2. OwnShape(r)'
        BY <2>1, <2>5, <3>1 DEF OwnShape, Fresh, Begun
      <3>3. OwnClaim(r)'
        BY <2>1, <2>5 DEF OwnClaim, Working
      <3>4. OwnRow(r)'
        BY <2>1, <2>5, <3>1 DEF OwnRow, Gone
      <3> QED BY <3>2, <3>3, <3>4 DEF OwnInv
    <2>6. ASSUME NEW r \in Runners, run[r].pc = "idle" PROVE OwnInv(r)'
      BY <2>1, <2>6 DEF OwnInv
    <2> QED BY <2>3, <2>4, <2>5, <2>6 DEF AloneInv
  <1> QED BY <1>1, <1>2, <1>3, <1>6, <1>7, <1>8, <1>9

\* At first no call was made.
LEMMA AloneInit == Init => AloneInv
  BY DEF Init, AloneInv, OneEach, UsedInv, OwnInv, InHookOf, NoRun, NoScan

\* Every step keeps a fiber with its one call.
LEMMA AloneStep ==
    ASSUME ~Restarts
    PROVE  TypeInv /\ ClaimInv /\ AloneInv /\ [Next]_vars => AloneInv'
  <1> SUFFICES ASSUME TypeInv, ClaimInv, AloneInv, [Next]_vars PROVE AloneInv'
    OBVIOUS
  <1>1. ASSUME NEW r \in Runners, RunnerStep(r) \/ RunnerFails(r) PROVE AloneInv'
    BY <1>1, RunnerKeepsAlone, FailKeepsAlone
  <1>2. ASSUME NEW i \in Ids, NEW r \in Runners,
               StartDetached(r, i) \/ StartWaited(r, i) \/ StartPlain(r, i)
        PROVE  AloneInv'
    BY <1>2, StartKeepsAlone
  <1>3. CASE \/ \E i \in Ids : \/ CancelFiber(i) \/ DeleteFiber(i)
                               \/ \E s \in Terminal : ResolveFiber(i, s)
                               \/ \E w \in Waiters : Wait(w, i)
             \/ CancelReleases \/ JobFires \/ JobOutcome \/ Crash \/ Restart
             \/ UNCHANGED vars
    BY <1>3, OthersKeepAlone
  <1>4. CASE ScanStep \/ HookFails
    BY <1>4, ScanKeepsAlone
  <1> QED BY <1>1, <1>2, <1>3, <1>4, NextParts

-----------------------------------------------------------------------------
(* What follows for the runs' properties.                                  *)

FiberInv == TypeInv /\ ClaimInv /\ AloneInv /\ LeaseInv

\* All of it holds throughout, if no id is started again.
LEMMA FiberInvHolds ==
    ASSUME ~Restarts
    PROVE  Spec => []FiberInv
  <1>1. Init => FiberInv
    BY TypeInit, ClaimInit, AloneInit, LeaseInit DEF FiberInv
  <1>2. FiberInv /\ [Next]_vars => FiberInv'
    BY TypeStep, ClaimStep, AloneStep, LeaseStep DEF FiberInv
  <1> QED BY <1>1, <1>2, PTL DEF Spec

\* The tables, the sets in memory, the lock's queue and the tasks have their types.
THEOREM TypesHold == Spec => []TypeOK
  <1>1. TypeInv => TypeOK
    BY DEF TypeInv
  <1> QED BY <1>1, TypeInit, TypeStep, PTL DEF Spec

\* start_fiber's answer is kept whatever overlaps or fails: while a fiber that began
\* is open or has its run row, the job is there to wake the object for it, its claim
\* and its lease are somebody's to give back, and its callback and its recovery hook
\* are never under way together.
THEOREM FibersOwned ==
    ASSUME ~Restarts
    PROVE  Spec => []FibersAreOwned
  <1>1. ASSUME FiberInv PROVE StartedIsRecoverable
    <2> SUFFICES ASSUME NEW r \in Runners, run[r].pc \in {"spawned", "running"},
                        ledger[run[r].id] \in Open \/ run[r].id \in rows
                 PROVE  r \in leases
      BY <1>1 DEF FiberInv, LeaseInv, StartedIsRecoverable
    <2>1. OwnShape(r) /\ OwnClaim(r)
      BY <1>1 DEF FiberInv, AloneInv, OwnInv
    <2>2. CASE run[r].pc = "running"
      BY <2>1, <2>2 DEF OwnClaim
    <2>3. CASE run[r].pc = "spawned"
      <3>1. run[r].id \notin rows
        BY <2>1, <2>3 DEF OwnShape, Fresh
      <3>2. ~Gone(run[r].id)
        BY <3>1 DEF Gone, Open, Ended
      <3>3. pending[run[r].id] = r /\ run[r].id \in Ids /\ r # NoRunner
        BY <1>1, <2>1, <2>3, <3>2, TypeParts, FiberAssumption
           DEF OwnClaim, FiberInv, TypeInv, LedgerType, RunType
      <3> QED BY <1>1, <3>3 DEF FiberInv, ClaimInv, PendingInv
    <2> QED BY <2>2, <2>3
  <1>2. ASSUME FiberInv PROVE ClaimsAreOwned
    BY <1>2 DEF FiberInv, ClaimInv, ActiveInv, LeaseOwnerInv, PendingInv, ClaimsAreOwned, Claims
  <1>3. ASSUME FiberInv PROVE RunsOrRecovers
    <2>1. ASSUME NEW r \in Runners, scan.pc \in {"hook", "ledgerHook"},
                 run[r].id = scan.id, run[r].pc = "running"
          PROVE  FALSE
      BY <1>3, <2>1 DEF FiberInv, AloneInv, OwnInv, OwnRow, InHookOf
    <2> QED BY <2>1 DEF RunsOrRecovers
  <1>4. FiberInv => FibersAreOwned
    BY <1>1, <1>2, <1>3 DEF FiberInv, TypeInv, FibersAreOwned
  <1> QED BY <1>4, FiberInvHolds, PTL

\* The scan hands a row to the recovery hook only if nothing here is about to run it or
\* runs it, and a managed fiber's run row only while the ledger row, read again, is open
\* and the callback has not come back.
THEOREM ScanTakesInterruptedOnly ==
    ASSUME ~Restarts
    PROVE  Spec => ScanTakesInterrupted
  <1>1. ASSUME FiberInv, Next, NEW i \in Ids, Handing(i)
        PROVE  ScanRow(i) \/ ScanLedgerRow(i)
    <2>0. LedgerType
      BY <1>1, TypeParts DEF FiberInv, TypeInv
    <2>1. ASSUME scan' = scan PROVE FALSE
      BY <1>1, <2>1 DEF Handing
    <2>2. ASSUME scan'.pc \in {"idle", "rows", "ledger"} PROVE FALSE
      BY <1>1, <2>2 DEF Handing
    <2>3. ASSUME NEW r \in Runners, RunnerStep(r) \/ RunnerFails(r) PROVE scan' = scan
      <3>1. ASSUME NEW from, NEW arming, NEW got, TakeLease(r, from, arming, got)
            PROVE  scan' = scan
        BY <3>1 DEF TakeLease, others
      <3>2. ASSUME NEW arming, NEW got, AlarmArmed(r, arming, got) PROVE scan' = scan
        BY <3>2 DEF AlarmArmed, others
      <3>3. ASSUME NEW arming, NEW failed, AlarmFails(r, arming, failed) PROVE scan' = scan
        BY <3>3 DEF AlarmFails, others
      <3>4. ASSUME NEW o, Returns(r, o) PROVE scan' = scan
        BY <3>4 DEF Returns
      <3>5. CASE LeaseUndone(r) \/ ArmUndone(r) \/ Accept(r) \/ Enter(r)
        BY <3>5 DEF LeaseUndone, ArmUndone, Accept, Enter, others
      <3>6. CASE Release(r) \/ Released(r) \/ CallerCancelled(r) \/ Interrupted(r)
        BY <3>6 DEF Release, Released, CallerCancelled, Interrupted, others
      <3> QED BY <2>3, <3>1, <3>2, <3>3, <3>4, <3>5, <3>6 DEF RunnerStep, RunnerFails
    <2>4. ASSUME NEW j \in Ids, NEW r \in Runners,
                 StartDetached(r, j) \/ StartWaited(r, j) \/ StartPlain(r, j)
          PROVE  scan' = scan
      BY <2>4 DEF StartDetached, StartWaited, StartPlain, others
    <2>5. ASSUME NEW j \in Ids, NEW s, CancelFiber(j) \/ DeleteFiber(j) \/ ResolveFiber(j, s)
          PROVE  scan' = scan
      BY <2>5 DEF CancelFiber, DeleteFiber, ResolveFiber, others
    <2>6. ASSUME NEW by, BeginScan(by) PROVE FALSE
      BY <2>2, <2>6 DEF BeginScan, NoScan
    <2>7. ASSUME NEW j \in Ids, NEW w \in Waiters, Wait(w, j) PROVE FALSE
      BY <2>1, <2>6, <2>7 DEF Wait
    <2>8. CASE CancelReleases \/ JobFires \/ JobOutcome \/ Restart
      BY <2>1, <2>6, <2>8 DEF CancelReleases, JobFires, JobOutcome, Restart
    <2>9. CASE HookFails \/ Crash \/ ScanEnds
      BY <2>2, <2>9 DEF HookFails, Crash, ScanEnds, NoScan
    <2>10. CASE ListLedger
      BY <2>0, <2>2, <2>10 DEF ListLedger, LedgerType, ScanType
    <2>11. ASSUME NEW end, NEW old, NEW late, HookReturns(end, old, late) PROVE FALSE
      BY <2>0, <2>2, <2>11 DEF HookReturns, LedgerType, ScanType
    <2>12. ASSUME NEW j \in Ids, ScanRow(j) \/ ScanLedgerRow(j) PROVE j = i
      <3>1. CASE ScanRow(j)
        BY <1>1, <2>0, <3>1 DEF ScanRow, Handing, LedgerType, ScanType, Scans
      <3>2. CASE ScanLedgerRow(j)
        BY <1>1, <2>0, <3>2 DEF ScanLedgerRow, Handing, LedgerType, ScanType, Scans
      <3> QED BY <2>12, <3>1, <3>2
    <2> QED BY <1>1, <2>1, <2>3, <2>4, <2>5, <2>7, <2>8, <2>9, <2>10, <2>11, <2>12, NextParts
            DEF ScanStep
  <1>2. ASSUME FiberInv, NEW i \in Ids, ScanRow(i) \/ ScanLedgerRow(i), Handing(i)
        PROVE  /\ i \notin active
               /\ scan.pc = "rows" => ledger[i] \notin Terminal
    <2>1. LedgerType
      BY <1>2, TypeParts DEF FiberInv, TypeInv
    <2>2. CASE ScanRow(i)
      BY <1>2, <2>1, <2>2 DEF ScanRow, Handing, LedgerType, ScanType, Scans, Owned, Over
    <2>3. CASE ScanLedgerRow(i)
      BY <1>2, <2>1, <2>3 DEF ScanLedgerRow, Handing, LedgerType, ScanType, Scans, Owned
    <2> QED BY <1>2, <2>2, <2>3
  <1>3. ASSUME FiberInv, NEW i \in Ids, i \notin active PROVE ~Live(i)
    <2> SUFFICES ASSUME NEW r \in Runners, run[r].id = i,
                        run[r].pc \in {"lease", "leaseArm", "leased", "spawned",
                                       "arm", "arming", "running"},
                        ledger[i] \in Open \/ i \in PlainIds
                 PROVE  FALSE
      BY DEF Live
    <2>1. run[r].pc = "spawned" /\ Gone(i)
      BY <1>3, UnownedRests DEF FiberInv
    <2>2. i \in ManagedIds
      BY <1>3, <2>1 DEF FiberInv, AloneInv, OwnInv, OwnShape, Fresh
    <2> QED BY <2>1, <2>2, FiberAssumption DEF Gone, Open, Ended
  <1>4. ASSUME FiberInv, NEW i \in ManagedIds, ledger[i] \notin Terminal \cup {"none"}
        PROVE  i \notin returned /\ ledger[i] \in Open
    <2>1. i \in Ids /\ ledger[i] \in Statuses
      BY <1>4, TypeParts DEF FiberInv, TypeInv, LedgerType, Ids
    <2>2. ledger[i] \in Open /\ ~Gone(i)
      BY <1>4, <2>1 DEF Statuses, Gone, Terminal
    <2>3. i \notin returned
      BY <1>4, <2>1, <2>2 DEF FiberInv, AloneInv, UsedInv, Used, OwnInv, OwnRow
    <2> QED BY <2>2, <2>3
  <1>5. FiberInv /\ [Next]_vars => [\A i \in Ids : Handing(i) => ~Live(i)]_vars
    BY <1>1, <1>2, <1>3
  <1>6. FiberInv /\ [Next]_vars =>
          [\A i \in ManagedIds : Handing(i) /\ scan.pc = "rows" /\ ledger[i] # "none" =>
                                  i \notin returned /\ ledger[i] \in Open]_vars
    <2>1. ManagedIds \subseteq Ids
      BY DEF Ids
    <2> QED BY <2>1, <1>1, <1>2, <1>4
  <1> QED BY <1>5, <1>6, FiberInvHolds, PTL
          DEF Spec, ScanTakesInterrupted, LiveFiberLeftAlone, RunRowWasInterrupted
=============================================================================

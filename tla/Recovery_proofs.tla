-------------------------- MODULE Recovery_proofs ---------------------------
(***************************************************************************)
(* Proofs about Tasks: it implements TaskJournal, callbacks run under the  *)
(* claim of their attempt, and an open run always has its wake job.  For   *)
(* every definition, any number of generations and failures, and every     *)
(* way in which callbacks end, clients call and attempts are cut off.      *)
(* Proofs about ChatRecovery: its attempts are paid for by faults, for any *)
(* number of turns, attempts and faults.                                   *)
(***************************************************************************)
EXTENDS MCRecovery, FiniteSetTheorems, TLAPS

-----------------------------------------------------------------------------
(* The inductive invariant.                                                *)

\* A step has its result.
Recorded(s) == step[s].state \in {"completed", "failed"}

\* The row is claimed by the attempt under way, asked to cancel or not.
Claimed == row # NoRow /\ row.state = "running" /\ row.gen = exec.gen

\* An attempt has a generation from its claim on, and no step call before its
\* definition is called.
ExecInv ==
    /\ exec.pc \in {"none", "new", "found"} => exec.gen = NoGen
    /\ exec.pc \in {"starting", "user", "oom"} => exec.gen \in Gens
    /\ exec.pc = "starting" =>
         exec.phase = 0 /\ \A s \in Steps : branch[exec.gen][s].pc = "none"

\* A step that waits for its callback is running while its claim holds; what an
\* attempt with a claim has heard of its steps is in the journal.
StepInv ==
    /\ \A g \in Gens, s \in Steps :
         Holds(g) /\ branch[g][s].pc = "starting" => step[s].state = "running"
    /\ exec.pc = "user" /\ Holds(exec.gen) =>
         /\ \A s \in Steps :
              branch[exec.gen][s].pc \in {"done", "failed"} => Recorded(s)
         /\ \A i \in DOMAIN Phases :
              i < exec.phase => \A s \in Phases[i] : Recorded(s)

\* An attempt loses its row only when one of its steps parks the run; its step calls
\* are those of its phase, and none goes on once one exhausted the memory.
AttemptInv ==
    /\ exec.pc \in {"starting", "oom"} => Claimed
    /\ exec.pc = "oom" => \A s \in Steps : branch[exec.gen][s].pc = "none"
    /\ exec.pc = "user" =>
         /\ \A s \in Steps : branch[exec.gen][s].pc # "none" =>
              exec.phase \in DOMAIN Phases /\ s \in Phases[exec.phase]
         /\ \A s \in Steps : branch[exec.gen][s].pc = "oom" => s \in Heavy
         /\ Claimed \/ \E s \in Steps : branch[exec.gen][s].pc = "suspended"

TasksInv == TypeOK /\ ExecInv /\ StepInv

\* Steps that may exhaust the memory are awaited alone.
HeavyAlone ==
    \A i \in DOMAIN Phases : \A s \in Phases[i] \cap Heavy : Phases[i] = {s}

-----------------------------------------------------------------------------
(* What the step calls do.                                                 *)

BranchType == branch \in [Gens -> [Steps -> [pc : BranchPcs, attempt : Nat]]]

StepType ==
    /\ step \in [Steps -> [state : {"none", "running", "waiting", "completed", "failed"},
                           attempt : Nat, next : Nat \cup {NoTime}]]
    /\ \A s \in Steps : step[s].state = "waiting" <=> step[s].next # NoTime

\* Step calls but those of g and s are left alone.
OthersStay(g, s) ==
    \A h \in Gens, u \in Steps : h # g \/ u # s => branch'[h][u] = branch[h][u]

LEMMA EndsStep ==
    ASSUME BranchType, NEW g \in Gens, NEW s \in Steps, NEW why \in Over,
           Ends(g, s, why)
    PROVE  /\ BranchType' /\ OthersStay(g, s)
           /\ branch'[g][s].pc = IF Live(g) THEN why ELSE "none"
  BY DEF BranchType, Ends, OthersStay, NoBranch, BranchPcs

LEMMA GoesStep ==
    ASSUME BranchType, NEW g \in Gens, NEW s \in Steps, NEW pc \in BranchPcs,
           Goes(g, s, pc)
    PROVE  BranchType' /\ OthersStay(g, s) /\ branch'[g][s].pc = pc
  BY DEF BranchType, Goes, OthersStay

LEMMA OrphansStep ==
    ASSUME BranchType, NEW g \in Gens, Orphans(g)
    PROVE  /\ BranchType'
           /\ \A h \in Gens, u \in Steps : branch'[h][u] \in {branch[h][u], NoBranch}
  BY DEF BranchType, Orphans, NoBranch, BranchPcs

\* What a call of step s by attempt g does: its result is recorded, it parks the run,
\* it begins under a refreshed claim, its callback is invoked, or it just ends.
CallMove(g, s) ==
    /\ OthersStay(g, s) /\ BranchType' /\ StepType'
    /\ UNCHANGED <<exec, tracked, alarm, caller, up, defined, reset>>
    /\ branch[g][s].pc \in {"ready", "starting", "callback"}
    /\ branch'[g][s].pc # "ready"
    /\ branch'[g][s].pc \in Over => Live(g)
    /\ \A u \in Steps : u # s => step'[u] = step[u]
    /\ \/ \* it ends, or is replayed
          /\ UNCHANGED <<row, step, job, touched>>
          /\ branch'[g][s].pc \in {"none", "superseded", "cancelled", "platform",
                                   "suspended", "oom", "done", "failed"}
          /\ branch'[g][s].pc = "oom" => s \in Heavy
          /\ branch'[g][s].pc \in {"done", "failed"} => Recorded(s)
       \/ \* its callback is invoked
          /\ UNCHANGED <<row, step, job, touched>>
          /\ branch[g][s].pc = "starting" /\ branch'[g][s].pc = "callback" /\ Holds(g)
       \/ \* its result is recorded
          /\ UNCHANGED <<row, job, touched>>
          /\ Holds(g) /\ ~Recorded(s) /\ Recorded(s)'
          /\ branch[g][s].pc # "starting"
          /\ branch'[g][s].pc \in {"none", "done", "failed"}
       \/ \* the run is parked
          /\ \E t \in Nat : row' = Parked(t)
          /\ SyncWake /\ Holds(g) /\ ~Recorded(s) /\ ~Recorded(s)'
          /\ branch'[g][s].pc = IF Live(g) THEN "suspended" ELSE "none"
       \/ \* it begins
          /\ row' = [row EXCEPT !.next = ClaimTimeout]
          /\ SyncWake /\ Holds(g) /\ ~Recorded(s) /\ step'[s].state = "running"
          /\ branch'[g][s].pc = "starting"

\* The five ways a call may go, from the writes the code makes.
LEMMA CallIsReplayed ==
    ASSUME TypeOK, NEW g \in Gens, NEW s \in Steps, NEW why \in Over,
           branch[g][s].pc \in {"ready", "starting", "callback"},
           Ends(g, s, why), UNCHANGED <<row, step, job, touched, quiet>>,
           why = "oom" => s \in Heavy, why \in {"done", "failed"} => Recorded(s)
    PROVE  CallMove(g, s)
  <1>1. BranchType /\ StepType /\ StepType'
    BY DEF TypeOK, BranchType, StepType
  <1>2. /\ BranchType' /\ OthersStay(g, s)
        /\ branch'[g][s].pc = IF Live(g) THEN why ELSE "none"
    BY <1>1, EndsStep
  <1> QED BY <1>1, <1>2 DEF CallMove, quiet, world, Over, Raised

LEMMA CallIsRecorded ==
    ASSUME TypeOK, NEW g \in Gens, NEW s \in Steps, NEW n \in Nat,
           branch[g][s].pc \in {"ready", "callback"}, Holds(g), ~Recorded(s),
           NEW state \in {"completed", "failed"}, NEW why \in {"done", "failed"},
           Record(s, state, n, NoTime), Ends(g, s, why),
           UNCHANGED <<row, job, touched, quiet>>
    PROVE  CallMove(g, s)
  <1>1. BranchType /\ why \in Over
    BY DEF TypeOK, BranchType, Over, Raised
  <1>2. /\ \A u \in Steps : u # s => step'[u] = step[u]
        /\ step'[s].state = state /\ StepType'
    BY DEF Record, TypeOK, StepType
  <1>3. /\ BranchType' /\ OthersStay(g, s)
        /\ branch'[g][s].pc = IF Live(g) THEN why ELSE "none"
    BY <1>1, EndsStep
  <1> QED BY <1>2, <1>3 DEF CallMove, quiet, world, Over, Raised, Recorded

LEMMA CallParks ==
    ASSUME TypeOK, NEW g \in Gens, NEW s \in Steps, NEW t \in Nat, NEW n \in Nat,
           branch[g][s].pc \in {"ready", "callback"}, Holds(g), ~Recorded(s),
           step' = step \/ Record(s, "waiting", n, t), Park(g, s, t),
           UNCHANGED quiet
    PROVE  CallMove(g, s)
  <1>1. BranchType /\ "suspended" \in Over
    BY DEF TypeOK, BranchType, Over, Raised
  <1>2. /\ \A u \in Steps : u # s => step'[u] = step[u]
        /\ step'[s].state \in {step[s].state, "waiting"} /\ StepType'
    <2>1. CASE step' = step
      BY <2>1 DEF TypeOK, StepType
    <2>2. CASE Record(s, "waiting", n, t)
      BY <2>2, TasksAssumption DEF Record, TypeOK, StepType
    <2> QED BY <2>1, <2>2
  <1>3. /\ BranchType' /\ OthersStay(g, s)
        /\ branch'[g][s].pc = IF Live(g) THEN "suspended" ELSE "none"
    BY <1>1, EndsStep DEF Park
  <1> QED BY <1>2, <1>3 DEF CallMove, quiet, world, Over, Raised, Recorded, Park

LEMMA EnterMoves ==
    ASSUME TypeOK, NEW g \in Gens, NEW s \in Steps, Enter(g, s)
    PROVE  CallMove(g, s)
  <1>0. /\ BranchType /\ branch[g][s].pc = "ready" /\ UNCHANGED quiet
        /\ step[s].state \in {"none", "running", "waiting", "completed", "failed"}
        /\ step[s].attempt \in Nat /\ step[s].next \in Nat \cup {NoTime}
        /\ step[s].state = "waiting" => step[s].next \in Nat
    BY DEF TypeOK, BranchType, Enter
  <1>1. CASE ~Holds(g)
    <2>1. Refusal(g) \in {"superseded", "cancelled"}
      BY DEF Refusal
    <2>2. Ends(g, s, Refusal(g)) /\ UNCHANGED <<row, step, job, touched>>
      BY <1>1 DEF Enter, Refuse
    <2> QED BY <1>0, <2>1, <2>2, CallIsReplayed DEF Over, Raised
  <1>2. ASSUME NEW why \in {"done", "failed", "suspended"}, Replay(g, s, why),
               why \in {"done", "failed"} => Recorded(s)
        PROVE  CallMove(g, s)
    BY <1>0, <1>2, CallIsReplayed DEF Over, Raised, Replay
  <1>3. CASE Holds(g) /\ s \in Sleeps
    <2>1. Sleep(g, s)
      BY <1>3 DEF Enter
    <2>2. CASE Record(s, "completed", 0, NoTime) /\ Ends(g, s, "done")
               /\ UNCHANGED <<row, job, touched>> /\ ~Recorded(s)
      BY <1>0, <1>3, <2>2, CallIsRecorded
    <2>3. CASE \E t \in Nat : /\ step' = step \/ Record(s, "waiting", 0, t)
                              /\ Park(g, s, t) /\ ~Recorded(s)
      BY <1>0, <1>3, <2>3, CallParks
    <2>4. CASE Replay(g, s, "done") /\ Recorded(s)
      BY <1>2, <2>4
    <2> QED BY <1>0, <2>1, <2>2, <2>3, <2>4, TasksAssumption DEF Sleep, Recorded
  <1>4. CASE Holds(g) /\ s \notin Sleeps
    <2>1. Begins(g, s)
      BY <1>4 DEF Enter
    <2>2. CASE \E why \in {"done", "failed", "suspended"} :
                 Replay(g, s, why) /\ (why \in {"done", "failed"} => Recorded(s))
      BY <1>2, <2>2
    <2>3. CASE /\ Record(s, "running", step[s].attempt + 1, NoTime)
               /\ row' = [row EXCEPT !.next = ClaimTimeout] /\ SyncWake
               /\ branch' = [branch EXCEPT ![g][s] = [pc |-> "starting",
                                              attempt |-> step[s].attempt + 1]]
               /\ ~Recorded(s)
      <3>1. /\ BranchType' /\ OthersStay(g, s)
            /\ branch'[g][s].pc = "starting"
        BY <1>0, <2>3 DEF BranchType, OthersStay, BranchPcs
      <3>2. /\ \A u \in Steps : u # s => step'[u] = step[u]
            /\ step'[s].state = "running" /\ StepType'
        BY <1>0, <2>3 DEF Record, TypeOK, StepType
      <3> QED BY <1>0, <1>4, <2>3, <3>1, <3>2 DEF CallMove, quiet, world, Over, Raised
    <2> QED BY <1>0, <2>1, <2>2, <2>3 DEF Begins, Recorded
  <1> QED BY <1>1, <1>3, <1>4

LEMMA CallsMove ==
    ASSUME TypeOK, NEW g \in Gens, NEW s \in Steps, StepCall(g, s) \/ Callback(g, s)
    PROVE  CallMove(g, s)
  <1>0. /\ BranchType
        /\ step[s].state \in {"none", "running", "waiting", "completed", "failed"}
        /\ step[s].attempt \in Nat
    BY DEF TypeOK, BranchType
  <1>1. CASE Invoke(g, s)
    <2>1. CASE Holds(g)
      <3>1. BranchType' /\ OthersStay(g, s) /\ branch'[g][s].pc = "callback"
        BY <1>0, <1>1, <2>1, GoesStep DEF Invoke, BranchPcs
      <3>2. UNCHANGED <<row, step, job, touched, quiet>> /\ branch[g][s].pc = "starting"
        BY <1>1 DEF Invoke, durable
      <3>3. StepType'
        BY <3>2 DEF TypeOK, StepType
      <3> QED BY <2>1, <3>1, <3>2, <3>3 DEF CallMove, quiet, world, Over, Raised
    <2>2. CASE ~Holds(g)
      <3>1. Refusal(g) \in {"superseded", "cancelled"}
        BY DEF Refusal
      <3> QED BY <1>0, <1>1, <2>2, <3>1, CallIsReplayed DEF Invoke, durable, Over, Raised
    <2> QED BY <2>1, <2>2
  <1>2. CASE Succeeds(g, s)
    <2>1. CASE MayRecord(g, s)
      BY <1>0, <1>2, <2>1, CallIsRecorded DEF Succeeds, MayRecord, Recorded
    <2>2. CASE ~MayRecord(g, s)
      BY <1>0, <1>2, <2>2, CallIsReplayed DEF Succeeds, Over, Raised
    <2> QED BY <2>1, <2>2
  <1>3. CASE Fails(g, s)
    <2>1. CASE ~MayRecord(g, s)
      BY <1>0, <1>3, <2>1, CallIsReplayed DEF Fails, Over, Raised
    <2>2. CASE MayRecord(g, s)
               /\ Record(s, "waiting", step[s].attempt, Backoff) /\ Park(g, s, Backoff)
      BY <1>0, <1>3, <2>2, CallParks, TasksAssumption DEF Fails, MayRecord, Recorded
    <2>3. CASE /\ MayRecord(g, s) /\ Record(s, "failed", step[s].attempt, NoTime)
               /\ Ends(g, s, "failed") /\ UNCHANGED <<row, job, touched>>
      BY <1>0, <1>3, <2>3, CallIsRecorded DEF Fails, MayRecord, Recorded
    <2> QED BY <1>3, <2>1, <2>2, <2>3 DEF Fails
  <1>4. CASE \E why \in {"platform", "oom"} : Breaks(g, s, why)
    BY <1>0, <1>4, CallIsReplayed DEF Breaks, durable, Over, Raised
  <1>5. CASE Aborted(g, s)
    BY <1>0, <1>5, CallIsReplayed DEF Aborted, durable, Over, Raised
  <1> QED BY <1>1, <1>2, <1>3, <1>4, <1>5, EnterMoves DEF StepCall, Callback

-----------------------------------------------------------------------------
(* Types.                                                                  *)

RowType  == (row # NoRow => RowOK(row)) /\ row \in {NoRow} \cup Rows
ExecType ==
    exec \in [pc : {"none", "new", "found", "starting", "user", "settled", "oom"},
              gen : {NoGen} \cup Gens, phase : 0..Len(Phases)]
JobType  == job \in Nat \cup {NoTime} /\ touched \in BOOLEAN
RestType ==
    /\ tracked \in BOOLEAN /\ alarm \in {"idle", "join", "await", "done", "raised"}
    /\ caller \in {"idle", "cancelled", "deleted"}
    /\ up \in {"ready", "starting", "down"} /\ {defined, reset} \subseteq BOOLEAN
    /\ spent \in 0..MaxFailures

Types == RowType /\ StepType /\ JobType /\ ExecType /\ BranchType /\ RestType

LEMMA TypeParts == (TypeOK <=> Types) /\ (TypeOK' <=> Types')
  BY DEF Types, TypeOK, RowType, StepType, JobType, ExecType, BranchType, RestType

\* The rows the store writes.
LEMMA RowWrites ==
    ASSUME RowType, row # NoRow
    PROVE  /\ \A t \in Nat : Parked(t) \in Rows /\ RowOK(Parked(t))
           /\ \A state \in {"completed", "failed", "cancelled"} :
                Ended(state) \in Rows /\ RowOK(Ended(state))
           /\ EndedCancelled \in Rows /\ RowOK(EndedCancelled)
           /\ Backed \in Rows /\ (IsOpen(row) => RowOK(Backed))
           /\ \A t \in Nat : IsOpen(row) =>
                [row EXCEPT !.next = t] \in Rows /\ RowOK([row EXCEPT !.next = t])
           /\ IsOpen(row) => /\ [row EXCEPT !.cancel = TRUE, !.next = 0] \in Rows
                             /\ RowOK([row EXCEPT !.cancel = TRUE, !.next = 0])
  <1> USE TasksAssumption DEF Rows, RowType, RowOK, IsOpen, IsTerminal, Open, Terminal
  <1>1. \A t \in Nat : Parked(t) \in Rows /\ RowOK(Parked(t))
    BY DEF Parked
  <1>2. \A state \in {"completed", "failed", "cancelled"} :
                Ended(state) \in Rows /\ RowOK(Ended(state))
    BY DEF Ended
  <1>3. EndedCancelled \in Rows /\ RowOK(EndedCancelled)
    BY DEF EndedCancelled, Ended
  <1>4. Backed \in Rows /\ (IsOpen(row) => RowOK(Backed))
    <2>1. Backed \in Rows  BY DEF Backed
    <2>2. IsOpen(row) => RowOK(Backed)  BY DEF Backed
    <2> QED  BY <2>1, <2>2
  <1>5. \A t \in Nat : IsOpen(row) =>
                [row EXCEPT !.next = t] \in Rows /\ RowOK([row EXCEPT !.next = t])
    OBVIOUS
  <1>6. IsOpen(row) => /\ [row EXCEPT !.cancel = TRUE, !.next = 0] \in Rows
                       /\ RowOK([row EXCEPT !.cancel = TRUE, !.next = 0])
    <2> SUFFICES ASSUME IsOpen(row)
                 PROVE  /\ [row EXCEPT !.cancel = TRUE, !.next = 0] \in Rows
                        /\ RowOK([row EXCEPT !.cancel = TRUE, !.next = 0])
      OBVIOUS
    <2> DEFINE r == [row EXCEPT !.cancel = TRUE, !.next = 0]
    <2>1. r \in Rows /\ r.state = row.state /\ r.gen = row.gen /\ r.next = 0 /\ r.memory = row.memory
      OBVIOUS
    <2> QED BY <2>1
  <1> QED BY <1>1, <1>2, <1>3, <1>4, <1>5, <1>6

\* Whoever writes the row and syncs the wake keeps both in type.
LEMMA SyncTypes ==
    ASSUME RowType', SyncWake, tracked \in BOOLEAN
    PROVE  JobType'
  <1>1. job' \in Nat \cup {NoTime}
    BY DEF RowType, SyncWake, Deadline, Rows, IsOpen
  <1>2. touched' \in BOOLEAN
    BY DEF SyncWake
  <1> QED BY <1>1, <1>2 DEF JobType

\* The attempt's ends and its next phases.
LEMMA ExecMoves ==
    ASSUME ExecType, RestType
    PROVE  /\ \A result \in {"done", "raised"} : Finish(result) =>
                ExecType' /\ tracked' \in BOOLEAN
                /\ alarm' \in {"idle", "join", "await", "done", "raised"}
           /\ \A pc \in {"none", "new", "found", "starting", "user", "settled", "oom"} :
                /\ [exec EXCEPT !.pc = pc].pc = pc
                /\ exec' = [exec EXCEPT !.pc = pc] => ExecType'
                /\ Turns(pc) => /\ ExecType' /\ UNCHANGED <<tracked, alarm>>
                                /\ exec'.pc = pc /\ exec'.gen = exec.gen
  <1>1. NoExec \in [pc : {"none", "new", "found", "starting", "user", "settled", "oom"},
              gen : {NoGen} \cup Gens, phase : 0..Len(Phases)]
    BY TasksAssumption DEF NoExec
  <1> QED BY <1>1 DEF ExecType, RestType, Finish, Turns

\* The settlement of a cancelled claim.
LEMMA SettleTypes ==
    ASSUME RowType, ExecType, RestType, NEW g \in Gens,
           SettleCancelled(g) \/ SettleRequested(g)
    PROVE  /\ RowType' /\ ExecType' /\ tracked' \in BOOLEAN
           /\ alarm' \in {"idle", "join", "await", "done", "raised"}
           /\ \/ row' = row /\ exec' = NoExec
              \/ /\ row # NoRow /\ row.state = "running" /\ row.gen = g
                 /\ row' = EndedCancelled /\ exec' = [exec EXCEPT !.pc = "settled"]
  <1>1. \/ row' = row /\ Finish("done")
        \/ /\ row # NoRow /\ row.state = "running" /\ row.gen = g
           /\ row' = EndedCancelled /\ Turns("settled")
    BY DEF SettleCancelled, SettleRequested
  <1>2. CASE row' = row /\ Finish("done")
    BY <1>2, ExecMoves DEF RowType, RowOK, IsTerminal, Finish
  <1>3. CASE /\ row # NoRow /\ row.state = "running" /\ row.gen = g
             /\ row' = EndedCancelled /\ Turns("settled")
    BY <1>3, ExecMoves, RowWrites DEF RowType, RestType, Turns
  <1> QED BY <1>1, <1>2, <1>3

\* A claim, and the generation it takes.
LEMMA ClaimTypes ==
    ASSUME TypeOK, Claims, IsOpen(row)
    PROVE  /\ RowType' /\ ExecType' /\ JobType' /\ UNCHANGED <<tracked, alarm>>
           /\ exec'.pc = "starting" /\ exec'.phase = 0 /\ exec'.gen \in Unused
           /\ row' = [row EXCEPT !.state = "running", !.gen = exec'.gen, !.memory = FALSE,
                                 !.next = ClaimTimeout]
  <1>1. PICK g \in Unused :
          /\ row' = [row EXCEPT !.state = "running", !.gen = g, !.memory = FALSE,
                                !.next = ClaimTimeout]
          /\ exec' = [pc |-> "starting", gen |-> g, phase |-> 0]
    <2>1. (CHOOSE g \in Unused : TRUE) \in Unused
      BY DEF Claims
    <2> QED BY <2>1 DEF Claims
  <1>2. g \in Gens /\ g # NoGen /\ g \in Nat
    BY <1>1, TasksAssumption DEF Unused, Gens, NoGen
  <1>3. row # NoRow /\ row \in Rows
    BY DEF IsOpen, TypeOK
  <1>4. RowType'
    BY <1>1, <1>2, <1>3, TasksAssumption DEF RowType, RowOK, Rows, IsTerminal, Open, Terminal
  <1>5. ExecType'
    BY <1>1, <1>2, TasksAssumption DEF ExecType
  <1>6. JobType'
    BY <1>4, SyncTypes DEF Claims, TypeOK
  <1> QED BY <1>1, <1>4, <1>5, <1>6 DEF Claims

\* The journal is cleared with an unretained run that ended.
LEMMA CleanTypes ==
    ASSUME RowType, StepType, Cleaned
    PROVE  RowType' /\ StepType'
  <1>1. CASE DropsUnretained
    BY <1>1 DEF Cleaned, RowType, StepType, NoStep
  <1>2. CASE ~DropsUnretained
    BY <1>2 DEF Cleaned, RowType, StepType, RowOK, IsTerminal
  <1> QED BY <1>1, <1>2

LEMMA CallTypes ==
    ASSUME TypeOK, NEW g \in Gens, NEW s \in Steps, StepCall(g, s) \/ Callback(g, s)
    PROVE  TypeOK'
  <1>0. Types
    BY TypeParts
  <1> SUFFICES Types'
    BY TypeParts
  <1> USE DEF Types
  <1>1. CallMove(g, s)
    BY CallsMove
  <1>2. spent' \in 0..MaxFailures
    BY <1>0, TasksAssumption DEF RestType, StepCall, Callback, Enter, Invoke, Succeeds, Fails, Breaks,
       Aborted, Spends
  <1>3. ExecType' /\ BranchType' /\ RestType' /\ StepType'
    BY <1>0, <1>1, <1>2 DEF CallMove, ExecType, RestType
  <1>4. CASE row' = row /\ UNCHANGED <<job, touched>>
    BY <1>0, <1>3, <1>4 DEF RowType, RowOK, IsTerminal, JobType
  <1>5. CASE /\ SyncWake /\ Holds(g)
             /\ \E t \in Nat : row' = Parked(t) \/ row' = [row EXCEPT !.next = t]
    <2>1. RowType'
      BY <1>0, <1>5, RowWrites DEF RowType, Holds, IsOpen, Open
    <2>2. JobType'
      BY <1>0, <1>5, <2>1, SyncTypes DEF RestType
    <2> QED BY <1>3, <2>1, <2>2
  <1> QED BY <1>1, <1>4, <1>5, TasksAssumption DEF CallMove

\* How an attempt begins: it claims the run, finds a claim that expired, settles the
\* run, or ends without a write.
LEMMA BeginCases ==
    ASSUME Begin, TypeOK
    PROVE  /\ up = "ready" /\ exec.pc = "new" /\ UNCHANGED <<step, branch, world, spent>>
           /\ \/ Claims /\ IsOpen(row) /\ row.state # "running" /\ ~row.cancel
              \/ row' = row /\ Finish("done") /\ UNCHANGED <<job, touched>>
              \/ row' = row /\ Turns("found") /\ UNCHANGED <<job, touched>>
              \/ /\ IsOpen(row) /\ Turns("settled") /\ UNCHANGED <<job, touched>>
                 /\ \/ row.cancel /\ row' = EndedCancelled
                    \/ ~row.cancel /\ row' = Ended("failed")
  <1>1. IsOpen(row) => row.cancel \in BOOLEAN /\ row.next \in Nat
    BY DEF TypeOK, RowOK, IsOpen, IsTerminal, Rows, Open, Terminal
  <1>2. CASE ~IsOpen(row)
    BY <1>2 DEF Begin
  <1>3. CASE IsOpen(row) /\ row.cancel
    BY <1>3 DEF Begin
  <1>4. CASE IsOpen(row) /\ ~row.cancel /\ row.next > 0
    BY <1>4 DEF Begin
  <1>5. CASE IsOpen(row) /\ ~row.cancel /\ row.next = 0 /\ ~defined
    BY <1>5 DEF Begin
  <1>6. CASE IsOpen(row) /\ ~row.cancel /\ row.next = 0 /\ defined
    BY <1>6 DEF Begin
  <1> QED BY <1>1, <1>2, <1>3, <1>4, <1>5, <1>6

\* How an attempt ends by what one of its steps raised.
LEMMA RaiseCases ==
    ASSUME NEW s \in Steps, Raise(s)
    PROVE  \/ \E result \in {"done", "raised"} : row' = row /\ Finish(result)
           \/ SettleRequested(exec.gen)
           \/ SettleCancelled(exec.gen)
           \/ Holds(exec.gen) /\ row' = Ended("failed") /\ Turns("settled")
           \/ branch[exec.gen][s].pc = "oom" /\ row' = row /\ Turns("oom")
  <1> DEFINE pc == branch[exec.gen][s].pc
  <1>1. pc \in Raised
    BY DEF Raise
  <1>2. CASE pc = "suspended"
    BY <1>2 DEF Raise
  <1>3. CASE pc = "superseded"
    BY <1>3 DEF Raise
  <1>4. CASE pc = "cancelled"
    BY <1>4 DEF Raise
  <1>5. CASE pc = "failed"
    BY <1>5 DEF Raise
  <1>6. CASE pc = "platform"
    BY <1>6 DEF Raise
  <1>7. CASE pc = "oom"
    BY <1>7 DEF Raise
  <1> QED BY <1>1, <1>2, <1>3, <1>4, <1>5, <1>6, <1>7 DEF Raised

\* What an attempt's step leaves to be shown.
LEMMA AttemptTypes ==
    ASSUME TypeOK, ExecInv, Attempt
    PROVE  TypeOK'
  <1>0. Types
    BY TypeParts
  <1> SUFFICES Types'
    BY TypeParts
  <1> USE DEF Types
  <1>a. row' = row => RowType'
    BY <1>0 DEF RowType, RowOK, IsTerminal
  <1>b. step' = step => StepType'
    BY <1>0 DEF StepType
  <1>c. UNCHANGED <<job, touched>> => JobType'
    BY <1>0 DEF JobType
  <1>d. branch' = branch => BranchType'
    BY <1>0 DEF BranchType
  <1>e. /\ tracked' \in BOOLEAN /\ alarm' \in {"idle", "join", "await", "done", "raised"}
        /\ UNCHANGED <<world, spent>>
        => RestType'
    BY <1>0 DEF RestType, world
  <1>f. tracked \in BOOLEAN /\ alarm \in {"idle", "join", "await", "done", "raised"}
    BY <1>0 DEF RestType
  <1>g. IsOpen(row) => \A state \in Terminal : row' = Ended(state) => RowType'
    BY <1>0, RowWrites DEF RowType, IsOpen, Terminal
  <1>1. CASE Begin
    <2>1. StepType' /\ BranchType'
      BY <1>1, <1>b, <1>d DEF Begin
    <2>2. CASE Claims /\ IsOpen(row)
      BY <1>1, <1>e, <1>f, <2>1, <2>2, ClaimTypes DEF Begin
    <2>3. CASE row' = row /\ Finish("done") /\ UNCHANGED <<job, touched>>
      BY <1>0, <1>1, <1>a, <1>c, <1>e, <2>1, <2>3, ExecMoves DEF Begin
    <2>4. CASE UNCHANGED row /\ Turns("found") /\ UNCHANGED <<job, touched>>
      BY <1>0, <1>1, <1>a, <1>c, <1>e, <1>f, <2>1, <2>4, ExecMoves DEF Begin
    <2>5. CASE /\ IsOpen(row) /\ (row' = EndedCancelled \/ row' = Ended("failed"))
               /\ Turns("settled") /\ UNCHANGED <<job, touched>>
      <3>1. RowType'
        BY <1>0, <1>g, <2>5, RowWrites DEF RowType, IsOpen, Terminal
      <3> QED BY <1>0, <1>1, <1>c, <1>e, <1>f, <2>1, <2>5, <3>1, ExecMoves DEF Begin
    <2> QED BY <1>1, <2>2, <2>3, <2>4, <2>5, BeginCases
  <1>2. CASE ClaimInterrupted
    <2>1. StepType' /\ BranchType'
      BY <1>2, <1>b, <1>d DEF ClaimInterrupted
    <2>2. CASE Claims /\ IsOpen(row)
      BY <1>2, <1>e, <1>f, <2>1, <2>2, ClaimTypes DEF ClaimInterrupted
    <2>3. CASE row' = row /\ Finish("done") /\ UNCHANGED <<job, touched>>
      BY <1>0, <1>2, <1>a, <1>c, <1>e, <2>1, <2>3, ExecMoves DEF ClaimInterrupted
    <2> QED BY <1>2, <2>2, <2>3 DEF ClaimInterrupted
  <1>3. CASE Start
    <2>1. CASE Holds(exec.gen)
      <3>1. ExecType'
        BY <1>0, <1>3, <2>1 DEF Start, ExecType
      <3> QED BY <1>0, <1>3, <1>a, <1>b, <1>c, <1>d, <1>e, <1>f, <2>1, <3>1 DEF Start
    <2>2. CASE ~Holds(exec.gen)
      <3>1. SettleRequested(exec.gen) /\ exec.gen \in Gens
        BY <1>3, <2>2 DEF Start, ExecInv
      <3> QED BY <1>0, <1>3, <1>b, <1>c, <1>d, <1>e, <3>1, SettleTypes DEF Start
    <2> QED BY <2>1, <2>2
  <1>4. CASE NextPhase
    <2>1. ExecType'
      BY <1>0, <1>4, TasksAssumption DEF NextPhase, ExecType
    <2>2. BranchType'
      BY <1>0, <1>4 DEF NextPhase, BranchType, NoBranch, BranchPcs
    <2> QED
      BY <1>0, <1>4, <1>a, <1>b, <1>c, <1>e, <1>f, <2>1, <2>2 DEF NextPhase, durable
  <1>5. ASSUME NEW how \in {"completed", "failed"}, Return(how) PROVE Types'
    <2>1. exec.gen \in Gens /\ BranchType' /\ StepType' /\ JobType'
      BY <1>0, <1>5, <1>b, <1>c, OrphansStep DEF Return, ExecInv
    <2>2. CASE Holds(exec.gen)
      <3>1. RowType'
        BY <1>5, <1>g, <2>2 DEF Return, Holds, IsOpen, Open, Terminal
      <3> QED BY <1>0, <1>5, <1>e, <1>f, <2>1, <2>2, <3>1, ExecMoves DEF Return
    <2>3. CASE ~Holds(exec.gen)
      BY <1>0, <1>5, <1>e, <2>1, <2>3, SettleTypes DEF Return
    <2> QED BY <2>2, <2>3
  <1>6. ASSUME NEW s \in Steps, Raise(s) PROVE Types'
    <2>1. exec.gen \in Gens /\ BranchType' /\ StepType' /\ JobType'
      BY <1>0, <1>6, <1>b, <1>c, OrphansStep DEF Raise, ExecInv
    <2>2. CASE \E result \in {"done", "raised"} : row' = row /\ Finish(result)
      BY <1>0, <1>6, <1>a, <1>e, <2>1, <2>2, ExecMoves DEF Raise
    <2>3. CASE SettleRequested(exec.gen) \/ SettleCancelled(exec.gen)
      BY <1>0, <1>6, <1>e, <2>1, <2>3, SettleTypes DEF Raise
    <2>4. CASE Holds(exec.gen) /\ row' = Ended("failed") /\ Turns("settled")
      <3>1. RowType'
        BY <1>g, <2>4 DEF Holds, IsOpen, Open, Terminal
      <3> QED BY <1>0, <1>6, <1>e, <1>f, <2>1, <2>4, <3>1, ExecMoves DEF Raise
    <2>5. CASE row' = row /\ Turns("oom")
      BY <1>0, <1>6, <1>a, <1>e, <1>f, <2>1, <2>5, ExecMoves DEF Raise
    <2> QED BY <1>6, <2>2, <2>3, <2>4, <2>5, RaiseCases
  <1>7. ASSUME NEW s \in Steps, Catch(s) PROVE Types'
    <2>1. BranchType'
      BY <1>0, <1>7, GoesStep DEF Catch, ExecInv, BranchPcs, Over
    <2>2. ExecType'
      BY <1>0, <1>7 DEF Catch, ExecType
    <2> QED
      BY <1>0, <1>7, <1>a, <1>b, <1>c, <1>e, <1>f, <2>1, <2>2 DEF Catch, durable
  <1>8. CASE CleanUp
    <2>1. RowType' /\ StepType'
      BY <1>0, <1>8, CleanTypes DEF CleanUp
    <2>2. JobType' /\ BranchType'
      BY <1>8, <1>d, <1>f, <2>1, SyncTypes DEF CleanUp
    <2> QED BY <1>0, <1>8, <1>e, <2>1, <2>2, ExecMoves DEF CleanUp
  <1> QED BY <1>1, <1>2, <1>3, <1>4, <1>5, <1>6, <1>7, <1>8 DEF Attempt

\* What cancel() finds: a run that ended, an attempt to ask, or a run to settle.
LEMMA CancelCases ==
    ASSUME Cancel, TypeOK
    PROVE  \/ IsTerminal(row) /\ row' = row /\ SyncWake /\ UNCHANGED caller
           \/ /\ IsOpen(row) /\ row.gen # NoGen /\ exec.gen = row.gen
              /\ row' = [row EXCEPT !.cancel = TRUE, !.next = 0]
              /\ SyncWake /\ UNCHANGED caller
           \/ /\ IsOpen(row) /\ (row.gen = NoGen \/ exec.gen # row.gen)
              /\ row' = EndedCancelled /\ UNCHANGED <<job, touched>>
              /\ caller = "idle" /\ caller' = "cancelled"
  <1>1. IsTerminal(row) \/ IsOpen(row)
    BY DEF Cancel, TypeOK, IsTerminal, IsOpen, Rows
  <1>2. IsOpen(row) => ~IsTerminal(row)
    BY DEF IsTerminal, IsOpen, Open, Terminal
  <1>3. CASE IsTerminal(row)
    BY <1>2, <1>3 DEF Cancel
  <1>4. CASE IsOpen(row) /\ row.gen # NoGen /\ exec.gen = row.gen
    BY <1>2, <1>4 DEF Cancel
  <1>5. CASE IsOpen(row) /\ (row.gen = NoGen \/ exec.gen # row.gen)
    BY <1>2, <1>5 DEF Cancel
  <1> QED BY <1>1, <1>3, <1>4, <1>5

\* What a memory limit does to the run of the attempt that met it.
LEMMA MemoryLimitCases ==
    ASSUME NEW sealed \in BOOLEAN, MemoryLimit(sealed)
    PROVE  \/ /\ ~(IsOpen(row) /\ row.gen = exec.gen)
              /\ UNCHANGED <<row, touched, exec>> /\ job' \in {job, NoTime, MemoryDelay}
           \/ /\ IsOpen(row) /\ row.gen = exec.gen
              /\ \/ row.cancel /\ row' = EndedCancelled
                 \/ ~row.cancel /\ row' = Ended("failed")
              /\ exec' = [exec EXCEPT !.pc = "settled"]
              /\ job' \in {job, NoTime, MemoryDelay} /\ UNCHANGED touched
           \/ /\ IsOpen(row) /\ row.gen = exec.gen /\ ~row.cancel
              /\ row' = Backed /\ SyncWake /\ exec' = NoExec
  <1> DEFINE known  == IsOpen(row) /\ row.gen = exec.gen
             driven == IF touched THEN job ELSE IF sealed THEN NoTime ELSE MemoryDelay
  <1>0. driven \in {job, NoTime, MemoryDelay}
    OBVIOUS
  <1>1. CASE ~known
    BY <1>0, <1>1 DEF MemoryLimit
  <1>2. CASE known /\ row.cancel
    BY <1>0, <1>2 DEF MemoryLimit
  <1>3. CASE known /\ ~row.cancel /\ sealed
    BY <1>0, <1>3 DEF MemoryLimit
  <1>4. CASE known /\ ~row.cancel /\ ~sealed
    BY <1>0, <1>4 DEF MemoryLimit
  <1> QED BY <1>1, <1>2, <1>3, <1>4

\* What a client, the alarm, the breaker, an eviction or the clock leaves to be shown.
LEMMA WorldTypes ==
    ASSUME TypeOK, ExecInv, Next, ~Attempt,
           ~\E g \in Gens, s \in Steps : StepCall(g, s) \/ Callback(g, s)
    PROVE  TypeOK'
  <1>0. Types
    BY TypeParts
  <1> SUFFICES Types'
    BY TypeParts
  <1> USE DEF Types
  <1>a. row' = row => RowType'
    BY <1>0 DEF RowType, RowOK, IsTerminal
  <1>b. step' = step => StepType'
    BY <1>0 DEF StepType
  <1>c. UNCHANGED <<job, touched>> => JobType'
    BY <1>0 DEF JobType
  <1>d. branch' = branch => BranchType'
    BY <1>0 DEF BranchType
  <1>e. exec' = exec => ExecType'
    BY <1>0 DEF ExecType
  <1>f. UNCHANGED <<tracked, alarm, caller, up, defined, reset, spent>> => RestType'
    BY <1>0 DEF RestType
  <1>g. /\ tracked \in BOOLEAN /\ touched \in BOOLEAN /\ job \in Nat \cup {NoTime}
        /\ Deadline(row) \in Nat \cup {NoTime} /\ ClaimTimeout \in Nat /\ MemoryDelay \in Nat
    BY <1>0, TasksAssumption DEF RestType, JobType, RowType, Deadline, IsOpen, Rows
  <1>1. ASSUME NEW retain \in Retains, Accept(retain) PROVE Types'
    <2>1. row' \in Rows /\ RowOK(row')
      BY <1>1, TasksAssumption DEF Accept, Rows, RowOK, NoGen, IsTerminal, Open, Terminal
    <2>2. RowType' /\ JobType'
      BY <1>1, <1>g, <2>1, SyncTypes DEF Accept, RowType
    <2>3. StepType' /\ ExecType' /\ BranchType' /\ RestType'
      BY <1>1, <1>b, <1>d, <1>e, <1>f DEF Accept, others
    <2> QED BY <2>2, <2>3
  <1>2. CASE Join
    <2>1. RowType' /\ StepType' /\ ExecType' /\ BranchType' /\ RestType'
      BY <1>2, <1>a, <1>b, <1>d, <1>e, <1>f DEF Join, others
    <2>2. job' \in Nat \cup {NoTime}
      BY <1>2, <1>g DEF Join
    <2>3. touched' \in BOOLEAN
      BY <1>2 DEF Join
    <2> QED BY <2>1, <2>2, <2>3 DEF JobType
  <1>3. CASE Submit
    <2>1. ExecType'
      BY <1>0, <1>3, ExecMoves DEF Submit
    <2> QED BY <1>3, <1>a, <1>b, <1>c, <1>d, <1>f, <2>1 DEF Submit, durable, world
  <1>4. CASE Cancel
    <2>0. UNCHANGED <<step, others>> /\ caller' \in {caller, "cancelled"}
      BY <1>4, CancelCases DEF Cancel
    <2>1. StepType' /\ ExecType' /\ BranchType' /\ RestType'
      BY <1>0, <2>0, <1>b, <1>d, <1>e DEF others, RestType
    <2>2. RowType' /\ (SyncWake \/ UNCHANGED <<job, touched>>)
      <3>1. CASE row' = row /\ SyncWake
        BY <1>a, <3>1
      <3>2. CASE IsOpen(row) /\ row' = [row EXCEPT !.cancel = TRUE, !.next = 0] /\ SyncWake
        BY <1>0, <3>2, RowWrites DEF RowType, IsOpen
      <3>3. CASE IsOpen(row) /\ row' = EndedCancelled /\ UNCHANGED <<job, touched>>
        BY <1>0, <3>3, RowWrites DEF RowType, IsOpen
      <3> QED BY <1>0, <1>4, <3>1, <3>2, <3>3, CancelCases
    <2> QED BY <1>c, <1>g, <2>1, <2>2, SyncTypes
  <1>5. CASE Delete
    <2>1. RowType' /\ StepType'
      BY <1>0, <1>5 DEF Delete, RowType, StepType, NoStep
    <2>2. RestType'
      BY <1>0, <1>5 DEF Delete, RestType, others
    <2> QED BY <1>5, <1>c, <1>d, <1>e, <2>1, <2>2 DEF Delete, others
  <1>6. CASE CallerCleansUp
    <2>1. RowType' /\ StepType'
      BY <1>0, <1>6, <1>a, <1>b, CleanTypes DEF CallerCleansUp
    <2>2. JobType' /\ RestType'
      BY <1>0, <1>6, <1>g, <2>1, SyncTypes DEF CallerCleansUp, RestType, others
    <2> QED BY <1>6, <1>d, <1>e, <2>1, <2>2 DEF CallerCleansUp, others
  <1>7. ASSUME NEW written \in BOOLEAN, Dispatches(written)
        PROVE  /\ job' \in Nat \cup {NoTime} /\ ExecType'
               /\ alarm' \in {"idle", "join", "await", "done", "raised"}
    BY <1>0, <1>7, <1>e, <1>g, ExecMoves DEF Dispatches, Outcome
  <1>8. CASE AlarmFires
    <2>1. StepType' /\ BranchType'
      BY <1>8, <1>b, <1>d DEF AlarmFires
    <2>2. CASE /\ row # NoRow /\ row.state = "running"
               /\ row' = [row EXCEPT !.next = ClaimTimeout] /\ job' = row'.next
               /\ touched' = TRUE /\ alarm' = "join" /\ UNCHANGED exec
      <3>1. RowType'
        BY <1>0, <1>g, <2>2, RowWrites DEF RowType, IsOpen, Open
      <3>2. JobType'
        BY <1>0, <1>g, <2>2 DEF JobType, RowType, Rows
      <3> QED BY <1>0, <1>8, <1>e, <2>1, <2>2, <3>1, <3>2 DEF AlarmFires, RestType, world
    <2>3. CASE Dispatches(FALSE) /\ touched' = FALSE /\ UNCHANGED row
      <3>1. JobType' /\ ExecType' /\ RowType'
        BY <1>7, <1>a, <2>3 DEF JobType
      <3> QED BY <1>0, <1>7, <1>8, <2>1, <2>3, <3>1 DEF AlarmFires, RestType, world
    <2> QED BY <1>8, <2>2, <2>3 DEF AlarmFires
  <1>9. CASE AlarmJoins
    <2>1. JobType' /\ ExecType'
      BY <1>7, <1>9, <1>g DEF AlarmJoins, JobType
    <2> QED BY <1>0, <1>7, <1>9, <1>a, <1>b, <1>d, <1>g, <2>1 DEF AlarmJoins, RestType, world
  <1>10. CASE AlarmReturns
    <2>1. job' \in Nat \cup {NoTime} /\ RestType'
      BY <1>0, <1>10, <1>g DEF AlarmReturns, Outcome, RestType, world
    <2>2. touched' \in BOOLEAN
      BY <1>10 DEF AlarmReturns
    <2> QED BY <1>10, <1>a, <1>b, <1>d, <1>e, <2>1, <2>2 DEF AlarmReturns, JobType
  <1>11. CASE AlarmHandsOff
    <2>1. JobType' /\ RestType'
      BY <1>0, <1>11, <1>g DEF AlarmHandsOff, Outcome, RestType, JobType, world
    <2> QED BY <1>11, <1>a, <1>b, <1>d, <1>e, <2>1 DEF AlarmHandsOff
  <1>12. CASE HandoffRefused
    <2>1. ExecType' /\ RestType'
      BY <1>0, <1>12, TasksAssumption DEF HandoffRefused, Spends, RestType, ExecType, NoExec, world
    <2>2. BranchType'
      BY <1>0, <1>12 DEF HandoffRefused, BranchType, NoBranch, BranchPcs
    <2> QED BY <1>12, <1>a, <1>b, <1>c, <2>1, <2>2 DEF HandoffRefused, durable
  <1>13. ASSUME NEW sealed \in BOOLEAN, MemoryLimit(sealed) PROVE Types'
    <2>1. StepType' /\ BranchType' /\ RestType'
      BY <1>0, <1>13, <1>b, <1>d DEF MemoryLimit, RestType
    <2>2. CASE /\ UNCHANGED <<row, touched, exec>> /\ job' \in {job, NoTime, MemoryDelay}
      BY <1>a, <1>e, <1>g, <2>1, <2>2 DEF JobType
    <2>3. CASE /\ IsOpen(row) /\ (row' = EndedCancelled \/ row' = Ended("failed"))
               /\ exec' = [exec EXCEPT !.pc = "settled"]
               /\ job' \in {job, NoTime, MemoryDelay} /\ UNCHANGED touched
      BY <1>0, <1>g, <2>1, <2>3, RowWrites, ExecMoves DEF JobType, RowType, IsOpen
    <2>4. CASE IsOpen(row) /\ row' = Backed /\ SyncWake /\ exec' = NoExec
      <3>1. RowType'
        BY <1>0, <2>4, RowWrites DEF RowType, IsOpen
      <3>2. JobType'
        BY <1>g, <2>4, <3>1, SyncTypes
      <3>3. ExecType'
        BY <2>4, TasksAssumption DEF ExecType, NoExec
      <3> QED BY <2>1, <3>1, <3>2, <3>3
    <2> QED BY <1>13, <2>2, <2>3, <2>4, MemoryLimitCases
  <1>14. CASE Crash \/ Reset
    <2>1. Forget /\ spent' \in 0..MaxFailures
      BY <1>0, <1>14, TasksAssumption DEF Crash, Reset, Spends, RestType
    <2>0. ExecType'
      BY <2>1, TasksAssumption DEF Forget, ExecType, NoExec
    <2>2. RestType'
      BY <1>0, <2>1 DEF Forget, RestType
    <2>3. BranchType'
      BY <2>1 DEF Forget, BranchType, NoBranch, BranchPcs
    <2>4. JobType'
      BY <1>0, <2>1 DEF Forget, JobType, durable
    <2> QED BY <1>a, <1>b, <2>0, <2>1, <2>2, <2>3, <2>4 DEF Forget, durable
  <1>15. CASE Reconcile
    <2>1. RowType'
      BY <1>0, <1>15, <1>a, RowWrites DEF Reconcile, RowType, IsOpen, Open
    <2>2. RestType'
      BY <1>0, <1>15 DEF Reconcile, RestType
    <2> QED BY <1>15, <1>b, <1>c, <1>d, <1>e, <2>1, <2>2 DEF Reconcile
  <1>16. CASE Repair
    <2>1. RowType' /\ StepType'
      BY <1>0, <1>16, CleanTypes DEF Repair
    <2>2. JobType' /\ RestType'
      BY <1>0, <1>16 DEF Repair, RestType, JobType, RowType, IsOpen, Rows
    <2> QED BY <1>16, <1>d, <1>e, <2>1, <2>2 DEF Repair
  <1>17. CASE Tick
    <2>0. \A t \in Nat \cup {NoTime} : /\ Later(t) \in Nat \cup {NoTime}
                                       /\ Later(t) = NoTime <=> t = NoTime
      BY TasksAssumption DEF Later
    <2>1. RowType'
      <3>1. CASE row = NoRow
        BY <1>17, <3>1 DEF Tick, RowType
      <3>2. CASE row # NoRow
        <4>1. row' = [row EXCEPT !.next = Later(row.next)]
          BY <1>17, <3>2 DEF Tick
        <4>2. row \in Rows /\ RowOK(row) /\ row.next \in Nat \cup {NoTime}
          BY <1>0, <3>2 DEF RowType, Rows
        <4> QED BY <2>0, <4>1, <4>2, TasksAssumption DEF RowType, RowOK, Rows, IsTerminal
      <3> QED BY <3>1, <3>2
    <2>2. StepType'
      BY <1>0, <1>17, <2>0 DEF Tick, StepType
    <2>3. JobType'
      BY <1>0, <1>17, <2>0 DEF Tick, JobType
    <2> QED BY <1>17, <1>d, <1>e, <1>f, <2>1, <2>2, <2>3 DEF Tick, world
  <1> QED
    BY <1>1, <1>2, <1>3, <1>4, <1>5, <1>6, <1>8, <1>9, <1>10, <1>11, <1>12, <1>13,
       <1>14, <1>15, <1>16, <1>17 DEF Next, Alarm, Client, Breaker

LEMMA TypeStep ==
    ASSUME TypeOK, ExecInv, [Next]_vars
    PROVE  TypeOK'
  <1>1. CASE Next
    BY <1>1, AttemptTypes, CallTypes, WorldTypes
  <1>2. CASE UNCHANGED vars
    <2>1. TypeOK <=> Types
      BY TypeParts
    <2> QED BY <1>2, <2>1, TypeParts DEF vars, Types, RowType, RowOK, IsTerminal, StepType, JobType,
            ExecType, BranchType, RestType
  <1> QED BY <1>1, <1>2

-----------------------------------------------------------------------------
(* The journal.                                                            *)

Life == IF row = NoRow THEN "none"
        ELSE IF IsTerminal(row) THEN row.state
        ELSE IF row.cancel THEN "cancelling" ELSE "open"
HasClaim == row # NoRow /\ row.gen # NoGen
Results  == [s \in Steps |-> IF Recorded(s) THEN step[s].state ELSE "none"]

\* A move of the journal, as what it does to the three.
JournalMoves ==
    \/ Results' = Results /\ Life' = Life /\ HasClaim' = HasClaim
    \/ Results' = Results /\ Life = "none" /\ Life' = "open" /\ HasClaim' = HasClaim
    \/ Results' = Results /\ Life = "open" /\ Life' = "open"
    \/ Results' = Results /\ Life = "open" /\ HasClaim /\ Life' = "cancelling"
       /\ HasClaim' = HasClaim
    \/ /\ Results' = Results /\ HasClaim' = FALSE
       /\ \/ Life' = "completed" /\ Life = "open" /\ HasClaim
             /\ \A s \in Steps : Recorded(s)
          \/ Life' = "failed" /\ Life = "open"
          \/ Life' = "cancelled" /\ Life \in {"open", "cancelling"}
    \/ /\ Life \in Terminal /\ Life' = "none" /\ HasClaim' = HasClaim
       /\ Results' = [s \in Steps |-> "none"]
    \/ /\ Life = "open" /\ HasClaim /\ Life' = Life /\ HasClaim' = HasClaim
       /\ \E s \in Steps, result \in {"completed", "failed"} :
            ~Recorded(s) /\ Results' = [Results EXCEPT ![s] = result]

LEMMA MovesAreSteps == JournalMoves => [Journal!Next]_<<Life, HasClaim, Results>>
  <1> USE DEF Life, HasClaim, Results, Recorded, Journal!Blank, Journal!Ended, Journal!Lives
  <1>1. CASE Results' = Results /\ Life' = Life /\ HasClaim' = HasClaim
    BY <1>1
  <1>2. CASE Results' = Results /\ Life = "none" /\ Life' = "open" /\ HasClaim' = HasClaim
    <2>1. Journal!Accept
      BY <1>2 DEF Journal!Accept
    <2> QED BY <2>1 DEF Journal!Next
  <1>3. CASE Results' = Results /\ Life = "open" /\ Life' = "open"
    <2>1. Journal!Claim \/ Journal!Yield
      BY <1>3 DEF Journal!Claim, Journal!Yield
    <2> QED BY <2>1 DEF Journal!Next
  <1>4. CASE Results' = Results /\ Life = "open" /\ HasClaim /\ Life' = "cancelling"
             /\ HasClaim' = HasClaim
    <2>1. Journal!AskToCancel
      BY <1>4 DEF Journal!AskToCancel
    <2> QED BY <2>1 DEF Journal!Next
  <1>5. CASE /\ Results' = Results /\ HasClaim' = FALSE /\ Life' = "completed"
             /\ Life = "open" /\ HasClaim /\ \A s \in Steps : Recorded(s)
    <2>1. Journal!Settle("completed")
      BY <1>5 DEF Journal!Settle
    <2> QED BY <2>1 DEF Journal!Next
  <1>6. CASE Results' = Results /\ HasClaim' = FALSE /\ Life' = "failed" /\ Life = "open"
    <2>1. Journal!Settle("failed")
      BY <1>6 DEF Journal!Settle
    <2> QED BY <2>1 DEF Journal!Next
  <1>7. CASE /\ Results' = Results /\ HasClaim' = FALSE /\ Life' = "cancelled"
             /\ Life \in {"open", "cancelling"}
    <2>1. Journal!Settle("cancelled")
      BY <1>7 DEF Journal!Settle
    <2> QED BY <2>1 DEF Journal!Next
  <1>8. CASE /\ Life \in Terminal /\ Life' = "none" /\ HasClaim' = HasClaim
             /\ Results' = [s \in Steps |-> "none"]
    <2>1. Journal!Delete
      BY <1>8 DEF Journal!Delete, Terminal
    <2> QED BY <2>1 DEF Journal!Next
  <1>9. ASSUME NEW s \in Steps, NEW result \in {"completed", "failed"},
               Life = "open", HasClaim, Life' = Life, HasClaim' = HasClaim,
               ~Recorded(s), Results' = [Results EXCEPT ![s] = result]
        PROVE  Journal!Next
    <2>1. Journal!Record(s, result)
      BY <1>9 DEF Journal!Record
    <2> QED BY <2>1 DEF Journal!Next
  <1> HIDE DEF Life, HasClaim, Results, Recorded
  <1> QED BY <1>1, <1>2, <1>3, <1>4, <1>5, <1>6, <1>7, <1>8, <1>9 DEF JournalMoves

\* The journal of a row of each kind.
LEMMA LifeIs ==
    ASSUME TypeOK
    PROVE  /\ row = NoRow => Life = "none" /\ ~HasClaim
           /\ IsOpen(row) => /\ Life = IF row.cancel THEN "cancelling" ELSE "open"
                             /\ HasClaim <=> row.gen # NoGen
           /\ IsTerminal(row) => Life = row.state /\ Life \in Terminal /\ ~HasClaim
           /\ \A g \in Gens : Holds(g) => IsOpen(row) /\ Life = "open" /\ HasClaim
           /\ row = NoRow \/ IsOpen(row) \/ IsTerminal(row)
  <1>1. \A g \in Gens : g # NoGen
    BY TasksAssumption DEF Gens, NoGen
  <1>2. row # NoRow => row.state \in Open \cup Terminal /\ row.cancel \in BOOLEAN
    BY DEF TypeOK, Rows
  <1>3. IsOpen(row) => ~IsTerminal(row) /\ row # NoRow
    BY DEF IsOpen, IsTerminal, Open, Terminal
  <1>4. IsTerminal(row) => row.gen = NoGen
    BY <1>2 DEF TypeOK, RowOK, IsTerminal, Terminal
  <1> QED BY <1>1, <1>2, <1>3, <1>4 DEF Life, HasClaim, IsOpen, IsTerminal, Holds, Open

\* The writes of a row that leave the journal's results.
LEMMA RowsMove ==
    ASSUME TypeOK, Results' = Results
    PROVE  /\ row' = row => JournalMoves
           /\ IsOpen(row) => \A t \in Nat : row' = [row EXCEPT !.next = t] => JournalMoves
           /\ \A g \in Gens, t \in Nat : Holds(g) /\ row' = Parked(t) => JournalMoves
           /\ IsOpen(row) /\ row' = EndedCancelled => JournalMoves
           /\ IsOpen(row) /\ ~row.cancel /\ row' = Ended("failed") => JournalMoves
           /\ IsOpen(row) /\ row' = Backed /\ ~row.cancel => JournalMoves
           /\ \A g \in Gens : Holds(g) /\ (\A s \in Steps : Recorded(s))
                /\ row' = Ended("completed") => JournalMoves
           /\ IsOpen(row) /\ row.gen # NoGen /\ row' = [row EXCEPT !.cancel = TRUE, !.next = 0]
                => JournalMoves
  <1> USE DEF IsOpen, IsTerminal, Holds, Open, Terminal
  <1>a. row # NoRow => row \in Rows
    BY DEF TypeOK
  <1>b. row # NoRow => /\ \A t \in Nat : Parked(t) # NoRow /\ [row EXCEPT !.next = t] # NoRow
                       /\ EndedCancelled # NoRow /\ Ended("failed") # NoRow
                       /\ Ended("completed") # NoRow /\ Backed # NoRow
                       /\ (IsOpen(row) => [row EXCEPT !.cancel = TRUE, !.next = 0] # NoRow)
    <2>1. RowType
      BY TypeParts DEF Types
    <2>2. row # NoRow => \A t \in Nat : [row EXCEPT !.next = t] \in Rows
      BY <1>a DEF Rows
    <2> HIDE DEF IsOpen
    <2> QED BY <2>1, <2>2, RowWrites, TasksAssumption
  <1>1. row' = row => JournalMoves
    BY DEF JournalMoves, Life, HasClaim
  <1>2. IsOpen(row) => \A t \in Nat : row' = [row EXCEPT !.next = t] => JournalMoves
    BY <1>a, <1>b DEF JournalMoves, Life, HasClaim, Rows
  <1>3. \A g \in Gens, t \in Nat : Holds(g) /\ row' = Parked(t) => JournalMoves
    BY <1>a, <1>b DEF JournalMoves, Life, HasClaim, Rows, Parked
  <1>4. IsOpen(row) /\ row' = EndedCancelled => JournalMoves
    BY <1>a, <1>b DEF JournalMoves, Life, HasClaim, Rows, EndedCancelled, Ended
  <1>5. IsOpen(row) /\ ~row.cancel /\ row' = Ended("failed") => JournalMoves
    BY <1>a, <1>b DEF JournalMoves, Life, HasClaim, Rows, Ended
  <1>6. IsOpen(row) /\ row' = Backed /\ ~row.cancel => JournalMoves
    BY <1>a, <1>b DEF JournalMoves, Life, HasClaim, Rows, Backed
  <1>7. \A g \in Gens : Holds(g) /\ (\A s \in Steps : Recorded(s))
                /\ row' = Ended("completed") => JournalMoves
    <2>1. \A g \in Gens : Holds(g) => Life = "open" /\ HasClaim
      BY LifeIs
    <2>2. row # NoRow /\ row' = Ended("completed") => Life' = "completed" /\ HasClaim' = FALSE
      BY <1>a, <1>b DEF Life, HasClaim, Rows, Ended
    <2> QED BY <2>1, <2>2 DEF JournalMoves
  <1>8. IsOpen(row) /\ row.gen # NoGen /\ row' = [row EXCEPT !.cancel = TRUE, !.next = 0]
          => JournalMoves
    BY <1>a, <1>b DEF JournalMoves, Life, HasClaim, Rows
  <1> QED BY <1>1, <1>2, <1>3, <1>4, <1>5, <1>6, <1>7, <1>8

-----------------------------------------------------------------------------
(* The invariants.                                                         *)

\* Most steps claim nothing, record nothing and begin no step call; they leave the
\* attempt under way alone, or end it.
RowPasses ==
    /\ \A g \in Gens : Holds(g)' => Holds(g)
    /\ row' = NoRow \/ \A s \in Steps : step'[s].state = step[s].state
ExecPasses ==
    /\ \A g \in Gens, s \in Steps : branch'[g][s] \in {branch[g][s], NoBranch}
    /\ \/ /\ UNCHANGED <<exec, branch>>
          /\ exec.gen \in Gens /\ Claimed => Claimed'
       \/ exec'.pc \in {"none", "new", "found"} /\ exec'.gen = NoGen
       \/ exec'.pc = "settled"
Passes == RowPasses /\ ExecPasses

LEMMA PassesKeep ==
    ASSUME ExecInv, StepInv, Passes
    PROVE  ExecInv' /\ StepInv' /\ (AttemptInv => AttemptInv')
  <1>1. /\ row' = NoRow => \A g \in Gens : ~Holds(g)'
        /\ \A s \in Steps : step'[s].state = step[s].state => (Recorded(s)' <=> Recorded(s))
    BY DEF Holds, Recorded
  <1>2. \A g \in Gens, s \in Steps : branch'[g][s].pc \in {branch[g][s].pc, "none"}
    BY DEF Passes, ExecPasses, NoBranch
  <1>3. CASE UNCHANGED <<exec, branch>> /\ (exec.gen \in Gens /\ Claimed => Claimed')
    <2>1. ExecInv'
      BY <1>3 DEF ExecInv
    <2>2. StepInv'
      <3>1. CASE row' = NoRow
        BY <1>1, <1>3, <2>1, <3>1 DEF StepInv, ExecInv
      <3>2. CASE \A s \in Steps : step'[s].state = step[s].state
        <4>1. \A s \in Steps : Recorded(s)' <=> Recorded(s)
          BY <1>1, <3>2
        <4>2. \A i \in DOMAIN Phases : \A s \in Phases[i] : s \in Steps
          BY TasksAssumption
        <4>3. exec.pc = "user" => exec.gen \in Gens
          BY DEF ExecInv
        <4> QED
          BY <1>3, <3>2, <4>1, <4>2, <4>3 DEF StepInv, Passes, RowPasses
      <3> QED BY <3>1, <3>2 DEF Passes, RowPasses
    <2>3. AttemptInv => AttemptInv'
      BY <1>3 DEF ExecInv, AttemptInv
    <2> QED BY <2>1, <2>2, <2>3
  <1>4. CASE exec'.pc \notin {"starting", "user", "oom"}
             /\ (exec'.pc \in {"none", "new", "found"} => exec'.gen = NoGen)
    <2>1. ExecInv' /\ AttemptInv'
      BY <1>4 DEF ExecInv, AttemptInv
    <2>2. StepInv'
      BY <1>1, <1>2, <1>4 DEF StepInv, Passes, RowPasses
    <2> QED BY <2>1, <2>2
  <1> QED BY <1>3, <1>4 DEF Passes, ExecPasses

\* Whoever writes the row without a claim of its own.
LEMMA RowsPass ==
    ASSUME TypeOK
    PROVE  /\ UNCHANGED <<row, step>> => RowPasses
           /\ step' = step /\ row # NoRow =>
                /\ \A state \in Terminal : row' = Ended(state) => RowPasses
                /\ row' = EndedCancelled => RowPasses
                /\ row' = Backed => RowPasses
                /\ \A t : row' = [row EXCEPT !.next = t] => RowPasses
                /\ row' = [row EXCEPT !.cancel = TRUE, !.next = 0] => RowPasses
           /\ row' = NoRow => RowPasses
  <1>1. UNCHANGED <<row, step>> => RowPasses
    BY DEF RowPasses, Holds
  <1>2. row' = NoRow => RowPasses
    BY DEF RowPasses, Holds
  <1>3. ASSUME step' = step, row # NoRow
        PROVE  /\ \A state \in Terminal : row' = Ended(state) => RowPasses
               /\ row' = EndedCancelled => RowPasses
               /\ row' = Backed => RowPasses
               /\ \A t : row' = [row EXCEPT !.next = t] => RowPasses
               /\ row' = [row EXCEPT !.cancel = TRUE, !.next = 0] => RowPasses
    <2> USE <1>3 DEF RowPasses, Holds
    <2>0. row \in Rows /\ \A g \in Gens : g # NoGen
      BY TasksAssumption DEF TypeOK, Gens, NoGen
    <2>1. \A state \in Terminal : row' = Ended(state) => RowPasses
      BY <2>0 DEF Ended, Terminal, Rows
    <2>2. row' = EndedCancelled => RowPasses
      BY <2>0 DEF EndedCancelled, Ended, Rows
    <2>3. row' = Backed => RowPasses
      BY <2>0 DEF Backed, Rows
    <2>4. \A t : row' = [row EXCEPT !.next = t] => RowPasses
      BY <2>0 DEF Rows
    <2>5. row' = [row EXCEPT !.cancel = TRUE, !.next = 0] => RowPasses
      BY <2>0 DEF Rows
    <2> QED BY <2>1, <2>2, <2>3, <2>4, <2>5
  <1> QED BY <1>1, <1>2, <1>3

\* An attempt that ends, or settles its run.
LEMMA EndsPass ==
    ASSUME TypeOK, step' = step,
           \A h \in Gens, s \in Steps : branch'[h][s] \in {branch[h][s], NoBranch}
    PROVE  /\ exec' = NoExec => ExecPasses
           /\ \A result : row' = row /\ Finish(result) => Passes
           /\ \A state \in Terminal : row # NoRow /\ row' = Ended(state) /\ Turns("settled") => Passes
           /\ row # NoRow /\ row' = EndedCancelled /\ Turns("settled") => Passes
           /\ \A g : SettleRequested(g) \/ SettleCancelled(g) => Passes
  <1>a. /\ exec' = NoExec => ExecPasses
        /\ Turns("settled") => ExecPasses
    <2>1. [exec EXCEPT !.pc = "settled"].pc = "settled"
      BY DEF TypeOK
    <2>2. exec' = NoExec => ExecPasses
      <3>1. NoExec.pc = "none" /\ NoExec.gen = NoGen
        BY DEF NoExec
      <3> QED BY <3>1 DEF ExecPasses
    <2>3. Turns("settled") => ExecPasses
      BY <2>1 DEF ExecPasses, Turns
    <2> QED BY <2>2, <2>3
  <1>1. \A result : row' = row /\ Finish(result) => Passes
    BY <1>a, RowsPass DEF Passes, Finish
  <1>2. \A state \in Terminal : row # NoRow /\ row' = Ended(state) /\ Turns("settled") => Passes
    BY <1>a, RowsPass DEF Passes
  <1>3. row # NoRow /\ row' = EndedCancelled /\ Turns("settled") => Passes
    BY <1>a, RowsPass DEF Passes
  <1>4. \A g : SettleRequested(g) \/ SettleCancelled(g) => Passes
    BY <1>1, <1>3 DEF SettleRequested, SettleCancelled
  <1> QED BY <1>a, <1>1, <1>2, <1>3, <1>4

\* A claim begins with no step call of its generation.
LEMMA ClaimsKeep ==
    ASSUME TypeOK, ExecInv, StepInv, Claims, IsOpen(row), UNCHANGED <<step, branch>>
    PROVE  ExecInv' /\ StepInv' /\ (AttemptInv => AttemptInv')
  <1>1. /\ exec'.pc = "starting" /\ exec'.phase = 0 /\ exec'.gen \in Unused
        /\ row' = [row EXCEPT !.state = "running", !.gen = exec'.gen, !.memory = FALSE,
                              !.next = ClaimTimeout]
        /\ RowType'
    BY ClaimTypes
  <1>2. exec'.gen \in Gens /\ \A s \in Steps : branch[exec'.gen][s].pc = "none"
    BY <1>1 DEF Unused
  <1>3. /\ row \in Rows /\ row # NoRow /\ row' # NoRow
        /\ row'.state = "running" /\ row'.gen = exec'.gen
    <2>1. row \in Rows /\ row # NoRow
      BY DEF IsOpen, TypeOK
    <2>2. row' \in Rows
      BY <1>1, <1>2, <2>1, TasksAssumption DEF Rows, Open
    <2> QED BY <1>1, <2>1, <2>2, TasksAssumption DEF Rows
  <1>4. ExecInv' /\ AttemptInv'
    BY <1>1, <1>2, <1>3 DEF ExecInv, AttemptInv, Claimed
  <1>5. StepInv'
    BY <1>1, <1>2, <1>3 DEF StepInv, Holds
  <1> QED BY <1>4, <1>5

\* A step call keeps the invariants: what it hears is recorded, and whoever loses the
\* claim hears that the run was parked.
LEMMA CallsKeep ==
    ASSUME TypeOK, ExecInv, StepInv, NEW g \in Gens, NEW s \in Steps, CallMove(g, s)
    PROVE  ExecInv' /\ StepInv' /\ (AttemptInv => AttemptInv')
  <1>0. /\ exec' = exec /\ \A u \in Steps : u # s => step'[u] = step[u]
        /\ \A h \in Gens, u \in Steps : h # g \/ u # s => branch'[h][u] = branch[h][u]
        /\ branch[g][s].pc \in {"ready", "starting", "callback"}
        /\ \A i \in DOMAIN Phases : \A u \in Phases[i] : u \in Steps
        /\ exec.pc \in {"starting", "user", "oom"} => exec.gen \in Gens
        /\ \A h \in Gens : h # NoGen
    BY TasksAssumption DEF CallMove, OthersStay, ExecInv, Gens, NoGen
  <1>1. ExecInv'
    BY <1>0 DEF ExecInv
  \* The claim: only its own attempt writes a claimed row, and parks it or extends it.
  <1>2. \/ row' = row
        \/ /\ Holds(g) /\ row' # NoRow /\ row'.state = "running" /\ row'.gen = row.gen
           /\ row'.cancel = row.cancel
        \/ /\ Holds(g) /\ row' # NoRow /\ row'.state = "waiting"
           /\ branch'[g][s].pc = IF Live(g) THEN "suspended" ELSE "none"
    <2>1. ASSUME NEW t \in Nat, Holds(g), row' = Parked(t)
          PROVE  row' # NoRow /\ row'.state = "waiting"
      <3>1. RowType /\ row # NoRow /\ row \in Rows
        BY <2>1, TypeParts DEF Types, Holds, RowType
      <3>2. Parked(t) \in Rows
        BY <2>1, <3>1, RowWrites
      <3> QED BY <2>1, <3>1, <3>2, TasksAssumption DEF Parked, Rows
    <2>2. ASSUME Holds(g), row' = [row EXCEPT !.next = ClaimTimeout]
          PROVE  row' # NoRow /\ row'.state = "running" /\ row'.gen = row.gen
                 /\ row'.cancel = row.cancel
      <3>1. row # NoRow /\ row \in Rows /\ row.state = "running" /\ ClaimTimeout \in Nat
        BY <2>2, TasksAssumption DEF Holds, TypeOK
      <3>2. [row EXCEPT !.next = ClaimTimeout] \in Rows
        BY <3>1 DEF Rows
      <3> QED BY <2>2, <3>1, <3>2, TasksAssumption DEF Rows
    <2>3. \/ row' = row
          \/ /\ Holds(g) /\ \E t \in Nat : row' = Parked(t)
             /\ branch'[g][s].pc = IF Live(g) THEN "suspended" ELSE "none"
          \/ Holds(g) /\ row' = [row EXCEPT !.next = ClaimTimeout]
      BY DEF CallMove
    <2>4. CASE /\ Holds(g) /\ \E t \in Nat : row' = Parked(t)
               /\ branch'[g][s].pc = IF Live(g) THEN "suspended" ELSE "none"
      BY <2>1, <2>4
    <2>5. CASE Holds(g) /\ row' = [row EXCEPT !.next = ClaimTimeout]
      BY <2>2, <2>5
    <2> QED BY <2>3, <2>4, <2>5
  <1>3. /\ \A h \in Gens : Holds(h)' => Holds(h)
        /\ \A h \in Gens : Holds(g) /\ Holds(h) => h = g
    BY <1>2 DEF Holds
  \* The journal: a result stays, and only the holder writes.
  <1>4. /\ \A u \in Steps : Recorded(u) => Recorded(u)'
        /\ ~Holds(g) => step' = step
        /\ branch'[g][s].pc = "starting" => step'[s].state = "running"
        /\ branch'[g][s].pc \in {"done", "failed"} => Recorded(s)'
        /\ branch'[g][s].pc = "oom" => s \in Heavy
    <2> USE <1>0 DEF CallMove, Recorded
    <2>1. \A u \in Steps : Recorded(u) => Recorded(u)'
      OBVIOUS
    <2>2. ~Holds(g) => step' = step
      OBVIOUS
    <2>3. branch'[g][s].pc = "starting" => step'[s].state = "running"
      OBVIOUS
    <2>4. /\ branch'[g][s].pc \in {"done", "failed"} => Recorded(s)'
          /\ branch'[g][s].pc = "oom" => s \in Heavy
      OBVIOUS
    <2> QED BY <2>1, <2>2, <2>3, <2>4
  <1>5. StepInv'
    <2>1. ASSUME NEW h \in Gens, NEW u \in Steps, Holds(h)', branch'[h][u].pc = "starting"
          PROVE  step'[u].state = "running"
      <3>1. Holds(h)
        BY <1>3, <2>1
      <3>2. CASE h = g /\ u = s
        BY <1>4, <2>1, <3>2
      <3>3. CASE h # g \/ u # s
        <4>1. step[u].state = "running"
          BY <1>0, <2>1, <3>1, <3>3 DEF StepInv
        <4>2. step'[u] = step[u]
          BY <1>0, <1>3, <1>4, <3>1, <3>3
        <4> QED BY <4>1, <4>2
      <3> QED BY <3>2, <3>3
    <2>2. ASSUME exec.pc = "user", Holds(exec.gen)'
          PROVE  /\ \A u \in Steps :
                      branch'[exec.gen][u].pc \in {"done", "failed"} => Recorded(u)'
                 /\ \A i \in DOMAIN Phases :
                      i < exec.phase => \A u \in Phases[i] : Recorded(u)'
      <3>1. exec.gen \in Gens /\ Holds(exec.gen)
        BY <1>0, <1>3, <2>2
      <3>2. /\ \A u \in Steps : branch[exec.gen][u].pc \in {"done", "failed"} => Recorded(u)
            /\ \A i \in DOMAIN Phases : i < exec.phase => \A u \in Phases[i] : Recorded(u)
        BY <2>2, <3>1 DEF StepInv
      <3> QED BY <1>0, <1>4, <3>1, <3>2
    <2> QED BY <1>0, <2>1, <2>2 DEF StepInv
  <1>6. ASSUME AttemptInv PROVE AttemptInv'
    <2>1. ASSUME exec.pc \in {"starting", "oom"}
          PROVE  Claimed' /\ \A u \in Steps : branch'[exec.gen][u] = branch[exec.gen][u]
      <3>1. exec.gen \in Gens /\ Claimed /\ g # exec.gen
        BY <1>0, <1>6, <2>1 DEF ExecInv, AttemptInv
      <3>2. row' = row
        BY <1>2, <3>1 DEF Claimed, Holds
      <3> QED BY <1>0, <3>1, <3>2 DEF Claimed
    <2>2. ASSUME exec.pc = "user"
          PROVE  Claimed' \/ \E u \in Steps : branch'[exec.gen][u].pc = "suspended"
      <3>1. CASE \E u \in Steps : branch[exec.gen][u].pc = "suspended"
        BY <1>0, <2>2, <3>1
      <3>2. CASE Claimed
        BY <1>0, <1>2, <2>2, <3>2 DEF Claimed, Holds, Live
      <3> QED BY <1>6, <2>2, <3>1, <3>2 DEF AttemptInv
    <2>3. ASSUME exec.pc = "user", NEW u \in Steps
          PROVE  /\ branch'[exec.gen][u].pc # "none" => branch[exec.gen][u].pc # "none"
                 /\ branch'[exec.gen][u].pc = "oom" =>
                      u \in Heavy \/ branch[exec.gen][u].pc = "oom"
      BY <1>0, <1>4, <2>3
    <2> QED BY <1>0, <1>6, <2>1, <2>2, <2>3 DEF AttemptInv
  <1> QED BY <1>1, <1>5, <1>6

Keeps == ExecInv' /\ StepInv' /\ (HeavyAlone /\ AttemptInv => AttemptInv')
InvokesNone ==
    \A g \in Gens, s \in Steps : branch'[g][s].pc = "callback" => branch[g][s].pc = "callback"

LEMMA PassesKeepAll == ExecInv /\ StepInv /\ Passes => Keeps /\ InvokesNone
  <1>1. ExecPasses => InvokesNone
    BY DEF ExecPasses, InvokesNone, NoBranch
  <1> QED BY <1>1, PassesKeep DEF Passes, Keeps

\* The definition is called, awaits its next steps, or catches what one raised.
LEMMA DefinitionKeeps ==
    ASSUME TypeOK, ExecInv, StepInv,
           \/ Start /\ Holds(exec.gen)
           \/ NextPhase
           \/ \E s \in Steps : Catch(s)
    PROVE  Keeps /\ InvokesNone
  <1>0. /\ exec.gen \in Gens /\ BranchType /\ UNCHANGED <<row, step>>
        /\ exec'.gen = exec.gen /\ exec'.pc = "user"
        /\ exec.phase \in 0..Len(Phases)
    BY DEF ExecInv, TypeOK, BranchType, Start, NextPhase, Catch, durable
  <1>t. /\ DOMAIN Phases = 1..Len(Phases) /\ Len(Phases) \in Nat
        /\ \A i \in DOMAIN Phases : \A u \in Phases[i] : u \in Steps
    BY TasksAssumption
  <1>r. /\ \A u \in Steps : Recorded(u)' <=> Recorded(u)
        /\ \A h \in Gens : Holds(h)' <=> Holds(h)
        /\ Claimed' <=> Claimed
    BY <1>0 DEF Recorded, Holds, Claimed
  <1>1. CASE Start /\ Holds(exec.gen)
    <2>1. /\ branch' = branch /\ exec'.phase = 0
          /\ \A u \in Steps : branch[exec.gen][u].pc = "none"
      BY <1>1 DEF Start, ExecInv, TypeOK
    <2>2. ExecInv' /\ InvokesNone
      BY <1>0, <2>1 DEF ExecInv, InvokesNone
    <2>3. StepInv'
      BY <1>0, <1>r, <1>t, <2>1 DEF StepInv
    <2>4. AttemptInv'
      BY <1>0, <1>1, <1>r, <2>1 DEF AttemptInv, Claimed, Holds
    <2> QED BY <2>2, <2>3, <2>4 DEF Keeps
  <1>2. CASE NextPhase
    <2>0. exec.pc = "user" /\ exec'.phase = exec.phase + 1 /\ exec'.phase \in DOMAIN Phases
      BY <1>0, <1>2, <1>t DEF NextPhase, TypeOK
    <2>1. /\ \A h \in Gens, u \in Steps : h # exec.gen => branch'[h][u] = branch[h][u]
          /\ \A u \in Steps :
               /\ branch'[exec.gen][u].pc \in {"ready", "none"}
               /\ branch'[exec.gen][u].pc # "none" => u \in Phases[exec'.phase]
      BY <1>0, <1>2, <2>0 DEF NextPhase, BranchType, NoBranch
    <2>2. exec.phase > 0 => \A u \in Phases[exec.phase] : branch[exec.gen][u].pc = "done"
      BY <1>2 DEF NextPhase
    <2>3. ExecInv' /\ InvokesNone
      BY <1>0, <2>1 DEF ExecInv, InvokesNone
    <2>4. StepInv'
      <3>1. ASSUME Holds(exec.gen), NEW i \in DOMAIN Phases, i < exec'.phase, NEW u \in Phases[i]
            PROVE  Recorded(u)
        <4>1. CASE i < exec.phase
          BY <2>0, <3>1, <4>1 DEF StepInv
        <4>2. CASE i = exec.phase
          BY <1>t, <2>0, <2>2, <3>1, <4>2 DEF StepInv
        <4> QED BY <1>0, <1>t, <2>0, <3>1, <4>1, <4>2
      <3> QED BY <1>0, <1>r, <1>t, <2>1, <3>1 DEF StepInv
    <2>5. ASSUME AttemptInv PROVE AttemptInv'
      <3>1. Claimed
        BY <1>0, <1>t, <2>0, <2>2, <2>5 DEF AttemptInv
      <3> QED BY <1>0, <1>r, <2>0, <2>1, <3>1 DEF AttemptInv
    <2> QED BY <2>3, <2>4, <2>5 DEF Keeps
  <1>3. ASSUME NEW s \in Steps, Catch(s) PROVE Keeps /\ InvokesNone
    <2>0. exec' = exec /\ exec.pc = "user" /\ branch[exec.gen][s].pc = "failed"
      BY <1>3 DEF Catch
    <2>1. OthersStay(exec.gen, s) /\ branch'[exec.gen][s].pc = "done"
      BY <1>0, <1>3, GoesStep DEF Catch, BranchPcs, Over
    <2>2. ExecInv' /\ InvokesNone
      BY <1>0, <2>0, <2>1 DEF ExecInv, InvokesNone, OthersStay
    <2>3. StepInv'
      BY <1>0, <1>r, <1>t, <2>0, <2>1 DEF StepInv, OthersStay
    <2>4. ASSUME AttemptInv PROVE AttemptInv'
      BY <1>0, <1>r, <2>0, <2>1, <2>4 DEF AttemptInv, OthersStay
    <2> QED BY <2>2, <2>3, <2>4 DEF Keeps
  <1> QED BY <1>1, <1>2, <1>3

\* An attempt whose memory is exhausted awaited that step alone, so that it still has
\* its claim, and none of its steps goes on.
LEMMA MemoryExhaustedKeeps ==
    ASSUME TypeOK, ExecInv, StepInv, NEW s \in Steps, Raise(s),
           branch[exec.gen][s].pc = "oom", row' = row, Turns("oom")
    PROVE  Keeps /\ InvokesNone
  <1>0. /\ exec.gen \in Gens /\ BranchType /\ UNCHANGED <<row, step>>
        /\ exec.pc = "user" /\ exec'.gen = exec.gen /\ exec'.pc = "oom"
    BY DEF ExecInv, TypeOK, BranchType, Turns, Raise
  <1>1. \A h \in Gens, u \in Steps : branch'[h][u] \in {branch[h][u], NoBranch}
    BY <1>0, OrphansStep DEF Raise
  <1>2. \A u \in Steps : branch'[exec.gen][u].pc \in {branch[exec.gen][u].pc, "none"}
                         /\ (branch[exec.gen][u].pc \in Over => branch'[exec.gen][u].pc = "none")
    BY <1>0 DEF Raise, Orphans, BranchType, NoBranch
  <1>3. ExecInv' /\ InvokesNone
    BY <1>0, <1>1 DEF ExecInv, InvokesNone, NoBranch
  <1>4. StepInv'
    BY <1>0, <1>1 DEF StepInv, Holds, NoBranch
  <1>5. ASSUME HeavyAlone, AttemptInv PROVE AttemptInv'
    <2>1. exec.phase \in DOMAIN Phases /\ Phases[exec.phase] = {s}
      BY <1>0, <1>5 DEF AttemptInv, HeavyAlone
    <2>2. \A u \in Steps : u # s => branch[exec.gen][u].pc = "none"
      BY <1>0, <1>5, <2>1 DEF AttemptInv
    <2>3. Claimed'
      BY <1>0, <1>5, <2>2 DEF AttemptInv, Claimed
    <2>4. \A u \in Steps : branch'[exec.gen][u].pc = "none"
      BY <1>2, <2>2 DEF Over, Raised
    <2> QED BY <1>0, <2>3, <2>4 DEF AttemptInv
  <1> QED BY <1>3, <1>4, <1>5 DEF Keeps

\* The attempt's own steps.
LEMMA AttemptKeeps ==
    ASSUME TypeOK, ExecInv, StepInv, Attempt
    PROVE  Keeps /\ InvokesNone
  <1>0. /\ exec.pc \in {"starting", "user", "oom"} => exec.gen \in Gens
        /\ exec.pc \in {"new", "found"} => exec.gen = NoGen
    BY DEF ExecInv
  <1>p. Passes => Keeps /\ InvokesNone
    BY PassesKeepAll
  <1>n. branch' = branch => \A h \in Gens, u \in Steps : branch'[h][u] \in {branch[h][u], NoBranch}
    OBVIOUS
  <1>o. exec.gen \in Gens /\ Orphans(exec.gen) =>
          \A h \in Gens, u \in Steps : branch'[h][u] \in {branch[h][u], NoBranch}
    BY OrphansStep DEF TypeOK, BranchType
  <1>c. Claims /\ IsOpen(row) /\ UNCHANGED <<step, branch>> => Keeps /\ InvokesNone
    BY ClaimsKeep DEF Keeps, InvokesNone
  <1>1. CASE Begin
    <2>0. exec.pc = "new" /\ UNCHANGED <<step, branch>>
      BY <1>1 DEF Begin
    <2>1. CASE Claims /\ IsOpen(row)
      BY <1>c, <2>0, <2>1
    <2>2. CASE row' = row /\ Finish("done")
      BY <1>n, <1>p, <2>0, <2>2, EndsPass
    <2>3. CASE row' = row /\ Turns("found")
      <3>1. exec'.pc = "found" /\ exec'.gen = NoGen
        BY <1>0, <2>0, <2>3 DEF Turns, TypeOK
      <3> QED BY <1>n, <1>p, <2>0, <2>3, <3>1, RowsPass DEF Passes, ExecPasses
    <2>4. CASE /\ IsOpen(row) /\ Turns("settled")
               /\ row' = EndedCancelled \/ row' = Ended("failed")
      BY <1>n, <1>p, <2>0, <2>4, EndsPass DEF IsOpen, Terminal
    <2> QED BY <1>1, <2>1, <2>2, <2>3, <2>4, BeginCases
  <1>2. CASE ClaimInterrupted
    <2>0. UNCHANGED <<step, branch>>
      BY <1>2 DEF ClaimInterrupted
    <2>1. CASE Claims /\ IsOpen(row)
      BY <1>c, <2>0, <2>1
    <2>2. CASE row' = row /\ Finish("done")
      BY <1>n, <1>p, <2>0, <2>2, EndsPass
    <2> QED BY <1>2, <2>1, <2>2 DEF ClaimInterrupted
  <1>3. CASE Start
    <2>1. CASE ~Holds(exec.gen)
      BY <1>3, <1>n, <1>p, <2>1, EndsPass DEF Start
    <2> QED BY <1>3, <2>1, DefinitionKeeps
  <1>4. ASSUME NEW how \in {"completed", "failed"}, Return(how) PROVE Keeps /\ InvokesNone
    <2>0. /\ step' = step
          /\ \A h \in Gens, u \in Steps : branch'[h][u] \in {branch[h][u], NoBranch}
      BY <1>0, <1>4, <1>o DEF Return
    <2>1. CASE Holds(exec.gen)
      BY <1>4, <1>p, <2>0, <2>1, EndsPass DEF Return, Holds, Terminal
    <2>2. CASE ~Holds(exec.gen)
      BY <1>4, <1>p, <2>0, <2>2, EndsPass DEF Return
    <2> QED BY <2>1, <2>2
  <1>5. ASSUME NEW s \in Steps, Raise(s) PROVE Keeps /\ InvokesNone
    <2>0. /\ step' = step
          /\ \A h \in Gens, u \in Steps : branch'[h][u] \in {branch[h][u], NoBranch}
      BY <1>0, <1>5, <1>o DEF Raise
    <2>1. CASE \E result \in {"done", "raised"} : row' = row /\ Finish(result)
      BY <1>p, <2>0, <2>1, EndsPass
    <2>2. CASE SettleRequested(exec.gen) \/ SettleCancelled(exec.gen)
      BY <1>p, <2>0, <2>2, EndsPass
    <2>3. CASE Holds(exec.gen) /\ row' = Ended("failed") /\ Turns("settled")
      BY <1>p, <2>0, <2>3, EndsPass DEF Holds, Terminal
    <2> QED BY <1>5, <2>1, <2>2, <2>3, RaiseCases, MemoryExhaustedKeeps
  <1>6. CASE CleanUp
    <2>1. RowPasses
      BY <1>6, RowsPass DEF CleanUp, Cleaned
    <2>2. ExecPasses
      BY <1>6, <1>n DEF CleanUp, Finish, ExecPasses, NoExec
    <2> QED BY <1>p, <2>1, <2>2 DEF Passes
  <1> QED BY <1>1, <1>2, <1>3, <1>4, <1>5, <1>6, DefinitionKeeps DEF Attempt

\* The callers, the alarm, the breaker, evictions and the clock.
LEMMA WorldKeeps ==
    ASSUME TypeOK, ExecInv, StepInv, Next, ~Attempt,
           ~\E g \in Gens, s \in Steps : StepCall(g, s) \/ Callback(g, s)
    PROVE  Keeps /\ InvokesNone
  <1> SUFFICES Passes
    BY PassesKeepAll
  <1>0. /\ exec.pc \in {"none", "new", "found"} => exec.gen = NoGen
        /\ \A h \in Gens : h # NoGen
        /\ [exec EXCEPT !.pc = "new"].pc = "new" /\ [exec EXCEPT !.pc = "new"].gen = exec.gen
        /\ [exec EXCEPT !.pc = "settled"].pc = "settled"
        /\ NoExec.pc = "none" /\ NoExec.gen = NoGen
        /\ IsOpen(row) \/ IsTerminal(row) => row # NoRow
        /\ row # NoRow => row \in Rows
    BY TasksAssumption DEF ExecInv, TypeOK, Gens, NoGen, NoExec, IsOpen, IsTerminal
  \* What is left to be shown of the row, and of the attempt.
  <1>e. branch' = branch =>
          /\ exec' = [exec EXCEPT !.pc = "new"] /\ exec.pc = "none" => ExecPasses
          /\ exec' = [exec EXCEPT !.pc = "settled"] => ExecPasses
          /\ exec' = NoExec => ExecPasses
          /\ exec' = exec /\ (exec.gen \in Gens /\ Claimed => Claimed') => ExecPasses
    BY <1>0 DEF ExecPasses
  <1>r. row' = row => (Claimed /\ exec' = exec => Claimed')
    BY DEF Claimed
  <1>t. \A t \in Nat \cup {NoTime} : row # NoRow /\ row' = [row EXCEPT !.next = t] =>
             (Claimed /\ exec' = exec => Claimed')
    <2>1. \A t \in Nat \cup {NoTime} : row # NoRow =>
             /\ [row EXCEPT !.next = t] \in Rows
             /\ [row EXCEPT !.next = t].state = row.state
             /\ [row EXCEPT !.next = t].gen = row.gen
      BY <1>0 DEF Rows
    <2> QED BY <2>1, TasksAssumption DEF Claimed
  <1>u. IsTerminal(row) \/ row = NoRow => ~Claimed
    BY DEF Claimed, IsTerminal, Terminal
  <1>1. ASSUME NEW retain \in Retains, Accept(retain) PROVE Passes
    <2>1. RowPasses
      BY <1>1 DEF Accept, RowPasses, Holds
    <2>2. ExecPasses
      BY <1>1, <1>e, <1>u DEF Accept, others
    <2> QED BY <2>1, <2>2 DEF Passes
  <1>2. CASE Join
    BY <1>2, <1>e, <1>r, RowsPass DEF Join, others, Passes
  <1>3. CASE Submit
    BY <1>3, <1>e, RowsPass DEF Submit, durable, Passes
  <1>4. CASE Cancel
    <2>0. step' = step /\ exec' = exec /\ branch' = branch
      BY <1>4 DEF Cancel, others
    <2>1. CASE row' = row
      BY <1>e, <1>r, <2>0, <2>1, RowsPass DEF Passes
    <2>2. CASE IsOpen(row) /\ row' = [row EXCEPT !.cancel = TRUE, !.next = 0]
      <3>1. row' \in Rows /\ row'.state = row.state /\ row'.gen = row.gen
        BY <1>0, <2>2 DEF Rows
      <3>2. Claimed => Claimed'
        BY <2>0, <3>1, TasksAssumption DEF Claimed
      <3> QED BY <1>0, <1>e, <2>0, <2>2, <3>2, RowsPass DEF Passes
    <2>3. CASE /\ IsOpen(row) /\ (row.gen = NoGen \/ exec.gen # row.gen)
               /\ row' = EndedCancelled
      <3>1. ~(exec.gen \in Gens /\ Claimed)
        BY <1>0, <2>3 DEF Claimed
      <3> QED BY <1>0, <1>e, <2>0, <2>3, <3>1, RowsPass DEF Passes
    <2> QED BY <1>4, <2>1, <2>2, <2>3, CancelCases
  <1>5. CASE Delete
    BY <1>5, <1>e, <1>u, RowsPass DEF Delete, others, Passes
  <1>6. ASSUME Cleaned, UNCHANGED <<exec, branch>> PROVE Passes
    <2>1. CASE DropsUnretained
      BY <1>6, <1>e, <1>u, <2>1, RowsPass DEF Cleaned, DropsUnretained, Passes
    <2>2. CASE ~DropsUnretained
      BY <1>6, <1>e, <1>r, <2>2, RowsPass DEF Cleaned, Passes
    <2> QED BY <2>1, <2>2
  <1>7. CASE CallerCleansUp
    <2>1. CASE caller = "cancelled"
      BY <1>6, <1>7, <2>1 DEF CallerCleansUp, others
    <2>2. CASE caller # "cancelled"
      BY <1>7, <1>e, <1>r, <2>2, RowsPass DEF CallerCleansUp, others, Passes
    <2> QED BY <2>1, <2>2
  <1>8. ASSUME NEW written, Dispatches(written), UNCHANGED <<row, step, branch>> PROVE Passes
    <2>1. exec' = exec \/ (exec' = [exec EXCEPT !.pc = "new"] /\ exec.pc = "none")
      BY <1>8 DEF Dispatches
    <2> QED BY <1>8, <1>e, <1>r, <2>1, RowsPass DEF Passes
  <1>9. CASE AlarmFires
    <2>1. CASE /\ row # NoRow /\ row' = [row EXCEPT !.next = ClaimTimeout]
               /\ UNCHANGED exec
      BY <1>9, <1>e, <1>t, <2>1, RowsPass, TasksAssumption DEF AlarmFires, Passes
    <2>2. CASE Dispatches(FALSE) /\ UNCHANGED row
      BY <1>8, <1>9, <2>2 DEF AlarmFires
    <2> QED BY <1>9, <2>1, <2>2 DEF AlarmFires
  <1>10. CASE AlarmJoins
    BY <1>8, <1>10 DEF AlarmJoins
  <1>11. CASE AlarmReturns
    BY <1>11, <1>e, <1>r, RowsPass DEF AlarmReturns, Passes
  <1>12. CASE AlarmHandsOff
    BY <1>12, <1>e, <1>r, RowsPass DEF AlarmHandsOff, Passes
  <1>13. CASE HandoffRefused
    <2>1. \A g \in Gens, s \in Steps : branch'[g][s] \in {branch[g][s], NoBranch}
      BY <1>13 DEF HandoffRefused, TypeOK
    <2> QED BY <1>0, <1>13, <2>1, RowsPass DEF HandoffRefused, durable, Passes, ExecPasses
  <1>14. ASSUME NEW sealed \in BOOLEAN, MemoryLimit(sealed) PROVE Passes
    <2>0. UNCHANGED <<step, branch>>
      BY <1>14 DEF MemoryLimit
    <2>1. CASE UNCHANGED <<row, exec>>
      BY <1>e, <1>r, <2>0, <2>1, RowsPass DEF Passes
    <2>2. CASE /\ IsOpen(row) /\ exec' = [exec EXCEPT !.pc = "settled"]
               /\ row' = EndedCancelled \/ row' = Ended("failed")
      BY <1>0, <1>e, <2>0, <2>2, RowsPass DEF Passes, Terminal
    <2>3. CASE IsOpen(row) /\ row' = Backed /\ exec' = NoExec
      BY <1>0, <1>e, <2>0, <2>3, RowsPass DEF Passes
    <2> QED BY <1>14, <2>1, <2>2, <2>3, MemoryLimitCases
  <1>15. CASE Crash \/ Reset
    BY <1>0, <1>15, RowsPass DEF Crash, Reset, Forget, durable, Passes, ExecPasses
  <1>16. CASE Reconcile
    <2>1. row' = row \/ (row # NoRow /\ row' = [row EXCEPT !.next = 0])
      BY <1>16 DEF Reconcile
    <2> QED BY <1>16, <1>e, <1>r, <1>t, <2>1, RowsPass DEF Reconcile, Passes
  <1>17. CASE Repair
    BY <1>6, <1>17 DEF Repair
  <1>18. CASE Tick
    <2>1. \A s \in Steps : step'[s].state = step[s].state
      BY <1>18 DEF Tick, TypeOK
    <2>2. CASE row = NoRow
      BY <1>18, <1>e, <1>r, <2>1, <2>2 DEF Tick, world, Passes, RowPasses, Holds
    <2>3. CASE row # NoRow
      <3>1. row' = [row EXCEPT !.next = Later(row.next)] /\ Later(row.next) \in Nat \cup {NoTime}
        BY <1>0, <1>18, <2>3 DEF Tick, Later, Rows
      <3>2. Claimed => Claimed'
        BY <1>18, <1>t, <2>3, <3>1 DEF Tick
      <3>3. \A g \in Gens : Holds(g)' => Holds(g)
        BY <1>0, <2>3, <3>1 DEF Holds, Rows
      <3> QED BY <1>18, <1>e, <2>1, <3>2, <3>3 DEF Tick, Passes, RowPasses
    <2> QED BY <2>2, <2>3
  <1> QED
    BY <1>1, <1>2, <1>3, <1>4, <1>5, <1>7, <1>9, <1>10, <1>11, <1>12, <1>13, <1>14,
       <1>15, <1>16, <1>17, <1>18 DEF Next, Alarm, Client, Breaker

-----------------------------------------------------------------------------
(* Every step is one of the journal.                                       *)

LEMMA CallsAreJournaled ==
    ASSUME TypeOK, NEW g \in Gens, NEW s \in Steps, CallMove(g, s)
    PROVE  JournalMoves
  <1>1. CASE UNCHANGED <<row, step>>
    BY <1>1, RowsMove DEF Results, Recorded
  <1>2. CASE /\ UNCHANGED row /\ Holds(g) /\ ~Recorded(s) /\ Recorded(s)'
             /\ \A u \in Steps : u # s => step'[u] = step[u]
    <2>1. /\ Results' = [Results EXCEPT ![s] = step'[s].state]
          /\ step'[s].state \in {"completed", "failed"}
      BY <1>2 DEF Results, Recorded
    <2>2. Life = "open" /\ HasClaim /\ Life' = Life /\ HasClaim' = HasClaim
      BY <1>2, LifeIs DEF Life, HasClaim, IsTerminal
    <2> QED BY <1>2, <2>1, <2>2 DEF JournalMoves
  <1>3. CASE /\ Holds(g) /\ ~Recorded(s) /\ ~Recorded(s)'
             /\ \A u \in Steps : u # s => step'[u] = step[u]
             /\ \E t \in Nat : row' = Parked(t) \/ row' = [row EXCEPT !.next = t]
    <2>1. Results' = Results
      BY <1>3 DEF Results, Recorded
    <2> QED BY <1>3, <2>1, RowsMove, LifeIs
  <1>4. step'[s].state = "running" => ~Recorded(s)'
    BY DEF Recorded
  <1>5. \/ UNCHANGED <<row, step>>
        \/ UNCHANGED row /\ Holds(g) /\ ~Recorded(s) /\ Recorded(s)'
        \/ /\ Holds(g) /\ ~Recorded(s) /\ ~Recorded(s)'
           /\ \E t \in Nat : row' = Parked(t) \/ row' = [row EXCEPT !.next = t]
    BY <1>4, TasksAssumption DEF CallMove
  <1>6. \A u \in Steps : u # s => step'[u] = step[u]
    BY DEF CallMove
  <1> QED BY <1>1, <1>2, <1>3, <1>5, <1>6

\* An attempt whose definition returned has every step of it recorded.
LEMMA ReturnsWhenRecorded ==
    ASSUME TypeOK, StepInv, NEW how \in {"completed", "failed"}, Return(how), Holds(exec.gen)
    PROVE  \A s \in Steps : Recorded(s)
  <1>0. Len(Phases) \in Nat /\ DOMAIN Phases = 1..Len(Phases)
    BY TasksAssumption
  <1>1. exec.pc = "user" /\ exec.phase = Len(Phases)
    BY DEF Return
  <1>2. \A i \in DOMAIN Phases : i = exec.phase =>
          \A s \in Phases[i] : branch[exec.gen][s].pc = "done"
    BY <1>0, <1>1 DEF Return
  <1>3. ASSUME NEW s \in Steps PROVE Recorded(s)
    <2>1. PICK i \in DOMAIN Phases : s \in Phases[i]
      BY TasksAssumption
    <2>2. i < exec.phase \/ i = exec.phase
      BY <1>0, <1>1
    <2> QED BY <1>1, <1>2, <2>1, <2>2 DEF StepInv
  <1> QED BY <1>3

\* A claim of an open run, a row that is deleted, and one that is looked at later.
LEMMA JournalWrites ==
    ASSUME TypeOK
    PROVE  /\ Claims /\ IsOpen(row) /\ ~row.cancel /\ step' = step => JournalMoves
           /\ IsTerminal(row) /\ row' = NoRow /\ step' = [s \in Steps |-> NoStep] => JournalMoves
           /\ \A t \in Nat \cup {NoTime} : /\ row # NoRow /\ row' = [row EXCEPT !.next = t]
                                          /\ Results' = Results
                                          => JournalMoves
  <1>1. ASSUME Claims, IsOpen(row), ~row.cancel, step' = step PROVE JournalMoves
    <2>1. /\ exec'.gen \in Gens
          /\ row' = [row EXCEPT !.state = "running", !.gen = exec'.gen, !.memory = FALSE,
                                !.next = ClaimTimeout]
      BY <1>1, ClaimTypes DEF Unused
    <2>2. row \in Rows /\ Life = "open"
      BY <1>1, LifeIs DEF IsOpen, TypeOK
    <2>3. row' \in Rows /\ row'.state = "running" /\ row'.cancel = row.cancel
      BY <2>1, <2>2, TasksAssumption DEF Rows, Open
    <2>4. Life' = "open"
      BY <1>1, <2>3, TasksAssumption DEF Life, IsTerminal, Terminal
    <2>5. Results' = Results
      BY <1>1 DEF Results, Recorded
    <2> QED BY <2>2, <2>4, <2>5 DEF JournalMoves
  <1>2. ASSUME IsTerminal(row), row' = NoRow, step' = [s \in Steps |-> NoStep] PROVE JournalMoves
    <2>1. Life \in Terminal /\ ~HasClaim /\ Life' = "none" /\ ~HasClaim'
      BY <1>2, LifeIs DEF Life, HasClaim
    <2>2. Results' = [s \in Steps |-> "none"]
      BY <1>2 DEF Results, Recorded, NoStep
    <2> QED BY <2>1, <2>2 DEF JournalMoves, HasClaim
  <1>3. ASSUME NEW t \in Nat \cup {NoTime}, row # NoRow, row' = [row EXCEPT !.next = t],
               Results' = Results
        PROVE  JournalMoves
    <2>1. row \in Rows /\ row' \in Rows
      BY <1>3 DEF TypeOK, Rows
    <2>2. row'.state = row.state /\ row'.gen = row.gen /\ row'.cancel = row.cancel
      BY <1>3, <2>1 DEF Rows
    <2>3. Life' = Life /\ HasClaim' = HasClaim
      BY <1>3, <2>1, <2>2, TasksAssumption DEF Life, HasClaim, IsTerminal
    <2> QED BY <1>3, <2>3 DEF JournalMoves
  <1> QED BY <1>1, <1>2, <1>3

LEMMA JournalStep == TypeOK /\ ExecInv /\ StepInv /\ [Next]_vars => JournalMoves
  <1> SUFFICES ASSUME TypeOK, ExecInv, StepInv, [Next]_vars PROVE JournalMoves
    OBVIOUS
  <1>0. /\ exec.pc \in {"starting", "user", "oom"} => exec.gen \in Gens
        /\ IsOpen(row) \/ IsTerminal(row) => row # NoRow
        /\ \A g : Holds(g) => IsOpen(row) /\ ~row.cancel
        /\ row # NoRow /\ row.state = "running" => IsOpen(row)
    BY DEF ExecInv, IsOpen, IsTerminal, Holds, Open
  <1>s. step' = step => Results' = Results
    BY DEF Results, Recorded
  <1>n. UNCHANGED <<row, step>> => JournalMoves
    BY <1>s, RowsMove
  <1>e. /\ step' = step /\ IsOpen(row) /\ row' = EndedCancelled => JournalMoves
        /\ step' = step /\ IsOpen(row) /\ ~row.cancel /\ row' = Ended("failed") => JournalMoves
    BY <1>s, RowsMove
  <1>r. ASSUME NEW g \in Gens, SettleRequested(g) \/ SettleCancelled(g), step' = step
        PROVE  JournalMoves
    <2>1. \/ row' = row
          \/ row # NoRow /\ row.state = "running" /\ row' = EndedCancelled
      BY <1>r DEF SettleRequested, SettleCancelled
    <2> QED BY <1>0, <1>e, <1>n, <1>r, <2>1
  <1>c. Cleaned => JournalMoves
    BY <1>n, JournalWrites DEF Cleaned, DropsUnretained
  <1>1. CASE Begin
    BY <1>1, <1>e, <1>n, BeginCases, JournalWrites
  <1>2. CASE ClaimInterrupted
    BY <1>2, <1>n, JournalWrites DEF ClaimInterrupted
  <1>3. CASE Start
    BY <1>3, <1>0, <1>n, <1>r DEF Start
  <1>4. ASSUME NEW how \in {"completed", "failed"}, Return(how) PROVE JournalMoves
    <2>1. CASE Holds(exec.gen)
      <3>1. step' = step /\ row' = Ended(how) /\ exec.gen \in Gens
        BY <1>0, <1>4, <2>1 DEF Return
      <3>2. CASE how = "failed"
        BY <1>0, <1>e, <2>1, <3>1, <3>2
      <3>3. CASE how = "completed"
        BY <1>4, <1>s, <2>1, <3>1, <3>3, RowsMove, ReturnsWhenRecorded
      <3> QED BY <3>2, <3>3
    <2>2. CASE ~Holds(exec.gen)
      BY <1>0, <1>4, <1>r, <2>2 DEF Return
    <2> QED BY <2>1, <2>2
  <1>5. ASSUME NEW s \in Steps, Raise(s) PROVE JournalMoves
    <2>1. step' = step /\ exec.gen \in Gens
      BY <1>0, <1>5 DEF Raise
    <2> QED BY <1>0, <1>5, <1>e, <1>n, <1>r, <2>1, RaiseCases
  <1>6. CASE CleanUp
    BY <1>6, <1>c DEF CleanUp
  <1>7. ASSUME NEW retain \in Retains, Accept(retain) PROVE JournalMoves
    <2>1. /\ row' # NoRow /\ row'.state = "pending" /\ row'.gen = NoGen /\ ~row'.cancel
          /\ Results' = Results /\ row = NoRow
      <3>1. row' \in Rows
        BY <1>7, TasksAssumption DEF Accept, Rows, Open
      <3> QED BY <1>7, <1>s, <3>1, TasksAssumption DEF Accept
    <2>2. Life = "none" /\ Life' = "open" /\ HasClaim' = HasClaim
      BY <2>1 DEF Life, HasClaim, IsTerminal, Terminal
    <2> QED BY <2>1, <2>2 DEF JournalMoves
  <1>8. CASE Cancel
    BY <1>8, <1>e, <1>n, <1>s, CancelCases, RowsMove DEF Cancel
  <1>9. CASE Delete
    BY <1>9, JournalWrites DEF Delete
  <1>10. CASE CallerCleansUp
    BY <1>10, <1>c, <1>n DEF CallerCleansUp
  <1>11. CASE AlarmFires
    <2>1. step' = step /\ ClaimTimeout \in Nat
      BY <1>11, TasksAssumption DEF AlarmFires
    <2> QED BY <1>11, <1>n, <1>s, <2>1, JournalWrites DEF AlarmFires
  <1>12. ASSUME NEW sealed \in BOOLEAN, MemoryLimit(sealed) PROVE JournalMoves
    <2>1. step' = step
      BY <1>12 DEF MemoryLimit
    <2> QED BY <1>12, <1>e, <1>n, <1>s, <2>1, MemoryLimitCases, RowsMove
  <1>13. CASE Reconcile
    <2>1. row' = row \/ (row # NoRow /\ row' = [row EXCEPT !.next = 0])
      BY <1>13 DEF Reconcile
    <2> QED BY <1>13, <1>n, <1>s, <2>1, JournalWrites DEF Reconcile
  <1>14. CASE Repair
    BY <1>14, <1>c DEF Repair
  <1>15. CASE Tick
    <2>1. Results' = Results
      BY <1>15 DEF Tick, Results, Recorded, TypeOK
    <2>2. CASE row = NoRow
      BY <1>15, <2>1, <2>2, RowsMove DEF Tick
    <2>3. CASE row # NoRow
      <3>1. row' = [row EXCEPT !.next = Later(row.next)] /\ Later(row.next) \in Nat \cup {NoTime}
        BY <1>15, <2>3 DEF Tick, Later, TypeOK, Rows
      <3> QED BY <2>1, <2>3, <3>1, JournalWrites
    <2> QED BY <2>2, <2>3
  <1>16. ASSUME NEW g \in Gens, NEW s \in Steps, StepCall(g, s) \/ Callback(g, s)
         PROVE  JournalMoves
    BY <1>16, CallsMove, CallsAreJournaled
  \* The others leave the row and its steps alone.
  <1>17. CASE \/ NextPhase \/ Join \/ Submit \/ AlarmJoins \/ AlarmReturns \/ AlarmHandsOff
              \/ HandoffRefused \/ Crash \/ Reset \/ UNCHANGED vars
              \/ \E s \in Steps : Catch(s)
    BY <1>17, <1>n DEF NextPhase, Join, Submit, AlarmJoins, AlarmReturns, AlarmHandsOff,
                       HandoffRefused, Crash, Reset, Forget, Catch, durable, vars
  <1> QED
    BY <1>1, <1>2, <1>3, <1>4, <1>5, <1>6, <1>7, <1>8, <1>9, <1>10, <1>11, <1>12, <1>13,
       <1>14, <1>15, <1>16, <1>17 DEF Next, Attempt, Alarm, Client, Breaker

-----------------------------------------------------------------------------
(* The wake follows every write of the row.                                *)

LEMMA Wakes ==
    ASSUME TypeOK, TypeOK', OpenRunsAreWoken
    PROVE  /\ SyncWake => OpenRunsAreWoken'
           /\ job' = Deadline(row') => OpenRunsAreWoken'
           /\ UNCHANGED <<row, job>> /\ (up' = "ready" => up = "ready") => OpenRunsAreWoken'
           /\ ~IsOpen(row') => OpenRunsAreWoken'
           /\ row # NoRow => /\ ~IsOpen(EndedCancelled)
                             /\ \A state \in Terminal : ~IsOpen(Ended(state))
  <1>1. IsOpen(row') => row'.next \in Nat
    BY DEF TypeOK, IsOpen, Rows, RowOK, IsTerminal, Open, Terminal
  <1>2. job' = Deadline(row') => OpenRunsAreWoken'
    BY <1>1, TasksAssumption DEF Deadline, OpenRunsAreWoken
  <1>3. SyncWake => OpenRunsAreWoken'
    BY <1>2 DEF SyncWake
  <1>4. UNCHANGED <<row, job>> /\ (up' = "ready" => up = "ready") => OpenRunsAreWoken'
    BY DEF OpenRunsAreWoken
  <1>5. ~IsOpen(row') => OpenRunsAreWoken'
    BY DEF OpenRunsAreWoken
  <1>6. row # NoRow => /\ ~IsOpen(EndedCancelled)
                       /\ \A state \in Terminal : ~IsOpen(Ended(state))
    BY DEF TypeOK, Rows, EndedCancelled, Ended, IsOpen, Open, Terminal
  <1> QED BY <1>2, <1>3, <1>4, <1>5, <1>6

\* A job row is left, or written with the deadline of the run.
LEMMA WokenStep ==
    ASSUME TypeOK, TypeOK', ExecInv, AttemptInv, OpenRunsAreWoken, [Next]_vars
    PROVE  OpenRunsAreWoken'
  <1>0. /\ exec.pc \in {"starting", "user", "oom"} => exec.gen \in Gens
        /\ \A g : Holds(g) => row # NoRow
        /\ IsOpen(row) \/ IsTerminal(row) => row # NoRow
        /\ {"completed", "failed"} \subseteq Terminal
        /\ IsOpen(row) => row.next \in Nat /\ job \in Nat
    BY DEF ExecInv, Holds, IsOpen, IsTerminal, Terminal, Open, TypeOK, RowOK, Rows, OpenRunsAreWoken
  <1>n. UNCHANGED <<row, job, up>> => OpenRunsAreWoken'
    BY Wakes
  <1>s. SyncWake \/ job' = Deadline(row') => OpenRunsAreWoken'
    BY Wakes
  <1>e. row # NoRow /\ (row' = EndedCancelled \/ row' = Ended("failed") \/ row' = Ended("completed"))
          => OpenRunsAreWoken'
    BY <1>0, Wakes
  <1>r. ASSUME NEW g, SettleRequested(g) \/ SettleCancelled(g), UNCHANGED <<job, up>>
        PROVE  OpenRunsAreWoken'
    BY <1>e, <1>n, <1>r DEF SettleRequested, SettleCancelled
  <1>o. ASSUME NEW written, Outcome(written, Deadline(row)), row' = row, up' = up
        PROVE  OpenRunsAreWoken'
    BY <1>n, <1>o, <1>s DEF Outcome
  <1>1. CASE Begin
    BY <1>0, <1>1, <1>e, <1>n, <1>s, BeginCases DEF Claims, world
  <1>2. CASE ClaimInterrupted
    BY <1>2, <1>n, <1>s DEF ClaimInterrupted, Claims, world
  <1>3. CASE Start
    BY <1>3, <1>n, <1>r DEF Start, world
  <1>4. ASSUME NEW how \in {"completed", "failed"}, Return(how) PROVE OpenRunsAreWoken'
    BY <1>0, <1>4, <1>e, <1>r DEF Return, world
  <1>5. ASSUME NEW s \in Steps, Raise(s) PROVE OpenRunsAreWoken'
    <2>1. UNCHANGED <<job, up>>
      BY <1>5 DEF Raise, world
    <2> QED BY <1>0, <1>5, <1>e, <1>n, <1>r, <2>1, RaiseCases
  <1>6. CASE CleanUp \/ CallerCleansUp
    BY <1>6, <1>s DEF CleanUp, CallerCleansUp
  <1>7. ASSUME NEW retain \in Retains, Accept(retain) PROVE OpenRunsAreWoken'
    BY <1>7, <1>s DEF Accept
  <1>8. CASE Join
    BY <1>8, <1>s DEF Join
  <1>9. CASE Cancel
    BY <1>0, <1>9, <1>e, <1>s, CancelCases
  <1>10. CASE Delete
    BY <1>10, Wakes DEF Delete, IsOpen
  <1>11. CASE AlarmFires
    <2>1. CASE row # NoRow /\ row' = [row EXCEPT !.next = ClaimTimeout] /\ job' = row'.next
      <3>1. row' \in Rows /\ row'.next = ClaimTimeout /\ ClaimTimeout \in Nat
        BY <2>1, TasksAssumption DEF TypeOK, Rows
      <3> QED BY <2>1, <3>1, TasksAssumption DEF OpenRunsAreWoken
    <2>2. CASE Dispatches(FALSE) /\ row' = row
      <3>1. up' = up
        BY <1>11 DEF AlarmFires, world
      <3> QED BY <1>n, <1>o, <2>2, <3>1 DEF Dispatches
    <2> QED BY <1>11, <2>1, <2>2 DEF AlarmFires
  <1>12. CASE AlarmJoins
    <2>1. row' = row /\ up' = up
      BY <1>12 DEF AlarmJoins, world
    <2> QED BY <1>12, <1>n, <1>o, <2>1 DEF AlarmJoins, Dispatches
  <1>13. CASE AlarmReturns
    <2>1. row' = row /\ up' = up
      BY <1>13 DEF AlarmReturns, world
    <2> QED BY <1>13, <1>n, <1>o, <2>1 DEF AlarmReturns
  <1>14. CASE AlarmHandsOff
    <2>1. row' = row /\ up' = up
      BY <1>14 DEF AlarmHandsOff, world
    <2>2. CASE IsOpen(row)
      <3>1. Deadline(row) # NoTime
        BY <1>0, <2>2, TasksAssumption DEF Deadline
      <3> QED BY <1>14, <1>n, <1>s, <2>1, <3>1 DEF AlarmHandsOff, Outcome
    <2>3. CASE ~IsOpen(row)
      BY <2>1, <2>3, Wakes
    <2> QED BY <2>2, <2>3
  <1>15. ASSUME NEW sealed \in BOOLEAN, MemoryLimit(sealed) PROVE OpenRunsAreWoken'
    <2>1. exec.pc = "oom"
      BY <1>15 DEF MemoryLimit
    <2>2. Claimed
      BY <2>1 DEF AttemptInv
    <2>3. IsOpen(row) /\ row.gen = exec.gen
      BY <2>2 DEF Claimed, IsOpen, Open
    <2> QED BY <1>0, <1>15, <1>e, <1>s, <2>3, MemoryLimitCases
  <1>16. CASE Crash \/ Reset
    BY <1>16, Wakes DEF Crash, Reset, Forget, durable
  <1>17. CASE Reconcile
    <2>1. (IsOpen(row') => IsOpen(row)) /\ job' = job /\ up' # "ready"
      <3>1. row' = row \/ (row # NoRow /\ row.state = "running")
        BY <1>17 DEF Reconcile
      <3> QED BY <1>17, <3>1 DEF Reconcile, IsOpen, Open
    <2> QED BY <2>1 DEF OpenRunsAreWoken
  <1>18. CASE Repair
    <2>1. CASE DropsUnretained
      BY <1>18, <2>1, Wakes DEF Repair, Cleaned, IsOpen
    <2>2. CASE ~DropsUnretained
      <3>1. row' = row /\ job' = IF IsOpen(row) THEN row.next ELSE job
        BY <1>18, <2>2 DEF Repair, Cleaned
      <3>2. CASE IsOpen(row)
        BY <1>s, <3>1, <3>2 DEF Deadline
      <3>3. CASE ~IsOpen(row)
        BY <3>1, <3>3, Wakes
      <3> QED BY <3>2, <3>3
    <2> QED BY <2>1, <2>2
  <1>19. CASE Tick
    <2>1. CASE IsOpen(row)
      <3>1. row # NoRow /\ row' = [row EXCEPT !.next = Later(row.next)] /\ row \in Rows
        BY <1>0, <1>19, <2>1 DEF Tick, TypeOK
      <3>2. row'.next = Later(row.next) /\ job' = Later(job) /\ up' = up
        BY <1>19, <3>1 DEF Tick, Rows, world
      <3>3. Later(job) \in Nat /\ (job <= row.next => Later(job) <= Later(row.next))
        BY <1>0, <2>1 DEF Later
      <3> QED BY <2>1, <3>2, <3>3, TasksAssumption DEF OpenRunsAreWoken
    <2>2. CASE ~IsOpen(row)
      <3>1. ~IsOpen(row')
        <4>1. row # NoRow => row' = [row EXCEPT !.next = Later(row.next)] /\ row \in Rows
          BY <1>19 DEF Tick, TypeOK
        <4>2. row = NoRow => row' = NoRow
          BY <1>19 DEF Tick
        <4> QED BY <2>2, <4>1, <4>2 DEF IsOpen, Rows
      <3> QED BY <3>1, Wakes
    <2> QED BY <2>1, <2>2
  <1>20. ASSUME NEW g \in Gens, NEW s \in Steps, StepCall(g, s) \/ Callback(g, s)
         PROVE  OpenRunsAreWoken'
    <2>1. CallMove(g, s)
      BY <1>20, CallsMove
    <2> QED BY <1>n, <1>s, <2>1 DEF CallMove
  \* The others leave the run and its wake alone.
  <1>21. CASE \/ NextPhase \/ Submit \/ HandoffRefused \/ UNCHANGED vars
              \/ \E s \in Steps : Catch(s)
    BY <1>21, <1>n DEF NextPhase, Submit, HandoffRefused, Catch, durable, vars, world
  <1> QED
    BY <1>1, <1>2, <1>3, <1>4, <1>5, <1>6, <1>7, <1>8, <1>9, <1>10, <1>11, <1>12, <1>13,
       <1>14, <1>15, <1>16, <1>17, <1>18, <1>19, <1>20, <1>21
       DEF Next, Attempt, Alarm, Client, Breaker

-----------------------------------------------------------------------------
(* The theorems.                                                           *)

LEMMA InitIsSound == Init => TasksInv /\ AttemptInv /\ OpenRunsAreWoken
  <1> SUFFICES ASSUME Init PROVE TasksInv /\ AttemptInv /\ OpenRunsAreWoken
    OBVIOUS
  <1>1. TypeOK
    <2>1. RowType /\ StepType
      BY DEF Init, RowType, StepType, NoStep
    <2>2. JobType /\ BranchType
      BY DEF Init, JobType, BranchType, BranchPcs, NoBranch
    <2>3. ExecType
      BY TasksAssumption DEF Init, ExecType, NoExec
    <2>4. RestType
      <3>1. MaxFailures \in Nat
        BY TasksAssumption
      <3>2. tracked = FALSE /\ defined = TRUE /\ reset = FALSE /\ spent = 0
        BY DEF Init
      <3>3. tracked \in BOOLEAN /\ defined \in BOOLEAN /\ reset \in BOOLEAN
        BY <3>2
      <3>4. spent \in 0..MaxFailures
        BY <3>1, <3>2
      <3> QED BY <3>3, <3>4 DEF Init, RestType
    <2> QED BY <2>1, <2>2, <2>3, <2>4, TypeParts DEF Types
  <1>2. exec.pc = "none" /\ exec.gen = NoGen /\ row = NoRow
    BY DEF Init, NoExec
  <1> QED BY <1>1, <1>2 DEF TasksInv, ExecInv, StepInv, AttemptInv, OpenRunsAreWoken, Holds, IsOpen

LEMMA InvariantStep ==
    ASSUME TasksInv, [Next]_vars
    PROVE  TasksInv' /\ (HeavyAlone /\ AttemptInv => AttemptInv')
  <1>1. TypeOK /\ ExecInv /\ StepInv
    BY DEF TasksInv
  <1>2. TypeOK'
    BY <1>1, TypeStep
  <1>3. Keeps
    <2>1. CASE UNCHANGED vars
      <3>1. /\ \A g \in Gens : Holds(g)' <=> Holds(g)
            /\ Claimed' <=> Claimed
            /\ UNCHANGED <<step, exec, branch>>
        BY <2>1 DEF vars, Holds, Claimed
      <3>2. Passes
        BY <3>1 DEF Passes, RowPasses, ExecPasses
      <3> QED BY <1>1, <3>2, PassesKeepAll
    <2>2. CASE Attempt
      BY <1>1, <2>2, AttemptKeeps
    <2>3. ASSUME NEW g \in Gens, NEW s \in Steps, StepCall(g, s) \/ Callback(g, s) PROVE Keeps
      BY <1>1, <2>3, CallsMove, CallsKeep DEF Keeps
    <2>4. CASE Next /\ ~Attempt /\ ~\E g \in Gens, s \in Steps : StepCall(g, s) \/ Callback(g, s)
      BY <1>1, <2>4, WorldKeeps
    <2> QED BY <2>1, <2>2, <2>3, <2>4
  <1> QED BY <1>2, <1>3 DEF TasksInv, Keeps

LEMMA TasksInvariant == Spec => []TasksInv
  <1>1. Init => TasksInv
    BY InitIsSound
  <1>2. TasksInv /\ [Next]_vars => TasksInv'
    BY InvariantStep
  <1> QED BY <1>1, <1>2, PTL DEF Spec

(* The journal of a run is kept (TaskJournal), through every claim, late    *)
(* callback, cancellation and eviction: a result is recorded once and only  *)
(* under a claim of an open run, a run completes with every step recorded,  *)
(* and what ended stays as it ended until it is deleted.                    *)
THEOREM RunsImplementJournal == Spec => ImplementsJournal
  <1>1. Init => Journal!Init
    BY DEF Init, Journal!Init, Journal!Blank, NoStep
  <1>2. TasksInv /\ [Next]_vars => [Journal!Next]_(Journal!vars)
    <2>1. TasksInv /\ [Next]_vars => [Journal!Next]_<<Life, HasClaim, Results>>
      BY JournalStep, MovesAreSteps DEF TasksInv
    <2> QED BY <2>1 DEF Journal!vars, Life, HasClaim, Results, Recorded
  <1> QED BY <1>1, <1>2, TasksInvariant, PTL DEF Spec, ImplementsJournal, Journal!Spec

(* No callback is invoked for a run that was cancelled, settled or claimed  *)
(* again, or for a step that has a result (_ensure_attempt_current).        *)
THEOREM CallbacksAreClaimed == Spec => CallbacksRunUnderClaim
  <1> DEFINE Invoked(g, s) == branch[g][s].pc # "callback" /\ branch'[g][s].pc = "callback"
             Fenced == \A g \in Gens, s \in Steps :
                         Invoked(g, s) => Holds(g) /\ step[s].state = "running"
  <1>1. TasksInv /\ [Next]_vars => [Fenced]_vars
    <2> SUFFICES ASSUME TasksInv, Next PROVE Fenced
      OBVIOUS
    <2>0. TypeOK /\ ExecInv /\ StepInv
      BY DEF TasksInv
    <2>1. InvokesNone => Fenced
      BY DEF InvokesNone
    <2>2. CASE Attempt
      BY <2>0, <2>1, <2>2, AttemptKeeps
    <2>3. ASSUME NEW g \in Gens, NEW s \in Steps, StepCall(g, s) \/ Callback(g, s) PROVE Fenced
      <3>1. CallMove(g, s)
        BY <2>0, <2>3, CallsMove
      <3>2. \A h \in Gens, u \in Steps : Invoked(h, u) => h = g /\ u = s
        BY <3>1 DEF CallMove, OthersStay
      <3>3. branch'[g][s].pc = "callback" => Holds(g) /\ branch[g][s].pc = "starting"
        BY <3>1 DEF CallMove, Over, Raised
      <3>4. Holds(g) /\ branch[g][s].pc = "starting" => step[s].state = "running"
        BY <2>0 DEF StepInv
      <3> QED BY <3>2, <3>3, <3>4
    <2>4. CASE /\ ~Attempt
               /\ ~\E g \in Gens, s \in Steps : StepCall(g, s) \/ Callback(g, s)
      BY <2>0, <2>1, <2>4, WorldKeeps
    <2> QED BY <2>2, <2>3, <2>4
  <1> QED BY <1>1, TasksInvariant, PTL DEF Spec, CallbacksRunUnderClaim

(* A run that isn't settled has its wake job, and while the object is up    *)
(* the job is due no later than the run, whatever the attempts, the alarm,  *)
(* the breaker and the callers do (_sync_wake, apply_outcome, on_start);    *)
(* every row is coherent meanwhile.  Steps that may exhaust the memory are  *)
(* awaited alone: the policy forgets the wake of a run that a step beside   *)
(* them parked.                                                             *)
THEOREM WakesAreKept ==
    ASSUME HeavyAlone
    PROVE  Spec => []RunsAreWoken
  <1> DEFINE Inv == TasksInv /\ AttemptInv /\ OpenRunsAreWoken
  <1>1. Init => Inv
    BY InitIsSound
  <1>2. Inv /\ [Next]_vars => Inv'
    <2> SUFFICES ASSUME Inv, [Next]_vars PROVE Inv'
      OBVIOUS
    <2>1. TasksInv' /\ AttemptInv'
      BY InvariantStep
    <2>2. OpenRunsAreWoken'
      BY <2>1, WokenStep DEF TasksInv
    <2> QED BY <2>1, <2>2
  <1>3. Inv => RunsAreWoken
    BY DEF TasksInv, RunsAreWoken
  <1> QED BY <1>1, <1>2, <1>3, PTL DEF Spec

-----------------------------------------------------------------------------
(* Chat recovery: the inductive invariant.                                 *)

\* The tables are functions of turns and of runs; only an open task is dispatched,
\* and one turn is live at a time.
PayInv ==
    /\ used \in Nat /\ faults \in Nat
    /\ task = [t \in R!Turns |-> task[t]] /\ doing = [t \in R!Turns |-> doing[t]]
    /\ runs = [u \in R!Runs |-> runs[u]] /\ attempt = [u \in R!Runs |-> attempt[u]]
    /\ \A t \in R!Turns : "pc" \in DOMAIN doing[t] /\ (doing[t] # R!Idle => task[t] = "open")
    /\ \A u \in R!Runs : "pc" \in DOMAIN attempt[u]
    /\ \A s, t \in R!Turns : R!Live(s) /\ R!Live(t) => s = t

LEMMA PayInit == R!Init => PayInv
  BY DEF R!Init, PayInv, R!Live, R!Idle

\* Turns and runs are finite.
LEMMA RecoveryFinite == IsFiniteSet(R!Turns) /\ IsFiniteSet(R!Runs)
<1>1. IsFiniteSet(R!Turns)  BY MCRecoveryAssumption, FS_Interval DEF R!Turns,
       R!ChatRecoveryAssumption
<1>2. IsFiniteSet(1..MaxAttempts)  BY MCRecoveryAssumption, FS_Interval DEF R!ChatRecoveryAssumption
<1>3. IsFiniteSet(R!Reasons)
  <2>1. R!Reasons = (({} \cup {"platform"}) \cup {"stable-timeout"}) \cup {"out-of-memory"}
    BY DEF R!Reasons
  <2> QED  BY <2>1, FS_EmptySet, FS_AddElement
<1>4. IsFiniteSet(R!Reasons \X (1..MaxAttempts))  BY <1>2, <1>3, FS_Product
<1>5. IsFiniteSet({<<"initial", 0>>})  BY FS_Singleton
<1>6. IsFiniteSet(R!Runs)  BY <1>4, <1>5, FS_Union DEF R!Runs
<1> QED  BY <1>1, <1>6

\* What a step does to what is owed.
Alike == used' = used /\ faults' = faults
Fewer == Alike /\ R!Interrupted' \subseteq R!Interrupted /\ R!Outstanding' \subseteq R!Outstanding
TurnBegins == \E u \in R!Outstanding :
    /\ used' = used + 1 /\ faults' = faults
    /\ R!Interrupted' \subseteq R!Interrupted /\ R!Outstanding' \subseteq R!Outstanding \ {u}
Turned == \E t \in R!Interrupted, u \in R!Runs :
    /\ Alike
    /\ R!Interrupted' \subseteq R!Interrupted \ {t} /\ R!Outstanding' \subseteq R!Outstanding \cup {u}
Renewed == \E u \in R!Outstanding, v \in R!Runs :
    /\ Alike
    /\ R!Interrupted' \subseteq R!Interrupted /\ R!Outstanding' \subseteq (R!Outstanding \ {u}) \cup {v}
TurnLost == \E t \in R!Turns :
    /\ used' = used /\ faults' = faults + 1
    /\ R!Interrupted' \subseteq R!Interrupted \cup {t}
    /\ R!Outstanding' \subseteq R!Outstanding \cup R!Under
Settles == Fewer \/ TurnBegins \/ Turned \/ Renewed \/ TurnLost

\* Who waits for a turn hears of it; nobody owes more for it.
LEMMA OwnerHeard ==
  ASSUME \A u \in R!Runs : "pc" \in DOMAIN attempt[u],
         NEW how \in {"completed", "failed"}, attempt' = R!OwnerHears(how)
  PROVE  /\ attempt' = [u \in R!Runs |-> attempt'[u]]
         /\ \A u \in R!Runs : "pc" \in DOMAIN attempt'[u]
         /\ runs' = runs => R!Outstanding' \subseteq R!Outstanding
<1>1. attempt' = [u \in R!Runs |-> attempt'[u]]  BY DEF R!OwnerHears
<1>2. ASSUME NEW u \in R!Runs
      PROVE  IF attempt[u].pc = "turn" THEN attempt'[u].pc = how /\ "pc" \in DOMAIN attempt'[u]
                                       ELSE attempt'[u] = attempt[u]
  <2>1. attempt'[u] = IF attempt[u].pc = "turn" THEN [attempt[u] EXCEPT !.pc = how] ELSE attempt[u]
    BY DEF R!OwnerHears
  <2>2. [attempt[u] EXCEPT !.pc = how].pc = how /\ "pc" \in DOMAIN [attempt[u] EXCEPT !.pc = how]
    OBVIOUS
  <2> QED  BY <2>1, <2>2
<1>3. ASSUME runs' = runs, NEW u \in R!Outstanding'  PROVE u \in R!Outstanding
  <2>1. /\ u \in R!Runs
        /\ \/ attempt'[u].pc = "idle" /\ runs'[u] # R!NoRun
           \/ attempt'[u].pc \in {"queued", "stable", "platform", "oom", "redefer"}
    BY <1>3 DEF R!Outstanding
  <2>2. attempt'[u] = attempt[u]  BY <1>2, <2>1
  <2> QED  BY <1>3, <2>1, <2>2 DEF R!Outstanding
<1> QED  BY <1>1, <1>2, <1>3

LEMMA TaskStepPays ==
  ASSUME PayInv, NEW t \in R!Turns, R!TaskStep(t)
  PROVE  PayInv' /\ (Fewer \/ Turned)
<1> USE DEF PayInv, Fewer, Alike, R!Interrupted, R!Outstanding, R!Live, R!Idle, R!Does,
       R!storeVars, R!turnVars, R!talkVars, R!memory
<1>1. CASE R!Emits(t)  BY <1>1 DEF R!Emits
<1>2. CASE R!TurnEnds(t)
  <2>1. PICK how \in {"completed", "failed"} : attempt' = R!OwnerHears(how)  BY <1>2 DEF R!TurnEnds
  <2>2. /\ doing' = [doing EXCEPT ![t] = R!Idle] /\ task' = [task EXCEPT ![t] = "over"]
        /\ runs' = runs /\ used' = used /\ faults' = faults
    BY <1>2 DEF R!TurnEnds
  <2>3. R!Outstanding' \subseteq R!Outstanding  BY <2>1, <2>2, OwnerHeard
  <2>4. R!Interrupted' \subseteq R!Interrupted  BY <2>2
  <2>5. /\ task' = [s \in R!Turns |-> task'[s]] /\ doing' = [s \in R!Turns |-> doing'[s]]
        /\ \A s \in R!Turns : "pc" \in DOMAIN doing'[s] /\ (doing'[s] # R!Idle => task'[s] = "open")
        /\ \A s, v \in R!Turns : R!Live(s)' /\ R!Live(v)' => s = v
    BY <2>2
  <2>6. /\ attempt' = [u \in R!Runs |-> attempt'[u]]
        /\ \A u \in R!Runs : "pc" \in DOMAIN attempt'[u]
    BY <2>1, OwnerHeard DEF PayInv
  <2>7. runs' = [u \in R!Runs |-> runs'[u]] /\ used' \in Nat /\ faults' \in Nat  BY <2>2
  <2>8. PayInv'  BY <2>5, <2>6, <2>7
  <2>9. Fewer  BY <2>2, <2>3, <2>4
  <2> QED  BY <2>8, <2>9
<1>3. CASE R!Recovers(t)  BY <1>3 DEF R!Recovers
<1>4. CASE R!ReadsIncident(t)  BY <1>4 DEF R!ReadsIncident
<1>5. CASE R!Decides(t)  BY <1>5 DEF R!Decides
<1>6. CASE R!Persists(t)  BY <1>6 DEF R!Persists
<1>7. CASE R!Closes(t)  BY <1>7 DEF R!Closes
<1>8. CASE R!Flags(t)  BY <1>8 DEF R!Flags
<1>9. CASE R!Enqueues(t)
  <2>1. t \in R!Interrupted /\ R!Initial \in R!Runs  BY <1>9 DEF R!Enqueues, R!Initial, R!Runs
  <2>2. PayInv'  BY <1>9 DEF R!Enqueues, R!Enqueued, R!TaskOver
  <2>3. R!Interrupted' \subseteq R!Interrupted \ {t}  BY <1>9 DEF R!Enqueues, R!TaskOver
  <2>4. R!Outstanding' \subseteq R!Outstanding \cup {R!Initial}  BY <1>9 DEF R!Enqueues, R!Enqueued
  <2>5. used' = used /\ faults' = faults  BY <1>9 DEF R!Enqueues
  <2> QED  BY <2>1, <2>2, <2>3, <2>4, <2>5 DEF Turned
<1>10. CASE R!Unflags(t)  BY <1>10 DEF R!Unflags, R!TaskOver
<1>11. CASE R!TaskExhausts(t)  BY <1>11 DEF R!TaskExhausts, R!TaskOver
<1>12. CASE R!TaskReports(t)  BY <1>12 DEF R!TaskReports, R!TaskOver
<1> QED  BY R!TaskStep(t), <1>1, <1>2, <1>3, <1>4, <1>5, <1>6, <1>7, <1>8, <1>9, <1>10, <1>11,
       <1>12 DEF R!TaskStep

LEMMA RunStepPays ==
  ASSUME PayInv, NEW u \in R!Runs, R!RunStep(u) \/ R!StableTimeout(u)
  PROVE  PayInv' /\ (Fewer \/ TurnBegins \/ Renewed)
<1> USE DEF PayInv, Fewer, Alike, R!Interrupted, R!Outstanding, R!Live, R!Idle, R!Tries,
       R!RunOver, R!Gives, R!storeVars, R!turnVars, R!talkVars, R!memory
<1>1. CASE R!Attempts(u)
  <2>1. /\ used' = used /\ faults' = faults /\ task' = task /\ doing' = doing
        /\ runs[u] # R!NoRun /\ attempt[u] = R!Idle
    BY <1>1 DEF R!Attempts
  <2>2. \/ runs' = [runs EXCEPT ![u] = R!NoRun] /\ attempt' = attempt
        \/ /\ runs' = runs
           /\ \E new : /\ attempt' = [attempt EXCEPT ![u] = new]
                       /\ "pc" \in DOMAIN new /\ new.pc \in {"unflag", "queued"}
    BY <1>1 DEF R!Attempts
  <2> QED  BY <2>1, <2>2
<1>2. CASE R!AttemptStarts(u)
  <2> DEFINE t == used + 1
  <2>1. /\ \A s \in R!Turns : doing[s].pc # "live"
        /\ doing' = [doing EXCEPT ![t] = [pc |-> "live"]] /\ task' = [task EXCEPT ![t] = "open"]
        /\ attempt' = [attempt EXCEPT ![u] = [attempt[u] EXCEPT !.pc = "turn"]]
        /\ runs' = runs /\ used' = used + 1 /\ faults' = faults /\ attempt[u].pc = "queued"
    BY <1>2 DEF R!AttemptStarts, R!Does, R!QueueFree
  <2> HIDE DEF t
  <2>2. u \in R!Outstanding  BY <2>1
  <2>3. R!Interrupted' \subseteq R!Interrupted  BY <2>1
  <2>4. R!Outstanding' \subseteq R!Outstanding \ {u}  BY <2>1
  <2>5. /\ task' = [s \in R!Turns |-> task'[s]] /\ doing' = [s \in R!Turns |-> doing'[s]]
        /\ runs' = [v \in R!Runs |-> runs'[v]] /\ used' \in Nat /\ faults' \in Nat
    <3>1. task' = [s \in R!Turns |-> task'[s]]  BY <2>1
    <3>2. doing' = [s \in R!Turns |-> doing'[s]]  BY <2>1
    <3>3. runs' = [v \in R!Runs |-> runs'[v]]  BY <2>1
    <3>4. used' \in Nat /\ faults' \in Nat  BY <2>1
    <3> QED  BY <3>1, <3>2, <3>3, <3>4
  <2>6. attempt' = [v \in R!Runs |-> attempt'[v]] /\ \A v \in R!Runs : "pc" \in DOMAIN attempt'[v]
    BY <2>1
  <2>7. \A s \in R!Turns : IF s = t THEN doing'[s] = [pc |-> "live"] /\ task'[s] = "open"
                                  ELSE doing'[s] = doing[s] /\ task'[s] = task[s]
    BY <2>1
  <2>8. \A s \in R!Turns : "pc" \in DOMAIN doing'[s] /\ (doing'[s] # R!Idle => task'[s] = "open")
    BY <2>7
  <2>9. \A s \in R!Turns : R!Live(s)' => s = t  BY <2>1, <2>7
  <2>10. PayInv'  BY <2>5, <2>6, <2>8, <2>9
  <2> QED  BY <2>1, <2>2, <2>3, <2>4, <2>10 DEF TurnBegins
<1>3. CASE R!HandsOff(u)  BY <1>3 DEF R!HandsOff
<1>4. CASE R!AttemptEnds(u)  BY <1>4 DEF R!AttemptEnds
<1>5. CASE R!AttemptUnflags(u)  BY <1>5 DEF R!AttemptUnflags
<1>6. CASE R!Reschedules(u)
  <2>1. /\ used' = used /\ faults' = faults /\ task' = task /\ doing' = doing
        /\ attempt[u].pc = "stable"
    BY <1>6 DEF R!Reschedules
  <2>2. \/ runs' = [runs EXCEPT ![u] = R!NoRun] /\ attempt' = [attempt EXCEPT ![u] = R!Idle]
        \/ /\ runs' = runs
           /\ \E new : /\ attempt' = [attempt EXCEPT ![u] = new]
                       /\ "pc" \in DOMAIN new /\ new.pc \in {"exhaust", "redefer"}
    <3> DEFINE Is(new) == "pc" \in DOMAIN new /\ new.pc \in {"exhaust", "redefer"}
               given == [attempt[u] EXCEPT !.pc = "exhaust", !.held = incident]
               again == [pc |-> "redefer", held |-> incident', data |-> attempt[u].data,
                         reason |-> "stable-timeout"]
    <3>1. Is(given) /\ Is(again)  OBVIOUS
    <3>2. \/ runs' = [runs EXCEPT ![u] = R!NoRun] /\ attempt' = [attempt EXCEPT ![u] = R!Idle]
          \/ runs' = runs /\ attempt' = [attempt EXCEPT ![u] = given]
          \/ runs' = runs /\ attempt' = [attempt EXCEPT ![u] = again]
      BY <1>6 DEF R!Reschedules, R!Exhausts
    <3> HIDE DEF given, again
    <3> QED  BY <3>1, <3>2
  <2> QED  BY <2>1, <2>2
<1>7. CASE R!HandlesOom(u)  BY <1>7 DEF R!HandlesOom
<1>8. CASE R!HandlesPlatform(u)  BY <1>8 DEF R!HandlesPlatform
<1>9. CASE R!Redefer(u)
  <2>1. /\ used' = used /\ faults' = faults /\ task' = task /\ doing' = doing
        /\ attempt[u].pc = "redefer" /\ u \in R!Outstanding /\ R!Interrupted' = R!Interrupted
    BY <1>9 DEF R!Redefer
  <2>2. CASE /\ attempt' = [attempt EXCEPT ![u].pc = "exhaust"] /\ runs' = runs
    <3>1. PayInv'  BY <2>1, <2>2
    <3>2. R!Outstanding' \subseteq R!Outstanding  BY <2>1, <2>2
    <3> QED  BY <2>1, <3>1, <3>2
  <2>3. CASE \E next, data :
               /\ runs' = IF next = u THEN R!Enqueued(next, data)
                                      ELSE [R!Enqueued(next, data) EXCEPT ![u] = R!NoRun]
               /\ attempt' = [attempt EXCEPT ![u] = R!Idle]
    <3>1. PICK next, data :
            /\ runs' = IF next = u THEN R!Enqueued(next, data)
                                   ELSE [R!Enqueued(next, data) EXCEPT ![u] = R!NoRun]
            /\ attempt' = [attempt EXCEPT ![u] = R!Idle]
      BY <2>3
    <3>2. PayInv'  BY <2>1, <3>1 DEF R!Enqueued
    <3>3. CASE next \in R!Runs
      <4>1. R!Outstanding' \subseteq (R!Outstanding \ {u}) \cup {next}  BY <2>1, <3>1 DEF R!Enqueued
      <4> QED  BY <2>1, <3>2, <3>3, <4>1 DEF Renewed
    <3>4. CASE next \notin R!Runs
      <4>1. R!Outstanding' \subseteq R!Outstanding  BY <2>1, <3>1, <3>4 DEF R!Enqueued
      <4> QED  BY <2>1, <3>2, <4>1
    <3> QED  BY <3>3, <3>4
  <2> QED  BY <1>9, <2>2, <2>3 DEF R!Redefer
<1>10. CASE R!AttemptExhausts(u)  BY <1>10 DEF R!AttemptExhausts
<1>11. CASE R!AttemptReports(u)  BY <1>11 DEF R!AttemptReports
<1>12. CASE R!StableTimeout(u)  BY <1>12 DEF R!StableTimeout
<1> QED  BY R!RunStep(u) \/ R!StableTimeout(u), <1>1, <1>2, <1>3, <1>4, <1>5, <1>6, <1>7, <1>8,
       <1>9, <1>10, <1>11, <1>12 DEF R!RunStep

LEMMA RestPays ==
  ASSUME PayInv,
         \/ \E t \in R!Turns : R!TurnBreaks(t) \/ R!EnqueueFails(t) \/ R!TabAcks(t)
         \/ R!Evicted \/ R!UserSends \/ R!UserTurn \/ UNCHANGED R!vars
  PROVE  PayInv' /\ (Fewer \/ TurnLost)
<1> USE DEF PayInv, R!Interrupted, R!Outstanding, R!Live, R!Idle, R!Does, R!Fault, R!storeVars,
       R!turnVars, R!talkVars, R!memory
<1>1. ASSUME NEW t \in R!Turns, R!TurnBreaks(t)  PROVE PayInv' /\ TurnLost
  BY <1>1 DEF R!TurnBreaks, R!OwnerHears, TurnLost, R!Under
<1>2. ASSUME NEW t \in R!Turns, R!EnqueueFails(t)  PROVE PayInv' /\ TurnLost
  BY <1>2 DEF R!EnqueueFails, TurnLost
<1>3. ASSUME NEW t \in R!Turns, R!TabAcks(t)  PROVE PayInv' /\ Fewer
  BY <1>3 DEF R!TabAcks, Fewer, Alike
<1>4. CASE R!Evicted
  <2>1. PayInv'  BY <1>4 DEF R!Evicted
  <2>2. PICK t \in R!Turns : \A s \in R!Turns : R!Live(s) => s = t
    <3>1. 0 \in R!Turns  BY MCRecoveryAssumption DEF R!Turns, R!ChatRecoveryAssumption
    <3> QED  BY <3>1
  <2>3. R!Interrupted' \subseteq R!Interrupted \cup {t}  BY <1>4, <2>2 DEF R!Evicted
  <2>4. R!Outstanding' \subseteq R!Outstanding \cup R!Under  BY <1>4 DEF R!Evicted, R!Under
  <2> QED  BY <1>4, <2>1, <2>3, <2>4 DEF R!Evicted, TurnLost
<1>5. CASE R!UserSends  BY <1>5 DEF R!UserSends, Fewer, Alike
<1>6. CASE R!UserTurn  BY <1>6 DEF R!UserTurn, Fewer, Alike
<1>7. CASE UNCHANGED R!vars  BY <1>7 DEF R!vars, Fewer, Alike
<1> QED  BY <1>1, <1>2, <1>3, <1>4, <1>5, <1>6, <1>7

\* Sets and their sizes.
LEMMA SmallerSet ==
  ASSUME NEW S, IsFiniteSet(S), NEW T, T \subseteq S
  PROVE  /\ IsFiniteSet(T) /\ Cardinality(T) \in Nat /\ Cardinality(S) \in Nat
         /\ Cardinality(T) <= Cardinality(S)
  BY FS_Subset, FS_CardinalityType

LEMMA SmallerByOne ==
  ASSUME NEW S, IsFiniteSet(S), NEW x \in S, NEW T, T \subseteq S \ {x}
  PROVE  Cardinality(T) \in Nat /\ Cardinality(S) \in Nat /\ Cardinality(T) + 1 <= Cardinality(S)
<1>1. IsFiniteSet(S \ {x}) /\ Cardinality(S \ {x}) = Cardinality(S) - 1  BY FS_RemoveElement
<1>2. Cardinality(S) \in Nat  BY FS_CardinalityType
<1> QED  BY <1>1, <1>2, SmallerSet

LEMMA LargerByOne ==
  ASSUME NEW S, IsFiniteSet(S), NEW x, NEW T, T \subseteq S \cup {x}
  PROVE  Cardinality(T) \in Nat /\ Cardinality(S) \in Nat /\ Cardinality(T) <= Cardinality(S) + 1
<1>1. IsFiniteSet(S \cup {x}) /\ Cardinality(S \cup {x}) <= Cardinality(S) + 1 /\ Cardinality(S) \in Nat
  <2>1. Cardinality(S) \in Nat  BY FS_CardinalityType
  <2> QED  BY <2>1, FS_AddElement
<1> QED  BY <1>1, SmallerSet

LEMMA SameSize == \A S : R!Cardinality(S) = Cardinality(S)
  BY DEF R!Cardinality, Cardinality

LEMMA OwedSize ==
  /\ R!Owed = Cardinality(R!Interrupted) + Cardinality(R!Outstanding)
  /\ R!Owed' = Cardinality(R!Interrupted') + Cardinality(R!Outstanding')
  /\ R!Pays <=> used' + R!Owed' <= used + R!Owed
                  + IF faults' = faults THEN 0 ELSE 1 + Cardinality(R!Under)
<1>1. R!Owed = Cardinality(R!Interrupted) + Cardinality(R!Outstanding)  BY SameSize DEF R!Owed
<1>2. R!Owed' = Cardinality(R!Interrupted') + Cardinality(R!Outstanding')  BY SameSize DEF R!Owed
<1>3. R!Cardinality(R!Under) = Cardinality(R!Under)  BY SameSize
<1> QED  BY <1>1, <1>2, <1>3 DEF R!Pays

LEMMA OwedFinite ==
  /\ IsFiniteSet(R!Interrupted) /\ IsFiniteSet(R!Outstanding) /\ IsFiniteSet(R!Under)
  /\ Cardinality(R!Interrupted) \in Nat /\ Cardinality(R!Outstanding) \in Nat
  /\ Cardinality(R!Under) \in Nat /\ Cardinality(R!Runs) \in Nat
  /\ Cardinality(R!Under) <= Cardinality(R!Runs)
<1>1. R!Interrupted \subseteq R!Turns  BY DEF R!Interrupted
<1>2. R!Outstanding \subseteq R!Runs /\ R!Under \subseteq R!Runs  BY DEF R!Outstanding, R!Under
<1> QED  BY <1>1, <1>2, RecoveryFinite, SmallerSet

LEMMA SettlesPays == ASSUME PayInv, Settles PROVE R!Pays
<1> DEFINE i == Cardinality(R!Interrupted)  o == Cardinality(R!Outstanding)  w == Cardinality(R!Under)
           j == Cardinality(R!Interrupted')  p == Cardinality(R!Outstanding')
<1>0. /\ IsFiniteSet(R!Interrupted) /\ IsFiniteSet(R!Outstanding) /\ IsFiniteSet(R!Under)
      /\ i \in Nat /\ o \in Nat /\ w \in Nat
  BY OwedFinite
<1>a. used \in Nat /\ faults \in Nat  BY DEF PayInv
<1>b. R!Owed = i + o /\ R!Owed' = j + p  BY OwedSize
<1> SUFFICES /\ faults' = faults => used' + (j + p) <= used + (i + o)
             /\ faults' # faults => used' + (j + p) <= used + (i + o) + (1 + w)
  BY <1>0, <1>a, <1>b, OwedSize
<1>1. CASE Fewer
  <2>1. j \in Nat /\ p \in Nat /\ j <= i /\ p <= o  BY <1>0, <1>1, SmallerSet DEF Fewer
  <2>2. used' = used /\ faults' = faults  BY <1>1 DEF Fewer, Alike
  <2> HIDE DEF i, o, j, p, w
  <2> QED  BY <1>0, <1>a, <2>1, <2>2
<1>2. CASE TurnBegins
  <2>1. PICK u \in R!Outstanding :
          /\ used' = used + 1 /\ faults' = faults
          /\ R!Interrupted' \subseteq R!Interrupted /\ R!Outstanding' \subseteq R!Outstanding \ {u}
    BY <1>2 DEF TurnBegins
  <2>2. j \in Nat /\ j <= i  BY <1>0, <2>1, SmallerSet
  <2>3. p \in Nat /\ p + 1 <= o  BY <1>0, <2>1, SmallerByOne
  <2> HIDE DEF i, o, j, p, w
  <2> QED  BY <1>0, <1>a, <2>1, <2>2, <2>3
<1>3. CASE Turned
  <2>1. PICK t \in R!Interrupted, u \in R!Runs :
          /\ used' = used /\ faults' = faults
          /\ R!Interrupted' \subseteq R!Interrupted \ {t} /\ R!Outstanding' \subseteq R!Outstanding \cup {u}
    BY <1>3 DEF Turned, Alike
  <2>2. j \in Nat /\ j + 1 <= i  BY <1>0, <2>1, SmallerByOne
  <2>3. p \in Nat /\ p <= o + 1  BY <1>0, <2>1, LargerByOne
  <2> HIDE DEF i, o, j, p, w
  <2> QED  BY <1>0, <1>a, <2>1, <2>2, <2>3
<1>4. CASE Renewed
  <2>1. PICK u \in R!Outstanding, v \in R!Runs :
          /\ used' = used /\ faults' = faults
          /\ R!Interrupted' \subseteq R!Interrupted
          /\ R!Outstanding' \subseteq (R!Outstanding \ {u}) \cup {v}
    BY <1>4 DEF Renewed, Alike
  <2>2. j \in Nat /\ j <= i  BY <1>0, <2>1, SmallerSet
  <2>3. IsFiniteSet(R!Outstanding \ {u})  BY <1>0, FS_RemoveElement
  <2>4. /\ Cardinality(R!Outstanding \ {u}) \in Nat /\ Cardinality(R!Outstanding \ {u}) + 1 <= o
        /\ p \in Nat /\ p <= Cardinality(R!Outstanding \ {u}) + 1
    <3>1. R!Outstanding \ {u} \subseteq R!Outstanding \ {u}  OBVIOUS
    <3>2. Cardinality(R!Outstanding \ {u}) \in Nat /\ Cardinality(R!Outstanding \ {u}) + 1 <= o
      BY <1>0, <2>1, <3>1, SmallerByOne
    <3>3. p \in Nat /\ p <= Cardinality(R!Outstanding \ {u}) + 1
      BY <2>1, <2>3, LargerByOne
    <3> QED  BY <3>2, <3>3
  <2> HIDE DEF i, o, j, p, w
  <2> QED  BY <1>0, <1>a, <2>1, <2>2, <2>4
<1>5. CASE TurnLost
  <2>1. PICK t \in R!Turns :
          /\ used' = used /\ faults' = faults + 1
          /\ R!Interrupted' \subseteq R!Interrupted \cup {t}
          /\ R!Outstanding' \subseteq R!Outstanding \cup R!Under
    BY <1>5 DEF TurnLost
  <2>2. j \in Nat /\ j <= i + 1  BY <1>0, <2>1, LargerByOne
  <2>3. IsFiniteSet(R!Outstanding \cup R!Under) /\ Cardinality(R!Outstanding \cup R!Under) = o + w
    <3>1. R!Outstanding \cap R!Under = {}  BY DEF R!Under
    <3>2. Cardinality(R!Outstanding \cap R!Under) = 0  BY <3>1, FS_EmptySet
    <3>3. /\ IsFiniteSet(R!Outstanding \cup R!Under)
          /\ Cardinality(R!Outstanding \cup R!Under) = o + w - Cardinality(R!Outstanding \cap R!Under)
      BY <1>0, FS_Union
    <3> HIDE DEF o, w
    <3> QED  BY <1>0, <3>2, <3>3
  <2>4. p \in Nat /\ p <= o + w  BY <2>1, <2>3, SmallerSet
  <2> HIDE DEF i, o, j, p, w
  <2> QED  BY <1>0, <1>a, <2>1, <2>2, <2>4
<1> QED  BY <1>1, <1>2, <1>3, <1>4, <1>5 DEF Settles

LEMMA RecoveryStep == PayInv /\ [R!Next]_(R!vars) => PayInv' /\ Settles
<1> SUFFICES ASSUME PayInv, [R!Next]_(R!vars) PROVE PayInv' /\ Settles  OBVIOUS
<1>1. ASSUME NEW t \in R!Turns, R!TaskStep(t) PROVE PayInv' /\ Settles
  BY <1>1, TaskStepPays DEF Settles
<1>2. ASSUME NEW u \in R!Runs, R!RunStep(u) \/ R!StableTimeout(u) PROVE PayInv' /\ Settles
  BY <1>2, RunStepPays DEF Settles
<1>3. ASSUME \/ \E t \in R!Turns : R!TurnBreaks(t) \/ R!EnqueueFails(t) \/ R!TabAcks(t)
             \/ R!Evicted \/ R!UserSends \/ R!UserTurn \/ UNCHANGED R!vars
      PROVE PayInv' /\ Settles
  BY <1>3, RestPays DEF Settles
<1> QED  BY <1>1, <1>2, <1>3 DEF R!Next

\* Chat recovery begins an attempt's turn only against what is owed: the task of an
\* interrupted turn and the runs of the recovery task owe one each, joining a run by
\* its id and redeferring it owe no more, and only an eviction or a failure adds to it
\* (_enqueue_recovery, _chat_recovery_task, _redefer_recovery).
THEOREM RecoveryPays == R!Spec => R!AttemptsArePaid
<1>1. PayInv /\ [R!Next]_(R!vars) => PayInv' /\ [R!Pays]_(R!vars)  BY RecoveryStep, SettlesPays
<1> QED  BY PayInit, <1>1, PTL DEF R!Spec, R!AttemptsArePaid

\* What was begun and what is owed stay within what the faults paid for.
Bounded == used + R!Owed <= (1 + Cardinality(R!Runs)) * faults

LEMMA BoundInit == R!Init => Bounded
<1> SUFFICES ASSUME R!Init PROVE Bounded  OBVIOUS
<1>1. R!Interrupted = {}  BY DEF R!Init, R!Interrupted, R!Live, R!Idle
<1>2. R!Outstanding = {}  BY DEF R!Init, R!Outstanding, R!Idle, R!NoRun
<1>3. R!Owed = 0  BY <1>1, <1>2, FS_EmptySet, OwedSize
<1>4. used = 0 /\ faults = 0  BY DEF R!Init
<1> QED  BY <1>3, <1>4, OwedFinite DEF Bounded

LEMMA BoundStep == PayInv /\ Bounded /\ [R!Next]_(R!vars) => Bounded'
<1> SUFFICES ASSUME PayInv, Bounded, [R!Next]_(R!vars) PROVE Bounded'  OBVIOUS
<1>1. PayInv' /\ Settles /\ R!Pays  BY RecoveryStep, SettlesPays
<1>2. faults' = faults \/ faults' = faults + 1
  BY <1>1 DEF Settles, Fewer, TurnBegins, Turned, Renewed, TurnLost, Alike
<1> DEFINE w == Cardinality(R!Under)  r == Cardinality(R!Runs)
<1>3. w \in Nat /\ r \in Nat /\ w <= r /\ R!Owed \in Nat /\ used \in Nat /\ faults \in Nat
  BY OwedFinite, OwedSize DEF PayInv
<1>4. R!Owed' \in Nat /\ used' \in Nat
  <2>1. used' \in Nat  BY <1>1 DEF PayInv
  <2>2. (Cardinality(R!Interrupted) \in Nat /\ Cardinality(R!Outstanding) \in Nat)'
    BY OwedFinite, PTL
  <2> QED  BY <2>1, <2>2, OwedSize
<1>5. used + R!Owed <= (1 + r) * faults  BY DEF Bounded
<1>6. used' + R!Owed' <= used + R!Owed + IF faults' = faults THEN 0 ELSE 1 + w  BY <1>1, OwedSize
<1> HIDE DEF w, r
<1>7. (1 + r) * (faults + 1) = (1 + r) * faults + (1 + r)  BY <1>3
<1>8. used' + R!Owed' <= (1 + r) * faults'
  <2> DEFINE x == (1 + r) * faults  y == (1 + r) * faults'  n == used + R!Owed  m == used' + R!Owed'
  <2>1. x \in Int /\ n \in Nat /\ m \in Nat /\ n <= x
    <3>1. \A a, b \in Nat : (1 + a) * b \in Int  OBVIOUS
    <3>2. x \in Int  BY <1>3, <3>1
    <3>3. n <= x  BY <1>5
    <3>4. \A a, b \in Nat : a + b \in Nat  OBVIOUS
    <3>5. n \in Nat  BY <1>3, <3>4
    <3>6. m \in Nat  BY <1>4, <3>4
    <3> QED  BY <3>2, <3>3, <3>5, <3>6
  <2>2. faults' = faults => y = x  OBVIOUS
  <2>3. faults' = faults + 1 => y = x + (1 + r)  BY <1>7
  <2>4. m <= n + IF faults' = faults THEN 0 ELSE 1 + w  BY <1>6
  <2>5. faults' = faults + 1 => faults' # faults  BY <1>3
  <2> HIDE DEF x, y, n, m
  <2>6. m <= y  BY <1>2, <1>3, <2>1, <2>2, <2>3, <2>4, <2>5
  <2> QED  BY <2>6 DEF m, y
<1> QED  BY <1>8 DEF Bounded, r

\* However long the program runs, the turns begun to recover one message are at most
\* one and the number of run ids for every fault: without a fault nothing is recovered,
\* and recovery does not feed on itself.
THEOREM AttemptsFollowFaults == R!Spec => [](used <= (1 + Cardinality(R!Runs)) * faults)
<1>1. PayInv /\ Bounded => used <= (1 + Cardinality(R!Runs)) * faults
  <2> SUFFICES ASSUME PayInv, Bounded PROVE used <= (1 + Cardinality(R!Runs)) * faults  OBVIOUS
  <2>1. used \in Nat /\ faults \in Nat /\ R!Owed \in Nat /\ Cardinality(R!Runs) \in Nat
    BY OwedFinite, OwedSize DEF PayInv
  <2>2. (1 + Cardinality(R!Runs)) * faults \in Int  BY <2>1
  <2> QED  BY <2>1, <2>2 DEF Bounded
<1>2. PayInv /\ [R!Next]_(R!vars) => PayInv'  BY RecoveryStep
<1> QED  BY PayInit, BoundInit, BoundStep, <1>1, <1>2, PTL DEF R!Spec
=============================================================================

---------------------------- MODULE Stores_proofs ----------------------------
(***************************************************************************)
(* What holds of the tables of an agent, for every value of the constants: *)
(* how its workflows ended and how they are listed, in Workflows; what a   *)
(* parent copies and tells of the runs of an agent tool, in AgentToolRuns  *)
(* (A of MCStores); and that what is derived from a session's messages     *)
(* agrees with them, in Sessions (S of MCStores).                          *)
(***************************************************************************)
EXTENDS MCStores, FiniteSetTheorems, WellFoundedInduction, SequenceTheorems, TLAPS

-----------------------------------------------------------------------------
(* Workflows: types.                                                       *)

RunRecords ==
  [pc: {"resolve", "run", "raise", "wait", "report", "errored", "return"}, reported: BOOLEAN,
   told: SUBSET {"reported", "raised"}]
Instances ==
  [status: Statuses, steps: SUBSET {"error", "complete"}, events: Seq(BOOLEAN)]
CallRecords ==
  [op: Controls \union {"run", "look", "approve", "reject"}, id: Ids,
   name: Bindings \union {Any}, got: Statuses,
   at: {"native", "status", "track", "reset", "write"}]

\* Only a call that creates an instance has a name, and only it tracks a row.
CallOK(k) ==
  /\ k.at = "track" => k.op = "run"
  /\ k.op = "run" => k.name \in Bindings
  /\ k.at = "native" => k.op # "look"

StoreOK ==
  /\ rows \in [Ids -> Row \union {NoRow}]
  /\ clock \in 0..MaxSeconds
  /\ native \in [Ids -> Instances \union {NoInstance}]
  /\ runs \in [Ids -> RunRecords \union {NoRun}]
  /\ \A id \in Ids : runs[id] # NoRun => native[id] \in Instances
  /\ calls \in [Callers -> CallRecords \union {NoCall}]
  /\ \A c \in Callers : calls[c] # NoCall => CallOK(calls[c])

(* The ledger's writes: the rows, and what a reader holds of them.           *)
LEMMA Sets ==
  ASSUME NEW new, SetRows(new)
  PROVE  rows' = new
<1> USE DEF SetRows
<1> QED BY Zenon

LEMMA Updates ==
  ASSUME NEW id, NEW new, Update(id, new)
  PROVE  rows' = [rows EXCEPT ![id] = new]
BY Sets, Zenon DEF Update

(* What is written of one row: a queued row that has not ended, one that has *)
(* ended if its status says so, or one that runs and did not end before.     *)
Coherent(new) == new.ended <=> new.status \in Terminal
Writes(id) ==
  \/ rows' = rows
  \/ \E new \in Row : rows' = [rows EXCEPT ![id] = new] /\ Coherent(new)

LEMMA TrackWrites ==
  ASSUME StoreOK, NEW id \in Ids, NEW name \in Bindings, Track(id, name)
  PROVE  Writes(id)
<1> DEFINE new == [name |-> name, status |-> "queued", error |-> "none", created |-> clock,
                   ended |-> FALSE]
<1>1. new \in Row /\ Coherent(new)
  BY DEF StoreOK, Row, Statuses, Errors, Coherent, Terminal
<1>2. Update(id, new)
  BY Zenon DEF Track
<1>3. rows' = [rows EXCEPT ![id] = new]
  <2> HIDE DEF new
  <2> QED BY <1>2, Updates
<1> HIDE DEF new
<1> QED BY <1>1, <1>3 DEF Writes

LEMMA StatusWrites ==
  ASSUME StoreOK, NEW id \in Ids, NEW status \in Statuses, UpdateStatus(id, status)
  PROVE  Writes(id)
<1>1. CASE ~Tracked(id)
  BY <1>1, Zenon DEF UpdateStatus, Writes
<1>2. CASE Tracked(id)
  <2> DEFINE ended == status \in Terminal
             error == IF status = "errored" THEN "native" ELSE "none"
             new == [rows[id] EXCEPT !.status = status, !.ended = ended, !.error = error]
  <2>1. rows[id] \in Row /\ ended \in BOOLEAN /\ error \in Errors
    BY <1>2 DEF Tracked, StoreOK, Errors
  <2>2. Update(id, new)
    BY <1>2, Zenon DEF UpdateStatus
  <2>3. new \in Row /\ new.ended = ended /\ new.status = status
    <3> HIDE DEF ended, error
    <3> QED BY <2>1 DEF Row
  <2>4. Coherent(new)
    <3> HIDE DEF new
    <3> QED BY <2>3 DEF Coherent
  <2> HIDE DEF new
  <2> QED BY <2>2, <2>3, <2>4, Updates DEF Writes
<1> QED BY <1>1, <1>2

LEMMA RestartWrites ==
  ASSUME StoreOK, NEW id \in Ids, ResetForRestart(id)
  PROVE  Writes(id)
<1>1. CASE ~Tracked(id)
  BY <1>1, Zenon DEF ResetForRestart, Writes
<1>2. CASE Tracked(id)
  <2> DEFINE new == [rows[id] EXCEPT !.status = "queued", !.created = clock, !.ended = FALSE,
                                     !.error = "none"]
  <2>1. rows[id] \in Row /\ clock \in 0..MaxSeconds
    BY <1>2 DEF Tracked, StoreOK
  <2>2. Update(id, new)
    BY <1>2, Zenon DEF ResetForRestart
  <2>3. new \in Row /\ Coherent(new)
    BY <2>1 DEF Row, Statuses, Errors, Coherent, Terminal
  <2> HIDE DEF new
  <2> QED BY <2>2, <2>3, Updates DEF Writes
<1> QED BY <1>1, <1>2

\* A callback never revives a row: only one that waits goes on.
LEMMA CallbackWrites ==
  ASSUME StoreOK, NEW id \in Ids, NEW kind \in {"progress", "complete", "reported", "raised"},
         ApplyCallback(id, kind), Tracked(id) => Coherent(rows[id])
  PROVE  Writes(id)
<1>1. CASE ~Tracked(id)
  BY <1>1, Zenon DEF ApplyCallback, Writes
<1>2. CASE Tracked(id)
  <2>1. rows[id] \in Row
    BY <1>2 DEF Tracked, StoreOK
  <2>2. \/ rows' = rows
        \/ /\ Update(id, [rows[id] EXCEPT !.status = "running"])
           /\ rows[id].status \in {"queued", "waiting"}
        \/ Update(id, [rows[id] EXCEPT !.status = "complete", !.ended = TRUE])
        \/ /\ kind \in {"reported", "raised"}
           /\ Update(id, [rows[id] EXCEPT !.status = "errored", !.ended = TRUE, !.error = kind])
    BY <1>2 DEF ApplyCallback
  <2>3. [rows[id] EXCEPT !.status = "running"] \in Row
    BY <2>1 DEF Row, Statuses
  <2>4. rows[id].status \in {"queued", "waiting"} => Coherent([rows[id] EXCEPT !.status = "running"])
    BY <1>2, <2>1 DEF Row, Coherent, Terminal
  <2>5. /\ [rows[id] EXCEPT !.status = "complete", !.ended = TRUE] \in Row
        /\ Coherent([rows[id] EXCEPT !.status = "complete", !.ended = TRUE])
    BY <2>1 DEF Row, Statuses, Coherent, Terminal
  <2>6. kind \in {"reported", "raised"} =>
          /\ [rows[id] EXCEPT !.status = "errored", !.ended = TRUE, !.error = kind] \in Row
          /\ Coherent([rows[id] EXCEPT !.status = "errored", !.ended = TRUE, !.error = kind])
    BY <2>1 DEF Row, Statuses, Errors, Coherent, Terminal
  <2> QED BY <2>2, <2>3, <2>4, <2>5, <2>6, Updates DEF Writes
<1> QED BY <1>1, <1>2

\* All rows are coherent: an invariant by itself, with the types.
EndInv == StoreOK /\ EndedIsTerminal

LEMMA WritesKeep ==
  ASSUME EndInv, NEW id \in Ids, Writes(id)
  PROVE  rows' \in [Ids -> Row \union {NoRow}] /\ EndedIsTerminal'
BY DEF EndInv, StoreOK, EndedIsTerminal, Writes, Coherent, Tracked, Row

(* The platform's part of a call keeps instances and runs typed.             *)
LEMMA DoneType ==
  ASSUME StoreOK, NEW op \in Controls \union {"run", "look", "approve", "reject"}, op # "look",
         NEW id \in Ids, Allowed(op, id), Done(op, id)
  PROVE  /\ native' \in [Ids -> Instances \union {NoInstance}]
         /\ \A i \in Ids : runs'[i] # NoRun => native'[i] \in Instances
         /\ runs' = runs \/ runs' = [runs EXCEPT ![id] = NoRun]
<1>1. op # "run" => native[id] \in Instances
  BY DEF Allowed, StoreOK
<1>2. runs' = runs \/ runs' = [runs EXCEPT ![id] = NoRun]
  BY DEF Done
<1>3. \E new \in Instances : native' = [native EXCEPT ![id] = new]
  <2>1. CASE op \in {"run", "restart", "restartKeep"}
    <3>1. [status |-> "queued", steps |-> {}, events |-> <<>>] \in Instances
      BY EmptySeq DEF Instances, Statuses
    <3>2. native' = [native EXCEPT ![id] = [status |-> "queued", steps |-> {}, events |-> <<>>]]
      BY <2>1 DEF Done
    <3> QED BY <3>1, <3>2
  <2>2. CASE op = "pause"
    BY <1>1, <2>2 DEF Done, Instances, Statuses
  <2>3. CASE op = "resume"
    BY <1>1, <2>3 DEF Done, Instances, Statuses
  <2>4. CASE op = "terminate"
    BY <1>1, <2>4 DEF Done, Instances, Statuses
  <2>5. CASE op = "approve"
    <3>1. native' = [native EXCEPT ![id] = [native[id] EXCEPT !.events = Append(@, TRUE)]]
      BY <2>5 DEF Done
    <3>2. Append(native[id].events, TRUE) \in Seq(BOOLEAN)
      BY <1>1, <2>5, AppendProperties DEF Instances
    <3> QED BY <1>1, <2>5, <3>1, <3>2 DEF Instances
  <2>6. CASE op = "reject"
    <3>1. native' = [native EXCEPT ![id] = [native[id] EXCEPT !.events = Append(@, FALSE)]]
      BY <2>6 DEF Done
    <3>2. Append(native[id].events, FALSE) \in Seq(BOOLEAN)
      BY <1>1, <2>6, AppendProperties DEF Instances
    <3> QED BY <1>1, <2>6, <3>1, <3>2 DEF Instances
  <2> QED BY <2>1, <2>2, <2>3, <2>4, <2>5, <2>6 DEF Controls
<1> QED BY <1>1, <1>2, <1>3 DEF StoreOK

(* The steps, first those of the agent's calls.                              *)
LEMMA CallKeeps ==
  ASSUME EndInv, NEW c \in Callers,
         \/ \E id \in Ids, name \in Bindings : Call(c, "run", id, name)
         \/ \E id \in Ids, op \in Controls \union {"look", "approve", "reject"} : Call(c, op, id, Any)
  PROVE  EndInv'
<1>1. PICK op \in Controls \union {"run", "look", "approve", "reject"}, id \in Ids,
           name \in Bindings \union {Any} :
        Call(c, op, id, name) /\ (op = "run" => name \in Bindings)
  <2>1. CASE \E id \in Ids, name \in Bindings : Call(c, "run", id, name)
    BY <2>1
  <2>2. CASE \E id \in Ids, op \in Controls \union {"look", "approve", "reject"} : Call(c, op, id, Any)
    <3>1. PICK id \in Ids, op \in Controls \union {"look", "approve", "reject"} : Call(c, op, id, Any)
      BY <2>2
    <3>2. op # "run"
      BY DEF Controls
    <3> QED BY <3>1, <3>2
  <2> QED BY <2>1, <2>2
<1> DEFINE k == [op |-> op, id |-> id, name |-> name, got |-> "queued",
                 at |-> IF op = "look" THEN "status" ELSE "native"]
<1>2. k \in CallRecords /\ CallOK(k)
  BY <1>1 DEF CallRecords, CallOK, Statuses
<1>3. calls' = [calls EXCEPT ![c] = k] /\ UNCHANGED <<rows, clock, native, runs>>
  BY <1>1 DEF Call
<1> HIDE DEF k
<1> QED BY <1>2, <1>3 DEF EndInv, StoreOK, EndedIsTerminal, Tracked

LEMMA AnswerKeeps ==
  ASSUME EndInv, NEW c \in Callers, NativeAnswers(c) \/ NativeFails(c)
  PROVE  EndInv'
<1> DEFINE k == calls[c]
<1>1. k \in CallRecords /\ CallOK(k) /\ k.at = "native" /\ k # NoCall
  BY DEF NativeAnswers, NativeFails, EndInv, StoreOK
<1>2. /\ native' \in [Ids -> Instances \union {NoInstance}]
      /\ runs' \in [Ids -> RunRecords \union {NoRun}]
      /\ \A i \in Ids : runs'[i] # NoRun => native'[i] \in Instances
  <2>1. UNCHANGED <<native, runs>> \/ (Allowed(k.op, k.id) /\ Done(k.op, k.id))
    BY DEF NativeAnswers, NativeFails
  <2>2. CASE Allowed(k.op, k.id) /\ Done(k.op, k.id)
    <3>1. k.op # "look" /\ k.id \in Ids /\ k.op \in Controls \union {"run", "look", "approve", "reject"}
      BY <1>1 DEF CallOK, CallRecords
    <3> QED BY <2>2, <3>1, DoneType DEF EndInv, StoreOK
  <2> QED BY <2>1, <2>2 DEF EndInv, StoreOK
<1>3. /\ calls' \in [Callers -> CallRecords \union {NoCall}]
      /\ \A d \in Callers : calls'[d] # NoCall => CallOK(calls'[d])
  <2>1. \/ calls' = calls \/ calls' = [calls EXCEPT ![c] = NoCall]
        \/ \E at \in {"track", "reset", "status"} :
             /\ calls' = [calls EXCEPT ![c].at = at]
             /\ at = "track" => k.op = "run"
    BY DEF NativeAnswers, NativeFails, Idle, Moves, AfterNative
  <2> QED BY <1>1, <2>1 DEF EndInv, StoreOK, CallRecords, CallOK
<1>4. UNCHANGED <<rows, clock>>
  BY DEF NativeAnswers, NativeFails
<1> QED BY <1>2, <1>3, <1>4 DEF EndInv, StoreOK, EndedIsTerminal, Tracked

LEMMA OutcomeKeeps ==
  ASSUME EndInv, NEW c \in Callers, Tracks(c) \/ Resets(c) \/ StatusRead(c) \/ StatusWritten(c)
  PROVE  EndInv'
<1> DEFINE k == calls[c]
<1>1. k \in CallRecords /\ CallOK(k) /\ k # NoCall
  BY DEF Tracks, Resets, StatusRead, StatusWritten, EndInv, StoreOK
<1>2. Writes(k.id)
  <2>1. CASE Tracks(c)
    <3>1. UNCHANGED <<rows, walk>> \/ Track(k.id, k.name)
      BY <2>1 DEF Tracks
    <3> QED BY <1>1, <2>1, <3>1, TrackWrites DEF Tracks, EndInv, CallOK, CallRecords, Writes
  <2>2. CASE Resets(c)
    BY <1>1, <2>2, RestartWrites DEF Resets, EndInv, CallRecords
  <2>3. CASE StatusRead(c)
    BY <2>3 DEF StatusRead, Writes
  <2>4. CASE StatusWritten(c)
    BY <1>1, <2>4, StatusWrites DEF StatusWritten, EndInv, CallRecords
  <2> QED BY <2>1, <2>2, <2>3, <2>4
<1>3. /\ calls' \in [Callers -> CallRecords \union {NoCall}]
      /\ \A d \in Callers : calls'[d] # NoCall => CallOK(calls'[d])
  <2>1. \/ calls' = [calls EXCEPT ![c] = NoCall]
        \/ /\ native[k.id] # NoInstance
           /\ calls' = [calls EXCEPT ![c].at = "write", ![c].got = native[k.id].status]
    BY DEF Tracks, Resets, StatusRead, StatusWritten, Idle
  <2>2. native[k.id] # NoInstance => native[k.id].status \in Statuses
    BY <1>1 DEF EndInv, StoreOK, CallRecords, Instances
  <2> QED BY <1>1, <2>1, <2>2 DEF EndInv, StoreOK, CallRecords, CallOK
<1>4. UNCHANGED <<clock, native, runs>>
  BY DEF Tracks, Resets, StatusRead, StatusWritten
<1>5. k.id \in Ids
  BY <1>1 DEF CallRecords
<1> QED BY <1>2, <1>3, <1>4, <1>5, WritesKeep DEF EndInv, StoreOK

LEMMA TableKeeps ==
  ASSUME EndInv, (\E chosen \in SUBSET Ids : DeleteMany(chosen))
                 \/ (\E old, new \in Bindings : MigrateBinding(old, new))
  PROVE  EndInv'
<1>1. CASE \E chosen \in SUBSET Ids : DeleteMany(chosen)
  <2>1. PICK chosen \in SUBSET Ids : DeleteMany(chosen)
    BY <1>1
  <2>2. rows' = [id \in Ids |-> IF id \in chosen THEN NoRow ELSE rows[id]]
    BY <2>1, Sets DEF DeleteMany
  <2> QED BY <2>1, <2>2 DEF DeleteMany, EndInv, StoreOK, EndedIsTerminal, Tracked
<1>2. CASE \E old, new \in Bindings : MigrateBinding(old, new)
  <2>1. PICK old \in Bindings, new \in Bindings : MigrateBinding(old, new)
    BY <1>2
  <2>2. rows' = [id \in Ids |-> IF Tracked(id) /\ rows[id].name = old
                                THEN [rows[id] EXCEPT !.name = new] ELSE rows[id]]
    BY <2>1, Sets DEF MigrateBinding
  <2>3. rows' \in [Ids -> Row \union {NoRow}] /\ EndedIsTerminal'
    BY <2>2 DEF EndInv, StoreOK, EndedIsTerminal, Tracked, Row
  <2> QED BY <2>1, <2>3 DEF MigrateBinding, EndInv, StoreOK
<1> QED BY <1>1, <1>2

(* The steps of a run: what it does to its record, and to the row.           *)
RunStep(id) ==
  \/ RunStarts(id) \/ Resolves(id) \/ ResolveFails(id) \/ Progresses(id) \/ Raises(id)
  \/ Waits(id) \/ Approved(id) \/ ReportError(id) \/ Reported(id) \/ Reports(id)
  \/ ReportFails(id) \/ AutoReports(id) \/ RunErrs(id) \/ ReportComplete(id) \/ Returns(id)
  \/ Replayed(id)

LEMMA RunWrites ==
  ASSUME EndInv, NEW id \in Ids, RunStep(id)
  PROVE  Writes(id)
<1>1. Tracked(id) => Coherent(rows[id])
  BY DEF EndInv, EndedIsTerminal, Coherent
<1>2. CASE Progresses(id)
  BY <1>1, <1>2, CallbackWrites DEF Progresses, EndInv
<1>3. CASE Reports(id)
  BY <1>1, <1>3, CallbackWrites DEF Reports, EndInv
<1>4. CASE AutoReports(id)
  <2>1. ApplyCallback(id, "raised") \/ rows' = rows
    BY <1>4 DEF AutoReports
  <2> QED BY <1>1, <2>1, CallbackWrites DEF Writes, EndInv
<1>5. CASE ReportComplete(id)
  <2>1. ApplyCallback(id, "complete") \/ rows' = rows
    BY <1>5 DEF ReportComplete
  <2> QED BY <1>1, <2>1, CallbackWrites DEF Writes, EndInv
<1>6. CASE ~(Progresses(id) \/ Reports(id) \/ AutoReports(id) \/ ReportComplete(id))
  BY <1>6 DEF RunStep, RunStarts, Resolves, ResolveFails, Raises, Waits, Approved, ReportError,
     Reported, ReportFails, RunErrs, Returns, Replayed, Writes
<1> QED BY <1>2, <1>3, <1>4, <1>5, <1>6

LEMMA RunKeepsOthers ==
  ASSUME NEW id \in Ids, RunStep(id)
  PROVE  UNCHANGED <<clock, calls>>
BY DEF RunStep, RunStarts, Resolves, ResolveFails, Raises, Waits, Approved, ReportError, Reported,
   ReportFails, RunErrs, Returns, Replayed, Progresses, Reports, AutoReports, ReportComplete

\* A run that goes on keeps its instance; one that is over is forgotten.
LEMMA RunType ==
  ASSUME StoreOK, NEW id \in Ids, RunStep(id)
  PROVE  /\ \E i \in Instances : native' = [native EXCEPT ![id] = i]
         /\ \E r \in RunRecords \union {NoRun} : runs' = [runs EXCEPT ![id] = r]
<1> DEFINE Step == /\ \E i \in Instances : native' = [native EXCEPT ![id] = i]
                   /\ \E r \in RunRecords \union {NoRun} : runs' = [runs EXCEPT ![id] = r]
<1>0. /\ native \in [Ids -> Instances \union {NoInstance}] /\ runs \in [Ids -> RunRecords \union {NoRun}]
      /\ runs[id] # NoRun => native[id] \in Instances /\ runs[id] \in RunRecords
  BY DEF StoreOK
<1>1. NewRun \in RunRecords
  BY DEF NewRun, RunRecords
<1>2. CASE RunStarts(id)
  BY <1>0, <1>1, <1>2 DEF RunStarts, Instances, Statuses
<1>3. CASE Replayed(id)
  <2>1. native' = [native EXCEPT ![id].status = IF @ = "paused" THEN @ ELSE "running"]
    BY <1>3 DEF Replayed
  <2>2. \E st \in Statuses : native' = [native EXCEPT ![id].status = st]
    BY <1>0, <1>3, <2>1 DEF Replayed, Instances, Statuses
  <2> QED BY <1>0, <1>1, <1>3, <2>2 DEF Replayed, Instances
<1>4. CASE Waits(id)
  BY <1>0, <1>4 DEF Waits, Runs, At, Instances, Statuses, RunRecords
<1>5. CASE Resolves(id) \/ Raises(id) \/ Reported(id) \/ ReportFails(id)
  BY <1>0, <1>5 DEF Resolves, Raises, Reported, ReportFails, Runs, At, RunRecords
<1>6. CASE ResolveFails(id) \/ RunErrs(id) \/ Returns(id)
  BY <1>0, <1>6 DEF ResolveFails, RunErrs, Returns, Runs, Ends, Instances, Statuses
<1>7. CASE Progresses(id)
  BY <1>0, <1>7 DEF Progresses, Runs
<1>8. CASE ReportError(id)
  BY <1>0, <1>8 DEF ReportError, Runs, Noted, RunRecords
<1>9. CASE Approved(id)
  <2>1. native' = [native EXCEPT ![id].status = "running", ![id].events = Tail(@)]
    BY <1>9 DEF Approved
  <2>2. Tail(native[id].events) \in Seq(BOOLEAN)
    BY <1>0, <1>9, HeadTailProperties DEF Approved, Runs, Instances
  <2>3. \E r \in RunRecords : runs' = [runs EXCEPT ![id] = r]
    BY <1>0, <1>9 DEF Approved, Runs, Noted, RunRecords
  <2> QED BY <1>0, <1>9, <2>1, <2>2, <2>3 DEF Approved, Runs, Instances, Statuses
<1>10. CASE Reports(id)
  <2>1. \E r \in RunRecords : runs' = [runs EXCEPT ![id] = r]
    <3>1. runs' = [runs EXCEPT ![id].pc = "raise", ![id].told = @ \union {"reported"}]
      BY <1>10 DEF Reports
    <3>2. [runs[id] EXCEPT !.pc = "raise", !.told = @ \union {"reported"}] \in RunRecords
      BY <1>0, <1>10 DEF Reports, Runs, RunRecords
    <3> QED BY <1>0, <3>1, <3>2
  <2>2. \E i \in Instances : native' = [native EXCEPT ![id] = i]
    <3>1. native' = native \/ native' = [native EXCEPT ![id].steps = @ \union {"error"}]
      BY <1>10 DEF Reports
    <3>2. [native[id] EXCEPT !.steps = @ \union {"error"}] \in Instances /\ native[id] \in Instances
      BY <1>0, <1>10 DEF Reports, Runs, Instances
    <3>3. CASE native' = native
      <4>1. native' = [native EXCEPT ![id] = native[id]]
        BY <1>0, <3>3
      <4> QED BY <3>2, <4>1
    <3> QED BY <1>0, <3>1, <3>2, <3>3
  <2> QED BY <2>1, <2>2
<1>11. CASE AutoReports(id)
  BY <1>0, <1>11 DEF AutoReports, Runs, At, RunRecords
<1>12. CASE ReportComplete(id)
  BY <1>0, <1>12, ZenonT(30) DEF ReportComplete, Runs, At, RunRecords, Instances
<1> QED BY <1>2, <1>3, <1>4, <1>5, <1>6, <1>7, <1>8, <1>9, <1>10, <1>11, <1>12 DEF RunStep

LEMMA RunKeeps ==
  ASSUME EndInv, NEW id \in Ids, RunStep(id)
  PROVE  EndInv'
<1>1. StoreOK
  BY DEF EndInv
<1>2. rows' \in [Ids -> Row \union {NoRow}] /\ EndedIsTerminal'
  BY RunWrites, WritesKeep
<1>3. PICK i \in Instances : native' = [native EXCEPT ![id] = i]
  BY <1>1, RunType
<1>4. PICK r \in RunRecords \union {NoRun} : runs' = [runs EXCEPT ![id] = r]
  BY <1>1, RunType
<1>5. UNCHANGED <<clock, calls>>
  BY RunKeepsOthers
<1> QED BY <1>1, <1>2, <1>3, <1>4, <1>5 DEF EndInv, StoreOK

\* What a run was told for is behind its place: a report before it raises, the
\* error that ends it only when nothing was noted as reported.
ToldOnce ==
  \A id \in Ids : runs[id] # NoRun =>
    /\ runs[id].pc = "report" => runs[id].reported
    /\ \/ runs[id].told = {}
       \/ runs[id].told = {"reported"} /\ runs[id].reported
       \/ runs[id].told = {"raised"} /\ runs[id].pc = "errored"

LEMMA RunTellsOnce ==
  ASSUME EndInv, ToldOnce, NEW id \in Ids, RunStep(id)
  PROVE  ToldOnce'
<1>1. PICK r \in RunRecords \union {NoRun} : runs' = [runs EXCEPT ![id] = r]
  BY RunType DEF EndInv
<1>0. runs \in [Ids -> RunRecords \union {NoRun}]
  BY DEF EndInv, StoreOK
<1> DEFINE One(s) == s # NoRun =>
             /\ s.pc = "report" => s.reported
             /\ \/ s.told = {}
                \/ s.told = {"reported"} /\ s.reported
                \/ s.told = {"raised"} /\ s.pc = "errored"
<1>2. One(runs[id])
  BY DEF ToldOnce
<1>3. runs[id] # NoRun => runs[id] \in RunRecords
  BY <1>0
<1>4. One(runs'[id])
  <2>1. CASE RunStarts(id) \/ Replayed(id)
    BY <1>0, <2>1 DEF RunStarts, Replayed, NewRun
  <2>2. CASE ResolveFails(id) \/ RunErrs(id) \/ Returns(id)
    BY <1>0, <2>2 DEF ResolveFails, RunErrs, Returns, Ends
  <2>3. CASE Resolves(id) \/ Raises(id) \/ Reported(id) \/ ReportFails(id) \/ Waits(id)
             \/ ReportComplete(id)
    BY <1>0, <1>2, <1>3, <2>3 DEF Resolves, Raises, Reported, ReportFails, Waits, ReportComplete,
       Runs, At, RunRecords
  <2>4. CASE Progresses(id)
    BY <1>2, <2>4 DEF Progresses
  <2>5. CASE Approved(id) \/ ReportError(id)
    <3>1. runs[id] \in RunRecords /\ runs[id].pc \in {"run", "wait"}
      BY <1>3, <2>5 DEF Approved, ReportError, Runs
    <3>2. runs'[id] = [runs[id] EXCEPT !.pc = "run"] \/ runs'[id] = Noted(runs[id])
      BY <1>0, <2>5 DEF Approved, ReportError
    <3>3. runs[id] # NoRun
      BY <2>5 DEF Approved, ReportError, Runs
    <3>4. runs[id].told = {} \/ (runs[id].told = {"reported"} /\ runs[id].reported)
      <4>1. runs[id].pc # "errored"
        BY <3>1
      <4>2. \/ runs[id].told = {}
            \/ runs[id].told = {"reported"} /\ runs[id].reported
            \/ runs[id].told = {"raised"} /\ runs[id].pc = "errored"
        BY <3>3 DEF ToldOnce
      <4> QED BY <4>1, <4>2
    <3>5. /\ runs'[id].told = runs[id].told
          /\ \/ runs'[id].pc = "run" /\ runs'[id].reported = runs[id].reported
             \/ runs'[id].pc = "report" /\ runs'[id].reported
      BY <3>1, <3>2 DEF Noted, RunRecords
    <3> QED BY <3>4, <3>5
  <2>6. CASE Reports(id)
    <3>1. runs'[id] = [runs[id] EXCEPT !.pc = "raise", !.told = @ \union {"reported"}]
      BY <1>0, <2>6 DEF Reports
    <3>2. runs[id].reported /\ (runs[id].told = {} \/ runs[id].told = {"reported"})
      BY <1>2, <2>6 DEF Reports, Runs
    <3>3. runs[id] \in RunRecords
      BY <1>3, <2>6 DEF Reports, Runs
    <3>4. runs'[id].pc = "raise" /\ runs'[id].reported /\ runs'[id].told = {"reported"}
      BY <3>1, <3>2, <3>3 DEF RunRecords
    <3> QED BY <3>4
  <2>7. CASE AutoReports(id)
    <3>1. CASE ~runs[id].reported /\ runs' = [runs EXCEPT ![id].pc = "errored", ![id].told = @ \union {"raised"}]
      <4>1. runs[id].told = {}
        BY <1>2, <2>7, <3>1 DEF AutoReports, Runs
      <4> QED BY <1>0, <1>3, <2>7, <3>1, <4>1 DEF AutoReports, Runs, RunRecords
    <3>2. CASE At(id, "errored")
      BY <1>0, <1>2, <1>3, <2>7, <3>2 DEF AutoReports, Runs, At, RunRecords
    <3> QED BY <2>7, <3>1, <3>2 DEF AutoReports
  <2> QED BY <2>1, <2>2, <2>3, <2>4, <2>5, <2>6, <2>7 DEF RunStep
<1>5. \A i \in Ids : i # id => runs'[i] = runs[i]
  BY <1>0, <1>1
<1> QED BY <1>4, <1>5 DEF ToldOnce

(* Everything else leaves the runs alone, or takes one away.                 *)
Ending == EndInv /\ ToldOnce

LEMMA EndingInit == Init => Ending
<1> SUFFICES ASSUME Init PROVE Ending
  OBVIOUS
<1>1. (CHOOSE name \in Bindings : TRUE) \in Bindings
  BY WorkflowsAssumption
<1>2. rows \in [Ids -> Row \union {NoRow}]
  BY <1>1, WorkflowsAssumption DEF Init, Row, Statuses, Errors
<1>3. native \in [Ids -> Instances \union {NoInstance}]
  BY EmptySeq DEF Init, Instances, Statuses
<1>4. EndedIsTerminal
  BY DEF Init, EndedIsTerminal, Tracked, Terminal
<1> QED BY <1>2, <1>3, <1>4, WorkflowsAssumption DEF Init, Ending, EndInv, StoreOK, ToldOnce

LEMMA CallsLeaveRuns ==
  ASSUME EndInv, NEW c \in Callers,
         \/ \E id \in Ids : \E op, name : Call(c, op, id, name)
         \/ NativeAnswers(c) \/ NativeFails(c) \/ Tracks(c) \/ Resets(c) \/ StatusRead(c)
         \/ StatusWritten(c)
  PROVE  runs' = runs \/ \E id \in Ids : runs' = [runs EXCEPT ![id] = NoRun]
<1>1. CASE NativeAnswers(c) \/ NativeFails(c)
  <2>1. runs' = runs \/ runs' = [runs EXCEPT ![calls[c].id] = NoRun]
    BY <1>1 DEF NativeAnswers, NativeFails, Done
  <2>2. calls[c].id \in Ids
    BY <1>1 DEF NativeAnswers, NativeFails, EndInv, StoreOK, CallRecords
  <2> QED BY <2>1, <2>2
<1>2. CASE ~(NativeAnswers(c) \/ NativeFails(c))
  BY <1>2 DEF Call, Tracks, Resets, StatusRead, StatusWritten
<1> QED BY <1>1, <1>2

LEMMA EndingStep == Ending /\ [Next]_vars => Ending'
<1> SUFFICES ASSUME Ending, [Next]_vars PROVE Ending'
  OBVIOUS
<1>0. EndInv /\ ToldOnce
  BY DEF Ending
<1>1. CASE Operation
  <2>1. EndInv' /\ (runs' = runs \/ \E id \in Ids : runs' = [runs EXCEPT ![id] = NoRun])
    <3>1. CASE \E c \in Callers, id \in Ids :
                 \/ \E name \in Bindings : Call(c, "run", id, name)
                 \/ \E op \in Controls \union {"look", "approve", "reject"} : Call(c, op, id, Any)
      <4>1. PICK c \in Callers :
                 \/ \E id \in Ids, name \in Bindings : Call(c, "run", id, name)
                 \/ \E id \in Ids, op \in Controls \union {"look", "approve", "reject"} :
                      Call(c, op, id, Any)
        BY <3>1
      <4> QED BY <1>0, <4>1, CallKeeps, CallsLeaveRuns
    <3>2. CASE \E c \in Callers :
        NativeAnswers(c) \/ NativeFails(c) \/ Tracks(c) \/ Resets(c) \/ StatusRead(c) \/ StatusWritten(c)
      BY <1>0, <3>2, AnswerKeeps, OutcomeKeeps, CallsLeaveRuns
    <3>3. CASE \E id \in Ids : DeleteWorkflow(id)
      <4>1. \E chosen \in SUBSET Ids : DeleteMany(chosen)
        BY <3>3 DEF DeleteWorkflow
      <4> QED BY <1>0, <4>1, TableKeeps DEF DeleteMany
    <3>4. CASE \E status \in Statuses, name \in Bindings \union {Any}, before \in 1..MaxSeconds :
                 DeleteWorkflows(status, name, before)
      <4>1. PICK status \in Statuses, name \in Bindings \union {Any}, before \in 1..MaxSeconds :
                 DeleteWorkflows(status, name, before)
        BY <3>4
      <4>2. \E chosen \in SUBSET Ids : DeleteMany(chosen)
        <5> DEFINE chosen == {id \in Ids : Tracked(id) /\ rows[id].status = status
                                /\ name \in {Any, rows[id].name} /\ rows[id].created < before}
        <5>1. chosen \in SUBSET Ids /\ DeleteMany(chosen)
          BY <4>1 DEF DeleteWorkflows
        <5> HIDE DEF chosen
        <5> QED BY <5>1
      <4> QED BY <1>0, <4>2, TableKeeps DEF DeleteMany
    <3>5. CASE \E old, new \in Bindings : old # new /\ MigrateBinding(old, new)
      BY <1>0, <3>5, TableKeeps DEF MigrateBinding
    <3> QED BY <1>1, <3>1, <3>2, <3>3, <3>4, <3>5 DEF Operation
  <2>2. runs \in [Ids -> RunRecords \union {NoRun}]
    BY <1>0 DEF EndInv, StoreOK
  <2> QED BY <1>0, <2>1, <2>2 DEF Ending, ToldOnce
<1>2. CASE Run
  <2>1. PICK id \in Ids : RunStep(id)
    BY <1>2 DEF Run, RunStep
  <2> QED BY <1>0, <2>1, RunKeeps, RunTellsOnce DEF Ending
<1>3. CASE Read \/ UNCHANGED vars
  <2>1. UNCHANGED <<rows, clock, native, runs, calls>>
    BY <1>3 DEF Read, ListFirst, ListNext, vars
  <2> QED BY <1>0, <2>1 DEF Ending, EndInv, StoreOK, EndedIsTerminal, Tracked, ToldOnce
<1>4. CASE AgentEvicted
  BY <1>0, <1>4 DEF AgentEvicted, Ending, EndInv, StoreOK, EndedIsTerminal, Tracked, ToldOnce
<1>5. CASE Tick
  BY <1>0, <1>5, WorkflowsAssumption DEF Tick, Ending, EndInv, StoreOK, EndedIsTerminal, Tracked, ToldOnce
<1> QED BY <1>1, <1>2, <1>3, <1>4, <1>5 DEF Next

LEMMA EndingAlways == Spec => []Ending
<1> QED BY EndingInit, EndingStep, PTL DEF Spec

\* How a workflow ended is in its row exactly when its status is final,
\* whichever of calls, callbacks and restarts wrote last; and a run tells its
\* agent of its error once, also when the report's answer was lost
\* (apply_callback, update_status and reset_for_restart of the ledger;
\* report_error and _auto_report_error of the run).
THEOREM EndsTold == Spec => []EndsAreTold
<1>1. Ending => EndsAreTold
  <2> SUFFICES ASSUME Ending PROVE EndsAreTold
    OBVIOUS
  <2>1. EndedIsTerminal
    BY DEF Ending, EndInv
  <2>2. ErrorToldOnce
    <3> SUFFICES ASSUME NEW id \in Ids, runs[id] # NoRun PROVE Cardinality(runs[id].told) <= 1
      BY DEF ErrorToldOnce
    <3>1. runs[id].told \in {{}, {"reported"}, {"raised"}}
      BY DEF Ending, ToldOnce
    <3>2. Cardinality({}) = 0 /\ Cardinality({"reported"}) = 1 /\ Cardinality({"raised"}) = 1
      BY FS_EmptySet, FS_Singleton
    <3> QED BY <3>1, <3>2
  <2> QED BY <2>1, <2>2 DEF EndsAreTold
<1> QED BY <1>1, EndingAlways, PTL

-----------------------------------------------------------------------------
(* Workflows: the pages.  First, a finite set with a strict total order has a *)
(* first element.                                                          *)
LEMMA FiniteFirst ==
  ASSUME NEW D, IsFiniteSet(D), D # {}, NEW R,
         \A x \in D : <<x, x>> \notin R,
         \A x, y, z \in D : <<x, y>> \in R /\ <<y, z>> \in R => <<x, z>> \in R,
         \A x, y \in D : x = y \/ <<x, y>> \in R \/ <<y, x>> \in R
  PROVE  \E m \in D : \A x \in D : x = m \/ <<m, x>> \in R
<1> DEFINE Upto(x) == {y \in D : y = x \/ <<y, x>> \in R}
           T == {Upto(x) : x \in D}
<1>1. IsWellFoundedOn(StrictSubsetOrdering(D), SUBSET D)
  BY FS_StrictSubsetOrderingWellFounded, FS_FiniteSubsetsOfFinite
<1>2. T \subseteq SUBSET D /\ T # {}
  <2>1. \A x \in D : Upto(x) \in SUBSET D
    OBVIOUS
  <2> HIDE DEF Upto
  <2> QED BY <2>1
<1>3. PICK a \in T : \A b \in T : <<b, a>> \notin StrictSubsetOrdering(D)
  <2> HIDE DEF T
  <2> QED BY <1>1, <1>2, WFMin
<1>4. PICK m \in D : a = Upto(m)
  BY <1>3
<1>5. \A x \in D : x = m \/ <<m, x>> \in R
  <2> SUFFICES ASSUME NEW x \in D, x # m, <<x, m>> \in R PROVE FALSE
    OBVIOUS
  <2>1. \A y \in Upto(x) : y \in Upto(m)
    OBVIOUS
  <2>2. m \in Upto(m) /\ m \notin Upto(x)
    OBVIOUS
  <2>3. Upto(x) \in SUBSET D /\ Upto(m) \in SUBSET D /\ Upto(x) \in T
    OBVIOUS
  <2> HIDE DEF Upto, T
  <2>4. <<Upto(x), Upto(m)>> \in StrictSubsetOrdering(D)
    BY <2>1, <2>2, <2>3 DEF StrictSubsetOrdering
  <2> QED BY <2>3, <2>4, <1>3, <1>4
<1> QED BY <1>5

\* The cursors of either order are in a strict total order, and what is beyond
\* in the one is behind in the other.
LEMMA BeyondOrders ==
  ASSUME NEW order \in {"asc", "desc"}, NEW a \in Cursors, NEW b \in Cursors, NEW c \in Cursors
  PROVE  /\ ~Beyond(order, a, a)
         /\ Beyond(order, a, b) /\ Beyond(order, b, c) => Beyond(order, a, c)
         /\ a = b \/ Beyond(order, a, b) \/ Beyond(order, b, a)
<1>1. \A k \in Cursors : /\ k.created \in Nat /\ k.id \in Nat
                         /\ k = [id |-> k.id, created |-> k.created]
  <2> SUFFICES ASSUME NEW k \in Cursors
               PROVE  k.created \in Nat /\ k.id \in Nat /\ k = [id |-> k.id, created |-> k.created]
    OBVIOUS
  <2>1. Ids \subseteq Nat
    BY WorkflowsAssumption
  <2>2. k.created \in 0..MaxSeconds /\ k.id \in Ids /\ k = [id |-> k.id, created |-> k.created]
    BY DEF Cursors
  <2>3. MaxSeconds \in Nat
    BY WorkflowsAssumption
  <2> QED BY <2>1, <2>2, <2>3
<1>2. a = b <=> a.id = b.id /\ a.created = b.created
  BY <1>1
<1>3. b = c <=> b.id = c.id /\ b.created = c.created
  BY <1>1
<1>4. a = c <=> a.id = c.id /\ a.created = c.created
  BY <1>1
<1>5. CASE order = "asc"
  BY <1>1, <1>2, <1>3, <1>4, <1>5 DEF Beyond
<1>6. CASE order = "desc"
  BY <1>1, <1>2, <1>3, <1>4, <1>6 DEF Beyond
<1> QED BY <1>5, <1>6

LEMMA KeyType ==
  ASSUME StoreOK, NEW id \in Ids, Tracked(id)
  PROVE  Key(id) \in Cursors /\ Key(id).id = id
BY WorkflowsAssumption DEF StoreOK, Tracked, Row, Key, Cursors

\* Of some tracked rows one comes first, and one last.
LEMMA Extremes ==
  ASSUME StoreOK, NEW order \in {"asc", "desc"}, NEW D \in SUBSET Ids, D # {},
         \A id \in D : Tracked(id)
  PROVE  /\ \E m \in D : \A x \in D : x = m \/ Beyond(order, Key(x), Key(m))
         /\ \E m \in D : \A x \in D : x = m \/ Beyond(order, Key(m), Key(x))
<1>1. IsFiniteSet(D)
  BY FS_Subset, WorkflowsAssumption
<1>2. \A x \in D : Key(x) \in Cursors
  BY KeyType
<1>3. \A x, y \in D : Key(x) = Key(y) => x = y
  <2> SUFFICES ASSUME NEW x \in D, NEW y \in D, Key(x) = Key(y) PROVE x = y
    OBVIOUS
  <2> QED BY KeyType
<1> DEFINE Up == {p \in D \X D : Beyond(order, Key(p[2]), Key(p[1]))}
           Down == {p \in D \X D : Beyond(order, Key(p[1]), Key(p[2]))}
<1>4. \A x, y \in D : /\ <<x, y>> \in Up <=> Beyond(order, Key(y), Key(x))
                      /\ <<x, y>> \in Down <=> Beyond(order, Key(x), Key(y))
  OBVIOUS
<1> HIDE DEF Up, Down
<1>5. \A x, y, z \in D :
        /\ ~Beyond(order, Key(x), Key(x))
        /\ Beyond(order, Key(x), Key(y)) /\ Beyond(order, Key(y), Key(z)) => Beyond(order, Key(x), Key(z))
        /\ x = y \/ Beyond(order, Key(x), Key(y)) \/ Beyond(order, Key(y), Key(x))
  BY <1>2, <1>3, BeyondOrders, Zenon
<1>6. \E m \in D : \A x \in D : x = m \/ <<m, x>> \in Up
  <2>1. /\ \A x \in D : <<x, x>> \notin Up
        /\ \A x, y, z \in D : <<x, y>> \in Up /\ <<y, z>> \in Up => <<x, z>> \in Up
        /\ \A x, y \in D : x = y \/ <<x, y>> \in Up \/ <<y, x>> \in Up
    BY <1>4, <1>5, Zenon
  <2> QED BY <1>1, <2>1, FiniteFirst
<1>7. \E m \in D : \A x \in D : x = m \/ <<m, x>> \in Down
  <2>1. /\ \A x \in D : <<x, x>> \notin Down
        /\ \A x, y, z \in D : <<x, y>> \in Down /\ <<y, z>> \in Down => <<x, z>> \in Down
        /\ \A x, y \in D : x = y \/ <<x, y>> \in Down \/ <<y, x>> \in Down
    BY <1>4, <1>5, Zenon
  <2> QED BY <1>1, <2>1, FiniteFirst
<1> QED BY <1>4, <1>6, <1>7

(* The reader: what it had is not past its cursor, what is due is.           *)
Placed(w) ==
  /\ w \in Walks
  /\ \A id \in w.had : Matches(rows[id], w) /\ ~PastCursor(w, Key(id))
  /\ \A id \in w.due : Matches(rows[id], w) /\ PastCursor(w, Key(id))

ReaderOK == walk # NoWalk => Placed(walk)

\* The page that is turned: its rows are not past the next cursor, and every
\* other row that was left is.
LEMMA PageCuts ==
  ASSUME StoreOK, NEW w \in Walks, Page(w) # Left(w)
  PROVE  \E last \in Page(w) :
           /\ last = CHOOSE id \in Page(w) : \A o \in Page(w) : o = id \/ Beyond(w.order, Key(id), Key(o))
           /\ \A o \in Page(w) : ~Beyond(w.order, Key(o), Key(last))
           /\ \A o \in Left(w) \ Page(w) : Beyond(w.order, Key(o), Key(last))
<1>1. w.order \in {"asc", "desc"} /\ w.limit \in Nat \ {0}
  BY DEF Walks
<1>2. Left(w) \in SUBSET Ids /\ \A id \in Left(w) : Tracked(id)
  BY DEF Left, Matches, Tracked
<1>3. Page(w) \subseteq Left(w)
  BY DEF Page
<1>4. \A id \in Left(w) : Key(id) \in Cursors
  BY <1>2, KeyType
<1> DEFINE Before(id) == {o \in Left(w) : Beyond(w.order, Key(id), Key(o))}
<1>5. \A id \in Left(w) : id \in Page(w) <=> Cardinality(Before(id)) < w.limit
  BY DEF Page
<1>6. \A id : IsFiniteSet(Before(id)) /\ Cardinality(Before(id)) \in Nat
  BY <1>2, FS_Subset, FS_CardinalityType, WorkflowsAssumption
<1>7. Page(w) # {}
  <2>1. PICK m \in Left(w) : \A x \in Left(w) : x = m \/ Beyond(w.order, Key(x), Key(m))
    BY <1>1, <1>2, <1>3, Extremes
  <2>2. \A x \in Left(w) : ~Beyond(w.order, Key(m), Key(x))
    BY <1>1, <1>4, <2>1, BeyondOrders, Zenon
  <2>3. Before(m) = {}
    BY <2>2
  <2> QED BY <1>1, <1>5, <2>3, FS_EmptySet
<1> DEFINE last == CHOOSE id \in Page(w) : \A o \in Page(w) : o = id \/ Beyond(w.order, Key(id), Key(o))
<1>8. last \in Page(w) /\ \A o \in Page(w) : o = last \/ Beyond(w.order, Key(last), Key(o))
  <2>1. \E id \in Page(w) : \A o \in Page(w) : o = id \/ Beyond(w.order, Key(id), Key(o))
    BY <1>1, <1>2, <1>3, <1>7, Extremes
  <2> QED BY <2>1
<1> HIDE DEF last
<1>9. \A o \in Page(w) : ~Beyond(w.order, Key(o), Key(last))
  BY <1>1, <1>3, <1>4, <1>8, BeyondOrders, Zenon
<1>10. ASSUME NEW o \in Left(w), o \notin Page(w)
       PROVE  Beyond(w.order, Key(o), Key(last))
  <2>1. last \in Left(w) /\ o # last
    BY <1>3, <1>8, <1>10
  <2>2. Key(o) # Key(last)
    BY <1>2, <2>1, KeyType
  <2>3. SUFFICES ASSUME Beyond(w.order, Key(last), Key(o)) PROVE FALSE
    BY <1>1, <1>4, <2>1, <2>2, BeyondOrders
  <2>4. \A x \in Left(w) : Beyond(w.order, Key(o), Key(x)) => Beyond(w.order, Key(last), Key(x))
    BY <1>1, <1>4, <2>1, <2>3, BeyondOrders, Zenon
  <2>5. Before(o) \subseteq Before(last)
    BY <2>4
  <2>6. Cardinality(Before(o)) <= Cardinality(Before(last))
    <3> HIDE DEF Before
    <3> QED BY <1>6, <2>5, FS_Subset
  <2>7. Cardinality(Before(last)) < w.limit
    BY <1>5, <1>8, <2>1
  <2>8. ~(Cardinality(Before(o)) < w.limit)
    BY <1>5, <1>10
  <2>9. Cardinality(Before(o)) \in Nat /\ Cardinality(Before(last)) \in Nat /\ w.limit \in Nat
    BY <1>1, <1>6
  <2> HIDE DEF Before
  <2> QED BY <2>6, <2>7, <2>8, <2>9
<1> QED BY <1>8, <1>9, <1>10 DEF last

\* A page moves its rows from what is due to what the reader had.
LEMMA TurnedPlaces ==
  ASSUME StoreOK, NEW w \in Walks, Placed(w), w.cursor = Any => w.had = {}, Turned(w),
         UNCHANGED rows
  PROVE  /\ walk' # NoWalk => Placed(walk)' /\ walk'.cursor # Any
         /\ walk' = NoWalk => Page(w) = Left(w)
<1>1. CASE Page(w) = Left(w)
  BY <1>1 DEF Turned
<1>2. CASE Page(w) # Left(w)
  <2>1. PICK last \in Page(w) :
           /\ last = CHOOSE id \in Page(w) : \A o \in Page(w) : o = id \/ Beyond(w.order, Key(id), Key(o))
           /\ \A o \in Page(w) : ~Beyond(w.order, Key(o), Key(last))
           /\ \A o \in Left(w) \ Page(w) : Beyond(w.order, Key(o), Key(last))
    BY <1>2, PageCuts
  <2> DEFINE had == w.had \union (w.due \intersect Page(w))
             due == w.due \ Page(w)
             new == [w EXCEPT !.cursor = Key(last), !.had = had, !.due = due]
  <2>2. walk' = new
    BY <1>2, <2>1 DEF Turned
  <2>3. last \in Ids /\ Tracked(last) /\ PastCursor(w, Key(last))
    BY DEF Page, Left, Matches, Tracked
  <2>4. Key(last) \in Cursors
    BY <2>3, KeyType
  <2>5. w.had \subseteq Ids /\ w.due \subseteq Ids /\ w.order \in {"asc", "desc"}
        /\ (w.cursor = Any \/ w.cursor \in Cursors)
    BY DEF Walks
  <2>6. /\ new \in Walks /\ new.had = had /\ new.due = due /\ new.name = w.name
        /\ new.order = w.order /\ new.cursor = Key(last)
    <3>1. had \in SUBSET Ids /\ due \in SUBSET Ids
      BY <2>5
    <3> HIDE DEF had, due
    <3> QED BY <2>4, <3>1 DEF Walks
  <2>7. Key(last) # Any
    BY <2>4, WorkflowsAssumption
  <2>8. ASSUME NEW id \in had
        PROVE  Matches(rows[id], w) /\ ~Beyond(w.order, Key(id), Key(last))
    <3>1. CASE id \in w.had
      <4>1. id \in Ids /\ Matches(rows[id], w) /\ ~PastCursor(w, Key(id))
        BY <2>5, <3>1 DEF Placed
      <4>2. Key(id) \in Cursors
        BY <4>1, KeyType DEF Matches, Tracked
      <4>3. w.cursor \in Cursors /\ ~Beyond(w.order, Key(id), w.cursor)
            /\ Beyond(w.order, Key(last), w.cursor)
        BY <2>3, <2>5, <3>1, <4>1 DEF PastCursor
      <4> QED BY <2>4, <2>5, <4>1, <4>2, <4>3, BeyondOrders
    <3>2. CASE id \in w.due \intersect Page(w)
      BY <2>1, <3>2 DEF Placed
    <3> QED BY <2>8, <3>1, <3>2
  <2>9. ASSUME NEW id \in due
        PROVE  Matches(rows[id], w) /\ Beyond(w.order, Key(id), Key(last))
    <3>1. id \in Left(w) \ Page(w)
      BY <2>5, <2>9 DEF Placed, Left
    <3> QED BY <2>1, <2>9, <3>1 DEF Placed
  <2> HIDE DEF had, due, new
  <2>10. Placed(walk)'
    <3>1. \A id \in new.had : Matches(rows[id], new) /\ ~PastCursor(new, Key(id))
      BY <2>6, <2>7, <2>8 DEF Matches, PastCursor
    <3>2. \A id \in new.due : Matches(rows[id], new) /\ PastCursor(new, Key(id))
      BY <2>6, <2>7, <2>9 DEF Matches, PastCursor
    <3> QED BY <2>2, <2>6, <3>1, <3>2 DEF Placed, Key
  <2>11. walk' # NoWalk
    BY <2>2, <2>6, WorkflowsAssumption
  <2> QED BY <2>2, <2>6, <2>7, <2>10, <2>11
<1> QED BY <1>1, <1>2

\* A write takes from the reader the rows that it moves, and places none anew.
LEMMA WritesPlace ==
  ASSUME NEW new, SetRows(new), ReaderOK
  PROVE  ReaderOK' /\ (walk' # NoWalk => walk # NoWalk /\ walk'.cursor = walk.cursor)
<1>1. CASE walk = NoWalk
  BY <1>1 DEF SetRows, ReaderOK
<1>2. CASE walk # NoWalk
  <2> DEFINE stays(id) == Matches(new[id], walk) /\ new[id].created = rows[id].created
             had == {id \in walk.had : stays(id)}
             due == {id \in walk.due : stays(id)}
  <2>1. walk \in Walks /\ Placed(walk)
    BY <1>2 DEF ReaderOK, Placed
  <2>2. walk' = [walk EXCEPT !.had = had, !.due = due] /\ rows' = new
    BY <1>2 DEF SetRows
  <2>3. had \subseteq walk.had /\ due \subseteq walk.due /\ \A id \in had \union due : stays(id)
    OBVIOUS
  <2> HIDE DEF had, due
  <2>4. /\ walk' \in Walks /\ walk'.had = had /\ walk'.due = due /\ walk'.name = walk.name
        /\ walk'.order = walk.order /\ walk'.cursor = walk.cursor
    BY <2>1, <2>2, <2>3 DEF Walks
  <2>5. \A id \in had \union due : Matches(rows'[id], walk') /\ Key(id)' = Key(id)
    BY <2>2, <2>3, <2>4 DEF Matches, Key
  <2>6. \A id \in had \union due : PastCursor(walk, Key(id))' <=> PastCursor(walk, Key(id))
    BY <2>4, <2>5 DEF PastCursor
  <2>7. Placed(walk)'
    BY <2>1, <2>3, <2>4, <2>5, <2>6 DEF Placed
  <2> QED BY <1>2, <2>4, <2>7 DEF ReaderOK
<1> QED BY <1>1, <1>2

\* Whatever writes a row writes it in the one way that a reader sees.
Touches == UNCHANGED <<rows, walk>> \/ \E new : SetRows(new)

LEMMA StepTouches ==
  ASSUME Operation \/ Run
  PROVE  Touches
<1>1. \A id, status : UpdateStatus(id, status) => Touches
  BY Zenon DEF UpdateStatus, Update, Touches
<1>2. \A id : ResetForRestart(id) => Touches
  BY Zenon DEF ResetForRestart, Update, Touches
<1>3. \A id, kind : ApplyCallback(id, kind) => Touches
  <2> SUFFICES ASSUME NEW id, NEW kind, ApplyCallback(id, kind) PROVE Touches
    OBVIOUS
  <2>1. UNCHANGED <<rows, walk>> \/ \E new : Update(id, new)
    BY DEF ApplyCallback
  <2> QED BY <2>1, Zenon DEF Update, Touches
<1>4. \A id, name : Track(id, name) => Touches
  BY Zenon DEF Track, Update, Touches
<1>5. ASSUME NEW c \in Callers,
             NativeAnswers(c) \/ NativeFails(c) \/ Tracks(c) \/ Resets(c) \/ StatusRead(c) \/ StatusWritten(c)
      PROVE  Touches
  <2>1. CASE Tracks(c)
    <3>1. UNCHANGED <<rows, walk>> \/ Track(calls[c].id, calls[c].name)
      BY <2>1 DEF Tracks
    <3> QED BY <1>4, <3>1, Zenon DEF Touches
  <2>2. CASE Resets(c) \/ StatusWritten(c)
    BY <1>1, <1>2, <2>2 DEF Resets, StatusWritten
  <2>3. CASE NativeAnswers(c) \/ NativeFails(c) \/ StatusRead(c)
    BY <2>3 DEF NativeAnswers, NativeFails, StatusRead, Touches
  <2> QED BY <1>5, <2>1, <2>2, <2>3
<1>6. ASSUME NEW id \in Ids, RunStep(id)
      PROVE  Touches
  <2>1. CASE Progresses(id) \/ Reports(id)
    BY <1>3, <2>1 DEF Progresses, Reports
  <2>2. CASE AutoReports(id) \/ ReportComplete(id)
    <3>1. (\E kind : ApplyCallback(id, kind)) \/ UNCHANGED <<rows, walk>>
      BY <2>2 DEF AutoReports, ReportComplete
    <3> QED BY <1>3, <3>1 DEF Touches
  <2>3. CASE ~(Progresses(id) \/ Reports(id) \/ AutoReports(id) \/ ReportComplete(id))
    BY <1>6, <2>3 DEF RunStep, RunStarts, Resolves, ResolveFails, Raises, Waits, Approved, ReportError,
       Reported, ReportFails, RunErrs, Returns, Replayed, Touches
  <2> QED BY <2>1, <2>2, <2>3
<1>7. CASE \E c \in Callers, id \in Ids : \E op, name : Call(c, op, id, name)
  BY <1>7 DEF Call, Touches
<1>8. CASE \E chosen : DeleteMany(chosen)
  BY <1>8, Zenon DEF DeleteMany, Touches
<1>9. CASE \E old, new : MigrateBinding(old, new)
  BY <1>9, Zenon DEF MigrateBinding, Touches
<1>10. CASE Operation
  BY <1>5, <1>7, <1>8, <1>9, <1>10, Zenon DEF Operation, DeleteWorkflow, DeleteWorkflows
<1>11. CASE Run
  <2>1. PICK id \in Ids : RunStep(id)
    BY <1>11 DEF Run, RunStep
  <2> QED BY <1>6, <2>1
<1> QED BY <1>10, <1>11

Reading == Ending /\ ReaderOK /\ (walk # NoWalk => walk.cursor # Any)

LEMMA ReadingStep == Reading /\ [Next]_vars => Reading'
<1> SUFFICES ASSUME Reading, [Next]_vars PROVE Reading'
  OBVIOUS
<1>1. Ending /\ StoreOK /\ ReaderOK /\ Ending'
  BY EndingStep DEF Reading, Ending, EndInv
<1>2. CASE \E new : SetRows(new)
  BY <1>1, <1>2, WritesPlace DEF Reading
<1>3. CASE UNCHANGED <<rows, walk>>
  BY <1>1, <1>3 DEF Reading, ReaderOK, Placed, Matches, PastCursor, Key
<1>4. CASE \E order \in {"asc", "desc"}, limit \in 1..Cardinality(Ids), name \in Filters :
             ListFirst(order, limit, name)
  <2>1. PICK order \in {"asc", "desc"}, limit \in 1..Cardinality(Ids), name \in Filters :
             ListFirst(order, limit, name)
    BY <1>4
  <2> DEFINE w == [order |-> order, limit |-> limit, name |-> name, cursor |-> Any, had |-> {},
                   due |-> {}]
             f == [order |-> order, limit |-> limit, name |-> name, cursor |-> Any, had |-> {},
                   due |-> {id \in Ids : Matches(rows[id], w)}]
  <2>2. f = [w EXCEPT !.due = {id \in Ids : Matches(rows[id], w)}]
    OBVIOUS
  <2>3. Turned(f) /\ UNCHANGED rows
    <3> HIDE DEF f
    <3> QED BY <2>1, <2>2 DEF ListFirst
  <2>4. \A id \in Ids : Matches(rows[id], w) <=> Matches(rows[id], f)
    BY DEF Matches
  <2>5. /\ f \in Walks /\ f.cursor = Any /\ f.had = {}
        /\ \A id \in f.due : Matches(rows[id], f)
    BY <2>4 DEF Walks
  <2>6. Placed(f)
    <3> HIDE DEF f
    <3> QED BY <2>5 DEF Placed, PastCursor
  <2> HIDE DEF f
  <2> QED BY <1>1, <2>3, <2>5, <2>6, TurnedPlaces DEF Reading, ReaderOK
<1>5. CASE ListNext
  <2>1. walk \in Walks /\ Placed(walk) /\ walk.cursor # Any /\ Turned(walk) /\ UNCHANGED rows
    BY <1>5 DEF ListNext, Reading, ReaderOK, Placed
  <2> QED BY <1>1, <2>1, TurnedPlaces DEF Reading, ReaderOK
<1>6. CASE AgentEvicted
  BY <1>1, <1>6 DEF AgentEvicted, Reading, ReaderOK
<1> QED BY <1>2, <1>3, <1>4, <1>5, <1>6, StepTouches DEF Next, Read, Tick, vars, Touches

\* Every page of get_workflows goes on where the one before ended: a row that
\* stays as it is comes in exactly one of them, however rows of the same
\* second are written, deleted and restarted meanwhile (the cursor of
\* get_workflows in agents/workflows.py, created_at and workflow_id).
THEOREM PagesAreExact == Spec => PagesListEachOnce
<1>1. Init => Reading
  BY EndingInit DEF Init, Reading, ReaderOK
<1>2. Reading /\ [Next]_vars =>
        [ListNext => /\ Page(walk) \intersect walk.had = {}
                     /\ walk' = NoWalk => walk.due \subseteq Page(walk)]_vars
  <2> SUFFICES ASSUME Reading, ListNext
               PROVE  /\ Page(walk) \intersect walk.had = {}
                      /\ walk' = NoWalk => walk.due \subseteq Page(walk)
    OBVIOUS
  <2>1. walk \in Walks /\ Placed(walk) /\ walk.cursor # Any /\ Turned(walk) /\ UNCHANGED rows /\ StoreOK
    BY DEF ListNext, Reading, ReaderOK, Placed, Ending, EndInv
  <2>2. walk' = NoWalk => Page(walk) = Left(walk)
    BY <2>1, TurnedPlaces
  <2>3. walk.due \subseteq Left(walk)
    BY <2>1 DEF Placed, Left, Walks
  <2>4. Page(walk) \intersect walk.had = {}
    BY <2>1 DEF Placed, Page, Left
  <2> QED BY <2>2, <2>3, <2>4
<1> QED BY <1>1, <1>2, ReadingStep, PTL DEF Spec, PagesListEachOnce

-----------------------------------------------------------------------------
(* Agent tools: types.                                                     *)

Askings ==
  [pc: {"idle", "called", "resolve", "start", "started", "inspect", "mirror", "recover", "wait",
        "woken", "done"},
   how: {"fresh", "resume", "restart", "recover"}, got: {"none", "running"} \union A!Hard,
   hard: BOOLEAN, at: Nat, skip: Nat, seq: Nat, abort: BOOLEAN,
   result: {"none", "cancelled"} \union A!Statuses]
TurnRecords ==
  [active: BOOLEAN, wrote: Nat, end: {"none", "completed", "error"}, abort: BOOLEAN,
   by: Parents \union {NoCaller}]

ToolTypes ==
  /\ row \in A!Rows \union {NoRow}
  /\ chunks \in Seq([seq: Nat, body: Nat \X Nat])
  /\ terminal \in Nat
  /\ owner \in Parents \union {NoCaller}
  /\ asking \in [Parents -> Askings]
  /\ frames \in [odd: {0, 1}, at: Nat]
  /\ crow \in {"none", "running"} \union A!Hard
  /\ cchunks \in Seq(Nat \X Nat)
  /\ cstream \in {"none", "streaming", "completed", "error"}
  /\ turns \in Seq(TurnRecords)
  /\ ran \in Nat

(* What the parent knows of the child: an owner has its row, as it left it;  *)
(* whoever is to start the child finds it without a run, and whoever copies  *)
(* finds it settled.                                                       *)
Knows(k) ==
  /\ k.pc \in {"called", "wait", "woken", "resolve", "start"} => ~k.hard
  /\ k.pc \in A!Owning \union {"wait", "woken"} => row # NoRow
  /\ k.pc \in A!Owning =>
       IF k.hard THEN row.status = "completed" /\ crow = "completed" ELSE row.status \notin A!Hard
  /\ k.pc \in {"resolve", "start"} => crow = "none"
  /\ k.pc = "mirror" => k.got = crow /\ crow \in A!Hard

ParentOK ==
  /\ \A c \in Parents : asking[c].pc \in A!Owning => owner = c
  /\ row = NoRow =>
       crow = "none" /\ chunks = <<>> /\ terminal = 0 /\ frames.at = 0 /\ owner = NoCaller
  /\ row # NoRow /\ row.status = "completed" /\ ~row.mirrored => crow = "completed"
  /\ \A c \in Parents : Knows(asking[c])

(* The child's chunks are those of one turn, and only the turn that executes *)
(* writes them.                                                            *)
ChildOK ==
  /\ \A i \in DOMAIN turns : turns[i].active => i = 1
  /\ \A i \in DOMAIN turns : ~turns[i].active => turns[i].wrote = 0
  /\ turns # <<>> => \/ turns[1].wrote = 0
                     \/ turns[1].wrote = Len(cchunks) /\ cchunks[1][1] = ran
  /\ \A i \in DOMAIN cchunks : cchunks[i] = <<cchunks[1][1], i - 1>>

(* What is copied is a prefix of it, and does not change once there is some. *)
CopyOK ==
  /\ chunks # <<>> => crow \in A!Hard
  /\ Len(chunks) <= Len(cchunks)
  /\ \A i \in DOMAIN chunks : chunks[i].body = cchunks[i]
  /\ \A c \in Parents : asking[c].pc = "mirror" =>
       asking[c].at <= Len(cchunks) /\ Len(chunks) = A!Max2(asking[c].at, asking[c].skip)

(* No frame is beyond the last sequence there is; a run that was not begun   *)
(* has one frame and no sequence.                                          *)
FramesOK ==
  /\ \/ frames.at <= A!Max2(A!LastSequence, terminal)
     \/ row # NoRow /\ row.status = "error" /\ owner = NoCaller /\ frames.at = 1
  /\ \A c \in Parents : asking[c].pc = "mirror" =>
       A!LastSequence < asking[c].seq /\ frames.at < asking[c].seq

LEMMA ToolConstants ==
  NoCaller \notin Parents /\ NoRow \notin A!Rows
BY StoresAssumption DEF A!AgentToolAssumption

LEMMA UncalledType == A!Uncalled \in Askings
BY DEF A!Uncalled, Askings, A!Hard, A!Statuses

LEMMA SequenceType ==
  ASSUME ToolTypes
  PROVE  /\ A!LastSequence \in Nat /\ A!NextSequence = A!LastSequence + 1
         /\ \A p \in Nat : /\ A!Recorded(p) \in Nat
                           /\ p > A!LastSequence => A!Recorded(p) > A!Max2(A!LastSequence, terminal)
         /\ A!Max2(A!LastSequence, terminal) \in Nat
<1>1. A!LastSequence \in Nat
  <2>1. CASE chunks = <<>>
    BY <2>1 DEF A!LastSequence
  <2>2. CASE chunks # <<>>
    <3>1. Len(chunks) \in 1..Len(chunks)
      BY <2>2, EmptySeq, LenProperties DEF ToolTypes
    <3>2. chunks[Len(chunks)] \in [seq: Nat, body: Nat \X Nat]
      BY <3>1, ElementOfSeq DEF ToolTypes
    <3> QED BY <2>2, <3>2 DEF A!LastSequence, A!Last
  <2> QED BY <2>1, <2>2
<1>2. terminal \in Nat
  BY DEF ToolTypes
<1> QED BY <1>1, <1>2 DEF A!NextSequence, A!Recorded, A!Max2

(* The ways a caller moves.                                                *)
Moved(c, k) == k \in Askings /\ asking' = [asking EXCEPT ![c] = k]

LEMMA MirroringMoves ==
  ASSUME ToolTypes, NEW c \in Parents, NEW how \in {"fresh", "resume", "restart", "recover"},
         NEW got \in {"none", "running"} \union A!Hard, A!Mirroring(c, how, got)
  PROVE  \E k \in Askings :
           /\ asking' = [asking EXCEPT ![c] = k] /\ k.pc = "mirror" /\ k.got = got
           /\ k.hard = asking[c].hard /\ k.at = 0 /\ k.skip = Len(chunks)
           /\ k.seq = A!Max2(A!LastSequence, terminal) + 1
<1> DEFINE k == [asking[c] EXCEPT !.pc = "mirror", !.how = how, !.got = got, !.at = 0,
                   !.skip = Len(chunks), !.seq = A!Max2(A!LastSequence, terminal) + 1]
<1>1. asking[c] \in Askings /\ Len(chunks) \in Nat
  BY LenProperties DEF ToolTypes
<1>2. A!Max2(A!LastSequence, terminal) + 1 \in Nat
  BY SequenceType
<1>3. /\ k \in Askings /\ k.pc = "mirror" /\ k.got = got /\ k.hard = asking[c].hard /\ k.at = 0
      /\ k.skip = Len(chunks) /\ k.seq = A!Max2(A!LastSequence, terminal) + 1
  BY <1>1, <1>2 DEF Askings
<1>4. asking' = [asking EXCEPT ![c] = k]
  BY DEF A!Mirroring
<1> HIDE DEF k
<1> QED BY <1>3, <1>4

\* A release leaves no caller at the child.
Freed == /\ owner' = NoCaller
         /\ asking' \in [Parents -> Askings]
         /\ \A d \in Parents : /\ asking'[d].pc \notin A!Owning
                               /\ asking'[d].pc \in {"called", "wait", "woken"} => ~asking'[d].hard

LEMMA ReleasedFrees ==
  ASSUME ToolTypes, ParentOK, NEW c \in Parents, asking[c].pc \in A!Owning,
         NEW result \in {"cancelled"} \union A!Statuses, A!Released(c, result)
  PROVE  /\ Freed /\ asking'[c].pc = "done" /\ asking'[c].result = result
         /\ \A d \in Parents : d # c => asking'[d].pc \in {"woken", asking[d].pc}
<1>1. asking' = [o \in Parents |-> IF o = c THEN A!Returned(c, result)
                                   ELSE IF asking[o].pc = "wait" THEN [asking[o] EXCEPT !.pc = "woken"]
                                   ELSE asking[o]]
      /\ owner' = NoCaller
  BY DEF A!Released
<1>2. /\ A!Returned(c, result) \in Askings /\ A!Returned(c, result).pc = "done"
      /\ A!Returned(c, result).result = result
  BY UncalledType DEF A!Returned, Askings
<1>3. \A d \in Parents : d # c => asking[d].pc \notin A!Owning
  BY DEF ParentOK
<1>4. \A d \in Parents : asking[d] \in Askings /\ (asking[d].pc \in {"called", "wait", "woken"} => ~asking[d].hard)
  BY DEF ToolTypes, ParentOK, Knows
<1>5. \A d \in Parents : /\ [asking[d] EXCEPT !.pc = "woken"] \in Askings
                         /\ [asking[d] EXCEPT !.pc = "woken"].pc = "woken"
                         /\ [asking[d] EXCEPT !.pc = "woken"].hard = asking[d].hard
  BY <1>4 DEF Askings
<1>6. asking' \in [Parents -> Askings]
  BY <1>1, <1>2, <1>4, <1>5
<1>7. "woken" \notin A!Owning /\ "done" \notin A!Owning
  BY DEF A!Owning
<1> HIDE DEF Askings
<1>8. \A d \in Parents : /\ asking'[d].pc \notin A!Owning
                         /\ asking'[d].pc \in {"called", "wait", "woken"} => ~asking'[d].hard
  BY <1>1, <1>2, <1>3, <1>4, <1>5, <1>7
<1>9. \A d \in Parents : d # c => asking'[d].pc \in {"woken", asking[d].pc}
  BY <1>1, <1>5
<1> QED BY <1>1, <1>2, <1>6, <1>8, <1>9 DEF Freed

\* The child is looked at: what it knows is kept, or forgotten as a whole, or
\* settled as its stream ended.
LEMMA ReconciledKeeps ==
  ASSUME ToolTypes, NEW r \in A!Reconciled
  PROVE  /\ r.crow \in {"none", "running"} \union A!Hard
         /\ r.cchunks \in Seq(Nat \X Nat)
         /\ r.cstream \in {"none", "streaming", "completed", "error"}
         /\ crow # "running" => r.crow = crow
         /\ \/ r.cchunks = cchunks
            \/ r.cchunks = <<>> /\ r.crow = "none" /\ crow = "running" /\ ~A!Executing
<1>1. CASE crow # "running" \/ A!Executing
  BY <1>1 DEF A!Reconciled, ToolTypes
<1>2. CASE crow = "running" /\ ~A!Executing
  <2>1. r \in A!Orphaned
    BY <1>2 DEF A!Reconciled
  <2>2. <<>> \in Seq(Nat \X Nat)
    BY EmptySeq
  <2>3. CASE cstream \in {"none", "streaming"}
    <3>1. r = [crow |-> "none", cchunks |-> <<>>,
               cstream |-> IF cstream = "streaming" THEN "error" ELSE cstream]
      BY <2>1, <2>3 DEF A!Orphaned
    <3> QED BY <1>2, <2>2, <2>3, <3>1
  <2>4. CASE cstream = "error"
    <3>1. r = [crow |-> "error", cchunks |-> cchunks, cstream |-> cstream]
      BY <2>1, <2>4 DEF A!Orphaned
    <3> QED BY <1>2, <2>4, <3>1 DEF ToolTypes, A!Hard
  <2>5. CASE cstream = "completed"
    <3>1. \E s \in {"completed", "error"} : r = [crow |-> s, cchunks |-> cchunks, cstream |-> cstream]
      BY <2>1, <2>5 DEF A!Orphaned
    <3> QED BY <1>2, <2>5, <3>1 DEF ToolTypes, A!Hard
  <2> QED BY <2>3, <2>4, <2>5 DEF ToolTypes
<1> QED BY <1>1, <1>2

\* What is left when the child cannot be asked.
LEMMA UnknownFrees ==
  ASSUME ToolTypes, ParentOK, NEW c \in Parents, asking[c].pc \in A!Owning, A!Unknown(c)
  PROVE  /\ Freed /\ asking'[c].pc = "done"
         /\ \A d \in Parents : d # c => asking'[d].pc \in {"woken", asking[d].pc}
         /\ \/ UNCHANGED <<row, terminal, frames>> /\ asking'[c].result = row.status
            \/ \E status \in {"aborted", "interrupted"} :
                 /\ row.status \notin A!Hard /\ row' = [row EXCEPT !.status = status]
                 /\ terminal' = A!Recorded(A!NextSequence) /\ A!Publish(terminal')
                 /\ asking'[c].result = status
<1>1. row \in A!Rows
  BY DEF ParentOK, Knows, ToolTypes
<1>2. row.status \in A!Statuses
  BY <1>1 DEF A!Rows
<1>3. CASE asking[c].hard
  <2>1. A!Released(c, row.status) /\ UNCHANGED <<row, terminal, frames>>
    BY <1>3 DEF A!Unknown, A!ReturnsRow
  <2> QED BY <1>2, <2>1, ReleasedFrees
<1>4. CASE ~asking[c].hard
  <2>1. PICK status \in {"aborted", "interrupted"} : A!Finish(c, status, A!NextSequence)
    BY <1>4 DEF A!Unknown
  <2>2. row.status \notin A!Hard
    BY <1>4 DEF ParentOK, Knows
  <2>3. A!Released(c, status) /\ status \in A!Statuses
    BY <2>1 DEF A!Finish, A!Statuses, A!Hard
  <2> QED BY <2>1, <2>2, <2>3, ReleasedFrees DEF A!Finish, A!IsHard
<1> QED BY <1>3, <1>4

-----------------------------------------------------------------------------
(* Agent tools: the child.                                                 *)

ChildTypes ==
  /\ crow \in {"none", "running"} \union A!Hard
  /\ cchunks \in Seq(Nat \X Nat)
  /\ cstream \in {"none", "streaming", "completed", "error"}
  /\ turns \in Seq(TurnRecords)
  /\ ran \in Nat

\* Chunks of a settled run stay; nothing begins a run but a start.
Stays ==
  /\ crow \in A!Hard =>
       /\ crow' = crow /\ Len(cchunks) <= Len(cchunks')
       /\ \A i \in DOMAIN cchunks : i \in DOMAIN cchunks' /\ cchunks'[i] = cchunks[i]
  /\ crow = "none" => crow' = "none"

LEMMA TurnsTyped ==
  ASSUME ToolTypes
  PROVE  /\ Len(turns) \in Nat /\ DOMAIN turns = 1..Len(turns)
         /\ \A i \in DOMAIN turns : turns[i] \in TurnRecords
         /\ turns # <<>> => 1 \in DOMAIN turns /\ Head(turns) = turns[1]
         /\ Len(cchunks) \in Nat /\ DOMAIN cchunks = 1..Len(cchunks)
         /\ \A i \in DOMAIN cchunks : cchunks[i] \in Nat \X Nat
BY EmptySeq, LenProperties, ElementOfSeq DEF ToolTypes

\* Turns that change, without one more and without a chunk.
LEMMA SameTurns ==
  ASSUME ToolTypes, ChildOK,
         turns' \in [DOMAIN turns -> TurnRecords],
         \A i \in DOMAIN turns : turns'[i].active = turns[i].active /\ turns'[i].wrote = turns[i].wrote,
         cchunks' = cchunks, ran' = ran
  PROVE  turns' \in Seq(TurnRecords) /\ ChildOK'
<1>1. DOMAIN turns = 1..Len(turns) /\ Len(turns) \in Nat /\ DOMAIN turns' = DOMAIN turns
  BY TurnsTyped
<1>2. turns' \in Seq(TurnRecords)
  BY <1>1, IsASeq
<1>3. turns' # <<>> => turns # <<>> /\ 1 \in DOMAIN turns
  BY <1>1, <1>2, TurnsTyped, EmptySeq, LenProperties
<1> QED BY <1>1, <1>2, <1>3 DEF ChildOK

\* The first turn leaves.
LEMMA TurnLeaves ==
  ASSUME ToolTypes, ChildOK, turns # <<>>, turns' = Tail(turns), cchunks' = cchunks, ran' = ran
  PROVE  turns' \in Seq(TurnRecords) /\ ChildOK'
<1>1. /\ Tail(turns) \in Seq(TurnRecords)
      /\ Len(Tail(turns)) = Len(turns) - 1
      /\ \A i \in 1..Len(Tail(turns)) : Tail(turns)[i] = turns[i + 1]
  BY HeadTailProperties DEF ToolTypes
<1>2. DOMAIN Tail(turns) = 1..Len(Tail(turns)) /\ (Tail(turns) # <<>> => 1 \in DOMAIN Tail(turns))
  BY <1>1, EmptySeq, LenProperties
<1>3. Len(turns) \in Nat /\ DOMAIN turns = 1..Len(turns)
  BY TurnsTyped
<1>4. \A i \in DOMAIN Tail(turns) :
        i \in Nat \ {0} /\ i + 1 \in DOMAIN turns /\ Tail(turns)[i] = turns[i + 1]
  BY <1>1, <1>2, <1>3
<1>5. \A i \in DOMAIN Tail(turns) : ~Tail(turns)[i].active /\ Tail(turns)[i].wrote = 0
  <2> SUFFICES ASSUME NEW i \in DOMAIN Tail(turns)
               PROVE  ~Tail(turns)[i].active /\ Tail(turns)[i].wrote = 0
    OBVIOUS
  <2>1. i + 1 \in DOMAIN turns /\ i + 1 # 1
    BY <1>4
  <2> QED BY <1>4, <2>1 DEF ChildOK
<1> HIDE DEF TurnRecords
<1> QED BY <1>1, <1>2, <1>5 DEF ChildOK

LEMMA ChildSeen ==
  ASSUME ToolTypes, ChildOK, NEW r \in A!Reconciled
  PROVE  \A i \in DOMAIN r.cchunks : r.cchunks[i] = <<r.cchunks[1][1], i - 1>>
BY ReconciledKeeps, EmptySeq DEF ChildOK

LEMMA ChildLooked ==
  ASSUME ToolTypes, ChildOK, NEW r \in A!Reconciled, cchunks' = r.cchunks, ran' = ran, turns' = turns,
         cstream' = r.cstream, crow' = r.crow
  PROVE  ChildTypes' /\ ChildOK' /\ Stays
<1>1. ChildTypes'
  BY ReconciledKeeps DEF ToolTypes, ChildTypes
<1>2. CASE r.cchunks = cchunks
  BY <1>1, <1>2, ReconciledKeeps, TurnsTyped DEF ChildOK, Stays, A!Hard
<1>3. CASE r.cchunks = <<>> /\ r.crow = "none" /\ crow = "running" /\ ~A!Executing
  <2>1. turns # <<>> => turns[1].wrote = 0
    BY <1>3, TurnsTyped DEF ChildOK, A!Executing
  <2>2. DOMAIN cchunks' = {}
    BY <1>3, EmptySeq
  <2> QED BY <1>1, <1>3, <2>1, <2>2 DEF ChildOK, Stays, A!Hard
<1> QED BY <1>2, <1>3, ReconciledKeeps

LEMMA TurnBeginsKeeps ==
  ASSUME ToolTypes, ChildOK, A!TurnBegins
  PROVE  ChildTypes' /\ ChildOK' /\ Stays
<1>1. /\ turns # <<>> /\ ~turns[1].active
      /\ turns' = [turns EXCEPT ![1] = [turns[1] EXCEPT !.active = TRUE]]
      /\ cstream' = "streaming" /\ ran' = ran + 1 /\ UNCHANGED <<crow, cchunks>>
  BY TurnsTyped DEF A!TurnBegins, A!Executing
<1>2. 1 \in DOMAIN turns /\ turns[1] \in TurnRecords /\ turns[1].wrote = 0
  BY <1>1, TurnsTyped DEF ChildOK
<1>3. [turns[1] EXCEPT !.active = TRUE] \in TurnRecords
      /\ [turns[1] EXCEPT !.active = TRUE].active = TRUE /\ [turns[1] EXCEPT !.active = TRUE].wrote = 0
  BY <1>2 DEF TurnRecords
<1>4. turns' \in Seq(TurnRecords) /\ DOMAIN turns' = DOMAIN turns
  BY <1>1, <1>2, <1>3, ExceptSeq DEF ToolTypes
<1>5. turns'[1].wrote = 0 /\ turns'[1].active /\ \A i \in DOMAIN turns : i # 1 => turns'[i] = turns[i]
  BY <1>1, <1>2, <1>3
<1>6. ChildTypes'
  BY <1>1, <1>4 DEF ChildTypes, ToolTypes
<1>7. ChildOK'
  BY <1>1, <1>4, <1>5 DEF ChildOK
<1> QED BY <1>1, <1>6, <1>7, TurnsTyped DEF Stays

LEMMA TurnWritesKeeps ==
  ASSUME ToolTypes, ChildOK, A!TurnWrites
  PROVE  ChildTypes' /\ ChildOK' /\ Stays
<1>1. turns # <<>> /\ turns[1].active /\ 1 \in DOMAIN turns /\ turns[1] \in TurnRecords
      /\ Head(turns) = turns[1] /\ turns[1].wrote \in Nat
  BY TurnsTyped DEF A!TurnWrites, A!Executing, TurnRecords
<1>2. CASE turns[1].wrote < Len(cchunks)
  <2>1. /\ turns' = [turns EXCEPT ![1] = [turns[1] EXCEPT !.end = "error"]]
        /\ cstream' = "error" /\ UNCHANGED <<cchunks, crow, ran>>
    BY <1>1, <1>2 DEF A!TurnWrites
  <2>2. /\ [turns[1] EXCEPT !.end = "error"] \in TurnRecords
        /\ [turns[1] EXCEPT !.end = "error"].active = turns[1].active
        /\ [turns[1] EXCEPT !.end = "error"].wrote = turns[1].wrote
    BY <1>1 DEF TurnRecords
  <2>3. /\ turns' \in [DOMAIN turns -> TurnRecords]
        /\ \A i \in DOMAIN turns : turns'[i].active = turns[i].active /\ turns'[i].wrote = turns[i].wrote
    BY <2>1, <2>2, TurnsTyped
  <2>4. turns' \in Seq(TurnRecords) /\ ChildOK'
    BY <2>1, <2>3, SameTurns
  <2> QED BY <2>1, <2>4, TurnsTyped DEF ChildTypes, ToolTypes, Stays
<1>3. CASE ~(turns[1].wrote < Len(cchunks))
  <2> DEFINE n == turns[1].wrote
  <2>1. /\ cchunks' = Append(cchunks, <<ran, n>>)
        /\ turns' = [turns EXCEPT ![1] = [turns[1] EXCEPT !.wrote = n + 1]]
        /\ UNCHANGED <<cstream, crow, ran>>
    BY <1>1, <1>3 DEF A!TurnWrites
  <2>2. n = Len(cchunks) /\ (n # 0 => cchunks[1][1] = ran) /\ n \in Nat
    BY <1>1, <1>3, TurnsTyped DEF ChildOK
  <2>3. <<ran, n>> \in Nat \X Nat
    BY <2>2 DEF ToolTypes
  <2>4. /\ cchunks' \in Seq(Nat \X Nat) /\ Len(cchunks') = n + 1
        /\ \A i \in 1..n : cchunks'[i] = cchunks[i]
        /\ cchunks'[n + 1] = <<ran, n>>
    BY <2>1, <2>2, <2>3, AppendProperties DEF ToolTypes
  <2>5. DOMAIN cchunks' = 1..(n + 1) /\ DOMAIN cchunks = 1..n
    BY <2>2, <2>4, LenProperties, TurnsTyped
  <2>6. cchunks'[1][1] = ran
    <3>1. CASE n = 0
      BY <2>4, <3>1
    <3>2. CASE n # 0
      BY <2>2, <2>4, <3>2
    <3> QED BY <3>1, <3>2
  <2>7. \A i \in DOMAIN cchunks' : cchunks'[i] = <<cchunks'[1][1], i - 1>>
    <3> SUFFICES ASSUME NEW i \in 1..(n + 1) PROVE cchunks'[i] = <<ran, i - 1>>
      BY <2>5, <2>6
    <3>1. CASE i = n + 1
      BY <2>2, <2>4, <3>1
    <3>2. CASE i # n + 1
      <4>1. i \in 1..n /\ n # 0
        BY <2>2, <3>2
      <4>2. cchunks[i] = <<cchunks[1][1], i - 1>>
        BY <2>5, <4>1 DEF ChildOK
      <4> QED BY <2>2, <2>4, <4>1, <4>2
    <3> QED BY <3>1, <3>2
  <2>8. [turns[1] EXCEPT !.wrote = n + 1] \in TurnRecords
        /\ [turns[1] EXCEPT !.wrote = n + 1].active = turns[1].active
        /\ [turns[1] EXCEPT !.wrote = n + 1].wrote = n + 1
    <3>1. n + 1 \in Nat
      BY <2>2
    <3> HIDE DEF n
    <3> QED BY <1>1, <3>1 DEF TurnRecords
  <2>9. turns' \in Seq(TurnRecords) /\ DOMAIN turns' = DOMAIN turns
    BY <1>1, <2>1, <2>8, ExceptSeq DEF ToolTypes
  <2>10. turns'[1].wrote = n + 1 /\ turns'[1].active /\ \A i \in DOMAIN turns : i # 1 => turns'[i] = turns[i]
    BY <1>1, <2>1, <2>8
  <2>11. ChildTypes'
    BY <2>1, <2>4, <2>9 DEF ChildTypes, ToolTypes
  <2>12. ChildOK'
    BY <2>1, <2>4, <2>6, <2>7, <2>9, <2>10 DEF ChildOK
  <2>13. Stays
    BY <2>1, <2>2, <2>4, <2>5 DEF Stays
  <2> QED BY <2>11, <2>12, <2>13
<1> QED BY <1>2, <1>3

LEMMA TurnEndsKeeps ==
  ASSUME ToolTypes, ChildOK,
         (\E end \in {"completed", "error"} : A!StreamEnds(end)) \/ A!TurnSettles \/ A!TurnDropped \/ A!Cancel
  PROVE  ChildTypes' /\ ChildOK' /\ Stays
<1>1. CASE \E end \in {"completed", "error"} : A!StreamEnds(end)
  <2>1. PICK end \in {"completed", "error"} : A!StreamEnds(end)
    BY <1>1
  <2>2. turns # <<>> /\ 1 \in DOMAIN turns /\ turns[1] \in TurnRecords
    BY <2>1, TurnsTyped DEF A!StreamEnds, A!Executing
  <2>3. /\ turns' = [turns EXCEPT ![1] = [turns[1] EXCEPT !.end = end]]
        /\ cstream' = end /\ UNCHANGED <<cchunks, crow, ran>>
    BY <2>1 DEF A!StreamEnds
  <2>4. /\ [turns[1] EXCEPT !.end = end] \in TurnRecords
        /\ [turns[1] EXCEPT !.end = end].active = turns[1].active
        /\ [turns[1] EXCEPT !.end = end].wrote = turns[1].wrote
    BY <2>2 DEF TurnRecords
  <2>5. /\ turns' \in [DOMAIN turns -> TurnRecords]
        /\ \A i \in DOMAIN turns : turns'[i].active = turns[i].active /\ turns'[i].wrote = turns[i].wrote
    BY <2>3, <2>4, TurnsTyped
  <2>6. turns' \in Seq(TurnRecords) /\ ChildOK'
    BY <2>3, <2>5, SameTurns
  <2> QED BY <2>3, <2>6, TurnsTyped DEF ChildTypes, ToolTypes, Stays
<1>2. CASE A!TurnSettles \/ A!TurnDropped
  <2>1. turns # <<>> /\ turns' = Tail(turns) /\ UNCHANGED <<cchunks, cstream, ran>>
    BY <1>2 DEF A!TurnSettles, A!TurnDropped, A!Executing
  <2>2. \E status \in A!Hard : crow' = A!Settled(status)
    BY <1>2 DEF A!TurnSettles, A!TurnDropped, A!Hard
  <2>3. turns' \in Seq(TurnRecords) /\ ChildOK'
    BY <2>1, TurnLeaves
  <2> QED BY <2>1, <2>2, <2>3, TurnsTyped DEF ChildTypes, ToolTypes, Stays, A!Settled, A!Hard
<1>3. CASE A!Cancel
  <2>1. UNCHANGED <<cchunks, cstream, ran>> /\ crow' = A!Settled("aborted")
    BY <1>3 DEF A!Cancel
  <2>2. turns' \in Seq(TurnRecords) /\ ChildOK'
    <3>1. CASE turns = <<>>
      BY <1>3, <2>1, <3>1 DEF A!Cancel, ChildOK, ToolTypes
    <3>2. CASE turns # <<>>
      <4>1. Len(turns) \in DOMAIN turns
        BY <3>2, EmptySeq, TurnsTyped
      <4> DEFINE t == turns[Len(turns)]
      <4>2. turns' = [turns EXCEPT ![Len(turns)] = [t EXCEPT !.abort = TRUE]]
        BY <1>3, <3>2 DEF A!Cancel
      <4>3. t \in TurnRecords
        BY <4>1, TurnsTyped
      <4>4. /\ [t EXCEPT !.abort = TRUE] \in TurnRecords
            /\ [t EXCEPT !.abort = TRUE].active = t.active /\ [t EXCEPT !.abort = TRUE].wrote = t.wrote
        <5> HIDE DEF t
        <5> QED BY <4>3 DEF TurnRecords
      <4>5. /\ turns' \in [DOMAIN turns -> TurnRecords]
            /\ \A i \in DOMAIN turns : turns'[i].active = turns[i].active /\ turns'[i].wrote = turns[i].wrote
        BY <4>1, <4>2, <4>4, TurnsTyped
      <4> QED BY <2>1, <4>5, SameTurns
    <3> QED BY <3>1, <3>2
  <2> QED BY <2>1, <2>2, TurnsTyped DEF ChildTypes, ToolTypes, Stays, A!Settled, A!Hard
<1> QED BY <1>1, <1>2, <1>3

LEMMA ChildKeeps ==
  ASSUME ToolTypes, ChildOK, A!Next, \A c \in Parents : ~A!StartArrives(c)
  PROVE  ChildTypes' /\ ChildOK' /\ Stays
<1>1. CASE UNCHANGED <<crow, cchunks, cstream, turns, ran>>
  BY <1>1, TurnsTyped DEF ChildTypes, ToolTypes, ChildOK, Stays
<1>2. CASE \E c \in Parents : A!StartBreaks(c) \/ A!OwnerCancelled(c)
  <2>1. PICK c \in Parents : A!StartBreaks(c) \/ A!OwnerCancelled(c)
    BY <1>2
  <2>2. /\ turns' = [i \in DOMAIN turns |-> IF turns[i].by = c THEN [turns[i] EXCEPT !.by = NoCaller]
                                            ELSE turns[i]]
        /\ UNCHANGED <<crow, cchunks, cstream, ran>>
    BY <2>1 DEF A!StartBreaks, A!OwnerCancelled
  <2>3. \A t \in TurnRecords : /\ [t EXCEPT !.by = NoCaller] \in TurnRecords
                               /\ [t EXCEPT !.by = NoCaller].active = t.active
                               /\ [t EXCEPT !.by = NoCaller].wrote = t.wrote
    BY DEF TurnRecords
  <2>4. /\ turns' \in [DOMAIN turns -> TurnRecords]
        /\ \A i \in DOMAIN turns : turns'[i].active = turns[i].active /\ turns'[i].wrote = turns[i].wrote
    BY <2>2, <2>3, TurnsTyped
  <2>5. turns' \in Seq(TurnRecords) /\ ChildOK'
    BY <2>2, <2>4, SameTurns
  <2> QED BY <2>2, <2>5, TurnsTyped DEF ChildTypes, ToolTypes, Stays
<1>3. CASE A!ParentEvicted
  <2>1. /\ turns' = [i \in DOMAIN turns |-> [turns[i] EXCEPT !.by = NoCaller]]
        /\ UNCHANGED <<crow, cchunks, cstream, ran>>
    BY <1>3 DEF A!ParentEvicted
  <2>2. \A t \in TurnRecords : /\ [t EXCEPT !.by = NoCaller] \in TurnRecords
                               /\ [t EXCEPT !.by = NoCaller].active = t.active
                               /\ [t EXCEPT !.by = NoCaller].wrote = t.wrote
    BY DEF TurnRecords
  <2>3. /\ turns' \in [DOMAIN turns -> TurnRecords]
        /\ \A i \in DOMAIN turns : turns'[i].active = turns[i].active /\ turns'[i].wrote = turns[i].wrote
    BY <2>1, <2>2, TurnsTyped
  <2>4. turns' \in Seq(TurnRecords) /\ ChildOK'
    BY <2>1, <2>3, SameTurns
  <2> QED BY <2>1, <2>4, TurnsTyped DEF ChildTypes, ToolTypes, Stays
<1>4. CASE A!ChildEvicted
  <2>1. turns' = <<>> /\ UNCHANGED <<crow, cchunks, cstream, ran>>
    BY <1>4 DEF A!ChildEvicted
  <2>2. turns' \in Seq(TurnRecords) /\ DOMAIN turns' = {}
    BY <2>1, EmptySeq
  <2> QED BY <2>1, <2>2, TurnsTyped DEF ChildTypes, ToolTypes, Stays, ChildOK
<1>5. CASE \E c \in Parents : A!Recovers(c) \/ A!Inspects(c)
  <2>1. \E r \in A!Reconciled : A!Sees(r) /\ UNCHANGED <<turns, ran>>
    BY <1>5 DEF A!Recovers, A!Inspects
  <2> QED BY <2>1, ChildLooked DEF A!Sees
<1>6. CASE A!TurnBegins \/ A!TurnWrites \/ (\E end \in {"completed", "error"} : A!StreamEnds(end))
           \/ A!TurnSettles \/ A!TurnDropped \/ A!Cancel
  BY <1>6, TurnBeginsKeeps, TurnWritesKeeps, TurnEndsKeeps
<1>7. CASE \E c \in Parents : A!Calls(c) \/ A!Begins(c) \/ A!Wakes(c) \/ A!SetAbort(c) \/ A!Resolved(c)
             \/ A!ResolveFails(c) \/ A!MirrorPage(c) \/ A!Mirrored(c) \/ A!MirrorFails(c)
             \/ A!RecoverFails(c) \/ A!InspectFails(c)
  <2>1. UNCHANGED A!child
    BY <1>7 DEF A!Calls, A!Begins, A!Wakes, A!SetAbort, A!Resolved, A!ResolveFails, A!MirrorPage,
       A!Mirrored, A!MirrorFails, A!RecoverFails, A!InspectFails
  <2> QED BY <1>1, <2>1 DEF A!child
<1>8. CASE A!GraceEnds \/ A!Replay
  <2>1. UNCHANGED A!child
    BY <1>8 DEF A!GraceEnds, A!Replay
  <2> QED BY <1>1, <2>1 DEF A!child
<1> QED BY <1>2, <1>3, <1>4, <1>5, <1>6, <1>7, <1>8 DEF A!Next

-----------------------------------------------------------------------------
(* Agent tools: the parent.                                                *)

ToolOK == ToolTypes /\ ParentOK /\ ChildOK /\ CopyOK /\ FramesOK

\* What clients and callers are told, in a step.
Rises == frames'.odd # frames.odd => frames'.at > frames.at
RowKept == row # NoRow /\ row.status \in A!Hard => row'.status = row.status
ToldKept == \A c \in Parents :
  asking[c].pc # "done" /\ asking'[c].pc = "done" /\ asking'[c].result \in A!Hard =>
    row'.status = asking'[c].result
Tells == Rises /\ RowKept /\ ToldKept

Below == frames.at <= A!Max2(A!LastSequence, terminal)

\* A write of the row's end, with its frame.
Wrote ==
  /\ row' \in A!Rows /\ (row'.status = "completed" => row'.mirrored)
  /\ RowKept /\ Below
  /\ \E p \in Nat : p > A!LastSequence /\ terminal' = A!Recorded(p) /\ A!Publish(terminal')

LEMMA KnowsStays ==
  ASSUME Stays, row' = row, NEW k, Knows(k)
  PROVE  Knows(k)'
BY DEF Stays, Knows, A!Hard

LEMMA WroteRises ==
  ASSUME ToolTypes, Wrote
  PROVE  /\ terminal' \in Nat /\ frames' \in [odd: {0, 1}, at: Nat] /\ Rises
         /\ frames'.at = terminal'
<1>1. PICK p \in Nat : p > A!LastSequence /\ terminal' = A!Recorded(p) /\ A!Publish(terminal')
  BY DEF Wrote
<1>2. /\ A!Recorded(p) \in Nat /\ A!Recorded(p) > A!Max2(A!LastSequence, terminal)
      /\ A!Max2(A!LastSequence, terminal) \in Nat
  BY <1>1, SequenceType
<1>3. frames' = [odd |-> 1 - frames.odd, at |-> terminal']
  BY <1>1 DEF A!Publish
<1>4. frames.odd \in {0, 1} /\ frames.at \in Nat
  BY DEF ToolTypes
<1> QED BY <1>1, <1>2, <1>3, <1>4 DEF Rises, Wrote, Below

\* What was copied stays a prefix.
LEMMA PrefixStays ==
  ASSUME ToolTypes, CopyOK, Stays, ChildTypes', UNCHANGED chunks
  PROVE  /\ Len(chunks) <= Len(cchunks') /\ (chunks # <<>> => crow' \in A!Hard)
         /\ \A i \in DOMAIN chunks : chunks[i].body = cchunks'[i]
<1>1. /\ Len(cchunks') \in Nat /\ Len(chunks) \in Nat /\ DOMAIN chunks = 1..Len(chunks)
      /\ Len(cchunks) \in Nat /\ DOMAIN cchunks = 1..Len(cchunks)
  BY LenProperties DEF ToolTypes, ChildTypes
<1>2. CASE chunks = <<>>
  <2>1. Len(chunks) = 0
    BY <1>2, EmptySeq
  <2> QED BY <1>1, <1>2, <2>1
<1>3. CASE chunks # <<>>
  <2>1. /\ crow \in A!Hard /\ Len(chunks) <= Len(cchunks)
        /\ \A i \in DOMAIN chunks : i \in DOMAIN cchunks /\ chunks[i].body = cchunks[i]
    BY <1>1, <1>3 DEF CopyOK
  <2>2. /\ crow' = crow /\ Len(cchunks) <= Len(cchunks')
        /\ \A i \in DOMAIN cchunks : cchunks'[i] = cchunks[i]
    BY <2>1 DEF Stays
  <2> QED BY <1>1, <2>1, <2>2
<1> QED BY <1>2, <1>3

\* After a release nothing is under way, and what is written of the row stands.
LEMMA FreedKeeps ==
  ASSUME ToolOK, Stays, ChildTypes', ChildOK', Freed, UNCHANGED chunks,
         (UNCHANGED <<row, terminal, frames>> /\ row # NoRow) \/ Wrote
  PROVE  ToolOK' /\ Rises /\ RowKept
<1>1. ToolTypes /\ ParentOK /\ CopyOK /\ FramesOK
  BY DEF ToolOK
<1>2. row' \in A!Rows \union {NoRow} /\ terminal' \in Nat /\ frames' \in [odd: {0, 1}, at: Nat]
  BY <1>1, WroteRises DEF ToolTypes, Wrote
<1>3. ToolTypes'
  BY <1>1, <1>2 DEF ToolTypes, ChildTypes, Freed
<1>4. "mirror" \in A!Owning
  BY DEF A!Owning
<1>5. CopyOK'
  BY <1>1, <1>4, PrefixStays DEF CopyOK, Freed
<1>6. A!LastSequence' = A!LastSequence /\ A!LastSequence \in Nat
  BY <1>1, SequenceType DEF A!LastSequence
<1>7. CASE UNCHANGED <<row, terminal, frames>> /\ row # NoRow
  <2>1. ParentOK'
    BY <1>1, <1>7 DEF ParentOK, Freed, Knows, Stays, A!Hard, A!Owning
  <2>2. FramesOK'
    BY <1>1, <1>4, <1>6, <1>7 DEF FramesOK, Freed, A!Max2
  <2> QED BY <1>3, <1>5, <1>7, <2>1, <2>2 DEF ToolOK, Rises, RowKept
<1>8. CASE Wrote
  <2>1. row' # NoRow
    BY <1>8, ToolConstants DEF Wrote
  <2>2. ParentOK'
    BY <1>1, <1>8, <2>1 DEF ParentOK, Freed, Knows, Wrote, A!Owning
  <2>3. FramesOK'
    BY <1>1, <1>4, <1>6, <1>8, WroteRises DEF FramesOK, Freed, A!Max2
  <2> QED BY <1>1, <1>3, <1>5, <1>8, <2>2, <2>3, WroteRises DEF ToolOK, Wrote
<1> QED BY <1>7, <1>8

\* One caller moves, with the row and the copy as they are; it may become the
\* owner of a run that has none.
Placing(k) ==
  k.pc = "mirror" =>
    /\ k.at <= Len(cchunks) /\ Len(chunks) = A!Max2(k.at, k.skip)
    /\ A!LastSequence < k.seq /\ frames.at < k.seq

LEMMA MovedKeeps ==
  ASSUME ToolOK, Stays, ChildTypes', ChildOK', UNCHANGED <<row, chunks, terminal, frames>>,
         NEW c \in Parents, NEW k \in Askings, asking' = [asking EXCEPT ![c] = k],
         owner' = owner \/ (owner = NoCaller /\ row # NoRow /\ owner' = c /\ Below),
         k.pc \in A!Owning => owner' = c, Knows(k)', Placing(k)'
  PROVE  ToolOK' /\ Rises /\ RowKept
<1>1. ToolTypes /\ ParentOK /\ CopyOK /\ FramesOK
  BY DEF ToolOK
<1>2. ToolTypes'
  BY <1>1 DEF ToolTypes, ChildTypes
<1>3. asking \in [Parents -> Askings]
  BY <1>1 DEF ToolTypes
<1>4. asking'[c] = k /\ \A d \in Parents : d # c => asking'[d] = asking[d]
  BY <1>3
<1>5. \A d \in Parents : asking'[d].pc \in A!Owning => owner' = d
  BY <1>1, <1>4, ToolConstants DEF ParentOK
<1>6. \A d \in Parents : Knows(asking[d])'
  <2>1. \A d \in Parents : Knows(asking[d])
    BY <1>1 DEF ParentOK
  <2> SUFFICES ASSUME NEW d \in Parents PROVE Knows(asking[d])'
    OBVIOUS
  <2>2. CASE d = c
    BY <1>4, <2>2 DEF Knows
  <2>3. CASE d # c
    BY <1>4, <2>1, <2>3 DEF Knows, Stays, A!Hard
  <2> QED BY <2>2, <2>3
<1>7. ParentOK'
  BY <1>1, <1>5, <1>6 DEF ParentOK, Stays, A!Hard
<1>8. CopyOK'
  <2>1. /\ Len(chunks) <= Len(cchunks') /\ (chunks # <<>> => crow' \in A!Hard)
        /\ \A i \in DOMAIN chunks : chunks[i].body = cchunks'[i]
    BY <1>1, PrefixStays
  <2>2. \A d \in Parents : asking'[d].pc = "mirror" =>
          asking'[d].at <= Len(cchunks') /\ Len(chunks) = A!Max2(asking'[d].at, asking'[d].skip)
    <3> SUFFICES ASSUME NEW d \in Parents, asking'[d].pc = "mirror"
                 PROVE  asking'[d].at <= Len(cchunks') /\ Len(chunks) = A!Max2(asking'[d].at, asking'[d].skip)
      OBVIOUS
    <3>1. CASE d = c
      BY <1>4, <3>1 DEF Placing, A!Max2
    <3>2. CASE d # c
      <4>1. asking[d] \in Askings /\ crow \in A!Hard
        BY <1>1, <1>3, <1>4, <3>2 DEF ParentOK, Knows
      <4>2. asking[d].at \in Nat /\ Len(cchunks) \in Nat /\ Len(cchunks') \in Nat
        BY <1>1, <1>2, <4>1, LenProperties DEF Askings, ToolTypes
      <4> QED BY <1>1, <1>4, <3>2, <4>1, <4>2 DEF CopyOK, Stays, A!Max2
    <3> QED BY <3>1, <3>2
  <2> QED BY <2>1, <2>2 DEF CopyOK, A!Max2
<1>9. FramesOK'
  <2>1. A!LastSequence' = A!LastSequence
    BY DEF A!LastSequence
  <2>2. \A d \in Parents : asking'[d].pc = "mirror" =>
          A!LastSequence < asking'[d].seq /\ frames.at < asking'[d].seq
    BY <1>1, <1>4, <2>1 DEF FramesOK, Placing
  <2> QED BY <1>1, <2>1, <2>2 DEF FramesOK, Below, A!Max2
<1> QED BY <1>2, <1>7, <1>8, <1>9 DEF ToolOK, Rises, RowKept

LEMMA OwnerFacts ==
  ASSUME ToolOK, NEW c \in Parents, asking[c].pc \in A!Owning
  PROVE  /\ owner = c /\ owner # NoCaller /\ row \in A!Rows /\ row # NoRow /\ Below
         /\ asking[c] \in Askings /\ Knows(asking[c])
         /\ IF asking[c].hard THEN row.status = "completed" /\ crow = "completed" ELSE row.status \notin A!Hard
BY ToolConstants DEF ToolOK, ToolTypes, ParentOK, Knows, FramesOK, Below

LEMMA UnknownKeeps ==
  ASSUME ToolOK, Stays, ChildTypes', ChildOK', UNCHANGED chunks,
         NEW c \in Parents, asking[c].pc \in A!Owning, A!Unknown(c)
  PROVE  ToolOK' /\ Tells
<1>1. ToolTypes /\ ParentOK
  BY DEF ToolOK
<1>2. row \in A!Rows /\ row # NoRow /\ Below
  BY OwnerFacts
<1>3. /\ Freed /\ asking'[c].pc = "done"
      /\ \A d \in Parents : d # c => asking'[d].pc \in {"woken", asking[d].pc}
  BY <1>1, UnknownFrees
<1>4. CASE UNCHANGED <<row, terminal, frames>> /\ asking'[c].result = row.status
  <2>1. ToolOK' /\ Rises /\ RowKept
    BY <1>2, <1>3, <1>4, FreedKeeps
  <2> QED BY <1>3, <1>4, <2>1 DEF Tells, ToldKept
<1>5. CASE \E status \in {"aborted", "interrupted"} :
                 /\ row.status \notin A!Hard /\ row' = [row EXCEPT !.status = status]
                 /\ terminal' = A!Recorded(A!NextSequence) /\ A!Publish(terminal')
                 /\ asking'[c].result = status
  <2>1. PICK status \in {"aborted", "interrupted"} :
                 /\ row.status \notin A!Hard /\ row' = [row EXCEPT !.status = status]
                 /\ terminal' = A!Recorded(A!NextSequence) /\ A!Publish(terminal')
                 /\ asking'[c].result = status
    BY <1>5
  <2>2. row' \in A!Rows /\ row'.status = status
    BY <1>2, <2>1 DEF A!Rows, A!Statuses, A!Hard
  <2>3. A!NextSequence \in Nat /\ A!NextSequence > A!LastSequence
    BY <1>1, SequenceType
  <2>4. Wrote
    BY <1>2, <2>1, <2>2, <2>3 DEF Wrote, RowKept
  <2>5. ToolOK' /\ Rises /\ RowKept
    BY <1>3, <2>4, FreedKeeps
  <2> QED BY <1>3, <2>1, <2>2, <2>5 DEF Tells, ToldKept
<1> QED BY <1>1, <1>4, <1>5, UnknownFrees

\* An owner writes its end and returns it.
LEMMA EndKeeps ==
  ASSUME ToolOK, Stays, ChildTypes', ChildOK', UNCHANGED chunks,
         NEW c \in Parents, asking[c].pc \in A!Owning,
         NEW result \in {"cancelled"} \union A!Statuses, A!Released(c, result),
         UNCHANGED <<row, terminal, frames>> \/ Wrote,
         result \in A!Hard => row'.status = result
  PROVE  ToolOK' /\ Tells
<1>1. ToolTypes /\ ParentOK
  BY DEF ToolOK
<1>2. /\ Freed /\ asking'[c].pc = "done" /\ asking'[c].result = result
      /\ \A d \in Parents : d # c => asking'[d].pc \in {"woken", asking[d].pc}
  BY <1>1, ReleasedFrees
<1>3. ToolOK' /\ Rises /\ RowKept
  BY <1>2, OwnerFacts, FreedKeeps
<1> QED BY <1>2, <1>3 DEF Tells, ToldKept

LEMMA FailsKeep ==
  ASSUME ToolOK, Stays, ChildTypes', ChildOK', NEW c \in Parents,
         A!ResolveFails(c) \/ A!RecoverFails(c) \/ A!InspectFails(c) \/ A!OwnerCancelled(c)
  PROVE  ToolOK' /\ Tells
<1>0. {"resolve", "recover", "inspect"} \subseteq A!Owning
  BY DEF A!Owning
<1>1. UNCHANGED chunks /\ asking[c].pc \in A!Owning
  BY <1>0 DEF A!ResolveFails, A!RecoverFails, A!InspectFails, A!OwnerCancelled, A!Is
<1>2. row \in A!Rows /\ Below /\ ToolTypes
  BY <1>1, OwnerFacts DEF ToolOK
<1>3. A!NextSequence \in Nat /\ A!NextSequence > A!LastSequence
  BY <1>2, SequenceType
<1>4. CASE A!RecoverFails(c) \/ A!InspectFails(c)
  BY <1>1, <1>4, UnknownKeeps DEF A!RecoverFails, A!InspectFails
<1>5. CASE A!ResolveFails(c)
  <2>1. ~asking[c].hard /\ row.status \notin A!Hard
    BY <1>1, <1>5, OwnerFacts DEF A!ResolveFails, A!Is, Knows
  <2>2. /\ row' = [row EXCEPT !.status = "error"] /\ A!Released(c, "error")
        /\ terminal' = A!Recorded(A!NextSequence) /\ A!Publish(terminal')
    BY <1>5, <2>1 DEF A!ResolveFails, A!Finish, A!IsHard
  <2>3. row' \in A!Rows /\ row'.status = "error"
    BY <1>2, <2>2 DEF A!Rows, A!Statuses, A!Hard
  <2>4. Wrote
    BY <1>2, <1>3, <2>1, <2>2, <2>3 DEF Wrote, RowKept
  <2>5. "error" \in A!Statuses
    BY DEF A!Statuses, A!Hard
  <2> QED BY <1>1, <2>2, <2>3, <2>4, <2>5, EndKeeps
<1>6. CASE A!OwnerCancelled(c)
  <2>1. CASE row.status \in A!Hard
    <3>1. A!Released(c, "cancelled") /\ UNCHANGED <<row, terminal, frames>>
      BY <1>6, <2>1 DEF A!OwnerCancelled, A!IsHard
    <3>2. "cancelled" \notin A!Hard
      BY DEF A!Hard
    <3> QED BY <1>1, <3>1, <3>2, EndKeeps
  <2>2. CASE row.status \notin A!Hard
    <3>1. /\ row' = [row EXCEPT !.status = "interrupted"] /\ A!Released(c, "cancelled")
          /\ terminal' = A!Recorded(A!NextSequence) /\ A!Publish(terminal')
      BY <1>6, <2>2 DEF A!OwnerCancelled, A!IsHard
    <3>2. row' \in A!Rows /\ row'.status = "interrupted"
      BY <1>2, <3>1 DEF A!Rows, A!Statuses, A!Hard
    <3>3. Wrote
      BY <1>2, <1>3, <2>2, <3>1, <3>2 DEF Wrote, RowKept
    <3>4. "cancelled" \notin A!Hard
      BY DEF A!Hard
    <3> QED BY <1>1, <3>1, <3>3, <3>4, EndKeeps
  <2> QED BY <2>1, <2>2
<1> QED BY <1>4, <1>5, <1>6

\* The result at the end of the copy.
LEMMA MirroredKeeps ==
  ASSUME ToolOK, Stays, ChildTypes', ChildOK', NEW c \in Parents, A!Mirrored(c)
  PROVE  ToolOK' /\ Tells
<1> DEFINE k == asking[c]
<1>1. k.pc = "mirror" /\ k.pc \in A!Owning
  BY DEF A!Mirrored, A!Is, A!Owning
<1>2. /\ row \in A!Rows /\ Below /\ ToolTypes /\ k \in Askings /\ k.got = crow /\ crow \in A!Hard
      /\ IF k.hard THEN row.status = "completed" /\ crow = "completed" ELSE row.status \notin A!Hard
  BY <1>1, OwnerFacts DEF ToolOK, Knows
<1>3. k.seq \in Nat /\ k.seq > A!LastSequence
  <2>1. k.seq \in Nat
    BY <1>2 DEF Askings
  <2>2. A!LastSequence < k.seq
    BY <1>1 DEF ToolOK, FramesOK
  <2>3. A!LastSequence \in Nat
    BY <1>2, SequenceType
  <2> QED BY <2>1, <2>2, <2>3
<1> DEFINE status == A!Result(c)
<1>4. /\ row' = [row EXCEPT !.mirrored = TRUE, !.status = IF A!IsHard(row) THEN @ ELSE status]
      /\ terminal' = A!Recorded(k.seq) /\ A!Publish(terminal') /\ A!Released(c, status)
      /\ UNCHANGED chunks
  BY <1>2 DEF A!Mirrored
<1>5. status \in A!Hard /\ (A!IsHard(row) => status = row.status)
  BY <1>2 DEF A!Result, A!Aborted, A!IsHard, A!Hard
<1> HIDE DEF status
<1>6. row' \in A!Rows /\ row'.mirrored /\ row'.status = status /\ (A!IsHard(row) => row'.status = row.status)
  BY <1>2, <1>4, <1>5 DEF A!Rows, A!Statuses, A!IsHard
<1>7. Wrote
  BY <1>2, <1>3, <1>4, <1>6 DEF Wrote, RowKept, A!IsHard
<1>8. status \in A!Statuses
  BY <1>5 DEF A!Statuses
<1> QED BY <1>1, <1>4, <1>6, <1>7, <1>8, EndKeeps

LEMMA MovedTells ==
  ASSUME ToolTypes, NEW c \in Parents, NEW k, asking' = [asking EXCEPT ![c] = k], UNCHANGED row,
         k.pc = "done" /\ k.result \in A!Hard => row.status = k.result
  PROVE  ToldKept
<1>1. asking'[c] = k /\ \A d \in Parents : d # c => asking'[d] = asking[d]
  BY DEF ToolTypes
<1> QED BY <1>1 DEF ToldKept

LEMMA MirroringKeeps ==
  ASSUME ToolOK, Stays, ChildTypes', ChildOK', UNCHANGED <<row, chunks, terminal, frames, owner>>,
         NEW c \in Parents, asking[c].pc \in A!Owning,
         NEW how \in {"fresh", "resume", "restart", "recover"},
         crow' \in A!Hard, A!Mirroring(c, how, crow')
  PROVE  ToolOK' /\ Tells
<1>1. ToolTypes
  BY DEF ToolOK
<1>2. PICK k \in Askings :
           /\ asking' = [asking EXCEPT ![c] = k] /\ k.pc = "mirror" /\ k.got = crow'
           /\ k.hard = asking[c].hard /\ k.at = 0 /\ k.skip = Len(chunks)
           /\ k.seq = A!Max2(A!LastSequence, terminal) + 1
  <2>1. crow' \in {"none", "running"} \union A!Hard
    OBVIOUS
  <2>2. \A got \in {"none", "running"} \union A!Hard : A!Mirroring(c, how, got) =>
          \E k \in Askings :
             /\ asking' = [asking EXCEPT ![c] = k] /\ k.pc = "mirror" /\ k.got = got
             /\ k.hard = asking[c].hard /\ k.at = 0 /\ k.skip = Len(chunks)
             /\ k.seq = A!Max2(A!LastSequence, terminal) + 1
    BY <1>1, MirroringMoves
  <2> QED BY <2>1, <2>2
<1>3. /\ owner = c /\ row # NoRow /\ Below
      /\ IF asking[c].hard THEN row.status = "completed" /\ crow = "completed" ELSE row.status \notin A!Hard
  BY OwnerFacts
<1>4. Knows(k)'
  BY <1>2, <1>3 DEF Knows, Stays, A!Hard
<1>5. Placing(k)'
  <2>1. Len(chunks) \in Nat /\ Len(cchunks') \in Nat
    BY <1>1, LenProperties DEF ToolTypes, ChildTypes
  <2>2. A!LastSequence' = A!LastSequence /\ A!LastSequence \in Nat /\ terminal \in Nat /\ frames.at \in Nat
    BY <1>1, SequenceType DEF A!LastSequence, ToolTypes
  <2> QED BY <1>2, <1>3, <2>1, <2>2 DEF Placing, Below, A!Max2
<1>6. ToolOK' /\ Rises /\ RowKept
  BY <1>2, <1>3, <1>4, <1>5, MovedKeeps
<1>7. ToldKept
  BY <1>1, <1>2, MovedTells
<1> QED BY <1>6, <1>7 DEF Tells

\* A caller that changes its place alone.
LEMMA PlaceKeeps ==
  ASSUME ToolOK, Stays, ChildTypes', ChildOK', UNCHANGED <<row, chunks, terminal, frames, owner>>,
         NEW c \in Parents, NEW pc \in {"recover", "start", "wait"},
         asking' = [asking EXCEPT ![c].pc = pc],
         CASE pc = "recover" -> asking[c].pc \in A!Owning
           [] pc = "start" -> asking[c].pc = "resolve"
           [] pc = "wait" -> asking[c].pc \in {"called", "woken"} /\ row # NoRow
  PROVE  ToolOK' /\ Tells
<1>1. ToolTypes /\ asking[c] \in Askings
  BY DEF ToolOK, ToolTypes
<1>2. PICK k \in Askings :
        k = [asking[c] EXCEPT !.pc = pc] /\ k.pc = pc /\ k.hard = asking[c].hard
  <2> DEFINE q == [asking[c] EXCEPT !.pc = pc]
  <2>1. q \in Askings /\ q.pc = pc /\ q.hard = asking[c].hard
    BY <1>1 DEF Askings
  <2> HIDE DEF q
  <2>2. \E k \in Askings : k = q
    BY <2>1
  <2> QED BY <2>1, <2>2 DEF q
<1>3. asking' = [asking EXCEPT ![c] = k]
  BY <1>2
<1>4. pc # "wait" => asking[c].pc \in A!Owning
  BY DEF A!Owning
<1>5. Knows(asking[c]) /\ (asking[c].pc \in A!Owning => owner = c)
  BY DEF ToolOK, ParentOK
<1>6. Knows(k)'
  <2>1. CASE pc = "wait"
    BY <1>2, <1>5, <2>1 DEF Knows, A!Owning
  <2>2. CASE pc # "wait"
    BY <1>2, <1>4, <1>5, <2>2 DEF Knows, Stays, A!Hard
  <2> QED BY <2>1, <2>2
<1>7. Placing(k)'
  BY <1>2 DEF Placing
<1>8. k.pc \in A!Owning => owner' = c
  BY <1>2, <1>4, <1>5 DEF A!Owning
<1>9. ToolOK' /\ Rises /\ RowKept
  BY <1>2, <1>3, <1>6, <1>7, <1>8, MovedKeeps
<1>10. ToldKept
  BY <1>1, <1>2, <1>3, MovedTells
<1> QED BY <1>9, <1>10 DEF Tells

\* The child moves, and the parent waits.
LEMMA StillKeeps ==
  ASSUME ToolOK, Stays, ChildTypes', ChildOK', UNCHANGED <<row, chunks, terminal, frames, owner, asking>>
  PROVE  ToolOK' /\ Tells
<1>1. ToolTypes /\ ParentOK /\ CopyOK /\ FramesOK
  BY DEF ToolOK
<1>2. ToolTypes'
  BY <1>1 DEF ToolTypes, ChildTypes
<1>3. ParentOK'
  BY <1>1 DEF ParentOK, Knows, Stays, A!Hard
<1>4. CopyOK'
  <2>1. \A d \in Parents : asking[d].pc = "mirror" =>
          asking[d].at <= Len(cchunks') /\ Len(chunks) = A!Max2(asking[d].at, asking[d].skip)
    <3> SUFFICES ASSUME NEW d \in Parents, asking[d].pc = "mirror"
                 PROVE  asking[d].at <= Len(cchunks') /\ Len(chunks) = A!Max2(asking[d].at, asking[d].skip)
      OBVIOUS
    <3>1. asking[d] \in Askings /\ crow \in A!Hard
      BY <1>1 DEF ParentOK, Knows, ToolTypes
    <3>2. asking[d].at \in Nat /\ Len(cchunks) \in Nat /\ Len(cchunks') \in Nat
      BY <1>1, <1>2, <3>1, LenProperties DEF Askings, ToolTypes
    <3> QED BY <1>1, <3>1, <3>2 DEF CopyOK, Stays, A!Max2
  <2> QED BY <1>1, <2>1, PrefixStays DEF CopyOK, A!Max2
<1>5. FramesOK'
  BY <1>1 DEF FramesOK, A!LastSequence, A!Last, A!Max2
<1> QED BY <1>2, <1>3, <1>4, <1>5 DEF ToolOK, Tells, Rises, RowKept, ToldKept

LEMMA AnswerMoves ==
  ASSUME ToolOK, Stays, ChildTypes', ChildOK', UNCHANGED <<row, chunks, terminal, frames, owner>>,
         NEW by \in Parents \union {NoCaller}, A!Answered(by), crow' \in {"none"} \union A!Hard
  PROVE  ToolOK' /\ Tells
<1>1. CASE by = NoCaller \/ asking[by].pc # "started"
  BY <1>1, StillKeeps DEF A!Answered
<1>2. CASE by # NoCaller /\ asking[by].pc = "started"
  <2>1. by \in Parents /\ asking[by].pc \in A!Owning /\ asking[by] \in Askings
    BY <1>2 DEF A!Owning, ToolOK, ToolTypes
  <2>2. CASE crow' = "none"
    <3>1. asking' = [asking EXCEPT ![by].pc = "recover"]
      BY <1>2, <2>2 DEF A!Answered
    <3> QED BY <2>1, <3>1, PlaceKeeps
  <2>3. CASE crow' \in A!Hard
    <3>1. A!Mirroring(by, asking[by].how, crow')
      BY <1>2, <2>3 DEF A!Answered, A!Hard
    <3>2. asking[by].how \in {"fresh", "resume", "restart", "recover"}
      BY <2>1 DEF Askings
    <3> QED BY <2>1, <2>3, <3>1, <3>2, MirroringKeeps
  <2> QED BY <2>2, <2>3
<1> QED BY <1>1, <1>2

LEMMA ChildMovesKeep ==
  ASSUME ToolOK, Stays, ChildTypes', ChildOK',
         \/ A!TurnBegins \/ A!TurnWrites \/ (\E end \in {"completed", "error"} : A!StreamEnds(end))
         \/ A!TurnSettles \/ A!TurnDropped \/ A!Cancel \/ A!ChildEvicted
  PROVE  ToolOK' /\ Tells
<1>1. UNCHANGED <<row, chunks, terminal, frames, owner>>
  BY DEF A!TurnBegins, A!TurnWrites, A!StreamEnds, A!TurnSettles, A!TurnDropped, A!Cancel,
     A!ChildEvicted, A!parent
<1>2. ToolTypes
  BY DEF ToolOK
<1>3. CASE A!TurnBegins \/ A!TurnWrites \/ (\E end \in {"completed", "error"} : A!StreamEnds(end)) \/ A!Cancel
  BY <1>1, <1>3, StillKeeps DEF A!TurnBegins, A!TurnWrites, A!StreamEnds, A!Cancel
<1>4. CASE A!TurnSettles \/ A!TurnDropped
  <2>1. turns # <<>> /\ A!Answered(Head(turns).by)
    BY <1>4 DEF A!TurnSettles, A!TurnDropped, A!Executing
  <2>2. Head(turns).by \in Parents \union {NoCaller}
    BY <1>2, <2>1, TurnsTyped DEF TurnRecords
  <2>3. crow' \in {"none"} \union A!Hard
    BY <1>2, <1>4 DEF A!TurnSettles, A!TurnDropped, A!Settled, ToolTypes, A!Hard
  <2> QED BY <1>1, <2>1, <2>2, <2>3, AnswerMoves
<1>5. CASE A!ChildEvicted
  <2>1. asking' = [d \in Parents |-> IF asking[d].pc = "started" THEN [asking[d] EXCEPT !.pc = "recover"]
                                     ELSE asking[d]]
    BY <1>5 DEF A!ChildEvicted
  <2>2. asking \in [Parents -> Askings] /\ "started" \in A!Owning
    BY <1>2 DEF ToolTypes, A!Owning
  <2>3. CASE \E c \in Parents : asking[c].pc = "started"
    <3>1. PICK c \in Parents : asking[c].pc = "started"
      BY <2>3
    <3>2. \A d \in Parents : d # c => asking[d].pc # "started"
      BY <2>2, <3>1 DEF ToolOK, ParentOK
    <3>3. asking' = [asking EXCEPT ![c].pc = "recover"]
      BY <2>1, <2>2, <3>1, <3>2
    <3> QED BY <1>1, <2>2, <3>1, <3>3, PlaceKeeps
  <2>4. CASE ~\E c \in Parents : asking[c].pc = "started"
    <3>1. asking' = asking
      BY <2>1, <2>2, <2>4
    <3> QED BY <1>1, <3>1, StillKeeps
  <2> QED BY <2>3, <2>4
<1> QED BY <1>3, <1>4, <1>5

\* A caller goes to another place, one that does not copy, or only notes its abort.
LEMMA GoingKeeps ==
  ASSUME ToolOK, Stays, ChildTypes', ChildOK', UNCHANGED <<row, chunks, terminal, frames>>,
         NEW c \in Parents, NEW k \in Askings, asking' = [asking EXCEPT ![c] = k],
         owner' = owner \/ (owner = NoCaller /\ row # NoRow /\ owner' = c /\ Below),
         k.pc # "mirror", k.pc \in A!Owning => owner' = c, Knows(k)',
         k.pc = "done" /\ k.result \in A!Hard => row.status = k.result
  PROVE  ToolOK' /\ Tells
<1>1. Placing(k)'
  BY DEF Placing
<1>2. ToolTypes
  BY DEF ToolOK
<1> QED BY <1>1, <1>2, MovedKeeps, MovedTells DEF Tells

\* An existing row is resumed.
LEMMA ResumeKeeps ==
  ASSUME ToolOK, Stays, ChildTypes', ChildOK', NEW c \in Parents, asking[c].pc \in {"called", "woken"},
         row # NoRow, owner = NoCaller, A!Resume(c)
  PROVE  ToolOK' /\ Tells
<1>1. ToolTypes /\ ParentOK /\ row \in A!Rows /\ asking[c] \in Askings /\ ~asking[c].hard
  BY DEF ToolOK, ToolTypes, ParentOK, Knows
<1>2. \A d \in Parents : asking[d].pc \notin A!Owning
  BY <1>1, ToolConstants DEF ParentOK
<1>3. row.status \in A!Statuses
  BY <1>1 DEF A!Rows
<1>4. \A st \in A!Statuses : /\ A!Returned(c, st) \in Askings /\ A!Returned(c, st).pc = "done"
                             /\ A!Returned(c, st).result = st
  BY UncalledType DEF A!Returned, Askings
<1>5. CASE A!IsOver(row)
  <2>1. asking' = [asking EXCEPT ![c] = A!Returned(c, row.status)] /\ UNCHANGED <<row, chunks, terminal, owner, frames>>
    BY <1>5 DEF A!Resume, A!parent
  <2>2. PICK k \in Askings : k = A!Returned(c, row.status) /\ k.pc = "done" /\ k.result = row.status
    BY <1>3, <1>4
  <2>3. Knows(k)' /\ k.pc \notin A!Owning
    BY <2>2 DEF Knows, A!Owning
  <2> QED BY <2>1, <2>2, <2>3, GoingKeeps
<1>6. CASE ~A!IsOver(row) /\ ~A!IsHard(row) /\ asking[c].abort
  <2>1. /\ row' = [row EXCEPT !.status = "aborted"] /\ UNCHANGED <<chunks, owner>>
        /\ terminal' = A!Recorded(A!NextSequence) /\ A!Publish(terminal')
        /\ asking' = [asking EXCEPT ![c] = A!Returned(c, "aborted")]
    BY <1>6 DEF A!Resume
  <2>2. row' \in A!Rows /\ row'.status = "aborted" /\ "aborted" \in A!Statuses
    BY <1>1, <2>1 DEF A!Rows, A!Statuses, A!Hard
  <2>3. Below
    BY <1>6 DEF ToolOK, FramesOK, Below, A!IsHard, A!Hard
  <2>4. Wrote
    BY <1>1, <1>6, <2>1, <2>2, <2>3, SequenceType DEF Wrote, RowKept, A!IsHard
  <2>5. asking'[c] = A!Returned(c, "aborted") /\ \A d \in Parents : d # c => asking'[d] = asking[d]
    BY <1>1, <2>1 DEF ToolTypes
  <2>6. Freed
    <3>1. asking' \in [Parents -> Askings]
      BY <1>1, <1>4, <2>1, <2>2 DEF ToolTypes
    <3>2. "done" \notin A!Owning
      BY DEF A!Owning
    <3> QED BY <1>1, <1>2, <1>4, <2>1, <2>2, <2>5, <3>1, <3>2 DEF Freed, ParentOK, Knows
  <2>7. ToolOK' /\ Rises /\ RowKept
    BY <2>1, <2>4, <2>6, FreedKeeps
  <2> QED BY <1>4, <2>2, <2>5, <2>7 DEF Tells, ToldKept
<1>7. CASE ~A!IsOver(row) /\ ~(~A!IsHard(row) /\ asking[c].abort)
  <2>1. /\ owner' = c /\ UNCHANGED <<row, chunks, terminal, frames>>
        /\ asking' = [asking EXCEPT ![c] =
             [asking[c] EXCEPT !.pc = "inspect", !.how = "resume", !.hard = A!IsHard(row)]]
    BY <1>7 DEF A!Resume, A!Owns
  <2>2. A!IsHard(row) \in BOOLEAN
    BY DEF A!IsHard
  <2>3. PICK k \in Askings :
          /\ k = [asking[c] EXCEPT !.pc = "inspect", !.how = "resume", !.hard = A!IsHard(row)]
          /\ k.pc = "inspect" /\ k.hard = A!IsHard(row)
    <3>1. PICK hard \in BOOLEAN : hard = A!IsHard(row)
      BY <2>2
    <3> DEFINE q == [asking[c] EXCEPT !.pc = "inspect", !.how = "resume", !.hard = hard]
    <3>2. q \in Askings /\ q.pc = "inspect" /\ q.hard = hard
      BY <1>1 DEF Askings
    <3>3. q = [asking[c] EXCEPT !.pc = "inspect", !.how = "resume", !.hard = A!IsHard(row)]
      BY <3>1
    <3> HIDE DEF q
    <3> QED BY <3>1, <3>2, <3>3
  <2>4. A!IsHard(row) => row.status = "completed" /\ crow = "completed"
    BY <1>1, <1>7 DEF A!IsOver, ParentOK, A!Rows
  <2>5. Knows(k)'
    BY <2>1, <2>3, <2>4 DEF Knows, Stays, A!IsHard, A!Hard
  <2>6. Below
    BY <1>7 DEF A!IsOver, A!IsHard, A!Hard, ToolOK, FramesOK, Below
  <2> QED BY <2>1, <2>3, <2>5, <2>6, GoingKeeps
<1> QED BY <1>5, <1>6, <1>7

\* A new run: it fails at once, is aborted, or begins.
LEMMA FreshKeeps ==
  ASSUME ToolOK, Stays, ChildTypes', ChildOK', NEW c \in Parents, asking[c].pc \in {"called", "woken"},
         row = NoRow, owner = NoCaller, A!Fresh(c)
  PROVE  ToolOK' /\ Tells
<1>1. /\ ToolTypes /\ ParentOK /\ FramesOK /\ CopyOK /\ asking[c] \in Askings /\ ~asking[c].hard
      /\ crow = "none" /\ chunks = <<>> /\ terminal = 0 /\ frames.at = 0
      /\ asking \in [Parents -> Askings]
  BY DEF ToolOK, ToolTypes, ParentOK, Knows
<1>2. \A d \in Parents : asking[d].pc \notin A!Owning
  BY <1>1, ToolConstants DEF ParentOK
<1>3. \A st \in A!Statuses : /\ A!Returned(c, st) \in Askings /\ A!Returned(c, st).pc = "done"
                             /\ A!Returned(c, st).result = st
  BY UncalledType DEF A!Returned, Askings
<1>4. \A st \in A!Statuses : [status |-> st, mirrored |-> FALSE, old |-> FALSE] \in A!Rows
  BY DEF A!Rows
<1>5. A!LastSequence = 0 /\ "error" \in A!Statuses /\ "aborted" \in A!Statuses /\ "running" \in A!Statuses
  BY <1>1 DEF A!LastSequence, A!Statuses, A!Hard
<1>6. CASE /\ row' = [status |-> "error", mirrored |-> FALSE, old |-> FALSE]
           /\ A!Publish(1)
           /\ asking' = [asking EXCEPT ![c] = A!Returned(c, "error")]
           /\ UNCHANGED <<chunks, terminal, owner>>
  <2>1. row' \in A!Rows /\ row'.status = "error" /\ row' # NoRow
    BY <1>4, <1>5, <1>6, ToolConstants
  <2>2. frames' = [odd |-> 1 - frames.odd, at |-> 1] /\ frames.odd \in {0, 1}
    BY <1>1, <1>6 DEF A!Publish, ToolTypes
  <2>3. /\ asking'[c].pc = "done" /\ asking'[c].result = "error"
        /\ asking' \in [Parents -> Askings]
        /\ \A d \in Parents : d # c => asking'[d] = asking[d]
    BY <1>1, <1>3, <1>5, <1>6
  <2>4. \A d \in Parents : asking'[d].pc \notin A!Owning
    BY <1>2, <2>3 DEF A!Owning
  <2>5. ToolTypes'
    BY <1>1, <1>6, <2>1, <2>2, <2>3 DEF ToolTypes, ChildTypes
  <2>6. ParentOK'
    BY <1>1, <2>1, <2>3, <2>4 DEF ParentOK, Knows, A!Owning
  <2>7. CopyOK'
    BY <1>1, <1>6, <2>4, PrefixStays DEF CopyOK, A!Owning
  <2>8. FramesOK'
    BY <1>6, <2>1, <2>2, <2>4 DEF FramesOK, A!Owning
  <2>9. Tells
    BY <1>1, <2>1, <2>2, <2>3 DEF Tells, Rises, RowKept, ToldKept
  <2> QED BY <2>5, <2>6, <2>7, <2>8, <2>9 DEF ToolOK
<1>7. CASE /\ row' = [status |-> "aborted", mirrored |-> FALSE, old |-> FALSE]
           /\ terminal' = A!Recorded(1) /\ A!Publish(A!Recorded(1))
           /\ asking' = [asking EXCEPT ![c] = A!Returned(c, "aborted")]
           /\ UNCHANGED <<chunks, owner>>
  <2>1. row' \in A!Rows /\ row'.status = "aborted"
    BY <1>4, <1>5, <1>7
  <2>2. Wrote
    BY <1>1, <1>5, <1>7, <2>1 DEF Wrote, RowKept, Below, A!Max2
  <2>3. /\ asking'[c].pc = "done" /\ asking'[c].result = "aborted"
        /\ asking' \in [Parents -> Askings]
        /\ \A d \in Parents : d # c => asking'[d] = asking[d]
    BY <1>1, <1>3, <1>5, <1>7
  <2>4. Freed
    <3>1. "done" \notin A!Owning
      BY DEF A!Owning
    <3> QED BY <1>1, <1>2, <1>7, <2>3, <3>1 DEF Freed, ParentOK, Knows
  <2>5. ToolOK' /\ Rises /\ RowKept
    BY <1>7, <2>2, <2>4, FreedKeeps
  <2> QED BY <2>1, <2>3, <2>5 DEF Tells, ToldKept
<1>8. CASE /\ row' = [status |-> "running", mirrored |-> FALSE, old |-> FALSE]
           /\ A!Owns(c, [asking[c] EXCEPT !.pc = "resolve", !.how = "fresh"])
           /\ UNCHANGED <<chunks, terminal, frames>>
  <2>1. row' \in A!Rows /\ row'.status = "running" /\ row' # NoRow
    BY <1>4, <1>5, <1>8, ToolConstants
  <2>2. PICK k \in Askings : /\ k = [asking[c] EXCEPT !.pc = "resolve", !.how = "fresh"]
                             /\ k.pc = "resolve" /\ k.hard = asking[c].hard
    <3> DEFINE q == [asking[c] EXCEPT !.pc = "resolve", !.how = "fresh"]
    <3>1. q \in Askings /\ q.pc = "resolve" /\ q.hard = asking[c].hard
      BY <1>1 DEF Askings
    <3>2. q = [asking[c] EXCEPT !.pc = "resolve", !.how = "fresh"]
      OBVIOUS
    <3> HIDE DEF q
    <3> QED BY <3>1, <3>2
  <2>3. owner' = c /\ asking' = [asking EXCEPT ![c] = k]
    BY <1>8, <2>2 DEF A!Owns
  <2>4. /\ asking'[c] = k /\ asking' \in [Parents -> Askings]
        /\ \A d \in Parents : d # c => asking'[d] = asking[d]
    BY <1>1, <2>3
  <2>5. ToolTypes'
    BY <1>1, <1>8, <2>1, <2>3, <2>4 DEF ToolTypes, ChildTypes
  <2>6. \A d \in Parents : asking'[d].pc \in A!Owning => d = c
    BY <1>2, <2>4
  <2>7. \A d \in Parents : Knows(asking[d])'
    <3> SUFFICES ASSUME NEW d \in Parents PROVE Knows(asking[d])'
      OBVIOUS
    <3>1. CASE d = c
      BY <1>1, <2>1, <2>2, <2>4, <3>1 DEF Knows, Stays, A!Hard
    <3>2. CASE d # c
      BY <1>1, <1>2, <2>1, <2>4, <3>2 DEF ParentOK, Knows, A!Owning
    <3> QED BY <3>1, <3>2
  <2>8. ParentOK'
    BY <2>1, <2>3, <2>6, <2>7 DEF ParentOK
  <2>9. \A d \in Parents : asking'[d].pc # "mirror"
    BY <2>2, <2>4, <2>6 DEF A!Owning
  <2>10. CopyOK'
    BY <1>1, <1>8, <2>9, PrefixStays DEF CopyOK
  <2>11. FramesOK'
    BY <1>1, <1>5, <1>8, <2>9 DEF FramesOK, A!LastSequence, A!Max2
  <2>12. Tells
    BY <1>1, <1>8, <2>2, <2>4 DEF Tells, Rises, RowKept, ToldKept
  <2> QED BY <2>5, <2>8, <2>10, <2>11, <2>12 DEF ToolOK
<1> QED BY <1>6, <1>7, <1>8 DEF A!Fresh

LEMMA GoesKeeps ==
  ASSUME ToolOK, Stays, ChildTypes', ChildOK', NEW c \in Parents, asking[c].pc \in {"called", "woken"},
         A!Goes(c)
  PROVE  ToolOK' /\ Tells
<1>1. CASE owner # NoCaller
  <2>1. asking' = [asking EXCEPT ![c].pc = "wait"] /\ UNCHANGED <<row, chunks, terminal, frames, owner>>
    BY <1>1 DEF A!Goes, A!parent
  <2>2. row # NoRow
    BY <1>1 DEF ToolOK, ParentOK
  <2> QED BY <2>1, <2>2, PlaceKeeps
<1>2. CASE owner = NoCaller /\ row = NoRow
  BY <1>2, FreshKeeps DEF A!Goes
<1>3. CASE owner = NoCaller /\ row # NoRow
  BY <1>3, ResumeKeeps DEF A!Goes
<1> QED BY <1>1, <1>2, <1>3

LEMMA CallersKeep ==
  ASSUME ToolOK, Stays, ChildTypes', ChildOK', NEW c \in Parents,
         A!Calls(c) \/ A!Begins(c) \/ A!Wakes(c) \/ A!SetAbort(c) \/ A!Resolved(c) \/ A!StartBreaks(c)
  PROVE  ToolOK' /\ Tells
<1>1. ToolTypes /\ asking[c] \in Askings /\ Knows(asking[c])
  BY DEF ToolOK, ToolTypes, ParentOK
<1>2. CASE A!Calls(c)
  <2>1. PICK abort \in BOOLEAN : asking' = [asking EXCEPT ![c] = [A!Uncalled EXCEPT !.pc = "called", !.abort = abort]]
    BY <1>2 DEF A!Calls
  <2>2. PICK k \in Askings : /\ k = [A!Uncalled EXCEPT !.pc = "called", !.abort = abort]
                             /\ k.pc = "called" /\ ~k.hard
    <3> DEFINE q == [A!Uncalled EXCEPT !.pc = "called", !.abort = abort]
    <3>1. q \in Askings /\ q.pc = "called" /\ ~q.hard
      BY UncalledType DEF A!Uncalled, Askings
    <3>2. q = [A!Uncalled EXCEPT !.pc = "called", !.abort = abort]
      OBVIOUS
    <3> HIDE DEF q
    <3> QED BY <3>1, <3>2
  <2>3. Knows(k)' /\ k.pc \notin A!Owning
    BY <2>2 DEF Knows, A!Owning
  <2>4. UNCHANGED <<row, chunks, terminal, frames, owner>>
    BY <1>2 DEF A!Calls, A!parent
  <2> QED BY <2>1, <2>2, <2>3, <2>4, GoingKeeps
<1>3. CASE A!Begins(c)
  BY <1>3, GoesKeeps DEF A!Begins
<1>4. CASE A!Wakes(c)
  <2>1. row \in A!Rows /\ row # NoRow
    BY <1>1, <1>4 DEF A!Wakes, Knows, ToolTypes
  <2>2. CASE A!IsOver(row)
    <3>1. asking' = [asking EXCEPT ![c] = A!Returned(c, row.status)]
          /\ UNCHANGED <<row, chunks, terminal, frames, owner>>
      BY <1>4, <2>2 DEF A!Wakes, A!parent
    <3>2. row.status \in A!Statuses
      BY <2>1 DEF A!Rows
    <3>3. PICK k \in Askings : k = A!Returned(c, row.status) /\ k.pc = "done" /\ k.result = row.status
      <4>1. /\ A!Returned(c, row.status) \in Askings /\ A!Returned(c, row.status).pc = "done"
            /\ A!Returned(c, row.status).result = row.status
        BY <3>2, UncalledType DEF A!Returned, Askings
      <4> QED BY <4>1
    <3>4. Knows(k)' /\ k.pc \notin A!Owning
      BY <3>3 DEF Knows, A!Owning
    <3> QED BY <3>1, <3>3, <3>4, GoingKeeps
  <2>3. CASE ~A!IsOver(row)
    BY <1>4, <2>3, GoesKeeps DEF A!Wakes, A!GoesAgain
  <2> QED BY <2>2, <2>3
<1>5. CASE A!SetAbort(c)
  <2>1. asking' = [asking EXCEPT ![c].abort = TRUE] /\ UNCHANGED <<row, chunks, terminal, frames, owner>>
        /\ asking[c].pc \in A!Owning \union {"wait", "woken"}
    BY <1>5 DEF A!SetAbort, A!parent
  <2>2. PICK k \in Askings :
          /\ k = [asking[c] EXCEPT !.abort = TRUE] /\ k.pc = asking[c].pc /\ k.hard = asking[c].hard
          /\ k.got = asking[c].got /\ k.at = asking[c].at /\ k.skip = asking[c].skip /\ k.seq = asking[c].seq
    <3> DEFINE q == [asking[c] EXCEPT !.abort = TRUE]
    <3>1. /\ q \in Askings /\ q.pc = asking[c].pc /\ q.hard = asking[c].hard
          /\ q.got = asking[c].got /\ q.at = asking[c].at /\ q.skip = asking[c].skip /\ q.seq = asking[c].seq
      BY <1>1 DEF Askings
    <3>2. q = [asking[c] EXCEPT !.abort = TRUE]
      OBVIOUS
    <3> HIDE DEF q
    <3> QED BY <3>1, <3>2
  <2>3. asking' = [asking EXCEPT ![c] = k]
    BY <2>1, <2>2
  <2>4. Knows(k)'
    BY <1>1, <2>1, <2>2 DEF Knows, Stays, A!Hard
  <2>5. UNCHANGED <<crow, cchunks, cstream, turns, ran>>
    BY <1>5 DEF A!SetAbort, A!child
  <2>6. Placing(k)'
    <3>1. A!LastSequence' = A!LastSequence
      BY <2>1 DEF A!LastSequence
    <3> QED BY <2>1, <2>2, <2>5, <3>1 DEF Placing, ToolOK, CopyOK, FramesOK, A!Max2
  <2>7. k.pc \in A!Owning => owner' = c
    BY <2>1, <2>2 DEF ToolOK, ParentOK
  <2>8. k.pc # "done"
    BY <2>1, <2>2 DEF A!Owning
  <2> QED BY <1>1, <2>1, <2>2, <2>3, <2>4, <2>6, <2>7, <2>8, MovedKeeps, MovedTells DEF Tells
<1>6. CASE A!Resolved(c)
  <2>1. asking[c].pc = "resolve" /\ asking' = [asking EXCEPT ![c].pc = "start"]
        /\ UNCHANGED <<row, chunks, terminal, frames, owner>>
    BY <1>6 DEF A!Resolved, A!Is, A!parent
  <2> QED BY <2>1, PlaceKeeps
<1>7. CASE A!StartBreaks(c)
  <2>1. asking[c].pc \in A!Owning /\ asking' = [asking EXCEPT ![c].pc = "recover"]
        /\ UNCHANGED <<row, chunks, terminal, frames, owner>>
    BY <1>7 DEF A!StartBreaks, A!Broken, A!Owning, A!parent
  <2> QED BY <2>1, PlaceKeeps
<1> QED BY <1>2, <1>3, <1>4, <1>5, <1>6, <1>7

\* The calls that look at the child, or fail to copy.
LEMMA LooksKeep ==
  ASSUME ToolOK, Stays, ChildTypes', ChildOK', NEW c \in Parents,
         A!MirrorFails(c) \/ A!Recovers(c) \/ A!Inspects(c)
  PROVE  ToolOK' /\ Tells
<1>1. UNCHANGED chunks /\ asking[c].pc \in A!Owning
  BY DEF A!MirrorFails, A!Recovers, A!Inspects, A!Is, A!Owning
<1>2. ToolTypes /\ asking[c] \in Askings
  BY DEF ToolOK, ToolTypes
<1>3. CASE A!Unknown(c)
  BY <1>1, <1>3, UnknownKeeps
<1>4. CASE A!MirrorFails(c) /\ ~A!Unknown(c)
  BY <1>1, <1>4, PlaceKeeps DEF A!MirrorFails
<1>5. CASE A!Recovers(c) /\ ~A!Unknown(c)
  <2>1. PICK r \in A!Reconciled :
          /\ crow' = r.crow /\ r.crow \in A!Hard /\ A!Mirroring(c, "recover", r.crow)
          /\ UNCHANGED <<row, terminal, owner, frames>>
    BY <1>5 DEF A!Recovers, A!Sees
  <2> QED BY <1>1, <2>1, MirroringKeeps
<1>6. CASE A!Inspects(c) /\ ~A!Unknown(c)
  <2>1. PICK r \in A!Reconciled :
       /\ A!Sees(r)
       /\ CASE r.crow \in A!Hard ->
                 A!Mirroring(c, "resume", r.crow) /\ UNCHANGED <<row, terminal, owner, frames>>
            [] r.crow \notin A!Hard /\ asking[c].hard -> A!ReturnsRow(c)
            [] r.crow = "none" /\ ~asking[c].hard ->
                 /\ asking' = [asking EXCEPT ![c].pc = "start", ![c].how = "restart"]
                 /\ UNCHANGED <<row, terminal, owner, frames>>
            [] r.crow = "running" /\ ~asking[c].hard -> A!Unknown(c)
    BY <1>6 DEF A!Inspects
  <2>2. r.crow \in {"none", "running"} \union A!Hard /\ crow' = r.crow
    BY <1>2, <2>1, ReconciledKeeps DEF A!Sees
  <2>3. "none" \notin A!Hard /\ "running" \notin A!Hard
    BY DEF A!Hard
  <2>4. CASE r.crow \in A!Hard
    <3>1. A!Mirroring(c, "resume", crow') /\ UNCHANGED <<row, terminal, owner, frames>>
      BY <2>1, <2>2, <2>3, <2>4
    <3> QED BY <1>1, <2>2, <2>4, <3>1, MirroringKeeps
  <2>5. CASE r.crow \notin A!Hard /\ asking[c].hard
    <3>1. A!Released(c, row.status) /\ UNCHANGED <<row, terminal, frames>>
      BY <2>1, <2>5 DEF A!ReturnsRow
    <3>2. row.status \in A!Statuses
      BY <1>1, OwnerFacts DEF A!Rows
    <3> QED BY <1>1, <3>1, <3>2, EndKeeps
  <2>6. CASE r.crow = "none" /\ ~asking[c].hard
    <3>1. /\ asking' = [asking EXCEPT ![c].pc = "start", ![c].how = "restart"]
          /\ UNCHANGED <<row, terminal, owner, frames>>
      BY <2>1, <2>3, <2>6
    <3>2. PICK k \in Askings : /\ k = [asking[c] EXCEPT !.pc = "start", !.how = "restart"]
                               /\ k.pc = "start" /\ k.hard = asking[c].hard
      <4> DEFINE q == [asking[c] EXCEPT !.pc = "start", !.how = "restart"]
      <4>1. q \in Askings /\ q.pc = "start" /\ q.hard = asking[c].hard
        BY <1>2 DEF Askings
      <4>2. q = [asking[c] EXCEPT !.pc = "start", !.how = "restart"]
        OBVIOUS
      <4> HIDE DEF q
      <4> QED BY <4>1, <4>2
    <3>3. asking' = [asking EXCEPT ![c] = k]
      BY <1>2, <3>1, <3>2 DEF ToolTypes
    <3>4. owner = c /\ row # NoRow /\ (~asking[c].hard => row.status \notin A!Hard)
      BY <1>1, OwnerFacts
    <3>5. Knows(k)'
      BY <2>2, <2>6, <3>1, <3>2, <3>4 DEF Knows
    <3> QED BY <1>1, <3>1, <3>2, <3>3, <3>4, <3>5, GoingKeeps
  <2>7. CASE r.crow = "running" /\ ~asking[c].hard
    <3>1. A!Unknown(c)
      BY <2>1, <2>3, <2>7
    <3> QED BY <1>6, <3>1
  <2> QED BY <2>2, <2>4, <2>5, <2>6, <2>7
<1> QED BY <1>3, <1>4, <1>5, <1>6

\* A page: a chunk copied before is passed over, any other is copied next.
LEMMA PageKeeps ==
  ASSUME ToolOK, NEW c \in Parents, A!MirrorPage(c)
  PROVE  ToolOK' /\ Tells
<1> DEFINE a == asking[c]
<1>1. /\ ToolTypes /\ ParentOK /\ ChildOK /\ CopyOK /\ FramesOK /\ a \in Askings
      /\ asking \in [Parents -> Askings]
  BY DEF ToolOK, ToolTypes
<1>2. /\ a.pc = "mirror" /\ a.pc \in A!Owning /\ a.at < Len(cchunks)
      /\ UNCHANGED <<row, terminal, owner, crow, cchunks, cstream, turns, ran>>
  BY DEF A!MirrorPage, A!Is, A!Owning, A!child
<1>3. /\ a.at \in Nat /\ a.skip \in Nat /\ a.seq \in Nat /\ Len(chunks) = A!Max2(a.at, a.skip)
      /\ A!LastSequence < a.seq /\ frames.at < a.seq /\ A!LastSequence \in Nat
      /\ crow \in A!Hard /\ owner = c /\ Knows(a)
  BY <1>1, <1>2, SequenceType DEF Askings, CopyOK, FramesOK, ParentOK, Knows
<1>n. PICK n \in Nat, m \in Nat, t \in Nat : n = a.at /\ m = a.at + 1 /\ t = a.seq + 1
  <2>1. a.at \in Nat /\ a.at + 1 \in Nat /\ a.seq + 1 \in Nat
    BY <1>3
  <2> HIDE DEF a
  <2> QED BY <2>1, Zenon
<1>4. ChildTypes' /\ ChildOK' /\ Stays
  BY <1>1, <1>2, TurnsTyped DEF ChildTypes, ToolTypes, ChildOK, Stays
<1>5. CASE ~A!IsNew(c)
  <2>1. asking' = [asking EXCEPT ![c].at = @ + 1] /\ UNCHANGED <<chunks, frames>> /\ a.at + 1 <= a.skip
    BY <1>3, <1>5 DEF A!MirrorPage, A!IsNew
  <2>2. PICK k \in Askings :
          /\ k = [a EXCEPT !.at = a.at + 1] /\ k.pc = "mirror" /\ k.hard = a.hard /\ k.got = a.got
          /\ k.at = a.at + 1 /\ k.skip = a.skip /\ k.seq = a.seq
    <3> HIDE DEF a
    <3> DEFINE q == [a EXCEPT !.at = m]
    <3>1. /\ q \in Askings /\ q.pc = "mirror" /\ q.hard = a.hard /\ q.got = a.got
          /\ q.at = m /\ q.skip = a.skip /\ q.seq = a.seq
      BY <1>1, <1>2 DEF Askings
    <3>2. q = [a EXCEPT !.at = a.at + 1]
      BY <1>n, Zenon
    <3> HIDE DEF q
    <3> QED BY <1>n, <3>1, <3>2
  <2>3. asking' = [asking EXCEPT ![c] = k]
    BY <2>1, <2>2
  <2>4. Knows(k)'
    BY <1>2, <1>3, <2>2 DEF Knows
  <2>5. Placing(k)'
    <3>1. A!LastSequence' = A!LastSequence
      BY <2>1 DEF A!LastSequence
    <3>2. Len(cchunks) \in Nat
      BY <1>1, LenProperties DEF ToolTypes
    <3> QED BY <1>2, <1>3, <2>1, <2>2, <3>1, <3>2 DEF Placing, A!Max2
  <2>6. ToolOK' /\ Rises /\ RowKept
    BY <1>2, <1>3, <1>4, <2>1, <2>2, <2>3, <2>4, <2>5, MovedKeeps
  <2>7. ToldKept
    BY <1>1, <1>2, <2>2, <2>3, MovedTells
  <2> QED BY <2>6, <2>7 DEF Tells
<1>6. CASE A!IsNew(c)
  <2> DEFINE item == [seq |-> a.seq, body |-> cchunks[n + 1]]
  <2>1. /\ asking' = [asking EXCEPT ![c].at = @ + 1, ![c].seq = @ + 1]
        /\ chunks' = Append(chunks, item) /\ A!Publish(a.seq) /\ n + 1 > a.skip
    BY <1>6, <1>n DEF A!MirrorPage, A!IsNew
  <2>2. Len(chunks) = n /\ n \in Nat /\ n + 1 \in DOMAIN cchunks /\ Len(cchunks) \in Nat
        /\ DOMAIN cchunks = 1..Len(cchunks) /\ DOMAIN chunks = 1..n
    <3>1. Len(cchunks) \in Nat /\ DOMAIN cchunks = 1..Len(cchunks) /\ DOMAIN chunks = 1..Len(chunks)
      BY <1>1, LenProperties DEF ToolTypes
    <3>2. a.skip <= n
      BY <1>3, <1>n, <2>1
    <3>3. Len(chunks) = n
      BY <1>3, <1>n, <3>2 DEF A!Max2
    <3>4. n + 1 \in 1..Len(cchunks)
      BY <1>2, <1>n, <3>1
    <3> QED BY <3>1, <3>3, <3>4
  <2>3. item \in [seq: Nat, body: Nat \X Nat] /\ item.seq = a.seq /\ item.body = cchunks[n + 1]
    <3>1. cchunks[n + 1] \in Nat \X Nat
      BY <1>1, <2>2, TurnsTyped
    <3> HIDE DEF a
    <3> QED BY <1>3, <3>1
  <2> HIDE DEF item
  <2>4. /\ chunks' \in Seq([seq: Nat, body: Nat \X Nat]) /\ Len(chunks') = n + 1
        /\ \A i \in 1..n : chunks'[i] = chunks[i]
        /\ chunks'[n + 1] = item
    <3>1. chunks \in Seq([seq: Nat, body: Nat \X Nat]) /\ item \in [seq: Nat, body: Nat \X Nat]
      BY <1>1, <2>3 DEF ToolTypes
    <3>2. chunks' = Append(chunks, item)
      BY <2>1
    <3> QED BY <2>2, <3>1, <3>2, AppendProperties
  <2>5. DOMAIN chunks' = 1..(n + 1) /\ chunks' # <<>>
    BY <2>2, <2>4, LenProperties, EmptySeq
  <2>6. A!LastSequence' = a.seq
    BY <2>2, <2>3, <2>4, <2>5 DEF A!LastSequence, A!Last
  <2>7. frames' = [odd |-> 1 - frames.odd, at |-> a.seq] /\ frames.odd \in {0, 1}
    BY <1>1, <2>1 DEF A!Publish, ToolTypes
  <2>8. PICK k \in Askings :
          /\ k = [a EXCEPT !.at = a.at + 1, !.seq = a.seq + 1] /\ k.pc = "mirror" /\ k.hard = a.hard
          /\ k.got = a.got /\ k.at = n + 1 /\ k.skip = a.skip /\ k.seq = a.seq + 1
    <3> HIDE DEF a
    <3> DEFINE q == [a EXCEPT !.at = m, !.seq = t]
    <3>1. /\ q \in Askings /\ q.pc = "mirror" /\ q.hard = a.hard /\ q.got = a.got
          /\ q.at = m /\ q.skip = a.skip /\ q.seq = t
      BY <1>1, <1>2 DEF Askings
    <3>2. q = [a EXCEPT !.at = a.at + 1, !.seq = a.seq + 1]
      BY <1>n, Zenon
    <3> HIDE DEF q
    <3> QED BY <1>n, <3>1, <3>2
  <2>9. asking' = [asking EXCEPT ![c] = k]
    BY <1>1, <2>1, <2>8
  <2>10. /\ asking'[c] = k /\ asking' \in [Parents -> Askings]
         /\ \A d \in Parents : d # c => asking'[d] = asking[d] /\ asking[d].pc \notin A!Owning
    BY <1>1, <1>3, <2>9 DEF ParentOK
  <2>11. ToolTypes'
    <3>1. frames' \in [odd: {0, 1}, at: Nat]
      BY <1>3, <2>7
    <3> QED BY <1>1, <1>2, <2>4, <2>10, <3>1 DEF ToolTypes
  <2>12. ParentOK'
    <3>1. \A d \in Parents : Knows(asking[d])'
      <4> SUFFICES ASSUME NEW d \in Parents PROVE Knows(asking[d])'
        OBVIOUS
      <4>1. CASE d = c
        BY <1>2, <1>3, <2>8, <2>10, <4>1 DEF Knows
      <4>2. CASE d # c
        BY <1>1, <1>2, <2>10, <4>2 DEF ParentOK, Knows
      <4> QED BY <4>1, <4>2
    <3>2. \A d \in Parents : asking'[d].pc \in A!Owning => owner' = d
      BY <1>2, <1>3, <2>10
    <3>3. row # NoRow
      BY <1>2, <1>3 DEF Knows
    <3> QED BY <1>1, <1>2, <3>1, <3>2, <3>3 DEF ParentOK
  <2>13. CopyOK'
    <3>1. \A i \in DOMAIN chunks' : chunks'[i].body = cchunks[i]
      <4> SUFFICES ASSUME NEW i \in 1..(n + 1) PROVE chunks'[i].body = cchunks[i]
        BY <2>5
      <4>1. CASE i = n + 1
        BY <2>3, <2>4, <4>1
      <4>2. CASE i # n + 1
        <5>1. i \in 1..n
          BY <2>2, <4>2
        <5> QED BY <1>1, <2>2, <2>4, <5>1 DEF CopyOK
      <4> QED BY <4>1, <4>2
    <3>2. n + 1 <= Len(cchunks) /\ n + 1 = A!Max2(n + 1, a.skip)
      BY <1>3, <2>1, <2>2 DEF A!Max2
    <3>3. \A d \in Parents : asking'[d].pc = "mirror" => d = c
      BY <2>10 DEF A!Owning
    <3> QED BY <1>2, <1>3, <2>4, <2>8, <2>10, <3>1, <3>2, <3>3, ZenonT(30) DEF CopyOK, A!Max2
  <2>14. FramesOK'
    <3>1. \A d \in Parents : asking'[d].pc = "mirror" => d = c
      BY <2>10 DEF A!Owning
    <3>2. /\ frames'.at = a.seq /\ k.seq = a.seq + 1 /\ A!LastSequence' < k.seq
          /\ A!Max2(A!LastSequence', terminal') >= a.seq
      <4>1. a.seq \in Nat /\ terminal' \in Nat
        BY <1>1, <1>2, <1>3 DEF ToolTypes
      <4>2. frames'.at = a.seq /\ k.seq = a.seq + 1 /\ A!LastSequence' = a.seq
        BY <2>6, <2>7, <2>8
      <4> HIDE DEF a
      <4> QED BY <4>1, <4>2 DEF A!Max2
    <3>3. frames'.at <= A!Max2(A!LastSequence', terminal')
      <4>1. A!Max2(A!LastSequence', terminal') \in Nat /\ a.seq \in Nat
        BY <1>1, <1>2, <1>3, <2>6 DEF ToolTypes, A!Max2
      <4> QED BY <3>2, <4>1
    <3>4. \A d \in Parents : asking'[d].pc = "mirror" =>
            A!LastSequence' < asking'[d].seq /\ frames'.at < asking'[d].seq
      <4>1. a.seq < k.seq
        BY <1>3, <3>2
      <4> QED BY <2>10, <3>1, <3>2, <4>1
    <3> QED BY <3>3, <3>4 DEF FramesOK
  <2>15. Tells
    BY <1>2, <1>3, <2>7, <2>8, <2>10 DEF Tells, Rises, RowKept, ToldKept
  <2> QED BY <1>4, <2>11, <2>12, <2>13, <2>14, <2>15 DEF ToolOK
<1> QED BY <1>5, <1>6

\* The start arrives at a child that knows nothing of the run.
LEMMA StartKeeps ==
  ASSUME ToolOK, NEW c \in Parents, A!StartArrives(c)
  PROVE  ToolOK' /\ Tells
<1> DEFINE turn == [active |-> FALSE, wrote |-> 0, end |-> "none", abort |-> FALSE, by |-> c]
<1>1. /\ ToolTypes /\ ParentOK /\ ChildOK /\ CopyOK /\ FramesOK
      /\ asking \in [Parents -> Askings] /\ asking[c] \in Askings
  BY DEF ToolOK, ToolTypes
<1>2. asking[c].pc = "start" /\ asking[c].pc \in A!Owning /\ crow = "none" /\ ~asking[c].hard
  BY <1>1 DEF A!StartArrives, A!Is, A!Owning, ParentOK, Knows
<1>3. owner = c /\ row # NoRow /\ row.status \notin A!Hard
  BY <1>2, OwnerFacts
<1>4. PICK r \in A!Reconciled :
        IF r.crow # "none"
        THEN A!Sees(r) /\ A!Mirroring(c, asking[c].how, r.crow) /\ UNCHANGED turns
        ELSE /\ A!Sees([r EXCEPT !.crow = "running"])
             /\ turns' = Append(turns, turn)
             /\ asking' = [asking EXCEPT ![c].pc = "started"]
  BY DEF A!StartArrives
<1>5. /\ r = [crow |-> "none", cchunks |-> cchunks, cstream |-> cstream]
      /\ UNCHANGED <<row, chunks, terminal, owner, frames, ran>>
  BY <1>2 DEF A!Reconciled, A!StartArrives, A!parent
<1>6. /\ crow' = "running" /\ UNCHANGED <<cchunks, cstream>>
      /\ turns' = Append(turns, turn) /\ asking' = [asking EXCEPT ![c].pc = "started"]
  BY <1>4, <1>5 DEF A!Sees
<1>7. turn \in TurnRecords /\ ~turn.active /\ turn.wrote = 0
  BY DEF TurnRecords
<1> HIDE DEF turn
<1>8. /\ turns' \in Seq(TurnRecords) /\ Len(turns') = Len(turns) + 1
      /\ \A i \in 1..Len(turns) : turns'[i] = turns[i]
      /\ turns'[Len(turns) + 1] = turn
  BY <1>1, <1>6, <1>7, AppendProperties DEF ToolTypes
<1>9. Len(turns) \in Nat /\ DOMAIN turns = 1..Len(turns) /\ DOMAIN turns' = 1..(Len(turns) + 1)
  BY <1>1, <1>8, TurnsTyped, LenProperties
<1>10. ChildOK'
  <2>1. \A i \in DOMAIN turns' : (i \in DOMAIN turns /\ turns'[i] = turns[i]) \/ turns'[i] = turn
    BY <1>8, <1>9
  <2>2. \A i \in DOMAIN turns' : (turns'[i].active => i = 1) /\ (~turns'[i].active => turns'[i].wrote = 0)
    BY <1>1, <1>7, <2>1 DEF ChildOK
  <2>3. \/ turns'[1].wrote = 0
        \/ turns'[1].wrote = Len(cchunks) /\ cchunks[1][1] = ran
    <3>1. CASE turns = <<>>
      <4>1. Len(turns) = 0
        BY <3>1, EmptySeq
      <4> QED BY <1>7, <1>8, <4>1
    <3>2. CASE turns # <<>>
      <4>1. turns'[1] = turns[1]
        BY <1>1, <1>8, <1>9, <3>2, TurnsTyped
      <4> QED BY <1>1, <3>2, <4>1 DEF ChildOK
    <3> QED BY <3>1, <3>2
  <2> QED BY <1>1, <1>5, <1>6, <2>2, <2>3 DEF ChildOK
<1>11. PICK k \in Askings : /\ k = [asking[c] EXCEPT !.pc = "started"]
                            /\ k.pc = "started" /\ k.hard = asking[c].hard
  <2> DEFINE q == [asking[c] EXCEPT !.pc = "started"]
  <2>1. q \in Askings /\ q.pc = "started" /\ q.hard = asking[c].hard
    BY <1>1 DEF Askings
  <2> HIDE DEF q
  <2> QED BY <2>1 DEF q
<1>12. /\ asking'[c] = k /\ asking' \in [Parents -> Askings]
       /\ \A d \in Parents : d # c => asking'[d] = asking[d] /\ asking[d].pc \notin A!Owning
  BY <1>1, <1>3, <1>6, <1>11 DEF ParentOK
<1>13. ToolTypes'
  BY <1>1, <1>5, <1>6, <1>8, <1>12 DEF ToolTypes
<1>14. ParentOK'
  <2>1. \A d \in Parents : Knows(asking[d])'
    <3> SUFFICES ASSUME NEW d \in Parents PROVE Knows(asking[d])'
      OBVIOUS
    <3>1. CASE d = c
      BY <1>2, <1>3, <1>5, <1>11, <1>12, <3>1 DEF Knows
    <3>2. CASE d # c
      BY <1>1, <1>3, <1>5, <1>12, <3>2 DEF ParentOK, Knows, A!Owning
    <3> QED BY <3>1, <3>2
  <2>2. \A d \in Parents : asking'[d].pc \in A!Owning => owner' = d
    BY <1>3, <1>5, <1>12
  <2> QED BY <1>3, <1>5, <2>1, <2>2 DEF ParentOK, A!Hard
<1>15. \A d \in Parents : asking'[d].pc # "mirror"
  BY <1>11, <1>12 DEF A!Owning
<1>16. CopyOK'
  <2>1. chunks = <<>>
    BY <1>1, <1>2 DEF CopyOK, A!Hard
  <2> QED BY <1>1, <1>5, <1>6, <1>15, <2>1 DEF CopyOK
<1>17. FramesOK'
  BY <1>1, <1>5, <1>15 DEF FramesOK, A!LastSequence, A!Last, A!Max2
<1>18. Tells
  BY <1>5, <1>11, <1>12 DEF Tells, Rises, RowKept, ToldKept
<1> QED BY <1>10, <1>13, <1>14, <1>16, <1>17, <1>18 DEF ToolOK

\* The row alone is aged, or found to be interrupted, with a sequence for it.
LEMMA RowKeeps ==
  ASSUME ToolOK, UNCHANGED <<chunks, owner, asking, frames, crow, cchunks, cstream, turns, ran>>,
         row # NoRow, row' \in A!Rows, row'.mirrored = row.mirrored,
         \/ row'.status = row.status
         \/ row.status \notin A!Hard /\ row'.status = "interrupted" /\ owner = NoCaller,
         terminal' \in Nat, terminal' >= terminal
  PROVE  ToolOK' /\ Tells
<1>1. ToolTypes /\ ParentOK /\ ChildOK /\ CopyOK /\ FramesOK /\ row' # NoRow
  BY ToolConstants DEF ToolOK
<1>2. ToolTypes'
  BY <1>1 DEF ToolTypes
<1>3. ParentOK'
  <2>1. CASE row'.status = row.status
    BY <1>1, <2>1 DEF ParentOK, Knows
  <2>2. CASE row.status \notin A!Hard /\ row'.status = "interrupted" /\ owner = NoCaller
    <3>1. \A d \in Parents : asking[d].pc \notin A!Owning
      BY <1>1, <2>2, ToolConstants DEF ParentOK
    <3> QED BY <1>1, <2>2, <3>1 DEF ParentOK, Knows, A!Owning
  <2> QED BY <2>1, <2>2
<1>4. ChildOK' /\ CopyOK'
  BY <1>1 DEF ChildOK, CopyOK, A!Max2
<1>5. FramesOK'
  <2>1. A!LastSequence' = A!LastSequence /\ A!LastSequence \in Nat /\ terminal \in Nat /\ frames.at \in Nat
    BY <1>1, SequenceType DEF A!LastSequence, ToolTypes
  <2>2. "error" \in A!Hard
    BY DEF A!Hard
  <2> QED BY <1>1, <2>1, <2>2 DEF FramesOK, A!Max2
<1> QED BY <1>2, <1>3, <1>4, <1>5 DEF ToolOK, Tells, Rises, RowKept, ToldKept

LEMMA RestKeeps ==
  ASSUME ToolOK, A!GraceEnds \/ A!Replay
  PROVE  ToolOK' /\ Tells
<1>1. row # NoRow /\ row \in A!Rows /\ ToolTypes
  BY DEF A!GraceEnds, A!Replay, ToolOK, ToolTypes
<1>2. UNCHANGED <<chunks, owner, asking, frames, crow, cchunks, cstream, turns, ran>>
  BY DEF A!GraceEnds, A!Replay, A!child
<1>3. CASE A!GraceEnds
  <2>1. row' = [row EXCEPT !.old = TRUE] /\ terminal' = terminal
    BY <1>3 DEF A!GraceEnds
  <2>2. row' \in A!Rows /\ row'.status = row.status /\ row'.mirrored = row.mirrored
    BY <1>1, <2>1 DEF A!Rows
  <2> QED BY <1>1, <1>2, <2>1, <2>2, RowKeeps DEF ToolTypes
<1>4. CASE A!Replay
  <2>1. PICK status :
          /\ row' = [row EXCEPT !.status = status]
          /\ \/ status = row.status
             \/ status = "interrupted" /\ row.status \notin A!Hard /\ owner = NoCaller
          /\ terminal' = IF status \in A!Hard \union {"interrupted"}
                         THEN A!Max2(terminal, IF chunks = <<>> THEN 1 ELSE A!NextSequence)
                         ELSE terminal
    <3> DEFINE stale == row.status \notin A!Hard \union {"interrupted"} /\ row.old /\ owner = NoCaller
               status == IF stale THEN "interrupted" ELSE row.status
    <3>1. row' = [row EXCEPT !.status = status]
          /\ terminal' = IF status \in A!Hard \union {"interrupted"}
                         THEN A!Max2(terminal, IF chunks = <<>> THEN 1 ELSE A!NextSequence)
                         ELSE terminal
      BY <1>4 DEF A!Replay
    <3>2. \/ status = row.status
          \/ status = "interrupted" /\ row.status \notin A!Hard /\ owner = NoCaller
      OBVIOUS
    <3> HIDE DEF status
    <3> QED BY <3>1, <3>2
  <2>2. row' \in A!Rows /\ row'.status = status /\ row'.mirrored = row.mirrored
    BY <1>1, <2>1 DEF A!Rows, A!Statuses
  <2>3. terminal' \in Nat /\ terminal' >= terminal
    BY <1>1, <2>1, SequenceType DEF A!Max2, ToolTypes
  <2> QED BY <1>1, <1>2, <2>1, <2>2, <2>3, RowKeeps
<1> QED BY <1>3, <1>4

LEMMA EvictedKeeps ==
  ASSUME ToolOK, Stays, ChildTypes', ChildOK', A!ParentEvicted
  PROVE  ToolOK' /\ Tells
<1>1. /\ owner # NoCaller /\ owner' = NoCaller /\ asking' = [d \in Parents |-> A!Uncalled]
      /\ UNCHANGED <<row, chunks, terminal, frames>>
  BY DEF A!ParentEvicted
<1>2. row # NoRow
  BY <1>1 DEF ToolOK, ParentOK
<1>3. \A d \in Parents : asking'[d] = A!Uncalled /\ A!Uncalled.pc = "idle"
  BY <1>1 DEF A!Uncalled
<1>4. Freed
  BY <1>1, <1>3, UncalledType DEF Freed, A!Owning
<1>5. ToolOK' /\ Rises /\ RowKept
  BY <1>1, <1>2, <1>4, FreedKeeps
<1> QED BY <1>3, <1>5 DEF Tells, ToldKept

LEMMA ToolsInit == A!Init => ToolOK
<1> SUFFICES ASSUME A!Init PROVE ToolOK
  OBVIOUS
<1>1. /\ chunks = <<>> /\ terminal = 0 /\ owner = NoCaller
      /\ asking = [c \in Parents |-> A!Uncalled] /\ frames = [odd |-> 0, at |-> 0] /\ turns = <<>>
  BY DEF A!Init
<1>2. \A c \in Parents : asking[c].pc = "idle" /\ asking[c] \in Askings
  BY <1>1, UncalledType DEF A!Uncalled
<1>3. /\ chunks \in Seq([seq: Nat, body: Nat \X Nat]) /\ Len(chunks) = 0 /\ DOMAIN chunks = {}
      /\ turns \in Seq(TurnRecords) /\ DOMAIN turns = {}
  BY <1>1, EmptySeq
<1>4. /\ row \in A!Rows \union {NoRow} /\ crow \in {"none", "running"} \union A!Hard
      /\ cstream \in {"none", "streaming", "completed", "error"} /\ ran \in Nat
      /\ row # NoRow => row.status = "completed" /\ crow = "completed"
      /\ row = NoRow => crow = "none"
  <2>1. [status |-> "completed", mirrored |-> FALSE, old |-> TRUE] \in A!Rows
    BY DEF A!Rows, A!Statuses, A!Hard
  <2>2. 0 \in Nat /\ 1 \in Nat /\ "completed" \in A!Hard
    BY DEF A!Hard
  <2>3. CASE row = NoRow /\ crow = "none" /\ cstream = "none" /\ ran = 0
    BY <2>2, <2>3
  <2>4. CASE /\ row = [status |-> "completed", mirrored |-> FALSE, old |-> TRUE]
             /\ crow = "completed" /\ cstream = "completed" /\ ran = 1
    BY <2>1, <2>2, <2>4, ToolConstants
  <2> QED BY <2>3, <2>4 DEF A!Init
<1>5. /\ cchunks \in Seq(Nat \X Nat) /\ Len(cchunks) \in Nat
      /\ \A i \in DOMAIN cchunks : cchunks[i] = <<cchunks[1][1], i - 1>>
  <2>1. cchunks = <<>> \/ cchunks = <<<<1, 0>>>>
    BY DEF A!Init
  <2>2. CASE cchunks = <<>>
    BY <2>2, EmptySeq
  <2>3. CASE cchunks = <<<<1, 0>>>>
    BY <2>3
  <2> QED BY <2>1, <2>2, <2>3
<1>6. ToolTypes
  BY <1>1, <1>2, <1>3, <1>4, <1>5 DEF ToolTypes
<1>7. ParentOK
  BY <1>1, <1>2, <1>4 DEF ParentOK, Knows, A!Owning
<1>8. ChildOK /\ CopyOK
  BY <1>1, <1>2, <1>3, <1>5 DEF ChildOK, CopyOK
<1>9. FramesOK
  BY <1>1, <1>2 DEF FramesOK, A!LastSequence, A!Max2
<1> QED BY <1>6, <1>7, <1>8, <1>9 DEF ToolOK

LEMMA ToolsStep == ToolOK /\ [A!Next]_A!vars => ToolOK' /\ Tells
<1> SUFFICES ASSUME ToolOK, [A!Next]_A!vars PROVE ToolOK' /\ Tells
  OBVIOUS
<1>1. ToolTypes /\ ChildOK
  BY DEF ToolOK
<1>2. CASE UNCHANGED A!vars
  <2>1. UNCHANGED <<row, chunks, terminal, frames, owner, asking, crow, cchunks, cstream, turns, ran>>
    BY <1>2 DEF A!vars, A!parent, A!child
  <2>2. ChildTypes' /\ ChildOK' /\ Stays
    BY <1>1, <2>1, TurnsTyped DEF ChildTypes, ToolTypes, ChildOK, Stays
  <2> QED BY <2>1, <2>2, StillKeeps
<1>3. CASE \E c \in Parents : A!StartArrives(c)
  BY <1>3, StartKeeps
<1>4. CASE A!Next /\ \A c \in Parents : ~A!StartArrives(c)
  <2>1. ChildTypes' /\ ChildOK' /\ Stays
    BY <1>1, <1>4, ChildKeeps
  <2>2. CASE \E c \in Parents : A!Calls(c) \/ A!Begins(c) \/ A!Wakes(c) \/ A!SetAbort(c)
                                  \/ A!Resolved(c) \/ A!StartBreaks(c)
    BY <2>1, <2>2, CallersKeep
  <2>3. CASE \E c \in Parents : A!ResolveFails(c) \/ A!RecoverFails(c) \/ A!InspectFails(c)
                                  \/ A!OwnerCancelled(c)
    BY <2>1, <2>3, FailsKeep
  <2>4. CASE \E c \in Parents : A!MirrorPage(c) \/ A!Mirrored(c)
    BY <2>1, <2>4, PageKeeps, MirroredKeeps
  <2>5. CASE \E c \in Parents : A!MirrorFails(c) \/ A!Recovers(c) \/ A!Inspects(c)
    BY <2>1, <2>5, LooksKeep
  <2>6. CASE \/ A!TurnBegins \/ A!TurnWrites \/ (\E end \in {"completed", "error"} : A!StreamEnds(end))
             \/ A!TurnSettles \/ A!TurnDropped \/ A!Cancel \/ A!ChildEvicted
    BY <2>1, <2>6, ChildMovesKeep
  <2>7. CASE A!ParentEvicted \/ A!GraceEnds \/ A!Replay
    BY <2>1, <2>7, EvictedKeeps, RestKeeps
  <2> QED BY <1>4, <2>2, <2>3, <2>4, <2>5, <2>6, <2>7 DEF A!Next
<1> QED BY <1>2, <1>3, <1>4

LEMMA ToolsAlways == A!Spec => []ToolOK
<1>1. ToolOK /\ [A!Next]_A!vars => ToolOK'
  BY ToolsStep
<1> QED BY <1>1, ToolsInit, PTL DEF A!Spec

\* One caller of run_agent_tool at a time has the run, and what it copied is
\* what the child wrote, in order and of one turn: over failed calls,
\* evictions of either agent and any number of callers that resume it.
THEOREM CopyIsFaithful == A!Spec => []CopyIsTrue
<1>1. ToolOK => CopyIsTrue
  <2> SUFFICES ASSUME ToolOK PROVE A!OneOwner /\ A!CopiedInOrder
    BY DEF CopyIsTrue, A!CopyIsTrue
  <2>1. A!OneOwner
    BY DEF ToolOK, ParentOK, A!OneOwner
  <2>2. ToolTypes /\ ChildOK /\ CopyOK
    BY DEF ToolOK
  <2>3. /\ Len(chunks) \in Nat /\ DOMAIN chunks = 1..Len(chunks)
        /\ Len(cchunks) \in Nat /\ DOMAIN cchunks = 1..Len(cchunks)
    BY <2>2, LenProperties DEF ToolTypes
  <2>4. \A i \in DOMAIN chunks : i \in DOMAIN cchunks /\ chunks[i].body = <<cchunks[1][1], i - 1>>
    BY <2>2, <2>3 DEF CopyOK, ChildOK
  <2>5. \A i \in DOMAIN chunks : i > 1 => i - 1 \in DOMAIN chunks
    BY <2>3
  <2> QED BY <2>1, <2>4, <2>5 DEF A!CopiedInOrder
<1> QED BY <1>1, ToolsAlways, PTL

\* Clients of the parent get a run's frames under rising sequences, a caller is
\* told the result that the row keeps, and a result that is kept stays
\* (_finish_agent_tool_run, _record_terminal_sequence and replay).
THEOREM ToldFaithfully == A!Spec => ToldInOrder
<1>1. ToolOK /\ [A!Next]_A!vars => [frames'.odd # frames.odd => frames'.at > frames.at]_A!vars
  BY ToolsStep DEF Tells, Rises
<1>2. ToolOK /\ [A!Next]_A!vars =>
        [/\ row # NoRow /\ A!IsHard(row) => row'.status = row.status
         /\ \A c \in Parents :
              asking[c].pc # "done" /\ asking'[c].pc = "done" /\ asking'[c].result \in A!Hard =>
                row'.status = asking'[c].result]_A!vars
  BY ToolsStep DEF Tells, RowKept, ToldKept, A!IsHard
<1> QED BY <1>1, <1>2, ToolsAlways, PTL DEF A!Spec, ToldInOrder, A!ToldInOrder, A!FramesRise, A!ToldIsKept

-----------------------------------------------------------------------------
(* Sessions: the tables of one tree.                                       *)

Kept(R) == {id \in Messages : R[id] # NoMessage}
TreeOK(R) ==
  /\ R \in [Messages -> S!Row \union {NoMessage}]
  /\ \A a, b \in Kept(R) : R[a].seq = R[b].seq => a = b

Summaries == [from: Messages, to: Messages]

\* e is the end of R: the message stored last, and the next number.
IsEnd(R, e) ==
  /\ e \in S!End
  /\ Kept(R) = {} => e = [leaf |-> NoId, next |-> 1]
  /\ Kept(R) # {} =>
       /\ e.leaf \in Kept(R) /\ e.next = R[e.leaf].seq + 1
       /\ \A o \in Kept(R) : R[o].seq <= R[e.leaf].seq

LEMMA SessionConstants ==
  /\ Trees # {} /\ Opened \subseteq Trees /\ IsFiniteSet(Messages)
  /\ NoId \notin Messages /\ NoBlob \notin Blobs /\ NoMessage \notin S!Row /\ NoTail \notin S!End
<1>1. S!SessionsAssumption  BY StoresAssumption
<1>2. Trees # {} /\ Opened \subseteq Trees  BY <1>1 DEF S!SessionsAssumption
<1>4. IsFiniteSet(Messages)
  <2>1. S!IsFiniteSet(Messages)  BY <1>1 DEF S!SessionsAssumption
  <2> QED  BY <2>1 DEF S!IsFiniteSet, IsFiniteSet
<1>3. NoId \notin Messages /\ NoBlob \notin Blobs /\ NoMessage \notin S!Row /\ NoTail \notin S!End
  BY <1>1 DEF S!SessionsAssumption
<1> QED  BY <1>2, <1>3, <1>4

LEMMA RowFields ==
  ASSUME NEW R, TreeOK(R), NEW id \in Kept(R)
  PROVE  /\ id \in Messages /\ R[id] \in S!Row /\ R[id].seq \in Nat
         /\ R[id].parent \in Messages \union {NoId} /\ R[id].blob \in Blobs \union {NoBlob}
BY DEF TreeOK, Kept, S!Row

LEMMA OneEnd ==
  ASSUME NEW R, TreeOK(R), NEW e, IsEnd(R, e), NEW f, IsEnd(R, f)
  PROVE  e = f
<1>1. CASE Kept(R) = {}  BY <1>1 DEF IsEnd
<1>2. CASE Kept(R) # {}
  <2>1. /\ e.leaf \in Kept(R) /\ f.leaf \in Kept(R)
        /\ R[f.leaf].seq <= R[e.leaf].seq /\ R[e.leaf].seq <= R[f.leaf].seq
        /\ e.next = R[e.leaf].seq + 1 /\ f.next = R[f.leaf].seq + 1
    BY <1>2 DEF IsEnd
  <2>2. R[e.leaf].seq \in Nat /\ R[f.leaf].seq \in Nat  BY <2>1, RowFields
  <2>3. R[e.leaf].seq = R[f.leaf].seq  BY <2>1, <2>2
  <2>4. e.leaf = f.leaf /\ e.next = f.next  BY <2>1, <2>3 DEF TreeOK
  <2> QED  BY <2>4 DEF IsEnd, S!End
<1> QED  BY <1>1, <1>2

\* What is read from the table is its end: a finite set of numbers has a last.
LEMMA TableEnds ==
  ASSUME NEW s \in Trees, TreeOK(messages[s])
  PROVE  IsEnd(messages[s], S!TailOfTable(s))
<1> DEFINE R == messages[s]
<1>1. S!Present(s) = Kept(R)  BY DEF S!Present, Kept
<1>2. CASE Kept(R) = {}
  <2>1. S!TailOfTable(s) = [leaf |-> NoId, next |-> 1]  BY <1>1, <1>2 DEF S!TailOfTable
  <2> QED  BY <1>2, <2>1 DEF IsEnd, S!End
<1>3. CASE Kept(R) # {}
  <2> DEFINE After == {x \in Kept(R) \X Kept(R) : R[x[2]].seq < R[x[1]].seq}
  <2>1. \A a, b \in Kept(R) : <<a, b>> \in After <=> R[b].seq < R[a].seq  OBVIOUS
  <2>2. \A a \in Kept(R) : R[a].seq \in Nat  BY RowFields
  <2>3. \A a, b \in Kept(R) : R[a].seq = R[b].seq => a = b  BY DEF TreeOK
  <2>4. IsFiniteSet(Kept(R))  BY SessionConstants, FS_Subset DEF Kept
  <2> HIDE DEF After, R
  <2>5. /\ \A a \in Kept(R) : <<a, a>> \notin After
        /\ \A a, b \in Kept(R) : a = b \/ <<a, b>> \in After \/ <<b, a>> \in After
    BY <2>1, <2>2, <2>3
  <2>6. \A a, b, c \in Kept(R) : <<a, b>> \in After /\ <<b, c>> \in After => <<a, c>> \in After
    BY <2>1, <2>2
  <2>7. PICK m \in Kept(R) : \A o \in Kept(R) : o = m \/ <<m, o>> \in After
    BY <1>3, <2>4, <2>5, <2>6, FiniteFirst
  <2>8. ASSUME NEW o \in Kept(R)  PROVE R[o].seq <= R[m].seq
    <3>1. o = m \/ R[o].seq < R[m].seq  BY <2>1, <2>7
    <3>2. R[o].seq \in Nat /\ R[m].seq \in Nat  BY <2>2
    <3> QED  BY <3>1, <3>2
  <2> DEFINE last == CHOOSE id \in Kept(R) : \A o \in Kept(R) : R[o].seq <= R[id].seq
  <2>9. last \in Kept(R) /\ \A o \in Kept(R) : R[o].seq <= R[last].seq  BY <2>8
  <2>10. S!TailOfTable(s) = [leaf |-> last, next |-> R[last].seq + 1]
    BY <1>1, <1>3 DEF S!TailOfTable, R
  <2> HIDE DEF last
  <2>11. last \in Messages /\ R[last].seq + 1 \in Nat  BY <2>2, <2>9 DEF Kept
  <2> QED  BY <1>3, <2>9, <2>10, <2>11 DEF IsEnd, S!End, R
<1> QED  BY <1>2, <1>3

\* Tables with the same messages under the same numbers are as good, and have the same end.
LEMMA SameNumbers ==
  ASSUME NEW R, TreeOK(R), NEW Q \in [Messages -> S!Row \union {NoMessage}], Kept(Q) \subseteq Kept(R),
         \A id \in Kept(Q) : Q[id].seq = R[id].seq
  PROVE  /\ TreeOK(Q)
         /\ \A e : Kept(Q) = Kept(R) /\ IsEnd(R, e) => IsEnd(Q, e)
<1>1. TreeOK(Q)  BY DEF TreeOK
<1>2. ASSUME NEW e, Kept(Q) = Kept(R), IsEnd(R, e)  PROVE IsEnd(Q, e)
  BY <1>2 DEF IsEnd
<1> QED  BY <1>1, <1>2

\* A message stored under the next number is the new end.
LEMMA NewEnd ==
  ASSUME NEW R, TreeOK(R), NEW e, IsEnd(R, e), NEW id \in Messages, id \notin Kept(R),
         NEW msg \in S!Row, msg.seq = e.next, NEW Q, Q = [R EXCEPT ![id] = msg]
  PROVE  TreeOK(Q) /\ IsEnd(Q, [leaf |-> id, next |-> e.next + 1])
<1>1. R \in [Messages -> S!Row \union {NoMessage}] /\ msg # NoMessage  BY SessionConstants DEF TreeOK
<1>2. Q \in [Messages -> S!Row \union {NoMessage}] /\ \A o \in Messages : Q[o] = IF o = id THEN msg ELSE R[o]
  BY <1>1
<1>3. Kept(Q) = Kept(R) \union {id}  BY <1>1, <1>2 DEF Kept
<1>4. e.next \in Nat  BY DEF IsEnd, S!End
<1>5. \A o \in Kept(R) : R[o].seq \in Nat /\ R[o].seq < e.next
  <2>1. \A o \in Kept(R) : R[o].seq \in Nat  BY RowFields
  <2>2. ASSUME NEW o \in Kept(R)  PROVE R[o].seq < e.next
    <3>1. e.leaf \in Kept(R) /\ e.next = R[e.leaf].seq + 1 /\ R[o].seq <= R[e.leaf].seq  BY DEF IsEnd
    <3> QED  BY <2>1, <3>1
  <2> QED  BY <2>1, <2>2
<1>6. \A o \in Kept(Q) : Q[o].seq = IF o = id THEN e.next ELSE R[o].seq  BY <1>2, <1>3 DEF Kept
<1>7. TreeOK(Q)
  <2> SUFFICES ASSUME NEW a \in Kept(Q), NEW b \in Kept(Q), Q[a].seq = Q[b].seq  PROVE a = b
    BY <1>2 DEF TreeOK
  <2>1. CASE a # id /\ b # id  BY <1>3, <1>6, <2>1 DEF TreeOK
  <2>2. ASSUME NEW o \in Kept(R), o # id  PROVE Q[o].seq # Q[id].seq
    <3>1. Q[o].seq = R[o].seq /\ Q[id].seq = e.next  BY <1>3, <1>6, <2>2
    <3>2. R[o].seq \in Nat /\ R[o].seq < e.next  BY <1>5
    <3> QED  BY <1>4, <3>1, <3>2
  <2>3. CASE a = id \/ b = id  BY <1>3, <2>2, <2>3
  <2> QED  BY <2>1, <2>3
<1>8. IsEnd(Q, [leaf |-> id, next |-> e.next + 1])
  <2> DEFINE f == [leaf |-> id, next |-> e.next + 1]
  <2>1. f.leaf = id /\ f.next = e.next + 1 /\ f \in S!End  BY <1>4 DEF S!End
  <2> HIDE DEF f
  <2>2. ASSUME NEW o \in Kept(Q)  PROVE Q[o].seq <= Q[id].seq
    <3>1. Q[id].seq = e.next /\ Q[o].seq = IF o = id THEN e.next ELSE R[o].seq  BY <1>3, <1>6
    <3>2. o # id => R[o].seq \in Nat /\ R[o].seq < e.next  BY <1>3, <1>5
    <3> QED  BY <1>4, <3>1, <3>2
  <2>3. IsEnd(Q, f)  BY <1>3, <1>6, <2>1, <2>2 DEF IsEnd
  <2> QED  BY <2>3 DEF f
<1> QED  BY <1>7, <1>8

-----------------------------------------------------------------------------
(* Sessions: the chain of parents.                                         *)

\* A set of numbers that is not empty has a least one.
LEMMA Least ==
  ASSUME NEW T \in SUBSET Nat, T # {}
  PROVE  \E x \in T : \A y \in T : x <= y
<1> DEFINE R == OpToRel(<, Nat)
<1>1. IsWellFoundedOn(R, Nat)  BY NatLessThanWellFounded
<1>2. \A x, y \in Nat : x < y => <<x, y>> \in R  BY DEF OpToRel
<1> HIDE DEF R
<1>3. PICK x \in T : \A y \in T : ~(<<y, x>> \in R)  BY <1>1, WFMin
<1>4. ASSUME NEW y \in T  PROVE x <= y
  <2>1. ~(<<y, x>> \in R)  BY <1>3
  <2>2. x \in Nat /\ y \in Nat  OBVIOUS
  <2>3. ~(y < x)  BY <1>2, <2>1, <2>2
  <2> QED  BY <2>2, <2>3
<1> QED  BY <1>4

LEMMA Size == Cardinality(Messages) \in Nat /\ S!Cardinality(Messages) = Cardinality(Messages)
<1>1. Cardinality(Messages) \in Nat  BY SessionConstants, FS_CardinalityType
<1>2. S!Cardinality(Messages) = Cardinality(Messages)
  BY Zenon DEF S!Cardinality, Cardinality
<1> QED  BY <1>1, <1>2

\* The chain is the function its definition asks for: take the least length
\* for which there is none.
LEMMA ChainIs ==
  ASSUME NEW s, NEW id, NEW k \in 0..S!Cardinality(Messages)
  PROVE  /\ DOMAIN S!Chain(s, id) = 0..S!Cardinality(Messages)
         /\ S!Chain(s, id)[k] =
              IF k = 0 THEN id
              ELSE IF S!Exists(s, S!Chain(s, id)[k - 1]) THEN messages[s][S!Chain(s, id)[k - 1]].parent
              ELSE NoId
<1> DEFINE Up(m) == IF S!Exists(s, m) THEN messages[s][m].parent ELSE NoId
           Is(g, n) == g = [j \in 0..n |-> IF j = 0 THEN id ELSE Up(g[j - 1])]
           N == S!Cardinality(Messages)
           T == {n \in Nat : ~\E g : Is(g, n)}
<1>1. S!Chain(s, id) = CHOOSE g : Is(g, N)  BY DEF S!Chain
<1>2. N \in Nat  BY Size
<1> HIDE DEF Up, N
<1>3. T = {}
  <2> SUFFICES ASSUME T # {}  PROVE FALSE  OBVIOUS
  <2>1. PICK n \in T : \A y \in T : n <= y  BY Least
  <2>2. n # 0
    <3> DEFINE g == [j \in 0..0 |-> id]
    <3>1. Is(g, 0)  OBVIOUS
    <3> QED  BY <3>1, <2>1
  <2>3. n - 1 \in Nat /\ ~(n <= n - 1) /\ n \in Nat  BY <2>2
  <2>4. PICK g : Is(g, n - 1)  BY <2>1, <2>3
  <2> DEFINE h == [j \in 0..n |-> IF j = n THEN Up(g[n - 1]) ELSE g[j]]
  <2>5. Is(h, n)
    <3> SUFFICES ASSUME NEW j \in 0..n  PROVE h[j] = IF j = 0 THEN id ELSE Up(h[j - 1])  OBVIOUS
    <3>1. CASE j = 0  BY <3>1, <2>3, <2>4
    <3>2. CASE j # 0 /\ j # n
      <4>1. j - 1 \in 0..(n - 1) /\ j - 1 \in 0..n /\ j \in 0..(n - 1) /\ j - 1 # n  BY <3>2, <2>3
      <4> QED  BY <4>1, <3>2, <2>4
    <3>3. CASE j = n
      <4>1. j - 1 \in 0..n /\ j - 1 # n  BY <3>3, <2>3
      <4> QED  BY <4>1, <3>3, <2>2
    <3> QED  BY <3>1, <3>2, <3>3
  <2> QED  BY <2>5, <2>1
<1>4. \E g : Is(g, N)  BY <1>2, <1>3
<1> HIDE DEF T
<1>5. Is(CHOOSE g : Is(g, N), N)  BY <1>4
<1> DEFINE C == S!Chain(s, id)
<1>6. Is(C, N)  BY <1>1, <1>5
<1> HIDE DEF C
<1>7. C[k] = IF k = 0 THEN id ELSE Up(C[k - 1])  BY <1>6 DEF N
<1>8. DOMAIN C = 0..N  BY <1>6
<1> QED  BY <1>7, <1>8 DEF Up, C, N

LEMMA ChainTypes ==
  ASSUME NEW s, TreeOK(messages[s]), NEW id \in Messages, NEW k \in 0..S!Cardinality(Messages)
  PROVE  S!Chain(s, id)[k] \in Messages \union {NoId}
<1> DEFINE C == S!Chain(s, id)
<1>1. C[k] = IF k = 0 THEN id
             ELSE IF S!Exists(s, C[k - 1]) THEN messages[s][C[k - 1]].parent ELSE NoId
  BY ChainIs
<1> HIDE DEF C
<1>2. S!Exists(s, C[k - 1]) => C[k - 1] \in Kept(messages[s])  BY DEF S!Exists, Kept
<1>3. S!Exists(s, C[k - 1]) => messages[s][C[k - 1]].parent \in Messages \union {NoId}
  BY <1>2, RowFields
<1> QED  BY <1>1, <1>3 DEF C

LEMMA NearestType ==
  ASSUME NEW s, TreeOK(messages[s]), NEW id \in Messages, NEW deleted
  PROVE  S!Nearest(s, id, deleted) \in Messages \union {NoId}
<1> DEFINE up == S!Chain(s, id)
           N == S!Cardinality(Messages)
           stops == {k \in 1..N : up[k] \notin deleted}
           ends == {k \in 1..N : up[k] \in deleted /\ ~S!Exists(s, up[k])}
           first == CHOOSE k \in stops : \A j \in stops : k <= j
<1>1. S!Nearest(s, id, deleted) =
        IF stops = {} \/ (\E e \in ends : \A k \in stops : e < k) THEN up[1] ELSE up[first]
  BY DEF S!Nearest
<1>2. 1 \in 0..N
  <2>1. Cardinality(Messages) # 0  BY SessionConstants, FS_EmptySet
  <2> QED  BY <2>1, Size
<1>3. N \in Nat  BY Size
<1> HIDE DEF N
<1>4. stops # {} => first \in 0..N
  <2>1. stops \in SUBSET Nat  BY <1>3
  <2> HIDE DEF stops
  <2>2. stops # {} => \E x \in stops : \A y \in stops : x <= y  BY <2>1, Least
  <2>3. stops # {} => first \in stops  BY <2>2
  <2> QED  BY <1>3, <2>3 DEF stops
<1> HIDE DEF first, stops, ends
<1>5. \A k \in 0..N : up[k] \in Messages \union {NoId}  BY ChainTypes DEF N
<1> HIDE DEF up
<1> QED  BY <1>1, <1>2, <1>4, <1>5

\* The first of the summaries the function was shown begins at a message.
LEMMA ExtendedType ==
  ASSUME NEW s, overlays[s] \in Seq(Summaries), NEW from \in Messages
  PROVE  S!Extended(s, from) \in Messages
<1> DEFINE h == work[s].history
           known == {k \in DOMAIN overlays[s] :
                       \/ k \in h.shown
                       \/ overlays[s][k].from \in h.raw /\ overlays[s][k].to \in h.raw}
           first == CHOOSE k \in known : \A j \in known : k <= j
<1>1. S!Extended(s, from) = IF known = {} THEN from ELSE overlays[s][first].from
  BY DEF S!Extended
<1>2. known \subseteq DOMAIN overlays[s] /\ known \in SUBSET Nat
  OBVIOUS
<1> HIDE DEF known
<1>3. known # {} => \E x \in known : \A y \in known : x <= y  BY <1>2, Least
<1>4. known # {} => first \in DOMAIN overlays[s]  BY <1>2, <1>3
<1> HIDE DEF first
<1> DEFINE O == overlays[s]
<1>6. O \in Seq(Summaries) /\ (known # {} => first \in DOMAIN O)  BY <1>4
<1> HIDE DEF O
<1>7. \A i \in DOMAIN O : O[i] \in Summaries  BY <1>6
<1>5. known # {} => O[first].from \in Messages  BY <1>6, <1>7 DEF Summaries
<1> USE DEF O
<1> QED  BY <1>1, <1>5

-----------------------------------------------------------------------------
(* Sessions: what is derived from the tables.                              *)

\* The pointers of the messages in M, a table for each tree.
PointersIn(M) ==
  {r \in Trees \X Messages \X Blobs : r[2] \in Kept(M[r[1]]) /\ M[r[1]][r[2]].blob = r[3]}

MessagesIn(M) == {x \in Trees \X Messages : x[2] \in Kept(M[x[1]])}
Tables == [Trees -> [Messages -> S!Row \union {NoMessage}]]

\* Each tree is in order, and what is derived from the trees agrees with them.
TreesOK ==
  /\ messages \in Tables
  /\ \A s \in Trees : TreeOK(messages[s])
TailsOK ==
  /\ tails \in [Trees -> S!End \union {NoTail}]
  /\ \A s \in Trees : tails[s] # NoTail => IsEnd(messages[s], tails[s])
PointersOK == refs = PointersIn(messages) /\ blobs = {r[3] : r \in refs}
IndexOK ==
  /\ index \in [active: BOOLEAN, rows: SUBSET (Trees \X Messages)]
  /\ index.active => index.rows = MessagesIn(messages)
SessionOK ==
  TreesOK /\ TailsOK /\ PointersOK /\ IndexOK /\ overlays \in [Trees -> Seq(Summaries)]

\* A write of the messages D of tree s, which becomes Q with the end e: outside
\* of D nothing is added, lost or pointed elsewhere, and P is what D points to.
TreeWritten(s, Q, D, P, e) ==
  LET gone == {r \in refs : r[1] = s /\ r[2] \in D} \ P
  IN  /\ s \in Trees /\ TreeOK(Q) /\ D \in SUBSET Messages
      /\ \A id \in Messages \ D : id \in Kept(Q) <=> id \in Kept(messages[s])
      /\ \A id \in Messages \ D : id \in Kept(Q) => Q[id].blob = messages[s][id].blob
      /\ P = {r \in Trees \X Messages \X Blobs :
                r[1] = s /\ r[2] \in D /\ r[2] \in Kept(Q) /\ r[3] = Q[r[2]].blob}
      /\ e = NoTail \/ IsEnd(Q, e)
      /\ messages' = [messages EXCEPT ![s] = Q]
      /\ tails' = [tails EXCEPT ![s] = e]
      /\ refs' = (refs \ gone) \union P
      /\ blobs' = (blobs \union {r[3] : r \in P}) \ S!Collected(s, {r[3] : r \in gone}, refs')
      /\ \E add, drop \in SUBSET D :
           /\ add = D \intersect Kept(Q) /\ D \ add \subseteq (Messages \ Kept(messages[s])) \union drop
           /\ drop \intersect add = {} /\ S!Indexed(s, add, drop)

LEMMA WriteKeeps ==
  ASSUME SessionOK, NEW s, NEW Q, NEW D, NEW P, NEW e, TreeWritten(s, Q, D, P, e),
         overlays' \in [Trees -> Seq(Summaries)]
  PROVE  SessionOK'
<1> DEFINE gone == {r \in refs : r[1] = s /\ r[2] \in D} \ P
<1>1. /\ s \in Trees /\ TreeOK(Q) /\ D \in SUBSET Messages
      /\ messages' = [messages EXCEPT ![s] = Q] /\ tails' = [tails EXCEPT ![s] = e]
      /\ e = NoTail \/ IsEnd(Q, e)
  BY DEF TreeWritten
<1>2. messages \in Tables /\ tails \in [Trees -> S!End \union {NoTail}]  BY DEF SessionOK, TreesOK, TailsOK
<1>3. TreesOK'
  <2>1. Q \in [Messages -> S!Row \union {NoMessage}]  BY <1>1 DEF TreeOK
  <2>2. messages' \in Tables  BY <1>1, <1>2, <2>1 DEF Tables
  <2>3. \A t \in Trees : messages'[t] = IF t = s THEN Q ELSE messages[t]  BY <1>1, <1>2 DEF Tables
  <2> QED  BY <1>1, <2>2, <2>3 DEF SessionOK, TreesOK
<1>4. TailsOK'
  <2>1. e \in S!End \union {NoTail}  BY <1>1 DEF IsEnd
  <2>2. tails' \in [Trees -> S!End \union {NoTail}]  BY <1>1, <1>2, <2>1
  <2>3. \A t \in Trees : messages'[t] = IF t = s THEN Q ELSE messages[t]  BY <1>1, <1>2 DEF Tables
  <2>4. \A t \in Trees : tails'[t] = IF t = s THEN e ELSE tails[t]  BY <1>1, <1>2
  <2> QED  BY <1>1, <2>2, <2>3, <2>4 DEF SessionOK, TailsOK
<1>5. PointersOK'
  <2>1. refs = PointersIn(messages) /\ blobs = {r[3] : r \in refs}  BY DEF SessionOK, PointersOK
  <2>2. PointersIn(messages') = {r \in PointersIn(messages) : ~(r[1] = s /\ r[2] \in D)} \union P
    <3>1. /\ \A id \in Messages \ D : id \in Kept(Q) <=> id \in Kept(messages[s])
          /\ \A id \in Messages \ D : id \in Kept(Q) => Q[id].blob = messages[s][id].blob
          /\ P = {r \in Trees \X Messages \X Blobs :
                    r[1] = s /\ r[2] \in D /\ r[2] \in Kept(Q) /\ r[3] = Q[r[2]].blob}
      BY DEF TreeWritten
    <3>2. messages'[s] = Q /\ \A t \in Trees : t # s => messages'[t] = messages[t]  BY <1>1, <1>2 DEF Tables
    <3>3. P \subseteq Trees \X Messages \X Blobs  BY <3>1
    <3> SUFFICES ASSUME NEW r \in Trees \X Messages \X Blobs
                 PROVE  r \in PointersIn(messages') <=>
                          (r \in PointersIn(messages) /\ ~(r[1] = s /\ r[2] \in D)) \/ r \in P
      BY <3>3 DEF PointersIn
    <3>4. r[1] \in Trees /\ r[2] \in Messages  OBVIOUS
    <3>5. /\ r \in PointersIn(messages') <=> (r[2] \in Kept(messages'[r[1]]) /\ messages'[r[1]][r[2]].blob = r[3])
          /\ r \in PointersIn(messages) <=> (r[2] \in Kept(messages[r[1]]) /\ messages[r[1]][r[2]].blob = r[3])
          /\ r \in P <=> (r[1] = s /\ r[2] \in D /\ r[2] \in Kept(Q) /\ r[3] = Q[r[2]].blob)
      BY <3>1 DEF PointersIn
    <3>6. CASE r[1] # s  BY <3>2, <3>4, <3>5, <3>6
    <3>7. CASE r[1] = s /\ r[2] \in D  BY <3>2, <3>4, <3>5, <3>7
    <3>8. CASE r[1] = s /\ r[2] \notin D
      <4>1. r \notin P /\ messages'[r[1]] = Q  BY <3>2, <3>5, <3>8
      <4>2. r[2] \in Kept(Q) <=> r[2] \in Kept(messages[s])  BY <3>1, <3>4, <3>8
      <4>3. r[2] \in Kept(Q) => Q[r[2]].blob = messages[s][r[2]].blob  BY <3>1, <3>4, <3>8
      <4> QED  BY <3>5, <3>8, <4>1, <4>2, <4>3
    <3> QED  BY <3>6, <3>7, <3>8
  <2>3. refs' = (refs \ gone) \union P  BY DEF TreeWritten
  <2>4. refs' = PointersIn(messages')  BY <2>1, <2>2, <2>3
  <2>5. blobs' = (blobs \union {r[3] : r \in P}) \ S!Collected(s, {r[3] : r \in gone}, refs')  BY DEF TreeWritten
  <2>6. gone \in SUBSET refs  OBVIOUS
  <2> HIDE DEF gone
  <2>7. blobs' = {r[3] : r \in refs'}
    <3>1. blobs' = ({r[3] : r \in refs} \union {r[3] : r \in P})
                     \ {b \in {r[3] : r \in gone} : ~\E r \in refs' : r[3] = b}
      BY <2>1, <2>5 DEF S!Collected
    <3>2. ASSUME NEW r \in refs'  PROVE r[3] \in blobs'  BY <2>3, <3>1
    <3>3. ASSUME NEW b \in blobs'  PROVE \E r \in refs' : r[3] = b  BY <2>3, <2>6, <3>1
    <3> HIDE DEF gone
    <3> QED  BY <3>2, <3>3
  <2> QED  BY <2>4, <2>7 DEF PointersOK
<1>6. IndexOK'
  <2>1. PICK add, drop \in SUBSET D :
           /\ add = D \intersect Kept(Q) /\ D \ add \subseteq (Messages \ Kept(messages[s])) \union drop
           /\ drop \intersect add = {} /\ S!Indexed(s, add, drop)
    BY DEF TreeWritten
  <2>2. index \in [active: BOOLEAN, rows: SUBSET (Trees \X Messages)]
        /\ (index.active => index.rows = MessagesIn(messages))
    BY DEF SessionOK, IndexOK
  <2>3. \A id \in Messages \ D : id \in Kept(Q) <=> id \in Kept(messages[s])  BY DEF TreeWritten
  <2>4. messages'[s] = Q /\ \A t \in Trees : t # s => messages'[t] = messages[t]  BY <1>1, <1>2 DEF Tables
  <2> DEFINE now == (index.rows \ {<<s, i>> : i \in drop}) \union {<<s, i>> : i \in add}
  <2>5. CASE ~index.active
    <3>1. index' = index  BY <2>1, <2>5 DEF S!Indexed
    <3> QED  BY <2>2, <2>5, <3>1 DEF IndexOK
  <2>6. CASE index.active
    <3>1. index' = [index EXCEPT !.rows = now]  BY <2>1, <2>6 DEF S!Indexed
    <3>2. now \in SUBSET (Trees \X Messages)  BY <1>1, <2>1, <2>2
    <3>3. now = MessagesIn(messages')
      <4>1. index.rows = MessagesIn(messages)  BY <2>2, <2>6
      <4>2. SUFFICES ASSUME NEW x \in Trees \X Messages  PROVE x \in now <=> x[2] \in Kept(messages'[x[1]])
        BY <3>2 DEF MessagesIn
      <4>3. x = <<x[1], x[2]>> /\ x[1] \in Trees /\ x[2] \in Messages  OBVIOUS
      <4>4. x \in now <=> (x[2] \in Kept(messages[x[1]]) /\ ~(x[1] = s /\ x[2] \in drop)) \/ (x[1] = s /\ x[2] \in add)
        BY <4>1, <4>3 DEF MessagesIn
      <4> HIDE DEF now
      <4>5. CASE x[1] # s  BY <2>4, <4>3, <4>4, <4>5
      <4>6. CASE x[1] = s /\ x[2] \in D  BY <2>1, <2>4, <4>3, <4>4, <4>6
      <4>7. CASE x[1] = s /\ x[2] \notin D
        <5>1. x[2] \notin drop /\ x[2] \notin add  BY <2>1, <4>7
        <5>2. x[2] \in Kept(Q) <=> x[2] \in Kept(messages[s])  BY <2>3, <4>3, <4>7
        <5> QED  BY <2>4, <4>4, <4>7, <5>1, <5>2
      <4> QED  BY <4>5, <4>6, <4>7
    <3> HIDE DEF now
    <3> QED  BY <2>2, <3>1, <3>2, <3>3 DEF IndexOK
  <2> QED  BY <2>5, <2>6
<1> QED  BY <1>3, <1>4, <1>5, <1>6 DEF SessionOK

\* The end a write goes by, cached or read, is the end of the table.
LEMMA EndKnown ==
  ASSUME SessionOK, NEW s \in Trees
  PROVE  IsEnd(messages[s], S!TailOf(s)) /\ S!TailOf(s) \in S!End
<1>1. TreeOK(messages[s]) /\ (tails[s] # NoTail => IsEnd(messages[s], tails[s]))
  BY DEF SessionOK, TreesOK, TailsOK
<1>2. IsEnd(messages[s], S!TailOfTable(s))  BY <1>1, TableEnds
<1> QED  BY <1>1, <1>2 DEF S!TailOf, IsEnd

LEMMA InsertKeeps ==
  ASSUME SessionOK, NEW s \in Trees, NEW id \in Messages, ~S!Exists(s, id),
         NEW parent \in Messages \union {NoId}, NEW blob \in Blobs \union {NoBlob},
         S!Insert(s, id, parent, blob)
  PROVE  SessionOK'
<1> DEFINE R == messages[s]
           e == S!TailOf(s)
           msg == [parent |-> parent, seq |-> e.next, blob |-> blob]
           Q == [R EXCEPT ![id] = msg]
           f == [leaf |-> id, next |-> e.next + 1]
           P == S!Pointers(s, id, blob)
<1>1. IsEnd(R, e) /\ e.next \in Nat  BY EndKnown DEF S!End
<1>2. TreeOK(R) /\ messages \in Tables /\ overlays \in [Trees -> Seq(Summaries)]  BY DEF SessionOK, TreesOK
<1>3. R \in [Messages -> S!Row \union {NoMessage}] /\ id \notin Kept(R)  BY <1>2 DEF TreeOK, Kept, S!Exists
<1>4. messages' = [messages EXCEPT ![s] = Q] /\ tails' = [tails EXCEPT ![s] = f]
  BY <1>2 DEF S!Insert, Tables
<1>5. /\ S!Indexed(s, {id}, {}) /\ overlays' = overlays
      /\ LET gone == S!Held(s, id) \ P
         IN  /\ refs' = (refs \ gone) \union P
             /\ blobs' = (blobs \union {r[3] : r \in P}) \ S!Collected(s, {r[3] : r \in gone}, refs')
  BY DEF S!Insert, S!Reference
<1> HIDE DEF e
<1>6. msg \in S!Row /\ msg.seq = e.next /\ msg.blob = blob  BY <1>1 DEF S!Row
<1> HIDE DEF msg
<1>7. TreeOK(Q) /\ IsEnd(Q, f)  BY <1>1, <1>2, <1>3, <1>6, NewEnd
<1>8. msg # NoMessage  BY <1>6, SessionConstants
<1>9. Q[id] = msg /\ (\A o \in Messages : o # id => Q[o] = R[o]) /\ id \in Kept(Q)
  BY <1>3, <1>8 DEF Kept
<1> HIDE DEF Q, f
<1>10. P = {r \in Trees \X Messages \X Blobs :
              r[1] = s /\ r[2] \in {id} /\ r[2] \in Kept(Q) /\ r[3] = Q[r[2]].blob}
  <2>1. NoBlob \notin Blobs  BY SessionConstants
  <2> QED  BY <1>6, <1>9, <2>1 DEF S!Pointers
<1> HIDE DEF P
<1>11. {r \in refs : r[1] = s /\ r[2] \in {id}} = S!Held(s, id)  BY DEF S!Held
<1>12. \E add, drop \in SUBSET {id} :
           /\ add = {id} \intersect Kept(Q) /\ {id} \ add \subseteq (Messages \ Kept(messages[s])) \union drop
           /\ drop \intersect add = {} /\ S!Indexed(s, add, drop)
  <2>1. {id} = {id} \intersect Kept(Q)  BY <1>9
  <2> QED  BY <1>5, <2>1
<1>13. \A o \in Messages \ {id} :
         (o \in Kept(Q) <=> o \in Kept(R)) /\ (o \in Kept(Q) => Q[o].blob = R[o].blob)
  BY <1>9 DEF Kept
<1>14. TreeWritten(s, Q, {id}, P, f)
  BY <1>4, <1>5, <1>7, <1>10, <1>11, <1>12, <1>13 DEF TreeWritten
<1> QED  BY <1>2, <1>5, <1>14, WriteKeeps

LEMMA AppendKeeps ==
  ASSUME SessionOK, NEW s \in Trees, NEW id \in Messages, NEW parent,
         NEW blob \in Blobs \union {NoBlob}, S!AppendMessage(s, id, parent, blob)
  PROVE  SessionOK'
<1> DEFINE above == CASE parent = "latest" -> S!TailOf(s).leaf
                      [] parent # "latest" /\ S!Exists(s, parent) -> parent
                      [] OTHER -> NoId
<1>1. S!TailOf(s).leaf \in Messages \union {NoId}  BY EndKnown DEF S!End
<1>2. above \in Messages \union {NoId}  BY <1>1 DEF S!Exists
<1>3. ~S!Exists(s, id) /\ S!Insert(s, id, above, blob)  BY DEF S!AppendMessage
<1> HIDE DEF above
<1> QED  BY <1>2, <1>3, InsertKeeps

LEMMA ImportKeeps ==
  ASSUME SessionOK, NEW s \in Trees, NEW id \in Messages, NEW parent \in Messages \union {NoId},
         S!ImportMessage(s, id, parent)
  PROVE  SessionOK'
BY InsertKeeps DEF S!ImportMessage

LEMMA UpdateKeeps ==
  ASSUME SessionOK, NEW s \in Trees, NEW id \in Messages, NEW blob \in Blobs \union {NoBlob},
         S!UpdateMessage(s, id, blob)
  PROVE  SessionOK'
<1> DEFINE R == messages[s]
           msg == [R[id] EXCEPT !.blob = blob]
           Q == [R EXCEPT ![id] = msg]
           P == S!Pointers(s, id, blob)
           e == tails[s]
<1>1. TreeOK(R) /\ messages \in Tables /\ overlays \in [Trees -> Seq(Summaries)]
      /\ tails \in [Trees -> S!End \union {NoTail}] /\ (e # NoTail => IsEnd(R, e))
  BY DEF SessionOK, TreesOK, TailsOK
<1>2. R \in [Messages -> S!Row \union {NoMessage}] /\ id \in Kept(R)
  BY <1>1 DEF TreeOK, Kept, S!UpdateMessage, S!Exists
<1>3. messages' = [messages EXCEPT ![s] = Q]  BY <1>1 DEF S!UpdateMessage, Tables
<1>4. tails' = [tails EXCEPT ![s] = e]  BY <1>1 DEF S!UpdateMessage
<1>5. /\ S!Indexed(s, {id}, {}) /\ overlays' = overlays
      /\ LET gone == S!Held(s, id) \ P
         IN  /\ refs' = (refs \ gone) \union P
             /\ blobs' = (blobs \union {r[3] : r \in P}) \ S!Collected(s, {r[3] : r \in gone}, refs')
  BY DEF S!UpdateMessage, S!Reference
<1>6. msg \in S!Row /\ msg.seq = R[id].seq /\ msg.blob = blob  BY <1>1, <1>2, RowFields DEF S!Row
<1> HIDE DEF msg
<1>8. msg # NoMessage  BY <1>6, SessionConstants
<1>9. Q[id] = msg /\ (\A o \in Messages : o # id => Q[o] = R[o]) /\ id \in Kept(Q)
      /\ Q \in [Messages -> S!Row \union {NoMessage}]
  BY <1>2, <1>6, <1>8 DEF Kept
<1>7. TreeOK(Q) /\ (e = NoTail \/ IsEnd(Q, e))
  <2>1. Kept(Q) = Kept(R) /\ \A o \in Kept(Q) : Q[o].seq = R[o].seq  BY <1>2, <1>6, <1>9 DEF Kept
  <2> HIDE DEF Q, R, e
  <2> QED  BY <1>1, <1>9, <2>1, SameNumbers
<1> HIDE DEF Q, e
<1>10. P = {r \in Trees \X Messages \X Blobs :
              r[1] = s /\ r[2] \in {id} /\ r[2] \in Kept(Q) /\ r[3] = Q[r[2]].blob}
  <2>1. NoBlob \notin Blobs  BY SessionConstants
  <2> QED  BY <1>6, <1>9, <2>1 DEF S!Pointers
<1> HIDE DEF P
<1>11. {r \in refs : r[1] = s /\ r[2] \in {id}} = S!Held(s, id)  BY DEF S!Held
<1>12. \E add, drop \in SUBSET {id} :
           /\ add = {id} \intersect Kept(Q) /\ {id} \ add \subseteq (Messages \ Kept(messages[s])) \union drop
           /\ drop \intersect add = {} /\ S!Indexed(s, add, drop)
  <2>1. {id} = {id} \intersect Kept(Q)  BY <1>9
  <2> QED  BY <1>5, <2>1
<1>13. \A o \in Messages \ {id} :
         (o \in Kept(Q) <=> o \in Kept(R)) /\ (o \in Kept(Q) => Q[o].blob = R[o].blob)
  BY <1>9 DEF Kept
<1>14. TreeWritten(s, Q, {id}, P, e)
  BY <1>3, <1>4, <1>5, <1>7, <1>10, <1>11, <1>12, <1>13 DEF TreeWritten
<1> QED  BY <1>1, <1>5, <1>14, WriteKeeps

\* Messages are deleted: what stays keeps its number and its attachment.
LEMMA DeleteKeeps ==
  ASSUME SessionOK, NEW s \in Trees, NEW deleted \in SUBSET Messages, S!DeleteMessages(s, deleted)
  PROVE  SessionOK'
<1> DEFINE R == messages[s]
           Q == S!Spliced(s, deleted)
           gone == {r \in refs : r[1] = s /\ r[2] \in deleted}
<1>1. TreeOK(R) /\ overlays \in [Trees -> Seq(Summaries)]  BY DEF SessionOK, TreesOK
<1>2. ASSUME NEW id \in Messages
      PROVE  /\ Q[id] \in S!Row \union {NoMessage}
             /\ Q[id] # NoMessage <=> (id \notin deleted /\ id \in Kept(R))
             /\ Q[id] # NoMessage => Q[id].seq = R[id].seq /\ Q[id].blob = R[id].blob
  <2> DEFINE above == IF R[id].parent \in deleted THEN S!Nearest(s, id, deleted) ELSE R[id].parent
             msg == [R[id] EXCEPT !.parent = above]
  <2>1. Q[id] = IF id \in deleted \/ ~S!Exists(s, id) THEN NoMessage ELSE msg
    BY DEF S!Spliced
  <2>2. S!Exists(s, id) <=> id \in Kept(R)  BY DEF S!Exists, Kept
  <2>3. id \in Kept(R) => R[id] \in S!Row /\ R[id].parent \in Messages \union {NoId}  BY <1>1, RowFields
  <2>4. S!Nearest(s, id, deleted) \in Messages \union {NoId}  BY <1>1, NearestType
  <2>5. id \in Kept(R) => above \in Messages \union {NoId}  BY <2>3, <2>4
  <2> HIDE DEF above
  <2>6. id \in Kept(R) => msg \in S!Row /\ msg.seq = R[id].seq /\ msg.blob = R[id].blob
    BY <2>3, <2>5 DEF S!Row
  <2> HIDE DEF msg, R, Q
  <2>7. id \in Kept(R) => msg # NoMessage  BY <2>6, SessionConstants
  <2> QED  BY <2>1, <2>2, <2>6, <2>7
<1>3. Q \in [Messages -> S!Row \union {NoMessage}]
  <2>1. Q = [id \in Messages |-> Q[id]]  BY DEF S!Spliced
  <2> HIDE DEF Q
  <2> QED  BY <1>2, <2>1
<1> HIDE DEF Q, R
<1>4. Kept(Q) = Kept(R) \ deleted /\ \A id \in Kept(Q) : Q[id].seq = R[id].seq /\ Q[id].blob = R[id].blob
  BY <1>2 DEF Kept
<1>5. TreeOK(Q)  BY <1>1, <1>3, <1>4, SameNumbers
<1>6. /\ messages' = [messages EXCEPT ![s] = Q] /\ tails' = [tails EXCEPT ![s] = NoTail]
      /\ refs' = refs \ gone /\ blobs' = blobs \ S!Collected(s, {r[3] : r \in gone}, refs')
      /\ S!Indexed(s, {}, deleted) /\ overlays' = overlays
  BY DEF S!DeleteMessages, S!Release, S!ForgetTail, Q
<1>7. {} = {r \in Trees \X Messages \X Blobs :
              r[1] = s /\ r[2] \in deleted /\ r[2] \in Kept(Q) /\ r[3] = Q[r[2]].blob}
  BY <1>4
<1>8. /\ gone \ {} = gone /\ refs' = (refs \ gone) \union {}
      /\ blobs' = (blobs \union {r[3] : r \in {}}) \ S!Collected(s, {r[3] : r \in gone}, refs')
  <2> HIDE DEF gone
  <2> QED  BY <1>6
<1>9. {} = deleted \intersect Kept(Q)  BY <1>4
<1>10. /\ \A id \in Messages \ deleted : id \in Kept(Q) <=> id \in Kept(R)
       /\ \A id \in Messages \ deleted : id \in Kept(Q) => Q[id].blob = R[id].blob
  BY <1>4
<1>11. TreeWritten(s, Q, deleted, {}, NoTail)
  BY <1>5, <1>6, <1>7, <1>8, <1>9, <1>10 DEF TreeWritten, R
<1> QED  BY <1>1, <1>6, <1>11, WriteKeeps

LEMMA ClearKeeps ==
  ASSUME SessionOK, NEW s \in Trees, S!ClearMessages(s)
  PROVE  SessionOK'
<1> DEFINE Q == [id \in Messages |-> NoMessage]
           e == [leaf |-> NoId, next |-> 1]
           gone == {r \in refs : r[1] = s /\ r[2] \in Messages}
<1>1. overlays \in [Trees -> Seq(Summaries)]  BY DEF SessionOK
<1>2. <<>> \in Seq(Summaries)  OBVIOUS
<1>3. overlays' \in [Trees -> Seq(Summaries)]
  <2>1. overlays' = [overlays EXCEPT ![s] = <<>>]  BY DEF S!ClearMessages
  <2> QED  BY <1>1, <1>2, <2>1
<1>4. Kept(Q) = {} /\ TreeOK(Q)  BY DEF Kept, TreeOK
<1>5. IsEnd(Q, e)  BY <1>4 DEF IsEnd, S!End
<1>6. /\ messages' = [messages EXCEPT ![s] = Q] /\ tails' = [tails EXCEPT ![s] = e]
      /\ refs' = refs \ gone /\ blobs' = blobs \ S!Collected(s, {r[3] : r \in gone}, refs')
      /\ S!Indexed(s, {}, Messages)
  BY DEF S!ClearMessages, S!Release
<1> HIDE DEF Q, e
<1>7. {} = {r \in Trees \X Messages \X Blobs :
              r[1] = s /\ r[2] \in Messages /\ r[2] \in Kept(Q) /\ r[3] = Q[r[2]].blob}
  BY <1>4
<1>8. /\ gone \ {} = gone /\ refs' = (refs \ gone) \union {}
      /\ blobs' = (blobs \union {r[3] : r \in {}}) \ S!Collected(s, {r[3] : r \in gone}, refs')
  <2> HIDE DEF gone
  <2> QED  BY <1>6
<1>9. {} = Messages \intersect Kept(Q)  BY <1>4
<1>10. TreeWritten(s, Q, Messages, {}, e)
  BY <1>4, <1>5, <1>6, <1>7, <1>8, <1>9 DEF TreeWritten
<1> QED  BY <1>3, <1>10, WriteKeeps

\* The tables of messages are left alone; a tail may be read, or forgotten.
LEMMA Undisturbed ==
  ASSUME SessionOK, UNCHANGED <<messages, blobs, refs, index>>,
         overlays' \in [Trees -> Seq(Summaries)], tails' \in [Trees -> S!End \union {NoTail}],
         \A s \in Trees : tails'[s] # NoTail => IsEnd(messages[s], tails'[s])
  PROVE  SessionOK'
BY DEF SessionOK, TreesOK, TailsOK, PointersOK, IndexOK

LEMMA SummaryKeeps ==
  ASSUME SessionOK, NEW s \in Trees, NEW from \in Messages, NEW to \in Messages,
         S!AddCompaction(s, from, to) \/ S!CompactEnds(s, from, to)
  PROVE  SessionOK'
<1>1. overlays \in [Trees -> Seq(Summaries)] /\ TailsOK  BY DEF SessionOK
<1>2. ASSUME NEW first \in Messages, overlays' = [overlays EXCEPT ![s] = Append(@, [from |-> first, to |-> to])]
      PROVE  overlays' \in [Trees -> Seq(Summaries)]
  <2> DEFINE range == [from |-> first, to |-> to]
             more == Append(overlays[s], range)
  <2>1. range \in Summaries  BY DEF Summaries
  <2> HIDE DEF range
  <2>2. more \in Seq(Summaries)  BY <1>1, <2>1
  <2>3. overlays' = [overlays EXCEPT ![s] = more]  BY <1>1, <1>2 DEF range
  <2> HIDE DEF more
  <2> QED  BY <1>1, <2>2, <2>3
<1>3. UNCHANGED <<messages, blobs, refs, index, tails>>
  BY DEF S!AddCompaction, S!CompactEnds
<1>4. overlays' \in [Trees -> Seq(Summaries)]
  <2>1. CASE S!AddCompaction(s, from, to)  BY <1>2, <2>1 DEF S!AddCompaction
  <2>2. CASE S!CompactEnds(s, from, to)
    <3>1. S!Extended(s, from) \in Messages  BY <1>1, ExtendedType
    <3>2. \/ overlays' = overlays
          \/ overlays' = [overlays EXCEPT ![s] = Append(@, [from |-> S!Extended(s, from), to |-> to])]
      BY <2>2 DEF S!CompactEnds
    <3> QED  BY <1>1, <1>2, <3>1, <3>2
  <2> QED  BY <2>1, <2>2
<1> QED  BY <1>1, <1>3, <1>4, Undisturbed DEF TailsOK

LEMMA ReadKeeps ==
  ASSUME SessionOK, NEW s \in Trees, NEW leaf, S!CompactStarts(s, leaf) \/ S!CompactFails(s)
  PROVE  SessionOK'
<1>1. overlays \in [Trees -> Seq(Summaries)] /\ TailsOK  BY DEF SessionOK
<1>2. CASE S!CompactStarts(s, leaf)
  <2>1. UNCHANGED <<messages, overlays, blobs, refs, index>> /\ tails' = [tails EXCEPT ![s] = S!TailOf(s)]
    BY <1>2 DEF S!CompactStarts
  <2>2. IsEnd(messages[s], S!TailOf(s)) /\ S!TailOf(s) \in S!End  BY EndKnown
  <2> QED  BY <1>1, <2>1, <2>2, Undisturbed DEF TailsOK
<1>3. CASE S!CompactFails(s)
  BY <1>1, <1>3, Undisturbed DEF S!CompactFails, S!tables, TailsOK
<1> QED  BY <1>2, <1>3

LEMMA SearchKeeps ==
  ASSUME SessionOK, S!Search
  PROVE  SessionOK'
<1>1. index' = [active |-> TRUE, rows |-> MessagesIn(messages)]
  <2>1. {x \in Trees \X Messages : S!Exists(x[1], x[2])} = MessagesIn(messages)
    BY DEF S!Exists, MessagesIn, Kept
  <2> QED  BY <2>1 DEF S!Search
<1>2. MessagesIn(messages) \in SUBSET (Trees \X Messages)  BY DEF MessagesIn
<1>3. UNCHANGED <<messages, overlays, blobs, refs, tails>>  BY DEF S!Search
<1>4. IndexOK'  BY <1>1, <1>2, <1>3 DEF IndexOK, MessagesIn
<1> QED  BY <1>3, <1>4 DEF SessionOK, TreesOK, TailsOK, PointersOK

LEMMA EvictedForgets ==
  ASSUME SessionOK, S!Evicted
  PROVE  SessionOK'
<1>1. tails' = [s \in Trees |-> NoTail] /\ UNCHANGED <<messages, overlays, blobs, refs, index>>
  BY DEF S!Evicted
<1>2. tails' \in [Trees -> S!End \union {NoTail}] /\ \A s \in Trees : tails'[s] = NoTail  BY <1>1
<1> QED  BY <1>1, <1>2, Undisturbed DEF SessionOK

LEMMA SessionsStep ==
  ASSUME SessionOK, [S!Next]_S!vars
  PROVE  SessionOK'
<1>1. CASE UNCHANGED S!vars
  BY <1>1, Undisturbed DEF S!vars, SessionOK, TailsOK
<1>2. CASE \E i \in DOMAIN telling : S!TellNext(i)
  BY <1>2, Undisturbed DEF S!TellNext, S!tables, SessionOK, TailsOK
<1>3. CASE S!Search \/ S!Evicted
  BY <1>3, SearchKeeps, EvictedForgets
<1>4. ASSUME NEW s \in Opened,
             \/ \E id \in Messages, parent \in Messages \union {NoId, "latest"}, b \in Blobs \union {NoBlob} :
                  S!AppendMessage(s, id, parent, b)
             \/ \E id \in Messages, b \in Blobs \union {NoBlob} : S!UpdateMessage(s, id, b)
             \/ \E deleted \in SUBSET Messages \ {{}} : S!DeleteMessages(s, deleted)
             \/ S!ClearMessages(s)
             \/ \E from, to \in Messages : S!AddCompaction(s, from, to) \/ S!CompactEnds(s, from, to)
      PROVE  SessionOK'
  <2>1. s \in Trees  BY SessionConstants
  <2>2. CASE \E id \in Messages, parent \in Messages \union {NoId, "latest"}, b \in Blobs \union {NoBlob} :
               S!AppendMessage(s, id, parent, b)
    BY <2>1, <2>2, AppendKeeps
  <2>3. CASE \E id \in Messages, b \in Blobs \union {NoBlob} : S!UpdateMessage(s, id, b)
    BY <2>1, <2>3, UpdateKeeps
  <2>4. CASE \E deleted \in SUBSET Messages \ {{}} : S!DeleteMessages(s, deleted)
    BY <2>1, <2>4, DeleteKeeps
  <2>5. CASE S!ClearMessages(s)
    BY <2>1, <2>5, ClearKeeps
  <2>6. CASE \E from, to \in Messages : S!AddCompaction(s, from, to) \/ S!CompactEnds(s, from, to)
    BY <2>1, <2>6, SummaryKeeps
  <2> QED  BY <1>4, <2>2, <2>3, <2>4, <2>5, <2>6
<1>5. ASSUME NEW s \in Opened,
             \/ \E id \in Messages, parent \in Messages \union {NoId} : S!ImportMessage(s, id, parent)
             \/ \E leaf \in Messages \union {NoId} : S!CompactStarts(s, leaf)
             \/ S!CompactFails(s)
      PROVE  SessionOK'
  <2>1. s \in Trees  BY SessionConstants
  <2>2. CASE \E id \in Messages, parent \in Messages \union {NoId} : S!ImportMessage(s, id, parent)
    BY <2>1, <2>2, ImportKeeps
  <2>3. CASE (\E leaf \in Messages \union {NoId} : S!CompactStarts(s, leaf)) \/ S!CompactFails(s)
    BY <2>1, <2>3, ReadKeeps
  <2> QED  BY <1>5, <2>2, <2>3
<1> QED  BY <1>1, <1>2, <1>3, <1>4, <1>5 DEF S!Next

\* Messages are numbered by their places in the chain that was stored before.
LEMMA SessionsInit == S!Init => SessionOK
<1> SUFFICES ASSUME S!Init  PROVE SessionOK  OBVIOUS
<1>1. PICK held \in Blobs :
        /\ messages = [s \in Trees |-> [id \in Messages |->
             IF ~S!On(Stored, id) THEN NoMessage
             ELSE [parent |-> IF S!Position(Stored, id) = 1 THEN NoId ELSE Stored[S!Position(Stored, id) - 1],
                   seq |-> S!Position(Stored, id),
                   blob |-> IF S!Position(Stored, id) = 1 THEN held ELSE NoBlob]]]
        /\ refs = UNION {S!Pointers(s, Stored[1], held) : s \in Trees}
        /\ blobs = {held}
  BY DEF S!Init
<1>2. Stored \in Seq(Messages) /\ Stored # <<>> /\ \A i, j \in DOMAIN Stored : Stored[i] = Stored[j] => i = j
  BY StoresAssumption DEF S!SessionsAssumption
<1>3. Len(Stored) \in Nat /\ DOMAIN Stored = 1..Len(Stored) /\ 1 \in DOMAIN Stored
      /\ \A i \in DOMAIN Stored : Stored[i] \in Messages
  BY <1>2
<1> DEFINE at(id) == S!Position(Stored, id)
<1>4. ASSUME NEW id, S!On(Stored, id)  PROVE at(id) \in DOMAIN Stored /\ Stored[at(id)] = id
  BY <1>3, <1>4 DEF S!On, S!Position
<1>5. \A i \in DOMAIN Stored : S!On(Stored, Stored[i]) /\ at(Stored[i]) = i
  BY <1>2, <1>3, <1>4 DEF S!On
<1> HIDE DEF at
<1> DEFINE msg(id) == [parent |-> IF at(id) = 1 THEN NoId ELSE Stored[at(id) - 1],
                       seq |-> at(id), blob |-> IF at(id) = 1 THEN held ELSE NoBlob]
           R == [id \in Messages |-> IF ~S!On(Stored, id) THEN NoMessage ELSE msg(id)]
<1>6. messages = [s \in Trees |-> R]  BY <1>1 DEF at
<1>7. ASSUME NEW id \in Messages, S!On(Stored, id)
      PROVE  msg(id) \in S!Row /\ msg(id) # NoMessage
  <2>1. at(id) \in Nat /\ (at(id) # 1 => at(id) - 1 \in DOMAIN Stored)  BY <1>3, <1>4, <1>7
  <2>2. at(id) # 1 => Stored[at(id) - 1] \in Messages  BY <1>3, <2>1
  <2>3. msg(id) \in S!Row  BY <2>1, <2>2 DEF S!Row
  <2> QED  BY <2>3, SessionConstants
<1>8. \A id : msg(id).seq = at(id) /\ msg(id).blob = IF at(id) = 1 THEN held ELSE NoBlob  OBVIOUS
<1> HIDE DEF msg
<1>9. R \in [Messages -> S!Row \union {NoMessage}]  BY <1>7
<1>10. Kept(R) = {id \in Messages : S!On(Stored, id)} /\ \A id \in Kept(R) : R[id] = msg(id)
  BY <1>7 DEF Kept
<1> HIDE DEF R
<1>11. TreeOK(R)
  <2>1. ASSUME NEW a \in Kept(R), NEW b \in Kept(R), R[a].seq = R[b].seq  PROVE a = b
    <3>1. at(a) = at(b)  BY <1>8, <1>10, <2>1
    <3> QED  BY <1>4, <1>10, <3>1
  <2> QED  BY <1>9, <2>1 DEF TreeOK
<1>12. TreesOK  BY <1>6, <1>9, <1>11 DEF TreesOK, Tables
<1>13. TailsOK  BY DEF S!Init, TailsOK
<1>14. PointersOK
  <2>1. Stored[1] \in Kept(R) /\ \A id \in Kept(R) : at(id) = 1 <=> id = Stored[1]
    BY <1>3, <1>4, <1>5, <1>10
  <2>2. held # NoBlob /\ NoBlob \notin Blobs  BY SessionConstants
  <2>3. refs = {<<s, Stored[1], held>> : s \in Trees}  BY <1>1, <2>2 DEF S!Pointers
  <2>4. ASSUME NEW r \in Trees \X Messages \X Blobs
        PROVE  r \in PointersIn(messages) <=> r[2] = Stored[1] /\ r[3] = held
    <3>1. r \in PointersIn(messages) <=> r[2] \in Kept(R) /\ R[r[2]].blob = r[3]
      BY <1>6 DEF PointersIn
    <3>2. r[2] \in Kept(R) => R[r[2]].blob = IF r[2] = Stored[1] THEN held ELSE NoBlob
      BY <1>8, <1>10, <2>1
    <3> QED  BY <2>1, <2>2, <3>1, <3>2
  <2>5. refs = PointersIn(messages)
    <3>1. refs \subseteq Trees \X Messages \X Blobs  BY <2>1, <2>3 DEF Kept
    <3>2. \A r \in Trees \X Messages \X Blobs : r \in refs <=> r[2] = Stored[1] /\ r[3] = held  BY <2>3
    <3>3. PointersIn(messages) \subseteq Trees \X Messages \X Blobs  BY DEF PointersIn
    <3> QED  BY <2>4, <3>1, <3>2, <3>3
  <2>6. blobs = {r[3] : r \in refs}
    <3>1. PICK s \in Trees : TRUE  BY SessionConstants
    <3>2. \A r \in refs : r[3] = held  BY <2>3
    <3>3. <<s, Stored[1], held>> \in refs /\ <<s, Stored[1], held>>[3] = held  BY <2>3
    <3>4. {r[3] : r \in refs} = {held}  BY <3>2, <3>3
    <3> QED  BY <1>1, <3>4
  <2> QED  BY <2>5, <2>6 DEF PointersOK
<1>15. IndexOK  BY DEF S!Init, IndexOK
<1>16. overlays \in [Trees -> Seq(Summaries)]  BY DEF S!Init
<1> QED  BY <1>12, <1>13, <1>14, <1>15, <1>16 DEF SessionOK

LEMMA SessionsAlways == S!Spec => []SessionOK
<1>1. SessionOK /\ [S!Next]_S!vars => SessionOK'
  BY SessionsStep
<1> QED  BY <1>1, SessionsInit, PTL DEF S!Spec

\* What is derived from a session's messages agrees with them, whatever is
\* appended, imported, updated, deleted, cleared, summarised, searched for or
\* evicted: the cached tail, the attachments and their references, the search index
\* (_SessionStore._tail, _collect_attachments, _replace_fts).
THEOREM TablesAgree == S!Spec => []StoreConsistent
<1>1. SessionOK => StoreConsistent
  <2> SUFFICES ASSUME SessionOK  PROVE S!TypeOK /\ S!TailIsTable /\ S!BlobsAreReferenced /\ S!IndexIsTable
    BY DEF StoreConsistent, S!StoreConsistent
  <2>1. TreesOK /\ TailsOK /\ PointersOK /\ IndexOK /\ overlays \in [Trees -> Seq(Summaries)]
    BY DEF SessionOK
  <2>2. \A s, id : S!Exists(s, id) <=> id \in Kept(messages[s])  BY DEF S!Exists, Kept
  <2>3. refs = {r \in Trees \X Messages \X Blobs : S!Exists(r[1], r[2]) /\ messages[r[1]][r[2]].blob = r[3]}
    BY <2>1, <2>2 DEF PointersOK, PointersIn
  <2>4. S!BlobsAreReferenced  BY <2>1, <2>3 DEF PointersOK, S!BlobsAreReferenced
  <2>5. S!IndexIsTable  BY <2>1, <2>2 DEF IndexOK, MessagesIn, S!IndexIsTable
  <2>6. S!TailIsTable
    <3>1. \A s \in Trees : TreeOK(messages[s]) /\ (tails[s] # NoTail => IsEnd(messages[s], tails[s]))
      BY <2>1 DEF TreesOK, TailsOK
    <3> QED  BY <3>1, TableEnds, OneEnd DEF S!TailIsTable
  <2>7. S!TypeOK
    <3>1. blobs \subseteq Blobs /\ refs \subseteq Trees \X Messages \X Blobs
      BY <2>1 DEF PointersOK, PointersIn
    <3>2. ASSUME NEW s \in Trees, NEW k \in DOMAIN overlays[s]  PROVE overlays[s][k] \in [from: Messages, to: Messages]
      <4> DEFINE O == overlays[s]
      <4>1. O \in Seq(Summaries) /\ k \in DOMAIN O  BY <2>1
      <4> HIDE DEF O
      <4>2. O[k] \in Summaries  BY <4>1
      <4> QED  BY <4>2 DEF O, Summaries
    <3> QED  BY <2>1, <3>1, <3>2 DEF S!TypeOK, TreesOK, Tables
  <2> QED  BY <2>4, <2>5, <2>6, <2>7
<1> QED  BY <1>1, SessionsAlways, PTL

-----------------------------------------------------------------------------
(* Sessions: what the compaction function was shown.                       *)

\* The chain and the path of S!Chain and S!Path, of a table of messages.
ChainIn(R, id) ==
  LET up[k \in 0..S!Cardinality(Messages)] ==
        IF k = 0 THEN id
        ELSE IF up[k - 1] \in Messages /\ R[up[k - 1]] # NoMessage THEN R[up[k - 1]].parent ELSE NoId
  IN  up
PathIn(R, leaf) ==
  LET up == ChainIn(R, leaf)
      n  == S!Cardinality({k \in DOMAIN up : up[k] \in Messages /\ R[up[k]] # NoMessage})
  IN  [i \in 1..n |-> up[n - i]]

LEMMA PathOfTable ==
  ASSUME NEW s, NEW leaf
  PROVE  S!Path(s, leaf) = PathIn(messages[s], leaf)
BY Zenon DEF S!Path, S!Chain, S!Exists, PathIn, ChainIn

\* While no message was written since, those that the function was shown, w.seen, are
\* those of the path its summary will be stored for.
SeenIn(w, R) ==
  /\ "changed" \in DOMAIN w /\ w.changed \in BOOLEAN
  /\ ~w.changed => \A e : IsEnd(R, e) =>
       w.seen = S!Range(PathIn(R, IF w.leaf = NoId THEN e.leaf ELSE w.leaf))
SeenOK ==
  /\ work = [s \in Trees |-> work[s]]
  /\ \A s \in Trees : work[s] # NoWork => SeenIn(work[s], messages[s])

\* A write of one tree is noticed by the compaction of that tree.
LEMMA WriteNoticed ==
  ASSUME SessionOK, SeenOK, NEW s \in Trees, S!Changes(s), NEW Q, messages' = [messages EXCEPT ![s] = Q]
  PROVE  SeenOK'
<1>1. work = [t \in Trees |-> work[t]]  BY DEF SeenOK
<1>2. CASE work[s] = NoWork
  <2>1. work' = work  BY <1>2 DEF S!Changes
  <2>2. ASSUME NEW t \in Trees, work[t] # NoWork  PROVE messages'[t] = messages[t]
    BY <1>2, <2>2
  <2> QED  BY <2>1, <2>2 DEF SeenOK
<1>3. CASE work[s] # NoWork
  <2> DEFINE w == [work[s] EXCEPT !.changed = TRUE]
  <2>1. work' = [work EXCEPT ![s] = w]  BY <1>3 DEF S!Changes
  <2>2. "changed" \in DOMAIN work[s]  BY <1>3 DEF SeenOK, SeenIn
  <2>3. SeenIn(w, messages'[s])  BY <2>2 DEF SeenIn
  <2> HIDE DEF w
  <2>4. work' = [t \in Trees |-> work'[t]] /\ work'[s] = w  BY <1>1, <2>1
  <2>5. ASSUME NEW t \in Trees, t # s  PROVE work'[t] = work[t] /\ messages'[t] = messages[t]
    BY <1>1, <2>1, <2>5
  <2> QED  BY <2>3, <2>4, <2>5 DEF SeenOK
<1> QED  BY <1>2, <1>3

\* A compaction reads the path that ends at the message asked for, or at the last one.
LEMMA StartSees ==
  ASSUME SessionOK, SeenOK, NEW s \in Trees, NEW leaf, S!CompactStarts(s, leaf)
  PROVE  SeenOK'
<1> DEFINE path == S!Path(s, S!Leaf(s, leaf))
           w == [leaf |-> leaf, history |-> S!History(s, path), seen |-> S!Range(path), changed |-> FALSE]
<1>1. work = [t \in Trees |-> work[t]]  BY DEF SeenOK
<1>2. work' = [work EXCEPT ![s] = w] /\ messages' = messages  BY DEF S!CompactStarts
<1>3. TreeOK(messages[s])  BY DEF SessionOK, TreesOK
<1>4. \A e : IsEnd(messages[s], e) => e = S!TailOf(s)  BY <1>3, EndKnown, OneEnd
<1>5. path = PathIn(messages[s], IF leaf = NoId THEN S!TailOf(s).leaf ELSE leaf)
  BY PathOfTable DEF S!Leaf
<1> HIDE DEF path
<1>6. "changed" \in DOMAIN w /\ w.changed = FALSE /\ w.leaf = leaf /\ w.seen = S!Range(path)  OBVIOUS
<1> HIDE DEF w
<1>7. SeenIn(w, messages[s])  BY <1>4, <1>5, <1>6 DEF SeenIn
<1>8. work' = [t \in Trees |-> work'[t]] /\ work'[s] = w /\ \A t \in Trees : t # s => work'[t] = work[t]
  BY <1>1, <1>2
<1> QED  BY <1>2, <1>7, <1>8 DEF SeenOK

\* A compaction is over, or nothing that it looks at was touched.
LEMMA SeenStays ==
  ASSUME SeenOK, messages' = messages,
         \/ work' = work
         \/ work' = [t \in Trees |-> NoWork]
         \/ \E s \in Trees : work' = [work EXCEPT ![s] = NoWork]
  PROVE  SeenOK'
<1>1. work = [t \in Trees |-> work[t]]  BY DEF SeenOK
<1>2. CASE work' = work  BY <1>2 DEF SeenOK
<1>3. CASE work' = [t \in Trees |-> NoWork]  BY <1>3 DEF SeenOK
<1>4. CASE \E s \in Trees : work' = [work EXCEPT ![s] = NoWork]
  <2>1. work' = [t \in Trees |-> work'[t]] /\ \A t \in Trees : work'[t] # NoWork => work'[t] = work[t]
    BY <1>1, <1>4
  <2> QED  BY <2>1 DEF SeenOK
<1> QED  BY <1>2, <1>3, <1>4

\* A path is a sequence: it has as many messages as the chain has that exist.
LEMMA PathLength ==
  ASSUME NEW s, NEW leaf
  PROVE  DOMAIN S!Path(s, leaf) = 1..Len(S!Path(s, leaf)) /\ Len(S!Path(s, leaf)) \in Nat
<1> DEFINE up == S!Chain(s, leaf)
           N == S!Cardinality(Messages)
           K == {k \in DOMAIN up : S!Exists(s, up[k])}
           n == S!Cardinality(K)
           path == [i \in 1..n |-> up[n - i]]
<1>1. S!Path(s, leaf) = path  BY DEF S!Path
<1>2. N \in Nat  BY Size
<1>3. 0 \in 0..N  BY <1>2
<1>4. DOMAIN up = 0..N  BY <1>3, ChainIs
<1>5. n \in Nat
  <2>1. IsFiniteSet(0..N)  BY <1>2, FS_Interval
  <2>2. IsFiniteSet(K)  BY <1>4, <2>1, FS_Subset
  <2> HIDE DEF K
  <2>3. Cardinality(K) \in Nat  BY <2>2, FS_CardinalityType
  <2>4. n = Cardinality(K)  BY Zenon DEF S!Cardinality, Cardinality
  <2> QED  BY <2>3, <2>4
<1> HIDE DEF n, up
<1>6. path \in Seq({up[k] : k \in {n - i : i \in 1..n}})  BY <1>5
<1> HIDE DEF path
<1> QED  BY <1>1, <1>6

\* The write of a tree changes that tree alone.
LEMMA WritesOne ==
  ASSUME SessionOK, NEW s \in Trees, NEW id, NEW parent, NEW blob, NEW deleted,
         \/ S!Insert(s, id, parent, blob)
         \/ S!UpdateMessage(s, id, blob)
         \/ S!DeleteMessages(s, deleted)
         \/ S!ClearMessages(s)
  PROVE  messages' = [messages EXCEPT ![s] = messages'[s]]
<1>1. messages = [t \in Trees |-> messages[t]]  BY DEF SessionOK, TreesOK, Tables
<1>2. \E Q : messages' = [messages EXCEPT ![s] = Q]
  <2>1. CASE S!Insert(s, id, parent, blob)  BY <2>1 DEF S!Insert
  <2>2. CASE S!UpdateMessage(s, id, blob)  BY <2>2 DEF S!UpdateMessage
  <2>3. CASE S!DeleteMessages(s, deleted)  BY <2>3 DEF S!DeleteMessages
  <2>4. CASE S!ClearMessages(s)  BY <2>4 DEF S!ClearMessages
  <2> QED  BY <2>1, <2>2, <2>3, <2>4
<1> QED  BY <1>1, <1>2

\* A message is written.
Writing(s) ==
  \/ \E id \in Messages, parent \in Messages \union {NoId, "latest"}, b \in Blobs \union {NoBlob} :
       S!AppendMessage(s, id, parent, b)
  \/ \E id \in Messages, parent \in Messages \union {NoId} : S!ImportMessage(s, id, parent)
  \/ \E id \in Messages, b \in Blobs \union {NoBlob} : S!UpdateMessage(s, id, b)
  \/ \E deleted \in SUBSET Messages \ {{}} : S!DeleteMessages(s, deleted)
  \/ S!ClearMessages(s)

LEMMA WritingNoticed ==
  ASSUME SessionOK, SeenOK, NEW s \in Trees, Writing(s)
  PROVE  SeenOK' /\ (overlays' = overlays \/ overlays' = [overlays EXCEPT ![s] = <<>>])
<1>1. S!Changes(s) /\ (overlays' = overlays \/ overlays' = [overlays EXCEPT ![s] = <<>>])
  BY DEF Writing, S!AppendMessage, S!ImportMessage, S!UpdateMessage, S!DeleteMessages, S!ClearMessages,
         S!Insert
<1>2. \E id, parent, blob, deleted :
        \/ S!Insert(s, id, parent, blob)
        \/ S!UpdateMessage(s, id, blob)
        \/ S!DeleteMessages(s, deleted)
        \/ S!ClearMessages(s)
  BY Zenon DEF Writing, S!AppendMessage, S!ImportMessage
<1>3. messages' = [messages EXCEPT ![s] = messages'[s]]  BY <1>2, WritesOne
<1> QED  BY <1>1, <1>3, WriteNoticed

\* The range that is stored begins and ends on the path, whose messages were seen.
LEMMA EndHides ==
  ASSUME SessionOK, SeenOK, NEW s \in Trees, NEW from, NEW to, S!CompactEnds(s, from, to),
         overlays'[s] # overlays[s]
  PROVE  LET new == overlays'[s][Len(overlays'[s])]
             path == S!Path(s, S!Leaf(s, work[s].leaf))
         IN  \A i \in S!Position(path, new.from)..S!Position(path, new.to) : path[i] \in work[s].seen
<1> DEFINE path == S!Path(s, S!Leaf(s, work[s].leaf))
           range == [from |-> S!Extended(s, from), to |-> to]
           O == overlays[s]
           more == Append(O, range)
<1>1. overlays \in [Trees -> Seq(Summaries)]  BY DEF SessionOK
<1>2. ~work[s].changed /\ work[s] # NoWork /\ S!Fits(path, range) /\ overlays' = [overlays EXCEPT ![s] = more]
  BY DEF S!CompactEnds, S!Current, S!Unlocked
<1>3. overlays'[s] = more  BY <1>1, <1>2
<1>4. more[Len(more)] = range
  <2>1. O \in Seq(Summaries)  BY <1>1
  <2> HIDE DEF O, range
  <2> QED  BY <2>1
<1>5. work[s].seen = S!Range(path)
  <2>1. path = PathIn(messages[s], IF work[s].leaf = NoId THEN S!TailOf(s).leaf ELSE work[s].leaf)
    BY PathOfTable DEF S!Leaf
  <2> QED  BY <1>2, <2>1, EndKnown DEF SeenOK, SeenIn
<1>6. DOMAIN path = 1..Len(path) /\ Len(path) \in Nat  BY PathLength
<1> HIDE DEF path, O, more
<1>7. S!Position(path, range.from) \in 1..Len(path) /\ S!Position(path, range.to) \in 1..Len(path)
  BY <1>2 DEF S!Fits, S!On, S!Position
<1>8. \A i \in S!Position(path, range.from)..S!Position(path, range.to) : i \in DOMAIN path
  BY <1>6, <1>7
<1>9. \A i \in S!Position(path, range.from)..S!Position(path, range.to) : path[i] \in work[s].seen
  BY <1>5, <1>8 DEF S!Range
<1> QED  BY <1>3, <1>4, <1>9 DEF path

LEMMA SeenStep ==
  ASSUME SessionOK, SeenOK, [S!Next]_S!vars
  PROVE  SeenOK' /\ S!SummaryHidesSeen
<1> DEFINE Clears(s) == overlays' = overlays \/ overlays' = [overlays EXCEPT ![s] = <<>>]
<1>1. overlays \in [Trees -> Seq(Summaries)]  BY DEF SessionOK
<1>2. ASSUME NEW s \in Trees, Clears(s)  PROVE S!SummaryHidesSeen
  BY <1>1, <1>2 DEF S!SummaryHidesSeen
<1>3. CASE overlays' = overlays /\ messages' = messages /\
           (work' = work \/ work' = [t \in Trees |-> NoWork])
  BY <1>3, SeenStays DEF S!SummaryHidesSeen
<1>4. CASE UNCHANGED S!vars \/ (\E i \in DOMAIN telling : S!TellNext(i)) \/ S!Search \/ S!Evicted
  BY <1>3, <1>4 DEF S!vars, S!TellNext, S!tables, S!Search, S!Evicted
<1>5. ASSUME NEW s \in Trees, Writing(s)  PROVE SeenOK' /\ S!SummaryHidesSeen
  BY <1>2, <1>5, WritingNoticed
<1>6. ASSUME NEW s \in Trees, NEW leaf, S!CompactStarts(s, leaf)  PROVE SeenOK' /\ S!SummaryHidesSeen
  <2>1. overlays' = overlays  BY <1>6 DEF S!CompactStarts
  <2> QED  BY <1>2, <1>6, <2>1, StartSees
<1>7. ASSUME NEW s \in Trees, S!CompactFails(s)  PROVE SeenOK' /\ S!SummaryHidesSeen
  <2>1. overlays' = overlays /\ messages' = messages /\ work' = [work EXCEPT ![s] = NoWork]
    BY <1>7 DEF S!CompactFails, S!tables
  <2> QED  BY <1>2, <2>1, SeenStays
<1>8. ASSUME NEW s \in Trees, NEW from, NEW to, S!AddCompaction(s, from, to)
      PROVE  SeenOK' /\ S!SummaryHidesSeen
  <2>1. /\ work[s] = NoWork /\ work' = work /\ messages' = messages
        /\ overlays' = [overlays EXCEPT ![s] = Append(overlays[s], [from |-> from, to |-> to])]
    BY <1>1, <1>8 DEF S!AddCompaction, S!Unlocked
  <2>2. \A t \in Trees : work[t] # NoWork => overlays'[t] = overlays[t]  BY <1>1, <2>1
  <2> QED  BY <2>1, <2>2, SeenStays DEF S!SummaryHidesSeen
<1>9. ASSUME NEW s \in Trees, NEW from, NEW to, S!CompactEnds(s, from, to)
      PROVE  SeenOK' /\ S!SummaryHidesSeen
  <2>1. messages' = messages /\ work' = [work EXCEPT ![s] = NoWork]  BY <1>9 DEF S!CompactEnds
  <2>2. \A t \in Trees : t # s => overlays'[t] = overlays[t]
    BY <1>1, <1>9 DEF S!CompactEnds
  <2>3. overlays'[s] # overlays[s] =>
          LET new == overlays'[s][Len(overlays'[s])]
              path == S!Path(s, S!Leaf(s, work[s].leaf))
          IN  \A i \in S!Position(path, new.from)..S!Position(path, new.to) : path[i] \in work[s].seen
    BY <1>9, EndHides
  <2>4. S!SummaryHidesSeen  BY <2>2, <2>3, Zenon DEF S!SummaryHidesSeen
  <2> QED  BY <2>1, <2>4, SeenStays
<1>10. S!Next => \/ (\E i \in DOMAIN telling : S!TellNext(i)) \/ S!Search \/ S!Evicted
                 \/ \E s \in Trees :
                      \/ Writing(s) \/ S!CompactFails(s) \/ \E leaf : S!CompactStarts(s, leaf)
                      \/ \E from, to : S!AddCompaction(s, from, to) \/ S!CompactEnds(s, from, to)
  <2>1. \A s \in Opened : s \in Trees  BY SessionConstants
  <2> QED  BY <2>1 DEF S!Next, Writing
<1> QED  BY <1>4, <1>5, <1>6, <1>7, <1>8, <1>9, <1>10

\* A summary hides no message that the compaction function was not shown, whatever is
\* written, deleted or evicted while the function runs (Session.compact, whose range is
\* dropped when _message_generation has moved).
THEOREM SummariesHideSeen == S!Spec => [][S!SummaryHidesSeen]_(S!vars)
<1>1. S!Init => SeenOK  BY DEF S!Init, SeenOK
<1>2. SessionOK /\ SeenOK /\ [S!Next]_S!vars => SeenOK' /\ S!SummaryHidesSeen
  BY SeenStep
<1> QED  BY <1>1, <1>2, SessionsAlways, PTL DEF S!Spec
=============================================================================

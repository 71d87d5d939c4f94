---------------------------- MODULE AgentToolRuns ----------------------------
(***************************************************************************)
(* One run of a sub-agent as a tool, at its parent (core/agent_tools.py)    *)
(* and at the child that is named after it (chat/agent_tools.py): callers   *)
(* that join or resume it, the calls between the two agents, the chunks     *)
(* copied to the parent, the frames its clients get, and the child's turn,  *)
(* which waits in the chat's queue.  Either agent may be evicted, and any   *)
(* call may fail after it was served.                                       *)
(***************************************************************************)
EXTENDS Integers, Sequences, FiniteSets, SequencesExt

CONSTANTS
  Callers,      \* run_agent_tool calls at the parent
  MaxChunks,    \* bound on the chunks of a turn
  MaxCalls,     \* bound on calls
  MaxFaults,    \* bound on evictions and failed calls
  NoRow, NoCaller

Hard == {"completed", "error", "aborted"}
Statuses == Hard \union {"starting", "running", "interrupted"}
Rows == [status: Statuses, mirrored: BOOLEAN, old: BOOLEAN]

AgentToolAssumption ==
  /\ NoCaller \notin Callers /\ NoRow \notin Rows /\ MaxChunks \in Nat \ {0}
  /\ {MaxCalls, MaxFaults} \subseteq Nat

VARIABLES
  row,       \* the parent's row in cf_agent_tool_runs
  chunks,    \* cf_agent_tool_chunks: the copied chunks with their sequences
  terminal,  \* cf_agent_tool_terminals: sequence of the last terminal frame, or 0
  owner,     \* the caller that has the run's waiter, or NoCaller
  calls,     \* caller -> where it is
  frames,    \* history: how many frames were published live (modulo 2), the last sequence
  crow,      \* the child's row in cf_ai_chat_agent_tool_runs
  cchunks,   \* cf_ai_chat_agent_tool_chunks
  cstream,   \* the status of the latest stream of the run's request
  turns,     \* the child's turns for the run, queued or executing, in order
  ran,       \* history: turns that were executed
  began, faults

parent == <<row, chunks, terminal, owner>>
child == <<crow, cchunks, cstream, turns, ran>>
vars == <<parent, calls, frames, child, began, faults>>

Max2(a, b) == IF a > b THEN a ELSE b
LastSequence == IF chunks = <<>> THEN 0 ELSE Last(chunks).seq
NextSequence == LastSequence + 1
IsHard(r) == r.status \in Hard
\* A result that an earlier version stored without the chunks is resumed.
IsOver(r) == IsHard(r) /\ (r.status = "completed" => r.mirrored)

Uncalled == [pc |-> "idle", how |-> "fresh", got |-> "none", hard |-> FALSE, at |-> 0, skip |-> 0,
           seq |-> 0, abort |-> FALSE, result |-> "none"]
Owning == {"resolve", "start", "started", "inspect", "mirror", "recover"}

----------------------------------------------------------------------------
(* The parent: finishing, and passing the run on.                          *)

Publish(sequence) == frames' = [odd |-> 1 - frames.odd, at |-> sequence]

Returned(c, result) == [Uncalled EXCEPT !.pc = "done", !.result = result]

\* The owner's finally: the callers that wait for it are woken.
Released(c, result) ==
  /\ owner' = NoCaller
  /\ calls' = [o \in Callers |-> IF o = c THEN Returned(c, result)
                                 ELSE IF calls[o].pc = "wait" THEN [calls[o] EXCEPT !.pc = "woken"]
                                 ELSE calls[o]]

\* A mutant: a later terminal frame takes the sequence it was given.
RecordedAsGiven(proposed) == proposed

\* _record_terminal_sequence.
Recorded(proposed) == IF terminal = 0 THEN proposed ELSE Max2(proposed, terminal + 1)

\* _finish_agent_tool_run: a hard status stays; the frame is sent all the same.
Finish(c, status, sequence) ==
  /\ row' = IF IsHard(row) THEN row ELSE [row EXCEPT !.status = status]
  /\ terminal' = Recorded(sequence)
  /\ Publish(Recorded(sequence))
  /\ Released(c, status)

ReturnsRow(c) ==
  /\ Released(c, row.status) /\ UNCHANGED <<row, terminal, frames>>

\* _apply_agent_tool_abort
Aborted(c, status) == IF calls[c].abort /\ status = "completed" THEN "aborted" ELSE status

\* What is left when the child cannot be asked.
Unknown(c) ==
  IF calls[c].hard THEN ReturnsRow(c)
  ELSE Finish(c, IF calls[c].abort THEN "aborted" ELSE "interrupted", NextSequence)

Owns(c, call) ==
  /\ owner' = c
  /\ calls' = [calls EXCEPT ![c] = call]

----------------------------------------------------------------------------
(* The parent: run_agent_tool.                                             *)

\* An existing row is resumed, by whoever finds no owner.
Resume(c) ==
  IF IsOver(row)
  THEN /\ calls' = [calls EXCEPT ![c] = Returned(c, row.status)]
       /\ UNCHANGED <<parent, frames>>
  ELSE IF ~IsHard(row) /\ calls[c].abort
  THEN /\ row' = [row EXCEPT !.status = "aborted"]
       /\ terminal' = Recorded(NextSequence) /\ Publish(Recorded(NextSequence))
       /\ calls' = [calls EXCEPT ![c] = Returned(c, "aborted")]
       /\ UNCHANGED <<chunks, owner>>
  ELSE /\ Owns(c, [calls[c] EXCEPT !.pc = "inspect", !.how = "resume", !.hard = IsHard(row)])
       /\ UNCHANGED <<row, chunks, terminal, frames>>

\* A new run: too many others are under way, or it starts.
Fresh(c) ==
  \/ /\ row' = [status |-> "error", mirrored |-> FALSE, old |-> FALSE]
     /\ Publish(1)
     /\ calls' = [calls EXCEPT ![c] = Returned(c, "error")]
     /\ UNCHANGED <<chunks, terminal, owner>>
  \/ /\ calls[c].abort
     /\ row' = [status |-> "aborted", mirrored |-> FALSE, old |-> FALSE]
     /\ terminal' = Recorded(1) /\ Publish(Recorded(1))
     /\ calls' = [calls EXCEPT ![c] = Returned(c, "aborted")]
     /\ UNCHANGED <<chunks, owner>>
  \/ /\ ~calls[c].abort
     /\ row' = [status |-> "running", mirrored |-> FALSE, old |-> FALSE]
     /\ Owns(c, [calls[c] EXCEPT !.pc = "resolve", !.how = "fresh"])
     /\ UNCHANGED <<chunks, terminal, frames>>

Goes(c) ==
  IF owner # NoCaller
  THEN /\ calls' = [calls EXCEPT ![c].pc = "wait"] /\ UNCHANGED <<parent, frames>>
  ELSE IF row = NoRow THEN Fresh(c) ELSE Resume(c)

Calls(c) ==
  /\ calls[c].pc \in {"idle", "done"} /\ began < MaxCalls /\ began' = began + 1
  /\ \E abort \in BOOLEAN : calls' = [calls EXCEPT ![c] = [Uncalled EXCEPT !.pc = "called", !.abort = abort]]
  /\ UNCHANGED <<parent, frames, child, faults>>

Begins(c) ==
  /\ calls[c].pc = "called" /\ Goes(c)
  /\ UNCHANGED <<child, began, faults>>

\* A mutant: a woken caller does not look for another owner.
GoesOn(c) == IF row = NoRow THEN Fresh(c) ELSE Resume(c)

\* A woken caller takes the result there is, or waits for the next owner, or
\* becomes it.
GoesAgain(c) == Goes(c)

Wakes(c) ==
  /\ calls[c].pc = "woken"
  /\ IF IsOver(row)
     THEN /\ calls' = [calls EXCEPT ![c] = Returned(c, row.status)] /\ UNCHANGED <<parent, frames>>
     ELSE GoesAgain(c)
  /\ UNCHANGED <<child, began, faults>>

SetAbort(c) ==
  /\ calls[c].pc \in Owning \union {"wait", "woken"} /\ ~calls[c].abort
  /\ calls' = [calls EXCEPT ![c].abort = TRUE]
  /\ UNCHANGED <<parent, frames, child, began, faults>>

Is(c, pc) == calls[c].pc = pc
Fault == faults < MaxFaults /\ faults' = faults + 1

Resolved(c) ==
  /\ Is(c, "resolve") /\ calls' = [calls EXCEPT ![c].pc = "start"]
  /\ UNCHANGED <<parent, frames, child, began, faults>>

ResolveFails(c) ==
  /\ Is(c, "resolve") /\ Fault
  /\ Finish(c, "error", NextSequence)
  /\ UNCHANGED <<chunks, child, began>>

----------------------------------------------------------------------------
(* The child.                                                              *)

Settled(status) == IF crow = "running" THEN status ELSE crow

Executing == turns # <<>> /\ Head(turns).active

\* _reconcile of a run whose turn is not executing: without a stream, or with
\* one that was cut off, it is forgotten and may be started again; a stream
\* that ended settles it.
Orphaned ==
  CASE cstream \in {"none", "streaming"} ->
         {[crow |-> "none", cchunks |-> <<>>,
           cstream |-> IF cstream = "streaming" THEN "error" ELSE cstream]}
    [] cstream = "error" -> {[crow |-> "error", cchunks |-> cchunks, cstream |-> cstream]}
    [] cstream = "completed" ->
         {[crow |-> s, cchunks |-> cchunks, cstream |-> cstream] : s \in {"completed", "error"}}

Reconciled ==
  IF crow # "running" \/ Executing
  THEN {[crow |-> crow, cchunks |-> cchunks, cstream |-> cstream]}
  ELSE Orphaned

\* What a call sees and leaves behind at the child.
Sees(r) == crow' = r.crow /\ cchunks' = r.cchunks /\ cstream' = r.cstream

Mirroring(c, how, got) ==
  calls' = [calls EXCEPT ![c] = [@ EXCEPT !.pc = "mirror", !.how = how, !.got = got, !.at = 0,
              !.skip = Len(chunks), !.seq = Max2(LastSequence, terminal) + 1]]

\* start: a run that is known is answered as it is, another one gets its row
\* and its turn.
StartArrives(c) ==
  /\ Is(c, "start")
  /\ \E r \in Reconciled :
       IF r.crow # "none"
       THEN Sees(r) /\ Mirroring(c, calls[c].how, r.crow) /\ UNCHANGED turns
       ELSE /\ Sees([r EXCEPT !.crow = "running"])
            /\ turns' = Append(turns, [active |-> FALSE, wrote |-> 0, end |-> "none",
                                       abort |-> FALSE, by |-> c])
            /\ calls' = [calls EXCEPT ![c].pc = "started"]
  /\ UNCHANGED <<parent, frames, ran, began, faults>>

TurnBegins ==
  /\ turns # <<>> /\ ~Executing /\ ~Head(turns).abort
  /\ turns' = [turns EXCEPT ![1].active = TRUE]
  /\ cstream' = "streaming" /\ ran' = ran + 1
  /\ UNCHANGED <<parent, frames, calls, crow, cchunks, began, faults>>

\* capture_chunk numbers from 0; a number that is there already is an error
\* of the turn.
TurnWrites ==
  /\ Executing /\ Head(turns).end = "none"
  /\ LET n == Head(turns).wrote IN
       IF n < Len(cchunks)
       THEN /\ turns' = [turns EXCEPT ![1].end = "error"] /\ cstream' = "error" /\ UNCHANGED cchunks
       ELSE /\ n < MaxChunks
            /\ cchunks' = Append(cchunks, <<ran, n>>)
            /\ turns' = [turns EXCEPT ![1].wrote = @ + 1] /\ UNCHANGED cstream
  /\ UNCHANGED <<parent, frames, calls, crow, ran, began, faults>>

StreamEnds(end) ==
  /\ Executing /\ Head(turns).end = "none"
  /\ turns' = [turns EXCEPT ![1].end = end] /\ cstream' = end
  /\ UNCHANGED <<parent, frames, calls, crow, cchunks, ran, began, faults>>

\* The start call, if it still waits, answers with the run's row; without the
\* row it fails.
Answered(by) ==
  IF by = NoCaller \/ calls[by].pc # "started" THEN UNCHANGED calls
  ELSE IF crow' = "none" THEN calls' = [calls EXCEPT ![by].pc = "recover"]
  ELSE Mirroring(by, calls[by].how, crow')

\* The turn's end, after its result was collected.
TurnSettles ==
  /\ Executing /\ Head(turns).end # "none"
  /\ \E status \in {"completed", "error", "aborted"} :
       /\ Head(turns).abort => status = "aborted"
       /\ status = "aborted" => Head(turns).abort
       /\ status = "completed" => Head(turns).end = "completed"
       /\ crow' = Settled(status)
  /\ turns' = Tail(turns) /\ Answered(Head(turns).by)
  /\ UNCHANGED <<parent, frames, cchunks, cstream, ran, began, faults>>

\* A turn that is not executing yet is aborted, or its chat was cleared.
TurnDropped ==
  /\ turns # <<>> /\ ~Executing
  /\ crow' = Settled("aborted")
  /\ turns' = Tail(turns) /\ Answered(Head(turns).by)
  /\ UNCHANGED <<parent, frames, cchunks, cstream, ran, began, faults>>

\* cancel: of the turns of one request the last one's event is found.
Cancel ==
  /\ crow # "none" /\ Fault
  /\ crow' = Settled("aborted")
  /\ turns' = IF turns = <<>> THEN turns ELSE [turns EXCEPT ![Len(turns)].abort = TRUE]
  /\ UNCHANGED <<parent, frames, calls, cchunks, cstream, ran, began>>

Broken(c) == [calls EXCEPT ![c].pc = "recover"]

\* The call fails at the parent, before it arrives or while the child goes on.
StartBreaks(c) ==
  /\ calls[c].pc \in {"start", "started"} /\ Fault
  /\ calls' = Broken(c)
  /\ turns' = [i \in DOMAIN turns |-> IF turns[i].by = c THEN [turns[i] EXCEPT !.by = NoCaller] ELSE turns[i]]
  /\ UNCHANGED <<parent, frames, crow, cchunks, cstream, ran, began>>

\* The child is evicted: its rows stay, its turns go, its callers fail.
ChildEvicted ==
  /\ turns # <<>> /\ Fault
  /\ turns' = <<>>
  /\ calls' = [c \in Callers |-> IF calls[c].pc = "started" THEN [calls[c] EXCEPT !.pc = "recover"]
                                 ELSE calls[c]]
  /\ UNCHANGED <<parent, frames, crow, cchunks, cstream, ran, began>>

----------------------------------------------------------------------------
(* The parent: copying chunks, recovering and resuming.                    *)

\* The chunks copied before are passed over by their number.
IsNew(c) == calls[c].at + 1 > calls[c].skip

\* _mirror_child_chunks, a page (of one chunk) at a time.
MirrorPage(c) ==
  /\ Is(c, "mirror") /\ calls[c].at < Len(cchunks)
  /\ IF IsNew(c)
     THEN /\ chunks' = Append(chunks, [seq |-> calls[c].seq, body |-> cchunks[calls[c].at + 1]])
          /\ Publish(calls[c].seq)
          /\ calls' = [calls EXCEPT ![c].at = @ + 1, ![c].seq = @ + 1]
     ELSE calls' = [calls EXCEPT ![c].at = @ + 1] /\ UNCHANGED <<chunks, frames>>
  /\ UNCHANGED <<row, terminal, owner, child, began, faults>>

\* An abort turns what was completed, unless the row says so already.
Result(c) == IF calls[c].hard THEN calls[c].got ELSE Aborted(c, calls[c].got)

\* The last page: the result follows, unless the child was still running.
Mirrored(c) ==
  /\ Is(c, "mirror") /\ calls[c].at >= Len(cchunks)
  /\ IF calls[c].got \notin Hard
     THEN /\ calls' = [calls EXCEPT ![c].pc = "recover"]
          /\ row' = [row EXCEPT !.mirrored = TRUE]
          /\ UNCHANGED <<terminal, owner, frames>>
     ELSE LET status == Result(c) IN
          /\ row' = [row EXCEPT !.mirrored = TRUE, !.status = IF IsHard(row) THEN @ ELSE status]
          /\ terminal' = Recorded(calls[c].seq) /\ Publish(Recorded(calls[c].seq))
          /\ Released(c, status)
  /\ UNCHANGED <<chunks, child, began, faults>>

MirrorFails(c) ==
  /\ Is(c, "mirror") /\ Fault
  /\ IF calls[c].how \in {"fresh", "restart"}
     THEN calls' = [calls EXCEPT ![c].pc = "recover"] /\ UNCHANGED <<row, terminal, owner, frames>>
     ELSE Unknown(c)
  /\ UNCHANGED <<chunks, child, began>>

\* _recover_child_terminal: after a failure the child is asked once more.
Recovers(c) ==
  /\ Is(c, "recover")
  /\ \E r \in Reconciled :
       /\ Sees(r)
       /\ IF r.crow \in Hard
          THEN Mirroring(c, "recover", r.crow) /\ UNCHANGED <<row, terminal, owner, frames>>
          ELSE Unknown(c)
  /\ UNCHANGED <<chunks, turns, ran, began, faults>>

RecoverFails(c) ==
  /\ Is(c, "recover") /\ Fault
  /\ Unknown(c)
  /\ UNCHANGED <<chunks, child, began>>

\* _resume_agent_tool_run: the child is asked first; what it does not know is
\* started again, and one that still runs is not waited for.
Inspects(c) ==
  /\ Is(c, "inspect")
  /\ \E r \in Reconciled :
       /\ Sees(r)
       /\ CASE r.crow \in Hard ->
                 Mirroring(c, "resume", r.crow) /\ UNCHANGED <<row, terminal, owner, frames>>
            [] r.crow \notin Hard /\ calls[c].hard -> ReturnsRow(c)
            [] r.crow = "none" /\ ~calls[c].hard ->
                 /\ calls' = [calls EXCEPT ![c].pc = "start", ![c].how = "restart"]
                 /\ UNCHANGED <<row, terminal, owner, frames>>
            [] r.crow = "running" /\ ~calls[c].hard -> Unknown(c)
  /\ UNCHANGED <<chunks, turns, ran, began, faults>>

InspectFails(c) ==
  /\ Is(c, "inspect") /\ Fault
  /\ Unknown(c)
  /\ UNCHANGED <<chunks, child, began>>

\* The owner's task is cancelled, at any of its calls.
OwnerCancelled(c) ==
  /\ calls[c].pc \in Owning /\ Fault
  /\ IF IsHard(row) THEN Released(c, "cancelled") /\ UNCHANGED <<row, terminal, frames>>
     ELSE /\ row' = [row EXCEPT !.status = "interrupted"]
          /\ terminal' = Recorded(NextSequence) /\ Publish(Recorded(NextSequence))
          /\ Released(c, "cancelled")
  /\ turns' = [i \in DOMAIN turns |-> IF turns[i].by = c THEN [turns[i] EXCEPT !.by = NoCaller] ELSE turns[i]]
  /\ UNCHANGED <<chunks, crow, cchunks, cstream, ran, began>>

ParentEvicted ==
  /\ owner # NoCaller /\ Fault
  /\ owner' = NoCaller /\ calls' = [c \in Callers |-> Uncalled]
  /\ turns' = [i \in DOMAIN turns |-> [turns[i] EXCEPT !.by = NoCaller]]
  /\ UNCHANGED <<row, chunks, terminal, frames, crow, cchunks, cstream, ran, began>>

GraceEnds ==
  /\ row # NoRow /\ row.status \notin Hard /\ ~row.old
  /\ row' = [row EXCEPT !.old = TRUE]
  /\ UNCHANGED <<chunks, terminal, owner, calls, frames, child, began, faults>>

\* replay, on a new connection: a run nobody has carried on within the grace is
\* interrupted, and the terminal frame gets the sequence it is sent with.
Replay ==
  /\ row # NoRow
  /\ LET stale  == row.status \notin Hard \union {"interrupted"} /\ row.old /\ owner = NoCaller
         status == IF stale THEN "interrupted" ELSE row.status
     IN  /\ row' = [row EXCEPT !.status = status]
         /\ terminal' = IF status \in Hard \union {"interrupted"}
                        THEN Max2(terminal, IF chunks = <<>> THEN 1 ELSE NextSequence)
                        ELSE terminal
         /\ row' # row \/ terminal' # terminal
  /\ UNCHANGED <<chunks, owner, calls, frames, child, began, faults>>

----------------------------------------------------------------------------
\* Nothing is known, or an earlier version completed the run without chunks.
Init ==
  /\ \/ row = NoRow /\ crow = "none" /\ cchunks = <<>> /\ cstream = "none" /\ ran = 0
     \/ /\ row = [status |-> "completed", mirrored |-> FALSE, old |-> TRUE]
        /\ crow = "completed" /\ cchunks = <<<<1, 0>>>> /\ cstream = "completed" /\ ran = 1
  /\ chunks = <<>> /\ terminal = 0 /\ owner = NoCaller
  /\ calls = [c \in Callers |-> Uncalled] /\ frames = [odd |-> 0, at |-> 0]
  /\ turns = <<>> /\ began = 0 /\ faults = 0

Next ==
  \/ \E c \in Callers :
       \/ Calls(c) \/ Begins(c) \/ Wakes(c) \/ SetAbort(c) \/ Resolved(c) \/ ResolveFails(c)
       \/ StartArrives(c) \/ StartBreaks(c) \/ MirrorPage(c) \/ Mirrored(c) \/ MirrorFails(c)
       \/ Recovers(c) \/ RecoverFails(c) \/ Inspects(c) \/ InspectFails(c) \/ OwnerCancelled(c)
  \/ TurnBegins \/ TurnWrites \/ \E end \in {"completed", "error"} : StreamEnds(end)
  \/ TurnSettles \/ TurnDropped \/ Cancel
  \/ ChildEvicted \/ ParentEvicted \/ GraceEnds \/ Replay

Spec == Init /\ [][Next]_vars

----------------------------------------------------------------------------
\* However many callers ask for a run, one of them at a time talks to the
\* child about it.
OneOwner ==
  \A c, d \in Callers :
    calls[c].pc \in Owning /\ calls[d].pc \in Owning => c = d /\ owner = c

\* The parent's copy is the child's chunks in their order, each once, however
\* often copying was broken off and resumed.
CopiedInOrder ==
  \A i \in DOMAIN chunks :
    chunks[i].body[2] = i - 1 /\ (i > 1 => chunks[i].body[1] = chunks[i - 1].body[1])

\* One caller copies a run, faithfully: the two parts above.
CopyIsTrue == OneOwner /\ CopiedInOrder

\* Clients get the frames of a run under rising sequences, over interruptions,
\* resumptions and replays.
FramesRise == [][frames'.odd # frames.odd => frames'.at > frames.at]_vars

\* A caller is told the result that is kept, and a kept result does not change.
ToldIsKept ==
  [][/\ row # NoRow /\ IsHard(row) => row'.status = row.status
     /\ \A c \in Callers :
          calls[c].pc # "done" /\ calls'[c].pc = "done" /\ calls'[c].result \in Hard =>
            row'.status = calls'[c].result]_vars

\* What is told of a run is neither taken back nor told in another order.
ToldInOrder == FramesRise /\ ToldIsKept
=============================================================================

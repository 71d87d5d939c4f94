----------------------------- MODULE ChatStreams -----------------------------
(* The streams of a chat agent and the clients that resume them:            *)
(* agents/chat/resumable_stream.py, with the probes, offers and ACKs of     *)
(* agents/chat/agent.py and the parked probes of pre_stream.py.             *)
(*                                                                          *)
(* Each turn has one stream, named by its request.  A chunk is its number.  *)
(* A handler of a client's frame runs without a suspension, so it is one    *)
(* step; a turn may be suspended before each of its chunks.  What the       *)
(* server sends arrives at once; what a client sends waits in its inbox.    *)
(* A client has one probe under way at a time, and begins the message of a  *)
(* request anew when it sends the ACK for it.                               *)
EXTENDS Naturals, Sequences, FiniteSets

CONSTANTS
  Requests,        \* requests, each one turn
  Connections,     \* browser tabs
  NoRequest,
  SegmentSize,     \* chunks in a row (_CHUNK_BUFFER_SIZE)
  MaxChunks,       \* bounds the chunks of a turn
  MaxProbes,       \* bounds the probes of all tabs
  MaxFaults        \* bounds failed statements, cancels, evictions, sweeps

ChatStreamsAssumption == NoRequest \notin Requests /\ MaxChunks \in Nat

VARIABLES
  status, rows, order,      \* stream metadata, chunk rows, order of creation
                            \* (also of streams that are gone)
  terminal,                 \* the slot of the last error
  active, live, index, segment,             \* ResumableStream's memory
  turn, emitted, cancelled, late,           \* the turns
  pending, parked, accepted, told,          \* who was offered what
  inbox, open, offered, view, joined, done, \* the tabs
  probes, faults

tableVars  == <<status, rows, order, terminal>>
memoryVars == <<active, live, index, segment>>
turnVars   == <<turn, emitted, cancelled, late>>
offerVars  == <<pending, parked, accepted>>
tabVars    == <<inbox, open, offered, view, joined, done>>
vars == <<tableVars, memoryVars, turnVars, offerVars, told, tabVars, probes, faults>>

Init ==
  /\ status = [r \in Requests |-> "none"] /\ rows = [r \in Requests |-> <<>>]
  /\ order = <<>> /\ terminal = NoRequest
  /\ active = NoRequest /\ live = FALSE /\ index = 0 /\ segment = 0
  /\ turn = [r \in Requests |-> "idle"] /\ emitted = [r \in Requests |-> 0]
  /\ cancelled = {} /\ late = {}
  /\ pending = [c \in Connections |-> NoRequest] /\ parked = {} /\ accepted = {}
  /\ told = {}
  /\ inbox = [c \in Connections |-> <<>>] /\ open = {}
  /\ offered = [c \in Connections |-> NoRequest]
  /\ view = [c \in Connections |-> [r \in Requests |-> <<>>]]
  /\ joined = [c \in Connections |-> {}] /\ done = [c \in Connections |-> {}]
  /\ probes = 0 /\ faults = 0

Fault == faults < MaxFaults /\ faults' = faults + 1

----------------------------------------------------------------------------
(* ResumableStream.  A row of chunks has its index and its bodies; rows are *)
(* in the order they were inserted.  "segment" is the row being extended.   *)

\* _clear_active, with the seal of the segment its callers begin with.
ClearActive == active' = NoRequest /\ live' = FALSE /\ index' = 0 /\ segment' = 0

\* _finish.
Ended(r, how) == [status EXCEPT ![r] = IF @ = "none" THEN @ ELSE how]
Finish(r, how) ==
  /\ status' = Ended(r, how)
  /\ IF active = r THEN ClearActive ELSE segment' = 0 /\ UNCHANGED <<active, live, index>>

\* _chunk_page reads by index and then by row: after what was read before come the
\* bodies of the rows of the next index.
Page(table, i, before) ==
  LET upTo[k \in 0..Len(table)] ==
        IF k = 0 THEN before
        ELSE IF table[k].index = i THEN upTo[k - 1] \o table[k].bodies ELSE upTo[k - 1]
  IN upTo[Len(table)]
ReplayOf(r) ==
  LET upTo[i \in 0..MaxChunks] == Page(rows[r], i, IF i = 0 THEN <<>> ELSE upTo[i - 1])
  IN upTo[MaxChunks]

\* store_chunk: the row being extended, or a new one when it was sealed.
Store(r, n, sealed) ==
  LET fresh == sealed \/ segment = 0
      more  == [rows[r] EXCEPT ![segment].bodies = Append(@, n)]
      table == [rows EXCEPT ![r] =
        IF fresh THEN Append(@, [index |-> index, bodies |-> <<n>>]) ELSE more]
      row   == IF fresh THEN Len(table[r]) ELSE segment IN
  /\ rows' = table
  /\ segment' = IF Len(table[r][row].bodies) >= SegmentSize THEN 0 ELSE row
  /\ index' = IF fresh THEN index + 1 ELSE index

\* _restore: the last stream that was not ended.
Unended == {i \in 1..Len(order) : status[order[i]] = "streaming"}
Restored ==
  IF Unended = {} THEN NoRequest
  ELSE order[CHOOSE i \in Unended : \A j \in Unended : j <= i]

----------------------------------------------------------------------------
(* Frames to the tabs.                                                      *)

EveryoneHears == open                                     \* a mutant
\* broadcast_json: everyone but those who were offered a stream.
Hears == {c \in open : pending[c] = NoRequest}

Told(T, r) == done' = [c \in Connections |-> IF c \in T /\ r \in joined[c]
                                             THEN done[c] \cup {r} ELSE done[c]]
\* _broadcast_terminal, once for each request.
BroadcastTerminal(r) ==
  IF r \in told THEN UNCHANGED <<told, done>>
  ELSE told' = told \cup {r} /\ Told(Hears, r)

\* _notify_stream_resuming to each of T: from now on the broadcasts pass it by.
Offer(T, r) ==
  /\ pending' = [c \in Connections |-> IF c \in T THEN r ELSE pending[c]]
  /\ offered' = [c \in Connections |-> IF c \in T THEN r ELSE offered[c]]
  /\ joined' = [c \in Connections |-> IF c \in T THEN joined[c] \ {r} ELSE joined[c]]

\* The handler's finally: with the last accepted turn the parked tabs are let
\* go, or offered the error.
Settles(r, error) ==
  /\ accepted' = accepted \ {r}
  /\ IF accepted \subseteq {r}
     THEN /\ parked' = {}
          /\ IF error = NoRequest THEN UNCHANGED <<pending, offered, joined>> ELSE Offer(parked, error)
     ELSE UNCHANGED <<parked, pending, offered, joined>>

----------------------------------------------------------------------------
(* The turns.                                                               *)

Drop(T) == pending' = [c \in Connections |-> IF c \in T THEN NoRequest ELSE pending[c]]

\* _handle_use_chat_request up to the turn queue.
Accepts(r) ==
  /\ turn[r] = "idle"
  /\ turn' = [turn EXCEPT ![r] = "accepted"]
  /\ accepted' = accepted \cup {r}
  /\ Drop({c \in Connections : terminal # NoRequest /\ pending[c] = terminal})
  /\ terminal' = NoRequest
  /\ UNCHANGED <<status, rows, order, memoryVars, emitted, cancelled, late, parked, told,
                 tabVars, probes, faults>>

\* Tabs that were offered another stream and have not answered.
Rejoin(r) == {c \in Connections : pending[c] \notin {NoRequest, r}}

\* _run_turn up to the first chunk.
Starts(r) ==
  /\ turn[r] = "accepted" /\ \A q \in Requests : turn[q] # "streaming"
  /\ turn' = [turn EXCEPT ![r] = "streaming"]
  /\ terminal' = NoRequest
  /\ active' = r /\ live' = TRUE /\ index' = 0 /\ segment' = 0
  /\ status' = [status EXCEPT ![r] = "streaming"] /\ order' = Append(order, r)
  /\ accepted' = accepted \ {r} /\ parked' = {}
  /\ pending' = [c \in Connections |->
       IF c \in parked THEN r ELSE IF c \in Rejoin(r) THEN NoRequest ELSE pending[c]]
  /\ offered' = [c \in Connections |-> IF c \in parked THEN r ELSE offered[c]]
  /\ joined' = [c \in Connections |->
       IF c \in open \ parked THEN joined[c] \cup {r} ELSE joined[c]]
  /\ UNCHANGED <<rows, emitted, cancelled, late, told, inbox, open, view, done, probes, faults>>

\* The metadata cannot be written; the requester is told.
StartFails(r) ==
  /\ turn[r] = "accepted" /\ \A q \in Requests : turn[q] # "streaming"
  /\ Fault
  /\ turn' = [turn EXCEPT ![r] = "over"]
  /\ terminal' = r
  /\ ClearActive
  /\ Settles(r, r)
  /\ UNCHANGED <<status, rows, order, emitted, cancelled, late, told, inbox, open, view,
                 done, probes>>

\* _emit.  A chunk of a turn whose stream was ended under it is stored too.
Emits(r) ==
  /\ turn[r] = "streaming" /\ emitted[r] < MaxChunks
  /\ emitted' = [emitted EXCEPT ![r] = @ + 1]
  /\ \E sealed \in BOOLEAN :
       /\ sealed \/ segment <= Len(rows[r])       \* or the row is gone, and it fails
       /\ Store(r, emitted[r] + 1, sealed)
  /\ late' = IF active = r THEN late ELSE late \cup {r}
  /\ view' = [c \in Connections |->
       IF c \in Hears THEN [view[c] EXCEPT ![r] = Append(@, emitted[r] + 1)] ELSE view[c]]
  /\ UNCHANGED <<status, order, terminal, active, live, turn, cancelled, offerVars, told, inbox, open,
                 offered, joined, done, probes, faults>>

\* The turn's last steps: the transcript is written, then the stream ended.
Completes(r) ==
  /\ turn[r] = "streaming" /\ emitted[r] > 0
  /\ turn' = [turn EXCEPT ![r] = "over"]
  /\ Finish(r, "completed")
  /\ BroadcastTerminal(r)
  /\ Settles(r, terminal)
  /\ UNCHANGED <<rows, order, terminal, emitted, cancelled, late, inbox, open, view, probes,
                 faults>>

\* The provider fails, or a chunk cannot be stored: the segment is sealed, the
\* error kept for tabs to come.
Fails(r) ==
  /\ turn[r] = "streaming" /\ Fault
  /\ turn' = [turn EXCEPT ![r] = "over"]
  /\ Finish(r, "error") /\ terminal' = r
  /\ BroadcastTerminal(r)
  /\ Settles(r, r)
  /\ UNCHANGED <<rows, order, emitted, cancelled, late, inbox, open, view, probes>>

\* _handle_cancel ends the stream at once; the turn goes on until it looks.
Cancels(r) ==
  /\ turn[r] = "streaming" /\ r \notin cancelled /\ Fault
  /\ cancelled' = cancelled \cup {r}
  /\ BroadcastTerminal(r)
  /\ IF active = r THEN Finish(r, "completed") ELSE UNCHANGED <<status, memoryVars>>
  /\ UNCHANGED <<rows, order, terminal, turn, emitted, late, offerVars, inbox, open, offered,
                 view, joined, probes>>

\* _handle_chat_clear, the part about streams, with the end of the turns that
\* find their generation gone.
Clears ==
  /\ Fault
  /\ turn' = [r \in Requests |-> IF turn[r] = "idle" THEN "idle" ELSE "over"]
  /\ status' = [r \in Requests |-> "none"] /\ rows' = [r \in Requests |-> <<>>]
  /\ order' = <<>> /\ terminal' = NoRequest
  /\ ClearActive
  /\ LET going == {r \in Requests : turn[r] = "streaming"} IN
       /\ done' = [c \in Connections |->
            IF c \in Hears THEN done[c] \cup (going \cap joined[c]) ELSE done[c]]
       /\ told' = told \cup going
  /\ accepted' = {} /\ parked' = {}
  /\ pending' = [c \in Connections |-> NoRequest]
  /\ late' = {} /\ cancelled' = {} /\ emitted' = [r \in Requests |-> 0]
  /\ view' = [c \in Connections |-> [r \in Requests |-> <<>>]]
  /\ joined' = [c \in Connections |-> {}]
  /\ UNCHANGED <<inbox, open, offered, probes>>

----------------------------------------------------------------------------
(* The sweep, evictions, and what the recovery of a turn does to its stream.*)

\* cleanup spares the stream of a turn that is under way.
Abandoned(r) == ~(live /\ r = active)
Sweeps(r) ==
  /\ \/ status[r] \in {"completed", "error"}
     \/ status[r] = "streaming" /\ Abandoned(r)
  /\ Fault
  /\ status' = [status EXCEPT ![r] = "none"] /\ rows' = [rows EXCEPT ![r] = <<>>]
  /\ IF active = r THEN ClearActive ELSE UNCHANGED memoryVars
  /\ UNCHANGED <<order, terminal, turnVars, offerVars, told, tabVars, probes>>

\* The memory goes; the sockets hibernate; prepare finds the last open stream.
Evicted ==
  /\ Fault
  /\ active' = Restored /\ live' = FALSE /\ segment' = 0
  /\ index' = IF Restored = NoRequest THEN 0 ELSE Len(rows[Restored])
  /\ turn' = [r \in Requests |-> IF turn[r] \in {"accepted", "streaming"} THEN "lost" ELSE turn[r]]
  /\ pending' = [c \in Connections |-> NoRequest] /\ parked' = {} /\ accepted' = {}
  /\ told' = {} /\ cancelled' = {}
  /\ joined' = [c \in Connections |-> {}]
  /\ UNCHANGED <<tableVars, emitted, late, inbox, open, offered, view,
                 done, probes>>

\* _recover_interrupted_chat_turn: a stream another has ended is left alone; a
\* conversation that went on marks it, without forgetting it as the active one.
RecoveryEnds(r) ==
  /\ turn[r] = "lost"
  /\ turn' = [turn EXCEPT ![r] = "over"]
  /\ IF status[r] = "streaming"
     THEN \/ Finish(r, "completed") /\ BroadcastTerminal(r)
          \/ /\ status' = Ended(r, "error") /\ segment' = 0
             /\ UNCHANGED <<active, live, index, told, done>>
     ELSE UNCHANGED <<status, memoryVars, told, done>>
  /\ UNCHANGED <<rows, order, terminal, emitted, cancelled, late, offerVars, inbox, open,
                 offered, view, joined, probes, faults>>

----------------------------------------------------------------------------
(* The tabs.                                                                *)

\* A tab connects and probes; one that is open probes again.
Probes(c) ==
  /\ probes < MaxProbes /\ probes' = probes + 1
  /\ inbox[c] = <<>> /\ offered[c] = NoRequest /\ c \notin parked
  /\ open' = open \cup {c}
  /\ inbox' = [inbox EXCEPT ![c] = <<NoRequest>>]
  /\ UNCHANGED <<tableVars, memoryVars, turnVars, offerVars, told, offered, view, joined, done,
                 faults>>

\* _dispatch_close.
Disconnects(c) ==
  /\ c \in open /\ Fault
  /\ open' = open \ {c} /\ inbox' = [inbox EXCEPT ![c] = <<>>]
  /\ Drop({c}) /\ parked' = parked \ {c}
  /\ offered' = [offered EXCEPT ![c] = NoRequest]
  /\ view' = [view EXCEPT ![c] = [r \in Requests |-> <<>>]]
  /\ joined' = [joined EXCEPT ![c] = {}] /\ done' = [done EXCEPT ![c] = {}]
  /\ UNCHANGED <<tableVars, memoryVars, turnVars, accepted, told, probes>>

\* _handle_resume_request: the stream, the last error, a turn to come, or none.
ProbeArrives(c) ==
  /\ inbox[c] = <<NoRequest>>
  /\ inbox' = [inbox EXCEPT ![c] = <<>>]
  /\ LET what == IF active # NoRequest THEN active ELSE terminal IN
       IF what # NoRequest THEN Offer({c}, what) /\ UNCHANGED parked
       ELSE /\ parked' = IF accepted = {} THEN parked ELSE parked \cup {c}
            /\ UNCHANGED <<pending, offered, joined>>
  /\ UNCHANGED <<tableVars, memoryVars, turnVars, accepted, told, open, view, done, probes,
                 faults>>

\* The tab answers the offer, and begins the message anew.
SendsAck(c) ==
  /\ inbox[c] = <<>> /\ offered[c] # NoRequest
  /\ inbox' = [inbox EXCEPT ![c] = <<offered[c]>>]
  /\ offered' = [offered EXCEPT ![c] = NoRequest]
  /\ view' = [view EXCEPT ![c][offered[c]] = <<>>]
  /\ joined' = [joined EXCEPT ![c] = @ \ {offered[c]}]
  /\ done' = [done EXCEPT ![c] = @ \ {offered[c]}]
  /\ UNCHANGED <<tableVars, memoryVars, turnVars, offerVars, told, open, probes, faults>>

\* What follows a replay: more to come, or its end.
Replays(c, r) ==
  /\ view' = [view EXCEPT ![c][r] = @ \o ReplayOf(r)]
  /\ joined' = [joined EXCEPT ![c] = @ \cup {r}]
Over(c, r) == done' = [done EXCEPT ![c] = @ \cup {r}]

\* _handle_resume_ack lets the tab in before the replay.
Admitted(c, r) == [pending EXCEPT ![c] = NoRequest]

AckArrives(c) ==
  \E r \in Requests :
    /\ inbox[c] = <<r>>
    /\ inbox' = [inbox EXCEPT ![c] = <<>>]
    /\ pending' = Admitted(c, r)
    /\ IF active = r
       THEN /\ Replays(c, r)
            /\ IF live THEN UNCHANGED <<status, memoryVars, done>>
               ELSE Finish(r, "completed") /\ Over(c, r)
       ELSE /\ Over(c, r)
            /\ IF status[r] = IF terminal = r THEN "error" ELSE "completed"
               THEN Replays(c, r) ELSE UNCHANGED <<view, joined>>
            /\ UNCHANGED <<status, memoryVars>>
    /\ UNCHANGED <<rows, order, terminal, turnVars, parked, accepted, told, open, offered,
                   probes, faults>>

\* The replay cannot be read: the tab gets an error, a restored stream is ended.
AckUnread(c) ==
  \E r \in Requests :
    /\ inbox[c] = <<r>> /\ active = r /\ Fault
    /\ inbox' = [inbox EXCEPT ![c] = <<>>]
    /\ pending' = Admitted(c, r)
    /\ IF live THEN UNCHANGED <<status, memoryVars>> ELSE Finish(r, "error")
    /\ Over(c, r)
    /\ UNCHANGED <<rows, order, terminal, turnVars, parked, accepted, told, open, offered,
                   view, joined, probes>>

Next ==
  \/ \E r \in Requests :
       \/ Accepts(r) \/ Starts(r) \/ StartFails(r) \/ Emits(r) \/ Completes(r) \/ Fails(r)
       \/ Cancels(r) \/ Sweeps(r) \/ RecoveryEnds(r)
  \/ \E c \in Connections :
       \/ Probes(c) \/ Disconnects(c) \/ ProbeArrives(c) \/ SendsAck(c)
       \/ AckArrives(c) \/ AckUnread(c)
  \/ Clears \/ Evicted

Spec == Init /\ [][Next]_vars

----------------------------------------------------------------------------
(* Properties.                                                              *)

Chunks(n) == [i \in 1..n |-> i]

\* agents/chat/agent.py says of the ACK "no gap, no duplicate": a tab that is
\* part of a stream has every chunk of it so far, once and in order, whenever it
\* joined.  (Not of a stream that a cancel ended under its turn: see below.)
CaughtUp ==
  \A c \in Connections : \A r \in joined[c] \ late :
    status[r] # "none" => view[c][r] = Chunks(emitted[r])

\* Once a turn is over, every tab that is part of its stream has its end.
NobodyHangs ==
  \A c \in Connections : \A r \in joined[c] : turn[r] = "over" => r \in done[c]

\* The stream of a turn under way is the one offered to tabs, and its row is kept.
LiveIsOffered ==
  \A r \in Requests : turn[r] = "streaming" /\ r \notin cancelled =>
    active = r /\ live /\ status[r] = "streaming"

\* Every tab sees the streams it is part of as they are: the parts above.
TabsSeeStreams == CaughtUp /\ NobodyHangs /\ LiveIsOffered
=============================================================================

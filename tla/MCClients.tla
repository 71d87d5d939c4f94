------------------------------ MODULE MCClients ------------------------------
(* Connections with others, for TLC: a behaviour is one of the agent's MCP  *)
(* servers, of its browsers, or of the streams of a chat and the tabs that  *)
(* watch them, with the others at rest.                                     *)
EXTENDS MCPConnections

CONSTANTS Modes, Execs, Ops, MaxSids, MaxOps, MaxLost, Reuse, NoRec, NoExec
CONSTANTS Requests, Tabs, NoRequest, SegmentSize, MaxChunks, MaxProbes, MaxBroken

VARIABLES part
VARIABLES mode, store, sockets, opening, ops, alive, forgotten, made, asked, lost
VARIABLES status, chunks, order, terminal, active, live, index, segment, turn, emitted,
          cancelled, late, pending, parked, accepted, told, inbox, open, offered, view,
          joined, done, probes, broken

browserVars == <<mode, store, sockets, opening, ops, alive, forgotten, made, asked, lost>>
streamVars == <<status, chunks, order, terminal, active, live, index, segment, turn, emitted,
                cancelled, late, pending, parked, accepted, told, inbox, open, offered, view,
                joined, done, probes, broken>>

B == INSTANCE BrowserSessions WITH MaxFaults <- MaxLost, began <- asked, faults <- lost
S == INSTANCE ChatStreams WITH Connections <- Tabs, MaxFaults <- MaxBroken, rows <- chunks,
       faults <- broken

ASSUME MCClientsAssumption == B!BrowserAssumption
ASSUME MCStreamsAssumption == S!ChatStreamsAssumption

\* The part that is at rest begins in one state.
MCInit ==
  /\ part \in {"mcp", "browsers", "streams"} /\ Init /\ B!Init /\ S!Init
  /\ part # "browsers" => mode = "one-shot"
MCNext ==
  /\ UNCHANGED part
  /\ \/ part = "mcp" /\ Next /\ UNCHANGED <<browserVars, streamVars>>
     \/ part = "browsers" /\ B!Next /\ UNCHANGED <<vars, streamVars>>
     \/ part = "streams" /\ S!Next /\ UNCHANGED <<vars, browserVars>>
MCSpec == MCInit /\ [][MCNext]_<<part, vars, browserVars, streamVars>>

\* See BrowserSessions: every browser is known, and the shared one is kept.
EveryBrowserIsOwned == part = "browsers" => B!EveryBrowserIsOwned
SharedIsNotReplaced == B!SharedIsNotReplaced

\* See ChatStreams: every tab sees the streams it is part of.
TabsSeeStreams == part = "streams" => S!TabsSeeStreams
=============================================================================

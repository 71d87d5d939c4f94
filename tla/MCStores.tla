------------------------------- MODULE MCStores -------------------------------
(* What an agent keeps in its tables, for TLC: a behaviour is one of its     *)
(* workflows, of its sessions, or of the runs of an agent tool, with the     *)
(* others at rest.  They share neither tables nor locks.                     *)
EXTENDS Workflows

CONSTANTS Trees, Opened, Messages, Blobs, Listeners, MaxTelling, MaxWrites, MaxOverlays,
          MaxCrashes, Stored, NoId, NoMessage, NoBlob, NoTail, NoWork, m1, m2
CONSTANTS Parents, MaxChunks, MaxAsked, MaxFaults, NoCaller

VARIABLES part
VARIABLES messages, overlays, blobs, refs, index, tails, work, telling, writes, crashes
VARIABLES row, chunks, terminal, owner, asking, frames, crow, cchunks, cstream, turns, ran,
          began, faults

sessionVars == <<messages, overlays, blobs, refs, index, tails, work, telling, writes, crashes>>
toolVars == <<row, chunks, terminal, owner, asking, frames, crow, cchunks, cstream, turns, ran,
              began, faults>>

S == INSTANCE Sessions WITH Ids <- Messages, NoRow <- NoMessage, rows <- messages
A == INSTANCE AgentToolRuns WITH Callers <- Parents, MaxCalls <- MaxAsked, calls <- asking

ASSUME StoresAssumption == S!SessionsAssumption /\ A!AgentToolAssumption

\* Two subscribers, and two messages of which the second is below the first.
TwoListeners == <<"l1", "l2">>
Chain2 == <<m1, m2>>

\* The part that is at rest begins in one state.
MCInit ==
  /\ part \in {"workflows", "sessions", "tools"} /\ Init /\ S!Init /\ A!Init
  /\ part # "tools" => row = NoRow
MCNext ==
  /\ UNCHANGED part
  /\ \/ part = "workflows" /\ Next /\ UNCHANGED <<sessionVars, toolVars>>
     \/ part = "sessions" /\ S!Next /\ UNCHANGED <<vars, toolVars>>
     \/ part = "tools" /\ A!Next /\ UNCHANGED <<vars, sessionVars>>
MCSpec == MCInit /\ [][MCNext]_<<part, vars, sessionVars, toolVars>>

\* A bound: a reader's walk through the pages and the replay of a run are explored
\* apart.  They meet in the rows alone, which calls and callbacks change in both.
ReadersApart == walk = NoWalk \/ replays = 0

\* See Sessions: the derived tables agree, and views lose nothing else.
StoreConsistent == part = "sessions" => S!StoreConsistent
ViewKept == [][part = "sessions" => S!KeepsView]_sessionVars

\* See AgentToolRuns: one caller copies a run, and it is told once and in order.
CopyIsTrue == part = "tools" => A!CopyIsTrue
ToldInOrder == A!ToldInOrder
=============================================================================

------------------------------ MODULE MCRuntime ------------------------------
(* The Lifecycle runtime and its facets for TLC: a behaviour is one of the  *)
(* runtime of an object, or one of the facets of a root object whose        *)
(* startup Facets models by its own steps, with the other at rest.          *)
EXTENDS LifecycleRuntime

CONSTANTS Facets, Calls, MaxJobs, MaxRootCalls, MaxCrashes, MaxRaised

VARIABLES part, up, starter, rows, dels, routed, child, gate, active, stack, ids, made,
          crashes, raised

facetVars == <<up, starter, rows, dels, routed, child, gate, active, stack, ids, made, crashes,
               raised>>

Sub == INSTANCE Facets WITH Tasks <- Calls, MaxCalls <- MaxRootCalls, MaxFaults <- MaxRaised,
       jobs <- routed, at <- stack, calls <- made, faults <- raised

ASSUME SubAgentsAssumption == Sub!FacetsAssumption

MCInit == part \in {"runtime", "facets"} /\ Init /\ Sub!Init
MCNext ==
  /\ UNCHANGED part
  /\ \/ part = "runtime" /\ Next /\ UNCHANGED facetVars
     \/ part = "facets" /\ Sub!Next /\ UNCHANGED vars
MCSpec == MCInit /\ [][MCNext]_<<part, vars, facetVars>> /\ Fairness /\ Sub!Fairness

\* See Facets: children are recorded, and calls of the root end.
ChildrenAreRecorded == Sub!ChildrenAreRecorded
CallsEnd == Sub!CallsEnd
=============================================================================

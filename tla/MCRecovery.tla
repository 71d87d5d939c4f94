------------------------------ MODULE MCRecovery -----------------------------
(* The recovery of chat turns, and a run of the tasks that carry them, for   *)
(* TLC: a behaviour is one of the recovery, which has its tasks resumed and  *)
(* run again, or one of a task run whose steps are awaited together, with    *)
(* the other at rest.                                                        *)
EXTENDS Tasks

CONSTANTS MaxTurns, MaxAttempts, MaxOoms, MaxFaults, Busy

VARIABLES part, incident, progress, recovering, task, stream, content, message, runs,
          leaf, asks, doing, attempt, queue, used, faults

R == INSTANCE ChatRecovery

ASSUME MCRecoveryAssumption == R!ChatRecoveryAssumption

recoveryVars == <<incident, progress, recovering, task, stream, content, message, runs,
                  leaf, asks, doing, attempt, queue, used, faults>>

\* One definition awaits a step and a sleep together.
StepBesideNap == <<{"a", "nap"}>>

MCInit == part \in {"recovery", "tasks"} /\ Init /\ R!Init
MCNext ==
    /\ UNCHANGED part
    /\ \/ part = "recovery" /\ R!Next /\ UNCHANGED vars
       \/ part = "tasks" /\ Next /\ UNCHANGED recoveryVars
MCSpec == MCInit /\ [][MCNext]_<<part, vars, recoveryVars>> /\ R!Fairness

\* See ChatRecovery: recovery is bounded, as its attempts are paid for by faults,
\* and comes to an end when they do.
RecoveryIsBounded == [][part = "recovery" => R!Pays]_recoveryVars /\ R!RecoverySettles
=============================================================================

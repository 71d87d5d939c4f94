------------------------------- MODULE MCTasks -------------------------------
(* The instance of Tasks for liveness.                                      *)
EXTENDS Tasks

\* The definition awaits a step and then a sleep.
StepThenNap == <<{"a"}, {"nap"}>>
=============================================================================

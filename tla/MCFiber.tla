------------------------------- MODULE MCFiber -------------------------------
(* The instance of Fiber for TLC, without liveness.                         *)
EXTENDS Fiber, TLC

\* Runners are interchangeable.
RunnerSymmetry == Permutations(Runners)
=============================================================================

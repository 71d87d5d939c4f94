------------------------ MODULE MCLifecycleJobDriver -----------------------
(* Instances of LifecycleJobDriver for TLC.                                 *)
EXTENDS LifecycleJobDriver

Plain     == [singleflight |-> FALSE, exclusive |-> FALSE, recoveryLoop |-> FALSE]
Single    == [Plain EXCEPT !.singleflight = TRUE]
Exclusive == [Plain EXCEPT !.exclusive = TRUE]
Looping   == [Single EXCEPT !.recoveryLoop = TRUE]

PlainAndLooping == {Plain, Looping}
ExclusiveAndLooping == {Exclusive, Looping}
=============================================================================

---------------------------- MODULE TaskJournal ----------------------------
(***************************************************************************)
(* What replayable tasks promise of one run id, whatever claims, retries,  *)
(* cancellations, evictions and late callbacks do: a step's result is      *)
(* recorded once, under a claim of an open run, and stays; a run completes *)
(* with every step of its definition recorded, once, and not after it was  *)
(* asked to cancel; what ended stays as it ended until it is deleted.      *)
(***************************************************************************)
CONSTANT Steps

VARIABLES life,      \* "none", "open", "cancelling", "completed", "failed" or "cancelled"
          claimed,   \* an attempt holds the run
          results    \* the recorded result of each step

vars == <<life, claimed, results>>

Blank == [s \in Steps |-> "none"]
Ended == {"completed", "failed", "cancelled"}
Lives == {"open", "cancelling"}

Init == life = "none" /\ claimed = FALSE /\ results = Blank

Accept == /\ life = "none" /\ life' = "open"
          /\ UNCHANGED <<claimed, results>>

Claim == /\ life = "open" /\ claimed' = TRUE
         /\ UNCHANGED <<life, results>>
Yield == /\ life = "open" /\ claimed' = FALSE
         /\ UNCHANGED <<life, results>>

Record(s, result) ==
    /\ life = "open" /\ claimed /\ results[s] = "none"
    /\ results' = [results EXCEPT ![s] = result]
    /\ UNCHANGED <<life, claimed>>

\* An attempt that holds the run is asked; any other run is settled at once.
AskToCancel == /\ life = "open" /\ claimed /\ life' = "cancelling"
               /\ UNCHANGED <<claimed, results>>

Settle(how) ==
    /\ \/ how = "completed" /\ life = "open" /\ claimed
          /\ \A s \in Steps : results[s] # "none"
       \/ how = "failed" /\ life = "open"
       \/ how = "cancelled" /\ life \in Lives
    /\ life' = how /\ claimed' = FALSE
    /\ UNCHANGED results

Delete == /\ life \in Ended /\ life' = "none" /\ results' = Blank
          /\ UNCHANGED claimed

Next ==
    \/ Accept \/ Claim \/ Yield \/ AskToCancel \/ Delete
    \/ \E s \in Steps, result \in {"completed", "failed"} : Record(s, result)
    \/ \E how \in Ended : Settle(how)

Spec == Init /\ [][Next]_vars
=============================================================================

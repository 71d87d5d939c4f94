---------------------------- MODULE FiberLedger ----------------------------
(***************************************************************************)
(* What the ledger of managed fibers promises its readers (inspect_fiber,  *)
(* list_fibers, a start_fiber with an id already used): how the status of  *)
(* a fiber may change, whichever task, scan or caller changes it.  Fiber   *)
(* implements it.                                                          *)
(***************************************************************************)
CONSTANT Ids
VARIABLE ledger

Ended    == {"completed", "aborted", "error"}
Terminal == Ended \cup {"interrupted"}
Open     == {"pending", "running"}

Moves(i, from, to) ==
    /\ ledger[i] \in from
    /\ \E s \in to : ledger' = [ledger EXCEPT ![i] = s]

Init == ledger = [i \in Ids |-> "none"]

\* start_fiber: accepted for later, running at once, or refused at once
Start(i)     == Moves(i, {"none"}, {"pending", "running", "error"})
\* the start is taken back before it was answered
Withdraw(i)  == Moves(i, {"pending"}, {"none"})
Begin(i)     == Moves(i, {"pending"}, {"running", "error"})
Settle(i)    == Moves(i, {"running"}, Ended)
Cancel(i)    == Moves(i, Open, {"aborted"})
\* the scan finds it without an owner, the hook or resolve_fiber settles it, and
\* a platform failure in between puts it back
Interrupt(i) == Moves(i, Open, {"interrupted"})
Recover(i)   == Moves(i, {"interrupted"}, Terminal)
PutBack(i)   == Moves(i, {"interrupted"}, Open)
Delete(i)    == Moves(i, Terminal, {"none"})

Next == \E i \in Ids :
    \/ Start(i) \/ Withdraw(i) \/ Begin(i) \/ Settle(i) \/ Cancel(i)
    \/ Interrupt(i) \/ Recover(i) \/ PutBack(i) \/ Delete(i)

Spec == Init /\ [][Next]_ledger

\* A settled fiber stays as it settled until its row is deleted, whatever its
\* callback, the recovery hook, a cancel or a resolve still has to say.
SettledIsFinal ==
    [][\A i \in Ids : ledger[i] \in Ended => ledger'[i] \in {ledger[i], "none"}]_ledger

\* A fiber that began is never accepted for another run: it runs again only if
\* a scan had interrupted it in between.
BegunIsNotQueued ==
    [][\A i \in Ids : ledger[i] = "running" => ledger'[i] # "pending"]_ledger
=============================================================================

---------------------------- MODULE Clients_proofs ----------------------------
(***************************************************************************)
(* Proofs about the connections an agent has with others.  BrowserSessions: *)
(* every browser that runs is known, and the shared record is not replaced. *)
(* For any number of executions, operations, failures and restarts.         *)
(* ChatStreams: a tab that is part of a stream has every chunk of it, once   *)
(* and in order, and its end.  For any number of tabs, requests and chunks, *)
(* of probes and of failures.                                               *)
(***************************************************************************)
EXTENDS MCClients, WellFoundedInduction, SequenceTheorems, TLAPS

-----------------------------------------------------------------------------
(* BrowserSessions: the inductive invariant.                               *)

\* Where an operation goes on after a deletion, and where it needs its execution.
Thens == {"done", "ensure", "won", "createOwn", "promote"}
OfExec == {"marker", "resolve", "probeExec", "own", "shared", "probeShared", "joins", "createOwn",
           "promote", "probePromoted", "promoteShared", "probeOther", "promoteLocked"}
Sided == {"probePromoted", "promoteShared", "probeOther", "promoteLocked", "commit", "queue"}
Unrecorded == {"commit", "queue"}

Pcs == Thens \union OfExec \union Sided \union
       {"idle", "retry", "delete", "finish", "drop", "probe", "settle", "create", "connect", "ask",
        "probeInfo", "info"}
Purposes == {"none", "send", "start", "info", "reset", "close", "dispose", "sweep"}

Operations == [pc: Pcs, kind: Purposes, exec: Execs \union {NoExec}, key: B!Keys, sid: Nat,
               then: Thens, soft: BOOLEAN, up: BOOLEAN, shared: Nat]

\* An operation o of a connector of mode d: it knows browsers that were made
\* (m of them), and what it is about to drop does not run (runs: A).
OpOK(o, d, m, A) ==
  /\ o \in Operations /\ o.sid <= m /\ o.shared <= m
  /\ o.pc \in OfExec \/ o.then \in {"createOwn", "promote"} => o.exec \in Execs
  /\ o.pc \in {"create", "commit"} => o.key \in Execs \union {Reuse}
  /\ o.pc = "shared" => o.key \in Execs
  /\ o.pc \in {"finish", "drop"} => o.sid \notin A
  /\ o.pc \in {"settle", "joins", "info"} /\ o.up = FALSE => o.sid \notin A
  /\ o.pc \in Sided => o.sid # 0
  /\ d = "kitesurf" => o.pc \in {"idle", "marker", "connect", "drop"} /\ o.then = "done"
  /\ d # "kitesurf" => o.pc # "marker"

\* A record r of key k: a closed one that is not to be deleted is of a browser
\* that does not run, or whose mark was taken back (forgotten: F).  Only those
\* of executions are kept after their browser.
RecOK(k, r, d, m, A, F) ==
  /\ r \in B!Recs /\ r.sid <= m
  /\ r.closed = TRUE /\ r.pending = FALSE => r.sid \notin A \/ r.sid \in F
  /\ k \notin Execs => r.closed = r.pending /\ r.pending = r.cleanup
  /\ k \in B!Sids => r.sid = k
  /\ d = "kitesurf" => k \in Execs /\ r.sid = 0 /\ r.pending = FALSE
  /\ d # "kitesurf" => r.sid # 0

Count(d, m, A) ==
  /\ m \in 0..MaxSids /\ A \subseteq 1..m
  /\ d = "kitesurf" => m = 0

OpsOK(O, d, m, A) == O \in [Ops -> Operations] /\ \A o \in Ops : OpOK(O[o], d, m, A)
StoreOK(s, d, m, A, F) ==
  /\ s \in [B!Keys -> B!Recs \union {NoRec}]
  /\ \A k \in B!Keys : s[k] # NoRec => RecOK(k, s[k], d, m, A, F)

Recorded(s, sid) == \E k \in B!Keys : s[k] # NoRec /\ s[k].sid = sid
Owned(s, O, A, F) ==
  \A sid \in A \ F : Recorded(s, sid) \/ \E o \in Ops : O[o].pc \in Unrecorded /\ O[o].sid = sid

BrowserInv ==
  /\ Count(mode, made, alive) /\ OpsOK(ops, mode, made, alive)
  /\ StoreOK(store, mode, made, alive, forgotten) /\ Owned(store, ops, alive, forgotten)

-----------------------------------------------------------------------------
(* What a step is: one operation moves on, one record is written or goes,   *)
(* browsers come and go.                                                   *)

\* Browsers end, or new ones come that were never there; what is forgotten stays so.
Grows ==
  /\ mode' = mode /\ Count(mode, made', alive') /\ made <= made'
  /\ \A sid \in alive' : sid \in alive \/ sid > made
  /\ forgotten \subseteq forgotten'

\* Operation o becomes r; a browser that it alone knew of is recorded now.
OpMoves(o, r) ==
  /\ ops' = [ops EXCEPT ![o] = r] /\ OpOK(r, mode, made', alive')
  /\ \/ ops[o].pc \notin Unrecorded
     \/ r.pc \in Unrecorded /\ r.sid = ops[o].sid
     \/ Recorded(store', ops[o].sid)
OpsMove == ops' = ops \/ \E o \in Ops, r \in Operations : OpMoves(o, r)

\* A record is written over by one of the same browser, or is the first.
Writes(k, r) ==
  /\ store' = [store EXCEPT ![k] = r] /\ RecOK(k, r, mode, made', alive', forgotten')
  /\ store[k] # NoRec => r.sid = store[k].sid

\* A record goes: its browser does not run, is forgotten, or has another one.
Drops(k) ==
  /\ store[k] # NoRec /\ store' = [store EXCEPT ![k] = NoRec]
  /\ \/ store[k].sid \notin alive' \/ store[k].sid \in forgotten'
     \/ \E j \in B!Keys \ {k} : store[j] # NoRec /\ store[j].sid = store[k].sid
  /\ k = Reuse => store[k].pending = TRUE \/ store[k].sid \notin alive

\* The shared record is marked, and an execution's record of its browser goes.
Resets(k) ==
  /\ k # Reuse /\ store[k] # NoRec /\ store[Reuse] # NoRec /\ store[k].sid = store[Reuse].sid
  /\ store' = [store EXCEPT ![Reuse] = B!Marked(store[Reuse]), ![k] = NoRec]
  /\ mode # "kitesurf" /\ UNCHANGED <<made, alive, forgotten>>

StoreMoves ==
  \/ store' = store
  \/ \E k \in B!Keys : Resets(k)
  \/ \E k \in B!Keys : Drops(k) \/ \E r \in B!Recs : Writes(k, r)

\* Whoever asked for a new browser knows of it.
Appears == \A sid \in alive' \ alive : \E o \in Ops : ops'[o].pc \in Unrecorded /\ ops'[o].sid = sid

BrowserStep == Grows /\ OpsMove /\ StoreMoves /\ Appears

LEMMA KeysAre == Reuse \in B!Keys /\ Execs \subseteq B!Keys /\ B!Sids \subseteq B!Keys
                 /\ NoRec \notin B!Recs /\ Reuse \notin Execs /\ Reuse \notin B!Sids
                 /\ NoExec \notin Execs
                 /\ (\A k \in Execs : k \notin B!Sids) /\ MaxSids \in Nat
BY MCClientsAssumption DEF B!BrowserAssumption, B!Keys, B!Sids

LEMMA RecFacts ==
  ASSUME BrowserInv, NEW k \in B!Keys, store[k] # NoRec
  PROVE  store[k] \in B!Recs /\ RecOK(k, store[k], mode, made, alive, forgotten)
BY DEF BrowserInv, StoreOK, RecOK

\* A record that is marked is as good, and of the same browser.
MarkedOK(k, r, s) ==
  /\ s \in B!Recs /\ s.sid = r.sid
  /\ \A d, m, A, F : RecOK(k, r, d, m, A, F) /\ d # "kitesurf" => RecOK(k, s, d, m, A, F)

LEMMA MarkedIsOK == ASSUME NEW k, NEW r \in B!Recs PROVE MarkedOK(k, r, B!Marked(r))
<1> DEFINE s == B!Marked(r)
<1>1. /\ s \in B!Recs /\ s.sid = r.sid
      /\ s.closed = TRUE /\ s.pending = TRUE /\ s.cleanup = TRUE
  BY DEF B!Marked, B!Recs
<1> HIDE DEF s
<1>2. ASSUME NEW d, NEW m, NEW A, NEW F, RecOK(k, r, d, m, A, F), d # "kitesurf"
      PROVE  RecOK(k, s, d, m, A, F)
  BY <1>1, <1>2 DEF RecOK
<1>3. MarkedOK(k, r, s)  BY <1>1, <1>2 DEF MarkedOK
<1> QED  BY <1>3 DEF s

LEMMA OpStaysOK ==
  ASSUME Grows, made \in Nat, NEW o, OpOK(o, mode, made, alive)
  PROVE  OpOK(o, mode, made', alive')
<1>1. made' \in Nat /\ made <= made' /\ o.sid \in Nat /\ o.shared \in Nat
      /\ o.sid <= made /\ o.shared <= made
  BY DEF Grows, Count, OpOK, Operations
<1>2. o.sid <= made' /\ o.shared <= made'  BY <1>1
<1>3. o.sid \in alive' => o.sid \in alive  BY <1>1 DEF Grows
<1> QED  BY <1>2, <1>3 DEF OpOK

LEMMA RecStaysOK ==
  ASSUME Grows, made \in Nat, NEW k, NEW r, RecOK(k, r, mode, made, alive, forgotten)
  PROVE  RecOK(k, r, mode, made', alive', forgotten')
<1>1. made' \in Nat /\ made <= made' /\ r.sid \in Nat /\ r.sid <= made
  BY DEF Grows, Count, RecOK, B!Recs
<1>2. r.sid <= made'  BY <1>1
<1>3. r.sid \in alive' => r.sid \in alive  BY <1>1 DEF Grows
<1>4. forgotten \subseteq forgotten'  BY DEF Grows
<1> QED  BY <1>2, <1>3, <1>4 DEF RecOK

LEMMA OpsStayOK ==
  ASSUME BrowserInv, Grows, OpsMove
  PROVE  OpsOK(ops', mode', made', alive')
<1>1. made \in Nat /\ mode' = mode  BY DEF BrowserInv, Count, Grows
<1>2. ops \in [Ops -> Operations] /\ \A o \in Ops : OpOK(ops[o], mode, made', alive')
  BY <1>1, OpStaysOK DEF BrowserInv, OpsOK
<1>3. CASE ops' = ops  BY <1>1, <1>2, <1>3 DEF OpsOK
<1>4. ASSUME NEW o \in Ops, NEW r \in Operations, OpMoves(o, r)
      PROVE  OpsOK(ops', mode', made', alive')
  <2>1. ops' = [ops EXCEPT ![o] = r] /\ OpOK(r, mode, made', alive')  BY <1>4 DEF OpMoves
  <2>2. ops' \in [Ops -> Operations]  BY <1>2, <2>1
  <2>3. \A p \in Ops : ops'[p] = IF p = o THEN r ELSE ops[p]  BY <1>2, <2>1
  <2>4. \A p \in Ops : OpOK(ops'[p], mode, made', alive')  BY <1>2, <2>1, <2>3
  <2> QED  BY <1>1, <2>2, <2>4 DEF OpsOK
<1> QED  BY <1>3, <1>4 DEF OpsMove

LEMMA StoreStaysOK ==
  ASSUME BrowserInv, Grows, StoreMoves
  PROVE  StoreOK(store', mode', made', alive', forgotten')
<1>1. made \in Nat /\ mode' = mode  BY DEF BrowserInv, Count, Grows
<1>2. /\ store \in [B!Keys -> B!Recs \union {NoRec}]
      /\ \A k \in B!Keys : store[k] # NoRec => RecOK(k, store[k], mode, made', alive', forgotten')
  BY <1>1, RecStaysOK DEF BrowserInv, StoreOK
<1>3. CASE store' = store  BY <1>1, <1>2, <1>3 DEF StoreOK
<1>4. ASSUME NEW k \in B!Keys, NEW r \in B!Recs \union {NoRec}, store' = [store EXCEPT ![k] = r],
             r = NoRec \/ RecOK(k, r, mode, made', alive', forgotten')
      PROVE  StoreOK(store', mode', made', alive', forgotten')
  <2>1. store' \in [B!Keys -> B!Recs \union {NoRec}]  BY <1>2, <1>4
  <2>2. \A j \in B!Keys : store'[j] = IF j = k THEN r ELSE store[j]  BY <1>2, <1>4
  <2>3. \A j \in B!Keys : store'[j] # NoRec => RecOK(j, store'[j], mode, made', alive', forgotten')
    BY <1>2, <1>4, <2>2
  <2> QED  BY <1>1, <2>1, <2>3 DEF StoreOK
<1>5. ASSUME NEW k \in B!Keys, Resets(k)
      PROVE  StoreOK(store', mode', made', alive', forgotten')
  <2> DEFINE r == B!Marked(store[Reuse])
  <2>1. store[Reuse] \in B!Recs /\ RecOK(Reuse, store[Reuse], mode, made, alive, forgotten)
    BY <1>5, RecFacts, KeysAre DEF Resets
  <2>2. MarkedOK(Reuse, store[Reuse], r)  BY <2>1, MarkedIsOK DEF Resets
  <2>3. /\ k \in B!Keys /\ k # Reuse /\ store' = [store EXCEPT ![Reuse] = r, ![k] = NoRec]
        /\ UNCHANGED <<made, alive, forgotten>>
    BY <1>5 DEF Resets
  <2>4. r \in B!Recs /\ RecOK(Reuse, r, mode, made', alive', forgotten')
    BY <1>5, <2>1, <2>2, <2>3 DEF MarkedOK, Resets
  <2> HIDE DEF r
  <2>5. \A j \in B!Keys : store'[j] = IF j = k THEN NoRec ELSE IF j = Reuse THEN r ELSE store[j]
    BY <1>2, <2>3, KeysAre
  <2>6. store' \in [B!Keys -> B!Recs \union {NoRec}]  BY <1>2, <2>3, <2>4, KeysAre
  <2>7. \A j \in B!Keys : store'[j] # NoRec => RecOK(j, store'[j], mode, made', alive', forgotten')
    BY <1>2, <2>4, <2>5
  <2> QED  BY <1>1, <2>6, <2>7 DEF StoreOK
<1> QED  BY <1>3, <1>4, <1>5 DEF StoreMoves, Drops, Writes

\* Records that were there are there, unless their browser is gone or forgotten.
LEMMA RecordsStay ==
  ASSUME BrowserInv, StoreMoves, NEW sid \in alive' \ forgotten', Recorded(store, sid)
  PROVE  Recorded(store', sid)
<1>1. PICK k \in B!Keys : store[k] # NoRec /\ store[k].sid = sid  BY DEF Recorded
<1>2. store \in [B!Keys -> B!Recs \union {NoRec}]  BY DEF BrowserInv, StoreOK
<1>3. CASE store' = store  BY <1>3 DEF Recorded
<1>4. ASSUME NEW j \in B!Keys, Drops(j)
      PROVE  Recorded(store', sid)
  <2>1. \A i \in B!Keys : i # j => store'[i] = store[i]  BY <1>2, <1>4 DEF Drops
  <2>2. CASE k # j  BY <1>1, <2>1, <2>2 DEF Recorded
  <2>3. CASE k = j
    <3>1. PICK i \in B!Keys \ {k} : store[i] # NoRec /\ store[i].sid = sid
      BY <1>1, <1>4, <2>3 DEF Drops
    <3> QED  BY <2>1, <2>3, <3>1 DEF Recorded
  <2> QED  BY <2>2, <2>3
<1>5. ASSUME NEW j \in B!Keys, NEW r \in B!Recs, Writes(j, r)
      PROVE  Recorded(store', sid)
  <2>1. \A i \in B!Keys : store'[i] = IF i = j THEN r ELSE store[i]  BY <1>2, <1>5 DEF Writes
  <2>2. CASE k # j  BY <1>1, <2>1, <2>2 DEF Recorded
  <2>3. CASE k = j
    <3>1. r.sid = sid  BY <1>1, <1>5, <2>3 DEF Writes
    <3>2. r # NoRec  BY MCClientsAssumption DEF B!BrowserAssumption
    <3> QED  BY <2>1, <2>3, <3>1, <3>2 DEF Recorded
  <2> QED  BY <2>2, <2>3
<1>6. ASSUME NEW j \in B!Keys, Resets(j)
      PROVE  Recorded(store', sid)
  <2> DEFINE r == B!Marked(store[Reuse])
  <2>1. store[Reuse] \in B!Recs  BY <1>2, <1>6, KeysAre DEF Resets
  <2>2. r.sid = store[Reuse].sid /\ r # NoRec  BY <2>1, KeysAre DEF B!Marked, B!Recs
  <2>3. j # Reuse /\ store' = [store EXCEPT ![Reuse] = r, ![j] = NoRec] /\ store[j].sid = store[Reuse].sid
    BY <1>6 DEF Resets
  <2> HIDE DEF r
  <2>4. \A i \in B!Keys : store'[i] = IF i = j THEN NoRec ELSE IF i = Reuse THEN r ELSE store[i]
    BY <1>2, <2>3, KeysAre
  <2>5. CASE k \in {j, Reuse}
    <3>1. store'[Reuse] = r /\ r.sid = sid  BY <1>1, <2>2, <2>3, <2>4, <2>5, KeysAre
    <3> QED  BY <2>2, <3>1, KeysAre DEF Recorded
  <2>6. CASE k \notin {j, Reuse}  BY <1>1, <2>4, <2>6 DEF Recorded
  <2> QED  BY <2>5, <2>6
<1> QED  BY <1>3, <1>4, <1>5, <1>6 DEF StoreMoves

LEMMA BrowsersStayOwned ==
  ASSUME BrowserInv, BrowserStep
  PROVE  Owned(store', ops', alive', forgotten')
<1> SUFFICES ASSUME NEW sid \in alive' \ forgotten'
             PROVE  \/ Recorded(store', sid)
                    \/ \E o \in Ops : ops'[o].pc \in Unrecorded /\ ops'[o].sid = sid
  BY DEF Owned
<1>1. CASE sid \notin alive  BY <1>1 DEF BrowserStep, Appears
<1>2. CASE Recorded(store, sid)  BY <1>2, RecordsStay DEF BrowserStep
<1>3. ASSUME NEW o \in Ops, ops[o].pc \in Unrecorded, ops[o].sid = sid
      PROVE  \/ Recorded(store', sid)
             \/ \E p \in Ops : ops'[p].pc \in Unrecorded /\ ops'[p].sid = sid
  <2>1. CASE ops' = ops  BY <1>3, <2>1
  <2>2. ASSUME NEW p \in Ops, NEW r \in Operations, OpMoves(p, r)
        PROVE  \/ Recorded(store', sid)
               \/ \E q \in Ops : ops'[q].pc \in Unrecorded /\ ops'[q].sid = sid
    <3>1. \A q \in Ops : ops'[q] = IF q = p THEN r ELSE ops[q]
      BY <2>2 DEF OpMoves, BrowserInv, OpsOK
    <3>2. CASE o # p  BY <1>3, <3>1, <3>2
    <3>3. CASE o = p  BY <1>3, <2>2, <3>1, <3>3 DEF OpMoves
    <3> QED  BY <3>2, <3>3
  <2> QED  BY <2>1, <2>2 DEF BrowserStep, OpsMove
<1> QED
  <2>1. sid \in alive => Recorded(store, sid) \/ \E o \in Ops : ops[o].pc \in Unrecorded /\ ops[o].sid = sid
    BY DEF BrowserInv, Owned, BrowserStep, Grows
  <2> QED  BY <1>1, <1>2, <1>3, <2>1

LEMMA BrowserInvStays ==
  ASSUME BrowserInv, BrowserStep
  PROVE  BrowserInv'
BY OpsStayOK, StoreStaysOK, BrowsersStayOwned DEF BrowserInv, BrowserStep, Grows

\* The shared record stays, or is of the same browser, or goes as it may.
LEMMA SharedStays ==
  ASSUME BrowserInv, StoreMoves, store[Reuse] # NoRec, store'[Reuse] # store[Reuse]
  PROVE  IF store'[Reuse] # NoRec THEN store'[Reuse].sid = store[Reuse].sid
         ELSE store[Reuse].pending \/ store[Reuse].sid \notin alive
<1>1. store \in [B!Keys -> B!Recs \union {NoRec}] /\ Reuse \in B!Keys
  BY DEF BrowserInv, StoreOK, B!Keys
<1>2. ASSUME NEW k \in B!Keys, Drops(k)
      PROVE  store'[Reuse] = NoRec /\ (store[Reuse].pending \/ store[Reuse].sid \notin alive)
  <2>1. k = Reuse /\ store'[Reuse] = NoRec  BY <1>1, <1>2 DEF Drops
  <2> QED  BY <1>2, <2>1 DEF Drops
<1>3. ASSUME NEW k \in B!Keys, NEW r \in B!Recs, Writes(k, r)
      PROVE  store'[Reuse] # NoRec /\ store'[Reuse].sid = store[Reuse].sid
  <2>1. k = Reuse /\ store'[Reuse] = r  BY <1>1, <1>3 DEF Writes
  <2>2. r # NoRec  BY MCClientsAssumption DEF B!BrowserAssumption
  <2> QED  BY <1>3, <2>1, <2>2 DEF Writes
<1>4. ASSUME NEW k \in B!Keys, Resets(k)
      PROVE  store'[Reuse] # NoRec /\ store'[Reuse].sid = store[Reuse].sid
  <2> DEFINE r == B!Marked(store[Reuse])
  <2>1. store[Reuse] \in B!Recs  BY <1>1
  <2>2. r.sid = store[Reuse].sid /\ r # NoRec  BY <2>1, KeysAre DEF B!Marked, B!Recs
  <2>3. k # Reuse /\ store' = [store EXCEPT ![Reuse] = r, ![k] = NoRec]  BY <1>4 DEF Resets
  <2> HIDE DEF r
  <2>4. store'[Reuse] = r  BY <1>1, <2>3
  <2> QED  BY <2>2, <2>4
<1> QED  BY <1>2, <1>3, <1>4 DEF StoreMoves

-----------------------------------------------------------------------------
(* Every operation is such a step.                                         *)

LEMMA OpFacts ==
  ASSUME BrowserInv, NEW o \in Ops
  PROVE  /\ OpOK(ops[o], mode, made, alive) /\ ops[o] \in Operations
         /\ ops \in [Ops -> Operations] /\ Count(mode, made, alive) /\ made \in Nat
BY DEF BrowserInv, OpsOK, OpOK, Count

\* The provers find the words below in their sets only when told.
LEMMA ThensAre ==
  /\ "done" \in Thens /\ "ensure" \in Thens /\ "won" \in Thens /\ "createOwn" \in Thens
  /\ "promote" \in Thens
BY DEF Thens

LEMMA PcsAre ==
  /\ "idle" \in Pcs /\ "retry" \in Pcs /\ "delete" \in Pcs /\ "finish" \in Pcs
  /\ "drop" \in Pcs /\ "ensure" \in Pcs /\ "probe" \in Pcs /\ "settle" \in Pcs
  /\ "create" \in Pcs /\ "commit" \in Pcs /\ "queue" \in Pcs /\ "won" \in Pcs
  /\ "connect" \in Pcs /\ "marker" \in Pcs /\ "resolve" \in Pcs /\ "probeExec" \in Pcs
  /\ "own" \in Pcs /\ "shared" \in Pcs /\ "probeShared" \in Pcs /\ "joins" \in Pcs
  /\ "createOwn" \in Pcs /\ "promote" \in Pcs /\ "probePromoted" \in Pcs /\ "promoteShared" \in Pcs
  /\ "probeOther" \in Pcs /\ "promoteLocked" \in Pcs /\ "ask" \in Pcs /\ "probeInfo" \in Pcs
  /\ "info" \in Pcs
BY DEF Pcs, Thens, OfExec, Sided

LEMMA PurposesAre ==
  /\ "none" \in Purposes /\ "send" \in Purposes /\ "start" \in Purposes /\ "info" \in Purposes
  /\ "reset" \in Purposes /\ "close" \in Purposes /\ "dispose" \in Purposes /\ "sweep" \in Purposes
BY DEF Purposes

LEMMA IdleOK == ASSUME NEW d, NEW m \in Nat, NEW A PROVE OpOK(B!NoOp, d, m, A)
<1>a. Reuse \in B!Keys /\ NoExec \in Execs \union {NoExec} /\ "done" \in Thens /\ "idle" \in Pcs /\ "none" \in Purposes
  BY KeysAre, ThensAre, PcsAre, PurposesAre
<1>1. B!NoOp \in Operations  BY <1>a DEF Operations, B!NoOp
<1>2. /\ B!NoOp.pc = "idle" /\ B!NoOp.then = "done" /\ B!NoOp.sid = 0 /\ B!NoOp.shared = 0
  BY DEF B!NoOp
<1> QED  BY <1>1, <1>2 DEF OpOK, OfExec, Sided

\* A step of operation o that neither makes nor forgets a browser.
LEMMA Steps ==
  ASSUME BrowserInv, NEW o \in Ops, NEW r, ops' = [ops EXCEPT ![o] = r], OpOK(r, mode, made, alive'),
         mode' = mode, made' = made, alive' \subseteq alive, forgotten \subseteq forgotten',
         StoreMoves,
         \/ ops[o].pc \notin Unrecorded
         \/ r.pc \in Unrecorded /\ r.sid = ops[o].sid
         \/ Recorded(store', ops[o].sid)
  PROVE  BrowserStep
<1>1. r \in Operations  BY DEF OpOK
<1>2. Grows  BY DEF Grows, BrowserInv, Count
<1>3. OpsMove  BY <1>1 DEF OpsMove, OpMoves
<1>4. Appears  BY DEF Appears
<1> QED  BY <1>2, <1>3, <1>4 DEF BrowserStep

LEMMA OpGoes ==
  ASSUME BrowserInv, NEW o \in Ops, NEW r, ops' = [ops EXCEPT ![o] = r], OpOK(r, mode, made, alive),
         ops[o].pc \notin Unrecorded, mode' = mode, made' = made, alive' = alive,
         forgotten' = forgotten, StoreMoves
  PROVE  BrowserStep
BY Steps

LEMMA EnsuresSteps ==
  ASSUME BrowserInv, NEW o \in Ops, B!Ensures(o)
  PROVE  BrowserStep
<1>1. /\ OpOK(ops[o], mode, made, alive) /\ ops[o].pc = "ensure" /\ mode # "kitesurf"
      /\ ops[o] \in Operations
  BY OpFacts DEF B!Ensures, B!Is, OpOK
<1>2. StoreMoves /\ UNCHANGED <<mode, made, alive, forgotten>>  BY DEF B!Ensures, StoreMoves
<1>3. CASE store[Reuse] = NoRec
  <2> DEFINE r == [ops[o] EXCEPT !.pc = "create", !.key = Reuse]
  <2>1. ops' = [ops EXCEPT ![o] = r]  BY <1>3 DEF B!Ensures, B!Goes
  <2>a. r \in Operations  BY <1>1, KeysAre, ThensAre, PcsAre DEF Operations
  <2>2. OpOK(r, mode, made, alive)  BY <1>1, <2>a, KeysAre DEF OpOK, Operations, Sided, OfExec
  <2> QED  BY <1>1, <1>2, <2>1, <2>2, OpGoes DEF Unrecorded
<1>4. CASE store[Reuse] # NoRec /\ store[Reuse].pending
  <2> DEFINE r == [ops[o] EXCEPT !.pc = "retry", !.key = Reuse, !.then = "ensure", !.soft = FALSE]
  <2>1. ops' = [ops EXCEPT ![o] = r]  BY <1>4 DEF B!Ensures, B!Goes, B!Retry
  <2>a. r \in Operations  BY <1>1, KeysAre, ThensAre, PcsAre DEF Operations
  <2>2. OpOK(r, mode, made, alive)  BY <1>1, <2>a, KeysAre DEF OpOK, Operations, Sided, OfExec
  <2> QED  BY <1>1, <1>2, <2>1, <2>2, OpGoes DEF Unrecorded
<1>5. CASE store[Reuse] # NoRec /\ ~store[Reuse].pending
  <2> DEFINE r == [ops[o] EXCEPT !.pc = IF store[Reuse].closed THEN "drop" ELSE "probe",
                                 !.key = Reuse, !.sid = store[Reuse].sid, !.then = "ensure"]
  <2>1. ops' = [ops EXCEPT ![o] = r]  BY <1>5 DEF B!Ensures, B!Goes
  <2>2. store[Reuse] \in B!Recs /\ RecOK(Reuse, store[Reuse], mode, made, alive, forgotten)
    BY <1>5, KeysAre, RecFacts
  <2>3. store[Reuse].closed = FALSE /\ store[Reuse].sid \in Nat /\ store[Reuse].sid <= made
    <3>1. store[Reuse].closed \in BOOLEAN /\ store[Reuse].pending \in BOOLEAN /\ store[Reuse].sid \in Nat
      BY <2>2 DEF B!Recs
    <3>2. store[Reuse].closed = store[Reuse].pending /\ store[Reuse].sid <= made
      BY <2>2, KeysAre DEF RecOK
    <3> QED  BY <1>5, <3>1, <3>2
  <2>a. r \in Operations  BY <1>1, <2>3, KeysAre, ThensAre, PcsAre DEF Operations
  <2>4. OpOK(r, mode, made, alive)  BY <1>1, <2>a, <2>3, KeysAre DEF OpOK, Operations, Sided, OfExec
  <2> QED  BY <1>1, <1>2, <2>1, <2>4, OpGoes DEF Unrecorded
<1> QED  BY <1>3, <1>4, <1>5

LEMMA FieldsAre == \A o \in Operations : o.pc \in Pcs /\ o.then \in Thens /\ o.sid \in Nat
                                         /\ o.shared \in Nat /\ o.key \in B!Keys
BY DEF Operations

\* An operation that is over.
LEMMA OverSteps ==
  ASSUME BrowserInv, NEW o \in Ops, B!Over(o), mode' = mode, made' = made, alive' = alive,
         forgotten \subseteq forgotten', StoreMoves,
         ops[o].pc \notin Unrecorded \/ Recorded(store', ops[o].sid)
  PROVE  BrowserStep
<1>1. OpOK(B!NoOp, mode, made, alive)  BY IdleOK, OpFacts
<1>2. ops' = [ops EXCEPT ![o] = B!NoOp]  BY DEF B!Over
<1> QED  BY <1>1, <1>2, Steps

\* An operation that goes on where its deletion leads.
LEMMA ThenSteps ==
  ASSUME BrowserInv, NEW o \in Ops, B!To(o, ops[o].then), ops[o].pc \notin Unrecorded,
         mode' = mode, made' = made, alive' = alive, forgotten' = forgotten, StoreMoves
  PROVE  BrowserStep
<1>1. OpOK(ops[o], mode, made, alive) /\ ops[o] \in Operations  BY OpFacts
<1>2. CASE ops[o].then = "done"  BY <1>2, OverSteps DEF B!To
<1>3. CASE ops[o].then # "done"
  <2> DEFINE r == [ops[o] EXCEPT !.pc = ops[o].then]
  <2>1. ops' = [ops EXCEPT ![o] = r]  BY <1>3 DEF B!To, B!Goes
  <2>2. ops[o].then \in Pcs /\ ops[o].then \in {"ensure", "won", "createOwn", "promote"}
    BY <1>1, <1>3, FieldsAre DEF Thens, Pcs
  <2>3. r \in Operations  BY <1>1, <2>2 DEF Operations
  <2>4. /\ r.pc = ops[o].then /\ r.then = ops[o].then /\ r.sid = ops[o].sid /\ r.shared = ops[o].shared
        /\ r.exec = ops[o].exec
    BY <1>1 DEF Operations
  <2> HIDE DEF r
  <2>5. OpOK(r, mode, made, alive)  BY <1>1, <2>2, <2>3, <2>4 DEF OpOK, OfExec, Sided
  <2> QED  BY <2>1, <2>5, OpGoes
<1> QED  BY <1>2, <1>3

\* A record is written over by one of the same browser, or is the first.
LEMMA Rewrites ==
  ASSUME BrowserInv, NEW k \in B!Keys, NEW r, store' = [store EXCEPT ![k] = r],
         \/ r = store[k]
         \/ /\ RecOK(k, r, mode, made', alive', forgotten')
            /\ store[k] # NoRec => r.sid = store[k].sid
  PROVE  StoreMoves
<1>1. store \in [B!Keys -> B!Recs \union {NoRec}]  BY DEF BrowserInv, StoreOK
<1>2. CASE r = store[k]
  <2>1. store' = store  BY <1>1, <1>2
  <2> QED  BY <2>1 DEF StoreMoves
<1>3. CASE RecOK(k, r, mode, made', alive', forgotten') /\ (store[k] # NoRec => r.sid = store[k].sid)
  <2>1. r \in B!Recs /\ Writes(k, r)  BY <1>3 DEF RecOK, Writes
  <2> QED  BY <2>1 DEF StoreMoves
<1> QED  BY <1>2, <1>3

LEMMA RetryReadsSteps ==
  ASSUME BrowserInv, NEW o \in Ops, B!RetryReads(o)
  PROVE  BrowserStep
<1>1. /\ OpOK(ops[o], mode, made, alive) /\ ops[o].pc = "retry" /\ mode # "kitesurf"
      /\ ops[o] \in Operations /\ ops[o].key \in B!Keys
  BY OpFacts, FieldsAre DEF B!RetryReads, B!Is, OpOK
<1>2. StoreMoves /\ UNCHANGED <<mode, made, alive, forgotten>>  BY DEF B!RetryReads, StoreMoves
<1>3. CASE B!To(o, ops[o].then)  BY <1>1, <1>2, <1>3, ThenSteps DEF Unrecorded
<1>4. CASE ~B!To(o, ops[o].then)
  <2> DEFINE r == [ops[o] EXCEPT !.pc = "delete", !.sid = store[ops[o].key].sid]
  <2>1. store[ops[o].key] # NoRec /\ ops' = [ops EXCEPT ![o] = r]
    BY <1>4 DEF B!RetryReads, B!Goes
  <2>2. store[ops[o].key].sid \in Nat /\ store[ops[o].key].sid <= made
    BY <1>1, <2>1, RecFacts DEF RecOK, B!Recs
  <2>a. r \in Operations  BY <1>1, <2>2, PcsAre DEF Operations
  <2>3. OpOK(r, mode, made, alive)  BY <1>1, <2>a, <2>2 DEF OpOK, Operations, Sided, OfExec
  <2> QED  BY <1>1, <1>2, <2>1, <2>3, OpGoes DEF Unrecorded
<1> QED  BY <1>3, <1>4

LEMMA DeletedSteps ==
  ASSUME BrowserInv, NEW o \in Ops, B!Deleted(o)
  PROVE  BrowserStep
<1>1. /\ OpOK(ops[o], mode, made, alive) /\ ops[o].pc = "delete" /\ mode # "kitesurf"
      /\ ops[o] \in Operations
  BY OpFacts DEF B!Deleted, B!Is, OpOK
<1>2. StoreMoves /\ UNCHANGED <<mode, made, forgotten>> /\ alive' = alive \ {ops[o].sid}
  BY DEF B!Deleted, StoreMoves
<1> DEFINE r == [ops[o] EXCEPT !.pc = "finish"]
<1>3. ops' = [ops EXCEPT ![o] = r]  BY DEF B!Deleted, B!To, B!Goes
<1>4. r \in Operations  BY <1>1, PcsAre DEF Operations
<1>5. OpOK(r, mode, made, alive')  BY <1>1, <1>2, <1>4 DEF OpOK, Operations, Sided, OfExec
<1> QED  BY <1>1, <1>2, <1>3, <1>5, Steps DEF Unrecorded

LEMMA DeleteFailsSteps ==
  ASSUME BrowserInv, NEW o \in Ops, B!DeleteFails(o)
  PROVE  BrowserStep
<1>1. ops[o].pc = "delete" /\ ops[o].pc \notin Unrecorded  BY DEF B!DeleteFails, B!Is, Unrecorded
<1>2. StoreMoves /\ UNCHANGED <<mode, made, alive, forgotten>>  BY DEF B!DeleteFails, StoreMoves
<1>3. B!To(o, ops[o].then) \/ B!Over(o)  BY DEF B!DeleteFails
<1> QED  BY <1>1, <1>2, <1>3, ThenSteps, OverSteps

LEMMA FinishesSteps ==
  ASSUME BrowserInv, NEW o \in Ops, B!Finishes(o)
  PROVE  BrowserStep
<1>1. /\ OpOK(ops[o], mode, made, alive) /\ ops[o].pc = "finish" /\ ops[o].key \in B!Keys
      /\ ops[o].sid \notin alive /\ ops[o].pc \notin Unrecorded
  BY OpFacts, FieldsAre DEF B!Finishes, B!Is, OpOK, Unrecorded
<1>2. UNCHANGED <<mode, made, alive, forgotten>> /\ B!To(o, ops[o].then)  BY DEF B!Finishes
<1>3. StoreMoves
  <2> DEFINE k == ops[o].key
  <2>1. store' = [store EXCEPT ![k] = B!Finished(k, ops[o].sid)]  BY DEF B!Finishes, B!Put
  <2>2. CASE B!Finished(k, ops[o].sid) = store[k]  BY <1>1, <2>1, <2>2, Rewrites
  <2>3. CASE B!Finished(k, ops[o].sid) # store[k]
    <3>1. store[k] # NoRec /\ store[k].sid = ops[o].sid /\ store[k].pending
      BY <2>3 DEF B!Finished
    <3>2. store[k] \in B!Recs /\ RecOK(k, store[k], mode, made, alive, forgotten)
      BY <1>1, <3>1, RecFacts
    <3>a. store[k].pending \in BOOLEAN /\ store[k].cleanup \in BOOLEAN  BY <3>2 DEF B!Recs
    <3>3. CASE store[k].cleanup
      <4>1. store' = [store EXCEPT ![k] = NoRec] /\ store[k].sid \notin alive'
        BY <1>1, <1>2, <2>1, <3>1, <3>3 DEF B!Finished
      <4>2. store[k].pending = TRUE  BY <3>1, <3>a
      <4> QED  BY <1>1, <3>1, <4>1, <4>2 DEF StoreMoves, Drops
    <3>4. CASE ~store[k].cleanup
      <4> DEFINE r == [store[k] EXCEPT !.pending = FALSE, !.cleanup = FALSE]
      <4>1. B!Finished(k, ops[o].sid) = r  BY <3>1, <3>4 DEF B!Finished
      <4>2. k \in Execs  BY <3>1, <3>2, <3>4, <3>a DEF RecOK
      <4>3. r \in B!Recs /\ r.sid = store[k].sid  BY <3>2 DEF B!Recs
      <4>4. mode # "kitesurf"  BY <3>1, <3>2, <3>a DEF RecOK
      <4> HIDE DEF r
      <4>5. RecOK(k, r, mode, made, alive, forgotten)
        BY <1>1, <3>1, <3>2, <4>2, <4>3, <4>4, KeysAre DEF RecOK
      <4> QED  BY <1>1, <1>2, <2>1, <4>1, <4>3, <4>5, Rewrites
    <3> QED  BY <3>3, <3>4
  <2> QED  BY <2>2, <2>3
<1> QED  BY <1>1, <1>2, <1>3, ThenSteps

LEMMA DropsRecordSteps ==
  ASSUME BrowserInv, NEW o \in Ops, B!DropsRecord(o)
  PROVE  BrowserStep
<1>1. /\ ops[o].pc = "drop" /\ ops[o].key \in B!Keys
      /\ ops[o].sid \notin alive /\ ops[o].pc \notin Unrecorded
  BY OpFacts, FieldsAre DEF B!DropsRecord, B!Is, OpOK, Unrecorded
<1>2. UNCHANGED <<mode, made, alive, forgotten>> /\ B!To(o, ops[o].then)  BY DEF B!DropsRecord
<1>3. StoreMoves
  BY <1>1, <1>2 DEF B!DropsRecord, B!Put, StoreMoves, Drops
<1> QED  BY <1>1, <1>2, <1>3, ThenSteps

\* An operation that found a session.
LEMMA HasSteps ==
  ASSUME BrowserInv, NEW o \in Ops, NEW sid \in Nat, sid <= made, B!Has(o, sid), mode # "kitesurf",
         mode' = mode, made' = made, alive' = alive, forgotten' = forgotten, StoreMoves,
         ops[o].pc \notin Unrecorded \/ Recorded(store', ops[o].sid)
  PROVE  BrowserStep
<1>1. CASE B!Over(o)  BY <1>1, OverSteps
<1>2. CASE ~B!Over(o)
  <2> DEFINE r == [ops[o] EXCEPT !.pc = "connect", !.sid = sid]
  <2>1. ops' = [ops EXCEPT ![o] = r]  BY <1>2 DEF B!Has, B!Goes
  <2>2. OpOK(ops[o], mode, made, alive) /\ ops[o] \in Operations  BY OpFacts
  <2>3. r \in Operations  BY <2>2, PcsAre DEF Operations
  <2>4. OpOK(r, mode, made, alive)  BY <2>2, <2>3 DEF OpOK, Operations, Sided, OfExec
  <2> QED  BY <2>1, <2>4, Steps
<1> QED  BY <1>1, <1>2

\* An operation that asks for a browser's deletion.
LEMMA RetrySteps ==
  ASSUME BrowserInv, NEW o \in Ops, NEW key \in B!Keys, NEW then \in Thens, NEW soft \in BOOLEAN,
         B!Retry(o, key, then, soft), then \in {"createOwn", "promote"} => ops[o].exec \in Execs,
         mode # "kitesurf", mode' = mode, made' = made, alive' = alive, forgotten' = forgotten,
         StoreMoves, ops[o].pc \notin Unrecorded \/ Recorded(store', ops[o].sid)
  PROVE  BrowserStep
<1> DEFINE r == [ops[o] EXCEPT !.pc = "retry", !.key = key, !.then = then, !.soft = soft]
<1>1. ops' = [ops EXCEPT ![o] = r]  BY DEF B!Retry, B!Goes
<1>2. OpOK(ops[o], mode, made, alive) /\ ops[o] \in Operations  BY OpFacts
<1>3. r \in Operations  BY <1>2, PcsAre DEF Operations
<1>4. OpOK(r, mode, made, alive)  BY <1>2, <1>3 DEF OpOK, Operations, Sided, OfExec
<1> QED  BY <1>1, <1>4, Steps

\* A record is touched, or its mark for deletion is taken back.
LEMMA TouchedMoves ==
  ASSUME BrowserInv, NEW k \in B!Keys, NEW sid, store' = B!Touched(k, sid),
         UNCHANGED <<mode, made, alive, forgotten>>
  PROVE  StoreMoves
<1>1. CASE store[k] # NoRec /\ store[k].sid = sid
  <2> DEFINE r == [store[k] EXCEPT !.old = FALSE]
  <2>1. store' = [store EXCEPT ![k] = r]
    <3>1. store' = [store EXCEPT ![k].old = FALSE]  BY <1>1 DEF B!Touched
    <3> QED  BY <3>1
  <2>2. store[k] \in B!Recs /\ RecOK(k, store[k], mode, made, alive, forgotten)  BY <1>1, RecFacts
  <2>3. /\ r \in B!Recs /\ r.sid = store[k].sid /\ r.closed = store[k].closed
        /\ r.pending = store[k].pending /\ r.cleanup = store[k].cleanup
    BY <2>2 DEF B!Recs
  <2> HIDE DEF r
  <2>4. RecOK(k, r, mode, made, alive, forgotten)  BY <2>2, <2>3 DEF RecOK
  <2> QED  BY <2>1, <2>3, <2>4, Rewrites
<1>2. CASE ~(store[k] # NoRec /\ store[k].sid = sid)
  BY <1>2 DEF B!Touched, StoreMoves
<1> QED  BY <1>1, <1>2

LEMMA TombstoneMoves ==
  ASSUME BrowserInv, NEW k \in Execs, NEW sid, B!Tombstone(k, sid), UNCHANGED <<mode, made, alive>>
  PROVE  StoreMoves /\ forgotten \subseteq forgotten'
<1> k \in B!Keys  BY KeysAre
<1>1. CASE store[k] # NoRec /\ store[k].sid = sid
  <2> DEFINE r == [store[k] EXCEPT !.closed = TRUE, !.pending = FALSE, !.cleanup = FALSE]
  <2>1. /\ store' = [store EXCEPT ![k] = r]
        /\ forgotten' = IF sid \in alive THEN forgotten \union {sid} ELSE forgotten
    BY <1>1 DEF B!Tombstone, B!Put
  <2>2. store[k] \in B!Recs /\ RecOK(k, store[k], mode, made, alive, forgotten)  BY <1>1, RecFacts
  <2>3. r \in B!Recs /\ r.sid = sid /\ r.pending = FALSE  BY <1>1, <2>2 DEF B!Recs
  <2> HIDE DEF r
  <2>4. r.sid \notin alive \/ r.sid \in forgotten'  BY <2>1, <2>3
  <2>5. RecOK(k, r, mode, made, alive, forgotten')  BY <1>1, <2>2, <2>3, <2>4, KeysAre DEF RecOK
  <2>6. forgotten \subseteq forgotten'  BY <2>1
  <2>7. StoreMoves  BY <1>1, <2>1, <2>3, <2>5, Rewrites
  <2> QED  BY <2>6, <2>7
<1>2. CASE ~(store[k] # NoRec /\ store[k].sid = sid)
  BY <1>2 DEF B!Tombstone, StoreMoves
<1> QED  BY <1>1, <1>2

LEMMA ProbedSteps ==
  ASSUME BrowserInv, NEW o \in Ops, B!Probed(o)
  PROVE  BrowserStep
<1>1. /\ OpOK(ops[o], mode, made, alive) /\ mode # "kitesurf" /\ ops[o] \in Operations
      /\ ops[o].pc \in {"probe", "probeExec", "probeShared", "probePromoted", "probeOther", "probeInfo"}
  BY OpFacts DEF B!Probed, OpOK
<1>2. StoreMoves /\ UNCHANGED <<mode, made, alive, forgotten>>  BY DEF B!Probed, StoreMoves
<1>3. PICK u \in BOOLEAN : u = (ops[o].sid \in alive)
  <2>1. (ops[o].sid \in alive) \in BOOLEAN  OBVIOUS
  <2> QED  BY <2>1, Zenon
<1> DEFINE next == CASE ops[o].pc = "probe" -> "settle"
                     [] ops[o].pc = "probeExec" -> "own"
                     [] ops[o].pc = "probeShared" -> "joins"
                     [] ops[o].pc = "probePromoted" -> "promoteShared"
                     [] ops[o].pc = "probeOther" -> "promoteLocked"
                     [] ops[o].pc = "probeInfo" -> "info"
           r == [ops[o] EXCEPT !.up = u, !.pc = next]
<1>4. ops' = [ops EXCEPT ![o] = r]  BY <1>3 DEF B!Probed, B!Goes
<1>5. /\ next \in {"settle", "own", "joins", "promoteShared", "promoteLocked", "info"}
      /\ next \in OfExec => ops[o].pc \in OfExec
      /\ next \in Sided => ops[o].pc \in Sided
  BY <1>1 DEF OfExec, Sided
<1>6. next \in Pcs  BY <1>5, PcsAre
<1> HIDE DEF next
<1>7. r \in Operations  BY <1>1, <1>6 DEF Operations
<1>8. /\ r.pc = next /\ r.up = u /\ r.then = ops[o].then /\ r.sid = ops[o].sid
      /\ r.shared = ops[o].shared /\ r.exec = ops[o].exec
  BY <1>1 DEF Operations
<1> HIDE DEF r
<1>9. OpOK(r, mode, made, alive)  BY <1>1, <1>3, <1>5, <1>7, <1>8 DEF OpOK
<1> QED  BY <1>1, <1>2, <1>4, <1>9, OpGoes DEF Unrecorded

LEMMA OpFailsSteps ==
  ASSUME BrowserInv, NEW o \in Ops, B!OpFails(o)
  PROVE  BrowserStep
<1>1. /\ OpOK(ops[o], mode, made, alive) /\ ops[o] \in Operations /\ ops[o].pc \notin Unrecorded
      /\ Count(mode, made, alive) /\ made \in Nat
  BY OpFacts DEF B!OpFails, Unrecorded
<1>2. StoreMoves /\ UNCHANGED <<mode, made, alive, forgotten>>  BY DEF B!OpFails, StoreMoves
<1>3. CASE B!Over(o)  BY <1>1, <1>2, <1>3, OverSteps
<1>4. CASE ~B!Over(o)
  <2> DEFINE r == [ops[o] EXCEPT !.pc = "drop", !.then = "done"]
  <2>1. mode = "kitesurf" /\ ops' = [ops EXCEPT ![o] = r]  BY <1>4 DEF B!OpFails, B!Goes
  <2>2. alive = {}  BY <1>1, <2>1 DEF Count
  <2>3. r \in Operations  BY <1>1, ThensAre, PcsAre DEF Operations
  <2>4. OpOK(r, mode, made, alive)  BY <1>1, <2>1, <2>2, <2>3 DEF OpOK, Operations, Sided, OfExec
  <2> QED  BY <1>1, <1>2, <2>1, <2>4, OpGoes
<1> QED  BY <1>3, <1>4

LEMMA SettlesSteps ==
  ASSUME BrowserInv, NEW o \in Ops, B!Settles(o)
  PROVE  BrowserStep
<1>1. /\ OpOK(ops[o], mode, made, alive) /\ ops[o].pc = "settle" /\ mode # "kitesurf"
      /\ ops[o] \in Operations /\ ops[o].pc \notin Unrecorded /\ ops[o].up \in BOOLEAN
  BY OpFacts DEF B!Settles, B!Is, OpOK, Unrecorded, Operations
<1>2. UNCHANGED <<mode, made, alive, forgotten>> /\ Reuse \in B!Keys  BY KeysAre DEF B!Settles
<1>3. ASSUME B!To(o, "ensure"), StoreMoves  PROVE BrowserStep
  <2> DEFINE r == [ops[o] EXCEPT !.pc = "ensure"]
  <2>1. ops' = [ops EXCEPT ![o] = r]  BY <1>3 DEF B!To, B!Goes
  <2>2. r \in Operations  BY <1>1, PcsAre DEF Operations
  <2>3. OpOK(r, mode, made, alive)  BY <1>1, <2>2 DEF OpOK, Operations, Sided, OfExec
  <2> QED  BY <1>1, <1>2, <1>3, <2>1, <2>3, OpGoes
<1>4. CASE store[Reuse] = NoRec \/ store[Reuse].sid # ops[o].sid
  <2>1. B!To(o, "ensure") /\ store' = store  BY <1>4 DEF B!Settles
  <2> QED  BY <1>3, <2>1 DEF StoreMoves
<1>5. CASE store[Reuse] # NoRec /\ store[Reuse].sid = ops[o].sid /\ ops[o].up
  <2>1. /\ store' = [store EXCEPT ![Reuse] = [store[Reuse] EXCEPT !.old = FALSE]]
        /\ B!Has(o, store[Reuse].sid)
    BY <1>5 DEF B!Settles, B!Put
  <2>2. store' = B!Touched(Reuse, ops[o].sid)  BY <1>5, <2>1 DEF B!Touched
  <2>3. StoreMoves  BY <1>2, <2>2, TouchedMoves
  <2>4. store[Reuse].sid \in Nat /\ store[Reuse].sid <= made
    BY <1>2, <1>5, RecFacts DEF RecOK, B!Recs
  <2> QED  BY <1>1, <1>2, <2>1, <2>3, <2>4, HasSteps
<1>6. CASE store[Reuse] # NoRec /\ store[Reuse].sid = ops[o].sid /\ ~ops[o].up
  <2>1. store' = [store EXCEPT ![Reuse] = NoRec] /\ B!To(o, "ensure")  BY <1>6 DEF B!Settles, B!Put
  <2>2. ops[o].sid \notin alive  BY <1>1, <1>6 DEF OpOK
  <2>3. StoreMoves  BY <1>2, <1>6, <2>1, <2>2 DEF StoreMoves, Drops
  <2> QED  BY <1>3, <2>1, <2>3
<1> QED  BY <1>4, <1>5, <1>6

LEMMA CreatesSteps ==
  ASSUME BrowserInv, NEW o \in Ops, B!Creates(o)
  PROVE  BrowserStep
<1>1. /\ OpOK(ops[o], mode, made, alive) /\ ops[o].pc = "create" /\ mode # "kitesurf"
      /\ ops[o] \in Operations /\ Count(mode, made, alive) /\ made \in Nat
      /\ ops \in [Ops -> Operations]
  BY OpFacts DEF B!Creates, B!Is, OpOK
<1>2. /\ made < MaxSids /\ made' = made + 1 /\ alive' = alive \union {made + 1}
      /\ UNCHANGED <<mode, store, forgotten>>
  BY DEF B!Creates
<1> DEFINE r == [ops[o] EXCEPT !.pc = "commit", !.sid = made + 1]
<1>3. ops' = [ops EXCEPT ![o] = r]  BY DEF B!Creates, B!Goes
<1>4. made' \in 0..MaxSids /\ alive' \subseteq 1..made'
  BY <1>1, <1>2, KeysAre DEF Count
<1>5. Grows
  <2>1. \A sid \in alive' : sid \in alive \/ sid > made  BY <1>1, <1>2
  <2>2. made <= made'  BY <1>1, <1>2
  <2> QED  BY <1>1, <1>2, <1>4, <2>1, <2>2 DEF Grows, Count
<1>6. r \in Operations
  <2>1. made + 1 \in Nat  BY <1>1
  <2> QED  BY <1>1, <2>1, PcsAre DEF Operations
<1>7. /\ r.pc = "commit" /\ r.sid = made' /\ r.key = ops[o].key /\ r.then = ops[o].then
      /\ r.exec = ops[o].exec /\ r.shared = ops[o].shared
  BY <1>1, <1>2 DEF Operations
<1> HIDE DEF r
<1>8. OpOK(r, mode, made', alive')
  <2>1. r.sid <= made' /\ r.shared <= made' /\ r.sid # 0
    <3>1. ops[o].shared \in Nat /\ ops[o].shared <= made  BY <1>1 DEF OpOK, Operations
    <3> QED  BY <1>1, <1>2, <1>7, <3>1
  <2> QED  BY <1>1, <1>6, <1>7, <2>1 DEF OpOK, OfExec, Sided
<1>9. ops[o].pc \notin Unrecorded /\ r.pc \in Unrecorded  BY <1>1, <1>7 DEF Unrecorded
<1>10. OpsMove  BY <1>3, <1>6, <1>8, <1>9 DEF OpsMove, OpMoves
<1>11. Appears
  <2>1. ops'[o] = r  BY <1>1, <1>3
  <2>2. \A sid \in alive' \ alive : sid = made'  BY <1>2
  <2> QED  BY <1>7, <1>9, <2>1, <2>2 DEF Appears
<1>12. StoreMoves  BY <1>2 DEF StoreMoves
<1> QED  BY <1>5, <1>10, <1>11, <1>12 DEF BrowserStep

LEMMA CommitsSteps ==
  ASSUME BrowserInv, NEW o \in Ops, B!Commits(o)
  PROVE  BrowserStep
<1>1. /\ OpOK(ops[o], mode, made, alive) /\ ops[o].pc = "commit" /\ mode # "kitesurf"
      /\ ops[o] \in Operations /\ ops[o].key \in B!Keys /\ ops[o].key \in Execs \union {Reuse}
      /\ ops[o].sid \in Nat /\ ops[o].sid <= made /\ ops[o].sid # 0
  BY OpFacts, FieldsAre DEF B!Commits, B!Is, OpOK, Sided
<1>2. UNCHANGED <<mode, made, alive, forgotten>>  BY DEF B!Commits
<1> DEFINE k == ops[o].key
<1>3. CASE store[k] = NoRec
  <2> DEFINE r == B!Rec(ops[o].sid)
  <2>1. store' = [store EXCEPT ![k] = r] /\ B!Has(o, ops[o].sid)  BY <1>3 DEF B!Commits, B!Put
  <2>2. /\ r \in B!Recs /\ r.sid = ops[o].sid /\ r.closed = FALSE /\ r.pending = FALSE
        /\ r.cleanup = FALSE
    BY <1>1 DEF B!Rec, B!Recs
  <2> HIDE DEF r
  <2>3. k \notin B!Sids  BY <1>1, KeysAre
  <2>4. RecOK(k, r, mode, made, alive, forgotten)  BY <1>1, <2>2, <2>3 DEF RecOK
  <2>5. StoreMoves  BY <1>1, <1>2, <1>3, <2>1, <2>4, Rewrites
  <2>6. Recorded(store', ops[o].sid)
    <3>1. store'[k] = r  BY <1>1, <2>1 DEF BrowserInv, StoreOK
    <3> QED  BY <1>1, <2>2, <3>1, KeysAre DEF Recorded
  <2> QED  BY <1>1, <1>2, <2>1, <2>5, <2>6, HasSteps
<1>4. CASE store[k] # NoRec
  <2> DEFINE r == [ops[o] EXCEPT !.pc = "queue", !.shared = store[k].sid]
  <2>1. store' = store /\ ops' = [ops EXCEPT ![o] = r]  BY <1>4 DEF B!Commits, B!Goes
  <2>2. store[k].sid \in Nat /\ store[k].sid <= made  BY <1>1, <1>4, RecFacts DEF RecOK, B!Recs
  <2>3. r \in Operations  BY <1>1, <2>2, PcsAre DEF Operations
  <2>4. OpOK(r, mode, made, alive) /\ r.pc = "queue" /\ r.sid = ops[o].sid
    BY <1>1, <2>2, <2>3 DEF OpOK, Operations, Sided, OfExec
  <2> QED  BY <1>2, <2>1, <2>4, Steps DEF Unrecorded, StoreMoves
<1> QED  BY <1>3, <1>4

LEMMA QueuesSteps ==
  ASSUME BrowserInv, NEW o \in Ops, B!Queues(o)
  PROVE  BrowserStep
<1>1. /\ OpOK(ops[o], mode, made, alive) /\ ops[o].pc = "queue" /\ mode # "kitesurf"
      /\ ops[o] \in Operations /\ Count(mode, made, alive)
      /\ ops[o].sid \in Nat /\ ops[o].sid <= made /\ ops[o].sid # 0
  BY OpFacts, FieldsAre DEF B!Queues, B!Is, OpOK, Sided
<1>2. UNCHANGED <<mode, made, alive, forgotten>> /\ B!Retry(o, ops[o].sid, "won", TRUE)  BY DEF B!Queues
<1> DEFINE k == ops[o].sid
<1>3. k \in B!Sids /\ k \in B!Keys /\ k \notin Execs  BY <1>1, KeysAre DEF Count, B!Sids
<1>4. StoreMoves /\ Recorded(store', k)
  <2>1. CASE store[k] = NoRec
    <3> DEFINE r == B!Marked(B!Rec(k))
    <3>1. store' = [store EXCEPT ![k] = r]  BY <2>1 DEF B!Queues, B!Put
    <3>2. /\ r \in B!Recs /\ r.sid = k /\ r.closed = TRUE /\ r.pending = TRUE /\ r.cleanup = TRUE
      BY <1>1 DEF B!Rec, B!Recs, B!Marked
    <3> HIDE DEF r
    <3>3. RecOK(k, r, mode, made, alive, forgotten)  BY <1>1, <1>3, <3>2 DEF RecOK
    <3>4. StoreMoves  BY <1>2, <1>3, <2>1, <3>1, <3>3, Rewrites
    <3>5. store'[k] = r  BY <1>3, <3>1 DEF BrowserInv, StoreOK
    <3> QED  BY <1>3, <3>2, <3>4, <3>5, KeysAre DEF Recorded
  <2>2. CASE store[k] # NoRec
    <3>1. store' = store  BY <2>2 DEF B!Queues
    <3>2. store[k].sid = k  BY <1>3, <2>2, RecFacts DEF RecOK
    <3> QED  BY <1>3, <2>2, <3>1, <3>2 DEF Recorded, StoreMoves
  <2> QED  BY <2>1, <2>2
<1> QED  BY <1>1, <1>2, <1>3, <1>4, RetrySteps, ThensAre

LEMMA UsesWinnerSteps ==
  ASSUME BrowserInv, NEW o \in Ops, B!UsesWinner(o)
  PROVE  BrowserStep
<1>1. /\ mode # "kitesurf" /\ ops[o].pc \notin Unrecorded
      /\ ops[o].shared \in Nat /\ ops[o].shared <= made
  BY OpFacts, FieldsAre DEF B!UsesWinner, B!Is, OpOK, Unrecorded
<1>2. UNCHANGED <<mode, made, alive, forgotten>> /\ StoreMoves /\ B!Has(o, ops[o].shared)
  BY DEF B!UsesWinner, StoreMoves
<1> QED  BY <1>1, <1>2, HasSteps

LEMMA ResolvesSteps ==
  ASSUME BrowserInv, NEW o \in Ops, B!Resolves(o)
  PROVE  BrowserStep
<1>1. /\ OpOK(ops[o], mode, made, alive) /\ ops[o].pc = "resolve" /\ mode # "kitesurf"
      /\ ops[o] \in Operations /\ ops[o].pc \notin Unrecorded
      /\ ops[o].exec \in Execs /\ ops[o].exec \in B!Keys
  BY OpFacts, KeysAre DEF B!Resolves, B!Is, OpOK, Unrecorded, OfExec
<1>2. StoreMoves /\ UNCHANGED <<mode, made, alive, forgotten>>  BY DEF B!Resolves, StoreMoves
<1> DEFINE k == ops[o].exec
<1>3. CASE store[k] # NoRec /\ store[k].closed
  <2>1. B!Retry(o, k, "done", TRUE) \/ B!Over(o)  BY <1>3 DEF B!Resolves
  <2> QED  BY <1>1, <1>2, <2>1, RetrySteps, OverSteps, ThensAre
<1>4. CASE store[k] # NoRec /\ ~store[k].closed
  <2> DEFINE r == [ops[o] EXCEPT !.pc = "probeExec", !.sid = store[k].sid]
  <2>1. ops' = [ops EXCEPT ![o] = r]  BY <1>4 DEF B!Resolves, B!Goes
  <2>2. store[k].sid \in Nat /\ store[k].sid <= made  BY <1>1, <1>4, RecFacts DEF RecOK, B!Recs
  <2>3. r \in Operations  BY <1>1, <2>2, PcsAre DEF Operations
  <2>4. OpOK(r, mode, made, alive)  BY <1>1, <2>2, <2>3 DEF OpOK, Operations, Sided, OfExec
  <2> QED  BY <1>1, <1>2, <2>1, <2>4, OpGoes
<1>5. CASE store[k] = NoRec
  <2> DEFINE r == [ops[o] EXCEPT !.pc = IF mode = "dynamic" THEN "shared" ELSE "create", !.key = k]
  <2>1. ops' = [ops EXCEPT ![o] = r]  BY <1>5 DEF B!Resolves, B!Goes
  <2>2. r \in Operations  BY <1>1, PcsAre DEF Operations
  <2>3. OpOK(r, mode, made, alive)  BY <1>1, <2>2 DEF OpOK, Operations, Sided, OfExec
  <2> QED  BY <1>1, <1>2, <2>1, <2>3, OpGoes
<1> QED  BY <1>3, <1>4, <1>5

LEMMA UsesOwnSteps ==
  ASSUME BrowserInv, NEW o \in Ops, B!UsesOwn(o)
  PROVE  BrowserStep
<1>1. /\ mode # "kitesurf" /\ ops[o].pc \notin Unrecorded /\ ops[o].exec \in Execs
      /\ ops[o].exec \in B!Keys /\ ops[o].sid \in Nat /\ ops[o].sid <= made
  BY OpFacts, FieldsAre, KeysAre DEF B!UsesOwn, B!Is, OpOK, Unrecorded, OfExec
<1>2. UNCHANGED <<mode, made, alive>>  BY DEF B!UsesOwn
<1>3. CASE ops[o].up
  <2>1. /\ store' = B!Touched(ops[o].exec, ops[o].sid) /\ B!Has(o, ops[o].sid)
        /\ forgotten' = forgotten
    BY <1>3 DEF B!UsesOwn
  <2> QED  BY <1>1, <1>2, <2>1, TouchedMoves, HasSteps
<1>4. CASE ~ops[o].up
  <2>1. B!Tombstone(ops[o].exec, ops[o].sid) /\ B!Over(o)  BY <1>4 DEF B!UsesOwn
  <2> QED  BY <1>1, <1>2, <2>1, TombstoneMoves, OverSteps
<1> QED  BY <1>3, <1>4

\* The shared record: what is not to be deleted is not closed either.
LEMMA SharedFacts ==
  ASSUME BrowserInv, store[Reuse] # NoRec, mode # "kitesurf"
  PROVE  /\ store[Reuse].sid \in Nat /\ store[Reuse].sid <= made /\ store[Reuse].sid # 0
         /\ ~store[Reuse].pending => store[Reuse].closed = FALSE
<1>1. store[Reuse] \in B!Recs /\ RecOK(Reuse, store[Reuse], mode, made, alive, forgotten)
  BY KeysAre, RecFacts
<1>2. store[Reuse].closed \in BOOLEAN /\ store[Reuse].pending \in BOOLEAN /\ store[Reuse].sid \in Nat
  BY <1>1 DEF B!Recs
<1>3. /\ store[Reuse].closed = store[Reuse].pending /\ store[Reuse].sid <= made
      /\ store[Reuse].sid # 0
  BY <1>1, KeysAre DEF RecOK
<1> QED  BY <1>2, <1>3

\* A record is marked; a record's clock is set.
LEMMA MarksMoves ==
  ASSUME BrowserInv, NEW k \in B!Keys, store[k] # NoRec, mode # "kitesurf",
         store' = [store EXCEPT ![k] = B!Marked(store[k])], UNCHANGED <<mode, made, alive, forgotten>>
  PROVE  StoreMoves
<1>1. store[k] \in B!Recs /\ RecOK(k, store[k], mode, made, alive, forgotten)  BY RecFacts
<1>2. MarkedOK(k, store[k], B!Marked(store[k]))  BY <1>1, MarkedIsOK
<1> QED  BY <1>1, <1>2, Rewrites DEF MarkedOK

LEMMA ClockMoves ==
  ASSUME BrowserInv, NEW k \in B!Keys, store[k] # NoRec, NEW old \in BOOLEAN,
         store' = [store EXCEPT ![k] = [store[k] EXCEPT !.old = old]],
         UNCHANGED <<mode, made, alive, forgotten>>
  PROVE  StoreMoves
<1> DEFINE r == [store[k] EXCEPT !.old = old]
<1>1. store[k] \in B!Recs /\ RecOK(k, store[k], mode, made, alive, forgotten)  BY RecFacts
<1>2. /\ r \in B!Recs /\ r.sid = store[k].sid /\ r.closed = store[k].closed
      /\ r.pending = store[k].pending /\ r.cleanup = store[k].cleanup
  BY <1>1 DEF B!Recs
<1>3. store' = [store EXCEPT ![k] = r]  OBVIOUS
<1> HIDE DEF r
<1>4. RecOK(k, r, mode, made, alive, forgotten)  BY <1>1, <1>2 DEF RecOK
<1> QED  BY <1>2, <1>3, <1>4, Rewrites

LEMMA ReadsSharedSteps ==
  ASSUME BrowserInv, NEW o \in Ops, B!ReadsShared(o)
  PROVE  BrowserStep
<1>1. /\ OpOK(ops[o], mode, made, alive) /\ ops[o].pc = "shared" /\ mode # "kitesurf"
      /\ ops[o] \in Operations /\ ops[o].pc \notin Unrecorded
      /\ ops[o].exec \in Execs /\ Reuse \in B!Keys
  BY OpFacts, KeysAre DEF B!ReadsShared, B!Is, OpOK, Unrecorded, OfExec
<1>2. StoreMoves /\ UNCHANGED <<mode, made, alive, forgotten>>  BY DEF B!ReadsShared, StoreMoves
<1>3. CASE store[Reuse] = NoRec
  <2> DEFINE r == [ops[o] EXCEPT !.pc = "create"]
  <2>1. ops' = [ops EXCEPT ![o] = r]  BY <1>3 DEF B!ReadsShared, B!To, B!Goes
  <2>2. r \in Operations  BY <1>1, PcsAre DEF Operations
  <2>3. OpOK(r, mode, made, alive)  BY <1>1, <2>2 DEF OpOK, Operations, Sided, OfExec
  <2> QED  BY <1>1, <1>2, <2>1, <2>3, OpGoes
<1>4. CASE store[Reuse] # NoRec /\ store[Reuse].pending
  <2>1. B!Retry(o, Reuse, "createOwn", FALSE)  BY <1>4 DEF B!ReadsShared
  <2> QED  BY <1>1, <1>2, <2>1, RetrySteps, ThensAre
<1>5. CASE store[Reuse] # NoRec /\ ~store[Reuse].pending
  <2> DEFINE r == [ops[o] EXCEPT !.pc = IF store[Reuse].closed THEN "drop" ELSE "probeShared",
                                 !.key = Reuse, !.sid = store[Reuse].sid, !.then = "createOwn"]
  <2>1. ops' = [ops EXCEPT ![o] = r]  BY <1>5 DEF B!ReadsShared, B!Goes
  <2>2. store[Reuse].closed = FALSE /\ store[Reuse].sid \in Nat /\ store[Reuse].sid <= made
    BY <1>1, <1>5, SharedFacts
  <2>3. r \in Operations  BY <1>1, <2>2, ThensAre, PcsAre DEF Operations
  <2>4. OpOK(r, mode, made, alive)  BY <1>1, <2>2, <2>3 DEF OpOK, Operations, Sided, OfExec
  <2> QED  BY <1>1, <1>2, <2>1, <2>4, OpGoes
<1> QED  BY <1>3, <1>4, <1>5

LEMMA CreatesOwnSteps ==
  ASSUME BrowserInv, NEW o \in Ops, B!CreatesOwn(o)
  PROVE  BrowserStep
<1>1. /\ OpOK(ops[o], mode, made, alive) /\ ops[o].pc = "createOwn" /\ mode # "kitesurf"
      /\ ops[o] \in Operations /\ ops[o].pc \notin Unrecorded
      /\ ops[o].exec \in Execs /\ ops[o].exec \in B!Keys
  BY OpFacts, KeysAre DEF B!CreatesOwn, B!Is, OpOK, Unrecorded, OfExec
<1>2. StoreMoves /\ UNCHANGED <<mode, made, alive, forgotten>>  BY DEF B!CreatesOwn, StoreMoves
<1> DEFINE r == [ops[o] EXCEPT !.pc = "create", !.key = ops[o].exec]
<1>3. ops' = [ops EXCEPT ![o] = r]  BY DEF B!CreatesOwn, B!Goes
<1>4. r \in Operations  BY <1>1, PcsAre DEF Operations
<1>5. OpOK(r, mode, made, alive)  BY <1>1, <1>4 DEF OpOK, Operations, Sided, OfExec
<1> QED  BY <1>1, <1>2, <1>3, <1>5, OpGoes

\* An operation that goes on to drop a record, at once or in the next step.
LEMMA DropNext ==
  ASSUME BrowserInv, NEW o \in Ops, B!To(o, "drop"), ops[o].pc \in {"joins", "info"}, ~ops[o].up,
         mode' = mode, made' = made, alive' = alive, forgotten' = forgotten, StoreMoves
  PROVE  BrowserStep
<1>1. /\ OpOK(ops[o], mode, made, alive) /\ ops[o] \in Operations /\ ops[o].pc \notin Unrecorded
      /\ ops[o].up \in BOOLEAN /\ mode # "kitesurf"
  BY OpFacts DEF Unrecorded, OpOK, Operations
<1> DEFINE r == [ops[o] EXCEPT !.pc = "drop"]
<1>2. ops' = [ops EXCEPT ![o] = r]  BY DEF B!To, B!Goes
<1>3. r \in Operations  BY <1>1, PcsAre DEF Operations
<1>4. ops[o].sid \notin alive  BY <1>1 DEF OpOK
<1>5. OpOK(r, mode, made, alive)  BY <1>1, <1>3, <1>4 DEF OpOK, Operations, Sided, OfExec
<1> QED  BY <1>1, <1>2, <1>5, OpGoes

LEMMA JoinsSteps ==
  ASSUME BrowserInv, NEW o \in Ops, B!Joins(o)
  PROVE  BrowserStep
<1>1. /\ mode # "kitesurf" /\ ops[o].pc = "joins" /\ ops[o].pc \notin Unrecorded /\ Reuse \in B!Keys
      /\ ops[o].sid \in Nat /\ ops[o].sid <= made
  BY OpFacts, FieldsAre, KeysAre DEF B!Joins, B!Is, OpOK, Unrecorded
<1>2. UNCHANGED <<mode, made, alive, forgotten>>  BY DEF B!Joins
<1>3. CASE ops[o].up
  <2>1. store' = B!Touched(Reuse, ops[o].sid) /\ B!Has(o, ops[o].sid)  BY <1>3 DEF B!Joins
  <2> QED  BY <1>1, <1>2, <2>1, TouchedMoves, HasSteps
<1>4. CASE ~ops[o].up
  <2>1. B!To(o, "drop") /\ StoreMoves  BY <1>4 DEF B!Joins, StoreMoves
  <2> QED  BY <1>1, <1>2, <1>4, <2>1, DropNext
<1> QED  BY <1>3, <1>4

LEMMA InformsSteps ==
  ASSUME BrowserInv, NEW o \in Ops, B!Informs(o)
  PROVE  BrowserStep
<1>1. ops[o].pc = "info" /\ ops[o].pc \notin Unrecorded  BY DEF B!Informs, B!Is, Unrecorded
<1>2. StoreMoves /\ UNCHANGED <<mode, made, alive, forgotten>>  BY DEF B!Informs, StoreMoves
<1>3. CASE ops[o].up
  <2>1. B!Over(o)  BY <1>3 DEF B!Informs, B!To
  <2> QED  BY <1>1, <1>2, <2>1, OverSteps
<1>4. CASE ~ops[o].up
  <2>1. B!To(o, "drop")  BY <1>4 DEF B!Informs
  <2> QED  BY <1>1, <1>2, <1>4, <2>1, DropNext
<1> QED  BY <1>3, <1>4

LEMMA AsksSteps ==
  ASSUME BrowserInv, NEW o \in Ops, B!Asks(o)
  PROVE  BrowserStep
<1>1. /\ OpOK(ops[o], mode, made, alive) /\ ops[o].pc = "ask" /\ mode # "kitesurf"
      /\ ops[o] \in Operations /\ ops[o].pc \notin Unrecorded /\ Reuse \in B!Keys
  BY OpFacts, KeysAre DEF B!Asks, B!Is, OpOK, Unrecorded
<1>2. StoreMoves /\ UNCHANGED <<mode, made, alive, forgotten>>  BY DEF B!Asks, StoreMoves
<1>3. CASE store[Reuse] = NoRec
  <2>1. B!Over(o)  BY <1>3 DEF B!Asks
  <2> QED  BY <1>1, <1>2, <2>1, OverSteps
<1>4. CASE store[Reuse] # NoRec /\ store[Reuse].pending
  <2>1. B!Retry(o, Reuse, "done", FALSE)  BY <1>4 DEF B!Asks
  <2> QED  BY <1>1, <1>2, <2>1, RetrySteps, ThensAre
<1>5. CASE store[Reuse] # NoRec /\ ~store[Reuse].pending
  <2> DEFINE r == [ops[o] EXCEPT !.pc = "probeInfo", !.key = Reuse, !.sid = store[Reuse].sid,
                                 !.then = "done"]
  <2>1. ops' = [ops EXCEPT ![o] = r]  BY <1>5 DEF B!Asks, B!Goes
  <2>2. store[Reuse].sid \in Nat /\ store[Reuse].sid <= made  BY <1>1, <1>5, SharedFacts
  <2>3. r \in Operations  BY <1>1, <2>2, ThensAre, PcsAre DEF Operations
  <2>4. OpOK(r, mode, made, alive)  BY <1>1, <2>2, <2>3 DEF OpOK, Operations, Sided, OfExec
  <2> QED  BY <1>1, <1>2, <2>1, <2>4, OpGoes
<1> QED  BY <1>3, <1>4, <1>5

LEMMA PromotesSteps ==
  ASSUME BrowserInv, NEW o \in Ops, B!Promotes(o)
  PROVE  BrowserStep
<1>1. /\ OpOK(ops[o], mode, made, alive) /\ ops[o].pc = "promote" /\ mode # "kitesurf"
      /\ ops[o] \in Operations /\ ops[o].pc \notin Unrecorded
      /\ ops[o].exec \in Execs /\ ops[o].exec \in B!Keys
  BY OpFacts, KeysAre DEF B!Promotes, B!Is, OpOK, Unrecorded, OfExec
<1>2. UNCHANGED <<mode, made, alive>>  BY DEF B!Promotes
<1> DEFINE k == ops[o].exec
<1>3. CASE store[k] = NoRec
  <2> DEFINE r == [ops[o] EXCEPT !.pc = "ensure"]
  <2>1. ops' = [ops EXCEPT ![o] = r] /\ StoreMoves /\ forgotten' = forgotten
    BY <1>3 DEF B!Promotes, B!To, B!Goes, StoreMoves
  <2>2. r \in Operations  BY <1>1, PcsAre DEF Operations
  <2>3. OpOK(r, mode, made, alive)  BY <1>1, <2>2 DEF OpOK, Operations, Sided, OfExec
  <2> QED  BY <1>1, <1>2, <2>1, <2>3, OpGoes
<1>4. CASE store[k] # NoRec /\ store[k].closed
  <2>1. B!Tombstone(k, store[k].sid) /\ B!Over(o)  BY <1>4 DEF B!Promotes
  <2> QED  BY <1>1, <1>2, <2>1, TombstoneMoves, OverSteps
<1>5. CASE store[k] # NoRec /\ ~store[k].closed
  <2> DEFINE r == [ops[o] EXCEPT !.pc = "probePromoted", !.sid = store[k].sid]
  <2>1. ops' = [ops EXCEPT ![o] = r] /\ StoreMoves /\ forgotten' = forgotten
    BY <1>5 DEF B!Promotes, B!Goes, StoreMoves
  <2>2. store[k].sid \in Nat /\ store[k].sid <= made /\ store[k].sid # 0
    BY <1>1, <1>5, RecFacts DEF RecOK, B!Recs
  <2>3. r \in Operations  BY <1>1, <2>2, PcsAre DEF Operations
  <2>4. OpOK(r, mode, made, alive)  BY <1>1, <2>2, <2>3 DEF OpOK, Operations, Sided, OfExec
  <2> QED  BY <1>1, <1>2, <2>1, <2>4, OpGoes
<1> QED  BY <1>3, <1>4, <1>5

LEMMA PromoteReadsSharedSteps ==
  ASSUME BrowserInv, NEW o \in Ops, B!PromoteReadsShared(o)
  PROVE  BrowserStep
<1>1. /\ OpOK(ops[o], mode, made, alive) /\ ops[o].pc = "promoteShared" /\ mode # "kitesurf"
      /\ ops[o] \in Operations /\ ops[o].pc \notin Unrecorded
      /\ ops[o].exec \in Execs /\ ops[o].exec \in B!Keys /\ Reuse \in B!Keys
      /\ ops[o].sid \in Nat /\ ops[o].sid <= made /\ made \in Nat /\ ops[o].sid # 0
  BY OpFacts, KeysAre, FieldsAre DEF B!PromoteReadsShared, B!Is, OpOK, Unrecorded, OfExec, Sided
<1>2. UNCHANGED <<mode, made, alive>>  BY DEF B!PromoteReadsShared
<1>3. CASE ~ops[o].up
  <2>1. B!Tombstone(ops[o].exec, ops[o].sid) /\ B!Over(o)  BY <1>3 DEF B!PromoteReadsShared
  <2> QED  BY <1>1, <1>2, <2>1, TombstoneMoves, OverSteps
<1>4. CASE ops[o].up /\ store[Reuse] = NoRec
  <2> DEFINE r == [ops[o] EXCEPT !.pc = "promoteLocked", !.shared = 0, !.key = ops[o].exec,
                                 !.up = FALSE]
  <2>1. ops' = [ops EXCEPT ![o] = r] /\ StoreMoves /\ forgotten' = forgotten
    BY <1>4 DEF B!PromoteReadsShared, B!Goes, StoreMoves
  <2>2. r \in Operations  BY <1>1, PcsAre DEF Operations
  <2>3. OpOK(r, mode, made, alive)  BY <1>1, <2>2 DEF OpOK, Operations, Sided, OfExec
  <2> QED  BY <1>1, <1>2, <2>1, <2>3, OpGoes
<1>5. CASE ops[o].up /\ store[Reuse] # NoRec /\ store[Reuse].sid = ops[o].sid
  <2>1. /\ store' = B!Touched(Reuse, store[Reuse].sid) /\ B!Over(o) /\ forgotten' = forgotten
    BY <1>5 DEF B!PromoteReadsShared
  <2> QED  BY <1>1, <1>2, <2>1, TouchedMoves, OverSteps
<1>6. CASE ops[o].up /\ store[Reuse] # NoRec /\ store[Reuse].sid # ops[o].sid /\ store[Reuse].pending
  <2>1. B!Retry(o, Reuse, "promote", FALSE) /\ StoreMoves /\ forgotten' = forgotten
    BY <1>6 DEF B!PromoteReadsShared, StoreMoves
  <2> QED  BY <1>1, <1>2, <2>1, RetrySteps, ThensAre
<1>7. CASE ops[o].up /\ store[Reuse] # NoRec /\ store[Reuse].sid # ops[o].sid /\ ~store[Reuse].pending
  <2> DEFINE r == [ops[o] EXCEPT !.pc = "probeOther", !.shared = ops[o].sid, !.sid = store[Reuse].sid]
  <2>1. ops' = [ops EXCEPT ![o] = r] /\ StoreMoves /\ forgotten' = forgotten
    BY <1>7 DEF B!PromoteReadsShared, B!Goes, StoreMoves
  <2>2. store[Reuse].sid \in Nat /\ store[Reuse].sid <= made /\ store[Reuse].sid # 0
    BY <1>1, <1>7, SharedFacts
  <2>3. r \in Operations  BY <1>1, <2>2, PcsAre DEF Operations
  <2>4. OpOK(r, mode, made, alive)  BY <1>1, <2>2, <2>3 DEF OpOK, Operations, Sided, OfExec
  <2> QED  BY <1>1, <1>2, <2>1, <2>4, OpGoes
<1> QED  BY <1>3, <1>4, <1>5, <1>6, <1>7

LEMMA PromotesLockedSteps ==
  ASSUME BrowserInv, NEW o \in Ops, B!PromotesLocked(o)
  PROVE  BrowserStep
<1>1. /\ OpOK(ops[o], mode, made, alive) /\ ops[o].pc = "promoteLocked" /\ mode # "kitesurf"
      /\ ops[o] \in Operations /\ ops[o].pc \notin Unrecorded
      /\ ops[o].exec \in Execs /\ Reuse \in B!Keys
      /\ ops[o].sid \in Nat /\ ops[o].sid <= made /\ made \in Nat /\ ops[o].sid # 0
  BY OpFacts, KeysAre, FieldsAre DEF B!PromotesLocked, B!Is, OpOK, Unrecorded, OfExec, Sided
<1>2. UNCHANGED <<mode, made, alive, forgotten>>  BY DEF B!PromotesLocked
<1>3. CASE ~B!Unchanged(o)
  <2> DEFINE r == [ops[o] EXCEPT !.pc = "promote"]
  <2>1. ops' = [ops EXCEPT ![o] = r] /\ StoreMoves
    BY <1>3 DEF B!PromotesLocked, B!To, B!Goes, StoreMoves
  <2>2. r \in Operations  BY <1>1, PcsAre DEF Operations
  <2>3. OpOK(r, mode, made, alive)  BY <1>1, <2>2 DEF OpOK, Operations, Sided, OfExec
  <2> QED  BY <1>1, <1>2, <2>1, <2>3, OpGoes
<1>4. CASE B!Unchanged(o) /\ B!Seen(o) # 0 /\ ops[o].up
  <2>1. B!Over(o) /\ StoreMoves  BY <1>4 DEF B!PromotesLocked, StoreMoves
  <2> QED  BY <1>1, <1>2, <2>1, OverSteps
<1>5. CASE B!Unchanged(o) /\ B!Seen(o) # 0 /\ ~ops[o].up
  <2>1. store' = [store EXCEPT ![Reuse] = B!Marked(store[Reuse])] /\ B!Retry(o, Reuse, "promote", FALSE)
    BY <1>5 DEF B!PromotesLocked, B!Put
  <2>2. store[Reuse] # NoRec  BY <1>5 DEF B!Unchanged, B!SidOf
  <2>3. StoreMoves  BY <1>1, <1>2, <2>1, <2>2, MarksMoves
  <2> QED  BY <1>1, <1>2, <2>1, <2>3, RetrySteps, ThensAre
<1>6. CASE B!Unchanged(o) /\ B!Seen(o) = 0
  <2> DEFINE r == B!Rec(ops[o].sid)
  <2>1. store' = [store EXCEPT ![Reuse] = r] /\ B!Over(o)  BY <1>6 DEF B!PromotesLocked, B!Put
  <2>2. /\ r \in B!Recs /\ r.sid = ops[o].sid /\ r.closed = FALSE /\ r.pending = FALSE
        /\ r.cleanup = FALSE
    BY <1>1 DEF B!Rec, B!Recs
  <2> HIDE DEF r
  <2>3. store[Reuse] = NoRec
    <3>1. B!SidOf(Reuse) = 0  BY <1>6 DEF B!Unchanged
    <3>2. store[Reuse] # NoRec => store[Reuse].sid # 0  BY <1>1, RecFacts DEF RecOK
    <3> QED  BY <3>1, <3>2 DEF B!SidOf
  <2>4. RecOK(Reuse, r, mode, made, alive, forgotten)  BY <1>1, <2>2, KeysAre DEF RecOK
  <2>5. StoreMoves  BY <1>1, <1>2, <2>1, <2>3, <2>4, Rewrites
  <2> QED  BY <1>1, <1>2, <2>1, <2>5, OverSteps
<1> QED  BY <1>3, <1>4, <1>5, <1>6

\* Nothing moves but the store.
LEMMA StoreSteps ==
  ASSUME BrowserInv, ops' = ops, mode' = mode, made' = made, alive' \subseteq alive,
         forgotten' = forgotten, StoreMoves
  PROVE  BrowserStep
<1>1. Grows  BY DEF Grows, BrowserInv, Count
<1>2. OpsMove /\ Appears  BY DEF OpsMove, Appears
<1> QED  BY <1>1, <1>2 DEF BrowserStep

\* An operation begins; a sweep or a disposal begins with a deletion.
LEMMA BeginSteps ==
  ASSUME BrowserInv, NEW o \in Ops, NEW kind \in Purposes, NEW e \in Execs \union {NoExec},
         NEW pc \in {"ensure", "marker", "resolve", "promote", "ask"}, B!Begin(o, kind, e, pc),
         pc \in OfExec => e \in Execs, mode = "kitesurf" <=> pc = "marker",
         UNCHANGED <<mode, store, made, alive, forgotten>>
  PROVE  BrowserStep
<1> DEFINE r == [B!NoOp EXCEPT !.pc = pc, !.kind = kind, !.exec = e]
<1>1. ops' = [ops EXCEPT ![o] = r] /\ ops[o].pc \notin Unrecorded  BY DEF B!Begin, B!Is, Unrecorded
<1>2. /\ r.pc = pc /\ r.kind = kind /\ r.exec = e /\ r.key = Reuse /\ r.sid = 0 /\ r.then = "done"
      /\ r.soft = FALSE /\ r.up = FALSE /\ r.shared = 0
  BY DEF B!NoOp
<1>3. pc \in Pcs  BY PcsAre
<1>4. r \in Operations
  <2>1. B!NoOp \in Operations  BY IdleOK DEF OpOK
  <2> QED  BY <1>3, <2>1 DEF Operations
<1> HIDE DEF r
<1>5. OpOK(r, mode, made, alive)
  <2>1. made \in Nat /\ 0 <= made  BY OpFacts
  <2>2. pc \notin Sided /\ pc \notin {"create", "commit", "shared", "finish", "drop", "settle", "joins", "info"}
    BY DEF Sided
  <2> QED  BY <1>2, <1>4, <2>1, <2>2 DEF OpOK
<1>6. StoreMoves  BY DEF StoreMoves
<1> QED  BY <1>1, <1>5, <1>6, OpGoes

LEMMA DeletesSteps ==
  ASSUME BrowserInv, NEW o \in Ops, NEW kind \in Purposes, NEW k \in B!Keys, B!Is(o, "idle"),
         ops' = [ops EXCEPT ![o] = [B!NoOp EXCEPT !.pc = "retry", !.kind = kind, !.key = k, !.soft = TRUE]],
         mode # "kitesurf", UNCHANGED <<mode, made, alive, forgotten>>, StoreMoves
  PROVE  BrowserStep
<1> DEFINE r == [B!NoOp EXCEPT !.pc = "retry", !.kind = kind, !.key = k, !.soft = TRUE]
<1>1. ops' = [ops EXCEPT ![o] = r] /\ ops[o].pc \notin Unrecorded  BY DEF B!Is, Unrecorded
<1>2. /\ r.pc = "retry" /\ r.kind = kind /\ r.exec = NoExec /\ r.key = k /\ r.sid = 0 /\ r.then = "done"
      /\ r.soft = TRUE /\ r.up = FALSE /\ r.shared = 0
  BY DEF B!NoOp
<1>3. r \in Operations
  <2>1. B!NoOp \in Operations  BY IdleOK DEF OpOK
  <2> QED  BY <2>1, PcsAre DEF Operations
<1> HIDE DEF r
<1>4. OpOK(r, mode, made, alive)
  <2>1. made \in Nat /\ 0 <= made  BY OpFacts
  <2>2. "retry" \notin Sided /\ "retry" \notin OfExec  BY DEF Sided, OfExec
  <2> QED  BY <1>2, <1>3, <2>1, <2>2 DEF OpOK
<1> QED  BY <1>1, <1>4, OpGoes

LEMMA SendsSteps ==
  ASSUME BrowserInv, NEW o \in Ops, NEW e \in Execs, B!Sends(o, e)
  PROVE  BrowserStep
<1> DEFINE pc == IF mode = "reuse" THEN "ensure" ELSE IF mode = "kitesurf" THEN "marker" ELSE "resolve"
<1>1. B!Begin(o, "send", e, pc) /\ UNCHANGED <<mode, store, made, alive, forgotten>>  BY DEF B!Sends
<1>2. pc \in {"ensure", "marker", "resolve", "promote", "ask"} /\ (mode = "kitesurf" <=> pc = "marker")
  OBVIOUS
<1> HIDE DEF pc
<1> QED  BY <1>1, <1>2, BeginSteps, PurposesAre

LEMMA StartsSessionSteps ==
  ASSUME BrowserInv, NEW o \in Ops, NEW e \in Execs, B!StartsSession(o, e)
  PROVE  BrowserStep
<1> DEFINE pc == IF mode = "dynamic" THEN "promote" ELSE "ensure"
<1>1. B!Begin(o, "start", e, pc) /\ UNCHANGED <<mode, store, made, alive, forgotten>>
  BY DEF B!StartsSession
<1>2. pc \in {"ensure", "marker", "resolve", "promote", "ask"} /\ (mode = "kitesurf" <=> pc = "marker")
  BY DEF B!StartsSession
<1> HIDE DEF pc
<1> QED  BY <1>1, <1>2, BeginSteps, PurposesAre

LEMMA AsksInfoSteps ==
  ASSUME BrowserInv, NEW o \in Ops, B!AsksInfo(o)
  PROVE  BrowserStep
<1>1. /\ B!Begin(o, "info", NoExec, "ask") /\ UNCHANGED <<mode, store, made, alive, forgotten>>
      /\ mode # "kitesurf" /\ "ask" \notin OfExec
  BY DEF B!AsksInfo, OfExec
<1> QED  BY <1>1, BeginSteps, PurposesAre

LEMMA SendsAgainSteps ==
  ASSUME BrowserInv, NEW e \in Execs, B!SendsAgain(e)
  PROVE  BrowserStep
<1>1. PICK k \in {e, Reuse} : store[k] # NoRec /\ B!Put(k, [store[k] EXCEPT !.old = FALSE])
  BY DEF B!SendsAgain
<1>2. k \in B!Keys /\ UNCHANGED <<mode, made, alive, forgotten, ops>>
  BY KeysAre DEF B!SendsAgain
<1>3. StoreMoves  BY <1>1, <1>2, ClockMoves DEF B!Put
<1> QED  BY <1>2, <1>3, StoreSteps

LEMMA AgesSteps ==
  ASSUME BrowserInv, NEW k \in B!Keys, B!Ages(k)
  PROVE  BrowserStep
<1>1. /\ store[k] # NoRec /\ store' = [store EXCEPT ![k] = [store[k] EXCEPT !.old = TRUE]]
      /\ UNCHANGED <<mode, made, alive, forgotten, ops>>
  BY DEF B!Ages, B!Put
<1>2. StoreMoves  BY <1>1, ClockMoves
<1> QED  BY <1>1, <1>2, StoreSteps

\* A record without a browser is closed.
LEMMA ClosesMarker ==
  ASSUME BrowserInv, NEW k \in B!Keys, store[k] # NoRec, mode = "kitesurf",
         store' = [store EXCEPT ![k] = [store[k] EXCEPT !.closed = TRUE]],
         UNCHANGED <<mode, made, alive, forgotten>>
  PROVE  StoreMoves
<1> DEFINE r == [store[k] EXCEPT !.closed = TRUE]
<1>1. store[k] \in B!Recs /\ RecOK(k, store[k], mode, made, alive, forgotten)  BY RecFacts
<1>2. /\ r \in B!Recs /\ r.sid = store[k].sid /\ r.pending = store[k].pending
      /\ r.cleanup = store[k].cleanup
  BY <1>1 DEF B!Recs
<1>3. store' = [store EXCEPT ![k] = r]  OBVIOUS
<1> HIDE DEF r
<1>4. alive = {} /\ k \in Execs  BY <1>1 DEF BrowserInv, Count, RecOK
<1>5. RecOK(k, r, mode, made, alive, forgotten)  BY <1>1, <1>2, <1>4, KeysAre DEF RecOK
<1> QED  BY <1>2, <1>3, <1>5, Rewrites

LEMMA PassEndsSteps ==
  ASSUME BrowserInv, NEW e \in Execs, NEW paused \in BOOLEAN, B!PassEnds(e, paused)
  PROVE  BrowserStep
<1>1. UNCHANGED <<mode, made, alive, forgotten, ops>> /\ e \in B!Keys  BY KeysAre DEF B!PassEnds
<1>2. StoreMoves
  <2>1. CASE store' = store  BY <2>1 DEF StoreMoves
  <2>2. CASE store' # store
    <3>1. /\ mode = "kitesurf" /\ store[e] # NoRec
          /\ store' = [store EXCEPT ![e] = [store[e] EXCEPT !.closed = TRUE]]
      BY <2>2 DEF B!PassEnds, B!Put
    <3> QED  BY <1>1, <3>1, ClosesMarker
  <2> QED  BY <2>1, <2>2
<1> QED  BY <1>1, <1>2, StoreSteps

LEMMA ExpiresSteps ==
  ASSUME BrowserInv, NEW sid \in B!Sids, B!Expires(sid)
  PROVE  BrowserStep
<1>1. UNCHANGED <<mode, made, store, forgotten, ops>> /\ alive' \subseteq alive  BY DEF B!Expires
<1> QED  BY <1>1, StoreSteps DEF StoreMoves

LEMMA MarksSteps ==
  ASSUME BrowserInv, NEW o \in Ops, B!Marks(o)
  PROVE  BrowserStep
<1>1. /\ OpOK(ops[o], mode, made, alive) /\ ops[o].pc = "marker" /\ mode = "kitesurf"
      /\ ops[o] \in Operations /\ ops[o].pc \notin Unrecorded /\ made \in Nat
      /\ ops[o].exec \in Execs /\ ops[o].exec \in B!Keys
  BY OpFacts, KeysAre DEF B!Marks, B!Is, OpOK, Unrecorded, OfExec
<1>2. UNCHANGED <<mode, made, alive, forgotten>>  BY DEF B!Marks
<1> DEFINE k == ops[o].exec
<1>3. CASE store[k] # NoRec
  <2>1. B!Over(o) /\ StoreMoves  BY <1>3 DEF B!Marks, StoreMoves
  <2> QED  BY <1>1, <1>2, <2>1, OverSteps
<1>4. CASE store[k] = NoRec
  <2> DEFINE r == [ops[o] EXCEPT !.pc = "connect", !.key = k, !.sid = 0]
             s == B!Rec(0)
  <2>1. store' = [store EXCEPT ![k] = s] /\ ops' = [ops EXCEPT ![o] = r]
    BY <1>4 DEF B!Marks, B!Put, B!Goes, B!Marker
  <2>2. s \in B!Recs /\ s.sid = 0 /\ s.closed = FALSE /\ s.pending = FALSE /\ s.cleanup = FALSE
    BY DEF B!Rec, B!Recs
  <2>3. r \in Operations  BY <1>1, PcsAre DEF Operations
  <2>4. OpOK(r, mode, made, alive)  BY <1>1, <2>3 DEF OpOK, Operations, Sided, OfExec
  <2> HIDE DEF s
  <2>5. RecOK(k, s, mode, made, alive, forgotten)  BY <1>1, <2>2, KeysAre DEF RecOK
  <2>6. StoreMoves  BY <1>1, <1>2, <1>4, <2>1, <2>5, Rewrites
  <2> QED  BY <1>1, <1>2, <2>1, <2>4, <2>6, OpGoes
<1> QED  BY <1>3, <1>4

LEMMA ConnectsSteps ==
  ASSUME BrowserInv, NEW o \in Ops, B!Connects(o) \/ B!ConnectsToNone(o)
  PROVE  BrowserStep
<1>1. /\ ops[o].pc \notin Unrecorded /\ B!Over(o) /\ StoreMoves
      /\ UNCHANGED <<mode, made, alive, forgotten>>
  BY DEF B!Connects, B!ConnectsToNone, B!Is, Unrecorded, StoreMoves
<1> QED  BY <1>1, OverSteps

LEMMA DisposesSteps ==
  ASSUME BrowserInv, NEW o \in Ops, NEW e \in Execs, B!Disposes(o, e)
  PROVE  BrowserStep
<1>1. /\ B!Is(o, "idle") /\ UNCHANGED <<mode, made, alive, forgotten>>
      /\ e \in B!Keys /\ Reuse \in B!Keys /\ e # Reuse
  BY KeysAre DEF B!Disposes
<1>2. CASE store[e] = NoRec
  <2>1. ops' = ops /\ StoreMoves  BY <1>2 DEF B!Disposes, StoreMoves
  <2> QED  BY <1>1, <2>1, StoreSteps
<1>3. CASE store[e] # NoRec
  <2> DEFINE r == store[e]
             promoted == r # NoRec /\ mode = "dynamic" /\ B!SidOf(Reuse) = r.sid
             deletes == [B!NoOp EXCEPT !.pc = "retry", !.kind = "dispose", !.key = e, !.soft = TRUE]
  <2>1. r \in B!Recs /\ RecOK(e, r, mode, made, alive, forgotten)  BY <1>1, <1>3, RecFacts
  <2>2. CASE mode = "kitesurf"
    <3>1. store' = [store EXCEPT ![e] = NoRec] /\ ops' = ops  BY <1>3, <2>2 DEF B!Disposes, B!Put
    <3>2. alive = {}  BY <2>2 DEF BrowserInv, Count
    <3>3. StoreMoves  BY <1>1, <1>3, <3>1, <3>2 DEF StoreMoves, Drops
    <3> QED  BY <1>1, <3>1, <3>3, StoreSteps
  <2>3. CASE mode # "kitesurf" /\ r.pending
    <3>1. ops' = [ops EXCEPT ![o] = deletes] /\ StoreMoves  BY <1>3, <2>3 DEF B!Disposes, StoreMoves
    <3> QED  BY <1>1, <2>3, <3>1, DeletesSteps, PurposesAre
  <2>4. CASE mode # "kitesurf" /\ ~r.pending /\ ~promoted /\ ~r.closed
    <3>1. ops' = [ops EXCEPT ![o] = deletes] /\ store' = [store EXCEPT ![e] = B!Marked(r)]
      BY <1>3, <2>4 DEF B!Disposes, B!Put
    <3>2. StoreMoves  BY <1>1, <1>3, <2>4, <3>1, MarksMoves
    <3> QED  BY <1>1, <2>4, <3>1, <3>2, DeletesSteps, PurposesAre
  <2>5. CASE mode # "kitesurf" /\ ~r.pending /\ promoted
    <3>1. store' = [store EXCEPT ![e] = NoRec] /\ ops' = ops  BY <1>3, <2>5 DEF B!Disposes, B!Put
    <3>2. store[Reuse] # NoRec /\ store[Reuse].sid = r.sid
      <4>1. r.sid # 0  BY <2>1, <2>5 DEF RecOK
      <4> QED  BY <2>5, <4>1 DEF B!SidOf
    <3>3. Drops(e)  BY <1>1, <1>3, <3>1, <3>2 DEF Drops
    <3>4. StoreMoves  BY <1>1, <3>3 DEF StoreMoves
    <3> QED  BY <1>1, <3>1, <3>4, StoreSteps
  <2>6. CASE mode # "kitesurf" /\ ~r.pending /\ ~promoted /\ r.closed
    <3>1. ops' = ops /\ StoreMoves  BY <1>3, <2>6 DEF B!Disposes, StoreMoves
    <3> QED  BY <1>1, <3>1, StoreSteps
  <2> QED  BY <2>2, <2>3, <2>4, <2>5, <2>6
<1> QED  BY <1>2, <1>3

LEMMA SweepsSteps ==
  ASSUME BrowserInv, NEW o \in Ops, NEW k \in B!Keys, B!Sweeps(o, k)
  PROVE  BrowserStep
<1> DEFINE r == store[k]
           deletes == [B!NoOp EXCEPT !.pc = "retry", !.kind = "sweep", !.key = k, !.soft = TRUE]
<1>1. B!Is(o, "idle") /\ r # NoRec /\ UNCHANGED <<mode, made, alive, forgotten>>  BY DEF B!Sweeps
<1>2. r \in B!Recs /\ RecOK(k, r, mode, made, alive, forgotten)  BY <1>1, RecFacts
<1>a. /\ r.closed \in BOOLEAN /\ r.pending \in BOOLEAN /\ r.cleanup \in BOOLEAN /\ r.sid \in Nat
  BY <1>2 DEF B!Recs
<1>3. CASE r.pending
  <2>1. ops' = [ops EXCEPT ![o] = deletes] /\ StoreMoves  BY <1>3 DEF B!Sweeps, StoreMoves
  <2>2. mode # "kitesurf"  BY <1>2, <1>3, <1>a DEF RecOK
  <2> QED  BY <1>1, <2>1, <2>2, DeletesSteps, PurposesAre
<1>4. CASE ~r.pending /\ r.closed
  <2>1. ops' = ops /\ (store' = store \/ store' = [store EXCEPT ![k] = NoRec])  BY <1>4 DEF B!Sweeps
  <2>2. r.sid \notin alive \/ r.sid \in forgotten  BY <1>2, <1>4, <1>a DEF RecOK
  <2>3. k # Reuse  BY <1>2, <1>4, <1>a, KeysAre DEF RecOK
  <2>4. StoreMoves  BY <1>1, <2>1, <2>2, <2>3 DEF StoreMoves, Drops
  <2> QED  BY <1>1, <2>1, <2>4, StoreSteps
<1>5. CASE ~r.pending /\ ~r.closed /\ r.sid \in B!Active
  <2>1. ops' = ops /\ store' = [store EXCEPT ![k] = [r EXCEPT !.old = FALSE]]
    BY <1>5 DEF B!Sweeps, B!Put
  <2>2. StoreMoves  BY <1>1, <2>1, ClockMoves
  <2> QED  BY <1>1, <2>1, <2>2, StoreSteps
<1>6. CASE ~r.pending /\ ~r.closed /\ r.sid \notin B!Active /\ r.old /\ r.sid = B!Marker
  <2>1. ops' = ops /\ store' = [store EXCEPT ![k] = [r EXCEPT !.closed = TRUE]]
    BY <1>6 DEF B!Sweeps, B!Put
  <2>2. mode = "kitesurf"  BY <1>2, <1>6 DEF RecOK, B!Marker
  <2>3. StoreMoves  BY <1>1, <2>1, <2>2, ClosesMarker
  <2> QED  BY <1>1, <2>1, <2>3, StoreSteps
<1>7. CASE ~r.pending /\ ~r.closed /\ r.sid \notin B!Active /\ r.old /\ r.sid # B!Marker
  <2> DEFINE s == [B!Marked(r) EXCEPT !.cleanup = ~B!IsExec(k)]
  <2>1. ops' = [ops EXCEPT ![o] = deletes] /\ store' = [store EXCEPT ![k] = s]
    BY <1>7 DEF B!Sweeps, B!Put
  <2>2. mode # "kitesurf"  BY <1>2, <1>7 DEF RecOK, B!Marker
  <2>3. PICK c \in BOOLEAN : c = ~B!IsExec(k)
    <3>1. (~B!IsExec(k)) \in BOOLEAN  OBVIOUS
    <3> QED  BY <3>1, Zenon
  <2>4. /\ s \in B!Recs /\ s.sid = r.sid /\ s.closed = TRUE /\ s.pending = TRUE /\ s.cleanup = c
    BY <1>2, <2>3 DEF B!Marked, B!Recs
  <2>5. k \notin Execs => c = TRUE  BY <2>3 DEF B!IsExec
  <2> HIDE DEF s
  <2>6. RecOK(k, s, mode, made, alive, forgotten)  BY <1>2, <2>2, <2>4, <2>5 DEF RecOK
  <2>7. StoreMoves  BY <1>1, <2>1, <2>4, <2>6, Rewrites
  <2> QED  BY <1>1, <2>1, <2>2, <2>7, DeletesSteps, PurposesAre
<1>8. CASE ~r.pending /\ ~r.closed /\ r.sid \notin B!Active /\ ~r.old
  <2>1. ops' = ops /\ StoreMoves  BY <1>8 DEF B!Sweeps, StoreMoves
  <2> QED  BY <1>1, <2>1, StoreSteps
<1> QED  BY <1>3, <1>4, <1>5, <1>6, <1>7, <1>8

LEMMA ClosesSteps ==
  ASSUME BrowserInv, NEW o \in Ops, NEW e \in Execs, NEW reset \in BOOLEAN, B!Closes(o, e, reset)
  PROVE  BrowserStep
<1>1. /\ B!Is(o, "idle") /\ UNCHANGED <<mode, made, alive, forgotten>> /\ mode # "kitesurf"
      /\ e \in B!Keys /\ Reuse \in B!Keys /\ e # Reuse /\ ops[o].pc \notin Unrecorded /\ made \in Nat
  BY KeysAre, OpFacts DEF B!Closes, B!Is, Unrecorded
<1>2. PICK kind \in Purposes : kind = IF reset THEN "reset" ELSE "close"
  BY PurposesAre
<1>3. PICK then \in Thens : then = IF reset THEN "ensure" ELSE "done"
  BY ThensAre
<1> DEFINE next == [B!NoOp EXCEPT !.kind = kind, !.exec = e]
<1>4. next \in Operations
  <2>1. B!NoOp \in Operations  BY IdleOK, <1>1 DEF OpOK
  <2> QED  BY <2>1 DEF Operations
<1>5. /\ next.sid = 0 /\ next.shared = 0 /\ next.then = "done" /\ next.exec = e
      /\ next.pc = "idle"
  BY DEF B!NoOp
<1>6. next = [B!NoOp EXCEPT !.kind = IF reset THEN "reset" ELSE "close", !.exec = e]
  BY <1>2
<1> HIDE DEF next
<1>7. CASE store[Reuse] = NoRec
  <2> DEFINE r == IF reset THEN [next EXCEPT !.pc = "ensure"] ELSE B!NoOp
  <2>1. ops' = [ops EXCEPT ![o] = r] /\ StoreMoves  BY <1>6, <1>7 DEF B!Closes, StoreMoves
  <2>2. CASE ~reset  BY <1>1, <2>1, <2>2, IdleOK, OpGoes
  <2>3. CASE reset
    <3> DEFINE s == [next EXCEPT !.pc = "ensure"]
    <3>1. s \in Operations  BY <1>4, PcsAre DEF Operations
    <3>2. OpOK(s, mode, made, alive)  BY <1>1, <1>4, <1>5, <3>1 DEF OpOK, Operations, Sided, OfExec
    <3> QED  BY <1>1, <2>1, <2>3, <3>2, OpGoes
  <2> QED  BY <2>2, <2>3
<1>8. CASE store[Reuse] # NoRec
  <2> DEFINE r == [next EXCEPT !.pc = "retry", !.key = Reuse, !.then = then]
             m == B!Marked(store[Reuse])
             drops == reset /\ B!SidOf(e) = store[Reuse].sid
  <2>1. ops' = [ops EXCEPT ![o] = r]  BY <1>3, <1>6, <1>8 DEF B!Closes
  <2>2. r \in Operations  BY <1>1, <1>4, PcsAre DEF Operations
  <2>3. OpOK(r, mode, made, alive)  BY <1>1, <1>4, <1>5, <2>2 DEF OpOK, Operations, Sided, OfExec
  <2>4. store' = [k \in B!Keys |-> IF k = Reuse THEN m
                                   ELSE IF reset /\ k = e /\ B!SidOf(k) = store[Reuse].sid THEN NoRec
                                   ELSE store[k]]
    BY <1>8 DEF B!Closes
  <2>5. store \in [B!Keys -> B!Recs \union {NoRec}]  BY DEF BrowserInv, StoreOK
  <2>6. CASE ~drops
    <3> HIDE DEF m
    <3>1. store' = [store EXCEPT ![Reuse] = m]  BY <1>1, <2>4, <2>5, <2>6
    <3>2. StoreMoves  BY <1>1, <1>8, <3>1, MarksMoves DEF m
    <3> QED  BY <1>1, <2>1, <2>3, <3>2, OpGoes
  <2>7. CASE drops
    <3>1. store[e] # NoRec /\ store[e].sid = store[Reuse].sid
      <4>1. store[Reuse].sid # 0  BY <1>1, <1>8, SharedFacts
      <4> QED  BY <2>7, <4>1 DEF B!SidOf
    <3> HIDE DEF m
    <3>2. store' = [store EXCEPT ![Reuse] = m, ![e] = NoRec]  BY <1>1, <2>4, <2>5, <2>7
    <3>3. Resets(e)  BY <1>1, <1>8, <3>1, <3>2 DEF Resets, m
    <3>4. StoreMoves  BY <1>1, <3>3 DEF StoreMoves
    <3> QED  BY <1>1, <2>1, <2>3, <3>4, OpGoes
  <2> QED  BY <2>6, <2>7
<1> QED  BY <1>7, <1>8

\* After a restart nothing is under way: what only an operation knew of is forgotten.
LEMMA RestartsStay ==
  ASSUME BrowserInv, B!Restarts
  PROVE  BrowserInv' /\ StoreMoves
<1>1. /\ UNCHANGED <<mode, store, alive, made>> /\ ops' = [o \in Ops |-> B!NoOp]
      /\ forgotten' = forgotten \union {ops[o].sid : o \in {o \in Ops : ops[o].pc \in Unrecorded}}
  BY DEF B!Restarts, Unrecorded
<1>2. made \in Nat  BY DEF BrowserInv, Count
<1>3. Grows  BY <1>1, <1>2 DEF Grows, BrowserInv, Count
<1>4. StoreMoves  BY <1>1 DEF StoreMoves
<1>5. OpsOK(ops', mode', made', alive')
  <2>1. OpOK(B!NoOp, mode', made', alive') /\ B!NoOp \in Operations  BY <1>1, <1>2, IdleOK DEF OpOK
  <2>2. \A o \in Ops : ops'[o] = B!NoOp  BY <1>1
  <2>3. ops' \in [Ops -> Operations]  BY <1>1, <2>1
  <2> QED  BY <2>1, <2>2, <2>3 DEF OpsOK
<1>6. Owned(store', ops', alive', forgotten')
  <2> SUFFICES ASSUME NEW sid \in alive' \ forgotten'  PROVE Recorded(store', sid)
    BY DEF Owned
  <2>1. sid \in alive \ forgotten  BY <1>1
  <2>2. \A o \in Ops : ops[o].pc \in Unrecorded => ops[o].sid \in forgotten'  BY <1>1
  <2>3. Recorded(store, sid)  BY <2>1, <2>2 DEF BrowserInv, Owned
  <2> QED  BY <1>1, <2>3 DEF Recorded
<1> QED  BY <1>3, <1>4, <1>5, <1>6, StoreStaysOK DEF BrowserInv, Grows

LEMMA OpSteps ==
  ASSUME BrowserInv, NEW o \in Ops,
         \/ B!RetryReads(o) \/ B!Deleted(o) \/ B!DeleteFails(o) \/ B!Finishes(o) \/ B!DropsRecord(o)
         \/ B!Ensures(o) \/ B!Probed(o) \/ B!OpFails(o) \/ B!Settles(o) \/ B!Creates(o)
         \/ B!Commits(o) \/ B!Queues(o) \/ B!UsesWinner(o) \/ B!Resolves(o) \/ B!UsesOwn(o)
         \/ B!ReadsShared(o) \/ B!CreatesOwn(o) \/ B!Joins(o) \/ B!Marks(o) \/ B!Connects(o)
         \/ B!ConnectsToNone(o) \/ B!Promotes(o) \/ B!PromoteReadsShared(o) \/ B!PromotesLocked(o)
         \/ B!Asks(o) \/ B!Informs(o) \/ B!AsksInfo(o)
         \/ \E e \in Execs : B!Sends(o, e) \/ B!StartsSession(o, e) \/ B!Disposes(o, e)
         \/ \E e \in Execs, reset \in BOOLEAN : B!Closes(o, e, reset)
         \/ \E k \in B!Keys : B!Sweeps(o, k)
  PROVE  BrowserStep
BY RetryReadsSteps, DeletedSteps, DeleteFailsSteps, FinishesSteps, DropsRecordSteps, EnsuresSteps,
   ProbedSteps, OpFailsSteps, SettlesSteps, CreatesSteps, CommitsSteps, QueuesSteps, UsesWinnerSteps,
   ResolvesSteps, UsesOwnSteps, ReadsSharedSteps, CreatesOwnSteps, JoinsSteps, MarksSteps,
   ConnectsSteps, PromotesSteps, PromoteReadsSharedSteps, PromotesLockedSteps, AsksSteps,
   InformsSteps, AsksInfoSteps, SendsSteps, StartsSessionSteps, DisposesSteps, ClosesSteps, SweepsSteps

LEMMA BrowserInvInduct ==
  ASSUME BrowserInv, [B!Next]_B!vars
  PROVE  BrowserInv' /\ StoreMoves
<1>1. ASSUME NEW o \in Ops, BrowserStep  PROVE BrowserInv' /\ StoreMoves
  BY <1>1, BrowserInvStays DEF BrowserStep
<1>2. CASE BrowserStep  BY <1>2, BrowserInvStays DEF BrowserStep
<1>3. CASE B!Restarts  BY <1>3, RestartsStay
<1>4. CASE UNCHANGED B!vars
  <2>1. BrowserStep  BY <1>4, StoreSteps DEF B!vars, StoreMoves
  <2> QED  BY <1>2, <2>1
<1>5. ASSUME NEW e \in Execs, B!SendsAgain(e) \/ \E paused \in BOOLEAN : B!PassEnds(e, paused)
      PROVE  BrowserStep
  BY <1>5, SendsAgainSteps, PassEndsSteps
<1>6. ASSUME NEW k \in B!Keys, B!Ages(k)  PROVE BrowserStep  BY <1>6, AgesSteps
<1>7. ASSUME NEW sid \in B!Sids, B!Expires(sid)  PROVE BrowserStep  BY <1>7, ExpiresSteps
<1>8. CASE B!Next  BY <1>2, <1>3, <1>5, <1>6, <1>7, <1>8, OpSteps DEF B!Next
<1> QED  BY <1>4, <1>8

LEMMA BrowserInvStarts == B!Init => BrowserInv
<1> SUFFICES ASSUME B!Init PROVE BrowserInv  OBVIOUS
<1>1. /\ store = [k \in B!Keys |-> NoRec] /\ ops = [o \in Ops |-> B!NoOp]
      /\ alive = {} /\ forgotten = {} /\ made = 0
  BY DEF B!Init
<1>2. Count(mode, made, alive)  BY <1>1, KeysAre DEF Count
<1>3. OpsOK(ops, mode, made, alive)
  <2>1. OpOK(B!NoOp, mode, made, alive) /\ B!NoOp \in Operations  BY <1>1, IdleOK DEF OpOK
  <2> QED  BY <1>1, <2>1 DEF OpsOK
<1>4. StoreOK(store, mode, made, alive, forgotten)  BY <1>1 DEF StoreOK
<1>5. Owned(store, ops, alive, forgotten)  BY <1>1 DEF Owned
<1> QED  BY <1>2, <1>3, <1>4, <1>5 DEF BrowserInv

-----------------------------------------------------------------------------
(* The theorems.                                                           *)

\* Whatever executions create, share, promote, reset, close and sweep at the same
\* time (connector.py), and whatever fails meanwhile: a browser that runs is in a
\* record, or in the hands of the operation that just created it, unless the
\* agent went away between the two or a promotion took its mark back.
THEOREM BrowsersStayKnown == B!Spec => []EveryBrowserIsOwned
<1>1. BrowserInv => EveryBrowserIsOwned
  <2> SUFFICES ASSUME BrowserInv, NEW sid \in alive \ forgotten
               PROVE  \/ \E r \in B!Records : r.sid = sid
                      \/ \E o \in Ops : ops[o].pc \in {"commit", "queue"} /\ ops[o].sid = sid
    BY DEF EveryBrowserIsOwned, B!EveryBrowserIsOwned
  <2>1. Recorded(store, sid) \/ \E o \in Ops : ops[o].pc \in {"commit", "queue"} /\ ops[o].sid = sid
    BY DEF BrowserInv, Owned, Unrecorded
  <2>2. ASSUME NEW k \in B!Keys, store[k] # NoRec, store[k].sid = sid
        PROVE  \E r \in B!Records : r.sid = sid
    <3>1. store[k] \in B!Records  BY <2>2 DEF B!Records
    <3> QED  BY <2>2, <3>1
  <2> QED  BY <2>1, <2>2 DEF Recorded
<1>2. BrowserInv /\ [B!Next]_B!vars => BrowserInv'  BY BrowserInvInduct
<1> QED  BY <1>1, <1>2, BrowserInvStarts, PTL DEF B!Spec

\* The shared record is not written over by another browser's, and goes only when
\* it is marked for deletion or its browser has ended (_create_and_commit, the two
\* locks of a promotion, _delete_if).
THEOREM SharedStaysShared == B!Spec => SharedIsNotReplaced
<1>1. BrowserInv /\ [B!Next]_B!vars => BrowserInv'  BY BrowserInvInduct
<1>2. BrowserInv /\ [B!Next]_B!vars =>
        (store[Reuse] # NoRec /\ store'[Reuse] # store[Reuse] =>
          IF store'[Reuse] # NoRec THEN store'[Reuse].sid = store[Reuse].sid
          ELSE store[Reuse].pending \/ store[Reuse].sid \notin alive)
  BY BrowserInvInduct, SharedStays
<1>3. BrowserInv /\ [B!Next]_B!vars =>
        [LET r == store[Reuse] IN
           r # NoRec /\ store'[Reuse] # r =>
             IF store'[Reuse] # NoRec THEN store'[Reuse].sid = r.sid
             ELSE r.pending \/ r.sid \notin alive]_B!vars
  BY <1>2
<1> QED  BY <1>1, <1>3, BrowserInvStarts, PTL DEF B!Spec, SharedIsNotReplaced, B!SharedIsNotReplaced

-----------------------------------------------------------------------------
(* Chat streams: what a replay reads.                                      *)

ChunkRows == [index: Nat, bodies: Seq(Nat)]

\* The rows of a stream hold the chunks 1..n, each once and in order: cut says
\* where each row ends, and rows are numbered as they were inserted.
Ranged(R, n) ==
  /\ R \in Seq(ChunkRows) /\ n \in Nat
  /\ \E cut \in [0..Len(R) -> Nat] :
       /\ cut[0] = 0 /\ cut[Len(R)] = n
       /\ \A k \in 1..Len(R) :
            /\ k <= cut[k] /\ cut[k - 1] <= cut[k] /\ R[k].index = k - 1
            /\ Len(R[k].bodies) = cut[k] - cut[k - 1]
            /\ \A j \in 1..(cut[k] - cut[k - 1]) : R[k].bodies[j] = cut[k - 1] + j

LEMMA StreamConstants == NoRequest \notin Requests /\ MaxChunks \in Nat
BY MCStreamsAssumption DEF S!ChatStreamsAssumption

\* A set of numbers that is not empty has a least one.
LEMMA Least ==
  ASSUME NEW T \in SUBSET Nat, T # {}
  PROVE  \E x \in T : \A y \in T : x <= y
<1> DEFINE Less == OpToRel(<, Nat)
<1>1. IsWellFoundedOn(Less, Nat)  BY NatLessThanWellFounded
<1>2. \A x, y \in Nat : x < y => <<x, y>> \in Less  BY DEF OpToRel
<1> HIDE DEF Less
<1>3. PICK x \in T : \A y \in T : ~(<<y, x>> \in Less)  BY <1>1, WFMin
<1>4. ASSUME NEW y \in T  PROVE x <= y
  <2>1. ~(<<y, x>> \in Less)  BY <1>3
  <2>2. x \in Nat /\ y \in Nat  OBVIOUS
  <2>3. ~(y < x)  BY <1>2, <2>1, <2>2
  <2> QED  BY <2>2, <2>3
<1> QED  BY <1>4

\* The function that a page's definition asks for exists: take the least length
\* for which there is none.
LEMMA PageIs ==
  ASSUME NEW R, Len(R) \in Nat, NEW i, NEW before
  PROVE  \E g : /\ S!Page(R, i, before) = g[Len(R)] /\ g[0] = before
                /\ \A k \in 1..Len(R) :
                     g[k] = IF R[k].index = i THEN g[k - 1] \o R[k].bodies ELSE g[k - 1]
<1> DEFINE Up(k, x) == IF R[k].index = i THEN x \o R[k].bodies ELSE x
           Is(g, n) == g = [k \in 0..n |-> IF k = 0 THEN before ELSE Up(k, g[k - 1])]
           N == Len(R)
           T == {n \in Nat : ~\E g : Is(g, n)}
<1>1. S!Page(R, i, before) = (CHOOSE g : Is(g, N))[N]  BY DEF S!Page
<1>2. N \in Nat  OBVIOUS
<1> HIDE DEF Up, N
<1>3. T = {}
  <2> SUFFICES ASSUME T # {}  PROVE FALSE  OBVIOUS
  <2>1. PICK n \in T : \A y \in T : n <= y  BY Least
  <2>2. n # 0
    <3> DEFINE g == [k \in 0..0 |-> before]
    <3>1. Is(g, 0)  OBVIOUS
    <3> QED  BY <3>1, <2>1
  <2>3. n - 1 \in Nat /\ ~(n <= n - 1) /\ n \in Nat  BY <2>2
  <2>4. PICK g : Is(g, n - 1)  BY <2>1, <2>3
  <2> DEFINE h == [k \in 0..n |-> IF k = n THEN Up(n, g[n - 1]) ELSE g[k]]
  <2>5. Is(h, n)
    <3> SUFFICES ASSUME NEW k \in 0..n  PROVE h[k] = IF k = 0 THEN before ELSE Up(k, h[k - 1])  OBVIOUS
    <3>1. CASE k = 0  BY <3>1, <2>3, <2>4
    <3>2. CASE k # 0 /\ k # n
      <4>1. k - 1 \in 0..(n - 1) /\ k - 1 \in 0..n /\ k \in 0..(n - 1) /\ k - 1 # n  BY <3>2, <2>3
      <4> QED  BY <4>1, <3>2, <2>4
    <3>3. CASE k = n
      <4>1. k - 1 \in 0..n /\ k - 1 # n  BY <3>3, <2>3
      <4> QED  BY <4>1, <3>3, <2>2
    <3> QED  BY <3>1, <3>2, <3>3
  <2> QED  BY <2>5, <2>1
<1>4. \E g : Is(g, N)  BY <1>2, <1>3
<1> HIDE DEF T
<1>5. PICK g : g = CHOOSE f : Is(f, N)  OBVIOUS
<1>6. Is(g, N)  BY <1>4, <1>5
<1>7. g[0] = before  BY <1>2, <1>6
<1>8. \A k \in 1..N : g[k] = Up(k, g[k - 1])
  <2> SUFFICES ASSUME NEW k \in 1..N  PROVE g[k] = Up(k, g[k - 1])  OBVIOUS
  <2>1. k \in 0..N /\ k # 0  BY <1>2
  <2> QED  BY <1>6, <2>1
<1>9. S!Page(R, i, before) = g[N]  BY <1>1, <1>5
<1>10. /\ S!Page(R, i, before) = g[Len(R)] /\ g[0] = before
       /\ \A k \in 1..Len(R) : g[k] = IF R[k].index = i THEN g[k - 1] \o R[k].bodies ELSE g[k - 1]
  BY <1>7, <1>8, <1>9 DEF Up, N
<1> QED  BY <1>10

\* With rows numbered as they were inserted a page is one row.
LEMMA PageIsRow ==
  ASSUME NEW R, Len(R) \in Nat, \A k \in 1..Len(R) : R[k].index = k - 1,
         NEW i \in Nat, NEW before
  PROVE  S!Page(R, i, before) = IF i < Len(R) THEN before \o R[i + 1].bodies ELSE before
<1>1. PICK g : /\ S!Page(R, i, before) = g[Len(R)] /\ g[0] = before
               /\ \A k \in 1..Len(R) : g[k] = IF R[k].index = i THEN g[k - 1] \o R[k].bodies ELSE g[k - 1]
  BY PageIs, SMT
<1> DEFINE N == Len(R)
           So(k) == IF k <= i THEN before ELSE before \o R[i + 1].bodies
           T == {k \in 0..N : g[k] # So(k)}
<1>2. T = {}
  <2> SUFFICES ASSUME T # {}  PROVE FALSE  OBVIOUS
  <2>1. T \in SUBSET Nat  OBVIOUS
  <2> HIDE DEF So, T
  <2>2. PICK k \in T : \A y \in T : k <= y  BY <2>1, Least
  <2>3. k \in 0..N /\ g[k] # So(k)  BY <2>2 DEF T
  <2>4. k # 0  BY <1>1, <2>3 DEF So
  <2>5. k - 1 \in 0..N /\ ~(k <= k - 1) /\ k \in 1..N  BY <2>3, <2>4
  <2>6. g[k - 1] = So(k - 1)  BY <2>2, <2>5 DEF T
  <2>7. R[k].index = k - 1  BY <2>5
  <2>8. CASE k - 1 = i
    <3>1. g[k] = g[k - 1] \o R[k].bodies  BY <1>1, <2>5, <2>7, <2>8
    <3>2. k = i + 1 /\ ~(k <= i) /\ k - 1 <= i  BY <2>5, <2>8
    <3> QED  BY <2>3, <2>6, <3>1, <3>2 DEF So
  <2>9. CASE k - 1 # i
    <3>1. g[k] = g[k - 1] /\ (k <= i <=> k - 1 <= i)  BY <1>1, <2>5, <2>7, <2>9
    <3> QED  BY <2>3, <2>6, <3>1 DEF So
  <2> QED  BY <2>8, <2>9
<1>3. g[N] = So(N)  BY <1>2
<1> HIDE DEF N
<1>4. N \in Nat  BY DEF N
<1> QED  BY <1>1, <1>3, <1>4 DEF N

\* The next chunks behind those there were.
LEMMA ChunksGrow ==
  ASSUME NEW a \in Nat, NEW b \in Nat, a <= b, NEW next \in Seq(Nat), Len(next) = b - a,
         \A j \in 1..(b - a) : next[j] = a + j
  PROVE  S!Chunks(a) \o next = S!Chunks(b)
<1> DEFINE A == S!Chunks(a)
           B0 == S!Chunks(b)
           C == A \o next
<1>1. A \in Seq(Nat) /\ Len(A) = a /\ \A j \in 1..a : A[j] = j  BY DEF S!Chunks
<1>2. B0 \in Seq(Nat) /\ Len(B0) = b /\ \A j \in 1..b : B0[j] = j  BY DEF S!Chunks
<1> HIDE DEF A, B0
<1>3. C \in Seq(Nat) /\ Len(C) = b
      /\ \A j \in 1..b : C[j] = IF j <= a THEN A[j] ELSE next[j - a]
  BY <1>1, ConcatProperties
<1> HIDE DEF C
<1>4. \A j \in 1..b : C[j] = B0[j]
  <2> SUFFICES ASSUME NEW j \in 1..b  PROVE C[j] = j  BY <1>2
  <2>1. CASE j <= a  BY <1>1, <1>3, <2>1
  <2>2. CASE ~(j <= a)
    <3>1. j - a \in 1..(b - a)  BY <2>2
    <3>2. next[j - a] = a + (j - a)  BY <3>1
    <3>3. C[j] = next[j - a] /\ a + (j - a) = j  BY <1>3, <2>2
    <3> QED  BY <3>2, <3>3
  <2> QED  BY <2>1, <2>2
<1>5. C = B0  BY <1>2, <1>3, <1>4, SeqEqual
<1> QED  BY <1>5 DEF C, A, B0

LEMMA ReplayIs ==
  ASSUME NEW r
  PROVE  \E g : /\ S!ReplayOf(r) = g[MaxChunks] /\ g[0] = S!Page(chunks[r], 0, <<>>)
                /\ \A k \in 1..MaxChunks : g[k] = S!Page(chunks[r], k, g[k - 1])
<1> DEFINE R == chunks[r]
           Is(g, n) == g = [i \in 0..n |-> S!Page(R, i, IF i = 0 THEN <<>> ELSE g[i - 1])]
           T == {n \in Nat : ~\E g : Is(g, n)}
<1>1. S!ReplayOf(r) = (CHOOSE g : Is(g, MaxChunks))[MaxChunks]  BY DEF S!ReplayOf
<1>2. MaxChunks \in Nat  BY StreamConstants
<1> HIDE DEF R
<1>3. T = {}
  <2> SUFFICES ASSUME T # {}  PROVE FALSE  OBVIOUS
  <2>1. PICK n \in T : \A y \in T : n <= y  BY Least
  <2>2. n # 0
    <3> DEFINE g == [k \in 0..0 |-> S!Page(R, 0, <<>>)]
    <3>1. Is(g, 0)  OBVIOUS
    <3> QED  BY <3>1, <2>1
  <2>3. n - 1 \in Nat /\ ~(n <= n - 1) /\ n \in Nat  BY <2>2
  <2>4. PICK g : Is(g, n - 1)  BY <2>1, <2>3
  <2> DEFINE h == [k \in 0..n |-> IF k = n THEN S!Page(R, n, g[n - 1]) ELSE g[k]]
  <2>5. Is(h, n)
    <3> SUFFICES ASSUME NEW k \in 0..n  PROVE h[k] = S!Page(R, k, IF k = 0 THEN <<>> ELSE h[k - 1])
      OBVIOUS
    <3>1. CASE k = 0  BY <3>1, <2>3, <2>4
    <3>2. CASE k # 0 /\ k # n
      <4>1. k - 1 \in 0..(n - 1) /\ k - 1 \in 0..n /\ k \in 0..(n - 1) /\ k - 1 # n  BY <3>2, <2>3
      <4> QED  BY <4>1, <3>2, <2>4
    <3>3. CASE k = n
      <4>1. k - 1 \in 0..n /\ k - 1 # n  BY <3>3, <2>3
      <4> QED  BY <4>1, <3>3, <2>2
    <3> QED  BY <3>1, <3>2, <3>3
  <2> QED  BY <2>5, <2>1
<1>4. \E g : Is(g, MaxChunks)  BY <1>2, <1>3
<1> HIDE DEF T
<1>5. PICK g : g = CHOOSE f : Is(f, MaxChunks)  OBVIOUS
<1>6. Is(g, MaxChunks)  BY <1>4, <1>5
<1>7. g[0] = S!Page(R, 0, <<>>)  BY <1>2, <1>6
<1>8. \A k \in 1..MaxChunks : g[k] = S!Page(R, k, g[k - 1])
  <2> SUFFICES ASSUME NEW k \in 1..MaxChunks  PROVE g[k] = S!Page(R, k, g[k - 1])  OBVIOUS
  <2>1. k \in 0..MaxChunks /\ k # 0  BY <1>2
  <2> QED  BY <1>6, <2>1
<1>9. S!ReplayOf(r) = g[MaxChunks]  BY <1>1, <1>5
<1>10. /\ S!ReplayOf(r) = g[MaxChunks] /\ g[0] = S!Page(chunks[r], 0, <<>>)
       /\ \A k \in 1..MaxChunks : g[k] = S!Page(chunks[r], k, g[k - 1])
  BY <1>7, <1>8, <1>9 DEF R
<1> QED  BY <1>10

\* A replay of rows in order is every chunk, once and in order.
LEMMA ReplayIsAll ==
  ASSUME NEW r, NEW n, Ranged(chunks[r], n), n <= MaxChunks
  PROVE  S!ReplayOf(r) = S!Chunks(n)
<1> DEFINE R == chunks[r]
           N == Len(R)
<1>1. R \in Seq(ChunkRows) /\ n \in Nat /\ N \in Nat  BY DEF Ranged
<1>2. PICK cut \in [0..N -> Nat] :
        /\ cut[0] = 0 /\ cut[N] = n
        /\ \A k \in 1..N :
             /\ k <= cut[k] /\ cut[k - 1] <= cut[k] /\ R[k].index = k - 1
             /\ Len(R[k].bodies) = cut[k] - cut[k - 1]
             /\ \A j \in 1..(cut[k] - cut[k - 1]) : R[k].bodies[j] = cut[k - 1] + j
  BY DEF Ranged
<1>3. PICK g : /\ S!ReplayOf(r) = g[MaxChunks] /\ g[0] = S!Page(R, 0, <<>>)
               /\ \A k \in 1..MaxChunks : g[k] = S!Page(R, k, g[k - 1])
  BY ReplayIs, SMT
<1>4. MaxChunks \in Nat  BY StreamConstants
<1>5. N <= n
  <2>1. CASE N = 0  BY <1>1, <2>1
  <2>2. CASE N # 0
    <3>1. N \in 1..N  BY <1>1, <2>2
    <3> QED  BY <1>2, <3>1
  <2> QED  BY <2>1, <2>2
<1>6. ASSUME NEW k \in 1..N
      PROVE  R[k].bodies \in Seq(Nat) /\ cut[k] \in Nat /\ cut[k - 1] \in Nat
  <2>1. R[k] \in ChunkRows  BY <1>1
  <2>2. k \in 0..N /\ k - 1 \in 0..N  BY <1>1
  <2> QED  BY <1>2, <2>1, <2>2 DEF ChunkRows
<1>7. ASSUME NEW i \in Nat, NEW before
      PROVE  S!Page(R, i, before) = IF i < N THEN before \o R[i + 1].bodies ELSE before
  <2>1. \A k \in 1..N : R[k].index = k - 1  BY <1>2
  <2> HIDE DEF R
  <2> QED  BY <1>1, <2>1, PageIsRow, SMT DEF N
<1> HIDE DEF R, N
<1>8. ASSUME NEW i \in Nat, i < N
      PROVE  S!Page(R, i, S!Chunks(cut[i])) = S!Chunks(cut[i + 1])
  <2>1. i + 1 \in 1..N /\ (i + 1) - 1 = i  BY <1>1, <1>8
  <2>2. cut[i] \in Nat /\ cut[i + 1] \in Nat /\ R[i + 1].bodies \in Seq(Nat)  BY <1>6, <2>1
  <2>3. /\ cut[i] <= cut[i + 1] /\ Len(R[i + 1].bodies) = cut[i + 1] - cut[i]
        /\ \A j \in 1..(cut[i + 1] - cut[i]) : R[i + 1].bodies[j] = cut[i] + j
    BY <1>2, <2>1
  <2>4. S!Chunks(cut[i]) \o R[i + 1].bodies = S!Chunks(cut[i + 1])  BY <2>2, <2>3, ChunksGrow
  <2> QED  BY <1>7, <1>8, <2>4
<1>9. S!Chunks(0) = <<>>  BY DEF S!Chunks
<1> DEFINE So(k) == IF k < N THEN S!Chunks(cut[k + 1]) ELSE S!Chunks(n)
           T == {k \in 0..MaxChunks : g[k] # So(k)}
<1>10. T = {}
  <2> SUFFICES ASSUME T # {}  PROVE FALSE  OBVIOUS
  <2>1. T \in SUBSET Nat  OBVIOUS
  <2> HIDE DEF So, T
  <2>2. PICK k \in T : \A y \in T : k <= y  BY <2>1, Least
  <2>3. k \in 0..MaxChunks /\ g[k] # So(k) /\ k \in Nat  BY <1>4, <2>2 DEF T
  <2>4. g[k] = S!Page(R, k, IF k = 0 THEN S!Chunks(0) ELSE So(k - 1))
    <3>1. CASE k = 0  BY <1>3, <1>9, <3>1
    <3>2. CASE k # 0
      <4>1. k - 1 \in 0..MaxChunks /\ ~(k <= k - 1) /\ k \in 1..MaxChunks  BY <1>4, <2>3, <3>2
      <4>2. g[k - 1] = So(k - 1)  BY <2>2, <4>1 DEF T
      <4> QED  BY <1>3, <3>2, <4>1, <4>2
    <3> QED  BY <3>1, <3>2
  <2>5. CASE k < N
    <3>1. (IF k = 0 THEN S!Chunks(0) ELSE So(k - 1)) = S!Chunks(cut[k])
      <4>1. CASE k = 0  BY <1>2, <4>1
      <4>2. CASE k # 0
        <5>1. k - 1 < N /\ (k - 1) + 1 = k  BY <1>1, <2>3, <2>5
        <5> QED  BY <4>2, <5>1 DEF So
      <4> QED  BY <4>1, <4>2
    <3>2. So(k) = S!Chunks(cut[k + 1])  BY <2>5 DEF So
    <3> QED  BY <1>8, <2>3, <2>4, <2>5, <3>1, <3>2
  <2>6. CASE ~(k < N)
    <3>1. (IF k = 0 THEN S!Chunks(0) ELSE So(k - 1)) = S!Chunks(n)
      <4>1. CASE k = 0
        <5>1. N = 0  BY <1>1, <2>6, <4>1
        <5> QED  BY <1>2, <4>1, <5>1
      <4>2. CASE k # 0 /\ k = N
        <5>1. k - 1 < N /\ (k - 1) + 1 = N  BY <1>1, <4>2
        <5> QED  BY <1>2, <4>2, <5>1 DEF So
      <4>3. CASE k # 0 /\ k # N
        <5>1. ~(k - 1 < N)  BY <1>1, <2>3, <2>6, <4>3
        <5> QED  BY <4>3, <5>1 DEF So
      <4> QED  BY <4>1, <4>2, <4>3
    <3>2. So(k) = S!Chunks(n)  BY <2>6 DEF So
    <3> QED  BY <1>7, <2>3, <2>4, <2>6, <3>1, <3>2
  <2> QED  BY <2>5, <2>6
<1>11. g[MaxChunks] = So(MaxChunks)  BY <1>4, <1>10
<1>12. ~(MaxChunks < N)  BY <1>1, <1>4, <1>5
<1> QED  BY <1>3, <1>11, <1>12

LEMMA ChunkMore ==
  ASSUME NEW n \in Nat
  PROVE  Append(S!Chunks(n), n + 1) = S!Chunks(n + 1)
<1> DEFINE A == S!Chunks(n)
           B0 == S!Chunks(n + 1)
           C == Append(A, n + 1)
<1>1. A \in Seq(Nat) /\ Len(A) = n /\ \A j \in 1..n : A[j] = j  BY DEF S!Chunks
<1>2. B0 \in Seq(Nat) /\ Len(B0) = n + 1 /\ \A j \in 1..(n + 1) : B0[j] = j  BY DEF S!Chunks
<1> HIDE DEF A, B0
<1>3. C \in Seq(Nat) /\ Len(C) = n + 1 /\ \A j \in 1..(n + 1) : C[j] = IF j <= n THEN A[j] ELSE n + 1
  BY <1>1
<1> HIDE DEF C
<1>4. \A j \in 1..(n + 1) : C[j] = B0[j]  BY <1>1, <1>2, <1>3
<1>5. C = B0  BY <1>2, <1>3, <1>4, SeqEqual
<1> QED  BY <1>5 DEF C, A, B0

\* The next chunk in a row of its own.
LEMMA RangedRow ==
  ASSUME NEW R, NEW n, Ranged(R, n), NEW new, new = Append(R, [index |-> Len(R), bodies |-> <<n + 1>>])
  PROVE  Ranged(new, n + 1) /\ Len(new) = Len(R) + 1
<1> DEFINE N == Len(R)
           fresh == [index |-> N, bodies |-> <<n + 1>>]
<1>1. R \in Seq(ChunkRows) /\ n \in Nat /\ N \in Nat  BY DEF Ranged
<1>2. PICK cut \in [0..N -> Nat] :
        /\ cut[0] = 0 /\ cut[N] = n
        /\ \A k \in 1..N :
             /\ k <= cut[k] /\ cut[k - 1] <= cut[k] /\ R[k].index = k - 1
             /\ Len(R[k].bodies) = cut[k] - cut[k - 1]
             /\ \A j \in 1..(cut[k] - cut[k - 1]) : R[k].bodies[j] = cut[k - 1] + j
  BY DEF Ranged
<1>3. fresh \in ChunkRows /\ fresh.index = N /\ Len(fresh.bodies) = 1 /\ fresh.bodies[1] = n + 1
  BY <1>1 DEF ChunkRows
<1> HIDE DEF fresh, N
<1>4. /\ new \in Seq(ChunkRows) /\ Len(new) = N + 1 /\ new[N + 1] = fresh
      /\ \A k \in 1..N : new[k] = R[k]
  BY <1>1, <1>3 DEF N, fresh
<1>5. N <= n
  <2>1. CASE N = 0  BY <1>1, <2>1
  <2>2. CASE N # 0
    <3>1. N \in 1..N  BY <1>1, <2>2
    <3> QED  BY <1>2, <3>1
  <2> QED  BY <2>1, <2>2
<1> DEFINE cuts == [k \in 0..(N + 1) |-> IF k = N + 1 THEN n + 1 ELSE cut[k]]
<1>6. cuts \in [0..(N + 1) -> Nat] /\ \A k \in 0..(N + 1) : cuts[k] = IF k = N + 1 THEN n + 1 ELSE cut[k]
  BY <1>1
<1> HIDE DEF cuts
<1>7. cuts[0] = 0 /\ cuts[N + 1] = n + 1 /\ cuts[N] = n
  BY <1>1, <1>2, <1>6
<1>8. ASSUME NEW k \in 1..(N + 1)
      PROVE  /\ k <= cuts[k] /\ cuts[k - 1] <= cuts[k] /\ new[k].index = k - 1
             /\ Len(new[k].bodies) = cuts[k] - cuts[k - 1]
             /\ \A j \in 1..(cuts[k] - cuts[k - 1]) : new[k].bodies[j] = cuts[k - 1] + j
  <2>1. CASE k = N + 1
    <3>1. cuts[k] = n + 1 /\ cuts[k - 1] = n /\ new[k] = fresh /\ k - 1 = N  BY <1>1, <1>4, <1>7, <2>1
    <3>2. cuts[k] - cuts[k - 1] = 1  BY <1>1, <3>1
    <3>3. k <= n + 1 /\ n <= n + 1  BY <1>1, <1>5, <2>1
    <3>4. \A j \in 1..1 : fresh.bodies[j] = n + j  BY <1>3
    <3> QED  BY <1>3, <3>1, <3>2, <3>3, <3>4
  <2>2. CASE k # N + 1
    <3>1. k \in 1..N /\ k \in 0..(N + 1) /\ k - 1 \in 0..(N + 1) /\ k - 1 # N + 1  BY <1>1, <2>2
    <3>2. cuts[k] = cut[k] /\ cuts[k - 1] = cut[k - 1] /\ new[k] = R[k]  BY <1>4, <1>6, <2>2, <3>1
    <3> QED  BY <1>2, <3>1, <3>2
  <2> QED  BY <2>1, <2>2
<1> QED  BY <1>1, <1>4, <1>6, <1>7, <1>8, SMTT(30) DEF Ranged, N

LEMMA OneLonger == \A n, x \in Nat : (n + 1) - x = (n - x) + 1 /\ x + ((n - x) + 1) = n + 1
OBVIOUS

\* The next chunk in the last row.
LEMMA RangedMore ==
  ASSUME NEW R, NEW n, Ranged(R, n), Len(R) # 0,
         NEW new, new = [R EXCEPT ![Len(R)].bodies = Append(@, n + 1)]
  PROVE  Ranged(new, n + 1) /\ Len(new) = Len(R)
<1> DEFINE N == Len(R)
           more == Append(R[N].bodies, n + 1)
           fresh == [R[N] EXCEPT !.bodies = more]
<1>1. R \in Seq(ChunkRows) /\ n \in Nat /\ N \in Nat /\ N \in 1..N  BY DEF Ranged
<1>2. PICK cut \in [0..N -> Nat] :
        /\ cut[0] = 0 /\ cut[N] = n
        /\ \A k \in 1..N :
             /\ k <= cut[k] /\ cut[k - 1] <= cut[k] /\ R[k].index = k - 1
             /\ Len(R[k].bodies) = cut[k] - cut[k - 1]
             /\ \A j \in 1..(cut[k] - cut[k - 1]) : R[k].bodies[j] = cut[k - 1] + j
  BY DEF Ranged
<1>3. R[N] \in ChunkRows /\ R[N].bodies \in Seq(Nat)
  <2>1. R[N] \in ChunkRows  BY <1>1
  <2> QED  BY <2>1 DEF ChunkRows
<1> DEFINE m == Len(R[N].bodies)
<1>4. more \in Seq(Nat) /\ m \in Nat /\ Len(more) = m + 1 /\ more[m + 1] = n + 1 /\ \A j \in 1..m : more[j] = R[N].bodies[j]
  BY <1>1, <1>3
<1> HIDE DEF more, m
<1>5. fresh \in ChunkRows /\ fresh.index = R[N].index /\ fresh.bodies = more
  BY <1>3, <1>4 DEF ChunkRows
<1>6. new = [R EXCEPT ![N] = fresh]  BY <1>1 DEF more
<1> HIDE DEF fresh, N
<1>7. /\ new \in Seq(ChunkRows) /\ Len(new) = N /\ new[N] = fresh
      /\ \A k \in 1..N : k # N => new[k] = R[k]
  <2>1. N \in 1..Len(R)  BY <1>1 DEF N
  <2>2. /\ [R EXCEPT ![N] = fresh] \in Seq(ChunkRows) /\ Len([R EXCEPT ![N] = fresh]) = Len(R)
        /\ \A j \in 1..Len(R) : [R EXCEPT ![N] = fresh][j] = IF j = N THEN fresh ELSE R[j]
    BY <1>1, <1>5, <2>1, ExceptSeq, SMT
  <2>3. N = Len(R)  BY DEF N
  <2> QED  BY <1>1, <1>6, <2>2, <2>3
<1>8. cut[N - 1] \in Nat /\ cut[N] = n /\ m = n - cut[N - 1]
  BY <1>1, <1>2 DEF m
<1> DEFINE cuts == [k \in 0..N |-> IF k = N THEN n + 1 ELSE cut[k]]
<1>9. cuts \in [0..N -> Nat] /\ \A k \in 0..N : cuts[k] = IF k = N THEN n + 1 ELSE cut[k]
  BY <1>1
<1> HIDE DEF cuts
<1>10. cuts[0] = 0 /\ cuts[N] = n + 1 /\ cuts[N - 1] = cut[N - 1]
  <2>1. 0 \in 0..N /\ N \in 0..N /\ N - 1 \in 0..N /\ N # 0 /\ N - 1 # N  BY <1>1
  <2>2. cut[0] = 0  BY <1>2
  <2>3. \A k \in 0..N : cuts[k] = IF k = N THEN n + 1 ELSE cut[k]  BY <1>9
  <2> QED  BY <2>1, <2>2, <2>3
<1>11. ASSUME NEW k \in 1..N
       PROVE  /\ k <= cuts[k] /\ cuts[k - 1] <= cuts[k] /\ new[k].index = k - 1
              /\ Len(new[k].bodies) = cuts[k] - cuts[k - 1]
              /\ \A j \in 1..(cuts[k] - cuts[k - 1]) : new[k].bodies[j] = cuts[k - 1] + j
  <2>1. CASE k = N
    <3>1. cuts[k] = n + 1 /\ cuts[k - 1] = cut[N - 1] /\ new[k].bodies = more /\ new[k].index = R[N].index
      BY <1>5, <1>7, <1>10, <2>1
    <3>2. cuts[k] - cuts[k - 1] = m + 1 /\ cut[N - 1] + (m + 1) = n + 1
      <4>1. \A x \in Nat : (n + 1) - x = (n - x) + 1 /\ x + ((n - x) + 1) = n + 1
        BY <1>1, OneLonger
      <4>2. cut[N - 1] \in Nat /\ m = n - cut[N - 1]  BY <1>8
      <4> HIDE DEF m
      <4> QED  BY <3>1, <4>1, <4>2
    <3>3. N <= n /\ cut[N - 1] <= n /\ R[N].index = N - 1  BY <1>1, <1>2
    <3>4. \A j \in 1..m : R[N].bodies[j] = cut[N - 1] + j  BY <1>1, <1>2, <1>8
    <3>5. ASSUME NEW j \in 1..(m + 1)  PROVE more[j] = cut[N - 1] + j
      <4>1. CASE j = m + 1  BY <1>4, <3>2, <4>1
      <4>2. CASE j # m + 1
        <5>1. j \in 1..m  BY <1>4, <4>2
        <5> QED  BY <1>4, <3>4, <5>1
      <4> QED  BY <4>1, <4>2
    <3>6. k <= n + 1 /\ cut[N - 1] <= n + 1  BY <1>1, <1>8, <2>1, <3>3
    <3>7. k - 1 = N - 1  BY <2>1
    <3> QED  BY <1>4, <3>1, <3>2, <3>3, <3>5, <3>6, <3>7
  <2>2. CASE k # N
    <3>1. k \in 0..N /\ k - 1 \in 0..N /\ k - 1 # N  BY <1>1
    <3>2. cuts[k] = cut[k] /\ cuts[k - 1] = cut[k - 1] /\ new[k] = R[k]  BY <1>7, <1>9, <2>2, <3>1
    <3> QED  BY <1>2, <3>1, <3>2
  <2> QED  BY <2>1, <2>2
<1>12. new \in Seq(ChunkRows) /\ n + 1 \in Nat /\ Len(new) = N  BY <1>1, <1>7
<1>13. /\ cuts \in [0..Len(new) -> Nat] /\ cuts[0] = 0 /\ cuts[Len(new)] = n + 1
       /\ \A k \in 1..Len(new) :
            /\ k <= cuts[k] /\ cuts[k - 1] <= cuts[k] /\ new[k].index = k - 1
            /\ Len(new[k].bodies) = cuts[k] - cuts[k - 1]
            /\ \A j \in 1..(cuts[k] - cuts[k - 1]) : new[k].bodies[j] = cuts[k - 1] + j
  BY <1>9, <1>10, <1>11, <1>12
<1>14. Ranged(new, n + 1)  BY <1>12, <1>13 DEF Ranged
<1> QED  BY <1>12, <1>14 DEF N

-----------------------------------------------------------------------------
(* Chat streams: the inductive invariant.                                  *)

OrNone == Requests \union {NoRequest}
StreamTypes ==
  /\ status \in [Requests -> {"none", "streaming", "completed", "error"}]
  /\ turn \in [Requests -> {"idle", "accepted", "streaming", "lost", "over"}]
  /\ emitted \in [Requests -> 0..MaxChunks] /\ order \in Seq(Requests) /\ live \in BOOLEAN
  /\ terminal \in OrNone /\ active \in OrNone
  /\ pending \in [Tabs -> OrNone] /\ offered \in [Tabs -> OrNone]
  /\ inbox \in [Tabs -> {<<>>} \union {<<x>> : x \in OrNone}]
  /\ joined \in [Tabs -> SUBSET Requests] /\ done \in [Tabs -> SUBSET Requests]
  /\ DOMAIN chunks = Requests /\ DOMAIN view = Tabs /\ \A c \in Tabs : DOMAIN view[c] = Requests

Begun(r) == turn[r] \notin {"idle", "accepted"}
Underway(r) == turn[r] = "streaming" /\ r \notin cancelled

OneRuns == \A q, r \in Requests : turn[q] = "streaming" /\ turn[r] = "streaming" => q = r

\* A stream under way is the active one, and its rows go on where it is; of a
\* request that has not begun nothing is there; rows are in order unless a
\* cancel ended the stream under its turn.
RequestOK(r) ==
  /\ turn[r] = "streaming" => terminal = NoRequest
  /\ turn[r] = "streaming" /\ r \in cancelled => active # r
  /\ active = r /\ live => Underway(r)
  /\ Underway(r) =>
       /\ active = r /\ live /\ status[r] = "streaming" /\ r \notin told /\ r \notin late
       /\ index = Len(chunks[r]) /\ segment \in {0, Len(chunks[r])}
  /\ ~Begun(r) =>
       /\ status[r] = "none" /\ chunks[r] = <<>> /\ emitted[r] = 0
       /\ r \notin told /\ r \notin late /\ r \notin cancelled
       /\ active # r /\ terminal # r /\ \A i \in DOMAIN order : order[i] # r
  /\ r \notin late /\ status[r] # "none" => Ranged(chunks[r], emitted[r])

\* A tab that is part of a stream under way hears it, one that was offered it does
\* not until it is let in; what a tab that was let in has is all of the stream.
TabOK(c, r) ==
  /\ r \in joined[c] /\ Underway(r) => pending[c] = NoRequest
  /\ r \in joined[c] /\ ~Underway(r) => r \in done[c]
  /\ Underway(r) /\ (offered[c] = r \/ inbox[c] = <<r>>) => pending[c] = r
  /\ r \notin late /\ inbox[c] = <<r>> => view[c][r] = <<>>
  /\ r \in joined[c] /\ r \notin late /\ status[r] # "none" => view[c][r] = S!Chunks(emitted[r])
  /\ c \notin open => inbox[c] = <<>> /\ offered[c] = NoRequest /\ r \notin joined[c] /\ c \notin parked
  /\ inbox[c] # <<>> \/ c \in parked => offered[c] = NoRequest
  /\ c \in parked => inbox[c] = <<>>
  /\ ~Begun(r) =>
       pending[c] # r /\ offered[c] # r /\ inbox[c] # <<r>> /\ r \notin joined[c] /\ view[c][r] = <<>>

StreamInv ==
  /\ StreamTypes /\ OneRuns
  /\ \A r \in Requests : RequestOK(r)
  /\ \A c \in Tabs, r \in Requests : TabOK(c, r)

LEMMA StreamsInit == S!Init => StreamInv
<1> SUFFICES ASSUME S!Init  PROVE StreamInv  OBVIOUS
<1>1. StreamTypes
  <2>1. /\ 0 \in 0..MaxChunks /\ <<>> \in Seq(Requests)  BY StreamConstants
  <2> QED  BY <2>1 DEF S!Init, StreamTypes, OrNone
<1>2. OneRuns  BY DEF S!Init, OneRuns
<1>3. ASSUME NEW r \in Requests  PROVE RequestOK(r)
  <2>1. r # NoRequest  BY StreamConstants
  <2> QED  BY <2>1 DEF S!Init, RequestOK, Underway, Begun
<1>4. ASSUME NEW c \in Tabs, NEW r \in Requests  PROVE TabOK(c, r)
  <2>1. r # NoRequest  BY StreamConstants
  <2> QED  BY <2>1 DEF S!Init, TabOK, Underway, Begun
<1> QED  BY <1>1, <1>2, <1>3, <1>4 DEF StreamInv

streams == <<status, chunks, order, terminal, active, live, index, segment, turn, emitted,
             cancelled, late, told>>

\* Steps that only the tabs take part in.
LEMMA TabMoves ==
  ASSUME StreamInv, UNCHANGED streams,
         pending' \in [Tabs -> OrNone], offered' \in [Tabs -> OrNone],
         inbox' \in [Tabs -> {<<>>} \union {<<x>> : x \in OrNone}],
         joined' \in [Tabs -> SUBSET Requests], done' \in [Tabs -> SUBSET Requests],
         DOMAIN view' = Tabs, \A c \in Tabs : DOMAIN view'[c] = Requests,
         \A c \in Tabs, r \in Requests : TabOK(c, r)'
  PROVE  StreamInv'
<1>1. StreamTypes'  BY DEF StreamInv, StreamTypes, streams
<1>2. OneRuns'  BY DEF StreamInv, OneRuns, streams
<1>3. ASSUME NEW r \in Requests  PROVE RequestOK(r)'
  <2>1. RequestOK(r)  BY DEF StreamInv
  <2> QED  BY <2>1 DEF RequestOK, Underway, Begun, streams
<1> QED  BY <1>1, <1>2, <1>3 DEF StreamInv

LEMMA ProbesKeep ==
  ASSUME StreamInv, NEW t \in Tabs, S!Probes(t)
  PROVE  StreamInv'
<1>1. UNCHANGED streams /\ UNCHANGED <<pending, offered, joined, done, view, parked>>
      /\ open' = open \union {t} /\ inbox' = [inbox EXCEPT ![t] = <<NoRequest>>] /\ inbox[t] = <<>>
      /\ offered[t] = NoRequest /\ t \notin parked
  BY DEF S!Probes, streams, S!tableVars, S!memoryVars, S!turnVars, S!offerVars
<1>2. StreamTypes  BY DEF StreamInv
<1>3. inbox' \in [Tabs -> {<<>>} \union {<<x>> : x \in OrNone}]  BY <1>1, <1>2 DEF StreamTypes, OrNone
<1>4. ASSUME NEW c \in Tabs, NEW r \in Requests  PROVE TabOK(c, r)'
  <2>1. TabOK(c, r) /\ r # NoRequest  BY StreamConstants DEF StreamInv
  <2>2. inbox'[c] = IF c = t THEN <<NoRequest>> ELSE inbox[c]  BY <1>1, <1>2 DEF StreamTypes
  <2> QED  BY <1>1, <2>1, <2>2 DEF TabOK, Underway, Begun, streams
<1> QED  BY <1>1, <1>2, <1>3, <1>4, TabMoves DEF StreamTypes

LEMMA DisconnectsKeep ==
  ASSUME StreamInv, NEW t \in Tabs, S!Disconnects(t)
  PROVE  StreamInv'
<1>1. /\ UNCHANGED streams /\ open' = open \ {t} /\ parked' = parked \ {t}
      /\ inbox' = [inbox EXCEPT ![t] = <<>>] /\ offered' = [offered EXCEPT ![t] = NoRequest]
      /\ pending' = [c \in Tabs |-> IF c \in {t} THEN NoRequest ELSE pending[c]]
      /\ view' = [view EXCEPT ![t] = [r \in Requests |-> <<>>]]
      /\ joined' = [joined EXCEPT ![t] = {}] /\ done' = [done EXCEPT ![t] = {}]
  BY DEF S!Disconnects, S!Drop, streams, S!tableVars, S!memoryVars, S!turnVars
<1>2. StreamTypes  BY DEF StreamInv
<1>3. /\ pending' \in [Tabs -> OrNone] /\ offered' \in [Tabs -> OrNone]
      /\ inbox' \in [Tabs -> {<<>>} \union {<<x>> : x \in OrNone}]
      /\ joined' \in [Tabs -> SUBSET Requests] /\ done' \in [Tabs -> SUBSET Requests]
      /\ DOMAIN view' = Tabs /\ \A c \in Tabs : DOMAIN view'[c] = Requests
  BY <1>1, <1>2 DEF StreamTypes, OrNone
<1>4. ASSUME NEW c \in Tabs, NEW r \in Requests  PROVE TabOK(c, r)'
  <2>1. TabOK(c, r) /\ r # NoRequest  BY StreamConstants DEF StreamInv
  <2>2. CASE c = t
    <3>1. /\ inbox'[c] = <<>> /\ offered'[c] = NoRequest /\ pending'[c] = NoRequest
          /\ view'[c][r] = <<>> /\ joined'[c] = {} /\ c \notin parked'
      BY <1>1, <1>2, <2>2 DEF StreamTypes
    <3> QED  BY <1>1, <2>1, <3>1 DEF TabOK, Underway, Begun, streams
  <2>3. CASE c # t
    <3>1. /\ inbox'[c] = inbox[c] /\ offered'[c] = offered[c] /\ pending'[c] = pending[c]
          /\ view'[c] = view[c] /\ joined'[c] = joined[c] /\ done'[c] = done[c]
          /\ (c \in parked' <=> c \in parked) /\ (c \in open' <=> c \in open)
      BY <1>1, <1>2, <2>3 DEF StreamTypes
    <3> QED  BY <1>1, <2>1, <3>1 DEF TabOK, Underway, Begun, streams
  <2> QED  BY <2>2, <2>3
<1> QED  BY <1>1, <1>3, <1>4, TabMoves

LEMMA ProbeArrivesKeeps ==
  ASSUME StreamInv, NEW t \in Tabs, S!ProbeArrives(t)
  PROVE  StreamInv'
<1> DEFINE what == IF active # NoRequest THEN active ELSE terminal
<1>1. /\ UNCHANGED streams /\ UNCHANGED <<open, view, done>>
      /\ inbox[t] = <<NoRequest>> /\ inbox' = [inbox EXCEPT ![t] = <<>>]
      /\ IF what # NoRequest THEN S!Offer({t}, what) /\ UNCHANGED parked
         ELSE parked' \subseteq parked \union {t} /\ UNCHANGED <<pending, offered, joined>>
  BY DEF S!ProbeArrives, streams, S!tableVars, S!memoryVars, S!turnVars
<1>2. StreamTypes  BY DEF StreamInv
<1>3. what \in OrNone  BY <1>2 DEF StreamTypes
<1>4. /\ inbox' \in [Tabs -> {<<>>} \union {<<x>> : x \in OrNone}]
      /\ pending' \in [Tabs -> OrNone] /\ offered' \in [Tabs -> OrNone] /\ joined' \in [Tabs -> SUBSET Requests]
  <2>1. inbox' \in [Tabs -> {<<>>} \union {<<x>> : x \in OrNone}]  BY <1>1, <1>2 DEF StreamTypes
  <2> HIDE DEF what
  <2>2. CASE what # NoRequest
    <3>1. /\ pending' = [c \in Tabs |-> IF c \in {t} THEN what ELSE pending[c]]
          /\ offered' = [c \in Tabs |-> IF c \in {t} THEN what ELSE offered[c]]
          /\ joined' = [c \in Tabs |-> IF c \in {t} THEN joined[c] \ {what} ELSE joined[c]]
      BY <1>1, <2>2 DEF S!Offer
    <3> QED  BY <1>2, <1>3, <2>1, <3>1 DEF StreamTypes
  <2>3. CASE what = NoRequest  BY <1>1, <1>2, <2>1, <2>3 DEF StreamTypes
  <2> QED  BY <2>2, <2>3
<1>5. ASSUME NEW c \in Tabs, NEW r \in Requests  PROVE TabOK(c, r)'
  <2>1. TabOK(c, r) /\ RequestOK(r) /\ r # NoRequest  BY StreamConstants DEF StreamInv
  <2>2. inbox'[c] = IF c = t THEN <<>> ELSE inbox[c]  BY <1>1, <1>2 DEF StreamTypes
  <2>3. t \in open
    <3>1. inbox[t] # <<>>  BY <1>1
    <3> QED  BY <3>1 DEF StreamInv, TabOK
  <2>4. Underway(r) => what = r  BY <2>1 DEF RequestOK
  <2>5. ~Begun(r) => what # r  BY <2>1 DEF RequestOK
  <2> HIDE DEF what
  <2>6. CASE what # NoRequest /\ c = t
    <3>1. pending'[c] = what /\ offered'[c] = what /\ joined'[c] = joined[c] \ {what}
      BY <1>1, <2>6 DEF S!Offer
    <3> QED  BY <1>1, <2>1, <2>2, <2>3, <2>4, <2>5, <2>6, <3>1 DEF TabOK, Underway, Begun, streams
  <2>7. CASE what = NoRequest \/ c # t
    <3>1. pending'[c] = pending[c] /\ offered'[c] = offered[c] /\ joined'[c] = joined[c]
          /\ (c \in parked' => c \in parked \/ c = t)
      BY <1>1, <1>2, <2>7 DEF S!Offer, StreamTypes
    <3> QED  BY <1>1, <2>1, <2>2, <2>3, <2>7, <3>1 DEF TabOK, Underway, Begun, streams
  <2> QED  BY <2>6, <2>7
<1> HIDE DEF what
<1> QED  BY <1>1, <1>2, <1>4, <1>5, TabMoves DEF StreamTypes

LEMMA SendsAckKeeps ==
  ASSUME StreamInv, NEW t \in Tabs, S!SendsAck(t)
  PROVE  StreamInv'
<1> DEFINE x == offered[t]
<1>1. /\ UNCHANGED streams /\ UNCHANGED <<open, pending, parked>> /\ x # NoRequest
      /\ inbox' = [inbox EXCEPT ![t] = <<x>>] /\ offered' = [offered EXCEPT ![t] = NoRequest]
      /\ view' = [view EXCEPT ![t] = [view[t] EXCEPT ![x] = <<>>]]
      /\ joined' = [joined EXCEPT ![t] = joined[t] \ {x}] /\ done' = [done EXCEPT ![t] = done[t] \ {x}]
  BY DEF S!SendsAck, streams, S!tableVars, S!memoryVars, S!turnVars, S!offerVars
<1>2. StreamTypes /\ x \in Requests  BY <1>1 DEF StreamInv, StreamTypes, OrNone
<1> HIDE DEF x
<1>3. /\ offered' \in [Tabs -> OrNone]
      /\ inbox' \in [Tabs -> {<<>>} \union {<<y>> : y \in OrNone}]
      /\ joined' \in [Tabs -> SUBSET Requests] /\ done' \in [Tabs -> SUBSET Requests]
      /\ DOMAIN view' = Tabs /\ \A c \in Tabs : DOMAIN view'[c] = Requests
  BY <1>1, <1>2 DEF StreamTypes, OrNone
<1>4. ASSUME NEW c \in Tabs, NEW r \in Requests  PROVE TabOK(c, r)'
  <2>1. TabOK(c, r) /\ r # NoRequest  BY StreamConstants DEF StreamInv
  <2>2. CASE c = t
    <3>1. /\ inbox'[c] = <<x>> /\ offered'[c] = NoRequest /\ offered[c] = x
          /\ view'[c][r] = (IF r = x THEN <<>> ELSE view[c][r])
          /\ joined'[c] = joined[c] \ {x} /\ done'[c] = done[c] \ {x}
      BY <1>1, <1>2, <2>2 DEF StreamTypes, x
    <3> QED  BY <1>1, <2>1, <3>1 DEF TabOK, Underway, Begun, streams
  <2>3. CASE c # t
    <3>1. /\ inbox'[c] = inbox[c] /\ offered'[c] = offered[c] /\ view'[c] = view[c]
          /\ joined'[c] = joined[c] /\ done'[c] = done[c]
      BY <1>1, <1>2, <2>3 DEF StreamTypes
    <3> QED  BY <1>1, <2>1, <3>1 DEF TabOK, Underway, Begun, streams
  <2> QED  BY <2>2, <2>3
<1> QED  BY <1>1, <1>2, <1>3, <1>4, TabMoves DEF StreamTypes

-----------------------------------------------------------------------------
(* Chat streams: steps that end the stream of r.                           *)

\* What such a step does to the requests.
Closing(r) ==
  /\ UNCHANGED <<chunks, order, emitted, late>>
  /\ status' \in [Requests -> {"none", "streaming", "completed", "error"}]
  /\ turn' \in [Requests -> {"idle", "accepted", "streaming", "lost", "over"}]
  /\ \A q \in Requests : q # r => status'[q] = status[q] /\ turn'[q] = turn[q]
  /\ status'[r] = "none" <=> status[r] = "none"
  /\ \A q \in Requests : turn'[q] = "streaming" => turn[q] = "streaming" /\ terminal' = terminal
  /\ \/ UNCHANGED <<active, live, index>> /\ segment' \in {0, segment}
     \/ active' = NoRequest /\ live' = FALSE /\ \A q \in Requests : Underway(q) => q = r
  /\ terminal' \in {terminal, r} /\ told' \subseteq told \union {r}
  /\ cancelled \subseteq cancelled' /\ cancelled' \subseteq cancelled \union {r}
  /\ Begun(r)' /\ ~Underway(r)'
  /\ turn'[r] = "streaming" => active' # r
  /\ ~(active' = r /\ live')

\* And to the tab c: it may be offered e once nothing is under way.
Lets(c, r, e) ==
  /\ open' = open /\ inbox'[c] \in {inbox[c], <<>>}
  /\ c \in parked' => c \in parked
  /\ \/ pending'[c] = pending[c] /\ offered'[c] = offered[c] /\ joined'[c] = joined[c]
     \/ /\ c \in parked /\ e # NoRequest /\ \A q \in Requests : ~Underway(q)'
        /\ c \notin parked' /\ e \in Requests /\ Begun(e)'
        /\ pending'[c] = e /\ offered'[c] = e /\ joined'[c] = joined[c] \ {e}
  /\ done[c] \subseteq done'[c]
  /\ Underway(r) /\ r \in joined'[c] => r \in done'[c]

LEMMA EndsRequests ==
  ASSUME StreamInv, NEW r \in Requests, Closing(r)
  PROVE  OneRuns' /\ \A q \in Requests : RequestOK(q)'
<1>1. OneRuns'
  <2>1. \A q \in Requests : turn'[q] = "streaming" => turn[q] = "streaming"  BY DEF Closing
  <2> QED  BY <2>1 DEF StreamInv, OneRuns
<1>2. ASSUME NEW q \in Requests  PROVE RequestOK(q)'
  <2>1. RequestOK(q) /\ q # NoRequest /\ r # NoRequest  BY StreamConstants DEF StreamInv
  <2>2. CASE q = r
    <3>1. ~Underway(q)' /\ Begun(q)' /\ ~(active' = q /\ live')
          /\ (turn'[q] = "streaming" => terminal' = terminal /\ turn[q] = "streaming" /\ active' # q)
      BY <2>2 DEF Closing
    <3>2. /\ chunks' = chunks /\ emitted' = emitted /\ late' = late
          /\ (status'[q] = "none" <=> status[q] = "none")
      BY <2>2 DEF Closing
    <3> QED  BY <2>1, <3>1, <3>2 DEF RequestOK, Begun
  <2>3. CASE q # r
    <3>1. /\ turn'[q] = turn[q] /\ status'[q] = status[q]
          /\ (q \in cancelled' <=> q \in cancelled) /\ (q \in told' => q \in told)
          /\ (terminal' = q => terminal = q) /\ (turn'[q] = "streaming" => terminal' = terminal)
          /\ UNCHANGED <<chunks, order, emitted, late>>
      BY <2>1, <2>3 DEF Closing
    <3>2. (Underway(q)' <=> Underway(q)) /\ (Begun(q)' <=> Begun(q))  BY <3>1 DEF Underway, Begun
    <3>3. CASE UNCHANGED <<active, live, index>> /\ segment' \in {0, segment}
      BY <2>1, <3>1, <3>2, <3>3 DEF RequestOK
    <3>4. CASE active' = NoRequest /\ live' = FALSE /\ ~Underway(q)
      BY <2>1, <3>1, <3>2, <3>4 DEF RequestOK
    <3> QED  BY <2>3, <3>3, <3>4 DEF Closing
  <2> QED  BY <2>2, <2>3
<1> QED  BY <1>1, <1>2

LEMMA EndsTab ==
  ASSUME StreamInv, NEW r \in Requests, Closing(r), NEW c \in Tabs, NEW e, Lets(c, r, e),
         view'[c] = view[c], NEW q \in Requests
  PROVE  TabOK(c, q)'
<1>1. TabOK(c, q) /\ q # NoRequest  BY StreamConstants DEF StreamInv
<1>2. UNCHANGED <<emitted, late>> /\ (status'[q] = "none" <=> status[q] = "none")
  BY DEF Closing
<1>3. Underway(q)' => Underway(q) /\ q # r  BY DEF Closing, Underway
<1>4. ~Underway(q)' => ~Underway(q) \/ q = r  BY DEF Closing, Underway
<1>5. ~Begun(q)' => ~Begun(q)  BY DEF Closing, Begun
<1>6. CASE pending'[c] = pending[c] /\ offered'[c] = offered[c] /\ joined'[c] = joined[c]
  BY <1>1, <1>2, <1>3, <1>4, <1>5, <1>6 DEF TabOK, Lets
<1>7. CASE /\ c \in parked /\ e # NoRequest /\ ~Underway(q)'
           /\ c \notin parked' /\ e \in Requests /\ Begun(e)'
           /\ pending'[c] = e /\ offered'[c] = e /\ joined'[c] = joined[c] \ {e}
  <2>1. inbox[c] = <<>> /\ inbox'[c] = <<>> /\ c \in open /\ open' = open
    BY <1>1, <1>7 DEF TabOK, Lets
  <2>2. ~Begun(q)' => e # q  BY <1>7
  <2> QED  BY <1>1, <1>2, <1>3, <1>4, <1>5, <1>7, <2>1, <2>2 DEF TabOK, Lets
<1> QED  BY <1>6, <1>7 DEF Lets

TabTypes ==
  /\ pending \in [Tabs -> OrNone] /\ offered \in [Tabs -> OrNone]
  /\ inbox \in [Tabs -> {<<>>} \union {<<x>> : x \in OrNone}]
  /\ joined \in [Tabs -> SUBSET Requests] /\ done \in [Tabs -> SUBSET Requests]

LEMMA EndsKeep ==
  ASSUME StreamInv, NEW r \in Requests, Closing(r), TabTypes',
         DOMAIN view' = Tabs, \A c \in Tabs : DOMAIN view'[c] = Requests,
         \A c \in Tabs, q \in Requests : TabOK(c, q)'
  PROVE  StreamInv'
<1>1. StreamTypes'
  <2>1. StreamTypes  BY DEF StreamInv
  <2>2. /\ status' \in [Requests -> {"none", "streaming", "completed", "error"}]
        /\ turn' \in [Requests -> {"idle", "accepted", "streaming", "lost", "over"}]
        /\ UNCHANGED <<emitted, order, chunks>>
    BY DEF Closing
  <2>3. live' \in BOOLEAN /\ active' \in OrNone /\ terminal' \in OrNone
    BY <2>1 DEF Closing, StreamTypes, OrNone
  <2> QED  BY <2>1, <2>2, <2>3 DEF StreamTypes, TabTypes
<1> QED  BY <1>1, EndsRequests DEF StreamInv

LEMMA Finished ==
  ASSUME StreamInv, NEW r \in Requests, NEW how \in {"completed", "error"}, S!Finish(r, how)
  PROVE  /\ status' \in [Requests -> {"none", "streaming", "completed", "error"}]
         /\ \A q \in Requests : q # r => status'[q] = status[q]
         /\ status'[r] = "none" <=> status[r] = "none"
         /\ \/ UNCHANGED <<active, live, index>> /\ segment' \in {0, segment}
            \/ active' = NoRequest /\ live' = FALSE /\ \A q \in Requests : Underway(q) => q = r
         /\ active' # r
<1>1. StreamTypes  BY DEF StreamInv
<1>2. status' = [status EXCEPT ![r] = IF status[r] = "none" THEN status[r] ELSE how]
  BY DEF S!Finish, S!Ended
<1>3. \A q \in Requests : Underway(q) => active = q  BY DEF StreamInv, RequestOK
<1>4. r # NoRequest  BY StreamConstants
<1>5. CASE active = r
  <2>1. active' = NoRequest /\ live' = FALSE  BY <1>5 DEF S!Finish, S!ClearActive
  <2> QED  BY <1>1, <1>2, <1>3, <1>4, <1>5, <2>1 DEF StreamTypes
<1>6. CASE active # r
  <2>1. UNCHANGED <<active, live, index>> /\ segment' = 0  BY <1>6 DEF S!Finish
  <2> QED  BY <1>1, <1>2, <1>3, <1>4, <1>6, <2>1 DEF StreamTypes
<1> QED  BY <1>5, <1>6

LEMMA BroadcastTells ==
  ASSUME StreamInv, NEW r \in Requests, S!BroadcastTerminal(r)
  PROVE  /\ told' \subseteq told \union {r} /\ done' \in [Tabs -> SUBSET Requests]
         /\ \A c \in Tabs : /\ done[c] \subseteq done'[c]
                            /\ Underway(r) /\ r \in joined[c] => r \in done'[c]
<1>1. StreamTypes /\ RequestOK(r)  BY DEF StreamInv
<1>2. CASE r \in told
  <2>1. UNCHANGED <<told, done>>  BY <1>2 DEF S!BroadcastTerminal
  <2> QED  BY <1>1, <1>2, <2>1 DEF StreamTypes, RequestOK
<1>3. CASE r \notin told
  <2>1. /\ told' = told \union {r}
        /\ done' = [c \in Tabs |-> IF c \in S!Hears /\ r \in joined[c] THEN done[c] \union {r} ELSE done[c]]
    BY <1>3 DEF S!BroadcastTerminal, S!Told
  <2>2. ASSUME NEW c \in Tabs, Underway(r), r \in joined[c]  PROVE c \in S!Hears
    <3>1. TabOK(c, r)  BY DEF StreamInv
    <3> QED  BY <2>2, <3>1 DEF TabOK, S!Hears
  <2> QED  BY <1>1, <2>1, <2>2 DEF StreamTypes
<1> QED  BY <1>2, <1>3

LEMMA SettlesLets ==
  ASSUME StreamInv, NEW r \in Requests, NEW e \in OrNone, S!Settles(r, e)
  PROVE  /\ pending' \in [Tabs -> OrNone] /\ offered' \in [Tabs -> OrNone]
         /\ joined' \in [Tabs -> SUBSET Requests]
         /\ \A c \in Tabs :
              /\ c \in parked' => c \in parked
              /\ \/ pending'[c] = pending[c] /\ offered'[c] = offered[c] /\ joined'[c] = joined[c]
                 \/ /\ c \in parked /\ e # NoRequest /\ c \notin parked'
                    /\ pending'[c] = e /\ offered'[c] = e /\ joined'[c] = joined[c] \ {e}
<1>1. StreamTypes  BY DEF StreamInv
<1>2. CASE accepted \subseteq {r} /\ e # NoRequest
  <2>1. /\ parked' = {}
        /\ pending' = [c \in Tabs |-> IF c \in parked THEN e ELSE pending[c]]
        /\ offered' = [c \in Tabs |-> IF c \in parked THEN e ELSE offered[c]]
        /\ joined' = [c \in Tabs |-> IF c \in parked THEN joined[c] \ {e} ELSE joined[c]]
    BY <1>2 DEF S!Settles, S!Offer
  <2> QED  BY <1>1, <1>2, <2>1 DEF StreamTypes
<1>3. CASE ~(accepted \subseteq {r} /\ e # NoRequest)
  <2>1. UNCHANGED <<pending, offered, joined>> /\ (parked' = {} \/ parked' = parked)
    BY <1>3 DEF S!Settles
  <2> QED  BY <1>1, <2>1 DEF StreamTypes
<1> QED  BY <1>2, <1>3

LEMMA StartFailsKeeps ==
  ASSUME StreamInv, NEW r \in Requests, S!StartFails(r)
  PROVE  StreamInv'
<1>1. /\ turn[r] = "accepted" /\ \A q \in Requests : turn[q] # "streaming"
      /\ turn' = [turn EXCEPT ![r] = "over"] /\ terminal' = r
      /\ active' = NoRequest /\ live' = FALSE /\ S!Settles(r, r)
      /\ UNCHANGED <<status, chunks, order, emitted, cancelled, late, told, inbox, open, view, done>>
  BY DEF S!StartFails, S!ClearActive
<1>2. StreamTypes /\ r # NoRequest /\ r \in OrNone  BY StreamConstants DEF StreamInv, OrNone
<1>3. Closing(r)
  <2>1. \A q \in Requests : turn'[q] = IF q = r THEN "over" ELSE turn[q]  BY <1>1, <1>2 DEF StreamTypes
  <2> QED  BY <1>1, <1>2, <2>1 DEF Closing, StreamTypes, Underway, Begun
<1>4. ASSUME NEW c \in Tabs, NEW q \in Requests  PROVE TabOK(c, q)'
  <2>1. Lets(c, r, r)
    <3>1. \A p \in Requests : ~Underway(p)'  BY <1>1, <1>2 DEF Underway, StreamTypes
    <3>2. Begun(r)' /\ ~Underway(r)  BY <1>1, <1>3 DEF Closing, Underway
    <3> QED  BY <1>1, <1>2, <3>1, <3>2, SettlesLets DEF Lets
  <2> QED  BY <1>1, <1>3, <2>1, EndsTab
<1>5. TabTypes'  BY <1>1, <1>2, SettlesLets DEF StreamTypes, TabTypes
<1> QED  BY <1>1, <1>2, <1>3, <1>4, <1>5, EndsKeep DEF StreamTypes

\* The two ends of a turn of its own: e is the error kept for tabs to come.
LEMMA TurnEnds ==
  ASSUME StreamInv, NEW r \in Requests, turn[r] = "streaming",
         turn' = [turn EXCEPT ![r] = "over"], NEW how \in {"completed", "error"}, S!Finish(r, how),
         NEW e \in {NoRequest, r}, terminal' \in {terminal, r}, S!BroadcastTerminal(r), S!Settles(r, e),
         UNCHANGED <<chunks, order, emitted, cancelled, late, inbox, open, view>>
  PROVE  StreamInv'
<1>1. StreamTypes /\ r # NoRequest /\ e \in OrNone  BY StreamConstants DEF StreamInv, OrNone
<1>2. \A q \in Requests : turn'[q] = IF q = r THEN "over" ELSE turn[q]  BY <1>1 DEF StreamTypes
<1>3. \A q \in Requests : turn'[q] # "streaming"
  <2>1. \A q \in Requests : turn[q] = "streaming" => q = r  BY DEF StreamInv, OneRuns
  <2> QED  BY <1>2, <2>1
<1>4. Closing(r)
  <2>1. Begun(r)' /\ ~Underway(r)'  BY <1>2 DEF Begun, Underway
  <2>2. told' \subseteq told \union {r}  BY BroadcastTells
  <2>3. turn' \in [Requests -> {"idle", "accepted", "streaming", "lost", "over"}]  BY <1>1 DEF StreamTypes
  <2>4. /\ status' \in [Requests -> {"none", "streaming", "completed", "error"}]
        /\ \A q \in Requests : q # r => status'[q] = status[q]
        /\ status'[r] = "none" <=> status[r] = "none"
        /\ \/ UNCHANGED <<active, live, index>> /\ segment' \in {0, segment}
           \/ active' = NoRequest /\ live' = FALSE /\ \A q \in Requests : Underway(q) => q = r
        /\ active' # r
    BY Finished
  <2>5. UNCHANGED <<chunks, order, emitted, cancelled, late>>  OBVIOUS
  <2> QED  BY <1>2, <1>3, <2>1, <2>2, <2>3, <2>4, <2>5 DEF Closing
<1>5. ASSUME NEW c \in Tabs, NEW q \in Requests  PROVE TabOK(c, q)'
  <2>1. Lets(c, r, e)
    <3>1. \A p \in Requests : ~Underway(p)'  BY <1>3 DEF Underway
    <3>2. Begun(r)'  BY <1>4 DEF Closing
    <3>3. /\ c \in parked' => c \in parked
          /\ \/ pending'[c] = pending[c] /\ offered'[c] = offered[c] /\ joined'[c] = joined[c]
             \/ /\ c \in parked /\ e # NoRequest /\ c \notin parked'
                /\ pending'[c] = e /\ offered'[c] = e /\ joined'[c] = joined[c] \ {e}
      BY <1>1, SettlesLets
    <3>4. done[c] \subseteq done'[c] /\ (Underway(r) /\ r \in joined[c] => r \in done'[c])
      BY BroadcastTells
    <3>5. r \in joined'[c] => r \in joined[c]  BY <3>3
    <3> QED  BY <3>1, <3>2, <3>3, <3>4, <3>5 DEF Lets
  <2> QED  BY <1>4, <2>1, EndsTab
<1>6. TabTypes'  BY <1>1, SettlesLets, BroadcastTells DEF StreamTypes, TabTypes
<1> QED  BY <1>1, <1>4, <1>5, <1>6, EndsKeep DEF StreamTypes

LEMMA CompletesKeeps ==
  ASSUME StreamInv, NEW r \in Requests, S!Completes(r)
  PROVE  StreamInv'
<1>1. terminal = NoRequest  BY DEF S!Completes, StreamInv, RequestOK
<1> QED  BY <1>1, TurnEnds DEF S!Completes

LEMMA FailsKeeps ==
  ASSUME StreamInv, NEW r \in Requests, S!Fails(r)
  PROVE  StreamInv'
BY TurnEnds DEF S!Fails

\* A step that leaves what the tabs were offered alone.
LEMMA EndsQuietly ==
  ASSUME StreamInv, NEW r \in Requests, Closing(r), done' \in [Tabs -> SUBSET Requests],
         \A c \in Tabs : done[c] \subseteq done'[c] /\ (Underway(r) /\ r \in joined[c] => r \in done'[c]),
         UNCHANGED <<pending, parked, inbox, open, offered, view, joined>>
  PROVE  StreamInv'
<1>1. StreamTypes  BY DEF StreamInv
<1>2. ASSUME NEW c \in Tabs, NEW q \in Requests  PROVE TabOK(c, q)'
  <2>1. Lets(c, r, r)  BY DEF Lets
  <2> QED  BY <2>1, EndsTab
<1>3. TabTypes'  BY <1>1 DEF StreamTypes, TabTypes
<1> QED  BY <1>1, <1>2, <1>3, EndsKeep DEF StreamTypes

LEMMA CancelsKeeps ==
  ASSUME StreamInv, NEW r \in Requests, S!Cancels(r)
  PROVE  StreamInv'
<1>1. /\ turn[r] = "streaming" /\ cancelled' = cancelled \union {r} /\ S!BroadcastTerminal(r)
      /\ IF active = r THEN S!Finish(r, "completed")
         ELSE UNCHANGED <<status, active, live, index, segment>>
      /\ UNCHANGED <<chunks, order, terminal, turn, emitted, late, pending, parked, inbox, open, offered,
                     view, joined>>
  BY DEF S!Cancels, S!memoryVars, S!offerVars
<1>2. StreamTypes  BY DEF StreamInv
<1>3. active' # r /\ Begun(r)' /\ ~Underway(r)'  BY <1>1, Finished DEF Begun, Underway
<1>4. Closing(r)
  <2>1. told' \subseteq told \union {r}  BY <1>1, BroadcastTells
  <2>2. /\ status' \in [Requests -> {"none", "streaming", "completed", "error"}]
        /\ \A q \in Requests : q # r => status'[q] = status[q]
        /\ status'[r] = "none" <=> status[r] = "none"
        /\ \/ UNCHANGED <<active, live, index>> /\ segment' \in {0, segment}
           \/ active' = NoRequest /\ live' = FALSE /\ \A q \in Requests : Underway(q) => q = r
    BY <1>1, <1>2, Finished DEF StreamTypes
  <2> QED  BY <1>1, <1>2, <1>3, <2>1, <2>2 DEF Closing, StreamTypes
<1> QED  BY <1>1, <1>4, BroadcastTells, EndsQuietly

LEMMA RecoveryEndsKeeps ==
  ASSUME StreamInv, NEW r \in Requests, S!RecoveryEnds(r)
  PROVE  StreamInv'
<1>1. /\ turn[r] = "lost" /\ turn' = [turn EXCEPT ![r] = "over"]
      /\ \/ S!Finish(r, "completed") /\ S!BroadcastTerminal(r)
         \/ status' = S!Ended(r, "error") /\ segment' = 0 /\ UNCHANGED <<active, live, index, told, done>>
         \/ UNCHANGED <<status, active, live, index, segment, told, done>>
      /\ UNCHANGED <<chunks, order, terminal, emitted, cancelled, late, pending, parked, inbox, open,
                     offered, view, joined>>
  BY DEF S!RecoveryEnds, S!memoryVars, S!offerVars
<1>2. StreamTypes /\ RequestOK(r)  BY DEF StreamInv
<1>3. ~Underway(r) /\ ~(active = r /\ live)  BY <1>1, <1>2 DEF Underway, RequestOK
<1>4. \A q \in Requests : turn'[q] = IF q = r THEN "over" ELSE turn[q]  BY <1>1, <1>2 DEF StreamTypes
<1>5. Begun(r)' /\ ~Underway(r)'  BY <1>4 DEF Begun, Underway
<1>6. /\ status' \in [Requests -> {"none", "streaming", "completed", "error"}]
      /\ \A q \in Requests : q # r => status'[q] = status[q]
      /\ status'[r] = "none" <=> status[r] = "none"
      /\ \/ UNCHANGED <<active, live, index>> /\ segment' \in {0, segment}
         \/ active' = NoRequest /\ live' = FALSE /\ \A q \in Requests : Underway(q) => q = r
      /\ ~(active' = r /\ live')
      /\ told' \subseteq told \union {r} /\ done' \in [Tabs -> SUBSET Requests]
      /\ \A c \in Tabs : done[c] \subseteq done'[c]
  <2>1. CASE S!Finish(r, "completed") /\ S!BroadcastTerminal(r)  BY <2>1, Finished, BroadcastTells
  <2>2. CASE /\ status' = S!Ended(r, "error") /\ segment' = 0
             /\ UNCHANGED <<active, live, index, told, done>>
    BY <1>2, <1>3, <2>2 DEF S!Ended, StreamTypes
  <2>3. CASE UNCHANGED <<status, active, live, index, segment, told, done>>
    BY <1>2, <1>3, <2>3 DEF StreamTypes
  <2> QED  BY <1>1, <2>1, <2>2, <2>3
<1>7. turn' \in [Requests -> {"idle", "accepted", "streaming", "lost", "over"}]  BY <1>1, <1>2 DEF StreamTypes
<1>8. Closing(r)  BY <1>1, <1>4, <1>5, <1>6, <1>7 DEF Closing
<1> QED  BY <1>1, <1>3, <1>6, <1>8, EndsQuietly

-----------------------------------------------------------------------------
(* Chat streams: the answers of the tabs.                                  *)

LEMMA AllChunks ==
  ASSUME StreamInv, NEW t \in Tabs, NEW r \in Requests, inbox[t] = <<r>>,
         r \notin late, status[r] # "none"
  PROVE  view[t][r] \o S!ReplayOf(r) = S!Chunks(emitted[r])
<1>1. StreamTypes /\ RequestOK(r) /\ TabOK(t, r)  BY DEF StreamInv
<1>2. view[t][r] = <<>> /\ Ranged(chunks[r], emitted[r])  BY <1>1 DEF TabOK, RequestOK
<1>3. emitted[r] \in Nat /\ emitted[r] <= MaxChunks  BY <1>1, StreamConstants DEF StreamTypes
<1>4. S!ReplayOf(r) = S!Chunks(emitted[r])  BY <1>2, <1>3, ReplayIsAll
<1>5. S!Chunks(emitted[r]) \in Seq(Nat)  BY <1>3 DEF S!Chunks
<1> QED  BY <1>2, <1>4, <1>5

\* A tab is let in: it is then part of the stream with all its chunks, or has its end.
LEMMA Admits ==
  ASSUME StreamInv, NEW t \in Tabs, NEW r \in Requests, inbox[t] = <<r>>,
         inbox' = [inbox EXCEPT ![t] = <<>>], pending' = [pending EXCEPT ![t] = NoRequest],
         \/ UNCHANGED <<view, joined>>
         \/ /\ view' = [view EXCEPT ![t] = [view[t] EXCEPT ![r] = view[t][r] \o S!ReplayOf(r)]]
            /\ joined' = [joined EXCEPT ![t] = joined[t] \union {r}],
         \/ done' = done /\ Underway(r)
         \/ done' = [done EXCEPT ![t] = done[t] \union {r}],
         UNCHANGED streams \/ (Closing(r) /\ ~Underway(r)),
         UNCHANGED <<turn, cancelled, open, offered, parked>>
  PROVE  StreamInv'
<1>1. StreamTypes /\ r # NoRequest  BY StreamConstants DEF StreamInv
<1>2. UNCHANGED <<emitted, late>> /\ \A q \in Requests : status'[q] = "none" <=> status[q] = "none"
  BY DEF Closing, streams
<1>3. \A q \in Requests : (Underway(q)' <=> Underway(q)) /\ (Begun(q)' <=> Begun(q))
  BY DEF Underway, Begun
<1>4. /\ TabTypes' /\ DOMAIN view' = Tabs /\ \A c \in Tabs : DOMAIN view'[c] = Requests
      /\ \A c \in Tabs : /\ inbox'[c] = IF c = t THEN <<>> ELSE inbox[c]
                         /\ pending'[c] = IF c = t THEN NoRequest ELSE pending[c]
                         /\ done[c] \subseteq done'[c]
      /\ Underway(r) \/ r \in done'[t]
      /\ \A c \in Tabs : c # t => view'[c] = view[c] /\ joined'[c] = joined[c]
      /\ \A q \in Requests : q # r => view'[t][q] = view[t][q] /\ (q \in joined'[t] <=> q \in joined[t])
      /\ \/ view'[t][r] = view[t][r] /\ (r \in joined'[t] <=> r \in joined[t])
         \/ view'[t][r] = view[t][r] \o S!ReplayOf(r)
  <2>1. pending' \in [Tabs -> OrNone]  BY <1>1 DEF StreamTypes, OrNone
  <2>2. inbox' \in [Tabs -> {<<>>} \union {<<x>> : x \in OrNone}]  BY <1>1 DEF StreamTypes
  <2>3. done' \in [Tabs -> SUBSET Requests] /\ \A c \in Tabs : done[c] \subseteq done'[c]
    <3>1. CASE done' = done  BY <1>1, <3>1 DEF StreamTypes
    <3>2. CASE done' = [done EXCEPT ![t] = done[t] \union {r}]
      <4>1. \A c \in Tabs : done'[c] = IF c = t THEN done[t] \union {r} ELSE done[c]
        BY <1>1, <3>2 DEF StreamTypes
      <4> QED  BY <1>1, <3>2, <4>1 DEF StreamTypes
    <3> QED  BY <3>1, <3>2
  <2>4. Underway(r) \/ r \in done'[t]  BY <1>1 DEF StreamTypes
  <2>5. /\ joined' \in [Tabs -> SUBSET Requests]
        /\ DOMAIN view' = Tabs /\ \A c \in Tabs : DOMAIN view'[c] = Requests
        /\ \A c \in Tabs : c # t => view'[c] = view[c] /\ joined'[c] = joined[c]
        /\ \A q \in Requests : q # r => view'[t][q] = view[t][q] /\ (q \in joined'[t] <=> q \in joined[t])
        /\ \/ view'[t][r] = view[t][r] /\ (r \in joined'[t] <=> r \in joined[t])
           \/ view'[t][r] = view[t][r] \o S!ReplayOf(r)
    <3>1. CASE UNCHANGED <<view, joined>>  BY <1>1, <3>1 DEF StreamTypes
    <3>2. CASE /\ view' = [view EXCEPT ![t] = [view[t] EXCEPT ![r] = view[t][r] \o S!ReplayOf(r)]]
               /\ joined' = [joined EXCEPT ![t] = joined[t] \union {r}]
      <4>1. \A c \in Tabs : joined'[c] = IF c = t THEN joined[t] \union {r} ELSE joined[c]
        BY <1>1, <3>2 DEF StreamTypes
      <4>2. joined' \in [Tabs -> SUBSET Requests]  BY <1>1, <3>2, <4>1 DEF StreamTypes
      <4>3. /\ DOMAIN view' = Tabs /\ \A c \in Tabs : DOMAIN view'[c] = Requests
            /\ \A c \in Tabs : c # t => view'[c] = view[c]
            /\ \A q \in Requests : q # r => view'[t][q] = view[t][q]
            /\ view'[t][r] = view[t][r] \o S!ReplayOf(r)
        BY <1>1, <3>2 DEF StreamTypes
      <4> QED  BY <4>1, <4>2, <4>3
    <3> QED  BY <3>1, <3>2
  <2>6. offered' \in [Tabs -> OrNone]  BY <1>1 DEF StreamTypes
  <2>7. \A c \in Tabs : /\ inbox'[c] = IF c = t THEN <<>> ELSE inbox[c]
                        /\ pending'[c] = IF c = t THEN NoRequest ELSE pending[c]
    BY <1>1 DEF StreamTypes
  <2> QED  BY <2>1, <2>2, <2>3, <2>4, <2>5, <2>6, <2>7 DEF TabTypes
<1>5. ASSUME NEW c \in Tabs, NEW q \in Requests  PROVE TabOK(c, q)'
  <2>1. TabOK(c, q) /\ q # NoRequest  BY StreamConstants DEF StreamInv
  <2>2. UNCHANGED <<open, offered, parked>>  OBVIOUS
  <2>3. CASE c # t
    <3>1. /\ inbox'[c] = inbox[c] /\ pending'[c] = pending[c] /\ done[c] \subseteq done'[c]
          /\ view'[c] = view[c] /\ joined'[c] = joined[c]
      BY <1>4, <2>3
    <3> QED  BY <1>2, <1>3, <2>1, <2>2, <3>1 DEF TabOK
  <2>4. CASE c = t
    <3>1. /\ inbox'[c] = <<>> /\ pending'[c] = NoRequest /\ offered'[c] = NoRequest
          /\ c \in open' /\ done[c] \subseteq done'[c] /\ Begun(r)
      <4>1. TabOK(t, r) /\ inbox[t] # <<>>  BY DEF StreamInv
      <4> QED  BY <1>4, <2>2, <2>4, <4>1 DEF TabOK
    <3>2. CASE q # r
      <4>1. view'[c][q] = view[c][q] /\ (q \in joined'[c] <=> q \in joined[c])
        BY <1>4, <2>4, <3>2
      <4> QED  BY <1>2, <1>3, <2>1, <2>2, <3>1, <4>1 DEF TabOK
    <3>3. CASE q = r
      <4>1. q \notin late /\ status[q] # "none" =>
              view[c][q] \o S!ReplayOf(q) = S!Chunks(emitted[q])
        BY <2>4, <3>3, AllChunks
      <4>2. \/ view'[c][q] = view[c][q] /\ (q \in joined'[c] <=> q \in joined[c])
            \/ view'[c][q] = view[c][q] \o S!ReplayOf(q)
        BY <1>4, <2>4, <3>3
      <4>3. S!Chunks(emitted[q])' = S!Chunks(emitted[q])  BY <1>2
      <4>4. q \in joined'[c] /\ q \notin late' /\ status'[q] # "none" => view'[c][q] = S!Chunks(emitted[q])'
        BY <1>2, <2>1, <4>1, <4>2, <4>3 DEF TabOK
      <4>5. Underway(q) \/ q \in done'[c]  BY <1>4, <2>4, <3>3
      <4>6. Begun(q)'  BY <1>3, <3>1, <3>3
      <4> QED  BY <1>2, <1>3, <2>1, <2>2, <3>1, <4>4, <4>5, <4>6 DEF TabOK
    <3> QED  BY <3>2, <3>3
  <2> QED  BY <2>3, <2>4
<1>6. CASE UNCHANGED streams  BY <1>4, <1>5, <1>6, TabMoves DEF TabTypes
<1>7. CASE Closing(r)  BY <1>4, <1>5, <1>7, EndsKeep
<1> QED  BY <1>6, <1>7

\* The answer to an offer of a stream that was restored ends it.
LEMMA AckCloses ==
  ASSUME StreamInv, NEW r \in Requests, active = r, live = FALSE,
         NEW how \in {"completed", "error"}, S!Finish(r, how),
         UNCHANGED <<chunks, order, terminal, turn, emitted, cancelled, late, told>>
  PROVE  Closing(r) /\ ~Underway(r)
<1>1. StreamTypes /\ RequestOK(r)  BY DEF StreamInv
<1>2. ~Underway(r) /\ Begun(r)  BY <1>1 DEF RequestOK
<1>3. ~Underway(r)' /\ Begun(r)'  BY <1>2 DEF Underway, Begun
<1>4. /\ status' \in [Requests -> {"none", "streaming", "completed", "error"}]
      /\ \A q \in Requests : q # r => status'[q] = status[q]
      /\ status'[r] = "none" <=> status[r] = "none"
      /\ \/ UNCHANGED <<active, live, index>> /\ segment' \in {0, segment}
         \/ active' = NoRequest /\ live' = FALSE /\ \A q \in Requests : Underway(q) => q = r
      /\ active' # r
  BY Finished
<1>5. UNCHANGED <<chunks, order, terminal, turn, emitted, cancelled, late, told>>  OBVIOUS
<1> QED  BY <1>1, <1>2, <1>3, <1>4, <1>5 DEF Closing, StreamTypes

LEMMA AckArrivesKeeps ==
  ASSUME StreamInv, NEW t \in Tabs, S!AckArrives(t)
  PROVE  StreamInv'
<1>1. PICK r \in Requests :
        /\ inbox[t] = <<r>> /\ inbox' = [inbox EXCEPT ![t] = <<>>]
        /\ pending' = [pending EXCEPT ![t] = NoRequest]
        /\ IF active = r
           THEN /\ S!Replays(t, r)
                /\ IF live THEN UNCHANGED <<status, active, live, index, segment, done>>
                   ELSE S!Finish(r, "completed") /\ S!Over(t, r)
           ELSE /\ S!Over(t, r)
                /\ S!Replays(t, r) \/ (UNCHANGED <<view, joined>>)
                /\ UNCHANGED <<status, active, live, index, segment>>
        /\ UNCHANGED <<chunks, order, terminal, turn, emitted, cancelled, late, parked, told, open, offered>>
  BY DEF S!AckArrives, S!Admitted, S!memoryVars, S!turnVars
<1>2. StreamTypes /\ RequestOK(r)  BY DEF StreamInv
<1>3. S!Over(t, r) => done' = [done EXCEPT ![t] = done[t] \union {r}]  BY DEF S!Over
<1>4. S!Replays(t, r) =>
        /\ view' = [view EXCEPT ![t] = [view[t] EXCEPT ![r] = view[t][r] \o S!ReplayOf(r)]]
        /\ joined' = [joined EXCEPT ![t] = joined[t] \union {r}]
  BY DEF S!Replays
<1>5. \/ UNCHANGED <<view, joined>>
      \/ /\ view' = [view EXCEPT ![t] = [view[t] EXCEPT ![r] = view[t][r] \o S!ReplayOf(r)]]
         /\ joined' = [joined EXCEPT ![t] = joined[t] \union {r}]
  BY <1>1, <1>4
<1>6. UNCHANGED <<turn, cancelled, open, offered, parked>>  BY <1>1
<1>7. CASE active = r /\ live
  <2>1. UNCHANGED streams /\ UNCHANGED done  BY <1>1, <1>7 DEF streams
  <2>2. Underway(r)  BY <1>2, <1>7 DEF RequestOK
  <2> QED  BY <1>1, <1>5, <1>6, <2>1, <2>2, Admits
<1>8. CASE active = r /\ ~live
  <2>1. S!Finish(r, "completed") /\ done' = [done EXCEPT ![t] = done[t] \union {r}]
    BY <1>1, <1>3, <1>8
  <2>2. live = FALSE  BY <1>2, <1>8 DEF StreamTypes
  <2>3. Closing(r) /\ ~Underway(r)  BY <1>1, <1>8, <2>1, <2>2, AckCloses
  <2> QED  BY <1>1, <1>5, <1>6, <2>1, <2>3, Admits
<1>9. CASE active # r
  <2>1. UNCHANGED streams /\ done' = [done EXCEPT ![t] = done[t] \union {r}]
    BY <1>1, <1>3, <1>9 DEF streams
  <2> QED  BY <1>1, <1>5, <1>6, <2>1, Admits
<1> QED  BY <1>7, <1>8, <1>9

LEMMA AckUnreadKeeps ==
  ASSUME StreamInv, NEW t \in Tabs, S!AckUnread(t)
  PROVE  StreamInv'
<1>1. PICK r \in Requests :
        /\ inbox[t] = <<r>> /\ active = r /\ inbox' = [inbox EXCEPT ![t] = <<>>]
        /\ pending' = [pending EXCEPT ![t] = NoRequest]
        /\ IF live THEN UNCHANGED <<status, active, live, index, segment>> ELSE S!Finish(r, "error")
        /\ done' = [done EXCEPT ![t] = done[t] \union {r}]
        /\ UNCHANGED <<chunks, order, terminal, turn, emitted, cancelled, late, parked, told, open, offered,
                       view, joined>>
  BY DEF S!AckUnread, S!Admitted, S!Over, S!memoryVars, S!turnVars
<1>2. StreamTypes  BY DEF StreamInv
<1>3. UNCHANGED streams \/ (Closing(r) /\ ~Underway(r))
  <2>1. CASE live  BY <1>1, <2>1 DEF streams
  <2>2. CASE ~live
    <3>1. live = FALSE  BY <1>2, <2>2 DEF StreamTypes
    <3> QED  BY <1>1, <2>2, <3>1, AckCloses
  <2> QED  BY <2>1, <2>2
<1> QED  BY <1>1, <1>3, Admits

-----------------------------------------------------------------------------
(* Chat streams: the turns.                                                *)

LEMMA AcceptsKeeps ==
  ASSUME StreamInv, NEW r \in Requests, S!Accepts(r)
  PROVE  StreamInv'
<1>1. /\ turn[r] = "idle" /\ turn' = [turn EXCEPT ![r] = "accepted"] /\ terminal' = NoRequest
      /\ pending' = [c \in Tabs |->
           IF c \in {d \in Tabs : terminal # NoRequest /\ pending[d] = terminal} THEN NoRequest
           ELSE pending[c]]
      /\ UNCHANGED <<status, chunks, order, active, live, index, segment, emitted, cancelled, late,
                     parked, told, inbox, open, offered, view, joined, done>>
  BY DEF S!Accepts, S!Drop, S!memoryVars, S!tabVars
<1>2. StreamTypes /\ r # NoRequest  BY StreamConstants DEF StreamInv
<1>3. \A q \in Requests : /\ turn'[q] = IF q = r THEN "accepted" ELSE turn[q]
                          /\ Underway(q)' <=> Underway(q)
                          /\ Begun(q)' <=> Begun(q)
  BY <1>1, <1>2 DEF StreamTypes, Underway, Begun
<1>4. StreamTypes'
  <2>1. pending' \in [Tabs -> OrNone]  BY <1>1, <1>2 DEF StreamTypes, OrNone
  <2>2. turn' \in [Requests -> {"idle", "accepted", "streaming", "lost", "over"}] /\ terminal' \in OrNone
    BY <1>1, <1>2 DEF StreamTypes, OrNone
  <2> QED  BY <1>1, <1>2, <2>1, <2>2 DEF StreamTypes
<1>5. OneRuns'  BY <1>3 DEF StreamInv, OneRuns
<1>6. ASSUME NEW q \in Requests  PROVE RequestOK(q)'
  <2>1. RequestOK(q) /\ q # NoRequest  BY StreamConstants DEF StreamInv
  <2> QED  BY <1>1, <1>3, <2>1 DEF RequestOK
<1>7. ASSUME NEW c \in Tabs, NEW q \in Requests  PROVE TabOK(c, q)'
  <2>1. TabOK(c, q) /\ RequestOK(q) /\ q # NoRequest  BY StreamConstants DEF StreamInv
  <2>2. pending'[c] = NoRequest \/ pending'[c] = pending[c]  BY <1>1
  <2>3. Underway(q) => pending'[c] = pending[c]  BY <1>1, <2>1 DEF RequestOK, Underway
  <2> QED  BY <1>1, <1>3, <2>1, <2>2, <2>3 DEF TabOK
<1> QED  BY <1>4, <1>5, <1>6, <1>7 DEF StreamInv

LEMMA NoRows == Ranged(<<>>, 0) /\ S!Chunks(0) = <<>>
<1>1. Ranged(<<>>, 0)
  <2> DEFINE cut == [k \in 0..0 |-> 0]
  <2>1. <<>> \in Seq(ChunkRows) /\ Len(<<>>) = 0  OBVIOUS
  <2>2. cut \in [0..0 -> Nat] /\ cut[0] = 0  OBVIOUS
  <2> HIDE DEF cut
  <2>3. \E g \in [0..0 -> Nat] : g[0] = 0  BY <2>2
  <2> QED  BY <2>1, <2>3 DEF Ranged
<1>2. S!Chunks(0) = <<>>  BY DEF S!Chunks
<1> QED  BY <1>1, <1>2

LEMMA StartsKeeps ==
  ASSUME StreamInv, NEW r \in Requests, S!Starts(r)
  PROVE  StreamInv'
<1>1. /\ turn[r] = "accepted" /\ \A q \in Requests : turn[q] # "streaming"
      /\ turn' = [turn EXCEPT ![r] = "streaming"] /\ terminal' = NoRequest
      /\ active' = r /\ live' = TRUE /\ index' = 0 /\ segment' = 0
      /\ status' = [status EXCEPT ![r] = "streaming"] /\ order' = Append(order, r) /\ parked' = {}
      /\ pending' = [c \in Tabs |->
           IF c \in parked THEN r ELSE IF c \in S!Rejoin(r) THEN NoRequest ELSE pending[c]]
      /\ offered' = [c \in Tabs |-> IF c \in parked THEN r ELSE offered[c]]
      /\ joined' = [c \in Tabs |-> IF c \in open \ parked THEN joined[c] \union {r} ELSE joined[c]]
      /\ UNCHANGED <<chunks, emitted, cancelled, late, told, inbox, open, view, done>>
  BY DEF S!Starts
<1>2. StreamTypes /\ r # NoRequest /\ RequestOK(r)  BY StreamConstants DEF StreamInv
<1>3. ~Begun(r) /\ \A q \in Requests : ~Underway(q)  BY <1>1 DEF Begun, Underway
<1>4. \A q \in Requests : /\ turn'[q] = IF q = r THEN "streaming" ELSE turn[q]
                          /\ status'[q] = IF q = r THEN "streaming" ELSE status[q]
  BY <1>1, <1>2 DEF StreamTypes
<1>5. Underway(r)' /\ Begun(r)'  BY <1>1, <1>2, <1>3, <1>4 DEF RequestOK, Underway, Begun
<1>6. \A q \in Requests : q # r => ~Underway(q)' /\ (Begun(q)' <=> Begun(q))
  BY <1>1, <1>4 DEF Underway, Begun
<1>7. StreamTypes'
  <2>1. pending' \in [Tabs -> OrNone] /\ offered' \in [Tabs -> OrNone] /\ joined' \in [Tabs -> SUBSET Requests]
    BY <1>1, <1>2 DEF StreamTypes, OrNone
  <2>2. /\ turn' \in [Requests -> {"idle", "accepted", "streaming", "lost", "over"}]
        /\ status' \in [Requests -> {"none", "streaming", "completed", "error"}]
        /\ terminal' \in OrNone /\ active' \in OrNone /\ live' \in BOOLEAN
    BY <1>1, <1>2 DEF StreamTypes, OrNone
  <2>3. order' \in Seq(Requests)  BY <1>1, <1>2 DEF StreamTypes
  <2> QED  BY <1>1, <1>2, <2>1, <2>2, <2>3 DEF StreamTypes
<1>8. OneRuns'  BY <1>1, <1>4 DEF OneRuns
<1>9. ASSUME NEW q \in Requests  PROVE RequestOK(q)'
  <2>1. RequestOK(q) /\ q # NoRequest  BY StreamConstants DEF StreamInv
  <2>2. CASE q = r
    <3>1. /\ chunks[r] = <<>> /\ emitted[r] = 0 /\ r \notin told /\ r \notin late /\ r \notin cancelled
      BY <1>2, <1>3 DEF RequestOK
    <3>2. Ranged(chunks[q], emitted[q])' /\ Len(chunks[r]) = 0  BY <1>1, <2>2, <3>1, NoRows
    <3> QED  BY <1>1, <1>4, <1>5, <2>2, <3>1, <3>2 DEF RequestOK
  <2>3. CASE q # r
    <3>1. (\A i \in DOMAIN order : order[i] # q) => \A i \in DOMAIN order' : order'[i] # q
      <4>1. order \in Seq(Requests)  BY <1>2 DEF StreamTypes
      <4>2. DOMAIN order' = 1..(Len(order) + 1) /\ order'[Len(order) + 1] = r
            /\ \A i \in 1..Len(order) : order'[i] = order[i]
        BY <1>1, <4>1
      <4> QED  BY <2>3, <4>1, <4>2
    <3> QED  BY <1>1, <1>4, <1>6, <2>1, <2>3, <3>1 DEF RequestOK
  <2> QED  BY <2>2, <2>3
<1>10. ASSUME NEW c \in Tabs, NEW q \in Requests  PROVE TabOK(c, q)'
  <2>1. TabOK(c, q) /\ TabOK(c, r) /\ RequestOK(r) /\ q # NoRequest  BY StreamConstants DEF StreamInv
  <2>2. pending[c] \in OrNone  BY <1>2 DEF StreamTypes
  <2>3. CASE c \in parked
    <3>1. /\ pending'[c] = r /\ offered'[c] = r /\ joined'[c] = joined[c] /\ inbox[c] = <<>> /\ c \in open
      BY <1>1, <2>1, <2>3 DEF TabOK
    <3>2. CASE q = r
      <4>1. r \notin joined[c] /\ emitted[r] = 0  BY <1>3, <2>1 DEF TabOK, RequestOK
      <4> QED  BY <1>1, <1>5, <3>1, <3>2, <4>1 DEF TabOK
    <3>3. CASE q # r
      BY <1>1, <1>3, <1>4, <1>6, <2>1, <3>1, <3>3 DEF TabOK
    <3> QED  BY <3>2, <3>3
  <2>4. CASE c \notin parked
    <3>1. /\ offered'[c] = offered[c]
          /\ pending'[c] \in {NoRequest, pending[c]}
          /\ joined'[c] = (IF c \in open THEN joined[c] \union {r} ELSE joined[c])
      BY <1>1, <2>4
    <3>2. CASE q = r
      <4>1. pending[c] # r /\ offered[c] # r /\ inbox[c] # <<r>> /\ view[c][r] = <<>> /\ emitted[r] = 0
        BY <1>3, <2>1 DEF TabOK, RequestOK
      <4>2. pending'[c] = NoRequest  BY <1>1, <2>4, <4>1 DEF S!Rejoin
      <4>3. S!Chunks(emitted[q])' = <<>>  BY <1>1, <3>2, <4>1, NoRows
      <4> QED  BY <1>1, <1>5, <2>1, <3>1, <3>2, <4>1, <4>2, <4>3 DEF TabOK
    <3>3. CASE q # r
      <4>1. q \in joined'[c] <=> q \in joined[c]  BY <3>1, <3>3
      <4>2. S!Chunks(emitted[q])' = S!Chunks(emitted[q])  BY <1>1
      <4> QED  BY <1>1, <1>3, <1>4, <1>6, <2>1, <3>1, <3>3, <4>1, <4>2 DEF TabOK
    <3> QED  BY <3>2, <3>3
  <2> QED  BY <2>3, <2>4
<1> QED  BY <1>7, <1>8, <1>9, <1>10 DEF StreamInv

\* A chunk is stored: the rows of other streams stay, and those of a stream under
\* way go on where they are.
LEMMA Stores ==
  ASSUME StreamInv, NEW r \in Requests, turn[r] = "streaming", NEW sealed \in BOOLEAN,
         S!Store(r, emitted[r] + 1, sealed)
  PROVE  /\ DOMAIN chunks' = Requests
         /\ \A q \in Requests : q # r => chunks'[q] = chunks[q]
         /\ Underway(r) => /\ Ranged(chunks'[r], emitted[r] + 1)
                           /\ index' = Len(chunks'[r]) /\ segment' \in {0, Len(chunks'[r])}
<1> DEFINE R == chunks[r]
           new == chunks'[r]
           n == emitted[r]
           fresh == sealed \/ segment = 0
<1>1. StreamTypes /\ RequestOK(r)  BY DEF StreamInv
<1>2. DOMAIN chunks = Requests /\ n \in Nat  BY <1>1, StreamConstants DEF StreamTypes
<1>3. /\ chunks' = [chunks EXCEPT ![r] =
                      IF fresh THEN Append(R, [index |-> index, bodies |-> <<n + 1>>])
                      ELSE [R EXCEPT ![segment].bodies = Append(@, n + 1)]]
      /\ segment' \in {0, IF fresh THEN Len(chunks'[r]) ELSE segment}
      /\ index' = IF fresh THEN index + 1 ELSE index
  BY DEF S!Store
<1>4. /\ DOMAIN chunks' = Requests /\ \A q \in Requests : q # r => chunks'[q] = chunks[q]
      /\ fresh => new = Append(R, [index |-> index, bodies |-> <<n + 1>>])
      /\ ~fresh => new = [R EXCEPT ![segment].bodies = Append(@, n + 1)]
  BY <1>2, <1>3
<1>5. ASSUME Underway(r)
      PROVE  Ranged(new, n + 1) /\ index' = Len(new) /\ segment' \in {0, Len(new)}
  <2>1. Ranged(R, n) /\ index = Len(R) /\ segment \in {0, Len(R)}
    BY <1>1, <1>5 DEF RequestOK
  <2>2. Len(R) \in Nat  BY <2>1 DEF Ranged
  <2>3. CASE fresh
    <3>1. new = Append(R, [index |-> Len(R), bodies |-> <<n + 1>>])  BY <1>4, <2>1, <2>3
    <3> HIDE DEF new, R, n
    <3>2. Ranged(new, n + 1) /\ Len(new) = Len(R) + 1  BY <2>1, <3>1, RangedRow
    <3>3. index' = index + 1 /\ segment' \in {0, Len(new)}  BY <1>3, <2>3 DEF new
    <3> QED  BY <2>1, <3>2, <3>3
  <2>4. CASE ~fresh
    <3>1. segment = Len(R) /\ Len(R) # 0  BY <2>1, <2>4
    <3>2. new = [R EXCEPT ![Len(R)].bodies = Append(@, n + 1)]  BY <1>4, <2>4, <3>1
    <3>3. index' = index /\ segment' \in {0, segment}  BY <1>3, <2>4
    <3> HIDE DEF new, R, n
    <3>4. Ranged(new, n + 1) /\ Len(new) = Len(R)  BY <2>1, <3>1, <3>2, RangedMore
    <3> QED  BY <2>1, <3>1, <3>3, <3>4
  <2> QED  BY <2>3, <2>4
<1> QED  BY <1>4, <1>5

LEMMA EmitsKeeps ==
  ASSUME StreamInv, NEW r \in Requests, S!Emits(r)
  PROVE  StreamInv'
<1>1. PICK sealed \in BOOLEAN :
        /\ turn[r] = "streaming" /\ emitted[r] < MaxChunks /\ emitted' = [emitted EXCEPT ![r] = @ + 1]
        /\ S!Store(r, emitted[r] + 1, sealed)
        /\ late' = (IF active = r THEN late ELSE late \union {r})
        /\ view' = [c \in Tabs |->
             IF c \in S!Hears THEN [view[c] EXCEPT ![r] = Append(@, emitted[r] + 1)] ELSE view[c]]
        /\ UNCHANGED <<status, order, terminal, active, live, turn, cancelled, pending, parked, told, inbox,
                       open, offered, joined, done>>
  BY DEF S!Emits, S!offerVars
<1>2. StreamTypes /\ RequestOK(r)  BY DEF StreamInv
<1>3. /\ DOMAIN chunks' = Requests
      /\ \A q \in Requests : q # r => chunks'[q] = chunks[q]
      /\ Underway(r) => /\ Ranged(chunks'[r], emitted[r] + 1)
                        /\ index' = Len(chunks'[r]) /\ segment' \in {0, Len(chunks'[r])}
  BY <1>1, Stores
<1>4. /\ emitted[r] \in Nat /\ emitted' \in [Requests -> 0..MaxChunks]
      /\ \A q \in Requests : emitted'[q] = IF q = r THEN emitted[r] + 1 ELSE emitted[q]
  BY <1>1, <1>2, StreamConstants DEF StreamTypes
<1>5. \A q \in Requests : (Underway(q)' <=> Underway(q)) /\ (Begun(q)' <=> Begun(q))
  BY <1>1 DEF Underway, Begun
<1>6. /\ DOMAIN view' = Tabs /\ \A c \in Tabs : DOMAIN view'[c] = Requests
      /\ \A c \in Tabs, q \in Requests :
           view'[c][q] = IF c \in S!Hears /\ q = r THEN Append(view[c][r], emitted[r] + 1) ELSE view[c][q]
  BY <1>1, <1>2 DEF StreamTypes
<1>7. /\ \A q \in Requests : q # r => (q \in late' <=> q \in late)
      /\ r \in late' <=> r \in late \/ ~Underway(r)
  BY <1>1, <1>2 DEF RequestOK, Underway
<1>8. StreamTypes'  BY <1>1, <1>2, <1>3, <1>4, <1>6 DEF StreamTypes
<1>9. OneRuns'  BY <1>1 DEF StreamInv, OneRuns
<1>10. ASSUME NEW q \in Requests  PROVE RequestOK(q)'
  <2>1. RequestOK(q)  BY DEF StreamInv
  <2>2. CASE q = r
    <3>1. Begun(r)  BY <1>1 DEF Begun
    <3> QED  BY <1>1, <1>3, <1>4, <1>5, <1>7, <2>1, <2>2, <3>1 DEF RequestOK
  <2>3. CASE q # r
    <3>1. ~Underway(q)  BY <1>1, <2>3 DEF StreamInv, OneRuns, Underway
    <3>2. chunks'[q] = chunks[q] /\ emitted'[q] = emitted[q] /\ (q \in late' <=> q \in late)
      BY <1>3, <1>4, <1>7, <2>3
    <3> QED  BY <1>1, <1>5, <2>1, <3>1, <3>2 DEF RequestOK
  <2> QED  BY <2>2, <2>3
<1>11. ASSUME NEW c \in Tabs, NEW q \in Requests  PROVE TabOK(c, q)'
  <2>1. TabOK(c, q) /\ q # NoRequest  BY StreamConstants DEF StreamInv
  <2>2. CASE q = r
    <3>1. Begun(r)  BY <1>1 DEF Begun
    <3>2. r \notin late' /\ inbox[c] = <<r>> => view'[c][r] = <<>>
      <4> SUFFICES ASSUME r \notin late', inbox[c] = <<r>>  PROVE view'[c][r] = <<>>  OBVIOUS
      <4>1. Underway(r) /\ r \notin late  BY <1>7
      <4>2. pending[c] = r /\ view[c][r] = <<>>  BY <2>1, <2>2, <4>1 DEF TabOK
      <4>3. c \notin S!Hears  BY <2>1, <2>2, <4>2 DEF S!Hears
      <4> QED  BY <1>6, <4>2, <4>3
    <3>3. r \in joined[c] /\ r \notin late' => view'[c][r] = S!Chunks(emitted[r] + 1)
      <4> SUFFICES ASSUME r \in joined[c], r \notin late'  PROVE view'[c][r] = S!Chunks(emitted[r] + 1)
        OBVIOUS
      <4>1. Underway(r) /\ r \notin late /\ status[r] # "none"  BY <1>2, <1>7 DEF RequestOK
      <4>2. pending[c] = NoRequest /\ c \in open /\ view[c][r] = S!Chunks(emitted[r])
        BY <2>1, <2>2, <4>1 DEF TabOK
      <4>3. c \in S!Hears  BY <4>2 DEF S!Hears
      <4> QED  BY <1>4, <1>6, <4>2, <4>3, ChunkMore
    <3>4. S!Chunks(emitted[q])' = S!Chunks(emitted[r] + 1)  BY <1>4, <2>2
    <3> QED  BY <1>1, <1>5, <2>1, <2>2, <3>1, <3>2, <3>3, <3>4 DEF TabOK
  <2>3. CASE q # r
    <3>1. /\ view'[c][q] = view[c][q] /\ (q \in late' <=> q \in late)
          /\ S!Chunks(emitted[q])' = S!Chunks(emitted[q])
      BY <1>4, <1>6, <1>7, <2>3
    <3> QED  BY <1>1, <1>5, <2>1, <3>1 DEF TabOK
  <2> QED  BY <2>2, <2>3
<1> QED  BY <1>8, <1>9, <1>10, <1>11 DEF StreamInv

-----------------------------------------------------------------------------
(* Chat streams: the steps that forget.                                    *)

LEMMA SweepsKeeps ==
  ASSUME StreamInv, NEW r \in Requests, S!Sweeps(r)
  PROVE  StreamInv'
<1>1. /\ status[r] \in {"completed", "error"} \/ (status[r] = "streaming" /\ ~(live /\ r = active))
      /\ status' = [status EXCEPT ![r] = "none"] /\ chunks' = [chunks EXCEPT ![r] = <<>>]
      /\ IF active = r THEN active' = NoRequest /\ live' = FALSE
         ELSE UNCHANGED <<active, live, index, segment>>
      /\ UNCHANGED <<order, terminal, turn, emitted, cancelled, late, pending, parked, told, inbox, open,
                     offered, view, joined, done>>
  BY DEF S!Sweeps, S!Abandoned, S!ClearActive, S!memoryVars, S!turnVars, S!offerVars, S!tabVars
<1>2. StreamTypes /\ RequestOK(r) /\ r # NoRequest  BY StreamConstants DEF StreamInv
<1>3. ~Underway(r) /\ Begun(r)  BY <1>1, <1>2 DEF RequestOK
<1>4. \A q \in Requests : /\ status'[q] = IF q = r THEN "none" ELSE status[q]
                          /\ chunks'[q] = IF q = r THEN <<>> ELSE chunks[q]
  BY <1>1, <1>2 DEF StreamTypes
<1>5. \A q \in Requests : (Underway(q)' <=> Underway(q)) /\ (Begun(q)' <=> Begun(q))
  BY <1>1 DEF Underway, Begun
<1>6. StreamTypes'  BY <1>1, <1>2 DEF StreamTypes, OrNone
<1>7. OneRuns'  BY <1>1 DEF StreamInv, OneRuns
<1>8. ASSUME NEW q \in Requests  PROVE RequestOK(q)'
  <2>1. RequestOK(q) /\ q # NoRequest  BY StreamConstants DEF StreamInv
  <2>2. CASE q = r
    <3>1. (active' = q => active = q) /\ ~(active' = q /\ live')  BY <1>1, <1>2, <1>3, <2>2 DEF RequestOK
    <3> QED  BY <1>1, <1>2, <1>3, <1>4, <1>5, <2>1, <2>2, <3>1 DEF RequestOK
  <2>3. CASE q # r
    <3>1. chunks'[q] = chunks[q] /\ status'[q] = status[q]  BY <1>4, <2>3
    <3>2. CASE active = r
      <4>1. ~Underway(q)  BY <2>1, <2>3, <3>2 DEF RequestOK
      <4> QED  BY <1>1, <1>5, <2>1, <3>1, <3>2, <4>1 DEF RequestOK
    <3>3. CASE active # r  BY <1>1, <1>5, <2>1, <3>1, <3>3 DEF RequestOK
    <3> QED  BY <3>2, <3>3
  <2> QED  BY <2>2, <2>3
<1>9. ASSUME NEW c \in Tabs, NEW q \in Requests  PROVE TabOK(c, q)'
  <2>1. TabOK(c, q)  BY DEF StreamInv
  <2>2. status'[q] # "none" => status[q] # "none"  BY <1>4
  <2>3. S!Chunks(emitted[q])' = S!Chunks(emitted[q])  BY <1>1
  <2> QED  BY <1>1, <1>5, <2>1, <2>2, <2>3 DEF TabOK
<1> QED  BY <1>6, <1>7, <1>8, <1>9 DEF StreamInv

LEMMA ClearsKeeps ==
  ASSUME StreamInv, S!Clears
  PROVE  StreamInv'
<1>1. /\ turn' = [r \in Requests |-> IF turn[r] = "idle" THEN "idle" ELSE "over"]
      /\ status' = [r \in Requests |-> "none"] /\ chunks' = [r \in Requests |-> <<>>]
      /\ order' = <<>> /\ terminal' = NoRequest /\ active' = NoRequest /\ live' = FALSE
      /\ done' = [c \in Tabs |->
           IF c \in S!Hears THEN done[c] \union ({r \in Requests : turn[r] = "streaming"} \cap joined[c])
           ELSE done[c]]
      /\ told' = told \union {r \in Requests : turn[r] = "streaming"}
      /\ parked' = {} /\ pending' = [c \in Tabs |-> NoRequest] /\ late' = {} /\ cancelled' = {}
      /\ emitted' = [r \in Requests |-> 0] /\ view' = [c \in Tabs |-> [r \in Requests |-> <<>>]]
      /\ joined' = [c \in Tabs |-> {}] /\ UNCHANGED <<inbox, open, offered>>
  BY DEF S!Clears, S!ClearActive
<1>2. StreamTypes  BY DEF StreamInv
<1>3. \A q \in Requests : /\ ~Underway(q)' /\ turn'[q] # "streaming"
                          /\ ~Begun(q)' => turn[q] = "idle" /\ ~Begun(q)
  BY <1>1 DEF Underway, Begun
<1>4. StreamTypes'
  <2>1. done' \in [Tabs -> SUBSET Requests]  BY <1>1, <1>2 DEF StreamTypes
  <2>2. 0 \in 0..MaxChunks /\ <<>> \in Seq(Requests)  BY StreamConstants
  <2> QED  BY <1>1, <1>2, <2>1, <2>2 DEF StreamTypes, OrNone
<1>5. OneRuns'  BY <1>3 DEF OneRuns
<1>6. ASSUME NEW q \in Requests  PROVE RequestOK(q)'
  <2>1. RequestOK(q) /\ q # NoRequest  BY StreamConstants DEF StreamInv
  <2>2. ~Begun(q)' => q \notin told'  BY <1>1, <1>3, <2>1 DEF RequestOK
  <2> QED  BY <1>1, <1>3, <2>1, <2>2 DEF RequestOK
<1>7. ASSUME NEW c \in Tabs, NEW q \in Requests  PROVE TabOK(c, q)'
  <2>1. TabOK(c, q) /\ q # NoRequest  BY StreamConstants DEF StreamInv
  <2> QED  BY <1>1, <1>3, <2>1 DEF TabOK
<1> QED  BY <1>4, <1>5, <1>6, <1>7 DEF StreamInv

\* The last stream that was not ended, if there is one.
LEMMA RestoredIs ==
  ASSUME StreamInv
  PROVE  S!Restored = NoRequest \/ \E i \in DOMAIN order : S!Restored = order[i]
<1>1. order \in Seq(Requests) /\ Len(order) \in Nat  BY DEF StreamInv, StreamTypes
<1>2. CASE S!Unended = {}  BY <1>2 DEF S!Restored
<1>3. CASE S!Unended # {}
  <2> DEFINE U == S!Unended
             T == {Len(order) - i : i \in U}
  <2>1. U \subseteq 1..Len(order)  BY DEF S!Unended
  <2> HIDE DEF U
  <2>2. T \in SUBSET Nat  BY <1>1, <2>1
  <2>3. T # {}  BY <1>3 DEF U
  <2>4. PICK x \in T : \A y \in T : x <= y  BY <2>2, <2>3, Least
  <2>5. PICK i \in U : x = Len(order) - i  BY <2>4
  <2>6. \A j \in U : j <= i
    <3> TAKE j \in U
    <3>1. Len(order) - i <= Len(order) - j  BY <2>4, <2>5
    <3> QED  BY <1>1, <2>1, <3>1
  <2>7. \E k \in U : \A j \in U : j <= k  BY <2>6
  <2>8. S!Restored = order[CHOOSE k \in U : \A j \in U : j <= k]  BY <1>3 DEF S!Restored, U
  <2>9. (CHOOSE k \in U : \A j \in U : j <= k) \in U  BY <2>7
  <2>10. U \subseteq DOMAIN order  BY <1>1, <2>1
  <2> QED  BY <2>8, <2>9, <2>10
<1> QED  BY <1>2, <1>3

LEMMA EvictedKeeps ==
  ASSUME StreamInv, S!Evicted
  PROVE  StreamInv'
<1>1. /\ active' = S!Restored /\ live' = FALSE
      /\ turn' = [r \in Requests |-> IF turn[r] \in {"accepted", "streaming"} THEN "lost" ELSE turn[r]]
      /\ pending' = [c \in Tabs |-> NoRequest] /\ parked' = {} /\ told' = {} /\ cancelled' = {}
      /\ joined' = [c \in Tabs |-> {}]
      /\ UNCHANGED <<status, chunks, order, terminal, emitted, late, inbox, open, offered, view, done>>
  BY DEF S!Evicted, S!tableVars
<1>2. StreamTypes  BY DEF StreamInv
<1>3. \A q \in Requests : /\ ~Underway(q)' /\ turn'[q] # "streaming"
                          /\ ~Begun(q)' => ~Begun(q)
  BY <1>1 DEF Underway, Begun
<1>4. S!Restored \in OrNone /\ \A q \in Requests : ~Begun(q) => S!Restored # q
  <2>1. order \in Seq(Requests)  BY <1>2 DEF StreamTypes
  <2>2. \A q \in Requests : q # NoRequest /\ (~Begun(q) => \A i \in DOMAIN order : order[i] # q)
    BY StreamConstants DEF StreamInv, RequestOK
  <2>3. CASE S!Restored = NoRequest  BY <2>2, <2>3 DEF OrNone
  <2>4. CASE \E i \in DOMAIN order : S!Restored = order[i]  BY <2>1, <2>2, <2>4 DEF OrNone
  <2> QED  BY <2>3, <2>4, RestoredIs
<1>5. StreamTypes'
  <2>1. turn' \in [Requests -> {"idle", "accepted", "streaming", "lost", "over"}]
    BY <1>1, <1>2 DEF StreamTypes
  <2> QED  BY <1>1, <1>2, <1>4, <2>1 DEF StreamTypes, OrNone
<1>6. OneRuns'  BY <1>3 DEF OneRuns
<1>7. ASSUME NEW q \in Requests  PROVE RequestOK(q)'
  <2>1. RequestOK(q)  BY DEF StreamInv
  <2> QED  BY <1>1, <1>3, <1>4, <2>1 DEF RequestOK
<1>8. ASSUME NEW c \in Tabs, NEW q \in Requests  PROVE TabOK(c, q)'
  <2>1. TabOK(c, q) /\ q # NoRequest  BY StreamConstants DEF StreamInv
  <2> QED  BY <1>1, <1>3, <2>1 DEF TabOK
<1> QED  BY <1>5, <1>6, <1>7, <1>8 DEF StreamInv

LEMMA StreamsStep == StreamInv /\ [S!Next]_(S!vars) => StreamInv'
<1> SUFFICES ASSUME StreamInv, [S!Next]_(S!vars)  PROVE StreamInv'  OBVIOUS
<1>1. ASSUME NEW r \in Requests,
             S!Accepts(r) \/ S!Starts(r) \/ S!StartFails(r) \/ S!Emits(r) \/ S!Completes(r)
             \/ S!Fails(r) \/ S!Cancels(r) \/ S!Sweeps(r) \/ S!RecoveryEnds(r)
      PROVE  StreamInv'
  BY <1>1, AcceptsKeeps, StartsKeeps, StartFailsKeeps, EmitsKeeps, CompletesKeeps, FailsKeeps,
     CancelsKeeps, SweepsKeeps, RecoveryEndsKeeps
<1>2. ASSUME NEW c \in Tabs,
             S!Probes(c) \/ S!Disconnects(c) \/ S!ProbeArrives(c) \/ S!SendsAck(c)
             \/ S!AckArrives(c) \/ S!AckUnread(c)
      PROVE  StreamInv'
  BY <1>2, ProbesKeep, DisconnectsKeep, ProbeArrivesKeeps, SendsAckKeeps, AckArrivesKeeps,
     AckUnreadKeeps
<1>3. CASE UNCHANGED S!vars
  <2>1. UNCHANGED streams /\ UNCHANGED <<pending, parked, inbox, open, offered, view, joined, done>>
    BY <1>3 DEF streams, S!vars, S!tableVars, S!memoryVars, S!turnVars, S!offerVars, S!tabVars
  <2>2. StreamTypes  BY DEF StreamInv
  <2>3. ASSUME NEW c \in Tabs, NEW q \in Requests  PROVE TabOK(c, q)'
    <3>1. TabOK(c, q)  BY DEF StreamInv
    <3> QED  BY <2>1, <3>1 DEF TabOK, Underway, Begun, streams
  <2> QED  BY <2>1, <2>2, <2>3, TabMoves DEF StreamTypes
<1> QED  BY <1>1, <1>2, <1>3, ClearsKeeps, EvictedKeeps DEF S!Next

THEOREM StreamsAlways == S!Spec => []StreamInv
BY StreamsInit, StreamsStep, PTL DEF S!Spec

\* A tab that is part of a stream has every chunk of it, once and in order, and its
\* end once the turn is over; the stream of a turn under way is the one offered
\* (chat/resumable_stream.py and the resume handlers of chat/agent.py).
THEOREM TabsSee == S!Spec => []TabsSeeStreams
<1>1. ASSUME StreamInv  PROVE TabsSeeStreams
  <2>1. S!CaughtUp
    <3> SUFFICES ASSUME NEW c \in Tabs, NEW r \in joined[c] \ late, status[r] # "none"
                 PROVE  view[c][r] = S!Chunks(emitted[r])
      BY DEF S!CaughtUp
    <3>1. r \in Requests  BY <1>1 DEF StreamInv, StreamTypes
    <3> QED  BY <1>1, <3>1 DEF StreamInv, TabOK
  <2>2. S!NobodyHangs
    <3> SUFFICES ASSUME NEW c \in Tabs, NEW r \in joined[c], turn[r] = "over"  PROVE r \in done[c]
      BY DEF S!NobodyHangs
    <3>1. r \in Requests  BY <1>1 DEF StreamInv, StreamTypes
    <3> QED  BY <1>1, <3>1 DEF StreamInv, TabOK, Underway
  <2>3. S!LiveIsOffered  BY <1>1 DEF S!LiveIsOffered, StreamInv, RequestOK, Underway
  <2> QED  BY <2>1, <2>2, <2>3 DEF TabsSeeStreams, S!TabsSeeStreams
<1> QED  BY <1>1, StreamsAlways, PTL

-----------------------------------------------------------------------------
(* MCP: what was overtaken gives no connection a session.                  *)

\* What an open or a discovery comes back with. An attempt that resumes has heard it.
Gots == {"ok", "gone", "cancelled", "auth", "stale", "error"}
Fit(k) == k # NoTask =>
  {"pc", "got"} \subseteq DOMAIN k /\ (k.pc = "resume" => k.got \in Gots)
TasksOK ==
  /\ tasks = [t \in TaskIds |-> tasks[t]]
  /\ \A t \in TaskIds : Fit(tasks[t])

LEMMA TaskWritten ==
  ASSUME TasksOK, NEW t, NEW k, t \in TaskIds => Fit(k), tasks' = [tasks EXCEPT ![t] = k]
  PROVE  TasksOK'
BY DEF TasksOK

LEMMA EndsFit ==
  ASSUME TasksOK, NEW t, NEW got \in Gots, Ends(t, got)
  PROVE  TasksOK'
<1>1. tasks' = After(t, got)  BY DEF Ends
<1>2. ASSUME NEW u \in TaskIds, tasks[u] # NoTask  PROVE Fit(After(t, got)[u])
  <2>1. {"pc", "got"} \subseteq DOMAIN tasks[u] /\ (tasks[u].pc = "resume" => tasks[u].got \in Gots)
    BY <1>2 DEF TasksOK, Fit
  <2> DEFINE woken == [tasks[u] EXCEPT !.pc = "resume", !.on = 0, !.got = got,
                                       !.cancelled = @ \/ got = "cancelled"]
             left == [tasks[u] EXCEPT !.by = Gone]
  <2>2. Fit(woken) /\ Fit(left)  BY <2>1 DEF Fit
  <2>3. After(t, got)[u] \in {NoTask, woken, left, tasks[u]}  BY DEF After
  <2>4. Fit(NoTask) /\ Fit(tasks[u])  BY DEF Fit, TasksOK
  <2> HIDE DEF woken, left
  <2> QED  BY <2>2, <2>3, <2>4
<1>3. ASSUME NEW u \in TaskIds, tasks[u] = NoTask  PROVE Fit(After(t, got)[u])
  BY <1>3 DEF After, Fit
<1>4. After(t, got) = [u \in TaskIds |-> After(t, got)[u]]  BY DEF After
<1> HIDE DEF Gots
<1> QED  BY <1>1, <1>2, <1>3, <1>4 DEF TasksOK

LEMMA GoesFits ==
  ASSUME TasksOK, NEW t, tasks[t] # NoTask, NEW pc, pc # "resume", Goes(t, pc)
  PROVE  TasksOK'
<1> DEFINE k == [tasks[t] EXCEPT !.pc = pc]
<1>1. tasks' = [tasks EXCEPT ![t] = k]  BY DEF Goes
<1>2. t \in TaskIds => Fit(k)  BY DEF TasksOK, Fit
<1> HIDE DEF k
<1> QED  BY <1>1, <1>2, TaskWritten

LEMMA CancelledFit ==
  ASSUME TasksOK, NEW ts, tasks' = Cancelled(ts)
  PROVE  TasksOK'
BY DEF TasksOK, Fit, Cancelled

LEMMA EstablishFits ==
  ASSUME TasksOK, NEW id, NEW code, Establish(id, code)
  PROVE  TasksOK'
<1> DEFINE k == [Task("attempt", current[id], Maker) EXCEPT !.code = code]
<1>1. tasks' = tasks \/ tasks' = [tasks EXCEPT ![NewTask] = k]  BY DEF Establish
<1>2. Fit(k)  BY DEF Fit, Task
<1> HIDE DEF k
<1> QED  BY <1>1, <1>2, TaskWritten DEF TasksOK

LEMMA ConnectOnceFits ==
  ASSUME TasksOK, NEW t, tasks[t] # NoTask, NEW c, ConnectOnce(t, c)
  PROVE  TasksOK'
<1>1. Ends(t, "gone") \/ Goes(t, "close") \/ Goes(t, "open")  BY DEF ConnectOnce
<1> QED  BY <1>1, EndsFit, GoesFits DEF Gots

\* What was raised is one of six things, and each is handled.
LEMMA HandledCases ==
  ASSUME NEW t, NEW got \in Gots, Handles(t, got)
  PROVE  LET i == tasks[t].conn
             c == conns[i]
             s == [c EXCEPT !.sid = FALSE]
             r == [c EXCEPT !.sid = FALSE, !.state = IF c.session THEN @ ELSE "CONNECTING"]
         IN  \/ Ends(t, "ok") /\ conns' = conns
             \/ Ends(t, "ok") /\ \E d \in Authorizations(c) : Becomes(i, d)
             \/ Ends(t, "ok") /\ Becomes(i, s)
             \/ Fails(t)
             \/ Goes(t, "sleep") /\ conns' = conns
             \/ /\ Becomes(i, r)
                /\ tasks' = [tasks EXCEPT ![t].stale = TRUE, ![t].got = "none",
                                          ![t].pc = IF c.session THEN "close" ELSE "open"]
<1> DEFINE i == tasks[t].conn
           c == conns[i]
           s == [c EXCEPT !.sid = FALSE]
           r == [c EXCEPT !.sid = FALSE, !.state = IF c.session THEN @ ELSE "CONNECTING"]
           more == [tasks EXCEPT ![t].stale = TRUE, ![t].got = "none",
                                 ![t].pc = IF c.session THEN "close" ELSE "open"]
           Handled == \/ Ends(t, "ok") /\ conns' = conns
                      \/ Ends(t, "ok") /\ \E d \in Authorizations(c) : Becomes(i, d)
                      \/ Ends(t, "ok") /\ Becomes(i, s)
                      \/ Fails(t)
                      \/ Goes(t, "sleep") /\ conns' = conns
                      \/ Becomes(i, r) /\ tasks' = more
<1> SUFFICES Handled  OBVIOUS
<1>1. CASE got \in {"ok", "gone", "cancelled"}  BY <1>1 DEF Handles
<1>2. CASE got = "auth" /\ IsCurrent(i, tasks[t].gen)  BY <1>2 DEF Handles
<1>3. CASE got = "auth" /\ ~IsCurrent(i, tasks[t].gen)  BY <1>3 DEF Handles
<1>4. CASE got = "stale" /\ ~tasks[t].stale  BY <1>4 DEF Handles
<1>5. CASE got = "stale" /\ tasks[t].stale  BY <1>5 DEF Handles
<1>6. CASE got = "error"  BY <1>6 DEF Handles
<1> HIDE DEF Handled
<1> QED  BY <1>1, <1>2, <1>3, <1>4, <1>5, <1>6 DEF Gots

LEMMA HandlesFit ==
  ASSUME TasksOK, NEW t, tasks[t] # NoTask, NEW got \in Gots, Handles(t, got)
  PROVE  TasksOK'
<1> DEFINE pc == IF conns[tasks[t].conn].session THEN "close" ELSE "open"
           k == [tasks[t] EXCEPT !.stale = TRUE, !.got = "none", !.pc = pc]
<1>1. \/ Ends(t, "ok") \/ Goes(t, "sleep")
      \/ tasks' = [tasks EXCEPT ![t].stale = TRUE, ![t].got = "none", ![t].pc = pc]
  BY HandledCases DEF Fails
<1>2. ASSUME tasks' = [tasks EXCEPT ![t].stale = TRUE, ![t].got = "none", ![t].pc = pc]
      PROVE  TasksOK'
  <2>1. t \in TaskIds => Fit(k)  BY DEF TasksOK, Fit
  <2>2. tasks' = [tasks EXCEPT ![t] = k]  BY <1>2 DEF TasksOK
  <2> HIDE DEF k
  <2> QED  BY <2>1, <2>2, TaskWritten
<1> HIDE DEF pc
<1> QED  BY <1>1, <1>2, EndsFit, GoesFits DEF Gots

LEMMA DiscoversFits ==
  ASSUME TasksOK, NEW t, tasks[t] # NoTask, Discovers(t)
  PROVE  TasksOK'
<1> DEFINE id == tasks[t].id
           j == finds[id].task
           failed == [tasks[t] EXCEPT !.pc = "resume", !.got = "error"]
           joins == [tasks[t] EXCEPT !.pc = "wait", !.on = j, !.cancelled = FALSE]
           waits == [tasks[t] EXCEPT !.pc = "wait", !.on = NewTask, !.cancelled = FALSE]
           find == Task("find", current[id], t)
<1>1. t \in TaskIds => Fit(failed) /\ Fit(joins) /\ Fit(waits)  BY DEF TasksOK, Fit, Gots
<1>2. Fit(find)  BY DEF Fit, Task
<1>3. CASE current[id] = 0
  <2>1. tasks' = [tasks EXCEPT ![t] = failed]  BY <1>3 DEF Discovers, TasksOK
  <2> HIDE DEF failed
  <2> QED  BY <1>1, <2>1, TaskWritten
<1>4. CASE current[id] # 0 /\ ~IsCurrent(current[id], tasks[t].gen)
  <2>1. Ends(t, "gone")  BY <1>4 DEF Discovers
  <2> QED  BY <2>1, EndsFit DEF Gots
<1>5. CASE current[id] # 0 /\ IsCurrent(current[id], tasks[t].gen) /\ Shares(finds[id], tasks[t].gen)
  <2>1. Ends(t, "ok") \/ tasks' = [tasks EXCEPT ![t] = joins]
    BY <1>5 DEF Discovers, TasksOK
  <2> HIDE DEF joins
  <2> QED  BY <1>1, <2>1, TaskWritten, EndsFit DEF Gots
<1>6. CASE current[id] # 0 /\ IsCurrent(current[id], tasks[t].gen) /\ ~Shares(finds[id], tasks[t].gen)
  <2>1. tasks' = [tasks EXCEPT ![t].pc = "wait", ![t].on = NewTask, ![t].cancelled = FALSE,
                               ![NewTask] = find]
    BY <1>6 DEF Discovers
  <2>2. /\ tasks' = [u \in TaskIds |-> tasks'[u]]
        /\ \A u \in TaskIds : tasks'[u] = IF u = NewTask THEN find ELSE IF u = t THEN waits ELSE tasks[u]
    BY <2>1 DEF TasksOK
  <2> HIDE DEF find, waits
  <2> QED  BY <1>1, <1>2, <2>2 DEF TasksOK
<1> QED  BY <1>3, <1>4, <1>5, <1>6

\* The steps of a task, but for an open that succeeds.
TaskSteps(t) ==
  \/ CallerCancelled(t) \/ Unwinds(t) \/ AttemptBegins(t) \/ Closed(t) \/ Resumes(t) \/ SleepEnds(t)
  \/ \E got \in {"auth", "stale", "error"} : OpenRaises(t, got)
  \/ FindBegins(t) \/ Found(t) \/ FindStale(t) \/ Dropped(t) \/ FindNeedsAuth(t) \/ FindFails(t)

\* The steps of a caller.
CallSteps(c) ==
  \/ CancelsFind(c) \/ Closes(c) \/ RowMoves(c) \/ SessionCloses(c) \/ ConnectionMoves(c)
  \/ \E id \in Registrable, kind \in {"register", "remove"} : Replaces(c, kind, id)
  \/ \E id \in Registrable, to \in Ids : Moves(c, id, to)
  \/ \E id \in Ids : CallsBack(c, id) \/ ToolStarts(c, id)
  \/ Checked(c) \/ Established(c) \/ Consumed(c) \/ ToolReturns(c) \/ ToolNeedsAuth(c)

LEMMA StepsFit ==
  ASSUME TasksOK, NEW t \in TaskIds, TaskSteps(t) \/ OpenSucceeds(t)
  PROVE  TasksOK'
<1>1. CASE CallerCancelled(t)
  <2> DEFINE k == [tasks[t] EXCEPT !.by = Gone]
  <2>1. tasks' = [tasks EXCEPT ![t] = k]  BY <1>1 DEF CallerCancelled
  <2>2. t \in TaskIds => Fit(k)  BY <1>1 DEF CallerCancelled, TasksOK, Fit
  <2> HIDE DEF k
  <2> QED  BY <2>1, <2>2, TaskWritten
<1>2. CASE Unwinds(t)
  <2>1. Ends(t, "cancelled")  BY <1>2 DEF Unwinds
  <2> QED  BY <2>1, EndsFit DEF Gots
<1>3. CASE AttemptBegins(t) \/ Closed(t) \/ SleepEnds(t) \/ FindBegins(t)
  <2>1. /\ tasks[t] # NoTask
        /\ Ends(t, "ok") \/ Goes(t, "open") \/ Goes(t, "discover") \/ \E c : ConnectOnce(t, c)
    BY <1>3 DEF AttemptBegins, Closed, SleepEnds, FindBegins, At
  <2> QED  BY <2>1, EndsFit, GoesFits, ConnectOnceFits DEF Gots
<1>4. CASE Resumes(t)
  <2>1. tasks[t] # NoTask /\ tasks[t].pc = "resume" /\ Handles(t, tasks[t].got)
    BY <1>4 DEF Resumes, At
  <2>2. tasks[t].got \in Gots  BY <2>1 DEF TasksOK, Fit
  <2> QED  BY <2>1, <2>2, HandlesFit
<1>5. ASSUME NEW got \in {"auth", "stale", "error"}, OpenRaises(t, got)  PROVE TasksOK'
  <2>1. tasks[t] # NoTask /\ (Handles(t, got) \/ Ends(t, got))
    BY <1>5 DEF OpenRaises, Opening, Raised
  <2> QED  BY <2>1, HandlesFit, EndsFit DEF Gots
<1>6. CASE Found(t) \/ FindStale(t) \/ Dropped(t) \/ FindNeedsAuth(t) \/ FindFails(t)
  <2>1. /\ tasks[t] # NoTask
        /\ Ends(t, "ok") \/ Ends(t, "stale") \/ Goes(t, "drop") \/ \E c : ConnectOnce(t, c)
    BY <1>6 DEF Found, FindStale, Dropped, FindNeedsAuth, FindFails, At
  <2> QED  BY <2>1, EndsFit, GoesFits, ConnectOnceFits DEF Gots
<1>7. CASE OpenSucceeds(t)
  <2> DEFINE k == [tasks[t] EXCEPT !.pc = "discover", !.stale = TRUE, !.cancelled = FALSE]
  <2>1. /\ tasks[t] # NoTask
        /\ Ends(t, "gone") \/ Discovers(t) \/ tasks' = [tasks EXCEPT ![t] = k]
    BY <1>7 DEF OpenSucceeds, Opening, TasksOK
  <2>2. Fit(k)  BY <2>1 DEF TasksOK, Fit
  <2> HIDE DEF k
  <2> QED  BY <2>1, <2>2, TaskWritten, EndsFit, DiscoversFits DEF Gots
<1> QED  BY <1>1, <1>2, <1>3, <1>4, <1>5, <1>6, <1>7 DEF TaskSteps

LEMMA TasksStep ==
  ASSUME TasksOK, [Next]_vars
  PROVE  TasksOK'
<1>1. CASE tasks' = tasks  BY <1>1 DEF TasksOK
<1>2. CASE \E ts : tasks' = Cancelled(ts)  BY <1>2, CancelledFit
<1>3. CASE \E id, code : Establish(id, code)  BY <1>3, EstablishFits
<1>4. ASSUME NEW id, Refresh(id)  PROVE TasksOK'
  <2> DEFINE k == Task("find", current[id], Maker)
  <2>1. tasks' = [tasks EXCEPT ![NewTask] = k]  BY <1>4 DEF Refresh
  <2>2. Fit(k)  BY DEF Fit, Task
  <2> HIDE DEF k
  <2> QED  BY <2>1, <2>2, TaskWritten
<1>5. CASE UNCHANGED vars \/ \E id \in Ids : Connect(id) \/ Refresh(id) \/ RestoreGoes(id) \/ RestoreDone(id)
  <2>1. CASE UNCHANGED vars  BY <1>1, <2>1 DEF vars
  <2>2. ASSUME NEW id, Connect(id) \/ RestoreGoes(id) \/ RestoreDone(id)  PROVE TasksOK'
    BY <1>1, <1>3, <2>2 DEF Connect, RestoreGoes, RestoreDone
  <2> QED  BY <1>4, <1>5, <2>1, <2>2
<1>6. ASSUME NEW c, CallSteps(c)  PROVE TasksOK'
  <2>1. CASE CancelsFind(c) \/ \E id \in Registrable, kind \in {"register", "remove"} : Replaces(c, kind, id)
    BY <1>2, <2>1 DEF CancelsFind, Replaces
  <2>2. CASE Checked(c)
    <3>1. tasks' = tasks \/ Establish(calls[c].id, TRUE)  BY <2>2 DEF Checked
    <3> QED  BY <1>1, <1>3, <3>1
  <2>3. CASE \/ Closes(c) \/ RowMoves(c) \/ SessionCloses(c) \/ ConnectionMoves(c) \/ Established(c)
             \/ Consumed(c) \/ ToolReturns(c) \/ ToolNeedsAuth(c)
             \/ \E id \in Registrable, to \in Ids : Moves(c, id, to)
             \/ \E id \in Ids : CallsBack(c, id) \/ ToolStarts(c, id)
    BY <1>1, <2>3 DEF Closes, RowMoves, SessionCloses, ConnectionMoves, Established, Consumed,
       ToolReturns, ToolNeedsAuth, Moves, CallsBack, ToolStarts
  <2> QED  BY <1>6, <2>1, <2>2, <2>3 DEF CallSteps
<1>7. CASE Restart
  <2>1. tasks' = [t \in TaskIds |-> NoTask]  BY <1>7 DEF Restart
  <2> QED  BY <2>1 DEF TasksOK, Fit
<1>8. CASE RestoreTimeout  BY <1>2, <1>8 DEF RestoreTimeout
<1>9. Next => \/ \E c : CallSteps(c)
              \/ \E id \in Ids : Connect(id) \/ Refresh(id) \/ RestoreGoes(id) \/ RestoreDone(id)
              \/ \E t \in TaskIds : TaskSteps(t) \/ OpenSucceeds(t)
              \/ Restart \/ RestoreTimeout
  BY DEF Next, CallSteps, TaskSteps
<1> QED  BY <1>5, <1>6, <1>7, <1>8, <1>9, StepsFit

ConnsOK ==
  /\ conns = [i \in Conns |-> conns[i]]
  /\ \A i \in Conns : "session" \in DOMAIN conns[i]

\* No connection gets a session that has none.
Shaped(i, c) == i \in Conns => "session" \in DOMAIN c /\ (c.session => conns[i].session)
Quiet ==
  /\ conns' = [i \in Conns |-> conns'[i]]
  /\ \A i \in Conns : Shaped(i, conns'[i])

LEMMA BecomesQuiet ==
  ASSUME ConnsOK, NEW i, NEW c, Shaped(i, c), Becomes(i, c)
  PROVE  Quiet
<1>1. conns' = [conns EXCEPT ![i] = c]  BY DEF Becomes
<1>2. conns' = [j \in Conns |-> conns'[j]] /\ \A j \in Conns : conns'[j] = IF j = i THEN c ELSE conns[j]
  BY <1>1 DEF ConnsOK
<1> QED  BY <1>2 DEF ConnsOK, Shaped, Quiet

LEMMA SameQuiet ==
  ASSUME ConnsOK, conns' = conns
  PROVE  Quiet
BY DEF ConnsOK, Shaped, Quiet

\* The state of a connection is not its session.
LEMMA StateShaped ==
  ASSUME NEW i, NEW c, Shaped(i, c), NEW x
  PROVE  Shaped(i, [c EXCEPT !.state = x])
BY DEF Shaped

LEMMA ConnectOnceQuiet ==
  ASSUME ConnsOK, NEW t, NEW c, Shaped(tasks[t].conn, c), ConnectOnce(t, c)
  PROVE  Quiet
<1> DEFINE i == tasks[t].conn
<1>1. Becomes(i, c) \/ Becomes(i, [c EXCEPT !.state = "CONNECTING"])  BY DEF ConnectOnce
<1>2. Shaped(i, [c EXCEPT !.state = "CONNECTING"])  BY StateShaped
<1> QED  BY <1>1, <1>2, BecomesQuiet

LEMMA FailsQuiet ==
  ASSUME ConnsOK, NEW t, Fails(t)
  PROVE  Quiet
<1> DEFINE i == tasks[t].conn
<1>1. Becomes(i, [conns[i] EXCEPT !.state = "FAILED"]) \/ conns' = conns  BY DEF Fails
<1>2. Shaped(i, conns[i])  BY DEF Shaped, ConnsOK
<1>3. Shaped(i, [conns[i] EXCEPT !.state = "FAILED"])  BY <1>2, StateShaped
<1> QED  BY <1>1, <1>3, BecomesQuiet, SameQuiet

LEMMA AuthorizationsShaped ==
  ASSUME ConnsOK, NEW i, NEW d \in Authorizations(conns[i])
  PROVE  Shaped(i, d)
BY DEF Authorizations, Shaped, ConnsOK

LEMMA HandlesQuiet ==
  ASSUME ConnsOK, NEW t, NEW got \in Gots, Handles(t, got)
  PROVE  Quiet
<1> DEFINE i == tasks[t].conn
           c == conns[i]
           s == [c EXCEPT !.sid = FALSE]
           r == [c EXCEPT !.sid = FALSE, !.state = IF c.session THEN @ ELSE "CONNECTING"]
<1>1. \/ conns' = conns \/ Fails(t)
      \/ \E d \in Authorizations(c) : Becomes(i, d)
      \/ Becomes(i, s) \/ Becomes(i, r)
  BY HandledCases
<1>2. Shaped(i, s) /\ Shaped(i, r)  BY DEF Shaped, ConnsOK
<1> HIDE DEF s, r
<1> QED  BY <1>1, <1>2, SameQuiet, FailsQuiet, AuthorizationsShaped, BecomesQuiet

LEMMA TasksQuiet ==
  ASSUME ConnsOK, TasksOK, NEW t \in TaskIds, TaskSteps(t)
  PROVE  Quiet
<1> DEFINE i == tasks[t].conn
           c == conns[i]
           s == [c EXCEPT !.sid = FALSE]
           closed == [c EXCEPT !.session = FALSE, !.state = "CONNECTING"]
           found == [c EXCEPT !.state = "READY", !.step = FALSE, !.sid = @ \/ c.session]
<1>1. /\ Shaped(i, c) /\ Shaped(i, s) /\ Shaped(i, closed) /\ Shaped(i, found)
      /\ Shaped(i, [c EXCEPT !.left = TRUE]) /\ Shaped(i, [c EXCEPT !.session = FALSE])
      /\ Shaped(i, [c EXCEPT !.state = "DISCOVERING"]) /\ Shaped(i, [c EXCEPT !.state = "CONNECTED"])
  BY DEF Shaped, ConnsOK
<1>2. CASE CallerCancelled(t)  BY <1>2, SameQuiet DEF CallerCancelled, table
<1>3. CASE Unwinds(t)
  <2>1. conns' = conns \/ Becomes(i, s)  BY <1>3 DEF Unwinds
  <2> QED  BY <1>1, <2>1, SameQuiet, BecomesQuiet
<1>4. CASE AttemptBegins(t)
  <2>1. conns' = conns \/ ConnectOnce(t, c)  BY <1>4 DEF AttemptBegins
  <2> QED  BY <1>1, <2>1, SameQuiet, ConnectOnceQuiet
<1>5. CASE Closed(t)
  <2>1. Becomes(i, closed)  BY <1>5 DEF Closed
  <2> QED  BY <1>1, <2>1, BecomesQuiet
<1>6. CASE Resumes(t)
  <2>1. Handles(t, tasks[t].got) /\ tasks[t].got \in Gots  BY <1>6 DEF Resumes, At, TasksOK, Fit
  <2> QED  BY <2>1, HandlesQuiet
<1>7. CASE SleepEnds(t)
  <2>1. ConnectOnce(t, c)  BY <1>7 DEF SleepEnds
  <2> QED  BY <1>1, <2>1, ConnectOnceQuiet
<1>8. ASSUME NEW got \in {"auth", "stale", "error"}, OpenRaises(t, got)  PROVE Quiet
  <2>1. Handles(t, got) \/ Becomes(i, [c EXCEPT !.left = TRUE])  BY <1>8 DEF OpenRaises, Raised
  <2> QED  BY <1>1, <2>1, HandlesQuiet, BecomesQuiet DEF Gots
<1>9. CASE FindBegins(t)
  <2>1. conns' = conns \/ Becomes(i, [c EXCEPT !.state = "DISCOVERING"])  BY <1>9 DEF FindBegins
  <2> QED  BY <1>1, <2>1, SameQuiet, BecomesQuiet
<1>10. CASE Found(t)
  <2>1. conns' = conns \/ Becomes(i, found)  BY <1>10 DEF Found
  <2> QED  BY <1>1, <2>1, SameQuiet, BecomesQuiet
<1>11. CASE FindStale(t)
  <2>1. \/ Becomes(i, [c EXCEPT !.left = TRUE]) \/ Becomes(i, [c EXCEPT !.session = FALSE])
        \/ ConnectOnce(t, c)
    BY <1>11 DEF FindStale
  <2> QED  BY <1>1, <2>1, BecomesQuiet, ConnectOnceQuiet
<1>12. CASE Dropped(t)
  <2>1. ConnectOnce(t, s)  BY <1>12 DEF Dropped
  <2> QED  BY <1>1, <2>1, ConnectOnceQuiet
<1>13. CASE FindNeedsAuth(t)
  <2>1. \/ conns' = conns \/ Becomes(i, [c EXCEPT !.state = "CONNECTED"])
        \/ \E d \in Authorizations(c) : Becomes(i, d)
    BY <1>13 DEF FindNeedsAuth
  <2> QED  BY <1>1, <2>1, SameQuiet, AuthorizationsShaped, BecomesQuiet
<1>14. CASE FindFails(t)
  <2>1. conns' = conns \/ Becomes(i, [c EXCEPT !.state = "CONNECTED"])  BY <1>14 DEF FindFails
  <2> QED  BY <1>1, <2>1, SameQuiet, BecomesQuiet
<1> QED  BY <1>2, <1>3, <1>4, <1>5, <1>6, <1>7, <1>8, <1>9, <1>10, <1>11, <1>12, <1>13, <1>14 DEF TaskSteps

LEMMA FinishesQuiet ==
  ASSUME ConnsOK, NEW c, NEW rest, Finishes(c, rest)
  PROVE  Quiet
<1>1. \/ conns' = conns
      \/ \E auth \in BOOLEAN : Becomes(NewConn, Made(calls[c].id, calls[c].gen, rows'[calls[c].id]))
  BY DEF Finishes, Registers, Removes
<1>2. \A id, g, row : Shaped(NewConn, Made(id, g, row))  BY DEF Made, Shaped
<1> QED  BY <1>1, <1>2, SameQuiet, BecomesQuiet

LEMMA CallsQuiet ==
  ASSUME ConnsOK, NEW c, CallSteps(c)
  PROVE  Quiet
<1>1. CASE \/ CancelsFind(c) \/ RowMoves(c) \/ Checked(c) \/ Established(c) \/ ToolReturns(c)
           \/ \E id \in Registrable, kind \in {"register", "remove"} : Replaces(c, kind, id)
           \/ \E id \in Registrable, to \in Ids : Moves(c, id, to)
           \/ \E id \in Ids : CallsBack(c, id) \/ ToolStarts(c, id)
  BY <1>1, SameQuiet DEF CancelsFind, RowMoves, Checked, Established, ToolReturns, Replaces, Moves,
     CallsBack, ToolStarts, table
<1>2. CASE Closes(c)
  <2> DEFINE i == current[calls[c].id]
             d == [conns[i] EXCEPT !.session = FALSE, !.sid = FALSE]
  <2>1. Becomes(i, d) \/ \E rest : Finishes(c, rest)  BY <1>2 DEF Closes
  <2>2. Shaped(i, d)  BY DEF Shaped, ConnsOK
  <2> QED  BY <2>1, <2>2, BecomesQuiet, FinishesQuiet
<1>3. CASE SessionCloses(c)  BY <1>3, FinishesQuiet DEF SessionCloses
<1>4. CASE ConnectionMoves(c)
  <2> DEFINE i == current[calls[c].id]
             d == [conns[i] EXCEPT !.id = calls[c].to, !.gen = calls[c].gen]
  <2>1. conns' = conns \/ Becomes(i, d)  BY <1>4 DEF ConnectionMoves
  <2>2. Shaped(i, d)  BY DEF Shaped, ConnsOK
  <2> QED  BY <2>1, <2>2, SameQuiet, BecomesQuiet
<1>5. CASE Consumed(c)
  <2> DEFINE i == calls[c].conn
             d == [conns[i] EXCEPT !.state = "FAILED", !.auth = FALSE]
  <2>1. conns' = conns \/ Becomes(i, d)  BY <1>5 DEF Consumed
  <2>2. Shaped(i, d)  BY DEF Shaped, ConnsOK
  <2> QED  BY <2>1, <2>2, SameQuiet, BecomesQuiet
<1>6. CASE ToolNeedsAuth(c)
  <2>1. \E d \in Authorizations(conns[current[calls[c].id]]) : Becomes(current[calls[c].id], d)
    BY <1>6 DEF ToolNeedsAuth
  <2> QED  BY <2>1, AuthorizationsShaped, BecomesQuiet
<1> QED  BY <1>1, <1>2, <1>3, <1>4, <1>5, <1>6 DEF CallSteps

LEMMA RestartsQuiet ==
  ASSUME ConnsOK, Restart \/ RestoreTimeout
  PROVE  Quiet
<1>1. CASE Restart
  <2>1. \E on : conns' = [i \in Conns |-> IF on[i] THEN LET id == CHOOSE id \in Ids : current'[id] = i
                                                        IN  Made(id, 1, rows[id]) ELSE Unmade]
    <3> DEFINE on == [i \in Conns |-> \E id \in Ids : current'[id] = i]
    <3>1. conns' = [i \in Conns |-> IF on[i] THEN LET id == CHOOSE id \in Ids : current'[id] = i
                                                  IN  Made(id, 1, rows[id]) ELSE Unmade]
      BY <1>1 DEF Restart
    <3> QED  BY <3>1
  <2>2. \A id, row : "session" \in DOMAIN Made(id, 1, row) /\ Made(id, 1, row).session = FALSE
    BY DEF Made
  <2>3. "session" \in DOMAIN Unmade /\ Unmade.session = FALSE  BY DEF Unmade
  <2> QED  BY <2>1, <2>2, <2>3 DEF Quiet, Shaped
<1>2. CASE RestoreTimeout
  <2>1. /\ conns' = [i \in Conns |-> conns'[i]]
        /\ \A i \in Conns : conns'[i] = conns[i] \/ conns'[i] = [conns[i] EXCEPT !.state = "FAILED"]
    BY <1>2 DEF RestoreTimeout
  <2> QED  BY <2>1 DEF Quiet, Shaped, ConnsOK
<1> QED  BY <1>1, <1>2

\* Connections that get a session are those that their ids name, of the latest
\* registration.
Opens ==
  \A i \in Conns : ~conns[i].session /\ conns'[i].session =>
    /\ current'[conns'[i].id] = i /\ gens'[conns'[i].id] = conns'[i].gen

LEMMA OpenedIsCurrent ==
  ASSUME ConnsOK, NEW t, OpenSucceeds(t)
  PROVE  ConnsOK' /\ Opens
<1> DEFINE i == tasks[t].conn
           d == [conns[i] EXCEPT !.session = TRUE, !.auth = FALSE, !.sid = TRUE, !.left = FALSE]
<1>1. UNCHANGED <<current, gens>>  BY DEF OpenSucceeds
<1>2. CASE ~Takes(t)
  <2>1. conns' = conns  BY <1>2 DEF OpenSucceeds
  <2> QED  BY <2>1 DEF ConnsOK, Opens
<1>3. CASE Takes(t)
  <2>1. conns[i].gen = tasks[t].gen /\ gens[conns[i].id] = tasks[t].gen /\ current[conns[i].id] = i
    BY <1>3 DEF Takes, IsCurrent
  <2>2. PICK state : conns' = [conns EXCEPT ![i] = [d EXCEPT !.state = state]]
    BY <1>3 DEF OpenSucceeds, Becomes
  <2> DEFINE e == [d EXCEPT !.state = state]
  <2>3. DOMAIN e = DOMAIN conns[i] /\ e.id = conns[i].id /\ e.gen = conns[i].gen  OBVIOUS
  <2> HIDE DEF e
  <2>4. conns' = [j \in Conns |-> IF j = i THEN e ELSE conns[j]]  BY <2>2 DEF ConnsOK, e
  <2> QED  BY <1>1, <2>1, <2>3, <2>4 DEF ConnsOK, Opens
<1> QED  BY <1>2, <1>3

LEMMA ConnsStep ==
  ASSUME ConnsOK, TasksOK, [Next]_vars
  PROVE  ConnsOK' /\ Opens
<1>1. ASSUME Quiet  PROVE ConnsOK' /\ Opens
  BY <1>1 DEF Quiet, Shaped, ConnsOK, Opens
<1>2. CASE UNCHANGED vars \/ \E id \in Ids : Connect(id) \/ Refresh(id) \/ RestoreGoes(id) \/ RestoreDone(id)
  <2>1. conns' = conns  BY <1>2 DEF vars, table, Connect, Refresh, RestoreGoes, RestoreDone
  <2> QED  BY <1>1, <2>1, SameQuiet
<1>3. ASSUME NEW c, CallSteps(c)  PROVE ConnsOK' /\ Opens
  BY <1>1, <1>3, CallsQuiet
<1>4. ASSUME NEW t \in TaskIds, TaskSteps(t)  PROVE ConnsOK' /\ Opens
  BY <1>1, <1>4, TasksQuiet
<1>5. CASE Restart \/ RestoreTimeout  BY <1>1, <1>5, RestartsQuiet
<1>6. Next => \/ \E c : CallSteps(c)
              \/ \E id \in Ids : Connect(id) \/ Refresh(id) \/ RestoreGoes(id) \/ RestoreDone(id)
              \/ \E t \in TaskIds : TaskSteps(t) \/ OpenSucceeds(t)
              \/ Restart \/ RestoreTimeout
  BY DEF Next, CallSteps, TaskSteps
<1> QED  BY <1>2, <1>3, <1>4, <1>5, <1>6, OpenedIsCurrent

\* A connection gets a session only while its id names it and its generation is the
\* id's latest, whatever a registration, a removal or a move overtook and whether or not
\* the cancellation came to nothing, for any number of servers, callers, connections and
\* tasks (_connect_once, which asks _is_current after the open).
THEOREM OvertakenOpensNothing == Spec => OnlyCurrentOpens
<1>1. Init => ConnsOK /\ TasksOK  BY DEF Init, ConnsOK, Unmade, TasksOK, Fit
<1>2. ConnsOK /\ TasksOK /\ [Next]_vars => ConnsOK' /\ TasksOK'  BY ConnsStep, TasksStep
<1>3. ConnsOK /\ TasksOK /\ [Next]_vars =>
        [\A i \in Conns : conns[i].id # NoId /\ ~conns[i].session /\ conns'[i].session =>
           /\ current'[conns'[i].id] = i /\ gens'[conns'[i].id] = conns'[i].gen]_vars
  BY ConnsStep DEF Opens
<1> QED  BY <1>1, <1>2, <1>3, PTL DEF Spec, OnlyCurrentOpens
=============================================================================

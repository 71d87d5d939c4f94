------------------------------- MODULE Sessions -------------------------------
(***************************************************************************)
(* The session trees of agents/sessions.py and their tables                 *)
(* (_session_store.py): messages with parents, the cached tail, the blobs   *)
(* that messages share (_session_attachments.py), the search index, and the *)
(* summaries that stand for ranges of a path (_session_compaction.py).      *)
(* Writes are transactions without a suspension; what suspends is the        *)
(* compaction function and the listeners that are told of a write.          *)
(***************************************************************************)
EXTENDS Integers, Sequences, FiniteSets, SequencesExt

CONSTANTS
  Trees,          \* session ids
  Opened,         \* those that are written to
  Ids,            \* message ids
  Blobs,          \* attachments, by their hash
  Listeners,      \* the subscribed listeners, in their order (a sequence)
  MaxTelling,     \* bound on changes being told at a time
  MaxWrites,      \* bound on writes of messages
  MaxOverlays,    \* bound on summaries, those being made included
  MaxCrashes,     \* bound on evictions
  Stored,         \* a chain of messages stored earlier, the root first
  NoId, NoRow, NoBlob, NoTail, NoWork

Row == [parent: Ids \union {NoId}, seq: Nat, blob: Blobs \union {NoBlob}]
End == [leaf: Ids \union {NoId}, next: Nat]

SessionsAssumption ==
  /\ Trees # {} /\ Opened \subseteq Trees /\ IsFiniteSet(Ids)
  /\ NoId \notin Ids /\ NoBlob \notin Blobs /\ NoRow \notin Row /\ NoTail \notin End
  /\ Stored \in Seq(Ids) \ {<<>>}   \* a chain has each message once
  /\ \A i, j \in DOMAIN Stored : Stored[i] = Stored[j] => i = j
  /\ {MaxWrites, MaxOverlays, MaxTelling, MaxCrashes} \subseteq Nat

VARIABLES
  rows,       \* cf_agents_session_messages: session -> id -> row
  overlays,   \* cf_agents_session_compactions: session -> sequence of ranges
  blobs,      \* cf_agents_session_attachment_meta and _chunks
  refs,       \* cf_agents_session_attachment_refs
  index,      \* cf_agents_session_fts: is it there, and the messages in it
  tails,      \* _SessionStore._tails, a cache
  work,       \* the compaction under the session's lock
  telling,    \* the changes listeners are being told of, in the order of the
              \* writes: the listeners still to be told
  writes, crashes

vars == <<rows, overlays, blobs, refs, index, tails, work, telling, 
          writes, crashes>>
tables == <<rows, overlays, blobs, refs, index, tails>>

Exists(s, id) == id \in Ids /\ rows[s][id] # NoRow
Present(s) == {id \in Ids : rows[s][id] # NoRow}

----------------------------------------------------------------------------
(* Reading.                                                                *)

\* The chain of parents from a message up: the k-th ancestor.
Chain(s, id) ==
  LET up[k \in 0..Cardinality(Ids)] ==
        IF k = 0 THEN id
        ELSE IF Exists(s, up[k - 1]) THEN rows[s][up[k - 1]].parent ELSE NoId
  IN  up

\* path: from the root to the message, for one that exists.
Path(s, leaf) ==
  LET up == Chain(s, leaf)
      n  == Cardinality({k \in DOMAIN up : Exists(s, up[k])})
  IN  [i \in 1..n |-> up[n - i]]

\* What _tail reads from the table when nothing is cached.
TailOfTable(s) ==
  IF Present(s) = {} THEN [leaf |-> NoId, next |-> 1]
  ELSE LET last == CHOOSE id \in Present(s) :
                     \A o \in Present(s) : rows[s][o].seq <= rows[s][id].seq
       IN  [leaf |-> last, next |-> rows[s][last].seq + 1]

TailOf(s) == IF tails[s] = NoTail THEN TailOfTable(s) ELSE tails[s]

Leaf(s, leaf) == IF leaf = NoId THEN TailOf(s).leaf ELSE leaf

Position(path, id) == CHOOSE i \in 1..Len(path) : path[i] = id
On(path, id) == \E i \in 1..Len(path) : path[i] = id
Fits(path, o) ==
  On(path, o.from) /\ On(path, o.to) /\ Position(path, o.from) <= Position(path, o.to)

\* _plan_overlays: of the summaries that start at a message the latest counts;
\* from the root on, each one found hides its whole range.
Planned(s, path) ==
  LET latest(i) == LET os == {k \in DOMAIN overlays[s] :
                                Fits(path, overlays[s][k]) /\ overlays[s][k].from = path[i]}
                   IN  IF os = {} THEN 0 ELSE CHOOSE k \in os : \A j \in os : j <= k
      hiddenTo[i \in 0..Len(path)] ==
        IF i = 0 THEN 0
        ELSE IF hiddenTo[i - 1] >= i THEN hiddenTo[i - 1]
        ELSE IF latest(i) # 0 THEN Position(path, overlays[s][latest(i)].to) ELSE 0
      starts == {i \in 1..Len(path) : hiddenTo[i - 1] < i /\ latest(i) # 0}
  IN  {[first |-> i, last |-> hiddenTo[i], overlay |-> latest(i)] : i \in starts}

\* The history a reader gets: messages as they are, and the summaries shown.
History(s, path) ==
  LET spans == Planned(s, path)
  IN  [raw |-> {path[i] : i \in {j \in 1..Len(path) :
                                   \A p \in spans : j < p.first \/ j > p.last}},
       shown |-> {p.overlay : p \in spans}]

----------------------------------------------------------------------------
(* Telling listeners, one after the other, after the write.                *)

\* Nothing suspends between a write and the call of the first listener.
Tells ==
  /\ Len(telling) < MaxTelling
  /\ writes' = writes + 1
  /\ telling' = IF Len(Listeners) < 2 THEN telling ELSE Append(telling, Tail(Listeners))
  /\ UNCHANGED crashes

\* The next listener of a change, when the one before it has come back.
TellNext(i) ==
  /\ telling' = IF Len(telling[i]) = 1 THEN RemoveAt(telling, i)
                ELSE [telling EXCEPT ![i] = Tail(@)]
  /\ UNCHANGED <<tables, work, writes, crashes>>

\* _message_generation, as far as the compaction under way will compare it.
Changes(s) ==
  /\ writes < MaxWrites
  /\ work' = IF work[s] = NoWork THEN work ELSE [work EXCEPT ![s].changed = TRUE]

----------------------------------------------------------------------------
(* Attachments: put once, referenced by each message that holds them.      *)

Held(s, id) == {r \in refs : r[1] = s /\ r[2] = id}
Pointers(s, id, blob) == IF blob = NoBlob THEN {} ELSE {<<s, id, blob>>}

\* _collect_attachments: of the blobs released, those nobody references.
Collected(s, dropped, left) == {b \in dropped : ~\E r \in left : r[3] = b}

Reference(s, id, blob) ==
  LET new  == Pointers(s, id, blob)
      gone == Held(s, id) \ new
  IN  /\ refs' = (refs \ gone) \union new
      /\ blobs' = (blobs \union {r[3] : r \in new})
                  \ Collected(s, {r[3] : r \in gone}, refs')

Release(s, ids) ==
  LET gone == {r \in refs : r[1] = s /\ r[2] \in ids}
  IN  /\ refs' = refs \ gone
      /\ blobs' = blobs \ Collected(s, {r[3] : r \in gone}, refs')

\* _replace_fts and the deletions from it, once the index is there.
Indexed(s, add, drop) ==
  index' = IF ~index.active THEN index
           ELSE [index EXCEPT !.rows = (@ \ {<<s, i>> : i \in drop}) \union {<<s, i>> : i \in add}]

----------------------------------------------------------------------------
(* Writing.                                                                *)

\* Imported histories are trees: no message becomes its own ancestor.
Rooted(s, id, parent) ==
  \A k \in 0..Cardinality(Ids) : Chain(s, parent)[k] # id

Insert(s, id, parent, blob) ==
  /\ Rooted(s, id, parent)
  /\ rows' = [rows EXCEPT ![s][id] = [parent |-> parent, seq |-> TailOf(s).next, blob |-> blob]]
  /\ tails' = [tails EXCEPT ![s] = [leaf |-> id, next |-> TailOf(s).next + 1]]
  /\ Reference(s, id, blob)
  /\ Indexed(s, {id}, {})
  /\ UNCHANGED overlays

\* append_message: without a parent it goes below the latest message; a
\* parent that is not there stands for none.  An id that exists is left alone.
AppendMessage(s, id, parent, blob) ==
  /\ ~Exists(s, id)
  /\ Insert(s, id, CASE parent = "latest" -> TailOf(s).leaf
                     [] parent # "latest" /\ Exists(s, parent) -> parent
                     [] OTHER -> NoId, blob)
  /\ Changes(s) /\ Tells

\* import_message: the parent is kept as it is, there or not.
ImportMessage(s, id, parent) ==
  /\ ~Exists(s, id) /\ writes' = writes + 1
  /\ Insert(s, id, parent, NoBlob)
  /\ Changes(s)
  /\ UNCHANGED <<telling, crashes>>

\* update_message: the row keeps its place; equal content changes nothing.
UpdateMessage(s, id, blob) ==
  /\ Exists(s, id) /\ rows[s][id].blob # blob
  /\ rows' = [rows EXCEPT ![s][id].blob = blob]
  /\ Reference(s, id, blob)
  /\ Indexed(s, {id}, {})
  /\ UNCHANGED <<overlays, tails>>
  /\ Changes(s) /\ Tells

\* A mutant: the children of a deleted message become roots.
NearestRoot(s, id, deleted) == NoId

\* The nearest ancestor that stays: the walk ends at a message that is not
\* deleted, and gives up at one that was never there.
Nearest(s, id, deleted) ==
  LET up    == Chain(s, id)
      stops == {k \in 1..Cardinality(Ids) : up[k] \notin deleted}
      ends  == {k \in 1..Cardinality(Ids) : up[k] \in deleted /\ ~Exists(s, up[k])}
  IN  IF stops = {} \/ \E e \in ends : \A k \in stops : e < k THEN up[1]
      ELSE up[CHOOSE k \in stops : \A j \in stops : k <= j]

Spliced(s, deleted) ==
  [id \in Ids |-> IF id \in deleted \/ ~Exists(s, id) THEN NoRow
                  ELSE [rows[s][id] EXCEPT !.parent =
                          IF @ \in deleted THEN Nearest(s, id, deleted) ELSE @]]

\* A mutant: the cached tail survives the deletion.
ForgetNothing(s) == UNCHANGED tails

ForgetTail(s) == tails' = [tails EXCEPT ![s] = NoTail]

\* delete_messages: one transaction, then the tail is read again.
DeleteMessages(s, deleted) ==
  /\ rows' = [rows EXCEPT ![s] = Spliced(s, deleted)]
  /\ Release(s, deleted)
  /\ Indexed(s, {}, deleted)
  /\ ForgetTail(s)
  /\ UNCHANGED overlays
  /\ Changes(s) /\ Tells

ClearMessages(s) ==
  /\ rows' = [rows EXCEPT ![s] = [id \in Ids |-> NoRow]]
  /\ overlays' = [overlays EXCEPT ![s] = <<>>]
  /\ Release(s, Ids)
  /\ Indexed(s, {}, Ids)
  /\ tails' = [tails EXCEPT ![s] = [leaf |-> NoId, next |-> 1]]
  /\ Changes(s) /\ Tells

\* search: the index is made when it is first wanted, and filled.
Search ==
  /\ ~index.active
  /\ index' = [active |-> TRUE, rows |-> {x \in Trees \X Ids : Exists(x[1], x[2])}]
  /\ UNCHANGED <<rows, overlays, blobs, refs, tails, work, telling,
                 writes, crashes>>

----------------------------------------------------------------------------
(* Compaction.                                                             *)

Unlocked(s) == work[s] = NoWork

\* The bound on summaries, over all sessions.
Spare == Cardinality({x \in Trees \X (0..MaxOverlays) :
                        IF x[2] = 0 THEN ~Unlocked(x[1])
                        ELSE x[2] \in DOMAIN overlays[x[1]]}) < MaxOverlays

\* add_compaction stores any range, on the path or not.
AddCompaction(s, from, to) ==
  /\ Unlocked(s) /\ Spare /\ writes < MaxWrites
  /\ overlays' = [overlays EXCEPT ![s] = Append(@, [from |-> from, to |-> to])]
  /\ UNCHANGED <<rows, blobs, refs, index, tails, work>>
  /\ Tells

\* compact, and append's own compaction when the history grows too long: the
\* history is read and the function called.
CompactStarts(s, leaf) ==
  /\ Unlocked(s) /\ Spare
  /\ leaf # NoId => Exists(s, leaf)
  /\ LET path == Path(s, Leaf(s, leaf)) IN
       /\ path # <<>>
       /\ work' = [work EXCEPT ![s] =
            [leaf |-> leaf, history |-> History(s, path), seen |-> Range(path),
             changed |-> FALSE]]
  /\ tails' = [tails EXCEPT ![s] = TailOf(s)]
  /\ UNCHANGED <<rows, overlays, blobs, refs, index, telling, 
                 writes, crashes>>

\* The function has nothing to say, or raises: the lock is released.
CompactFails(s) ==
  /\ ~Unlocked(s)
  /\ work' = [work EXCEPT ![s] = NoWork]
  /\ UNCHANGED <<tables, telling, writes, crashes>>

\* The new range begins where the first of the summaries begins that the
\* function was shown (or whose ends it was shown).
Extended(s, from) ==
  LET h == work[s].history
      known == {k \in DOMAIN overlays[s] :
                  \/ k \in h.shown
                  \/ overlays[s][k].from \in h.raw /\ overlays[s][k].to \in h.raw}
  IN  IF known = {} THEN from
      ELSE overlays[s][CHOOSE k \in known : \A j \in known : k <= j].from

Current(s) == ~work[s].changed

\* The function's range comes back: it is stored if the messages are still
\* those it was shown, and if it lies on the path.
CompactEnds(s, from, to) ==
  /\ ~Unlocked(s)
  /\ from \in work[s].history.raw /\ to \in work[s].history.raw
  /\ work' = [work EXCEPT ![s] = NoWork]
  /\ LET path  == Path(s, Leaf(s, work[s].leaf))
         range == [from |-> Extended(s, from), to |-> to]
     IN  IF Current(s) /\ Fits(path, range)
         THEN /\ overlays' = [overlays EXCEPT ![s] = Append(@, range)]
              /\ Tells
         ELSE UNCHANGED <<overlays, telling, writes, crashes>>
  /\ UNCHANGED <<rows, blobs, refs, index, tails>>

\* An eviction: tables stay, caches, locks and callers go.
Evicted ==
  /\ crashes < MaxCrashes /\ crashes' = crashes + 1
  /\ tails' = [s \in Trees |-> NoTail]
  /\ work' = [s \in Trees |-> NoWork]
  /\ telling' = <<>>
  /\ UNCHANGED <<rows, overlays, blobs, refs, index, writes>>

----------------------------------------------------------------------------
\* One chain of messages was stored before in each session; all the roots hold
\* the same attachment.
Init ==
  /\ \E held \in Blobs :
       /\ rows = [s \in Trees |-> [id \in Ids |->
            IF ~On(Stored, id) THEN NoRow
            ELSE LET i == Position(Stored, id) IN
                   [parent |-> IF i = 1 THEN NoId ELSE Stored[i - 1], seq |-> i,
                    blob |-> IF i = 1 THEN held ELSE NoBlob]]]
       /\ refs = UNION {Pointers(s, Stored[1], held) : s \in Trees}
       /\ blobs = {held}
  /\ overlays = [s \in Trees |-> <<>>]
  /\ index = [active |-> FALSE, rows |-> {}]
  /\ tails = [s \in Trees |-> NoTail] /\ work = [s \in Trees |-> NoWork]
  /\ telling = <<>> /\ writes = 0 /\ crashes = 0

Next ==
  \/ \E s \in Opened :
       \/ \E id \in Ids, parent \in Ids \union {NoId, "latest"}, b \in Blobs \union {NoBlob} :
            AppendMessage(s, id, parent, b)
       \/ \E id \in Ids, b \in Blobs \union {NoBlob} : UpdateMessage(s, id, b)
       \/ \E deleted \in SUBSET Ids \ {{}} : DeleteMessages(s, deleted)
       \/ ClearMessages(s)
       \/ \E from, to \in Ids : AddCompaction(s, from, to) \/ CompactEnds(s, from, to)
  \/ \E s \in Opened :
       \/ \E id \in Ids, parent \in Ids \union {NoId} : ImportMessage(s, id, parent)
       \/ \E leaf \in Ids \union {NoId} : CompactStarts(s, leaf)
       \/ CompactFails(s)
  \/ \E i \in DOMAIN telling : TellNext(i)
  \/ Search \/ Evicted

Spec == Init /\ [][Next]_vars

----------------------------------------------------------------------------
\* Every variable has its type.
TypeOK ==
  /\ rows \in [Trees -> [Ids -> Row \union {NoRow}]]
  /\ \A s \in Trees : \A k \in DOMAIN overlays[s] : overlays[s][k] \in [from: Ids, to: Ids]
  /\ blobs \subseteq Blobs /\ refs \subseteq Trees \X Ids \X Blobs

\* The cached tail is what the table says, so that a message goes below the
\* one that was stored last and gets a number of its own, whatever was deleted,
\* imported or cleared before it.
TailIsTable == \A s \in Trees : tails[s] # NoTail => tails[s] = TailOfTable(s)

\* A blob is stored exactly as long as some message of some session points to
\* it, and every pointer of a message is accounted for.
BlobsAreReferenced ==
  /\ refs = {r \in Trees \X Ids \X Blobs :
               Exists(r[1], r[2]) /\ rows[r[1]][r[2]].blob = r[3]}
  /\ blobs = {r[3] : r \in refs}

\* Once there is a search index it holds the messages that exist, and no other.
IndexIsTable ==
  index.active => index.rows = {x \in Trees \X Ids : Exists(x[1], x[2])}

\* What is derived from the table of messages agrees with it: the parts above.
StoreConsistent == TypeOK /\ TailIsTable /\ BlobsAreReferenced /\ IndexIsTable

\* Deleting messages takes them out of the paths of those that stay, and
\* changes neither the order nor the rest of any path.
DeletionSplices ==
  \A s \in {t \in Trees : Present(t)' \subseteq Present(t) /\ rows'[t] # rows[t]} :
    \A id \in Present(s)' :
      Path(s, id)' = SelectSeq(Path(s, id), LAMBDA m : rows'[s][m] # NoRow)

\* A summary made by the compaction function hides no message that was not in
\* the history the function was shown, as a message or under a summary.
SummaryHidesSeen ==
  \A s \in Trees :
    work[s] # NoWork /\ overlays'[s] # overlays[s] /\ overlays'[s] # <<>> =>
      LET new  == overlays'[s][Len(overlays'[s])]
          path == Path(s, Leaf(s, work[s].leaf))
      IN  \A i \in Position(path, new.from)..Position(path, new.to) :
            path[i] \in work[s].seen

\* What readers see of a history loses nothing else: the two parts above, of steps.
KeepsView == DeletionSplices /\ SummaryHidesSeen
=============================================================================

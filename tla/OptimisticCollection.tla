------------------------ MODULE OptimisticCollection ------------------------
(***************************************************************************)
(* One client's cache of a collection: optimistic edits, their replay when *)
(* a request fails, list fetches that overlap edits, and invalidations     *)
(* that arrive over the live channel.                                      *)
(*                                                                         *)
(* The client is single threaded; an action is one turn of its event loop. *)
(* Requests, answers and live events travel between two turns.  Serving an *)
(* edit is one atomic step here: CollectionStore shows that it is.         *)
(***************************************************************************)
EXTENDS Integers, Sequences

CONSTANTS
  Key,        \* finishes (variantNumber, isFoil) of the collection
  Derived,    \* those the server takes when a request names none, one of a variant
  Fetch,      \* list requests that may be under way at once (bound)
  MaxEdits,   \* edits the user makes (bound)
  MaxQty,     \* largest quantity that is set or found on the server (bound)
  MaxRemote,  \* changes by the other member (bound; 0: not shared)
  Ordered,    \* edits reach the server in the order they were made
  Lossy,      \* a request may fail on the client and still be served
  Cold,       \* the session may start before the list was ever loaded
  Uses,       \* mutations exercised by the run
  None

ASSUME BoundsAssumption ==
  MaxEdits \in Nat /\ MaxQty \in Nat \ {0} /\ MaxRemote \in Nat
ASSUME DerivedAssumption == Derived \subseteq Key
ASSUME SwitchAssumption == {Ordered, Lossy, Cold} \subseteq BOOLEAN
ASSUME UsesAssumption   == Uses \subseteq {"add", "adjust", "set", "removeMany"}
ASSUME NoneAssumption   ==
  None \notin Fetch /\ None \notin Nat /\ None \notin [Key -> Nat]
ASSUME BatchAssumption ==
  None \notin [first : Nat, entries : {None} \cup [Key -> Nat],
               ownership : [Key -> Nat \cup {None}]]

VARIABLES
  server,      \* quantities in the database
  remote,      \* how often the other member has changed them
  list,        \* query data of collectionQueryKeys.all (0: no entry), or None
  own,         \* the ownership record (None: finish unknown)
  edits,       \* every edit so far, oldest first
  batch,       \* what the unfinished edits started from, or None
  generation,  \* collectionMutationGeneration
  fetch,       \* list requests
  current,     \* the request whose answer the list query waits for, or None
  timer,       \* setTimeout of reconcileCollectionEntries is pending
  event,       \* a collection.changed event is on its way
  deferred,    \* pendingInvalidate
  owed         \* an edit failed, and since then no list was taken over and no
               \* list query ended in an error (history)

client == <<list, own, edits, batch, generation, fetch, current, timer, deferred, owed>>
vars   == <<server, remote, event, client>>

---------------------------------------------------------------------------
(* Edits.  A relative edit adds n, an absolute one sets n; adding a card    *)
(* brings a seed, from which an entry can be made.  It changes keys on the  *)
(* screen and asks the server for asks.                                     *)

Add(k)       == [rel |-> TRUE,  seed |-> TRUE,  keys |-> {k}, asks |-> {k}, n |-> 1]
Adjust(k, d) == [rel |-> TRUE,  seed |-> FALSE, keys |-> {k}, asks |-> {k}, n |-> d]
SetTo(k, q)  == [rel |-> FALSE, seed |-> FALSE, keys |-> {k}, asks |-> {k}, n |-> q]

\* All printings of a card: both finishes of a variant are shown at 0, but its
\* DELETE names none.
RemoveMany   == [rel |-> FALSE, seed |-> FALSE, keys |-> Key, asks |-> Derived, n |-> 0]

Edits ==
  {e \in [rel : BOOLEAN, seed : BOOLEAN, keys : SUBSET Key, asks : SUBSET Key,
          n : -1 .. MaxQty + 1] :
     \/ "add" \in Uses /\ \E k \in Key : e = Add(k)
     \/ "adjust" \in Uses /\ \E k \in Key, d \in {-1, 1} : e = Adjust(k, d)
     \/ "set" \in Uses /\ \E k \in Key, q \in 0 .. MaxQty : e = SetTo(k, q)
     \/ "removeMany" \in Uses /\ e = RemoveMany}

\* Mutant: quantities are not clamped.
Unclamped(n) == n
AtLeastZero(n) == IF n < 0 THEN 0 ELSE n
Result(e, q)   == AtLeastZero(IF e.rel THEN q + e.n ELSE e.n)

\* collectionCachedQuantity over a list and an ownership record.
Quantity(l, o, k) ==
  IF l # None /\ l[k] > 0 THEN l[k] ELSE IF o[k] # None THEN o[k] ELSE 0
Cached(k) == Quantity(list, own, k)

NoEntries == [k \in Key |-> 0]

\* applyCollectionQuantity for several finishes: q their quantities, seeds
\* those for which an entry can be made if there is none.
ListWith(q, seeds, keys) ==
  LET old == IF list = None THEN NoEntries ELSE list
      kept(k) == k \notin keys \/ (q[k] > 0 /\ old[k] = 0 /\ k \notin seeds)
  IN IF list = None /\ \A k \in keys : kept(k) THEN None
     ELSE [k \in Key |-> IF kept(k) THEN old[k] ELSE q[k]]
OwnWith(q, keys) == [k \in Key |-> IF k \in keys THEN q[k] ELSE own[k]]

Pending  == {m \in DOMAIN edits : edits[m].state = "open"}
Mutating == Pending # {}

\* What the finish should show when the edits of the batch that have not
\* failed are applied, in the order they were made, to what it started from.
ReplayOf(es, k) ==
  LET base == Quantity(batch.entries, batch.ownership, k)
      q[i \in batch.first - 1 .. Len(es)] ==
        IF i < batch.first THEN base
        ELSE IF k \notin es[i].keys \/ es[i].state = "failed" THEN q[i - 1]
        ELSE Result(es[i], q[i - 1])
  IN q[Len(es)]

\* Mutant: a failed edit takes back what was shown when it was made, not what
\* remains of the others.
UndoOf(es, k) == Quantity(batch.entries, batch.ownership, k)

Seeded(es) ==
  {k \in Key : \/ batch.entries # None /\ batch.entries[k] > 0
               \/ \E i \in batch.first .. Len(es) : k \in es[i].keys /\ es[i].seed}

---------------------------------------------------------------------------
(* List requests. *)

Idle == [phase |-> "idle", gen |-> 0, during |-> FALSE, value |-> None, seen |-> {}]
Free(f) == fetch[f].phase = "idle"

\* The query asks for the list: a new request takes the place of the old one,
\* whose answer is dropped, unless there is no list yet to show meanwhile.
Starts(f, mutating) ==
  IF list' = None /\ current # None THEN UNCHANGED <<fetch, current>>
  ELSE /\ Free(f)
       /\ fetch' = [fetch EXCEPT ![f] =
            [Idle EXCEPT !.phase = "sent", !.gen = generation, !.during = mutating]]
       /\ current' = f

\* Mutant: edits are not counted.
NotBumped == generation
Bumped == generation + 1

\* Mutant: the generation is compared with the one at start-up.
StaleEver(f) == fetch[f].during \/ generation # 0 \/ Mutating
\* Mutant: edits that are still open do not matter.
StaleUnlessNew(f) == fetch[f].gen # generation
\* collectionSnapshotIsStale
Stale(f) == fetch[f].during \/ fetch[f].gen # generation \/ Mutating

\* mergeOwnershipFromCollection
Merged(snapshot) ==
  [k \in Key |-> IF snapshot[k] > 0 THEN snapshot[k]
                 ELSE IF own[k] = None THEN None ELSE 0]

Init ==
  /\ server \in [Key -> 0 .. MaxQty]
  /\ remote = 0
  /\ list \in (IF Cold THEN {None, server} ELSE {server})
  /\ own = [k \in Key |-> IF list = None THEN None ELSE server[k]]
  /\ edits = <<>> /\ batch = None /\ generation = 0
  /\ fetch = [f \in Fetch |-> Idle]
  /\ current = None
  /\ timer = FALSE /\ event = FALSE /\ deferred = FALSE /\ owed = FALSE

---------------------------------------------------------------------------
(* The user edits. *)

\* onMutate: bump, snapshot, cancel the list query, show the result.
Begin(e) ==
  LET q == [k \in Key |-> Result(e, Cached(k))]
  IN /\ Len(edits) < MaxEdits
     /\ generation' = Bumped
     /\ batch' = IF batch # None THEN batch
                 ELSE [first |-> Len(edits) + 1, entries |-> list, ownership |-> own]
     /\ edits' = Append(edits, [rel |-> e.rel, seed |-> e.seed, keys |-> e.keys,
          asks |-> e.asks, n |-> e.n, state |-> "open", todo |-> e.asks, applied |-> {}])
     /\ list' = ListWith(q, IF e.seed THEN e.keys ELSE {}, e.keys)
     /\ own' = OwnWith(q, e.keys)
     /\ current' = None
     /\ UNCHANGED <<server, remote, event, fetch, timer, deferred, owed>>

\* The database applies one request of an edit, if it was not lost.
Serve(m, k) ==
  /\ k \in edits[m].todo
  /\ Ordered => \A i \in 1 .. m - 1 : edits[i].todo = {}
  /\ server' = [server EXCEPT ![k] = Result(edits[m], @)]
  /\ edits' = [edits EXCEPT ![m].todo = @ \ {k}, ![m].applied = @ \cup {k}]
  /\ UNCHANGED <<remote, event, list, own, batch, generation, fetch, current,
                 timer, deferred, owed>>

\* Mutant: a deferred invalidation waits for the next event.
NeverFlush == FALSE
Flush == deferred /\ ~Mutating'

\* onSettled: the batch ends with its last edit, and is checked against the
\* server if one of them failed; then a deferred invalidation is let through.
Settle(m) ==
  LET members == batch.first .. Len(edits)
      over    == \A i \in members \ {m} : edits[i].state # "open"
  IN /\ batch' = IF over THEN None ELSE batch
     /\ timer' = (timer \/ (over /\ \E i \in members : edits'[i].state = "failed"))
     /\ IF Flush THEN deferred' = FALSE /\ \E f \in Fetch : Starts(f, FALSE)
        ELSE UNCHANGED <<deferred, fetch, current>>
     /\ UNCHANGED <<server, remote, event, generation>>

Succeed(m) ==
  /\ edits[m].state = "open" /\ edits[m].todo = {}
  /\ edits' = [edits EXCEPT ![m].state = "ok"]
  /\ UNCHANGED <<list, own, owed>>
  /\ Settle(m)

\* What is shown for k once edit m has failed.
Restored(es, k) == ReplayOf(es, k)

\* onError: show the replay without m.  The part of the request that may yet
\* reach the server is rest.
Fail(m) ==
  \E rest \in SUBSET edits[m].todo :
    /\ edits[m].state = "open"
    /\ ~Lossy => rest = {} /\ edits[m].applied = {}
    /\ edits' = [edits EXCEPT ![m].state = "failed", ![m].todo = rest]
    /\ LET q == [k \in Key |-> Restored(edits', k)]
       IN /\ list' = ListWith(q, Seeded(edits), edits[m].keys)
          /\ own' = OwnWith(q, edits[m].keys)
    /\ owed' = TRUE
    /\ Settle(m)

\* The timer of a batch with a failure: load the list again.
Reconcile ==
  /\ timer /\ timer' = FALSE
  /\ UNCHANGED <<server, remote, event, list, own, edits, batch, generation,
                 deferred, owed>>
  /\ \E f \in Fetch : Starts(f, Mutating)

---------------------------------------------------------------------------
(* List requests and their answers. *)

\* The app is opened, or a shared collection is mounted, focused or reconnected.
Refetch(f) ==
  /\ UNCHANGED <<server, remote, event, list, own, edits, batch, generation,
                 timer, deferred, owed>>
  /\ current = None
  /\ Starts(f, Mutating)

Read(f) ==
  /\ fetch[f].phase = "sent"
  /\ fetch' = [fetch EXCEPT ![f].phase = "read", ![f].value = server,
       ![f].seen = {m \in DOMAIN edits : edits[m].applied = edits[m].asks}]
  /\ UNCHANGED <<server, remote, event, list, own, edits, batch, generation,
                 current, timer, deferred, owed>>

FetchFails(f) ==
  /\ fetch[f].phase = "sent"
  /\ fetch' = [fetch EXCEPT ![f] = Idle]
  /\ current' = IF current = f THEN None ELSE current
  /\ owed' = (owed /\ current # f)
  /\ UNCHANGED <<server, remote, event, list, own, edits, batch, generation,
                 timer, deferred>>

\* fetchCollectionQuery continues after its await.  A dropped request runs to
\* its end as well: it cannot set the list, but it updates the ownership.
FetchDone(f) ==
  LET snapshot == fetch[f].value
      wanted   == current = f
  IN /\ fetch[f].phase = "read"
     /\ fetch' = [fetch EXCEPT ![f] = Idle]
     /\ current' = IF wanted THEN None ELSE current
     /\ IF Stale(f)
        THEN /\ list' = IF wanted /\ list = None THEN snapshot ELSE list
             /\ UNCHANGED <<own, owed>>
        ELSE /\ list' = IF wanted THEN snapshot ELSE list
             /\ own' = Merged(snapshot)
             /\ owed' = (owed /\ ~wanted)
     /\ UNCHANGED <<server, remote, event, edits, batch, generation, timer, deferred>>

---------------------------------------------------------------------------
(* The other member, and the live channel. *)

RemoteChange(k, q) ==
  /\ remote < MaxRemote /\ remote' = remote + 1
  /\ server' = [server EXCEPT ![k] = q]
  /\ event' = TRUE
  /\ UNCHANGED client

\* onCollectionLiveChanged
LiveEvent ==
  /\ event /\ event' = FALSE
  /\ UNCHANGED <<server, remote, list, own, edits, batch, generation, timer, owed>>
  /\ deferred' = Mutating
  /\ IF Mutating THEN UNCHANGED <<fetch, current>>
     ELSE \E f \in Fetch : Starts(f, FALSE)

\* The stream breaks; what it had not delivered is not sent again.
Disconnect ==
  /\ event /\ event' = FALSE
  /\ UNCHANGED <<server, remote, client>>

\* A collection without another member hears of nothing.
Alone ==
  \/ \E e \in Edits : Begin(e)
  \/ \E m \in DOMAIN edits :
       Succeed(m) \/ Fail(m) \/ \E k \in Key : Serve(m, k)
  \/ \E f \in Fetch : Refetch(f) \/ Read(f) \/ FetchFails(f) \/ FetchDone(f)
  \/ Reconcile

Next ==
  \/ Alone
  \/ \E k \in Key, q \in 0 .. MaxQty : RemoteChange(k, q)
  \/ LiveEvent
  \/ Disconnect

Spec      == Init /\ [][Next]_vars
AloneSpec == Init /\ [][Alone]_vars

\* Of a client of a shared collection: every edit is answered, by the server or
\* by the network's timeout, and the collection is mounted, focused or reconnected
\* again and again (refetchOn... of useCollection, stale after 30 seconds), each
\* time with a working network at last.  Alone, nothing asks for the list again.
\* Strong where a step asks for the list: the bound on requests can delay it.
Fairness ==
  /\ \A m \in 1 .. MaxEdits :
       SF_vars(m \in DOMAIN edits /\ (Succeed(m) \/ Fail(m) \/ \E k \in Key : Serve(m, k)))
  /\ SF_vars(Reconcile)
  /\ SF_vars(LiveEvent \/ Disconnect)
  /\ \A f \in Fetch : SF_vars(Read(f)) /\ WF_vars(FetchDone(f)) /\ SF_vars(Refetch(f))

FairSpec == Spec /\ Fairness

---------------------------------------------------------------------------
(* Properties. *)

EditRecords ==
  [rel : BOOLEAN, seed : BOOLEAN, keys : SUBSET Key, asks : SUBSET Key,
   n : -1 .. MaxQty + 1, state : {"open", "ok", "failed"}, todo : SUBSET Key, applied : SUBSET Key]

\* Lists, ownership, edits and requests keep their shapes (collectionService,
\* collection-mutation-cache.ts).
TypeOK ==
  /\ server \in [Key -> Nat] /\ remote \in 0 .. MaxRemote
  /\ list = None \/ list \in [Key -> Nat]
  /\ own \in [Key -> Nat \cup {None}]
  /\ edits \in Seq(EditRecords) /\ Len(edits) <= MaxEdits
  /\ batch = None \/ batch.first \in 1 .. Len(edits)
  /\ generation \in 0 .. MaxEdits
  /\ fetch \in [Fetch -> [phase : {"idle", "sent", "read"}, gen : 0 .. MaxEdits,
       during : BOOLEAN, value : {None} \cup [Key -> Nat], seen : SUBSET (1 .. MaxEdits)]]
  /\ current \in Fetch \cup {None}
  /\ {timer, event, deferred, owed} \subseteq BOOLEAN

\* While edits are unfinished, every finish shows the loaded list they started
\* from with the edits that have not failed, in the order they were made:
\* neither the order of failures nor a list answer that overlaps them disturbs
\* it (collection-mutation-cache.ts rollback, collectionSnapshotIsStale).
ShownIsReplay ==
  (batch # None /\ batch.entries # None) =>
    \A k \in Key : Cached(k) = ReplayOf(edits, k)

Quiet == ~Mutating /\ current = None /\ ~timer

\* Finishes that a confirmed edit changed on the screen without asking the server:
\* the other finish of what removeMany removes (useCollectionRemove.ts:84 says
\* that it is deleted too; hooks/useCollection.ts:656, collectionService.ts:207).
Unasked(es) ==
  UNION {es[m].keys \ es[m].asks : m \in {i \in DOMAIN es : es[i].state = "ok"}}

\* When requests reach the server in order and only fail without effect, the
\* client shows what the server has as soon as nothing is under way, although
\* a successful edit never loads the list again (settleOptimisticCollectionMutation),
\* except for the finishes that a removeMany showed at 0 and did not ask for.
QuietAgrees ==
  Quiet => \A k \in Key \ Unasked(edits) : Cached(k) = server[k]

\* A list answer replaces a loaded list, or its ownership, only when no edit is
\* open and the server had applied every request of every edit that succeeded
\* when it answered: nothing that was asked for and confirmed disappears again
\* (fetchCollectionQuery).  The other finish of a removal comes back.
AdoptsOnlyCurrent ==
  [][\A f \in Fetch :
       fetch[f].phase = "read" /\ fetch'[f].phase = "idle"
         /\ list # None /\ <<list, own>>' # <<list, own>>
       => ~Mutating /\ {m \in DOMAIN edits : edits[m].state = "ok"} \subseteq fetch[f].seen
    ]_vars

\* An invalidation is put off only while an edit is open: the last answer lets
\* it through (useCollectionLiveSync.ts, flushCollectionLiveInvalidate).
DeferredOnlyWhileMutating == deferred => Mutating

\* collection-mutation-cache.ts:137 "Reconcile once all requests finish; an
\* earlier failure must survive a later success": when nothing is under way,
\* no failed edit is still waiting for the list to be loaded.
FailureReconciled == Quiet => ~owed

\* Reopening a shared collection repairs whatever lost answers, lost events,
\* reordered requests and removals that left the other finish on the server have
\* done: in the end the client shows what the server has (useCollection.ts:64,
\* "focus/mount refetch is a safety net").
Converges == <>[](\A k \in Key : Cached(k) = server[k])
=============================================================================

----------------------- MODULE OptimisticCollectionInv -----------------------
(* The inductive invariants of OptimisticCollection: one of every client,   *)
(* and one of a client alone whose requests arrive in order.                *)
EXTENDS OptimisticCollection

Batches ==
  [first : Nat, entries : {None} \cup [Key -> Nat], ownership : [Key -> Nat \cup {None}]]

IsOpen(es, m) == es[m].state = "open"

\* What an edit has still to ask of the server, and what it has been granted.
Edited(e) ==
  /\ e.asks \subseteq e.keys /\ e.todo \subseteq e.asks
  /\ e.state = "open" => e.applied = e.asks \ e.todo
  /\ e.state = "ok" => e.todo = {} /\ e.applied = e.asks

\* A batch is what is kept from the first open edit on: there is one exactly
\* while an edit is open.
Batched ==
  /\ generation = Len(edits)
  /\ batch = None => \A m \in DOMAIN edits : ~IsOpen(edits, m)
  /\ batch # None =>
       /\ batch \in Batches /\ batch.first \in 1 .. Len(edits)
       /\ \A m \in DOMAIN edits : m < batch.first => ~IsOpen(edits, m)
       /\ \E m \in DOMAIN edits : m >= batch.first /\ IsOpen(edits, m)
       /\ batch.entries # None => list # None

\* A request that was not sent during an edit saw all that were confirmed before.
Informed(q, es) ==
  /\ q.phase # "idle" =>
       /\ q.gen \in 0 .. Len(es)
       /\ ~q.during => \A m \in 1 .. q.gen : ~IsOpen(es, m)
  /\ q.phase = "read" =>
       /\ q.value \in [Key -> Nat]
       /\ ~q.during => \A m \in 1 .. q.gen : es[m].state = "ok" => m \in q.seen

IInv ==
  /\ TypeOK
  /\ \A m \in DOMAIN edits : Edited(edits[m])
  /\ Batched
  /\ \A f \in Fetch : Informed(fetch[f], edits)
  /\ DeferredOnlyWhileMutating
  /\ ShownIsReplay

---------------------------------------------------------------------------
(* A client alone, whose requests arrive in order and fail without effect. *)

\* What the server has of k when it has applied what it has of the batch.
ServedOf(es, k) ==
  LET base == Quantity(batch.entries, batch.ownership, k)
      q[i \in batch.first - 1 .. Len(es)] ==
        IF i < batch.first THEN base
        ELSE IF k \notin es[i].applied THEN q[i - 1]
        ELSE Result(es[i], q[i - 1])
  IN q[Len(es)]

\* Nothing arrives before what was sent earlier, and a failure leaves no trace.
InOrder ==
  /\ \A i, j \in DOMAIN edits : (i < j /\ edits[i].todo # {}) => edits[j].applied = {}
  /\ \A m \in DOMAIN edits :
       edits[m].state = "failed" => edits[m].todo = {} /\ edits[m].applied = {}

\* A request sent between two batches has what the server still has.
UpToDate(q) ==
  (q.phase = "read" /\ ~q.during /\ q.gen = generation) => q.value = server

AloneInv ==
  /\ list # None
  /\ batch # None => batch.entries # None
  /\ batch = None => \A k \in Key \ Unasked(edits) : Cached(k) = server[k]
  /\ batch # None => \A k \in Key \ Unasked(edits) : server[k] = ServedOf(edits, k)
  /\ InOrder
  /\ \A f \in Fetch : UpToDate(fetch[f])
=============================================================================

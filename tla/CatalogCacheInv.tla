-------------------------- MODULE CatalogCacheInv --------------------------
(***************************************************************************)
(* The inductive invariant of CatalogCache: the versions that requests,    *)
(* caches and synchronisations hold are of the past, and what counts as    *)
(* read in the current generation is of the present.                       *)
(***************************************************************************)
EXTENDS CatalogCache

Request == [op : {"search", "index"}, step : ReqSteps, moved : BOOLEAN, old : BOOLEAN,
            filled : BOOLEAN, hash : Contents, read : Contents]

\* One version of the contents is no later than another.
Below(a, b) == a.cards <= b.cards /\ a.prices <= b.prices /\ a.ids <= b.ids

\* What a request has read by each of its steps.
Sound(n) ==
  /\ n.step = "idle" => n.op = "search" /\ ~n.moved /\ ~n.old
  /\ n.op = "index" => /\ n.step \in {"rows", "prices", "memo", "row", "count", "remember", "insert"}
                       /\ n.moved => n.old

\* The rows a search has read are no older than the hashes it began with.
Covers(n) ==
  n.op = "search" =>
    /\ n.step = "prices" => n.read.cards >= n.hash.cards /\ n.read.ids >= n.hash.ids
    /\ n.step \in {"fetch", "insert"} => Below(n.hash, n.read)

\* What was read since the last invalidate() is what there is.
Current(n) ==
  /\ n.step = "count" /\ ~n.moved =>
       n.hash.cards = row["catalog"] /\ n.hash.prices = row["prices"]
  /\ n.step = "remember" /\ ~n.moved => n.hash = CurrentHash
  /\ n.op = "index" /\ ~n.old =>
       /\ n.step = "prices" => n.read.cards = db.cards /\ n.read.ids = db.ids
       /\ n.step \in {"memo", "row", "count", "remember", "insert"} => n.read = db
       /\ n.step = "insert" => n.hash = CurrentHash

RequestFacts ==
  \A q \in Req : Sound(req[q]) /\ Below(req[q].hash, db) /\ Covers(req[q])

\* Each synchronisation has its own steps, and its status while it works.
JobFacts ==
  /\ job["catalog"].step \in {"off", "work", "bump", "clear", "complete", "published",
                              "clearPublished"}
  /\ job["prices"].step \in {"off", "work", "backfill", "bumpPrices", "clearPrices"}
  /\ ~job["catalog"].touched
  /\ job["prices"].step \in {"off", "work"} => ~job["prices"].touched
  /\ job["catalog"].step \in {"published", "clearPublished"} => status["catalog"] # "running"
  /\ job["prices"].step \in {"backfill", "bumpPrices", "clearPrices"} =>
       status["prices"] # "running"
  /\ job["catalog"].digest <= db.cards

\* Hashes were computed from what the tables held.
HashFacts ==
  /\ row["catalog"] <= db.cards /\ row["prices"] <= db.prices
  /\ memo # None => Below(memo, db)

\* Unless an invalidate() is due or was missed, the caches and all who fill them
\* are up to date.
Settled ==
  missed \/ Owing \/ /\ memo \in {None, CurrentHash}
                     /\ index \in {None, [hash |-> CurrentHash, read |-> db]}
                     /\ \A q \in Req : Current(req[q])

IInv ==
  /\ TypeOK /\ IsFiniteSet(results)
  /\ RequestFacts /\ JobFacts /\ HashFacts /\ Settled
  /\ ResultsCoverHash /\ StatusTells
=============================================================================

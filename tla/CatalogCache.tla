---------------------------- MODULE CatalogCache ----------------------------
(* What the server keeps in memory of the catalogue: the two hashes clients  *)
(* compare, the answers of searches and the index of all cards, and the      *)
(* requests and synchronisations that read and write the tables meanwhile.   *)
(* Contents are versions, and a hash is the versions it was computed from.   *)
EXTENDS Integers, FiniteSets, FiniteSetsExt

CONSTANTS
  Req,          \* requests being served
  MaxWrites,    \* bound: changes of the tables in all
  MaxResults,   \* searches the cache holds (100)
  MaxRestarts,  \* bound: ends of the server process
  None

ASSUME BoundsAssumption == MaxWrites \in Nat /\ MaxRestarts \in Nat /\ MaxResults \in Nat \ {0}
ASSUME NoneAssumption   == None \notin Req

VARIABLES
  db,       \* versions of the cards, the prices and the ids that join them
  row,      \* the hashes in sync_state, as the version each was computed from
  status,   \* sync_state.status of the catalogue and of the prices
  memo,     \* the hashes remembered in memory
  results,  \* cached searches, keyed by the hashes (one query stands for all)
  index,    \* the index cached for the current generation
  req,      \* the locals of each request
  job,      \* the locals of the two synchronisations
  missed,   \* a change was committed and its invalidate() will not run
  lost,     \* synchronisations whose end could not be recorded
  restarts

vars == <<db, row, status, memo, results, index, req, job, missed, lost, restarts>>

Key == {"catalog", "prices"}
Version == 0..MaxWrites
Contents == [cards : Version, prices : Version, ids : Version]
Zero == [cards |-> 0, prices |-> 0, ids |-> 0]

\* Steps of a request: hashes(), then local() and the insert of a search, with
\* an upsert between them; index_response() reads the tables first.
ReqSteps == {"idle", "memo", "row", "count", "remember", "rows", "prices", "fetch",
             "bump", "clear", "more", "again", "insert"}
JobSteps == {"off", "work", "bump", "clear", "complete", "published", "clearPublished",
             "backfill", "bumpPrices", "clearPrices"}

Idle == [op |-> "search", step |-> "idle", moved |-> FALSE, old |-> FALSE,
         filled |-> FALSE, hash |-> Zero, read |-> Zero]
Off == [step |-> "off", digest |-> 0, touched |-> FALSE]

TypeOK ==
  /\ db \in Contents
  /\ row \in [Key -> Version]
  /\ status \in [Key -> {"idle", "running", "failed"}]
  /\ memo \in {None} \cup Contents
  /\ results \subseteq [key : Contents, read : Contents]
  /\ Cardinality(results) <= MaxResults
  /\ index \in {None} \cup [hash : Contents, read : Contents]
  /\ req \in [Req -> [op : {"search", "index"}, step : ReqSteps, moved : BOOLEAN, old : BOOLEAN,
                      filled : BOOLEAN, hash : Contents, read : Contents]]
  /\ job \in [Key -> [step : JobSteps, digest : Version, touched : BOOLEAN]]
  /\ missed \in BOOLEAN
  /\ lost \subseteq Key
  /\ restarts \in 0..MaxRestarts

Init ==
  /\ db = Zero
  /\ row = [k \in Key |-> 0]
  /\ status = [k \in Key |-> "idle"]
  /\ memo = None /\ results = {} /\ index = None
  /\ req = [q \in Req |-> Idle]
  /\ job = [k \in Key |-> Off]
  /\ missed = FALSE /\ lost = {} /\ restarts = 0

-----------------------------------------------------------------------------
(* Helpers.                                                                  *)

CurrentHash == [cards |-> row["catalog"], prices |-> row["prices"], ids |-> db.ids]
CanWrite == db.cards + db.prices + db.ids < MaxWrites
Bumped(contents, field) == [contents EXCEPT ![field] = @ + 1]

To(q, step) == req' = [req EXCEPT ![q].step = step]
JobTo(k, step) == job' = [job EXCEPT ![k].step = step]

\* The first half of invalidate(): a new generation without hashes.  The index
\* is keyed by the generation, and whoever read the generation is overtaken:
\* moved by those in hashes(), old by those in index_response().
Invalidated(q, step) ==
  /\ memo' = None /\ index' = None /\ missed' = FALSE
  /\ req' = [p \in Req |->
               [req[p] EXCEPT !.moved = @ \/ req[p].step \in {"row", "count", "remember"},
                              !.old   = @ \/ req[p].op = "index",
                              !.step  = IF p = q THEN step ELSE @]]

\* What a request holds while it is served; an idle one remembers nothing.
Served(q) == req' = [req EXCEPT ![q] = Idle]

-----------------------------------------------------------------------------
(* hashes(): the memo, or one statement for both rows and one for the count. *)

\* hashes() has returned h: the index has all it needs, a search looks for an
\* answer filed under h, which a refresh passes over.
Known(q, h) ==
  \/ req[q].op = "index"
     /\ req' = [req EXCEPT ![q].hash = h, ![q].moved = FALSE, ![q].step = "insert"]
  \/ req[q].op = "search"
     /\ req' = [req EXCEPT ![q].hash = h, ![q].moved = FALSE, ![q].step = "rows"]
  \/ req[q].op = "search" /\ (\E r \in results : r.key = h)
     /\ Served(q)

\* A search begins with the hashes.
Memo(q) ==
  /\ req[q].step \in {"idle", "memo"}
  /\ IF memo = None THEN To(q, "row") ELSE Known(q, memo)
  /\ UNCHANGED <<db, row, status, memo, results, index, job, missed, lost, restarts>>

Row(q) ==
  /\ req[q].step = "row"
  /\ req' = [req EXCEPT ![q].hash.cards = row["catalog"], ![q].hash.prices = row["prices"],
                        ![q].step = "count"]
  /\ UNCHANGED <<db, row, status, memo, results, index, job, missed, lost, restarts>>

Count(q) ==
  /\ req[q].step = "count"
  /\ req' = [req EXCEPT ![q].hash.ids = db.ids, ![q].step = "remember"]
  /\ UNCHANGED <<db, row, status, memo, results, index, job, missed, lost, restarts>>

\* remember_hashes() ignores hashes read in an earlier generation.
\* Mutant: it does not look at the generation.
RememberedAnyway(q) == req[q].hash
Remembered(q) == IF req[q].moved THEN memo ELSE req[q].hash

Remember(q) ==
  /\ req[q].step = "remember"
  /\ memo' = Remembered(q)
  /\ Known(q, req[q].hash)
  /\ UNCHANGED <<db, row, status, results, index, job, missed, lost, restarts>>

-----------------------------------------------------------------------------
(* Searches and the index.                                                   *)

Rows(q) ==
  /\ req[q].step \in {"rows", "again"}
  /\ req' = [req EXCEPT ![q].read = [db EXCEPT !.prices = 0],
                        ![q].filled = req[q].step = "again", ![q].step = "prices"]
  /\ UNCHANGED <<db, row, status, memo, results, index, job, missed, lost, restarts>>

Prices(q) ==
  /\ req[q].step = "prices"
  /\ req' = [req EXCEPT ![q].read.prices = db.prices,
                        ![q].step = IF req[q].op = "index" THEN "memo"
                                    ELSE IF req[q].filled THEN "insert" ELSE "fetch"]
  /\ UNCHANGED <<db, row, status, memo, results, index, job, missed, lost, restarts>>

\* Upstream may have cards the tables lack: each is one upsert and its
\* invalidate(); after the last the caches are invalidated again and the tables
\* are read once more.
Fetch(q) ==
  /\ req[q].step \in {"fetch", "more"} /\ CanWrite
  /\ \E field \in {"cards", "ids"} : db' = Bumped(db, field)
  /\ To(q, "bump")
  /\ UNCHANGED <<row, status, memo, results, index, job, missed, lost, restarts>>

Bump(q) ==
  /\ req[q].step = "bump"
  /\ Invalidated(q, "clear")
  /\ UNCHANGED <<db, row, status, results, job, lost, restarts>>

Clear(q) ==
  /\ req[q].step = "clear"
  /\ results' = {}
  /\ To(q, "more")
  /\ UNCHANGED <<db, row, status, memo, index, job, missed, lost, restarts>>

Fetched(q) ==
  \/ /\ req[q].step = "fetch"
     /\ To(q, "insert")
     /\ UNCHANGED <<memo, results, index, missed>>
  \/ /\ req[q].step = "more"
     /\ Invalidated(q, "again")
     /\ results' = {}
  /\ UNCHANGED <<db, row, status, job, lost, restarts>>

\* A search is stored under the hashes it began with, and takes the place of the
\* oldest if the cache is full.
\* Mutants: the hashes are read again for the key; nothing makes room.
KeyAtInsert(q) == CurrentHash
KeyOf(q) == req[q].hash

KeptAll(key) == {{r \in results : r.key # key}}
Kept(key) ==
  LET others == {r \in results : r.key # key}
  IN {kept \in SUBSET others : Cardinality(kept) = Min({Cardinality(others), MaxResults - 1})}

Insert(q) ==
  /\ req[q].step = "insert" /\ req[q].op = "search"
  /\ \E kept \in Kept(KeyOf(q)) :
       results' = kept \cup {[key |-> KeyOf(q), read |-> req[q].read]}
  /\ Served(q)
  /\ UNCHANGED <<db, row, status, memo, index, job, missed, lost, restarts>>

\* index_response() holds the lock of its cache from the lookup to the insert.
IndexLocked == \E q \in Req : req[q].step # "idle" /\ req[q].op = "index"

IndexBegin(q) ==
  /\ req[q].step = "idle" /\ ~IndexLocked /\ index = None
  /\ req' = [req EXCEPT ![q].op = "index", ![q].step = "rows"]
  /\ UNCHANGED <<db, row, status, memo, results, index, job, missed, lost, restarts>>

Indexed(q) == IF req[q].old THEN index ELSE [hash |-> req[q].hash, read |-> req[q].read]

IndexInsert(q) ==
  /\ req[q].step = "insert" /\ req[q].op = "index"
  /\ index' = Indexed(q)
  /\ Served(q)
  /\ UNCHANGED <<db, row, status, memo, results, job, missed, lost, restarts>>

\* The client disconnects, or a statement fails: the handler is dropped at an
\* await, perhaps the one for a commit that is applied.
Drop(q) ==
  /\ req[q].step # "idle"
  /\ missed' = (missed \/ req[q].step = "bump")
  /\ Served(q)
  /\ UNCHANGED <<db, row, status, memo, results, index, job, lost, restarts>>

-----------------------------------------------------------------------------
(* Synchronisations: one at a time of each kind, on tasks of their own.       *)

Start(k) ==
  /\ job[k].step = "off"
  /\ status' = [status EXCEPT ![k] = "running"]
  /\ JobTo(k, "work")
  /\ lost' = lost \ {k}
  /\ UNCHANGED <<db, row, memo, results, index, req, missed, restarts>>

\* catalog_sync: an upsert per card.
SyncCard ==
  /\ job["catalog"].step = "work" /\ CanWrite
  /\ \E field \in {"cards", "ids"} : db' = Bumped(db, field)
  /\ JobTo("catalog", "bump")
  /\ UNCHANGED <<row, status, memo, results, index, req, missed, lost, restarts>>

\* publish(): the digest of the tables in one statement, the row in another.
Digest ==
  /\ job["catalog"].step = "work"
  /\ job' = [job EXCEPT !["catalog"] = [@ EXCEPT !.step = "complete", !.digest = db.cards]]
  /\ UNCHANGED <<db, row, status, memo, results, index, req, missed, lost, restarts>>

Complete ==
  /\ job["catalog"].step = "complete"
  /\ row' = [row EXCEPT !["catalog"] = job["catalog"].digest]
  /\ status' = [status EXCEPT !["catalog"] = "idle"]
  /\ JobTo("catalog", "published")
  /\ UNCHANGED <<db, memo, results, index, req, missed, lost, restarts>>

\* persist(): prices, hash and status in one transaction, if the guide is new.
Persist ==
  /\ job["prices"].step = "work"
  /\ \/ /\ CanWrite
        /\ db' = Bumped(db, "prices")
        /\ row' = [row EXCEPT !["prices"] = db.prices + 1]
        /\ job' = [job EXCEPT !["prices"].step = "backfill", !["prices"].touched = TRUE]
     \/ /\ JobTo("prices", "backfill")
        /\ UNCHANGED <<db, row>>
  /\ status' = [status EXCEPT !["prices"] = "idle"]
  /\ UNCHANGED <<memo, results, index, req, missed, lost, restarts>>

\* backfill::run: batches of ids, each committed by itself.
Backfill ==
  /\ job["prices"].step = "backfill" /\ CanWrite
  /\ db' = Bumped(db, "ids")
  /\ job' = [job EXCEPT !["prices"].touched = TRUE]
  /\ UNCHANGED <<row, status, memo, results, index, req, missed, lost, restarts>>

\* Only a synchronisation that changed something invalidates.
Backfilled ==
  /\ job["prices"].step = "backfill"
  /\ job' = [job EXCEPT !["prices"] = IF @.touched THEN [@ EXCEPT !.step = "bumpPrices"] ELSE Off]
  /\ UNCHANGED <<db, row, status, memo, results, index, req, missed, lost, restarts>>

Invalidate(k) ==
  \E step \in {"bump", "published", "bumpPrices"} :
    /\ job[k].step = step
    /\ Invalidated(None, "idle")
    /\ JobTo(k, CASE step = "bump" -> "clear"
                  [] step = "published" -> "clearPublished"
                  [] step = "bumpPrices" -> "clearPrices")
    /\ UNCHANGED <<db, row, status, results, lost, restarts>>

ClearResults(k) ==
  /\ job[k].step \in {"clear", "clearPublished", "clearPrices"}
  /\ results' = {}
  /\ job' = [job EXCEPT ![k] = IF @.step = "clear" THEN [@ EXCEPT !.step = "work"] ELSE Off]
  /\ UNCHANGED <<db, row, status, memo, index, req, missed, lost, restarts>>

\* A download or a statement fails, and the failure is recorded if the database
\* lets it.  What the prices job has committed by then is not invalidated.
\* Mutant: the failure is not recorded.
NeverFailed(dead) == status
Failed(dead) == [k \in Key |-> IF k \in dead THEN "failed" ELSE status[k]]

Fails(k) ==
  /\ job[k].step \in {"work", "complete", "backfill"}
  /\ \E recorded \in BOOLEAN :
       /\ status' = Failed(IF recorded THEN {k} ELSE {})
       /\ lost' = IF recorded \/ status[k] # "running" THEN lost ELSE lost \cup {k}
  /\ missed' = (missed \/ job[k].touched)
  /\ job' = [job EXCEPT ![k] = Off]
  /\ UNCHANGED <<db, row, memo, results, index, req, restarts>>

-----------------------------------------------------------------------------
(* Time and the process.                                                      *)

Expire ==
  /\ \/ /\ \E r \in results : results' = results \ {r}
        /\ UNCHANGED index
     \/ /\ index # None /\ index' = None
        /\ UNCHANGED results
  /\ UNCHANGED <<db, row, status, memo, req, job, missed, lost, restarts>>

\* The process ends, gracefully or not; a graceful end records what it
\* interrupted if it can in the three seconds it has.
Restart ==
  /\ restarts < MaxRestarts
  /\ \E dead \in SUBSET {k \in Key : job[k].step # "off"} :
       /\ status' = Failed(dead)
       /\ lost' = lost \cup {k \in Key \ dead : status[k] = "running"}
  /\ memo' = None /\ results' = {} /\ index' = None /\ missed' = FALSE
  /\ req' = [q \in Req |-> Idle]
  /\ job' = [k \in Key |-> Off]
  /\ restarts' = restarts + 1
  /\ UNCHANGED <<db, row>>

Next ==
  \/ \E q \in Req :
       \/ Memo(q) \/ Row(q) \/ Count(q) \/ Remember(q) \/ Rows(q)
       \/ Prices(q) \/ Fetch(q) \/ Bump(q) \/ Clear(q) \/ Fetched(q) \/ Insert(q)
       \/ IndexBegin(q) \/ IndexInsert(q) \/ Drop(q)
  \/ \E k \in Key : Start(k) \/ Invalidate(k) \/ ClearResults(k) \/ Fails(k)
  \/ SyncCard \/ Digest \/ Complete \/ Persist \/ Backfill \/ Backfilled
  \/ Expire \/ Restart

Spec == Init /\ [][Next]_vars

-----------------------------------------------------------------------------
(* Properties.                                                               *)

\* Somebody has committed a change and is on the way to invalidate().
Owing ==
  \/ \E q \in Req : req[q].step = "bump"
  \/ job["catalog"].step \in {"bump", "published"}
  \/ job["prices"].touched /\ job["prices"].step \in {"backfill", "bumpPrices"}

\* What is remembered without a time limit is right: unless an invalidate() is
\* due or was missed, the hashes and the index in memory are those of the
\* tables, whatever reads raced the change (query.rs:47, 392).
CachesFollow ==
  missed \/ Owing
    \/ /\ memo \in {None, CurrentHash}
       /\ index \in {None, [hash |-> CurrentHash, read |-> db]}

\* A cached search is never older than the hashes it is filed under, so that a
\* client that sees a hash change never gets the contents from before it.
ResultsCoverHash ==
  \A r \in results :
    /\ r.read.cards >= r.key.cards
    /\ r.read.prices >= r.key.prices
    /\ r.read.ids >= r.key.ids

\* A status "running" is that of a synchronisation at work, unless its end could
\* not be recorded; and the catalogue's says running all the while it works.
StatusTells ==
  /\ \A k \in Key : status[k] = "running" => job[k].step # "off" \/ k \in lost
  /\ job["catalog"].step \in {"work", "bump", "clear", "complete"} => status["catalog"] = "running"
=============================================================================

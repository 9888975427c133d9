------------------------- MODULE CatalogCacheProofs -------------------------
(***************************************************************************)
(* The invariants of CatalogCache hold for every number of requests,       *)
(* writes, cached searches and restarts.                                   *)
(*                                                                         *)
(* A step moves a request on (RequestStep), moves a synchronisation on     *)
(* (JobStep), changes the tables (Write) or begins a generation (Bumps).   *)
(***************************************************************************)
EXTENDS CatalogCacheInv, FiniteSetTheorems, TLAPS

USE BoundsAssumption, NoneAssumption

ResultType == [key : Contents, read : Contents]
IndexType  == [hash : Contents, read : Contents]

\* The searches in the cache: their type, their number, their age.
ResultFacts ==
  /\ results \subseteq ResultType /\ IsFiniteSet(results) /\ Cardinality(results) <= MaxResults
  /\ ResultsCoverHash

\* The types of the rest.
StoreTypes   == db \in Contents /\ row \in [Key -> Version]
StatusTypes  == status \in [Key -> {"idle", "running", "failed"}] /\ lost \subseteq Key
CacheTypes   == /\ memo \in {None} \cup Contents /\ index \in {None} \cup IndexType
                /\ missed \in BOOLEAN /\ restarts \in 0..MaxRestarts
RequestTypes == req \in [Req -> Request]
JobTypes     == job \in [Key -> [step : JobSteps, digest : Version, touched : BOOLEAN]]

Quiet == ~missed /\ ~Owing

LEMMA Parts ==
  IInv <=> /\ ResultFacts /\ StoreTypes /\ StatusTypes /\ CacheTypes /\ RequestTypes /\ JobTypes
           /\ RequestFacts /\ JobFacts /\ HashFacts /\ Settled /\ StatusTells
BY DEF IInv, TypeOK, ResultFacts, StoreTypes, StatusTypes, CacheTypes, RequestTypes, JobTypes,
       ResultType, IndexType, Request

LEMMA PartsAfter ==
  ASSUME ResultFacts', StoreTypes', StatusTypes', CacheTypes', RequestTypes', JobTypes',
         RequestFacts', JobFacts', HashFacts', Settled', StatusTells'
  PROVE  IInv'
BY DEF IInv, TypeOK, ResultFacts, StoreTypes, StatusTypes, CacheTypes, RequestTypes, JobTypes,
       ResultType, IndexType, Request

LEMMA SettledIs ==
  Settled <=> (Quiet => /\ memo \in {None, CurrentHash}
                        /\ index \in {None, [hash |-> CurrentHash, read |-> db]}
                        /\ \A q \in Req : Current(req[q]))
BY DEF Settled, Quiet

\* Versions are numbers.
LEMMA Versions ==
  /\ Zero \in Contents /\ 0 \in Version
  /\ \A v \in Version : v \in Nat /\ v <= MaxWrites
  /\ \A c \in Contents : c.cards \in Version /\ c.prices \in Version /\ c.ids \in Version
  /\ \A c \in Contents : Below(Zero, c) /\ Below(c, c)
BY DEF Zero, Contents, Version, Below

LEMMA IdleFacts ==
  Idle \in Request /\ Idle.step = "idle" /\ Idle.op = "search" /\ Idle.hash = Zero
  /\ Sound(Idle) /\ Covers(Idle) /\ Current(Idle)
BY Versions DEF Idle, Request, ReqSteps, Sound, Covers, Current

LEMMA RequestOf ==
  ASSUME IInv, NEW q \in Req
  PROVE  /\ req[q] \in Request /\ req[q].hash \in Contents /\ req[q].read \in Contents
         /\ Sound(req[q]) /\ Below(req[q].hash, db) /\ Covers(req[q])
         /\ Quiet => Current(req[q])
BY Parts, SettledIs DEF RequestTypes, RequestFacts, Request

LEMMA HashOf ==
  ASSUME IInv
  PROVE  /\ CurrentHash \in Contents /\ Below(CurrentHash, db) /\ db \in Contents
         /\ row["catalog"] \in Version /\ row["prices"] \in Version
         /\ CurrentHash.cards = row["catalog"] /\ CurrentHash.prices = row["prices"]
         /\ CurrentHash.ids = db.ids
BY Parts DEF StoreTypes, HashFacts, CurrentHash, Contents, Key, Below, Version

LEMMA InitInv == Init => IInv
<1> SUFFICES ASSUME Init PROVE IInv
  OBVIOUS
<1>1. ResultFacts
  BY FS_EmptySet DEF Init, ResultFacts, ResultsCoverHash
<1>2. StoreTypes /\ StatusTypes /\ CacheTypes /\ RequestTypes
  <2>1. StoreTypes
    BY Versions DEF Init, StoreTypes
  <2>2. StatusTypes /\ RequestTypes
    BY IdleFacts DEF Init, StatusTypes, RequestTypes
  <2>3. CacheTypes
    <3>1. 0 \in 0..MaxRestarts
      OBVIOUS
    <3> QED
      BY <3>1 DEF Init, CacheTypes
  <2> QED
    BY <2>1, <2>2, <2>3
<1>3. JobTypes /\ JobFacts /\ StatusTells
  BY Versions DEF Init, JobTypes, JobFacts, StatusTells, Off, JobSteps, Key, Zero, Version
<1>4. RequestFacts /\ HashFacts
  BY Versions, IdleFacts DEF Init, RequestFacts, HashFacts, Key, Zero
<1>5. Settled
  BY IdleFacts DEF Init, Settled
<1> QED
  BY <1>1, <1>2, <1>3, <1>4, <1>5, Parts

(***************************************************************************)
(* The cache of searches.                                                  *)
(***************************************************************************)

LEMMA FewerResults ==
  ASSUME IInv, results' \subseteq results
  PROVE  ResultFacts'
<1>1. ResultFacts
  BY Parts
<1>2. IsFiniteSet(results') /\ Cardinality(results') <= Cardinality(results)
      /\ Cardinality(results) \in Nat /\ Cardinality(results') \in Nat
  BY <1>1, FS_Subset, FS_CardinalityType DEF ResultFacts
<1>3. ResultsCoverHash'
  BY <1>1 DEF ResultFacts, ResultsCoverHash
<1> QED
  BY <1>1, <1>2, <1>3 DEF ResultFacts

LEMMA MinOfTwo ==
  ASSUME NEW a \in Int, NEW b \in Int
  PROVE  Min({a, b}) <= b /\ Min({a, b}) \in {a, b}
<1>1. \E x \in {a, b} : \A y \in {a, b} : x =< y
  OBVIOUS
<1>2. Min({a, b}) \in {a, b} /\ \A y \in {a, b} : Min({a, b}) =< y
  BY <1>1 DEF Min
<1> QED
  BY <1>2

\* An answer takes the place of another with its hashes, or of the oldest.
LEMMA OneMoreResult ==
  ASSUME IInv, NEW h \in Contents, NEW c \in Contents, Below(h, c), NEW kept \in Kept(h),
         results' = kept \cup {[key |-> h, read |-> c]}
  PROVE  ResultFacts'
<1> DEFINE x == [key |-> h, read |-> c]
           others == {r \in results : r.key # h}
<1>1. ResultFacts /\ kept \subseteq others /\ others \subseteq results
      /\ Cardinality(kept) = Min({Cardinality(others), MaxResults - 1})
  BY Parts DEF Kept
<1>2. IsFiniteSet(others) /\ IsFiniteSet(kept) /\ Cardinality(others) \in Nat
      /\ Cardinality(kept) \in Nat
  BY <1>1, FS_Subset, FS_CardinalityType DEF ResultFacts
<1> HIDE DEF others
<1>3. Cardinality(kept) <= MaxResults - 1
  BY <1>1, <1>2, MinOfTwo
<1>4. IsFiniteSet(kept \cup {x}) /\ Cardinality(kept \cup {x}) <= Cardinality(kept) + 1
      /\ Cardinality(kept \cup {x}) \in Nat
  <2> HIDE DEF x
  <2>1. /\ IsFiniteSet(kept \cup {x})
        /\ Cardinality(kept \cup {x}) = IF x \in kept THEN Cardinality(kept)
                                        ELSE Cardinality(kept) + 1
    BY <1>2, FS_AddElement
  <2> QED
    BY <1>2, <2>1
<1>5. x \in ResultType /\ x.key = h /\ x.read = c
  BY DEF ResultType
<1>6. results' \subseteq ResultType
  BY <1>1, <1>5 DEF ResultFacts
<1>7. ResultsCoverHash'
  <2>1. \A r \in kept : Below(r.key, r.read)
    BY <1>1, Versions DEF ResultFacts, ResultsCoverHash, Below, ResultType
  <2>2. \A r \in results' : Below(r.key, r.read) /\ r \in ResultType
    BY <1>5, <1>6, <2>1
  <2> QED
    BY <2>2, Versions DEF ResultsCoverHash, Below, ResultType
<1>8. Cardinality(results') <= MaxResults
  BY <1>2, <1>3, <1>4
<1> QED
  BY <1>4, <1>6, <1>7, <1>8 DEF ResultFacts

(***************************************************************************)
(* Steps of one request that commit nothing.                               *)
(***************************************************************************)

\* The caches hold what they may, given that q becomes n.
FitsCaches(m, i, n) ==
  /\ m \in {None} \cup Contents /\ (m # None => Below(m, db)) /\ i \in {None} \cup IndexType
  /\ Quiet => /\ m \in {None, CurrentHash}
              /\ i \in {None, [hash |-> CurrentHash, read |-> db]}
              /\ Current(n)

LEMMA RequestStep ==
  ASSUME IInv, NEW q \in Req, NEW n \in Request, req' = [req EXCEPT ![q] = n],
         Sound(n), Below(n.hash, db), Covers(n), FitsCaches(memo', index', n), ResultFacts',
         \/ missed'
         \/ missed' = missed /\ (n.step = "bump" <=> req[q].step = "bump"),
         missed' \in BOOLEAN,
         UNCHANGED <<db, row, status, job, lost, restarts>>
  PROVE  IInv'
<1>0. /\ ResultFacts /\ StoreTypes /\ StatusTypes /\ CacheTypes /\ RequestTypes /\ JobTypes
      /\ RequestFacts /\ JobFacts /\ HashFacts /\ Settled /\ StatusTells
  BY Parts
<1>1. /\ req' \in [Req -> Request] /\ req'[q] = n
      /\ \A p \in Req \ {q} : req'[p] = req[p]
  BY <1>0 DEF RequestTypes
<1>2. StoreTypes' /\ StatusTypes' /\ CacheTypes' /\ RequestTypes' /\ JobTypes'
  BY <1>0, <1>1 DEF StoreTypes, StatusTypes, CacheTypes, RequestTypes, JobTypes, FitsCaches
<1>3. RequestFacts'
  BY <1>0, <1>1 DEF RequestFacts, Sound, Covers, Below
<1>4. JobFacts' /\ StatusTells'
  BY <1>0 DEF JobFacts, StatusTells
<1>5. HashFacts'
  BY <1>0 DEF HashFacts, FitsCaches, Below
<1>6. Settled'
  <2>1. CASE missed'
    BY <2>1 DEF Settled
  <2>2. CASE ~missed'
    <3>1. missed' = missed /\ (n.step = "bump" <=> req[q].step = "bump")
      BY <2>2
    <3>2. Owing' <=> Owing
      BY <1>1, <3>1 DEF Owing
    <3>3. CASE Owing
      BY <3>2, <3>3 DEF Settled
    <3>4. CASE ~Owing
      <4>1. Quiet
        BY <2>2, <3>1, <3>4 DEF Quiet
      <4>2. CurrentHash' = CurrentHash /\ db' = db
        BY DEF CurrentHash
      <4>3. \A p \in Req : Current(req'[p])
        BY <1>0, <1>1, <4>1, SettledIs DEF FitsCaches
      <4>4. \A p \in Req : Current(req[p])'
        BY <4>2, <4>3 DEF Current
      <4> QED
        BY <4>1, <4>2, <4>4 DEF Settled, FitsCaches
    <3> QED
      BY <3>3, <3>4
  <2> QED
    BY <2>1, <2>2
<1> QED
  BY <1>2, <1>3, <1>4, <1>5, <1>6, PartsAfter

\* The caches as they are fit, if the request does.
LEMMA SameCaches ==
  ASSUME IInv, NEW n, Quiet => Current(n), memo' = memo, index' = index
  PROVE  FitsCaches(memo', index', n)
BY Parts, SettledIs DEF FitsCaches, CacheTypes, HashFacts

LEMMA SameResults ==
  ASSUME IInv, results' = results
  PROVE  ResultFacts'
BY FewerResults

\* The request is over.
LEMMA ServedStep ==
  ASSUME IInv, NEW q \in Req, Served(q), req[q].step # "bump" \/ missed',
         FitsCaches(memo', index', Idle), ResultFacts',
         missed' \/ missed' = missed, missed' \in BOOLEAN,
         UNCHANGED <<db, row, status, job, lost, restarts>>
  PROVE  IInv'
<1>1. Below(Idle.hash, db) /\ Idle.step # "bump"
  BY IdleFacts, Versions, HashOf
<1> QED
  BY <1>1, IdleFacts, RequestStep DEF Served

LEMMA MissedType == IInv => missed \in BOOLEAN
BY Parts DEF CacheTypes

\* hashes() has returned: what the request knows is current if the hashes are.
LEMMA KnownStep ==
  ASSUME IInv, NEW q \in Req, NEW h \in Contents, Below(h, db), Known(q, h),
         req[q].step \in {"idle", "memo", "remember"},
         Quiet /\ req[q].op = "index" /\ ~req[q].old => h = CurrentHash,
         memo' \in {None} \cup Contents, memo' # None => Below(memo', db),
         Quiet => memo' \in {None, CurrentHash},
         UNCHANGED <<db, row, status, results, index, job, missed, lost, restarts>>
  PROVE  IInv'
<1>0. /\ req[q] \in Request /\ Sound(req[q]) /\ (Quiet => Current(req[q]))
      /\ ResultFacts' /\ missed' \in BOOLEAN
  BY RequestOf, SameResults, MissedType
<1>1. ASSUME NEW n, Quiet => Current(n) PROVE FitsCaches(memo', index', n)
  BY <1>1, Parts, SettledIs DEF FitsCaches, CacheTypes
<1>2. CASE req[q].op = "index"
  <2> DEFINE n == [req[q] EXCEPT !.hash = h, !.moved = FALSE, !.step = "insert"]
  <2>1. req' = [req EXCEPT ![q] = n]
    BY <1>2, Parts DEF Known, RequestTypes
  <2>2. /\ n \in Request /\ n.hash = h /\ n.moved = FALSE /\ n.step = "insert"
        /\ n.op = "index" /\ n.old = req[q].old /\ n.read = req[q].read
    BY <1>0, <1>2 DEF Request, ReqSteps
  <2> HIDE DEF n
  <2>3. Sound(n) /\ Covers(n)
    BY <2>2 DEF Sound, Covers
  <2>4. Quiet => Current(n)
    <3>1. req[q].step \in {"memo", "remember"}
      BY <1>0, <1>2 DEF Sound
    <3> QED
      BY <1>0, <1>2, <2>2, <3>1 DEF Current
  <2> QED
    BY <1>0, <1>1, <2>1, <2>2, <2>3, <2>4, RequestStep
<1>3. CASE req[q].op = "search" /\ req' = [req EXCEPT ![q].hash = h, ![q].moved = FALSE,
                                                      ![q].step = "rows"]
  <2> DEFINE n == [req[q] EXCEPT !.hash = h, !.moved = FALSE, !.step = "rows"]
  <2>1. req' = [req EXCEPT ![q] = n]
    BY <1>3, Parts DEF RequestTypes
  <2>2. n \in Request /\ n.hash = h /\ n.moved = FALSE /\ n.step = "rows" /\ n.op = "search"
    BY <1>0, <1>3 DEF Request, ReqSteps
  <2> HIDE DEF n
  <2>3. Sound(n) /\ Covers(n) /\ Current(n)
    BY <2>2 DEF Sound, Covers, Current
  <2> QED
    BY <1>0, <1>1, <2>1, <2>2, <2>3, RequestStep
<1>4. CASE Served(q)
  BY <1>0, <1>1, <1>4, IdleFacts, ServedStep
<1> QED
  BY <1>2, <1>3, <1>4 DEF Known

LEMMA MemoInv ==
  ASSUME IInv, NEW q \in Req, Memo(q)
  PROVE  IInv'
<1> DEFINE n == [req[q] EXCEPT !.step = "row"]
<1>0. /\ req[q] \in Request /\ Sound(req[q]) /\ Below(req[q].hash, db)
      /\ (Quiet => Current(req[q])) /\ req[q].step \in {"idle", "memo"} /\ missed \in BOOLEAN
  BY RequestOf, MissedType DEF Memo
<1>1. CASE memo = None
  <2>1. req' = [req EXCEPT ![q] = n]
    BY <1>1, Parts DEF Memo, To, RequestTypes
  <2>2. /\ n \in Request /\ n.step = "row" /\ n.op = req[q].op /\ n.moved = req[q].moved
        /\ n.old = req[q].old /\ n.hash = req[q].hash /\ n.read = req[q].read
    BY <1>0 DEF Request, ReqSteps
  <2> HIDE DEF n
  <2>3. Sound(n) /\ Covers(n)
    BY <1>0, <2>2 DEF Sound, Covers
  <2>4. Quiet => Current(n)
    BY <1>0, <2>2 DEF Current, Sound
  <2>5. FitsCaches(memo', index', n) /\ ResultFacts'
    BY <2>4, SameCaches, SameResults DEF Memo
  <2> QED
    BY <1>0, <2>1, <2>2, <2>3, <2>5, RequestStep DEF Memo
<1>2. CASE memo # None
  <2>1. memo \in Contents /\ Below(memo, db) /\ (Quiet => memo = CurrentHash)
    BY <1>2, Parts, SettledIs DEF CacheTypes, HashFacts
  <2> QED
    BY <1>0, <1>2, <2>1, KnownStep DEF Memo
<1> QED
  BY <1>1, <1>2

LEMMA RowInv ==
  ASSUME IInv, NEW q \in Req, Row(q)
  PROVE  IInv'
<1> DEFINE n == [req[q] EXCEPT !.hash = [@ EXCEPT !.cards = row["catalog"],
                                                  !.prices = row["prices"]],
                               !.step = "count"]
<1>0. /\ req[q] \in Request /\ Sound(req[q]) /\ Below(req[q].hash, db)
      /\ (Quiet => Current(req[q])) /\ req[q].step = "row" /\ missed \in BOOLEAN
      /\ req[q].hash \in Contents
  BY RequestOf, MissedType DEF Row
<1>1. req' = [req EXCEPT ![q] = n]
  BY <1>0, Parts DEF Row, RequestTypes
<1>2. /\ n \in Request /\ n.step = "count" /\ n.op = req[q].op /\ n.moved = req[q].moved
      /\ n.old = req[q].old /\ n.read = req[q].read
      /\ n.hash.cards = row["catalog"] /\ n.hash.prices = row["prices"]
      /\ n.hash.ids = req[q].hash.ids
  BY <1>0, HashOf DEF Request, ReqSteps, Contents
<1> HIDE DEF n
<1>3. Sound(n) /\ Covers(n) /\ Below(n.hash, db)
  BY <1>0, <1>2, Parts DEF Sound, Covers, Below, HashFacts
<1>4. Quiet => Current(n)
  BY <1>0, <1>2 DEF Current
<1>5. FitsCaches(memo', index', n) /\ ResultFacts'
  BY <1>4, SameCaches, SameResults DEF Row
<1> QED
  BY <1>0, <1>1, <1>2, <1>3, <1>5, RequestStep DEF Row

LEMMA CountInv ==
  ASSUME IInv, NEW q \in Req, Count(q)
  PROVE  IInv'
<1> DEFINE n == [req[q] EXCEPT !.hash = [@ EXCEPT !.ids = db.ids], !.step = "remember"]
<1>0. /\ req[q] \in Request /\ Sound(req[q]) /\ Below(req[q].hash, db)
      /\ (Quiet => Current(req[q])) /\ req[q].step = "count" /\ missed \in BOOLEAN
      /\ req[q].hash \in Contents
  BY RequestOf, MissedType DEF Count
<1>1. req' = [req EXCEPT ![q] = n]
  BY <1>0, Parts DEF Count, RequestTypes
<1>2. /\ n \in Request /\ n.step = "remember" /\ n.op = req[q].op /\ n.moved = req[q].moved
      /\ n.old = req[q].old /\ n.read = req[q].read /\ n.hash \in Contents
      /\ n.hash.cards = req[q].hash.cards /\ n.hash.prices = req[q].hash.prices
      /\ n.hash.ids = db.ids
  BY <1>0, HashOf DEF Request, ReqSteps, Contents
<1> HIDE DEF n
<1>3. Sound(n) /\ Covers(n) /\ Below(n.hash, db)
  BY <1>0, <1>2, HashOf, Versions DEF Sound, Covers, Below
<1>4. Quiet => Current(n)
  <2>1. ASSUME n.hash.cards = row["catalog"], n.hash.prices = row["prices"]
        PROVE  n.hash = CurrentHash
    BY <1>2, <2>1 DEF CurrentHash, Contents
  <2> QED
    BY <1>0, <1>2, <2>1 DEF Current
<1>5. FitsCaches(memo', index', n) /\ ResultFacts'
  BY <1>4, SameCaches, SameResults DEF Count
<1> QED
  BY <1>0, <1>1, <1>2, <1>3, <1>5, RequestStep DEF Count

\* Hashes read in an earlier generation are used, and not remembered.
LEMMA RememberInv ==
  ASSUME IInv, NEW q \in Req, Remember(q)
  PROVE  IInv'
<1>0. /\ req[q] \in Request /\ Sound(req[q]) /\ Below(req[q].hash, db)
      /\ (Quiet => Current(req[q])) /\ req[q].step = "remember" /\ req[q].hash \in Contents
  BY RequestOf DEF Remember
<1>1. memo' = IF req[q].moved THEN memo ELSE req[q].hash
  BY DEF Remember, Remembered
<1>2. /\ memo' \in {None} \cup Contents /\ (memo' # None => Below(memo', db))
      /\ (Quiet => memo' \in {None, CurrentHash})
  BY <1>0, <1>1, Parts, SettledIs DEF CacheTypes, HashFacts, Current
<1>3. Quiet /\ req[q].op = "index" /\ ~req[q].old => req[q].hash = CurrentHash
  BY <1>0 DEF Current, Sound
<1> QED
  BY <1>0, <1>2, <1>3, KnownStep DEF Remember

\* The tables are read in two statements; a search has its hashes already.
LEMMA RowsInv ==
  ASSUME IInv, NEW q \in Req, Rows(q)
  PROVE  IInv'
<1> DEFINE c == [db EXCEPT !.prices = 0]
           f == req[q].step = "again"
           n == [req[q] EXCEPT !.read = c, !.filled = f, !.step = "prices"]
<1>0. /\ req[q] \in Request /\ Sound(req[q]) /\ Below(req[q].hash, db)
      /\ req[q].step \in {"rows", "again"} /\ missed \in BOOLEAN
  BY RequestOf, MissedType DEF Rows
<1>1. req' = [req EXCEPT ![q] = n]
  BY <1>0, Parts DEF Rows, RequestTypes
<1>2. c \in Contents /\ c.cards = db.cards /\ c.ids = db.ids
  BY HashOf, Versions DEF Contents
<1> HIDE DEF c
<1>3. /\ n \in Request /\ n.step = "prices" /\ n.op = req[q].op /\ n.moved = req[q].moved
      /\ n.old = req[q].old /\ n.hash = req[q].hash /\ n.read = c
  <2>1. f \in BOOLEAN
    OBVIOUS
  <2> HIDE DEF f
  <2> QED
    BY <1>0, <1>2, <2>1 DEF Request, ReqSteps
<1> HIDE DEF n
<1>4. Sound(n) /\ Covers(n)
  BY <1>0, <1>2, <1>3, HashOf, Versions DEF Sound, Covers, Below, Request
<1>5. Quiet => Current(n)
  BY <1>2, <1>3 DEF Current
<1>6. FitsCaches(memo', index', n) /\ ResultFacts'
  BY <1>5, SameCaches, SameResults DEF Rows
<1> QED
  BY <1>0, <1>1, <1>3, <1>4, <1>6, RequestStep DEF Rows

LEMMA PricesInv ==
  ASSUME IInv, NEW q \in Req, Prices(q)
  PROVE  IInv'
<1> DEFINE c == [req[q].read EXCEPT !.prices = db.prices]
           step == IF req[q].op = "index" THEN "memo"
                   ELSE IF req[q].filled THEN "insert" ELSE "fetch"
           n == [req[q] EXCEPT !.read = c, !.step = step]
<1>0. /\ req[q] \in Request /\ Sound(req[q]) /\ Below(req[q].hash, db) /\ Covers(req[q])
      /\ (Quiet => Current(req[q])) /\ req[q].step = "prices" /\ missed \in BOOLEAN
      /\ req[q].read \in Contents /\ req[q].hash \in Contents
  BY RequestOf, MissedType DEF Prices
<1>1. req' = [req EXCEPT ![q] = n]
  BY <1>0, Parts DEF Prices, RequestTypes
<1>2. /\ c \in Contents /\ c.cards = req[q].read.cards /\ c.ids = req[q].read.ids
      /\ c.prices = db.prices
  BY <1>0, HashOf, Versions DEF Contents
<1>3. /\ step \in {"memo", "insert", "fetch"}
      /\ req[q].op = "index" <=> step = "memo"
  OBVIOUS
<1> HIDE DEF c, step
<1>4. /\ n \in Request /\ n.step = step /\ n.op = req[q].op /\ n.moved = req[q].moved
      /\ n.old = req[q].old /\ n.hash = req[q].hash /\ n.read = c
  BY <1>0, <1>2, <1>3 DEF Request, ReqSteps
<1> HIDE DEF n
<1>5. Sound(n)
  BY <1>0, <1>3, <1>4 DEF Sound
<1>6. Covers(n)
  BY <1>0, <1>2, <1>3, <1>4, HashOf, Versions DEF Covers, Below
<1>7. Quiet => Current(n)
  <2>1. ASSUME req[q].read.cards = db.cards, req[q].read.ids = db.ids PROVE c = db
    BY <1>2, <2>1, HashOf DEF Contents
  <2> QED
    BY <1>0, <1>3, <1>4, <2>1 DEF Current
<1>8. FitsCaches(memo', index', n) /\ ResultFacts'
  BY <1>7, SameCaches, SameResults DEF Prices
<1> QED
  BY <1>0, <1>1, <1>3, <1>4, <1>5, <1>6, <1>8, RequestStep DEF Prices

LEMMA ClearInv ==
  ASSUME IInv, NEW q \in Req, Clear(q)
  PROVE  IInv'
<1> DEFINE n == [req[q] EXCEPT !.step = "more"]
<1>0. /\ req[q] \in Request /\ Sound(req[q]) /\ Below(req[q].hash, db)
      /\ req[q].step = "clear" /\ missed \in BOOLEAN
  BY RequestOf, MissedType DEF Clear
<1>1. req' = [req EXCEPT ![q] = n]
  BY <1>0, Parts DEF Clear, To, RequestTypes
<1>2. /\ n \in Request /\ n.step = "more" /\ n.op = req[q].op /\ n.moved = req[q].moved
      /\ n.old = req[q].old /\ n.hash = req[q].hash
  BY <1>0 DEF Request, ReqSteps
<1> HIDE DEF n
<1>3. Sound(n) /\ Covers(n) /\ (Quiet => Current(n))
  BY <1>0, <1>2 DEF Sound, Covers, Current
<1>4. FitsCaches(memo', index', n) /\ ResultFacts'
  BY <1>3, SameCaches, FewerResults DEF Clear
<1> QED
  BY <1>0, <1>1, <1>2, <1>3, <1>4, RequestStep DEF Clear

LEMMA InsertInv ==
  ASSUME IInv, NEW q \in Req, Insert(q)
  PROVE  IInv'
<1>0. /\ req[q] \in Request /\ req[q].hash \in Contents /\ req[q].read \in Contents
      /\ Below(req[q].hash, req[q].read) /\ missed \in BOOLEAN
  BY RequestOf, MissedType DEF Insert, Covers
<1>1. PICK kept \in Kept(req[q].hash) :
        results' = kept \cup {[key |-> req[q].hash, read |-> req[q].read]}
  BY DEF Insert, KeyOf
<1>2. ResultFacts'
  BY <1>0, <1>1, OneMoreResult
<1> QED
  BY <1>0, <1>2, IdleFacts, SameCaches, ServedStep DEF Insert

LEMMA IndexBeginInv ==
  ASSUME IInv, NEW q \in Req, IndexBegin(q)
  PROVE  IInv'
<1> DEFINE n == [req[q] EXCEPT !.op = "index", !.step = "rows"]
<1>0. /\ req[q] \in Request /\ Sound(req[q]) /\ Below(req[q].hash, db)
      /\ req[q].step = "idle" /\ missed \in BOOLEAN
  BY RequestOf, MissedType DEF IndexBegin
<1>1. req' = [req EXCEPT ![q] = n]
  BY <1>0, Parts DEF IndexBegin, RequestTypes
<1>2. /\ n \in Request /\ n.step = "rows" /\ n.op = "index" /\ n.moved = req[q].moved
      /\ n.old = req[q].old /\ n.hash = req[q].hash
  BY <1>0 DEF Request, ReqSteps
<1> HIDE DEF n
<1>3. Sound(n) /\ Covers(n) /\ (Quiet => Current(n))
  BY <1>0, <1>2 DEF Sound, Covers, Current
<1>4. FitsCaches(memo', index', n) /\ ResultFacts'
  BY <1>3, SameCaches, SameResults DEF IndexBegin
<1> QED
  BY <1>0, <1>1, <1>2, <1>3, <1>4, RequestStep DEF IndexBegin

\* Only an index read in the current generation is kept.
LEMMA IndexInsertInv ==
  ASSUME IInv, NEW q \in Req, IndexInsert(q)
  PROVE  IInv'
<1>0. /\ req[q] \in Request /\ req[q].hash \in Contents /\ req[q].read \in Contents
      /\ (Quiet => Current(req[q])) /\ missed \in BOOLEAN
  BY RequestOf, MissedType
<1>1. /\ index' = IF req[q].old THEN index ELSE [hash |-> req[q].hash, read |-> req[q].read]
      /\ req[q].step = "insert" /\ req[q].op = "index"
  BY DEF IndexInsert, Indexed
<1>2. index' \in {None} \cup IndexType
  BY <1>0, <1>1, Parts DEF CacheTypes, IndexType
<1>3. Quiet => index' \in {None, [hash |-> CurrentHash, read |-> db]}
  BY <1>0, <1>1, Parts, SettledIs DEF Current
<1>4. FitsCaches(memo', index', Idle)
  BY <1>2, <1>3, IdleFacts, Parts, SettledIs DEF FitsCaches, IndexInsert, CacheTypes, HashFacts
<1> QED
  BY <1>0, <1>1, <1>4, SameResults, ServedStep DEF IndexInsert

LEMMA DropInv ==
  ASSUME IInv, NEW q \in Req, Drop(q)
  PROVE  IInv'
<1>1. /\ missed' = (missed \/ req[q].step = "bump") /\ missed \in BOOLEAN
      /\ Served(q) /\ UNCHANGED <<db, row, status, memo, results, index, job, lost, restarts>>
  BY MissedType DEF Drop
<1>2. missed' \in BOOLEAN /\ (req[q].step # "bump" => missed' = missed)
  BY <1>1
<1>3. req[q].step = "bump" => missed'
  BY <1>1
<1> QED
  BY <1>1, <1>2, <1>3, IdleFacts, SameCaches, SameResults, ServedStep

(***************************************************************************)
(* Steps that change the tables: an invalidate() is due from then on.      *)
(***************************************************************************)

LEMMA WriteStep ==
  ASSUME IInv, db' \in Contents, Below(db, db'), row' \in [Key -> Version],
         row'["catalog"] <= db'.cards, row'["prices"] <= db'.prices, Owing',
         RequestTypes',
         \A q \in Req : Sound(req'[q]) /\ Covers(req'[q]) /\ req'[q].hash = req[q].hash,
         JobTypes', JobFacts', StatusTypes', StatusTells',
         UNCHANGED <<memo, results, index, missed, restarts>>
  PROVE  IInv'
<1>0. ResultFacts' /\ StoreTypes' /\ CacheTypes'
  BY Parts, SameResults DEF StoreTypes, CacheTypes
<1>1. \A c \in Contents : Below(c, db) => Below(c, db')
  BY HashOf, Versions DEF Below
<1>2. RequestFacts'
  <2>1. \A q \in Req : Below(req'[q].hash, db')
    BY <1>1, RequestOf
  <2> QED
    BY <2>1 DEF RequestFacts, Sound, Covers, Below
<1>3. HashFacts'
  <2>1. memo # None => Below(memo, db')
    BY <1>1, Parts DEF HashFacts, CacheTypes
  <2> QED
    BY <2>1 DEF HashFacts, Below
<1>4. Settled'
  BY DEF Settled
<1> QED
  BY <1>0, <1>2, <1>3, <1>4, PartsAfter

LEMMA BumpedFacts ==
  ASSUME IInv, CanWrite, NEW field \in {"cards", "prices", "ids"}
  PROVE  /\ Bumped(db, field) \in Contents /\ Below(db, Bumped(db, field))
         /\ field # "prices" => Bumped(db, field).prices = db.prices
         /\ field = "prices" => Bumped(db, field).prices = db.prices + 1
<1>1. /\ db \in Contents /\ db.cards \in Nat /\ db.prices \in Nat /\ db.ids \in Nat
      /\ db.cards + db.prices + db.ids < MaxWrites
  BY HashOf, Versions DEF CanWrite
<1>2. db.cards + 1 \in Version /\ db.prices + 1 \in Version /\ db.ids + 1 \in Version
  BY <1>1 DEF Version
<1>3. CASE field = "cards"
  BY <1>1, <1>2, <1>3 DEF Bumped, Contents, Below
<1>4. CASE field = "prices"
  BY <1>1, <1>2, <1>4 DEF Bumped, Contents, Below
<1>5. CASE field = "ids"
  BY <1>1, <1>2, <1>5 DEF Bumped, Contents, Below
<1> QED
  BY <1>3, <1>4, <1>5

\* Where the hashes stay, they stay behind the tables.
LEMMA RowsBehind ==
  ASSUME IInv, NEW c \in Contents, Below(db, c)
  PROVE  /\ row \in [Key -> Version] /\ row["catalog"] <= c.cards /\ row["prices"] <= c.prices
         /\ job["catalog"].digest <= c.cards
<1>1. /\ row["catalog"] \in Nat /\ row["prices"] \in Nat /\ db.cards \in Nat /\ db.prices \in Nat
      /\ c.cards \in Nat /\ c.prices \in Nat /\ job["catalog"].digest \in Nat
  BY HashOf, Versions, Parts DEF JobTypes, Key
<1>2. /\ row["catalog"] <= db.cards /\ row["prices"] <= db.prices
      /\ job["catalog"].digest <= db.cards /\ row \in [Key -> Version]
  BY Parts DEF HashFacts, JobFacts, StoreTypes
<1> QED
  BY <1>1, <1>2 DEF Below

LEMMA SameRequests ==
  ASSUME IInv, req' = req
  PROVE  /\ RequestTypes'
         /\ \A q \in Req : Sound(req'[q]) /\ Covers(req'[q]) /\ req'[q].hash = req[q].hash
BY Parts, RequestOf DEF RequestTypes

LEMMA JobOf ==
  ASSUME IInv, NEW k \in Key
  PROVE  /\ job[k].step \in JobSteps /\ job[k].digest \in Version /\ job[k].touched \in BOOLEAN
         /\ job[k] \in [step : JobSteps, digest : Version, touched : BOOLEAN]
BY Parts DEF JobTypes

\* A synchronisation goes to its next step.
LEMMA JobToFacts ==
  ASSUME IInv, NEW k \in Key, NEW step \in JobSteps, JobTo(k, step)
  PROVE  /\ JobTypes' /\ job'[k].step = step /\ job'[k].digest = job[k].digest
         /\ job'[k].touched = job[k].touched
         /\ \A j \in Key \ {k} : job'[j] = job[j]
BY Parts, JobOf DEF JobTypes, JobTo

LEMMA FetchInv ==
  ASSUME IInv, NEW q \in Req, Fetch(q)
  PROVE  IInv'
<1> DEFINE n == [req[q] EXCEPT !.step = "bump"]
<1>0. /\ req[q] \in Request /\ Sound(req[q]) /\ Below(req[q].hash, db)
      /\ req[q].step \in {"fetch", "more"}
  BY RequestOf DEF Fetch
<1>1. PICK field \in {"cards", "ids"} : db' = Bumped(db, field)
  BY DEF Fetch
<1>2. db' \in Contents /\ Below(db, db')
  BY <1>1, BumpedFacts DEF Fetch
<1>3. req' = [req EXCEPT ![q] = n]
  BY <1>0, Parts DEF Fetch, To, RequestTypes
<1>4. /\ n \in Request /\ n.step = "bump" /\ n.op = req[q].op /\ n.moved = req[q].moved
      /\ n.old = req[q].old /\ n.hash = req[q].hash
  BY <1>0 DEF Request, ReqSteps
<1> HIDE DEF n
<1>5. Sound(n) /\ Covers(n)
  BY <1>0, <1>4 DEF Sound, Covers
<1>6. /\ RequestTypes' /\ req'[q] = n
      /\ \A p \in Req : Sound(req'[p]) /\ Covers(req'[p]) /\ req'[p].hash = req[p].hash
  BY <1>3, <1>4, <1>5, RequestOf, Parts DEF RequestTypes
<1>7. Owing'
  BY <1>4, <1>6 DEF Owing
<1>8. JobTypes' /\ StatusTypes' /\ StatusTells' /\ JobFacts'
  BY <1>2, RowsBehind, Parts DEF Fetch, JobTypes, StatusTypes, StatusTells, JobFacts
<1> QED
  BY <1>2, <1>6, <1>7, <1>8, RowsBehind, WriteStep DEF Fetch

LEMMA SyncCardInv ==
  ASSUME IInv, SyncCard
  PROVE  IInv'
<1>1. PICK field \in {"cards", "ids"} : db' = Bumped(db, field)
  BY DEF SyncCard
<1>2. db' \in Contents /\ Below(db, db')
  BY <1>1, BumpedFacts DEF SyncCard
<1>3. /\ JobTypes' /\ job'["catalog"].step = "bump"
      /\ job'["catalog"].digest = job["catalog"].digest
      /\ job'["catalog"].touched = job["catalog"].touched /\ job'["prices"] = job["prices"]
  BY JobToFacts DEF SyncCard, Key, JobSteps
<1>4. StatusTypes' /\ StatusTells' /\ JobFacts'
  BY <1>2, <1>3, RowsBehind, Parts DEF SyncCard, StatusTypes, StatusTells, JobFacts, Key
<1>5. Owing'
  BY <1>3 DEF Owing
<1> QED
  BY <1>2, <1>3, <1>4, <1>5, RowsBehind, SameRequests, WriteStep DEF SyncCard

\* The hash of the catalogue changes, and the tables do not.
LEMMA CompleteInv ==
  ASSUME IInv, Complete
  PROVE  IInv'
<1>0. db' = db /\ db \in Contents /\ Below(db, db)
  BY HashOf, Versions DEF Complete
<1>1. /\ JobTypes' /\ job'["catalog"].step = "published"
      /\ job'["catalog"].digest = job["catalog"].digest
      /\ job'["catalog"].touched = job["catalog"].touched /\ job'["prices"] = job["prices"]
  BY JobToFacts DEF Complete, Key, JobSteps
<1>2. /\ status' = [status EXCEPT !["catalog"] = "idle"] /\ StatusTypes'
      /\ status'["catalog"] = "idle" /\ status'["prices"] = status["prices"]
  BY Parts DEF Complete, StatusTypes, Key
<1>3. StatusTells' /\ JobFacts'
  BY <1>0, <1>1, <1>2, Parts DEF Complete, StatusTells, JobFacts, Key
<1>4. /\ row' \in [Key -> Version] /\ row'["catalog"] = job["catalog"].digest
      /\ row'["prices"] = row["prices"]
  BY JobOf, Parts DEF Complete, StoreTypes, Key
<1>5. row'["catalog"] <= db'.cards /\ row'["prices"] <= db'.prices
  BY <1>0, <1>4, RowsBehind
<1>6. Owing'
  BY <1>1 DEF Owing
<1> QED
  BY <1>0, <1>1, <1>2, <1>3, <1>4, <1>5, <1>6, SameRequests, WriteStep DEF Complete

LEMMA BackfillInv ==
  ASSUME IInv, Backfill
  PROVE  IInv'
<1>1. db' \in Contents /\ Below(db, db')
  BY BumpedFacts DEF Backfill
<1>2. /\ JobTypes' /\ job'["prices"].step = "backfill" /\ job'["prices"].touched
      /\ job'["catalog"] = job["catalog"]
  BY Parts, JobOf DEF Backfill, JobTypes, Key
<1>3. StatusTypes' /\ StatusTells' /\ JobFacts'
  BY <1>1, <1>2, RowsBehind, Parts DEF Backfill, StatusTypes, StatusTells, JobFacts, Key
<1>4. Owing'
  BY <1>2 DEF Owing
<1> QED
  BY <1>1, <1>2, <1>3, <1>4, RowsBehind, SameRequests, WriteStep DEF Backfill

(***************************************************************************)
(* A new generation.                                                       *)
(***************************************************************************)

\* Whoever has read anything is overtaken: nothing read before is taken for current.
LEMMA BumpsStep ==
  ASSUME IInv, NEW q, NEW step, Invalidated(q, step),
         q \in Req => req[q].op = "search" /\ step \in {"clear", "again"},
         ResultFacts', JobTypes', JobFacts', StatusTypes', StatusTells',
         UNCHANGED <<db, row, restarts>>
  PROVE  IInv'
<1>0. /\ memo' = None /\ index' = None /\ missed' = FALSE
      /\ StoreTypes /\ CacheTypes /\ HashFacts
  BY Parts DEF Invalidated
<1>1. StoreTypes' /\ CacheTypes' /\ HashFacts'
  BY <1>0 DEF StoreTypes, CacheTypes, HashFacts
<1>2. ASSUME NEW p \in Req
      PROVE  /\ req'[p] \in Request /\ Sound(req'[p]) /\ Covers(req'[p])
             /\ req'[p].hash = req[p].hash /\ Current(req[p])'
  <2> DEFINE r == req[p]
             moved == r.moved \/ r.step \in {"row", "count", "remember"}
             old == r.old \/ r.op = "index"
             s == IF p = q THEN step ELSE r.step
             n == [r EXCEPT !.moved = moved, !.old = old, !.step = s]
  <2>1. r \in Request /\ Sound(r) /\ Covers(r)
    BY RequestOf
  <2>2. moved \in BOOLEAN /\ old \in BOOLEAN /\ s \in ReqSteps
    BY <2>1 DEF Request, ReqSteps
  <2>3. /\ r.step \in {"count", "remember"} => moved
        /\ r.op = "index" => old
        /\ ~r.moved /\ r.step = "idle" => ~moved
        /\ ~r.old /\ r.op = "search" => ~old
    OBVIOUS
  <2>4. p = q => s \in {"clear", "again"} /\ r.op = "search"
    OBVIOUS
  <2>5. p # q => s = r.step
    OBVIOUS
  <2>6. req'[p] = n
    BY DEF Invalidated
  <2> HIDE DEF moved, old, s
  <2>7. /\ n \in Request /\ n.op = r.op /\ n.step = s /\ n.moved = moved /\ n.old = old
        /\ n.hash = r.hash /\ n.read = r.read
    BY <2>1, <2>2 DEF Request
  <2> HIDE DEF n
  <2>8. Sound(n)
    BY <2>1, <2>3, <2>4, <2>5, <2>7 DEF Sound
  <2>9. Covers(n)
    BY <2>1, <2>4, <2>5, <2>7 DEF Covers
  <2>10. /\ n.step \in {"count", "remember"} => n.moved
         /\ n.op = "index" => n.old
    BY <2>3, <2>4, <2>5, <2>7
  <2>11. Current(req[p])'
    BY <2>6, <2>10 DEF Current
  <2> QED
    BY <2>6, <2>7, <2>8, <2>9, <2>11
<1>3. RequestTypes'
  <2>1. req' = [p \in Req |-> req'[p]]
    BY DEF Invalidated
  <2> QED
    BY <1>2, <2>1 DEF RequestTypes
<1>4. RequestFacts'
  BY <1>2, RequestOf DEF RequestFacts, Sound, Covers, Below
<1>5. Settled'
  BY <1>0, <1>2 DEF Settled
<1> QED
  BY <1>1, <1>3, <1>4, <1>5, PartsAfter

LEMMA SameJobs ==
  ASSUME IInv, UNCHANGED <<job, status, lost>>, db' = db
  PROVE  JobTypes' /\ JobFacts' /\ StatusTypes' /\ StatusTells'
BY Parts DEF JobTypes, JobFacts, StatusTypes, StatusTells

LEMMA BumpInv ==
  ASSUME IInv, NEW q \in Req, Bump(q)
  PROVE  IInv'
<1>1. req[q].op = "search"
  BY RequestOf DEF Bump, Sound, Request
<1> QED
  BY <1>1, SameJobs, SameResults, BumpsStep DEF Bump

LEMMA FetchedInv ==
  ASSUME IInv, NEW q \in Req, Fetched(q)
  PROVE  IInv'
<1> DEFINE n == [req[q] EXCEPT !.step = "insert"]
<1>0. /\ req[q] \in Request /\ Sound(req[q]) /\ Below(req[q].hash, db) /\ Covers(req[q])
      /\ req[q].step \in {"fetch", "more"} /\ req[q].op = "search" /\ missed \in BOOLEAN
  BY RequestOf, MissedType DEF Fetched, Sound, Request
<1>1. CASE To(q, "insert") /\ req[q].step = "fetch" /\ UNCHANGED <<memo, results, index, missed>>
  <2>1. req' = [req EXCEPT ![q] = n]
    BY <1>0, <1>1, Parts DEF To, RequestTypes
  <2>2. /\ n \in Request /\ n.step = "insert" /\ n.op = req[q].op /\ n.moved = req[q].moved
        /\ n.old = req[q].old /\ n.hash = req[q].hash /\ n.read = req[q].read
    BY <1>0 DEF Request, ReqSteps
  <2> HIDE DEF n
  <2>3. Sound(n) /\ Covers(n) /\ (Quiet => Current(n))
    BY <1>0, <1>1, <2>2 DEF Sound, Covers, Current
  <2>4. FitsCaches(memo', index', n) /\ ResultFacts'
    BY <1>1, <2>3, SameCaches, SameResults
  <2> QED
    BY <1>0, <1>1, <2>1, <2>2, <2>3, <2>4, RequestStep DEF Fetched
<1>2. CASE Invalidated(q, "again") /\ results' = {}
  BY <1>0, <1>2, SameJobs, FewerResults, BumpsStep DEF Fetched
<1> QED
  BY <1>1, <1>2 DEF Fetched

(***************************************************************************)
(* Steps of the synchronisations that leave the tables alone, and time.    *)
(***************************************************************************)

LEMMA JobStep ==
  ASSUME IInv, index' \in {None, index}, ResultFacts',
         JobTypes', JobFacts', StatusTypes', StatusTells',
         missed' \/ (missed' = missed /\ (Owing => Owing')), missed' \in BOOLEAN,
         UNCHANGED <<db, row, memo, req, restarts>>
  PROVE  IInv'
<1>1. StoreTypes' /\ CacheTypes' /\ RequestTypes' /\ HashFacts'
  BY Parts DEF StoreTypes, CacheTypes, RequestTypes, HashFacts
<1>2. RequestFacts'
  BY Parts DEF RequestFacts
<1>3. Settled'
  <2>1. CASE missed'
    BY <2>1 DEF Settled
  <2>2. CASE ~missed' /\ ~Owing'
    <3>1. Quiet
      BY <2>2 DEF Quiet
    <3>2. CurrentHash' = CurrentHash
      BY DEF CurrentHash
    <3>3. \A q \in Req : Current(req[q])'
      BY <3>1, <3>2, SettledIs, Parts DEF Current
    <3>4. memo \in {None, CurrentHash} /\ index \in {None, [hash |-> CurrentHash, read |-> db]}
      BY <3>1, SettledIs, Parts
    <3>5. memo' \in {None, CurrentHash'} /\ index' \in {None, [hash |-> CurrentHash', read |-> db']}
      BY <3>2, <3>4
    <3> QED
      BY <3>3, <3>5 DEF Settled
  <2> QED
    BY <2>1, <2>2 DEF Settled
<1> QED
  BY <1>1, <1>2, <1>3, PartsAfter

LEMMA StartInv ==
  ASSUME IInv, NEW k \in Key, Start(k)
  PROVE  IInv'
<1>1. /\ JobTypes' /\ job'[k].step = "work" /\ job'[k].digest = job[k].digest
      /\ job'[k].touched = job[k].touched /\ \A j \in Key \ {k} : job'[j] = job[j]
      /\ job[k].step = "off"
  BY JobToFacts DEF Start, JobSteps
<1>2. /\ StatusTypes' /\ status'[k] = "running" /\ \A j \in Key \ {k} : status'[j] = status[j]
      /\ lost' = lost \ {k}
  BY Parts DEF Start, StatusTypes
<1>3. JobFacts' /\ StatusTells' /\ (Owing => Owing')
  <2>1. CASE k = "catalog"
    <3>1. job'["prices"] = job["prices"] /\ status'["prices"] = status["prices"]
      BY <1>1, <1>2, <2>1 DEF Key
    <3> QED
      BY <1>1, <1>2, <2>1, <3>1, Parts DEF Start, JobFacts, StatusTells, Owing, Key
  <2>2. CASE k = "prices"
    <3>1. job'["catalog"] = job["catalog"] /\ status'["catalog"] = status["catalog"]
      BY <1>1, <1>2, <2>2 DEF Key
    <3> QED
      BY <1>1, <1>2, <2>2, <3>1, Parts DEF Start, JobFacts, StatusTells, Owing, Key
  <2> QED
    BY <2>1, <2>2 DEF Key
<1> QED
  BY <1>1, <1>2, <1>3, MissedType, SameResults, JobStep DEF Start

LEMMA DigestInv ==
  ASSUME IInv, Digest
  PROVE  IInv'
<1>1. /\ JobTypes' /\ job'["catalog"].step = "complete" /\ job'["catalog"].digest = db.cards
      /\ job'["catalog"].touched = job["catalog"].touched /\ job'["prices"] = job["prices"]
  BY Parts, JobOf, HashOf, Versions DEF Digest, JobTypes, JobSteps, Key
<1>2. StatusTypes' /\ StatusTells' /\ JobFacts' /\ (Owing => Owing')
  BY <1>1, HashOf, Versions, Parts DEF Digest, StatusTypes, StatusTells, JobFacts, Owing, Key
<1> QED
  BY <1>1, <1>2, MissedType, SameResults, JobStep DEF Digest

\* Prices and their hash are committed at once.
LEMMA PersistInv ==
  ASSUME IInv, Persist
  PROVE  IInv'
<1>1. /\ StatusTypes' /\ status'["prices"] = "idle" /\ status'["catalog"] = status["catalog"]
      /\ lost' = lost
  BY Parts DEF Persist, StatusTypes, Key
<1>2. CASE CanWrite /\ db' = Bumped(db, "prices") /\ row' = [row EXCEPT !["prices"] = db.prices + 1]
           /\ job' = [job EXCEPT !["prices"].step = "backfill", !["prices"].touched = TRUE]
  <2>1. db' \in Contents /\ Below(db, db') /\ db'.prices = db.prices + 1
    BY <1>2, BumpedFacts
  <2>2. /\ row' \in [Key -> Version] /\ row'["catalog"] = row["catalog"]
        /\ row'["prices"] = db'.prices /\ db'.prices \in Nat
    BY <1>2, <2>1, Versions, Parts DEF StoreTypes, Key
  <2>3. row'["catalog"] <= db'.cards /\ row'["prices"] <= db'.prices
        /\ job["catalog"].digest <= db'.cards
    BY <2>1, <2>2, RowsBehind
  <2>4. /\ JobTypes' /\ job'["prices"].step = "backfill" /\ job'["prices"].touched
        /\ job'["catalog"] = job["catalog"]
    BY <1>2, Parts, JobOf DEF JobTypes, JobSteps, Key
  <2>5. StatusTells' /\ JobFacts'
    BY <1>1, <2>3, <2>4, Parts DEF StatusTells, JobFacts, Key
  <2>6. Owing'
    BY <2>4 DEF Owing
  <2> QED
    BY <1>1, <2>1, <2>2, <2>3, <2>4, <2>5, <2>6, SameRequests, WriteStep DEF Persist
<1>3. CASE JobTo("prices", "backfill") /\ UNCHANGED <<db, row>>
  <2>1. /\ JobTypes' /\ job'["prices"].step = "backfill"
        /\ job'["prices"].touched = job["prices"].touched /\ job'["catalog"] = job["catalog"]
    BY <1>3, JobToFacts DEF JobSteps, Key
  <2>2. StatusTells' /\ JobFacts' /\ (Owing => Owing')
    BY <1>1, <1>3, <2>1, Parts DEF Persist, StatusTells, JobFacts, Owing, Key
  <2> QED
    BY <1>1, <1>3, <2>1, <2>2, MissedType, SameResults, JobStep DEF Persist
<1> QED
  BY <1>2, <1>3 DEF Persist

LEMMA OffFacts ==
  /\ Off \in [step : JobSteps, digest : Version, touched : BOOLEAN]
  /\ Off.step = "off" /\ Off.digest = 0 /\ ~Off.touched
BY Versions DEF Off, JobSteps

LEMMA BackfilledInv ==
  ASSUME IInv, Backfilled
  PROVE  IInv'
<1> DEFINE j == job["prices"]
           n == IF j.touched THEN [j EXCEPT !.step = "bumpPrices"] ELSE Off
<1>1. /\ job' = [job EXCEPT !["prices"] = n] /\ j.step = "backfill"
      /\ UNCHANGED <<db, row, status, memo, results, index, req, missed, lost, restarts>>
  BY DEF Backfilled
<1>2. /\ n \in [step : JobSteps, digest : Version, touched : BOOLEAN]
      /\ n.step \in {"bumpPrices", "off"} /\ (n.step = "off" => ~n.touched)
      /\ (j.touched => n.touched /\ n.step = "bumpPrices")
  BY JobOf, OffFacts DEF JobSteps, Key
<1> HIDE DEF n
<1>3. JobTypes' /\ job'["prices"] = n /\ job'["catalog"] = job["catalog"]
  BY <1>1, <1>2, Parts DEF JobTypes, Key
<1>4. StatusTypes' /\ StatusTells' /\ JobFacts' /\ (Owing => Owing')
  BY <1>1, <1>2, <1>3, Parts DEF StatusTypes, StatusTells, JobFacts, Owing, Key
<1> QED
  BY <1>1, <1>3, <1>4, MissedType, SameResults, JobStep

LEMMA InvalidateInv ==
  ASSUME IInv, NEW k \in Key, Invalidate(k)
  PROVE  IInv'
<1>1. PICK step \in {"clear", "clearPublished", "clearPrices"} :
        /\ JobTo(k, step) /\ Invalidated(None, "idle")
        /\ \/ job[k].step = "bump" /\ step = "clear"
           \/ job[k].step = "published" /\ step = "clearPublished"
           \/ job[k].step = "bumpPrices" /\ step = "clearPrices"
  BY DEF Invalidate
<1>2. /\ JobTypes' /\ job'[k].step = step /\ job'[k].digest = job[k].digest
      /\ job'[k].touched = job[k].touched /\ \A j \in Key \ {k} : job'[j] = job[j]
  BY <1>1, JobToFacts DEF JobSteps
<1>3. StatusTypes' /\ StatusTells' /\ JobFacts'
  <2>1. CASE k = "catalog"
    <3>1. job'["prices"] = job["prices"]
      BY <1>2, <2>1 DEF Key
    <3> QED
      BY <1>1, <1>2, <2>1, <3>1, Parts DEF Invalidate, StatusTypes, JobFacts, StatusTells, Key
  <2>2. CASE k = "prices"
    <3>1. job'["catalog"] = job["catalog"]
      BY <1>2, <2>2 DEF Key
    <3> QED
      BY <1>1, <1>2, <2>2, <3>1, Parts DEF Invalidate, StatusTypes, JobFacts, StatusTells, Key
  <2> QED
    BY <2>1, <2>2 DEF Key
<1> QED
  BY <1>1, <1>2, <1>3, SameResults, BumpsStep DEF Invalidate

LEMMA ClearResultsInv ==
  ASSUME IInv, NEW k \in Key, ClearResults(k)
  PROVE  IInv'
<1> DEFINE n == IF job[k].step = "clear" THEN [job[k] EXCEPT !.step = "work"] ELSE Off
<1>1. /\ job' = [job EXCEPT ![k] = n] /\ results' = {}
      /\ job[k].step \in {"clear", "clearPublished", "clearPrices"}
      /\ UNCHANGED <<db, row, status, memo, index, req, missed, lost, restarts>>
  BY DEF ClearResults
<1>2. /\ n \in [step : JobSteps, digest : Version, touched : BOOLEAN]
      /\ job[k].step = "clear" => (/\ n.step = "work" /\ n.touched = job[k].touched
                                   /\ n.digest = job[k].digest)
      /\ (job[k].step # "clear" => n = Off)
  <2>1. CASE job[k].step = "clear"
    BY <2>1, JobOf DEF JobSteps
  <2>2. CASE job[k].step # "clear"
    BY <2>2, OffFacts
  <2> QED
    BY <2>1, <2>2
<1> HIDE DEF n
<1>3. JobTypes' /\ job'[k] = n /\ \A j \in Key \ {k} : job'[j] = job[j]
  BY <1>1, <1>2, OffFacts, Parts DEF JobTypes
<1>4. StatusTypes' /\ StatusTells' /\ JobFacts' /\ (Owing => Owing')
  <2>0. db.cards \in Nat
    BY HashOf, Versions
  <2>1. CASE k = "catalog"
    <3>1. job'["prices"] = job["prices"]
      BY <1>3, <2>1 DEF Key
    <3> QED
      BY <1>1, <1>2, <1>3, <2>0, <2>1, <3>1, OffFacts, Parts
         DEF StatusTypes, JobFacts, StatusTells, Owing, Key
  <2>2. CASE k = "prices"
    <3>1. job'["catalog"] = job["catalog"]
      BY <1>3, <2>2 DEF Key
    <3> QED
      BY <1>1, <1>2, <1>3, <2>2, <3>1, OffFacts, Parts
         DEF StatusTypes, JobFacts, StatusTells, Owing, Key
  <2> QED
    BY <2>1, <2>2 DEF Key
<1> QED
  BY <1>1, <1>3, <1>4, MissedType, FewerResults, JobStep

\* What a failed synchronisation of the prices has committed is missed.
LEMMA FailsInv ==
  ASSUME IInv, NEW k \in Key, Fails(k)
  PROVE  IInv'
<1>1. /\ job' = [job EXCEPT ![k] = Off] /\ job[k].step \in {"work", "complete", "backfill"}
      /\ missed' = (missed \/ job[k].touched)
      /\ UNCHANGED <<db, row, memo, results, index, req, restarts>>
  BY DEF Fails
<1>2. /\ status' \in [Key -> {"idle", "running", "failed"}] /\ lost' \subseteq Key
      /\ \A j \in Key \ {k} : status'[j] = status[j] /\ (j \in lost => j \in lost')
      /\ status'[k] = "running" => k \in lost'
  BY Parts DEF Fails, Failed, StatusTypes
<1>3. JobTypes' /\ job'[k] = Off /\ \A j \in Key \ {k} : job'[j] = job[j]
  BY <1>1, OffFacts, Parts DEF JobTypes
<1>4. missed' \in BOOLEAN /\ (missed' \/ (missed' = missed /\ ~job[k].touched))
  <2>1. missed \in BOOLEAN /\ job[k].touched \in BOOLEAN
    BY MissedType, JobOf
  <2>2. CASE job[k].touched
    <3>1. missed' = TRUE
      BY <1>1, <2>2
    <3> QED
      BY <3>1
  <2>3. CASE ~job[k].touched
    <3>1. missed' = missed
      <4>1. missed = TRUE \/ missed = FALSE
        BY <2>1
      <4> QED
        BY <1>1, <2>3, <4>1
    <3> QED
      BY <2>1, <2>3, <3>1
  <2> QED
    BY <2>2, <2>3
<1>5. StatusTypes' /\ StatusTells' /\ JobFacts' /\ (~job[k].touched /\ Owing => Owing')
  <2>0. db.cards \in Nat
    BY HashOf, Versions
  <2>1. CASE k = "catalog"
    <3>1. job'["prices"] = job["prices"] /\ status'["prices"] = status["prices"]
      BY <1>2, <1>3, <2>1 DEF Key
    <3> QED
      BY <1>1, <1>2, <1>3, <2>0, <2>1, <3>1, OffFacts, Parts
         DEF StatusTypes, JobFacts, StatusTells, Owing, Key
  <2>2. CASE k = "prices"
    <3>1. job'["catalog"] = job["catalog"] /\ status'["catalog"] = status["catalog"]
      BY <1>2, <1>3, <2>2 DEF Key
    <3> QED
      BY <1>1, <1>2, <1>3, <2>2, <3>1, OffFacts, Parts
         DEF StatusTypes, JobFacts, StatusTells, Owing, Key
  <2> QED
    BY <2>1, <2>2 DEF Key
<1>6. missed' \/ (missed' = missed /\ (Owing => Owing'))
  BY <1>4, <1>5
<1>7. ResultFacts' /\ index' \in {None, index} /\ UNCHANGED <<db, row, memo, req, restarts>>
  BY <1>1, SameResults
<1> QED
  BY <1>3, <1>4, <1>5, <1>6, <1>7, JobStep

LEMMA ExpireInv ==
  ASSUME IInv, Expire
  PROVE  IInv'
<1>1. ResultFacts' /\ index' \in {None, index}
  BY FewerResults DEF Expire
<1>2. Owing => Owing'
  BY DEF Expire, Owing
<1> QED
  BY <1>1, <1>2, MissedType, SameJobs, JobStep DEF Expire

\* Memory is empty after a restart, and every status tells.
LEMMA RestartInv ==
  ASSUME IInv, Restart
  PROVE  IInv'
<1>1. /\ memo' = None /\ results' = {} /\ index' = None /\ missed' = FALSE
      /\ req' = [q \in Req |-> Idle] /\ job' = [k \in Key |-> Off]
      /\ restarts' = restarts + 1 /\ restarts < MaxRestarts /\ UNCHANGED <<db, row>>
  BY DEF Restart
<1>2. ResultFacts' /\ StoreTypes' /\ CacheTypes' /\ RequestTypes' /\ JobTypes'
  <2>1. StoreTypes' /\ RequestTypes' /\ JobTypes'
    BY <1>1, IdleFacts, OffFacts, Parts DEF StoreTypes, RequestTypes, JobTypes
  <2>2. restarts' \in 0..MaxRestarts
    BY <1>1, Parts DEF CacheTypes
  <2> QED
    BY <1>1, <2>1, <2>2, FewerResults DEF CacheTypes
<1>3. StatusTypes' /\ \A k \in Key : status'[k] = "running" => k \in lost'
  BY Parts DEF Restart, Failed, StatusTypes
<1>4. JobFacts' /\ StatusTells'
  <2>1. \A k \in Key : job'[k].step = "off" /\ job'[k].digest = 0 /\ ~job'[k].touched
    BY <1>1, OffFacts
  <2>2. db'.cards \in Nat
    BY <1>1, HashOf, Versions
  <2> QED
    BY <1>3, <2>1, <2>2 DEF JobFacts, StatusTells, Key
<1>5. RequestFacts' /\ HashFacts'
  <2>1. \A q \in Req : Sound(req'[q]) /\ Covers(req'[q]) /\ Below(req'[q].hash, db')
    BY <1>1, IdleFacts, Versions, HashOf
  <2> QED
    BY <1>1, <2>1, Parts DEF RequestFacts, HashFacts, Sound, Covers, Below
<1>6. Settled'
  <2>1. \A q \in Req : Current(req[q])'
    BY <1>1, IdleFacts DEF Current
  <2> QED
    BY <1>1, <2>1 DEF Settled
<1> QED
  BY <1>2, <1>3, <1>4, <1>5, <1>6, PartsAfter

LEMMA StutterInv ==
  ASSUME IInv, UNCHANGED vars
  PROVE  IInv'
<1>1. Owing => Owing'
  BY DEF Owing, vars
<1> QED
  BY <1>1, MissedType, SameJobs, SameResults, JobStep DEF vars

LEMMA NextInv == IInv /\ [Next]_vars => IInv'
<1> SUFFICES ASSUME IInv, [Next]_vars PROVE IInv'
  OBVIOUS
<1>1. ASSUME NEW q \in Req, Memo(q) \/ Row(q) \/ Count(q) \/ Remember(q) \/ Rows(q) \/ Prices(q)
      PROVE  IInv'
  BY <1>1, MemoInv, RowInv, CountInv, RememberInv, RowsInv, PricesInv
<1>2. ASSUME NEW q \in Req, Fetch(q) \/ Bump(q) \/ Clear(q) \/ Fetched(q) \/ Insert(q)
      PROVE  IInv'
  BY <1>2, FetchInv, BumpInv, ClearInv, FetchedInv, InsertInv
<1>3. ASSUME NEW q \in Req, IndexBegin(q) \/ IndexInsert(q) \/ Drop(q) PROVE IInv'
  BY <1>3, IndexBeginInv, IndexInsertInv, DropInv
<1>4. ASSUME NEW k \in Key, Start(k) \/ Invalidate(k) \/ ClearResults(k) \/ Fails(k) PROVE IInv'
  BY <1>4, StartInv, InvalidateInv, ClearResultsInv, FailsInv
<1>5. CASE SyncCard \/ Digest \/ Complete \/ Persist \/ Backfill \/ Backfilled
  BY <1>5, SyncCardInv, DigestInv, CompleteInv, PersistInv, BackfillInv, BackfilledInv
<1>6. CASE Expire \/ Restart
  BY <1>6, ExpireInv, RestartInv
<1>7. CASE UNCHANGED vars
  BY <1>7, StutterInv
<1> QED
  BY <1>1, <1>2, <1>3, <1>4, <1>5, <1>6, <1>7 DEF Next

(***************************************************************************)
(* Theorems.                                                               *)
(***************************************************************************)

\* The inductive invariant holds in every reachable state: what was read in the
\* current generation is current, and everything else is of the past.
THEOREM CacheInvariant == Spec => []IInv
<1> QED
  BY InitInv, NextInv, PTL DEF Spec

\* Tables, caches and locals keep their types, and the cache its size.
THEOREM Typed == Spec => []TypeOK
<1>1. IInv => TypeOK
  BY DEF IInv
<1> QED
  BY <1>1, CacheInvariant, PTL

\* The hashes and the index that are remembered are those of the tables, unless an
\* invalidate() is due or was missed (remember_hashes, index_response).
THEOREM CachesAreCurrent == Spec => []CachesFollow
<1>1. IInv => CachesFollow
  BY DEF IInv, Settled, CachesFollow
<1> QED
  BY <1>1, CacheInvariant, PTL

\* A search is never filed under hashes that are newer than what it read: they are
\* taken before the rows (local, query).
THEOREM ResultsAreAsYoungAsTheirHash == Spec => []ResultsCoverHash
<1>1. IInv => ResultsCoverHash
  BY DEF IInv
<1> QED
  BY <1>1, CacheInvariant, PTL

\* A status "running" is that of a synchronisation at work, or of one whose end
\* could not be recorded.
THEOREM StatusIsTold == Spec => []StatusTells
<1>1. IInv => StatusTells
  BY DEF IInv
<1> QED
  BY <1>1, CacheInvariant, PTL

=============================================================================

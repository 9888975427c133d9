---------------------------- MODULE DecksProofs ----------------------------
(***************************************************************************)
(* Proofs about Decks: its invariants hold for any number of overlapping   *)
(* requests, decks, versions and community decks.                          *)
(***************************************************************************)
EXTENDS DecksInv, FiniteSetTheorems, TLAPS

\* What IInv says of the tables, apart from the ids that are taken.
TableFacts ==
  /\ FiniteRecords
  /\ ShowsActiveVersion /\ NoStrayVersion /\ WithinLimit /\ ImportedOnce /\ OneSource

ControlFacts == LockFacts /\ SnapshotFacts /\ LocalFacts /\ ImportFacts /\ SpentFacts

---------------------------------------------------------------------------
(* Payloads. *)

\* persist returns a payload; a stored deck's source is kept, and a request's
\* own claim counts for nothing.
LEMMA PersistFacts ==
  ASSUME NEW p \in Payload, NEW row \in Row \cup {None}, NEW trusted \in BOOLEAN
  PROVE  /\ persist(p, row, trusted) \in Payload
         /\ (row # None /\ ~trusted) => /\ persist(p, row, trusted).up = row.payload.up
                                        /\ persist(p, row, trusted).from = row.payload.from
         /\ (row = None /\ trusted) => persist(p, row, trusted) = p
         /\ (row = None /\ ~trusted) => /\ persist(p, row, trusted).up = None
                                        /\ persist(p, row, trusted).from = None
BY NoneAssumption DEF persist, Kept, Payload, Row

\* merge returns a payload, and the version's own if both know the same source.
LEMMA MergeFacts ==
  ASSUME NEW f \in Payload, NEW c \in Payload, c.up = f.up, c.from = f.from
  PROVE  merge(f, c) = c
BY DEF merge, Payload

\* None is no value of any kind.
LEMMA NoneFacts ==
  /\ None \notin DeckId /\ None \notin VersionId /\ None \notin Source
  /\ None \notin Req /\ None \notin Cards /\ None \notin Op
  /\ None \notin Row /\ None \notin VersionRow
BY NoneAssumption

---------------------------------------------------------------------------
(* Initial states. *)

\* IInv holds initially.
LEMMA InitIInv == Init => IInv
<1> SUFFICES ASSUME Init PROVE IInv
  OBVIOUS
<1> USE NoneFacts
<1>r. req \in [Req -> Locals] /\ \A r \in Req : req[r] = Idle
  BY DEF Init, Idle, Locals
<1>c. LockFacts /\ SnapshotFacts /\ LocalFacts
  BY <1>r DEF Init, LockFacts, SnapshotFacts, LocalFacts, Idle, VersionOp, Op
<1>1. CASE Empty
  <2>1. TypeOK
    BY <1>1, <1>r DEF Init, Empty, TypeOK
  <2>2. \A d \in DeckId : Records(d) = {}
    BY <1>1 DEF Empty, Records
  <2>3. FiniteRecords /\ WithinLimit
    BY <2>2, FS_EmptySet, MaxVersionsAssumption DEF FiniteRecords, WithinLimit
  <2>4. ShowsActiveVersion /\ NoStrayVersion /\ OneSource /\ ImportedOnce
    BY <1>1 DEF Empty, ShowsActiveVersion, NoStrayVersion, OneSource, ImportedOnce
  <2>5. ImportFacts /\ SpentFacts
    BY <1>1, <1>r DEF Empty, ImportFacts, SpentFacts, Idle
  <2> QED BY <1>c, <2>1, <2>3, <2>4, <2>5 DEF IInv
<1>2. CASE Legacy
  <2>1. PICK d0 \in DeckId, v0 \in VersionId, s \in Source, c \in Cards :
          /\ deck = [x \in DeckId |->
               IF x = d0 THEN [payload |-> [cards |-> c, up |-> s, from |-> None],
                              active |-> v0, shared |-> FALSE] ELSE None]
          /\ version = [x \in VersionId |->
               IF x = v0 THEN [deck |-> d0, payload |-> [cards |-> c, up |-> s, from |-> None]]
               ELSE None]
          /\ private = {s}
          /\ spent = {d0, v0}
    BY <1>2 DEF Legacy
  <2> DEFINE p == [cards |-> c, up |-> s, from |-> None]
             row == [payload |-> p, active |-> v0, shared |-> FALSE]
             vrow == [deck |-> d0, payload |-> p]
  <2>p. p \in Payload
    BY DEF Payload
  <2>q. row \in Row /\ vrow \in VersionRow
    BY <2>p DEF Row, VersionRow
  <2>a. /\ deck = [x \in DeckId |-> IF x = d0 THEN row ELSE None]
        /\ version = [x \in VersionId |-> IF x = v0 THEN vrow ELSE None]
    BY <2>1
  <2>f. /\ row.payload = p /\ row.active = v0 /\ vrow.deck = d0 /\ vrow.payload = p
        /\ p.up = s /\ p.from = None /\ row # None /\ vrow # None
    BY <2>q
  <2> HIDE DEF p, row, vrow
  <2>2. deck \in [DeckId -> Row \cup {None}]
    BY <2>a, <2>q
  <2>3. version \in [VersionId -> VersionRow \cup {None}]
    BY <2>a, <2>q
  <2>4. TypeOK
    BY <2>1, <2>2, <2>3, <1>r DEF Init, TypeOK
  <2>5. \A d \in DeckId : Records(d) = IF d = d0 THEN {v0} ELSE {}
    BY <2>a, <2>f DEF Records
  <2>6. \A d \in DeckId : IsFiniteSet(Records(d)) /\ Cardinality(Records(d)) \in {0, 1}
    <3>1. IsFiniteSet({v0}) /\ Cardinality({v0}) = 1
      BY FS_Singleton
    <3>2. IsFiniteSet({}) /\ Cardinality({}) = 0
      BY FS_EmptySet
    <3> QED BY <2>5, <3>1, <3>2
  <2>7. FiniteRecords /\ WithinLimit
    BY <2>6, MaxVersionsAssumption DEF FiniteRecords, WithinLimit
  <2>8. ShowsActiveVersion /\ NoStrayVersion /\ OneSource
    BY <2>a, <2>f, <2>5 DEF ShowsActiveVersion, NoStrayVersion, OneSource
  <2>9. ImportedOnce
    BY <2>a, <2>f DEF ImportedOnce
  <2>10. ImportFacts /\ SpentFacts
    BY <2>1, <2>a, <2>f, <1>r DEF ImportFacts, SpentFacts, Idle
  <2> QED BY <1>c, <2>4, <2>7, <2>8, <2>9, <2>10 DEF IInv
<1> QED BY <1>1, <1>2 DEF Init

---------------------------------------------------------------------------
(* Steps that leave decks and versions alone. *)

\* Nothing that is said of the tables is disturbed.
LEMMA TablesAlone ==
  ASSUME TableFacts, UNCHANGED <<deck, version>>
  PROVE  TableFacts' /\ \A d \in DeckId : Records(d)' = Records(d)
<1>1. \A d \in DeckId : Records(d)' = Records(d)
  BY DEF Records
<1>2. /\ FiniteRecords' /\ ShowsActiveVersion' /\ NoStrayVersion'
      /\ WithinLimit' /\ ImportedOnce' /\ OneSource'
  BY <1>1 DEF TableFacts, FiniteRecords, ShowsActiveVersion, NoStrayVersion, WithinLimit,
     ImportedOnce, OneSource
<1> QED BY <1>1, <1>2 DEF TableFacts

\* A request ends.  If it wrote, it held the lock, so nobody else's snapshot is
\* in use, and it made no row under the id of another's import.
LEMMA Ended ==
  ASSUME TypeOK, ControlFacts, NEW r \in Req,
         req' = [req EXCEPT ![r] = Idle],
         lock' = IF lock = r THEN None ELSE lock,
         spent \subseteq spent',
         UNCHANGED <<deck, version, account>> \/ lock = r,
         \A d \in DeckId : d # req[r].deck /\ deck[d] = None => deck'[d] = None
  PROVE  /\ req' \in [Req -> Locals] /\ lock' \in Req \cup {None}
         /\ LockFacts' /\ SnapshotFacts' /\ LocalFacts' /\ ImportFacts'
<1> USE NoneFacts
<1>1. /\ \A q \in Req \ {r} : req'[q] = req[q]
      /\ req'[r] = Idle /\ Idle \in Locals
      /\ req' \in [Req -> Locals] /\ lock' \in Req \cup {None}
  BY DEF TypeOK, Locals, Idle
<1>2. LockFacts'
  BY <1>1 DEF LockFacts, ControlFacts, Idle
<1>3. SnapshotFacts'
  <2> SUFFICES ASSUME NEW q \in Req, req'[q].pc = "write", account'
               PROVE  HolderKnows(q)'
    BY DEF SnapshotFacts
  <2>1. q # r /\ lock = q /\ UNCHANGED <<deck, version, account>>
    BY <1>1 DEF LockFacts, ControlFacts, Idle
  <2>2. HolderKnows(q) /\ req'[q] = req[q]
    BY <1>1, <2>1 DEF SnapshotFacts, ControlFacts
  <2> QED BY <2>1, <2>2 DEF HolderKnows, Records, Imported
<1>4. LocalFacts'
  BY <1>1 DEF LocalFacts, ControlFacts, Idle, VersionOp, Op
<1>5. ImportFacts'
  <2> SUFFICES ASSUME NEW q \in Req, req'[q].op = "import", req'[q].deck # None
               PROVE  /\ deck'[req'[q].deck] = None /\ req'[q].deck \in spent'
                      /\ \A x \in Req \ {q} : req'[x].deck # req'[q].deck
    BY DEF ImportFacts
  <2>1. q # r /\ req'[q] = req[q]
    BY <1>1 DEF Idle, Op
  <2>2. /\ deck[req[q].deck] = None /\ req[q].deck \in spent /\ req[q].deck \in DeckId
        /\ \A x \in Req \ {q} : req[x].deck # req[q].deck
    BY <2>1 DEF ImportFacts, ControlFacts, TypeOK, Locals
  <2>3. \A x \in Req \ {q} : req'[x].deck # req'[q].deck
    BY <1>1, <2>1, <2>2 DEF Idle
  <2>4. deck'[req[q].deck] = None
    BY <2>1, <2>2
  <2> QED BY <2>1, <2>2, <2>3, <2>4
<1> QED BY <1>1, <1>2, <1>3, <1>4, <1>5

\* A request's locals have the parameters of its operation.
Sound(l) ==
  /\ l.pc # "idle" => l.op \in Op
  /\ l.pc = "idle" => l = Idle
  /\ (l.pc # "idle" /\ l.op # "import") => l.deck \in DeckId
  /\ (l.op = "import" /\ l.pc # "check") => l.deck \in DeckId
  /\ l.op = "import" => l.source \in Source
  /\ l.op \in VersionOp \ {"create"} => l.version \in VersionId
  /\ l.pc = "mark" => l.seen # None

\* A request that does not hold the lock moves on to the locals new, under an id
\* that is no other's, and fresh if the request has just drawn it.
LEMMA MovedOn ==
  ASSUME TypeOK, ControlFacts, NEW r \in Req, NEW new \in Locals,
         req' = [req EXCEPT ![r] = new], req[r].pc # "write", new.pc # "write", Sound(new),
         UNCHANGED <<deck, version, account, lock>>,
         spent \subseteq spent', new.deck # None => new.deck \in spent',
         new.deck # req[r].deck => \A q \in Req : req[q].op = "import" => req[q].deck # new.deck,
         (new.op = "import" /\ new.deck # None) =>
           /\ deck[new.deck] = None
           /\ \A q \in Req \ {r} : req[q].deck # new.deck,
         new.op = req[r].op \/ new.op # "import" \/ new.deck = None
  PROVE  req' \in [Req -> Locals] /\ ControlFacts'
<1> USE NoneFacts
<1>1. /\ \A q \in Req \ {r} : req'[q] = req[q]
      /\ req'[r] = new /\ req' \in [Req -> Locals]
  BY DEF TypeOK
<1>2. LockFacts'
  BY <1>1 DEF LockFacts, ControlFacts
<1>3. SnapshotFacts'
  <2> SUFFICES ASSUME NEW q \in Req, req'[q].pc = "write", account'
               PROVE  HolderKnows(q)'
    BY DEF SnapshotFacts
  <2>1. q # r /\ req'[q] = req[q] /\ HolderKnows(q)
    BY <1>1 DEF SnapshotFacts, ControlFacts
  <2> QED BY <2>1 DEF HolderKnows, Records, Imported
<1>4. LocalFacts'
  BY <1>1 DEF LocalFacts, ControlFacts, Sound
<1>5. ImportFacts'
  <2> SUFFICES ASSUME NEW q \in Req, req'[q].op = "import", req'[q].deck # None
               PROVE  /\ deck'[req'[q].deck] = None /\ req'[q].deck \in spent'
                      /\ \A x \in Req \ {q} : req'[x].deck # req'[q].deck
    BY DEF ImportFacts
  <2>1. CASE q = r
    BY <2>1, <1>1
  <2>2. CASE q # r
    <3>1. /\ req'[q] = req[q] /\ deck[req[q].deck] = None /\ req[q].deck \in spent
          /\ \A x \in Req \ {q} : req[x].deck # req[q].deck
      BY <1>1, <2>2 DEF ImportFacts, ControlFacts
    <3>2. new.deck # req[q].deck
      BY <3>1, <2>2, <1>1
    <3> QED BY <3>1, <3>2, <1>1, <2>2
  <2> QED BY <2>1, <2>2
<1>6. SpentFacts'
  BY <1>1 DEF SpentFacts, ControlFacts
<1> QED BY <1>1, <1>2, <1>3, <1>4, <1>5, <1>6 DEF ControlFacts

\* The parts of the invariant.
LEMMA Parts == IInv <=> TypeOK /\ ControlFacts /\ TableFacts
BY DEF IInv, ControlFacts, TableFacts

LEMMA BeginStep ==
  ASSUME IInv, NEW r \in Req, NEW op \in Op, NEW d \in DeckId \cup {None},
         NEW v \in (VersionId \cap spent) \cup {None}, NEW s \in Source \cup {None},
         Begin(r, op, d, v, s)
  PROVE  IInv'
<1> USE NoneFacts
<1> DEFINE new == [Idle EXCEPT !.pc = IF op \in {"share", "unshare"} THEN "lock" ELSE "check",
                               !.op = op, !.deck = d, !.version = v, !.source = s]
<1>1. TypeOK /\ ControlFacts /\ TableFacts
  BY Parts
<1>2. /\ new \in Locals /\ new.pc \in {"lock", "check"} /\ new.op = op /\ new.deck = d
      /\ new.version = v /\ new.source = s
      /\ op \in {"share", "unshare"} <=> new.pc = "lock"
  BY DEF Idle, Locals
<1>3. /\ req' = [req EXCEPT ![r] = new]
      /\ UNCHANGED <<deck, version, private, account, lock>>
      /\ spent' = IF d = None THEN spent ELSE spent \cup {d}
  BY DEF Begin, tables
<1>p. /\ v = None \/ op \in VersionOp \ {"create"}
      /\ v # None \/ op \notin VersionOp \ {"create"}
      /\ d = None \/ op # "import"
      /\ d # None \/ op = "import"
      /\ s # None \/ op # "import"
      /\ \A q \in Req : req[q].op = "import" => d = None \/ req[q].deck # d
  BY DEF Begin
<1>q. req[r] = Idle /\ req[r].pc = "idle" /\ req[r].deck = None /\ req[r].op = None
  <2>1. req[r].pc = "idle"
    BY DEF Begin
  <2>2. req[r] = Idle
    BY <2>1, <1>1 DEF ControlFacts, LocalFacts
  <2> QED BY <2>1, <2>2 DEF Idle
<1> HIDE DEF new
<1>4. Sound(new)
  BY <1>2, <1>p DEF Sound
<1>5. req' \in [Req -> Locals] /\ ControlFacts'
  BY <1>1, <1>2, <1>3, <1>p, <1>q, <1>4, MovedOn
<1>6. TypeOK' /\ TableFacts'
  BY <1>1, <1>3, <1>5, TablesAlone DEF TypeOK, tables
<1> QED BY <1>5, <1>6 DEF IInv, ControlFacts, TableFacts

\* A request that ends without having written.
LEMMA EndStep ==
  ASSUME IInv, NEW r \in Req, Done(r), UNCHANGED <<tables, spent>>,
         lock' = IF lock = r THEN None ELSE lock
  PROVE  IInv'
<1>1. TypeOK /\ ControlFacts /\ TableFacts
  BY Parts
<1>2. /\ req' \in [Req -> Locals] /\ lock' \in Req \cup {None}
      /\ LockFacts' /\ SnapshotFacts' /\ LocalFacts' /\ ImportFacts'
  BY <1>1, Ended DEF Done, tables
<1>3. SpentFacts'
  BY <1>1 DEF SpentFacts, ControlFacts, Done, tables, Idle, TypeOK
<1>4. TypeOK' /\ TableFacts'
  BY <1>1, <1>2, TablesAlone DEF TypeOK, tables
<1> QED BY <1>2, <1>3, <1>4 DEF IInv, ControlFacts, TableFacts

LEMMA CheckStep == ASSUME IInv, NEW r \in Req, Check(r) PROVE IInv'
<1> USE NoneFacts
<1>1. TypeOK /\ ControlFacts /\ TableFacts
  BY Parts
<1>2. lock # r /\ Sound(req[r]) /\ req[r] \in Locals /\ req[r].deck \in DeckId
      /\ req[r].pc = "check" /\ req[r].op # "import" /\ UNCHANGED <<tables, spent, lock>>
  BY <1>1 DEF Check, ControlFacts, LockFacts, LocalFacts, Sound, TypeOK
<1>3. CASE Done(r)
  BY <1>2, <1>3, EndStep
<1>4. CASE ~Done(r)
  <2> DEFINE new == [req[r] EXCEPT !.pc = IF req[r].op = "delete" THEN "mark" ELSE "lock",
                                  !.seen = deck[req[r].deck]]
  <2>1. req' = [req EXCEPT ![r] = new]
        /\ (deck[req[r].deck] # None \/ req[r].op = "put")
    BY <1>4 DEF Check
  <2>2. /\ new \in Locals /\ new.pc \in {"mark", "lock"} /\ new.op = req[r].op
        /\ new.deck = req[r].deck /\ new.version = req[r].version /\ new.source = req[r].source
        /\ new.pc = "mark" => new.seen # None
    BY <1>1, <1>2, <2>1 DEF Locals, TypeOK
  <2> HIDE DEF new
  <2>3. Sound(new) /\ new.deck \in spent
    BY <1>1, <1>2, <2>2 DEF Sound, ControlFacts, SpentFacts
  <2>4. req' \in [Req -> Locals] /\ ControlFacts'
    BY <1>1, <1>2, <2>1, <2>2, <2>3, MovedOn DEF tables
  <2>5. TypeOK' /\ TableFacts'
    BY <1>1, <1>2, <2>4, TablesAlone DEF TypeOK, tables
  <2> QED BY <2>4, <2>5 DEF IInv, ControlFacts, TableFacts
<1> QED BY <1>3, <1>4

LEMMA CheckImportStep == ASSUME IInv, NEW r \in Req, CheckImport(r) PROVE IInv'
<1> USE NoneFacts
<1>1. TypeOK /\ ControlFacts /\ TableFacts
  BY Parts
<1>2. /\ lock # r /\ Sound(req[r]) /\ req[r] \in Locals
      /\ req[r].pc = "check" /\ req[r].op = "import" /\ UNCHANGED <<tables, lock>>
  BY <1>1 DEF CheckImport, ControlFacts, LockFacts, LocalFacts, Sound, TypeOK
<1>3. CASE Done(r) /\ UNCHANGED spent
  BY <1>2, <1>3, EndStep
<1>4. CASE ~(Done(r) /\ UNCHANGED spent)
  <2>1. PICK d \in DeckId \ (spent \cup Source) :
          /\ req' = [req EXCEPT ![r].pc = "lock", ![r].deck = d]
          /\ spent' = spent \cup {d}
    BY <1>4 DEF CheckImport
  <2> DEFINE new == [req[r] EXCEPT !.pc = "lock", !.deck = d]
  <2>2. /\ new.pc = "lock" /\ new.op = "import" /\ new.deck = d
        /\ new.source = req[r].source /\ new \in Locals
    BY <1>2 DEF Locals
  <2>5. req' = [req EXCEPT ![r] = new]
    BY <1>1, <2>1 DEF TypeOK
  <2> HIDE DEF new
  <2>3. Sound(new)
    BY <1>2, <2>2 DEF Sound, VersionOp
  <2>4. deck[d] = None /\ \A q \in Req : req[q].deck # d
    BY <1>1, <2>1 DEF ControlFacts, SpentFacts
  <2>7. req' \in [Req -> Locals] /\ ControlFacts'
    BY <1>1, <1>2, <2>1, <2>2, <2>3, <2>4, <2>5, MovedOn DEF tables
  <2>6. TypeOK' /\ TableFacts'
    BY <1>1, <1>2, <2>1, <2>7, TablesAlone DEF TypeOK, tables
  <2> QED BY <2>6, <2>7 DEF IInv, ControlFacts, TableFacts
<1> QED BY <1>3, <1>4

LEMMA MarkPrivateStep == ASSUME IInv, NEW r \in Req, MarkPrivate(r) PROVE IInv'
<1> USE NoneFacts
<1>1. TypeOK /\ ControlFacts /\ TableFacts
  BY Parts
<1>2. /\ req[r].pc = "mark" /\ UNCHANGED <<deck, version, account, spent, lock>>
      /\ Sound(req[r]) /\ req[r] \in Locals /\ req[r].seen \in Row
      /\ req[r].op # "import" => req[r].deck \in DeckId
  BY <1>1 DEF MarkPrivate, ControlFacts, LocalFacts, Sound, TypeOK, Locals
<1>3. private' \subseteq Source
  BY <1>1, <1>2 DEF MarkPrivate, TypeOK, Row, Payload
<1> DEFINE new == [req[r] EXCEPT !.pc = "lock"]
<1>4. /\ new \in Locals /\ new.pc = "lock" /\ new.op = req[r].op /\ new.deck = req[r].deck
      /\ new.source = req[r].source /\ new.version = req[r].version
      /\ req' = [req EXCEPT ![r] = new]
  BY <1>2 DEF MarkPrivate, Locals
<1> HIDE DEF new
<1>5. Sound(new)
  BY <1>2, <1>4 DEF Sound
<1>6. /\ new.deck # None => new.deck \in spent
      /\ (new.op = "import" /\ new.deck # None) =>
           deck[new.deck] = None /\ \A q \in Req \ {r} : req[q].deck # new.deck
  BY <1>1, <1>4 DEF ControlFacts, SpentFacts, ImportFacts
<1>7. req' \in [Req -> Locals] /\ ControlFacts'
  BY <1>1, <1>2, <1>4, <1>5, <1>6, MovedOn
<1>8. TypeOK' /\ TableFacts'
  BY <1>1, <1>2, <1>3, <1>7, TablesAlone DEF TypeOK
<1> QED BY <1>7, <1>8 DEF IInv, ControlFacts, TableFacts

\* The lock is free, so no snapshot is in use; r's is taken now.
LEMMA LockStep == ASSUME IInv, NEW r \in Req, Lock(r) PROVE IInv'
<1> USE NoneFacts
<1>1. TypeOK /\ ControlFacts /\ TableFacts
  BY Parts
<1>2. /\ req[r].pc = "lock" /\ lock = None /\ UNCHANGED <<tables, spent>>
      /\ Sound(req[r]) /\ req[r] \in Locals /\ req[r].deck \in DeckId /\ req[r].op \in Op
  BY <1>1 DEF Lock, ControlFacts, LocalFacts, Sound, TypeOK
<1>3. CASE Done(r) /\ UNCHANGED lock
  BY <1>2, <1>3, EndStep
<1>4. CASE ~(Done(r) /\ UNCHANGED lock)
  <2> DEFINE d   == req[r].deck
             new == [req[r] EXCEPT !.pc = "write", !.seen = deck[d], !.records = Records(d)]
  <2>1. /\ lock' = r /\ req' = [req EXCEPT ![r] = new]
        /\ ~Known(r) /\ (deck[d] # None \/ req[r].op \in {"put", "import"})
    BY <1>4 DEF Lock
  <2>2. /\ new \in Locals /\ new.pc = "write" /\ new.op = req[r].op /\ new.deck = d
        /\ new.source = req[r].source /\ new.version = req[r].version
        /\ new.seen = deck[d] /\ new.records = Records(d)
    BY <1>1, <1>2 DEF Locals, TypeOK, Records
  <2> HIDE DEF new
  <2>3. /\ \A q \in Req \ {r} : req'[q] = req[q] /\ req[q].pc # "write"
        /\ req'[r] = new /\ req' \in [Req -> Locals]
    BY <1>1, <1>2, <2>1, <2>2 DEF TypeOK, ControlFacts, LockFacts
  <2>4. LockFacts'
    BY <2>1, <2>2, <2>3 DEF LockFacts
  <2>5. SnapshotFacts'
    <3>1. HolderKnows(r)'
      <4>1. deck' = deck /\ version' = version
        BY <1>2 DEF tables
      <4>2. /\ new.seen = deck[new.deck] /\ new.records = Records(new.deck)
            /\ new.op \notin {"put", "import"} => new.seen # None
        BY <2>1, <2>2
      <4>3. new.op = "import" => Imported(new.source) = {}
        BY <2>1, <2>2 DEF Known
      <4> QED BY <2>3, <4>1, <4>2, <4>3 DEF HolderKnows, Records, Imported
    <3> QED BY <2>3, <3>1 DEF SnapshotFacts
  <2>6. LocalFacts'
    BY <1>1, <1>2, <2>2, <2>3 DEF LocalFacts, ControlFacts, Sound
  <2>7. ImportFacts' /\ SpentFacts'
    BY <1>1, <1>2, <2>2, <2>3 DEF ImportFacts, SpentFacts, ControlFacts, tables
  <2>8. TypeOK' /\ TableFacts'
    BY <1>1, <1>2, <2>1, <2>3, TablesAlone DEF TypeOK, tables
  <2> QED BY <2>4, <2>5, <2>6, <2>7, <2>8 DEF IInv, ControlFacts, TableFacts
<1> QED BY <1>3, <1>4

\* Closing the account empties the tables.
LEMMA CloseStep == ASSUME IInv, CloseAccount PROVE IInv'
<1> USE NoneFacts
<1>1. TypeOK /\ ControlFacts /\ TableFacts
  BY Parts
<1>2. /\ \A d \in DeckId : deck'[d] = None /\ Records(d)' = {}
      /\ \A v \in VersionId : version'[v] = None
      /\ account' = FALSE /\ UNCHANGED <<private, spent, lock, req>>
  BY DEF CloseAccount, Records
<1>3. TypeOK'
  BY <1>1, <1>2 DEF TypeOK, CloseAccount
<1>4. FiniteRecords' /\ WithinLimit'
  BY <1>2, FS_EmptySet, MaxVersionsAssumption DEF FiniteRecords, WithinLimit
<1>5. ShowsActiveVersion' /\ NoStrayVersion' /\ ImportedOnce' /\ OneSource'
  BY <1>2 DEF ShowsActiveVersion, NoStrayVersion, ImportedOnce, OneSource
<1>6. LockFacts' /\ SnapshotFacts' /\ LocalFacts' /\ SpentFacts'
  BY <1>1, <1>2 DEF ControlFacts, LockFacts, SnapshotFacts, LocalFacts, SpentFacts
<1>7. ImportFacts'
  BY <1>1, <1>2 DEF ControlFacts, ImportFacts, TypeOK, Locals
<1> QED BY <1>3, <1>4, <1>5, <1>6, <1>7 DEF IInv

---------------------------------------------------------------------------
(* Writes. *)

\* Where deck d comes from: as before, or from nowhere, or from a community deck
\* that no deck came from yet.
SourceSound(d) ==
  LET p == deck'[d].payload
  IN \/ deck[d] # None /\ p.up = deck[d].payload.up /\ p.from = deck[d].payload.from
     \/ p.up = None /\ p.from = None
     \/ \E s \in Source : p.up = s /\ p.from = s /\ Imported(s) = {}

\* A write of deck d that leaves it sound leaves all tables sound.
LEMMA DeckWritten ==
  ASSUME TypeOK, TableFacts, NEW d \in DeckId,
         deck' \in [DeckId -> Row \cup {None}],
         version' \in [VersionId -> VersionRow \cup {None}],
         \A x \in DeckId \ {d} : deck'[x] = deck[x],
         \A v \in VersionId :
           (version[v] # None /\ version[v].deck # d) \/ (version'[v] # None /\ version'[v].deck # d)
             => version'[v] = version[v],
         IsFiniteSet(Records(d)'), Cardinality(Records(d)') <= MaxVersions,
         Records(d)' # {} => deck'[d] # None,
         deck'[d] # None =>
           /\ deck'[d].active \in Records(d)'
           /\ deck'[d].payload = version'[deck'[d].active].payload
           /\ SourceSound(d)
           /\ \A v \in Records(d)' : /\ version'[v].payload.up = deck'[d].payload.up
                                     /\ version'[v].payload.from = deck'[d].payload.from
  PROVE  TableFacts'
<1> USE NoneFacts
<1>1. \A x \in DeckId \ {d} : Records(x)' = Records(x)
  BY DEF Records
<1>2. \A x \in DeckId \ {d} : \A v \in Records(x) : version'[v] = version[v]
  BY DEF Records
<1>3. FiniteRecords' /\ WithinLimit'
  BY <1>1 DEF TableFacts, FiniteRecords, WithinLimit
<1>4. ShowsActiveVersion'
  <2> SUFFICES ASSUME NEW x \in DeckId, deck'[x] # None
               PROVE  /\ deck'[x].active \in Records(x)'
                      /\ deck'[x].payload = version'[deck'[x].active].payload
    BY DEF ShowsActiveVersion
  <2>1. CASE x = d
    BY <2>1
  <2>2. CASE x # d
    <3>1. deck'[x] = deck[x] /\ deck[x].active \in Records(x)
          /\ deck[x].payload = version[deck[x].active].payload
      BY <2>2 DEF TableFacts, ShowsActiveVersion
    <3> QED BY <3>1, <2>2, <1>1, <1>2
  <2> QED BY <2>1, <2>2
<1>5. \A v \in VersionId : version'[v] # None => version'[v].deck \in DeckId
  BY DEF VersionRow
<1>r. \A v \in VersionId : version'[v] # None /\ version'[v].deck = d => v \in Records(d)'
  BY DEF Records
<1>6. \A v \in VersionId : version'[v] # None /\ version'[v].deck # d =>
        /\ version'[v] = version[v] /\ deck'[version'[v].deck] = deck[version'[v].deck]
  BY <1>5
<1>7. NoStrayVersion'
  <2> SUFFICES ASSUME NEW v \in VersionId, version'[v] # None
               PROVE  deck'[version'[v].deck] # None
    BY DEF NoStrayVersion
  <2>1. CASE version'[v].deck = d
    BY <2>1, <1>r
  <2>2. CASE version'[v].deck # d
    BY <2>2, <1>6 DEF TableFacts, NoStrayVersion
  <2> QED BY <2>1, <2>2
<1>8. OneSource'
  <2> SUFFICES ASSUME NEW v \in VersionId, version'[v] # None
               PROVE  /\ version'[v].payload.up = deck'[version'[v].deck].payload.up
                      /\ version'[v].payload.from = deck'[version'[v].deck].payload.from
    BY DEF OneSource
  <2>1. CASE version'[v].deck = d
    BY <2>1, <1>r
  <2>2. CASE version'[v].deck # d
    BY <2>2, <1>6 DEF TableFacts, OneSource
  <2> QED BY <2>1, <2>2
<1>9. ImportedOnce'
  <2> DEFINE From(x, s) == deck'[x] # None /\ s \in {deck'[x].payload.from, deck'[x].payload.up}
             Was(x, s)  == deck[x] # None /\ s \in {deck[x].payload.from, deck[x].payload.up}
  <2>1. \A s \in Source, x \in DeckId \ {d} : From(x, s) => Was(x, s)
    OBVIOUS
  <2>2. \A s \in Source : From(d, s) => Was(d, s) \/ Imported(s) = {}
    BY DEF SourceSound
  <2>3. \A s \in Source, x \in DeckId : Was(x, s) => x \in Imported(s)
    BY DEF Imported
  <2>4. \A s \in Source, x, y \in DeckId : Was(x, s) /\ Was(y, s) => x = y
    BY DEF TableFacts, ImportedOnce
  <2>5. \A s \in Source, x, y \in DeckId : From(x, s) /\ From(y, s) => x = y
    <3> HIDE DEF From, Was
    <3> QED BY <2>1, <2>2, <2>3, <2>4
  <2> QED BY <2>5 DEF ImportedOnce
<1> QED BY <1>3, <1>4, <1>7, <1>8, <1>9 DEF TableFacts

\* What a request that writes knows of its deck and of the rows it may touch.
LEMMA WriterKnows ==
  ASSUME IInv, NEW r \in Req, NEW op \in Op, Writes(r, op)
  PROVE  \E d \in DeckId :
         /\ TypeOK /\ ControlFacts /\ TableFacts
         /\ d = req[r].deck /\ lock = r /\ req[r].op = op /\ d \in spent
         /\ req[r].seen = deck[d] /\ req[r].records = Records(d)
         /\ op \notin {"put", "import"} => deck[d] # None
         /\ op = "import" => /\ req[r].source \in Source /\ Imported(req[r].source) = {}
                             /\ deck[d] = None
         /\ op \in VersionOp \ {"create"} => req[r].version \in VersionId
<1> USE NoneFacts
<1>1. TypeOK /\ ControlFacts /\ TableFacts
  BY Parts
<1>2. account /\ req[r].pc = "write" /\ req[r].op = op
  BY DEF Writes
<1>3. lock = r /\ HolderKnows(r) /\ req[r].deck \in DeckId
  BY <1>1, <1>2 DEF ControlFacts, LockFacts, SnapshotFacts, LocalFacts
<1>4. req[r].deck \in spent
      /\ (op = "import" => req[r].source \in Source /\ deck[req[r].deck] = None)
      /\ (op \in VersionOp \ {"create"} => req[r].version \in VersionId)
  BY <1>1, <1>2, <1>3 DEF ControlFacts, SpentFacts, ImportFacts, LocalFacts
<1> QED BY <1>1, <1>2, <1>3, <1>4 DEF HolderKnows

\* What the tables say of a deck that has a row.
LEMMA DeckKnown ==
  ASSUME TypeOK, TableFacts, NEW d \in DeckId, deck[d] # None
  PROVE  /\ deck[d] \in Row /\ deck[d].payload \in Payload
         /\ deck[d].active \in Records(d) /\ deck[d].payload = version[deck[d].active].payload
         /\ IsFiniteSet(Records(d)) /\ Cardinality(Records(d)) <= MaxVersions
         /\ \A v \in Records(d) :
              /\ v \in VersionId /\ version[v] \in VersionRow /\ version[v].deck = d
              /\ version[v].payload \in Payload
              /\ version[v].payload.up = deck[d].payload.up
              /\ version[v].payload.from = deck[d].payload.from
<1>1. deck[d] \in Row /\ deck[d].payload \in Payload
  BY DEF TypeOK, Row
<1>2. \A v \in Records(d) : /\ v \in VersionId /\ version[v] \in VersionRow /\ version[v] # None
                            /\ version[v].deck = d /\ version[v].payload \in Payload
  BY DEF TypeOK, Records, VersionRow
<1>3. \A v \in Records(d) : /\ version[v].payload.up = deck[d].payload.up
                            /\ version[v].payload.from = deck[d].payload.from
  BY <1>2 DEF TableFacts, OneSource
<1>4. /\ deck[d].active \in Records(d) /\ deck[d].payload = version[deck[d].active].payload
      /\ IsFiniteSet(Records(d)) /\ Cardinality(Records(d)) <= MaxVersions
  BY DEF TableFacts, ShowsActiveVersion, FiniteRecords, WithinLimit
<1> QED BY <1>1, <1>2, <1>3, <1>4

\* A deck without a row has no versions.
LEMMA DeckUnknown ==
  ASSUME TableFacts, NEW d \in DeckId, deck[d] = None
  PROVE  Records(d) = {}
BY DEF TableFacts, NoStrayVersion, Records

\* A write of deck d by the request that holds the lock, which ends with it.
LEMMA Written ==
  ASSUME IInv, NEW r \in Req, NEW d \in DeckId, d = req[r].deck, lock = r, Release(r),
         UNCHANGED <<private, account>>,
         spent \subseteq spent', spent' \subseteq DeckId \cup VersionId,
         \A v \in VersionId : version'[v] # None => v \in spent',
         deck' \in [DeckId -> Row \cup {None}],
         version' \in [VersionId -> VersionRow \cup {None}],
         \A x \in DeckId \ {d} : deck'[x] = deck[x],
         TableFacts'
  PROVE  IInv'
<1> USE NoneFacts
<1>1. TypeOK /\ ControlFacts /\ TableFacts
  BY Parts
<1>2. req' = [req EXCEPT ![r] = Idle] /\ lock' = None
  BY DEF Release, Done
<1>3. \A x \in DeckId : x # req[r].deck /\ deck[x] = None => deck'[x] = None
  OBVIOUS
<1>4. /\ req' \in [Req -> Locals] /\ lock' \in Req \cup {None}
      /\ LockFacts' /\ SnapshotFacts' /\ LocalFacts' /\ ImportFacts'
  BY <1>1, <1>2, <1>3, Ended
<1>5. SpentFacts'
  <2>1. \A x \in DeckId : deck'[x] # None => x \in spent'
    BY <1>1 DEF ControlFacts, SpentFacts
  <2>2. \A q \in Req : req'[q].deck # None => req'[q].deck \in spent'
    BY <1>1, <1>2 DEF ControlFacts, SpentFacts, TypeOK, Idle
  <2> QED BY <2>1, <2>2 DEF SpentFacts
<1>6. TypeOK'
  BY <1>1, <1>4 DEF TypeOK
<1> QED BY <1>4, <1>5, <1>6 DEF IInv, TableFacts

\* The writer of deck d ends.
Ends(r, d) == d = req[r].deck /\ lock = r /\ Release(r) /\ UNCHANGED <<private, account>>

\* The rows of deck d and of its version a are exchanged for row and vrow.
Replaces(r, d, row, a, vrow) ==
  /\ Ends(r, d) /\ UNCHANGED spent /\ deck[d] # None
  /\ row \in Row /\ a \in Records(d) /\ vrow \in VersionRow
  /\ deck' = [deck EXCEPT ![d] = row] /\ version' = [version EXCEPT ![a] = vrow]
  /\ vrow.deck = d /\ row.active \in Records(d)
  /\ row.active = a => row.payload = vrow.payload
  /\ row.active # a => row.payload = version[row.active].payload
  /\ vrow.payload.up = deck[d].payload.up /\ vrow.payload.from = deck[d].payload.from

LEMMA Replaced ==
  ASSUME IInv, NEW r \in Req, NEW d \in DeckId, NEW row, NEW a, NEW vrow,
         Replaces(r, d, row, a, vrow)
  PROVE  IInv'
<1> USE NoneFacts DEF Replaces, Ends
<1>1. TypeOK /\ ControlFacts /\ TableFacts
  BY Parts
<1>2. a \in VersionId /\ version[a] # None /\ version[a].deck = d
  BY DEF Records
<1>3. /\ deck'[d] = row /\ \A x \in DeckId \ {d} : deck'[x] = deck[x]
      /\ version'[a] = vrow /\ \A v \in VersionId \ {a} : version'[v] = version[v]
  BY <1>1, <1>2 DEF TypeOK
<1>4. deck' \in [DeckId -> Row \cup {None}] /\ version' \in [VersionId -> VersionRow \cup {None}]
  BY <1>1, <1>2 DEF TypeOK
<1>5. Records(d)' = Records(d)
  BY <1>2, <1>3 DEF Records
<1>6. /\ \A v \in Records(d) : /\ version[v].payload.up = deck[d].payload.up
                               /\ version[v].payload.from = deck[d].payload.from
      /\ IsFiniteSet(Records(d)) /\ Cardinality(Records(d)) <= MaxVersions
  BY <1>1, DeckKnown
<1>7. \A v \in Records(d) : /\ version'[v].payload.up = deck[d].payload.up
                            /\ version'[v].payload.from = deck[d].payload.from
  BY <1>3, <1>6 DEF Records
<1>8. row.active \in Records(d) /\ row.payload = version'[row.active].payload
  BY <1>3 DEF Records
<1>9. /\ row.payload.up = deck[d].payload.up /\ row.payload.from = deck[d].payload.from
      /\ SourceSound(d)
  <2>1. row.payload.up = deck[d].payload.up /\ row.payload.from = deck[d].payload.from
    BY <1>7, <1>8
  <2> QED BY <2>1, <1>3 DEF SourceSound
<1>10. /\ Records(d)' # {} => deck'[d] # None
       /\ \A v \in VersionId :
            (version[v] # None /\ version[v].deck # d) \/ (version'[v] # None /\ version'[v].deck # d)
              => version'[v] = version[v]
  BY <1>2, <1>3
<1>13. /\ deck'[d].active \in Records(d)' /\ deck'[d].payload = version'[deck'[d].active].payload
       /\ IsFiniteSet(Records(d)') /\ Cardinality(Records(d)') <= MaxVersions
       /\ \A v \in Records(d)' : /\ version'[v].payload.up = deck'[d].payload.up
                                 /\ version'[v].payload.from = deck'[d].payload.from
  BY <1>3, <1>5, <1>6, <1>7, <1>8, <1>9
<1>11. TableFacts'
  BY <1>1, <1>3, <1>4, <1>9, <1>10, <1>13, DeckWritten
<1>12. \A v \in VersionId : version'[v] # None => v \in spent'
  BY <1>1, <1>2, <1>3 DEF ControlFacts, SpentFacts
<1> QED BY <1>1, <1>3, <1>4, <1>11, <1>12, Written DEF TypeOK

\* Deck d gets a version more, the new active one, which has a source that is
\* the deck's own, none, or not imported yet.
Adds(r, d, row, v, vrow) ==
  /\ Ends(r, d) /\ d \in spent
  /\ row \in Row /\ v \in FreshVersion /\ vrow \in VersionRow
  /\ deck' = [deck EXCEPT ![d] = row] /\ version' = [version EXCEPT ![v] = vrow]
  /\ spent' = spent \cup {v}
  /\ vrow.deck = d /\ row.active = v /\ row.payload = vrow.payload /\ SourceSound(d)
  /\ Cardinality(Records(d)) < MaxVersions
  /\ \A x \in Records(d) : /\ version[x].payload.up = vrow.payload.up
                           /\ version[x].payload.from = vrow.payload.from

LEMMA Added ==
  ASSUME IInv, NEW r \in Req, NEW d \in DeckId, NEW row, NEW v, NEW vrow,
         Adds(r, d, row, v, vrow)
  PROVE  IInv'
<1> USE NoneFacts DEF Adds, Ends
<1>1. TypeOK /\ ControlFacts /\ TableFacts
  BY Parts
<1>2. v \in VersionId /\ version[v] = None /\ v \notin Records(d)
  BY <1>1 DEF ControlFacts, SpentFacts, FreshVersion, Records
<1>3. /\ deck'[d] = row /\ \A x \in DeckId \ {d} : deck'[x] = deck[x]
      /\ version'[v] = vrow /\ \A x \in VersionId \ {v} : version'[x] = version[x]
  BY <1>1, <1>2 DEF TypeOK
<1>4. deck' \in [DeckId -> Row \cup {None}] /\ version' \in [VersionId -> VersionRow \cup {None}]
  BY <1>1, <1>2 DEF TypeOK
<1>5. Records(d)' = Records(d) \cup {v}
  BY <1>2, <1>3 DEF Records
<1>6. IsFiniteSet(Records(d))
  BY <1>1 DEF TableFacts, FiniteRecords
<1>7. /\ IsFiniteSet(Records(d) \cup {v})
      /\ Cardinality(Records(d) \cup {v}) = Cardinality(Records(d)) + 1
  BY <1>2, <1>6, FS_AddElement
<1>8. Cardinality(Records(d)) \in Nat
  BY <1>6, FS_CardinalityType
<1>9. IsFiniteSet(Records(d)') /\ Cardinality(Records(d)') <= MaxVersions
  BY <1>5, <1>7, <1>8, MaxVersionsAssumption
<1>10. \A x \in Records(d) \cup {v} : /\ version'[x].payload.up = vrow.payload.up
                                      /\ version'[x].payload.from = vrow.payload.from
  BY <1>2, <1>3 DEF Records
<1>11. /\ Records(d)' # {} => deck'[d] # None
       /\ \A x \in VersionId :
            (version[x] # None /\ version[x].deck # d) \/ (version'[x] # None /\ version'[x].deck # d)
              => version'[x] = version[x]
  BY <1>2, <1>3
<1>12. /\ deck'[d].active \in Records(d)' /\ deck'[d].payload = version'[deck'[d].active].payload
       /\ \A x \in Records(d)' : /\ version'[x].payload.up = deck'[d].payload.up
                                 /\ version'[x].payload.from = deck'[d].payload.from
  BY <1>3, <1>5, <1>10
<1>13. TableFacts'
  BY <1>1, <1>3, <1>4, <1>9, <1>11, <1>12, DeckWritten
<1>14. \A x \in VersionId : version'[x] # None => x \in spent'
  BY <1>1, <1>2, <1>3 DEF ControlFacts, SpentFacts
<1> QED BY <1>1, <1>2, <1>3, <1>4, <1>13, <1>14, Written DEF TypeOK

\* Deck d loses its version v; another one is active then.
Removes(r, d, row, v) ==
  /\ Ends(r, d) /\ UNCHANGED spent /\ deck[d] # None
  /\ row \in Row /\ v \in Records(d)
  /\ deck' = [deck EXCEPT ![d] = row] /\ version' = [version EXCEPT ![v] = None]
  /\ row.active \in Records(d) \ {v} /\ row.payload = version[row.active].payload

LEMMA Removed ==
  ASSUME IInv, NEW r \in Req, NEW d \in DeckId, NEW row, NEW v, Removes(r, d, row, v)
  PROVE  IInv'
<1> USE NoneFacts DEF Removes, Ends
<1>1. TypeOK /\ ControlFacts /\ TableFacts
  BY Parts
<1>2. v \in VersionId /\ version[v] # None /\ version[v].deck = d
  BY DEF Records
<1>3. /\ deck'[d] = row /\ \A x \in DeckId \ {d} : deck'[x] = deck[x]
      /\ version'[v] = None /\ \A x \in VersionId \ {v} : version'[x] = version[x]
  BY <1>1, <1>2 DEF TypeOK
<1>4. deck' \in [DeckId -> Row \cup {None}] /\ version' \in [VersionId -> VersionRow \cup {None}]
  BY <1>1, <1>2 DEF TypeOK
<1>5. Records(d)' = Records(d) \ {v}
  BY <1>2, <1>3 DEF Records
<1>6. /\ IsFiniteSet(Records(d)) /\ Cardinality(Records(d)) <= MaxVersions
      /\ \A x \in Records(d) : /\ version[x].payload.up = deck[d].payload.up
                               /\ version[x].payload.from = deck[d].payload.from
  BY <1>1, DeckKnown
<1>7. /\ IsFiniteSet(Records(d) \ {v})
      /\ Cardinality(Records(d) \ {v}) = Cardinality(Records(d)) - 1
  BY <1>6, FS_RemoveElement
<1>8. Cardinality(Records(d)) \in Nat
  BY <1>6, FS_CardinalityType
<1>9. IsFiniteSet(Records(d)') /\ Cardinality(Records(d)') <= MaxVersions
  BY <1>5, <1>6, <1>7, <1>8, MaxVersionsAssumption
<1>10. /\ deck'[d].active \in Records(d)' /\ deck'[d].payload = version'[deck'[d].active].payload
       /\ \A x \in Records(d)' : version'[x] = version[x] /\ x \in Records(d)
  BY <1>3, <1>5 DEF Records
<1>11. /\ deck'[d].payload.up = deck[d].payload.up /\ deck'[d].payload.from = deck[d].payload.from
       /\ \A x \in Records(d)' : /\ version'[x].payload.up = deck'[d].payload.up
                                 /\ version'[x].payload.from = deck'[d].payload.from
  BY <1>3, <1>6, <1>10
<1>12. SourceSound(d)
  BY <1>11 DEF SourceSound
<1>13. /\ Records(d)' # {} => deck'[d] # None
       /\ \A x \in VersionId :
            (version[x] # None /\ version[x].deck # d) \/ (version'[x] # None /\ version'[x].deck # d)
              => version'[x] = version[x]
  BY <1>2, <1>3
<1>14. TableFacts'
  BY <1>1, <1>3, <1>4, <1>9, <1>10, <1>11, <1>12, <1>13, DeckWritten
<1>15. \A x \in VersionId : version'[x] # None => x \in spent'
  BY <1>1, <1>2, <1>3 DEF ControlFacts, SpentFacts
<1> QED BY <1>1, <1>3, <1>4, <1>14, <1>15, Written DEF TypeOK

---------------------------------------------------------------------------
(* The writes, one lemma each. *)

LEMMA SharingStep == ASSUME IInv, NEW r \in Req, set_sharing(r) PROVE IInv'
<1>1. PICK d \in DeckId : /\ TypeOK /\ TableFacts /\ d = req[r].deck /\ lock = r
                          /\ deck[d] # None
  <2>1. Writes(r, "share") \/ Writes(r, "unshare")
    BY DEF set_sharing
  <2> QED BY <2>1, WriterKnows DEF Op
<1>2. Release(r) /\ UNCHANGED <<version, private, account, spent>>
  BY <1>1 DEF set_sharing
<1>3. PICK b \in BOOLEAN : deck' = [deck EXCEPT ![d].shared = b]
  BY <1>1 DEF set_sharing
<1> DEFINE row == [deck[d] EXCEPT !.shared = b]
           a   == deck[d].active
<1>4. row \in Row /\ row.active = a /\ row.payload = deck[d].payload
  BY <1>1, DeckKnown DEF Row
<1>5. deck' = [deck EXCEPT ![d] = row]
  BY <1>1, <1>3 DEF TypeOK
<1> HIDE DEF row
<1>6. /\ a \in Records(d) /\ version[a] \in VersionRow /\ version[a].deck = d
      /\ version[a].payload.up = deck[d].payload.up
      /\ version[a].payload.from = deck[d].payload.from
      /\ deck[d].payload = version[a].payload
  BY <1>1, DeckKnown
<1>7. version' = [version EXCEPT ![a] = version[a]]
  BY <1>1, <1>2, <1>6 DEF TypeOK, Records
<1>8. Replaces(r, d, row, a, version[a])
  BY <1>1, <1>2, <1>4, <1>5, <1>6, <1>7 DEF Replaces, Ends
<1> QED BY <1>8, Replaced

LEMMA UpsertStep == ASSUME IInv, NEW r \in Req, upsert(r) PROVE IInv'
<1> USE NoneFacts
<1>1. PICK d \in DeckId :
        /\ TypeOK /\ TableFacts /\ d = req[r].deck /\ lock = r /\ req[r].seen = deck[d]
        /\ d \in spent /\ req[r].op \in {"put", "import"}
        /\ req[r].op = "import" => /\ req[r].source \in Source /\ deck[d] = None
                                   /\ Imported(req[r].source) = {}
  <2>1. Writes(r, "put") \/ Writes(r, "import")
    BY DEF upsert
  <2> QED BY <2>1, WriterKnows DEF Op
<1>2. PICK incoming \in Incoming(r) :
        LET next == persist(incoming, deck[d], req[r].op = "import")
        IN /\ \/ /\ deck[d] # None
                 /\ deck' = [deck EXCEPT ![d].payload = next, ![d].active = deck[d].active]
                 /\ version' = Stored(deck[d].active, next)
                 /\ UNCHANGED spent
              \/ /\ deck[d] = None
                 /\ \E v \in FreshVersion :
                      /\ deck' = [deck EXCEPT ![d] =
                           [payload |-> next, active |-> v, shared |-> FALSE]]
                      /\ version' = [version EXCEPT ![v] = [deck |-> d, payload |-> next]]
                      /\ spent' = spent \cup {v}
           /\ Release(r) /\ UNCHANGED <<private, account>>
  BY <1>1 DEF upsert
<1> DEFINE next == persist(incoming, deck[d], req[r].op = "import")
<1>3. incoming \in Payload /\ deck[d] \in Row \cup {None}
      /\ (req[r].op = "import" => incoming.up = req[r].source /\ incoming.from = req[r].source)
  BY <1>1 DEF Incoming, TypeOK
<1>4. /\ next \in Payload
      /\ deck[d] # None => next.up = deck[d].payload.up /\ next.from = deck[d].payload.from
      /\ deck[d] = None => \/ next.up = None /\ next.from = None
                           \/ \E s \in Source : next.up = s /\ next.from = s /\ Imported(s) = {}
  <2>1. CASE req[r].op = "import"
    BY <2>1, <1>1, <1>3 DEF persist, Kept, Payload
  <2>2. CASE req[r].op # "import"
    BY <2>2, <1>1, <1>3 DEF persist, Kept, Payload, Row
  <2> QED BY <2>1, <2>2
<1>5. /\ Release(r) /\ UNCHANGED <<private, account>>
      /\ \/ /\ deck[d] # None
            /\ deck' = [deck EXCEPT ![d].payload = next, ![d].active = deck[d].active]
            /\ version' = [version EXCEPT ![deck[d].active].payload = next]
            /\ UNCHANGED spent
         \/ /\ deck[d] = None
            /\ \E v \in FreshVersion :
                 /\ deck' = [deck EXCEPT ![d] =
                      [payload |-> next, active |-> v, shared |-> FALSE]]
                 /\ version' = [version EXCEPT ![v] = [deck |-> d, payload |-> next]]
                 /\ spent' = spent \cup {v}
  BY <1>2 DEF Stored
<1> HIDE DEF next
<1>6. CASE deck[d] # None
  <2> DEFINE a    == deck[d].active
             row  == [deck[d] EXCEPT !.payload = next]
             vrow == [version[a] EXCEPT !.payload = next]
  <2>1. /\ deck[d] \in Row /\ a \in Records(d) /\ a \in VersionId
        /\ version[a] \in VersionRow /\ version[a].deck = d
    BY <1>1, <1>6, DeckKnown
  <2>2. /\ row \in Row /\ row.active = a /\ row.payload = next
        /\ vrow \in VersionRow /\ vrow.deck = d /\ vrow.payload = next
    BY <1>4, <2>1 DEF Row, VersionRow
  <2>3. deck' = [deck EXCEPT ![d] = row] /\ version' = [version EXCEPT ![a] = vrow]
    BY <1>1, <1>5, <1>6, <2>1 DEF TypeOK, Row
  <2> HIDE DEF row, vrow
  <2>4. Replaces(r, d, row, a, vrow)
    BY <1>1, <1>4, <1>5, <1>6, <2>1, <2>2, <2>3 DEF Replaces, Ends
  <2> QED BY <2>4, Replaced
<1>7. CASE deck[d] = None
  <2>1. PICK v \in FreshVersion :
          /\ deck' = [deck EXCEPT ![d] = [payload |-> next, active |-> v, shared |-> FALSE]]
          /\ version' = [version EXCEPT ![v] = [deck |-> d, payload |-> next]]
          /\ spent' = spent \cup {v}
    BY <1>5, <1>7
  <2> DEFINE row  == [payload |-> next, active |-> v, shared |-> FALSE]
             vrow == [deck |-> d, payload |-> next]
  <2>2. /\ row \in Row /\ row.active = v /\ row.payload = next
        /\ vrow \in VersionRow /\ vrow.deck = d /\ vrow.payload = next
    BY <1>4 DEF Row, VersionRow, FreshVersion
  <2>3. deck' = [deck EXCEPT ![d] = row] /\ version' = [version EXCEPT ![v] = vrow]
    BY <2>1
  <2> HIDE DEF row, vrow
  <2>4. deck'[d].payload = next
    BY <1>1, <2>2, <2>3 DEF TypeOK
  <2>5. SourceSound(d)
    BY <1>4, <1>7, <2>4 DEF SourceSound
  <2>6. Records(d) = {} /\ Cardinality(Records(d)) < MaxVersions
    BY <1>1, <1>7, DeckUnknown, FS_EmptySet, MaxVersionsAssumption
  <2>7. Adds(r, d, row, v, vrow)
    BY <1>1, <1>5, <2>1, <2>2, <2>3, <2>5, <2>6 DEF Adds, Ends
  <2> QED BY <2>7, Added
<1> QED BY <1>6, <1>7

LEMMA CreateStep == ASSUME IInv, NEW r \in Req, CreateVersion(r) PROVE IInv'
<1> USE NoneFacts
<1>1. PICK d \in DeckId :
        /\ TypeOK /\ TableFacts /\ d = req[r].deck /\ lock = r /\ deck[d] # None
        /\ req[r].seen = deck[d] /\ req[r].records = Records(d) /\ d \in spent
  BY WriterKnows DEF CreateVersion, Op
<1>2. PICK v \in FreshVersion, from \in req[r].records :
        LET copy == merge(req[r].seen.payload, version[from].payload)
        IN /\ deck' = [deck EXCEPT ![req[r].deck].payload = copy, ![req[r].deck].active = v]
           /\ version' = [version EXCEPT ![v] = [deck |-> req[r].deck, payload |-> copy]]
           /\ spent' = spent \cup {v}
  BY ZenonT(60) DEF CreateVersion
<1>3. /\ Release(r) /\ UNCHANGED <<private, account>>
      /\ Cardinality(Records(d)) < MaxVersions
  BY <1>1 DEF CreateVersion, MayCreate
<1> DEFINE copy == version[from].payload
<1>4. /\ copy \in Payload /\ deck[d].payload \in Payload /\ deck[d] \in Row
      /\ copy.up = deck[d].payload.up /\ copy.from = deck[d].payload.from
  BY <1>1, DeckKnown
<1>5. merge(deck[d].payload, copy) = copy
  BY <1>4, MergeFacts
<1>6. /\ deck' = [deck EXCEPT ![d].payload = copy, ![d].active = v]
      /\ version' = [version EXCEPT ![v] = [deck |-> d, payload |-> copy]]
      /\ spent' = spent \cup {v}
  BY <1>1, <1>2, <1>5
<1> HIDE DEF copy
<1> DEFINE row  == [deck[d] EXCEPT !.payload = copy, !.active = v]
           vrow == [deck |-> d, payload |-> copy]
<1>7. /\ row \in Row /\ row.active = v /\ row.payload = copy
      /\ vrow \in VersionRow /\ vrow.deck = d /\ vrow.payload = copy
  BY <1>4 DEF Row, VersionRow, FreshVersion
<1>8. deck' = [deck EXCEPT ![d] = row] /\ version' = [version EXCEPT ![v] = vrow]
  BY <1>1, <1>4, <1>6 DEF TypeOK, Row
<1> HIDE DEF row, vrow
<1>9. deck'[d].payload = copy
  BY <1>1, <1>7, <1>8 DEF TypeOK
<1>10. SourceSound(d)
  BY <1>1, <1>4, <1>9 DEF SourceSound
<1>11. \A x \in Records(d) : /\ version[x].payload.up = copy.up
                             /\ version[x].payload.from = copy.from
  BY <1>1, <1>4, DeckKnown
<1>12. Adds(r, d, row, v, vrow)
  BY <1>1, <1>3, <1>6, <1>7, <1>8, <1>10, <1>11 DEF Adds, Ends
<1> QED BY <1>12, Added

LEMMA ActivateStep == ASSUME IInv, NEW r \in Req, ActivateVersion(r) PROVE IInv'
<1> USE NoneFacts
<1>1. PICK d \in DeckId :
        /\ TypeOK /\ TableFacts /\ d = req[r].deck /\ lock = r /\ deck[d] # None
        /\ req[r].seen = deck[d] /\ req[r].records = Records(d)
  BY WriterKnows DEF ActivateVersion, Op
<1>2. PICK v \in Records(d) :
        /\ v = req[r].version /\ Release(r) /\ UNCHANGED <<version, private, account, spent>>
        /\ deck' = [deck EXCEPT ![d].payload = merge(deck[d].payload, version[v].payload),
                                ![d].active = v]
  BY <1>1 DEF ActivateVersion
<1> DEFINE copy == version[v].payload
<1>3. /\ copy \in Payload /\ deck[d].payload \in Payload /\ deck[d] \in Row
      /\ copy.up = deck[d].payload.up /\ copy.from = deck[d].payload.from
      /\ version[v] \in VersionRow /\ version[v].deck = d /\ v \in VersionId
  BY <1>1, <1>2, DeckKnown
<1>4. merge(deck[d].payload, copy) = copy
  BY <1>3, MergeFacts
<1>5. deck' = [deck EXCEPT ![d].payload = copy, ![d].active = v]
  BY <1>2, <1>4
<1> DEFINE row == [deck[d] EXCEPT !.payload = copy, !.active = v]
<1>6. row \in Row /\ row.active = v /\ row.payload = copy
  BY <1>3 DEF Row
<1>7. deck' = [deck EXCEPT ![d] = row] /\ version' = [version EXCEPT ![v] = version[v]]
  BY <1>1, <1>2, <1>3, <1>5 DEF TypeOK, Row
<1> HIDE DEF row
<1>8. Replaces(r, d, row, v, version[v])
  BY <1>1, <1>2, <1>3, <1>6, <1>7 DEF Replaces, Ends
<1> QED BY <1>8, Replaced

LEMMA DeleteVersionStep == ASSUME IInv, NEW r \in Req, DeleteVersion(r) PROVE IInv'
<1> USE NoneFacts
<1>1. PICK d \in DeckId :
        /\ TypeOK /\ TableFacts /\ d = req[r].deck /\ lock = r /\ deck[d] # None
        /\ req[r].seen = deck[d] /\ req[r].records = Records(d)
  BY WriterKnows DEF DeleteVersion, Op
<1>2. PICK v \in Records(d) :
        /\ v = req[r].version /\ Release(r) /\ UNCHANGED <<private, account, spent>>
        /\ version' = [version EXCEPT ![v] = None]
        /\ IF deck[d].active = v
           THEN \E next \in Records(d) \ {v} :
                  deck' = [deck EXCEPT ![d].payload = merge(deck[d].payload, version[next].payload),
                                       ![d].active = next]
           ELSE UNCHANGED deck
  BY <1>1 DEF DeleteVersion, MovesTo
<1>3. deck[d] \in Row /\ deck[d].payload \in Payload
      /\ deck[d].active \in Records(d) /\ deck[d].payload = version[deck[d].active].payload
  BY <1>1, DeckKnown
<1>4. CASE deck[d].active = v
  <2>1. PICK next \in Records(d) \ {v} :
          deck' = [deck EXCEPT ![d].payload = merge(deck[d].payload, version[next].payload),
                               ![d].active = next]
    BY <1>2, <1>4
  <2> DEFINE copy == version[next].payload
  <2>2. /\ copy \in Payload /\ next \in VersionId
        /\ copy.up = deck[d].payload.up /\ copy.from = deck[d].payload.from
    BY <1>1, <2>1, DeckKnown
  <2>3. merge(deck[d].payload, copy) = copy
    BY <1>3, <2>2, MergeFacts
  <2>4. deck' = [deck EXCEPT ![d].payload = copy, ![d].active = next]
    BY <2>1, <2>3
  <2> DEFINE row == [deck[d] EXCEPT !.payload = copy, !.active = next]
  <2>5. row \in Row /\ row.active = next /\ row.payload = copy
    BY <1>3, <2>2 DEF Row
  <2>6. deck' = [deck EXCEPT ![d] = row]
    BY <1>1, <1>3, <2>4 DEF TypeOK, Row
  <2> HIDE DEF row
  <2>7. Removes(r, d, row, v)
    BY <1>1, <1>2, <2>1, <2>5, <2>6 DEF Removes, Ends
  <2> QED BY <2>7, Removed
<1>5. CASE deck[d].active # v
  <2>1. deck' = [deck EXCEPT ![d] = deck[d]]
    BY <1>1, <1>2, <1>5 DEF TypeOK
  <2>2. Removes(r, d, deck[d], v)
    BY <1>1, <1>2, <1>3, <1>5, <2>1 DEF Removes, Ends
  <2> QED BY <2>2, Removed
<1> QED BY <1>4, <1>5

LEMMA SaveStep == ASSUME IInv, NEW r \in Req, SaveVersion(r) PROVE IInv'
<1> USE NoneFacts
<1>1. PICK d \in DeckId :
        /\ TypeOK /\ TableFacts /\ d = req[r].deck /\ lock = r /\ deck[d] # None
        /\ req[r].seen = deck[d] /\ req[r].records = Records(d)
  BY WriterKnows DEF SaveVersion, Op
<1>2. PICK incoming \in Incoming(r) :
        LET v    == req[r].version
            next == persist(incoming, deck[d], FALSE)
        IN /\ v \in Records(d)
           /\ version' = [version EXCEPT ![v].payload = next]
           /\ deck' = IF deck[d].active = v THEN [deck EXCEPT ![d].payload = next] ELSE deck
           /\ Release(r) /\ UNCHANGED <<private, account, spent>>
  BY <1>1 DEF SaveVersion, Stored
<1> DEFINE next == persist(incoming, deck[d], FALSE)
<1>3. PICK v \in Records(d) :
        /\ version' = [version EXCEPT ![v].payload = next]
        /\ deck' = IF deck[d].active = v THEN [deck EXCEPT ![d].payload = next] ELSE deck
        /\ Release(r) /\ UNCHANGED <<private, account, spent>>
  BY <1>2
<1>4. /\ deck[d] \in Row /\ v \in VersionId /\ version[v] \in VersionRow /\ version[v].deck = d
      /\ deck[d].active \in Records(d) /\ deck[d].payload = version[deck[d].active].payload
  BY <1>1, DeckKnown
<1>5. /\ next \in Payload
      /\ next.up = deck[d].payload.up /\ next.from = deck[d].payload.from
  <2>1. incoming \in Payload
    BY DEF Incoming
  <2> QED BY <2>1, <1>4, PersistFacts
<1> HIDE DEF next
<1> DEFINE row  == [deck[d] EXCEPT !.payload = IF deck[d].active = v THEN next ELSE @]
           vrow == [version[v] EXCEPT !.payload = next]
<1>6. /\ vrow \in VersionRow /\ vrow.deck = d /\ vrow.payload = next
  BY <1>4, <1>5 DEF VersionRow
<1>7. /\ row \in Row /\ row.active = deck[d].active
      /\ row.payload = IF deck[d].active = v THEN next ELSE deck[d].payload
  BY <1>4, <1>5 DEF Row
<1>8. version' = [version EXCEPT ![v] = vrow]
  BY <1>1, <1>3, <1>4 DEF TypeOK
<1>9. deck' = [deck EXCEPT ![d] = row]
  <2>1. CASE deck[d].active = v
    BY <2>1, <1>1, <1>3, <1>4 DEF TypeOK, Row
  <2>2. CASE deck[d].active # v
    BY <2>2, <1>1, <1>3, <1>4 DEF TypeOK, Row
  <2> QED BY <2>1, <2>2
<1> HIDE DEF row, vrow
<1>10. Replaces(r, d, row, v, vrow)
  BY <1>1, <1>3, <1>4, <1>5, <1>6, <1>7, <1>8, <1>9 DEF Replaces, Ends
<1> QED BY <1>10, Replaced

LEMMA DeleteDeckStep == ASSUME IInv, NEW r \in Req, DeleteDeck(r) PROVE IInv'
<1> USE NoneFacts
<1>1. PICK d \in DeckId : /\ TypeOK /\ ControlFacts /\ TableFacts
                          /\ d = req[r].deck /\ lock = r
  BY WriterKnows DEF DeleteDeck, Op
<1>2. /\ Release(r) /\ UNCHANGED <<private, account, spent>>
      /\ deck' = [deck EXCEPT ![d] = None]
      /\ version' = [v \in VersionId |-> IF v \in Records(d) THEN None ELSE version[v]]
  BY <1>1 DEF DeleteDeck, Cascade
<1>3. /\ deck'[d] = None /\ \A x \in DeckId \ {d} : deck'[x] = deck[x]
      /\ \A v \in VersionId : version'[v] = IF v \in Records(d) THEN None ELSE version[v]
      /\ deck' \in [DeckId -> Row \cup {None}] /\ version' \in [VersionId -> VersionRow \cup {None}]
  BY <1>1, <1>2 DEF TypeOK
<1>4. Records(d)' = {}
  BY <1>3 DEF Records
<1>5. IsFiniteSet(Records(d)') /\ Cardinality(Records(d)') <= MaxVersions
  BY <1>4, FS_EmptySet, MaxVersionsAssumption
<1>6. \A v \in VersionId :
        (version[v] # None /\ version[v].deck # d) \/ (version'[v] # None /\ version'[v].deck # d)
          => version'[v] = version[v]
  BY <1>3 DEF Records
<1>7. TableFacts'
  BY <1>1, <1>3, <1>4, <1>5, <1>6, DeckWritten
<1>8. \A v \in VersionId : version'[v] # None => v \in spent'
  BY <1>1, <1>2, <1>3 DEF ControlFacts, SpentFacts
<1> QED BY <1>1, <1>2, <1>3, <1>7, <1>8, Written DEF TypeOK

LEMMA RenameStep == ASSUME IInv, NEW r \in Req, RenameVersion(r) PROVE IInv'
<1>1. lock = r
  BY WriterKnows DEF RenameVersion, Op
<1> QED BY <1>1, EndStep DEF RenameVersion, Release

LEMMA AbandonStep == ASSUME IInv, NEW r \in Req, Abandon(r) PROVE IInv'
BY EndStep DEF Abandon

---------------------------------------------------------------------------
(* The theorems. *)

\* Every step keeps the invariant.
LEMMA Step == IInv /\ [Next]_vars => IInv'
<1> SUFFICES ASSUME IInv, [Next]_vars PROVE IInv'
  OBVIOUS
<1>1. ASSUME NEW r \in Req, Handler(r) PROVE IInv'
  BY <1>1, CheckStep, CheckImportStep, MarkPrivateStep, LockStep, UpsertStep, SharingStep,
     CreateStep, RenameStep, ActivateStep, DeleteVersionStep, SaveStep, DeleteDeckStep
     DEF Handler
<1>2. ASSUME NEW r \in Req, Abandon(r) PROVE IInv'
  BY <1>2, AbandonStep
<1>3. ASSUME NEW r \in Req, NEW op \in Op, NEW d \in DeckId \cup {None},
             NEW v \in (VersionId \cap spent) \cup {None}, NEW s \in Source \cup {None},
             Begin(r, op, d, v, s)
      PROVE  IInv'
  BY <1>3, BeginStep
<1>4. CASE CloseAccount
  BY <1>4, CloseStep
<1>5. CASE UNCHANGED vars
  BY <1>5 DEF vars, tables, IInv, TypeOK, LockFacts, SnapshotFacts, HolderKnows, LocalFacts,
     ImportFacts, SpentFacts, FiniteRecords, Records, Imported, ShowsActiveVersion,
     NoStrayVersion, WithinLimit, ImportedOnce, OneSource
<1> QED BY <1>1, <1>2, <1>3, <1>4, <1>5 DEF Next

\* The inductive invariant of the deck service holds for any number of
\* overlapping requests.
THEOREM DecksInvariant == Spec => []IInv
BY InitIInv, Step, PTL DEF Spec

\* Rows, ids and locals have their types (all handlers of decks/service.rs).
THEOREM DecksTypeCorrect == Spec => []TypeOK
<1>1. IInv => TypeOK
  BY DEF IInv
<1> QED BY <1>1, DecksInvariant, PTL

\* The versions of a deck stay in step with it (upsert, version, delete).
THEOREM VersionsSound == Spec => []SoundVersions
<1>1. IInv => SoundVersions
  BY DEF IInv, SoundVersions
<1> QED BY <1>1, DecksInvariant, PTL

\* Decks keep what is known of their source (import, upsert, merge).
THEOREM SourcesSound == Spec => []SoundSources
<1>1. IInv => SoundSources
  BY DEF IInv, SoundSources
<1> QED BY <1>1, DecksInvariant, PTL

\* A deck always shows the list of its active version (upsert, version).
THEOREM ActiveVersionShown == Spec => []ShowsActiveVersion
<1>1. IInv => ShowsActiveVersion
  BY DEF IInv
<1> QED BY <1>1, DecksInvariant, PTL

\* No version outlives its deck (delete and the cascade of user_deck_versions).
THEOREM NoVersionStrays == Spec => []NoStrayVersion
<1>1. IInv => NoStrayVersion
  BY DEF IInv
<1> QED BY <1>1, DecksInvariant, PTL

\* No deck gets more versions than the limit (version, "create").
THEOREM LimitKept == Spec => []WithinLimit
<1>1. IInv => WithinLimit
  BY DEF IInv
<1> QED BY <1>1, DecksInvariant, PTL

\* A community deck is imported at most once (import, upsert).
THEOREM ImportsOnce == Spec => []ImportedOnce
<1>1. IInv => ImportedOnce
  BY DEF IInv
<1> QED BY <1>1, DecksInvariant, PTL

\* The versions of a deck agree on its source (persist, merge).
THEOREM SourceAgreed == Spec => []OneSource
<1>1. IInv => OneSource
  BY DEF IInv
<1> QED BY <1>1, DecksInvariant, PTL
---------------------------------------------------------------------------
(* What a step may never do. *)

\* What ListsOverwrittenOnlyBySaves says of one step.
OverwrittenBySave ==
  \A v \in VersionId :
    (version[v] # None /\ version'[v] # None /\ version'[v] # version[v]) =>
      \E r \in Req : /\ req[r].pc = "write"
                     /\ \/ req[r].op = "save" /\ req[r].version = v
                        \/ req[r].op = "put" /\ deck[req[r].deck].active = v

\* The requests that write a list.
LEMMA VersionChanges ==
  ASSUME [Next]_vars, version' # version
  PROVE  \/ \E r \in Req : upsert(r) \/ CreateVersion(r) \/ DeleteVersion(r)
                             \/ SaveVersion(r) \/ DeleteDeck(r)
         \/ CloseAccount
<1>1. ASSUME NEW r \in Req, Handler(r)
      PROVE  upsert(r) \/ CreateVersion(r) \/ DeleteVersion(r) \/ SaveVersion(r) \/ DeleteDeck(r)
  BY <1>1 DEF Handler, Check, CheckImport, MarkPrivate, Lock, set_sharing, RenameVersion,
              ActivateVersion, tables
<1> QED
  BY <1>1 DEF Next, Begin, Abandon, vars, tables

\* A version that is drawn is none that exists.
LEMMA FreshIsNew ==
  ASSUME IInv, NEW v \in FreshVersion, NEW p, version' = [version EXCEPT ![v] = p]
  PROVE  OverwrittenBySave
<1>1. \A x \in VersionId : version[x] # None => version'[x] = version[x]
  BY DEF IInv, SpentFacts, FreshVersion, TypeOK
<1> QED
  BY <1>1 DEF OverwrittenBySave

\* An update of one list, by a request that carries it.
LEMMA OneList ==
  ASSUME IInv, NEW r \in Req, req[r].pc = "write", NEW v, NEW p, version' = Stored(v, p),
         \/ req[r].op = "save" /\ req[r].version = v
         \/ req[r].op = "put" /\ deck[req[r].deck].active = v
  PROVE  OverwrittenBySave
<1>1. \A x \in VersionId \ {v} : version'[x] = version[x]
  BY DEF IInv, TypeOK, Stored
<1> QED
  BY <1>1 DEF OverwrittenBySave

LEMMA UpsertOverwrites ==
  ASSUME IInv, NEW r \in Req, upsert(r)
  PROVE  OverwrittenBySave
<1>1. PICK incoming \in Incoming(r) :
        LET row  == req[r].seen
            next == persist(incoming, row, req[r].op = "import")
        IN \/ row # None /\ version' = Stored(row.active, next)
           \/ row = None /\ \E v \in FreshVersion :
                version' = [version EXCEPT ![v] = [deck |-> req[r].deck, payload |-> next]]
  BY DEF upsert
<1>2. /\ req[r].pc = "write" /\ req[r].op \in {"put", "import"} /\ account
      /\ req[r].seen = deck[req[r].deck]
  BY DEF upsert, Writes, IInv, SnapshotFacts, HolderKnows
<1>3. CASE req[r].seen = None
  BY <1>1, <1>3, FreshIsNew
<1>4. CASE req[r].seen # None
  <2>1. req[r].op = "put"
    <3>1. req[r].op = "import" => Writes(r, "import")
      BY <1>2 DEF Writes
    <3> QED
      BY <1>2, <1>4, <3>1, WriterKnows DEF Op
  <2> QED
    BY <1>1, <1>2, <1>4, <2>1, OneList
<1> QED
  BY <1>3, <1>4

LEMMA SaveOverwrites ==
  ASSUME IInv, [Next]_vars
  PROVE  OverwrittenBySave
<1>1. CASE version' = version
  BY <1>1 DEF OverwrittenBySave
<1>2. ASSUME NEW r \in Req, CreateVersion(r) PROVE OverwrittenBySave
  <2>1. PICK v \in FreshVersion : \E p : version' = [version EXCEPT ![v] = p]
    BY <1>2 DEF CreateVersion
  <2> QED
    BY <2>1, FreshIsNew
<1>3. ASSUME NEW r \in Req, SaveVersion(r) PROVE OverwrittenBySave
  <2>1. PICK p : version' = Stored(req[r].version, p)
    BY <1>3 DEF SaveVersion
  <2> QED
    BY <1>3, <2>1, OneList DEF SaveVersion, Writes
<1>4. ASSUME NEW r \in Req, DeleteVersion(r) \/ DeleteDeck(r) PROVE OverwrittenBySave
  <2>1. \A v \in VersionId : version'[v] \in {version[v], None}
    BY <1>4 DEF DeleteVersion, DeleteDeck, Cascade, IInv, TypeOK
  <2> QED
    BY <2>1 DEF OverwrittenBySave
<1>5. CASE CloseAccount
  BY <1>5 DEF CloseAccount, OverwrittenBySave
<1> QED
  BY <1>1, <1>2, <1>3, <1>4, <1>5, UpsertOverwrites, VersionChanges

\* A list is only overwritten by a request that carries a new one for that very
\* version (upsert, version): creating, switching and deleting spare the others.
THEOREM OnlySavesOverwrite == Spec => ListsOverwrittenOnlyBySaves
<1>1. IInv /\ [Next]_vars => [OverwrittenBySave]_vars
  BY SaveOverwrites
<1>2. Spec => [][OverwrittenBySave]_vars
  BY <1>1, DecksInvariant, PTL DEF Spec
<1> QED
  BY <1>2 DEF ListsOverwrittenOnlyBySaves, OverwrittenBySave
=============================================================================

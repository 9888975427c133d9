-------------------------------- MODULE Decks --------------------------------
(***************************************************************************)
(* The decks of one account: owned decks, their versions and imports of    *)
(* community decks (decks/service.rs).                                     *)
(*                                                                         *)
(* A request first looks at the tables without a lock, then takes the      *)
(* account's advisory lock, reads the deck and its versions in one         *)
(* statement each, and writes in a transaction that commits at once.  The  *)
(* locals of a request are what it read; only the lock keeps them true.    *)
(*                                                                         *)
(* A payload is its card lists and where it came from: upstreamId (up) and *)
(* importedFromId (from).  Names, descriptions and timestamps are left     *)
(* out; the order of versions by updated_at is arbitrary, because nothing  *)
(* keeps two writes of a deck in different milliseconds.                   *)
(***************************************************************************)
EXTENDS Naturals, FiniteSets

CONSTANTS
  Req,          \* requests of the account that may overlap (bound)
  DeckId,       \* deck ids, of clients and of the server (bound)
  VersionId,    \* version ids the server draws (bound)
  Source,       \* community decks; a legacy deck may have such an id
  Cards,        \* card lists
  MaxVersions,  \* 25 in the code
  Uses,         \* operations exercised by the run
  None

ASSUME MaxVersionsAssumption == MaxVersions \in Nat \ {0}
ASSUME IdAssumption == (DeckId \cup Source) \cap VersionId = {}

VARIABLES
  deck,      \* user_decks: DeckId -> row or None
  version,   \* user_deck_versions: VersionId -> row or None
  private,   \* private_upstream_decks
  account,   \* the user exists
  spent,     \* ids drawn or sent so far: uuids are not drawn twice
  lock,      \* holder of the account's advisory lock, or None
  req        \* the requests' control state and locals

tables == <<deck, version, private, account>>
vars   == <<deck, version, private, account, spent, lock, req>>

Payload    == [cards : Cards, up : Source \cup {None}, from : Source \cup {None}]
Row        == [payload : Payload, active : VersionId, shared : BOOLEAN]
VersionRow == [deck : DeckId, payload : Payload]
Op == {"put", "import", "share", "unshare", "delete",
       "create", "rename", "activate", "remove", "save"}
VersionOp == {"create", "rename", "activate", "remove", "save"}

ASSUME NoneAssumption ==
  None \notin DeckId \cup VersionId \cup Source \cup Req \cup Cards \cup Op
               \cup Row \cup VersionRow

Idle == [pc |-> "idle", op |-> None, deck |-> None, version |-> None, source |-> None,
         seen |-> None, records |-> {}]

---------------------------------------------------------------------------
(* Helpers of the handlers. *)

\* The versions of a deck.
Records(d) == {v \in VersionId : version[v] # None /\ version[v].deck = d}

\* Rows that an import of community deck s finds instead of importing it again.
Imported(s) ==
  {d \in DeckId : deck[d] # None /\
     (deck[d].payload.from = s \/ deck[d].payload.up = s \/ d = s)}

\* persist: where a deck came from is kept from the stored payload; only the
\* server's own import brings it in.
Kept(stored, incoming, trusted) ==
  IF stored # None THEN stored ELSE IF trusted THEN incoming ELSE None
persist(incoming, row, trusted) ==
  [incoming EXCEPT
     !.up   = Kept(IF row = None THEN None ELSE row.payload.up, @, trusted),
     !.from = Kept(IF row = None THEN None ELSE row.payload.from, @, trusted)]

\* merge: the list of a version in the family's name.
merge(family, copy) ==
  [copy EXCEPT !.up   = IF family.up # None THEN family.up ELSE @,
               !.from = IF family.from # None THEN family.from ELSE @]

\* get_stored answers: nothing for private decks or while upstream is down.
Community(s, up) == s \in Source /\ s \notin private /\ up

---------------------------------------------------------------------------
(* Initial states: an account without decks, or with a deck from the time  *)
(* when decks were mirrored upstream; migration 0016 made those private.   *)

Empty == deck = [d \in DeckId |-> None] /\ version = [v \in VersionId |-> None]
           /\ private = {} /\ spent = {}

Legacy ==
  \E d \in DeckId, v \in VersionId, s \in Source, c \in Cards :
    LET p == [cards |-> c, up |-> s, from |-> None]
    IN /\ deck = [x \in DeckId |->
            IF x = d THEN [payload |-> p, active |-> v, shared |-> FALSE] ELSE None]
       /\ version = [x \in VersionId |-> IF x = v THEN [deck |-> d, payload |-> p] ELSE None]
       /\ private = {s}
       /\ spent = {d, v}

Init ==
  /\ Empty \/ Legacy
  /\ account = TRUE
  /\ lock = None
  /\ req = [r \in Req |-> Idle]

---------------------------------------------------------------------------
(* A request up to its lock. *)

\* A client names decks it knows or made up an id for, never one that the server
\* has drawn for an import that is still under way, and versions it has seen.
Begin(r, op, d, v, s) ==
  /\ account /\ req[r].pc = "idle" /\ op \in Uses
  /\ v # None <=> op \in VersionOp \ {"create"}
  /\ d # None <=> op # "import"
  /\ s # None <=> op = "import"
  /\ \A q \in Req : req[q].op = "import" => d = None \/ req[q].deck # d
  /\ spent' = IF d = None THEN spent ELSE spent \cup {d}
  /\ req' = [req EXCEPT ![r] = [Idle EXCEPT !.pc = IF op \in {"share", "unshare"}
                                                  THEN "lock" ELSE "check",
                                            !.op = op, !.deck = d, !.version = v, !.source = s]]
  /\ UNCHANGED <<tables, lock>>

Done(r) == req' = [req EXCEPT ![r] = Idle]

\* The first look at the deck, without the lock: assert_editable, and the start
\* of upsert, which refuses an id that upstream answers for.
Check(r) ==
  LET d == req[r].deck
  IN /\ req[r].pc = "check" /\ req[r].op # "import"
     /\ \E up \in BOOLEAN :
          IF deck[d] # None \/ (req[r].op = "put" /\ ~Community(d, up))
          THEN req' = [req EXCEPT ![r].pc = IF req[r].op = "delete" THEN "mark" ELSE "lock",
                                  ![r].seen = deck[d]]
          ELSE Done(r)
     /\ UNCHANGED <<tables, spent, lock>>

\* import up to upsert: known already, not to be had, or a payload under a new id.
CheckImport(r) ==
  LET s == req[r].source
  IN /\ req[r].pc = "check" /\ req[r].op = "import"
     /\ UNCHANGED <<tables, lock>>
     /\ IF Imported(s) = {} /\ Community(s, TRUE)
        THEN \E d \in DeckId \ (spent \cup Source) :
               /\ req' = [req EXCEPT ![r].pc = "lock", ![r].deck = d]
               /\ spent' = spent \cup {d}
        ELSE Done(r) /\ UNCHANGED spent

\* delete hides the upstream copy of a legacy deck, in a statement of its own.
MarkPrivate(r) ==
  LET p == req[r].seen.payload
  IN /\ req[r].pc = "mark"
     /\ private' = IF p.up # None /\ p.from # p.up THEN private \cup {p.up} ELSE private
     /\ req' = [req EXCEPT ![r].pc = "lock"]
     /\ UNCHANGED <<deck, version, account, spent, lock>>

\* Mutant: an import does not look again under the lock.
LooksOnce(r) == FALSE
\* upsert finds the source imported meanwhile.
Known(r) == req[r].op = "import" /\ Imported(req[r].source) # {}

\* lock(), then the deck's row and versions as the transaction reads them.
Lock(r) ==
  LET d == req[r].deck
  IN /\ req[r].pc = "lock" /\ lock = None
     /\ UNCHANGED <<tables, spent>>
     /\ IF Known(r) \/ (deck[d] = None /\ req[r].op \notin {"put", "import"})
        THEN Done(r) /\ UNCHANGED lock
        ELSE /\ lock' = r
             /\ req' = [req EXCEPT ![r].pc = "write", ![r].seen = deck[d],
                                   ![r].records = Records(d)]

---------------------------------------------------------------------------
(* Writes, each a transaction that ends with its commit. *)

Writes(r, op) == account /\ req[r].pc = "write" /\ req[r].op = op
Release(r)    == lock' = None /\ Done(r)

FreshVersion == VersionId \ spent

\* Mutant: the update forgets which version it is about.
StoredInAll(v, p) ==
  [x \in VersionId |-> IF version[x] # None /\ version[x].deck = version[v].deck
                       THEN [version[x] EXCEPT !.payload = p] ELSE version[x]]
\* UPDATE user_deck_versions SET payload.
Stored(v, p) == [version EXCEPT ![v].payload = p]

\* What a request may carry: clients send the lists, and may claim a source.
Incoming(r) ==
  IF req[r].op = "import"
  THEN {p \in Payload : p.up = req[r].source /\ p.from = req[r].source}
  ELSE Payload

upsert(r) ==
  \E incoming \in Incoming(r) :
    LET d    == req[r].deck
        row  == req[r].seen
        next == persist(incoming, row, req[r].op = "import")
    IN /\ Writes(r, "put") \/ Writes(r, "import")
       /\ \/ /\ row # None
             /\ deck' = [deck EXCEPT ![d].payload = next, ![d].active = row.active]
             /\ version' = Stored(row.active, next)
             /\ UNCHANGED spent
          \/ /\ row = None
             /\ \E v \in FreshVersion :
                  /\ deck' = [deck EXCEPT ![d] =
                       [payload |-> next, active |-> v, shared |-> FALSE]]
                  /\ version' = [version EXCEPT ![v] = [deck |-> d, payload |-> next]]
                  /\ spent' = spent \cup {v}
       /\ Release(r) /\ UNCHANGED <<private, account>>

set_sharing(r) ==
  LET d == req[r].deck
  IN /\ Writes(r, "share") \/ Writes(r, "unshare")
     /\ deck' = [deck EXCEPT ![d].shared = (req[r].op = "share")]
     /\ Release(r) /\ UNCHANGED <<version, private, account, spent>>

MayCreate(n) == n < MaxVersions

CreateVersion(r) ==
  LET d == req[r].deck
      row == req[r].seen
  IN /\ Writes(r, "create") /\ MayCreate(Cardinality(req[r].records))
     /\ \E v \in FreshVersion, from \in req[r].records :
          /\ row.active \in req[r].records => from = row.active
          /\ LET copy == merge(row.payload, version[from].payload)
             IN /\ deck' = [deck EXCEPT ![d].payload = copy, ![d].active = v]
                /\ version' = [version EXCEPT ![v] = [deck |-> d, payload |-> copy]]
          /\ spent' = spent \cup {v}
     /\ Release(r) /\ UNCHANGED <<private, account>>

\* Renames change a name only.
RenameVersion(r) ==
  /\ Writes(r, "rename") /\ req[r].version \in req[r].records
  /\ Release(r) /\ UNCHANGED <<tables, spent>>

ActivateVersion(r) ==
  LET d == req[r].deck
      v == req[r].version
  IN /\ Writes(r, "activate") /\ v \in req[r].records
     /\ deck' = [deck EXCEPT ![d].payload = merge(req[r].seen.payload, version[v].payload),
                             ![d].active = v]
     /\ Release(r) /\ UNCHANGED <<version, private, account, spent>>

\* Mutant: the deck is left without an active version.
ClearsActive(r, next) == [deck EXCEPT ![req[r].deck].active = None]
\* Mutant: the deck stays on the version that is deleted.
StaysActive(r, next) == deck
\* The deck moves on to another version when it loses its active one.
MovesTo(r, next) ==
  [deck EXCEPT ![req[r].deck].payload = merge(req[r].seen.payload, version[next].payload),
               ![req[r].deck].active = next]

DeleteVersion(r) ==
  LET v == req[r].version
  IN /\ Writes(r, "remove") /\ v \in req[r].records /\ Cardinality(req[r].records) > 1
     /\ IF req[r].seen.active = v
        THEN \E next \in req[r].records \ {v} : deck' = MovesTo(r, next)
        ELSE UNCHANGED deck
     /\ version' = [version EXCEPT ![v] = None]
     /\ Release(r) /\ UNCHANGED <<private, account, spent>>

SaveVersion(r) ==
  \E incoming \in Incoming(r) :
    LET v    == req[r].version
        next == persist(incoming, req[r].seen, FALSE)
    IN /\ Writes(r, "save") /\ v \in req[r].records
       /\ version' = Stored(v, next)
       /\ deck' = IF req[r].seen.active = v
                  THEN [deck EXCEPT ![req[r].deck].payload = next] ELSE deck
       /\ Release(r) /\ UNCHANGED <<private, account, spent>>

\* user_deck_versions_deck_fk
Cascade(d) == [v \in VersionId |-> IF v \in Records(d) THEN None ELSE version[v]]

DeleteDeck(r) ==
  LET d == req[r].deck
  IN /\ Writes(r, "delete")
     /\ deck' = [deck EXCEPT ![d] = None]
     /\ version' = Cascade(d)
     /\ Release(r) /\ UNCHANGED <<private, account, spent>>

\* A request is refused (404, 409), dropped or fails: its transaction rolls back.
Abandon(r) ==
  /\ req[r].pc # "idle"
  /\ lock' = IF lock = r THEN None ELSE lock
  /\ Done(r) /\ UNCHANGED <<tables, spent>>

\* Account deletion takes another lock; the foreign keys cascade, and from then
\* on no statement of the account finds or makes a row.
CloseAccount ==
  /\ "close" \in Uses /\ account /\ account' = FALSE
  /\ deck' = [d \in DeckId |-> None]
  /\ version' = [v \in VersionId |-> None]
  /\ UNCHANGED <<private, spent, lock, req>>

Handler(r) ==
  \/ Check(r) \/ CheckImport(r) \/ MarkPrivate(r) \/ Lock(r)
  \/ upsert(r) \/ set_sharing(r)
  \/ CreateVersion(r) \/ RenameVersion(r) \/ ActivateVersion(r)
  \/ DeleteVersion(r) \/ SaveVersion(r) \/ DeleteDeck(r)

Next ==
  \/ \E r \in Req, op \in Op, d \in DeckId \cup {None}, v \in (VersionId \cap spent) \cup {None},
        s \in Source \cup {None} : Begin(r, op, d, v, s)
  \/ \E r \in Req : Handler(r) \/ Abandon(r)
  \/ CloseAccount

Spec == Init /\ [][Next]_vars

---------------------------------------------------------------------------
(* Properties. *)

Locals ==
  [pc : {"idle", "check", "mark", "lock", "write"}, op : Op \cup {None},
   deck : DeckId \cup {None}, version : VersionId \cup {None}, source : Source \cup {None},
   seen : Row \cup {None}, records : SUBSET VersionId]

\* Rows, ids and locals have their types.
TypeOK ==
  /\ deck \in [DeckId -> Row \cup {None}]
  /\ version \in [VersionId -> VersionRow \cup {None}]
  /\ private \subseteq Source
  /\ account \in BOOLEAN
  /\ spent \subseteq DeckId \cup VersionId
  /\ lock \in Req \cup {None}
  /\ req \in [Req -> Locals]

\* What a deck shows, to its owner and behind its share link, is the list of
\* the version it calls active, whatever was created, switched, saved or deleted
\* by overlapping requests (upsert, version).
ShowsActiveVersion ==
  \A d \in DeckId : deck[d] # None =>
    /\ deck[d].active \in Records(d)
    /\ deck[d].payload = version[deck[d].active].payload

\* A version belongs to a deck that exists (delete and its cascade).
NoStrayVersion ==
  \A v \in VersionId : version[v] # None => deck[version[v].deck] # None

\* version() never lets a deck have more versions than the limit, although two
\* clients count them at the same time.
WithinLimit == \A d \in DeckId : Cardinality(Records(d)) <= MaxVersions

\* The versions of a deck stay in step with it under overlapping requests: the
\* active one is shown, none is left behind, and there are not too many (version,
\* upsert, delete).
SoundVersions == ShowsActiveVersion /\ NoStrayVersion /\ WithinLimit

\* A community deck is imported at most once, although two clients look for it
\* at the same time before either has imported it (import, upsert).
ImportedOnce ==
  \A s \in Source, d1, d2 \in DeckId :
    (/\ deck[d1] # None /\ s \in {deck[d1].payload.from, deck[d1].payload.up}
     /\ deck[d2] # None /\ s \in {deck[d2].payload.from, deck[d2].payload.up})
    => d1 = d2

\* Every version knows the same source as its deck, so switching versions never
\* changes where a deck came from (persist, merge).
OneSource ==
  \A v \in VersionId : version[v] # None =>
    LET p == deck[version[v].deck].payload
    IN version[v].payload.up = p.up /\ version[v].payload.from = p.from

\* Decks keep what is known of their source (import, persist, merge).
SoundSources == ImportedOnce /\ OneSource

\* A list is only overwritten by a request that carries a new one for that very
\* version: creating, switching and deleting leave the other lists alone.
ListsOverwrittenOnlyBySaves ==
  [][\A v \in VersionId :
       (version[v] # None /\ version'[v] # None /\ version'[v] # version[v]) =>
         \E r \in Req : /\ req[r].pc = "write"
                        /\ \/ req[r].op = "save" /\ req[r].version = v
                           \/ req[r].op = "put" /\ deck[req[r].deck].active = v
    ]_vars
=============================================================================

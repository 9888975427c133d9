------------------------------ MODULE DecksInv ------------------------------
(***************************************************************************)
(* The inductive invariant of Decks: what a request knows while it holds   *)
(* the account's lock, and which ids are taken.                            *)
(***************************************************************************)
EXTENDS Decks

\* The lock is held exactly by the request that is about to write.
LockFacts == \A r \in Req : req[r].pc = "write" <=> lock = r

\* What the holder of the lock has read is still true.
HolderKnows(r) ==
  /\ req[r].seen = deck[req[r].deck]
  /\ req[r].records = Records(req[r].deck)
  /\ req[r].op \notin {"put", "import"} => req[r].seen # None
  /\ req[r].op = "import" => Imported(req[r].source) = {}

SnapshotFacts ==
  \A r \in Req : (req[r].pc = "write" /\ account) => HolderKnows(r)

\* Every request has the parameters of its operation; a deletion has seen the deck.
LocalFacts ==
  \A r \in Req :
    /\ req[r].pc # "idle" => req[r].op \in Op
    /\ req[r].pc = "idle" => req[r] = Idle
    /\ (req[r].pc # "idle" /\ req[r].op # "import") => req[r].deck \in DeckId
    /\ (req[r].op = "import" /\ req[r].pc # "check") => req[r].deck \in DeckId
    /\ req[r].op = "import" => req[r].source \in Source
    /\ req[r].op \in VersionOp \ {"create"} => req[r].version \in VersionId
    /\ req[r].pc = "mark" => req[r].seen # None

\* The id of an import under way is its own: no row and no other request has it.
ImportFacts ==
  \A r \in Req :
    (req[r].op = "import" /\ req[r].deck # None) =>
      /\ deck[req[r].deck] = None
      /\ req[r].deck \in spent
      /\ \A q \in Req \ {r} : req[q].deck # req[r].deck

\* Ids of rows and of requests are taken.
SpentFacts ==
  /\ \A d \in DeckId : deck[d] # None => d \in spent
  /\ \A v \in VersionId : version[v] # None => v \in spent
  /\ \A r \in Req : req[r].deck # None => req[r].deck \in spent

FiniteRecords == \A d \in DeckId : IsFiniteSet(Records(d))

IInv ==
  /\ TypeOK
  /\ LockFacts /\ SnapshotFacts /\ LocalFacts /\ ImportFacts /\ SpentFacts
  /\ FiniteRecords
  /\ ShowsActiveVersion /\ NoStrayVersion /\ WithinLimit /\ ImportedOnce /\ OneSource
=============================================================================

--------------------------- MODULE MCSharedClient ---------------------------
(* One run of OptimisticCollection over two sessions of a client of a shared *)
(* collection on a bad network: session is chosen at the start.  The cfg     *)
(* says Cold, so that the list is loaded first; a warm session is one that   *)
(* begins when it is.                                                        *)
EXTENDS OptimisticCollectionInv

VARIABLE session

\* A cold start into a collection of one stack that the other member changes; or
\* one of both finishes of a variant, from which one copy or all are removed while
\* the other member looks on.
Sessions ==
  LET k == CHOOSE key \in Key : TRUE
  IN {[cold |-> TRUE, changes |-> MaxRemote, keys |-> {k},
       makes |-> {Add(k), SetTo(k, 0)}],
      [cold |-> FALSE, changes |-> 0, keys |-> Key,
       makes |-> {RemoveMany, Adjust(k, -1)}]}

Makes(e) ==
  \E m \in session.makes :
    e.rel = m.rel /\ e.seed = m.seed /\ e.keys = m.keys /\ e.n = m.n

SessionInit ==
  /\ Init /\ session \in Sessions
  /\ (list = None) = session.cold
  /\ \A k \in session.keys : server[k] > 0
  /\ \A k \in Key \ session.keys : server[k] = 0

SessionNext ==
  /\ Next /\ UNCHANGED session
  /\ Len(edits') > Len(edits) => Makes(edits'[Len(edits')])
  /\ remote' <= session.changes
  /\ \A k \in Key \ session.keys : server'[k] = 0

SessionSpec == SessionInit /\ [][SessionNext]_<<vars, session>> /\ Fairness
=============================================================================

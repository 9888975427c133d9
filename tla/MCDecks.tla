------------------------------ MODULE MCDecks ------------------------------
(* One run of Decks over two mixes of requests: mix is chosen at the start *)
(* and says which requests are sent, about which decks, with which lists.  *)
EXTENDS DecksInv, TLC

VARIABLE mix

Mixes ==
  {[ops   |-> {"put", "create", "activate", "remove", "save", "rename", "delete",
               "share", "unshare"},
    close |-> TRUE, decks |-> {d}, cards |-> Cards] : d \in DeckId \ Source}
  \cup
  {[ops   |-> {"put", "import", "delete", "create", "activate"},
    close |-> FALSE, decks |-> DeckId, cards |-> {c}] : c \in Cards}

InMix ==
  /\ \A d \in DeckId : deck[d] # None => d \in mix.decks /\ deck[d].payload.cards \in mix.cards
  /\ \A v \in VersionId : version[v] # None => version[v].payload.cards \in mix.cards
  /\ \A r \in Req : req[r].op \in mix.ops \cup {None} /\ req[r].deck \in mix.decks \cup {None}

MixInit == Init /\ mix \in Mixes /\ InMix
MixNext == Next /\ UNCHANGED mix /\ InMix' /\ (mix.close \/ account')
MixSpec == MixInit /\ [][MixNext]_<<vars, mix>>

Symmetry == Permutations(Req) \cup Permutations(DeckId \ Source)
              \cup Permutations(VersionId) \cup Permutations(Cards)
=============================================================================

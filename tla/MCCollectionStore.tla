------------------------- MODULE MCCollectionStore -------------------------
(* One run of CollectionStore over three mixes of requests: mix is chosen  *)
(* at the start and says which accounts send which requests, and how many  *)
(* invite tokens are issued in all.                                        *)
EXTENDS CollectionStoreInv, TLC

VARIABLE mix

\* Two accounts that share, write and are deleted; two with a token each; or
\* three that invite each other.
Mixes ==
  [users : {User \ {u} : u \in User}, tokens : {1},
   ops   : {{"set", "invite", "accept", "leave", "delete_user"}}]
  \cup [users : {User \ {u} : u \in User}, tokens : {2},
        ops   : {{"invite", "accept", "leave", "delete_user"}}]
  \cup [users : {User}, tokens : {2},
        ops   : {{"invite", "revoke", "accept", "leave", "preview"}}]

MixInit == Init /\ mix \in Mixes
MixNext ==
  /\ Next /\ UNCHANGED mix
  /\ \A r \in Req :
       pc[r] = "idle" /\ pc'[r] # "idle" => actor'[r] \in mix.users /\ op'[r] \in mix.ops
  /\ Cardinality({i \in Invite : invite'[i].status # "unissued"}) <= mix.tokens
MixSpec == MixInit /\ [][MixNext]_<<vars, mix>>

\* Requests, accounts, uuids and tokens are interchangeable.
Symmetry == Permutations(Req) \cup Permutations(User)
              \cup Permutations(Coll) \cup Permutations(Invite)
=============================================================================

--------------------------- MODULE MCMixedRequests ---------------------------
(* One liveness run of CollectionStore over two mixes of requests: mix is     *)
(* chosen at the start and says which accounts send which requests, and which *)
(* stacks they write.                                                         *)
EXTENDS CollectionStore

VARIABLE mix

\* Two accounts that share and write one stack; or one that does all the writes
\* and reads of all stacks.
Mixes ==
  {[sends  |-> User \X {"set", "invite", "accept", "delete_user"},
    stacks |-> {CHOOSE s \in Stack : TRUE}],
   [sends  |-> {CHOOSE u \in User : TRUE}
                 \X {"set", "remove", "drop", "batch", "import", "read", "delete_user"},
    stacks |-> Stack]}

MixInit == Init /\ mix \in Mixes
MixNext ==
  /\ Next /\ UNCHANGED mix
  /\ \A r \in Req :
       /\ pc[r] = "idle" /\ pc'[r] # "idle" => <<actor'[r], op'[r]>> \in mix.sends
       /\ \A s \in Stack \ mix.stacks : buf'[r][s] = None
MixSpec == MixInit /\ [][MixNext]_<<vars, mix>> /\ Fairness
==============================================================================

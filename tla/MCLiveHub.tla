----------------------------- MODULE MCLiveHub -----------------------------
(* One run of LiveHub over three mixes: mix is chosen at the start.         *)
EXTENDS LiveHubInv

VARIABLE mix

\* All devices on one collection where nothing happens; or two devices whose
\* accounts move between two collections; or two that miss events.
One(S) == {CHOOSE x \in S : TRUE}
Pair == Device \ One(Device)
Mixes ==
  {[devices |-> Device, homes |-> One(Coll), events |-> 0, moves |-> 0],
   [devices |-> Pair, homes |-> Coll, events |-> 1, moves |-> MaxMoves],
   [devices |-> Pair, homes |-> One(Coll), events |-> MaxEvents, moves |-> 0]}

MixInit ==
  /\ Init /\ mix \in Mixes
  /\ \A d \in Device : home[d] \in mix.homes
  /\ \A d \in Device \ mix.devices : home[d] \in One(Coll)
MixNext ==
  /\ Next /\ UNCHANGED mix
  /\ \A d \in Device \ mix.devices : UNCHANGED <<home[d], stream[d].at>>
  /\ \A c \in Coll : sent'[c] <= mix.events
  /\ moves' <= mix.moves
MixSpec == MixInit /\ [][MixNext]_<<vars, mix>> /\ Fairness
=============================================================================

--------------------------- MODULE MCCatalogCache ---------------------------
(* One run of CatalogCache over four mixes of what goes on: mix is chosen at *)
(* the start.                                                                *)
EXTENDS CatalogCacheInv, TLC

VARIABLE mix

\* Two requests during one synchronisation; one request during both, with more
\* writes; or with failures and a restart.
One == {CHOOSE q \in Req : TRUE}
Mixes ==
  [requests : {Req}, syncs : {{k} : k \in Key}, faults : {FALSE}, writes : {1}]
  \cup [requests : {One}, syncs : {Key}, faults : {FALSE}, writes : {MaxWrites}]
  \cup [requests : {One}, syncs : {Key}, faults : {TRUE}, writes : {1}]

MixInit == Init /\ mix \in Mixes
MixNext ==
  /\ Next /\ UNCHANGED mix
  /\ db'.cards + db'.prices + db'.ids <= mix.writes
  /\ \A q \in Req \ mix.requests : req'[q].step = "idle"
  /\ \A k \in Key \ mix.syncs : job'[k].step = "off"
  /\ ~mix.faults => /\ restarts' = 0 /\ lost' = {}
                    /\ \A k \in Key : status'[k] # "failed"
MixSpec == MixInit /\ [][MixNext]_<<vars, mix>>
=============================================================================

----------------------------- MODULE DeckEditor -----------------------------
(***************************************************************************)
(* The deck editor of the client: edits go into a save queue per version,  *)
(* are debounced and saved one request at a time, while answers, reloads   *)
(* and version switches write the query cache that the editor shows        *)
(* (services/deckService.ts, hooks/useDeck*.ts, DeckVersionMenu.tsx).      *)
(*                                                                         *)
(* The client is single threaded: promise continuations (micro) run before *)
(* the next event.  A card list is the set of edits it contains.           *)
(***************************************************************************)
EXTENDS Naturals, Sequences, FiniteSets

CONSTANTS
  Version,     \* version ids of the deck (bound)
  Given,       \* those it has at the start
  Active,      \* and the one that is active
  MaxEdits,    \* edits the user makes (bound)
  MaxActs,     \* what else the user does: taps, leaves and returns (bound)
  Mixes,       \* what the user and the network may do: each behaviour has one
  None,
  Failed,      \* a rejected promise
  Sent         \* a request without an answer yet

ASSUME BoundsAssumption == MaxEdits \in Nat /\ MaxActs \in Nat
ASSUME GivenAssumption  == Given \subseteq Version /\ Active \in Given
ASSUME NoneAssumption   ==
  /\ None \notin Version /\ \A list \in SUBSET (1 .. MaxEdits) : list # None
  /\ None # Failed /\ None # Sent

VARIABLES
  server,    \* the deck on the server: active version, list of each, ids used
  cache,     \* deckQueryKeys.detail: the version and list on the screen
  saves,     \* pendingRemoteDecks, remoteSaveTimers, inFlightSaves, status
  micro,     \* promise continuations that are due, in order
  requests,  \* version mutations under way
  dialogs,   \* pendingSwitchId, pendingCreateName
  loads,     \* getDeck of the query and of useFocusEffect
  made,      \* edits so far
  acts,      \* other things the user did so far
  uses,      \* the member of Mixes
  handed,    \* the list the editor last put in the queue of a version (history)
  requeued   \* the one a failed save has put back over it since, or None (history)

history == <<handed, requeued>>
queue   == <<saves, micro, history>>
vars    == <<server, cache, queue, requests, dialogs, loads, made, acts>>

List   == SUBSET (1 .. MaxEdits)
Deck   == [version : Version, list : List]

ASSUME AnswerAssumption == {None, Failed, Sent} \cap Deck = {}

\* What waits for a flush: nothing, persist or flushSave, the version menu (of
\* the list shown when it was tapped), the rest of flushRemoteDeckSave(deckId).
Waiter  == [do : {"nothing", "adopt", "activate", "create", "rest"},
            to : Version \cup {None}, rest : SUBSET Version, list : List]
Nothing == [do |-> "nothing", to |-> None, rest |-> {}, list |-> {}]
Adopt   == [Nothing EXCEPT !.do = "adopt"]
Rest(vs) == [Nothing EXCEPT !.do = "rest", !.rest = vs]
Activate(w) == [Nothing EXCEPT !.do = "activate", !.to = w, !.list = cache.list]
Create  == [Nothing EXCEPT !.do = "create", !.list = cache.list]
Call    == [at : Version, then : Waiter, chained : BOOLEAN,
            saved : {None, Failed} \cup Deck]
Request == [op : {"activate", "create", "rename", "delete"}, to : Version \cup {None},
            answer : {None} \cup Deck]
Send(op, to) == [op |-> op, to |-> to, answer |-> None]

Exists(v) == server.list[v] # None
Answer(s) == [version |-> s.active, list |-> s.list[s.active]]

Quiet == [pending |-> None, timer |-> FALSE, first |-> None, current |-> None,
          answer |-> None, waiting |-> <<>>, status |-> "idle"]

Init ==
  /\ uses \in Mixes
  /\ server = [active |-> Active, used |-> Given,
               list |-> [v \in Version |-> IF v \in Given THEN {} ELSE None]]
  /\ cache = Answer(server)
  /\ saves = [v \in Version |-> Quiet]
  /\ micro = <<>> /\ requests = {} /\ dialogs = {} /\ made = 0 /\ acts = 0
  /\ loads = [how \in {"query", "focus"} |-> None]
  /\ handed = [v \in Version |-> {}] /\ requeued = [v \in Version |-> None]

---------------------------------------------------------------------------
(* The save queue. *)

Saving(v)    == saves[v].first # None
HasPending(v) == saves[v].pending # None \/ saves[v].timer \/ Saving(v)

Queued(v, list) == [saves EXCEPT ![v].pending = list]

\* The history of a list that the editor puts in the queue.
Put(v, list) ==
  handed' = [handed EXCEPT ![v] = list] /\ requeued' = [requeued EXCEPT ![v] = None]

\* The list that was last put in each queue, by the editor or by a save that failed.
latest == [v \in Version |-> IF requeued[v] = None THEN handed[v] ELSE requeued[v]]

\* flushSaveKey over the queue s: join the save under way, start one, or answer
\* null at once.
Flushed(s, v, then) ==
  IF s[v].first # None
  THEN [s EXCEPT ![v].timer = FALSE, ![v].waiting = Append(@, then)]
  ELSE IF s[v].pending = None THEN [s EXCEPT ![v].timer = FALSE]
  ELSE [s EXCEPT ![v] = [Quiet EXCEPT !.first = s[v].pending, !.current = s[v].pending,
                                      !.waiting = <<then>>, !.status = "saving"]]
Flush(s, v, then, due) ==
  /\ saves' = Flushed(s, v, then)
  /\ micro' = IF s[v].first = None /\ s[v].pending = None
              THEN Append(due, [at |-> v, then |-> then, chained |-> FALSE, saved |-> None])
              ELSE due

\* The promise of the save is settled for the flush that started it and for
\* those that joined.
Settled(v, saved) ==
  [i \in DOMAIN saves[v].waiting |->
     [at |-> v, then |-> saves[v].waiting[i], chained |-> i > 1, saved |-> saved]]

\* Mutant: the loop sends the list it began with again.
FirstAgain(v) == saves[v].first
Body(v) == saves[v].current

\* PUT of the version; the answer describes the active version.
Serve(v) ==
  /\ Saving(v) /\ saves[v].answer = None /\ Exists(v)
  /\ server' = [server EXCEPT !.list[v] = Body(v)]
  /\ saves' = [saves EXCEPT ![v].answer = Answer(server')]
  /\ UNCHANGED <<cache, micro, history, requests, dialogs, loads, made, acts>>

\* newer.updatedAt > saved.updatedAt, a client's clock against the server's.
SaveNewer(v) ==
  /\ saves[v].answer # None /\ saves[v].pending # None
  /\ saves' = [saves EXCEPT ![v].current = saves[v].pending,
                            ![v].pending = None, ![v].answer = None]
  /\ UNCHANGED <<server, cache, micro, history, requests, dialogs, loads, made, acts>>

\* Mutant: inFlightSaves is not cleared (no finally).
NeverCleared(v, pending, status) ==
  [saves EXCEPT ![v].pending = pending, ![v].status = status,
                ![v].answer = None, ![v].waiting = <<>>]
Ended(v, pending, status) ==
  [saves EXCEPT ![v] = [Quiet EXCEPT !.pending = pending, !.timer = saves[v].timer,
                                     !.status = status]]

SaveDone(v) ==
  /\ saves[v].answer # None
  /\ saves' = Ended(v, saves[v].pending, "saved")
  /\ micro' = micro \o Settled(v, saves[v].answer)
  /\ UNCHANGED <<server, cache, history, requests, dialogs, loads, made, acts>>

\* The request fails, before the server has handled it or after (its connection
\* is closed then); catch queues the list the save began with, over a newer one
\* that waits; the timer of that one still runs.
Unsaved(v) == saves[v].first
SaveFails(v) ==
  /\ Saving(v) /\ ("fail" \in uses \/ ~Exists(v))
  /\ saves' = Ended(v, Unsaved(v), "error")
  /\ requeued' = [requeued EXCEPT ![v] = IF Unsaved(v) = handed[v] THEN None ELSE Unsaved(v)]
  /\ micro' = micro \o Settled(v, Failed)
  /\ UNCHANGED <<server, cache, handed, requests, dialogs, loads, made, acts>>

\* 403: the deck is not the user's (any more); nothing is kept.
SaveForbidden(v) ==
  /\ "forbid" \in uses /\ Saving(v) /\ saves[v].answer = None
  /\ saves' = Ended(v, None, "idle")
  /\ micro' = micro \o Settled(v, None)
  /\ UNCHANGED <<server, cache, history, requests, dialogs, loads, made, acts>>

---------------------------------------------------------------------------
(* Continuations. *)

\* Mutant: a joined flush does not look at the queue again.
NeverAgain(call) == FALSE
Again(call) == call.chained /\ call.saved # Failed /\ saves[call.at].pending # None

\* Mutant: a rejected flush counts as done.
Rejected(call) == FALSE
Refused(call) == call.saved = Failed

Continue(call) ==
  /\ \/ /\ call.then.do = "nothing"
        /\ UNCHANGED <<cache, saves, requests, dialogs>>
     \/ /\ call.then.do = "adopt"
        /\ cache' = IF call.saved \notin {None, Failed} /\ call.saved.version = cache.version
                    THEN call.saved ELSE cache
        /\ UNCHANGED <<saves, requests, dialogs>>
     \/ /\ call.then.do \in {"activate", "create"}
        /\ IF Refused(call)
           THEN dialogs' = dialogs \cup {call.then} /\ UNCHANGED requests
           ELSE /\ requests' = requests \cup {Send(call.then.do, call.then.to)}
                /\ UNCHANGED dialogs
        /\ UNCHANGED <<cache, saves>>
     \/ /\ call.then.do = "rest" /\ (Refused(call) \/ call.then.rest = {})
        /\ UNCHANGED <<cache, saves, requests, dialogs>>
  /\ micro' = Tail(micro)

\* flushRemoteDeckSave(deckId) goes on with the next key.
NextKey(call) ==
  /\ call.then.do = "rest" /\ ~Refused(call)
  /\ \E v \in call.then.rest : Flush(saves, v, Rest(call.then.rest \ {v}), Tail(micro))
  /\ UNCHANGED <<cache, requests, dialogs>>

Microtask ==
  /\ micro # <<>>
  /\ LET call == Head(micro)
     IN IF Again(call)
        THEN Flush(saves, call.at, call.then, Tail(micro)) /\ UNCHANGED <<cache, requests, dialogs>>
        ELSE Continue(call) \/ NextKey(call)
  /\ UNCHANGED <<server, history, loads, made, acts>>

---------------------------------------------------------------------------
(* The user. *)

\* persist: debounced, or saved at once.
Edit(immediate) ==
  LET v    == cache.version
      next == cache.list \cup {made + 1}
  IN /\ made < MaxEdits /\ made' = made + 1
     /\ cache' = [cache EXCEPT !.list = next]
     /\ Put(v, next)
     /\ IF immediate
        THEN Flush(Queued(v, next), v, Adopt, micro)
        ELSE saves' = [Queued(v, next) EXCEPT ![v].timer = TRUE] /\ UNCHANGED micro
     /\ UNCHANGED <<server, requests, dialogs, loads, acts>>

Timer(v) ==
  /\ saves[v].timer
  /\ Flush(saves, v, Nothing, micro)
  /\ UNCHANGED <<server, cache, history, requests, dialogs, loads, made, acts>>

\* Bound.
Acts == acts < MaxActs /\ acts' = acts + 1

\* What is on the screen is queued, whether it was edited or not, and flushed.
FlushShown(then) ==
  LET v == cache.version
  IN /\ Put(v, cache.list)
     /\ Flush(Queued(v, cache.list), v, then, micro)
     /\ Acts /\ UNCHANGED <<server, cache, requests, dialogs, loads, made>>

\* flushSave of the back button; retrySave of the menu.
Back  == "back" \in uses /\ FlushShown(Adopt)
Retry == saves[cache.version].status = "error" /\ FlushShown(Nothing)

\* The list of versions is disabled while a version mutation is pending; the
\* sheets and dialogs that were opened before are not.
Busy == requests # {}
SwitchTo(w) == Exists(w) /\ w # cache.version /\ ~Busy /\ FlushShown(Activate(w))
NewVersion  == "create" \in uses /\ FlushShown(Create)

\* "Switch anyway", "Create anyway", or "Stay".
Decide(then, anyway) ==
  /\ then \in dialogs /\ dialogs' = dialogs \ {then}
  /\ requests' = IF anyway THEN requests \cup {Send(then.do, then.to)} ELSE requests
  /\ UNCHANGED <<server, cache, queue, loads, made, acts>>

\* Rename and delete do not flush.
Manage(op, v) ==
  /\ op \in uses /\ Exists(v)
  /\ op = "delete" => \E w \in Version \ {v} : Exists(w)
  /\ requests' = requests \cup {Send(op, v)}
  /\ Acts /\ UNCHANGED <<server, cache, queue, dialogs, loads, made>>

\* The editor unmounts, or the deck is about to be shared: every key is flushed.
FlushAll ==
  /\ "leave" \in uses
  /\ \E v \in Version : /\ HasPending(v)
                        /\ Flush(saves, v, Rest({w \in Version \ {v} : HasPending(w)}), micro)
  /\ Acts /\ UNCHANGED <<server, cache, history, requests, dialogs, loads, made>>

---------------------------------------------------------------------------
(* Version mutations and reloads. *)

\* Mutant: the deck stays on the version that is deleted.
StaysOn(v) == {server.active}
\* The version the server shows when v is gone (Decks: DeleteVersion).
MovesOnTo(v) ==
  {w \in Version \ {v} : Exists(w) /\ (server.active # v => w = server.active)}

Performed(q) ==
  CASE q.op = "activate" -> {[server EXCEPT !.active = q.to]}
    [] q.op = "create"   ->
         {[server EXCEPT !.active = v, !.used = @ \cup {v},
                         !.list[v] = server.list[server.active]] : v \in Version \ server.used}
    [] q.op = "rename"   -> {server}
    [] q.op = "delete"   ->
         {[server EXCEPT !.list[q.to] = None, !.active = v] : v \in MovesOnTo(q.to)}

Perform(q) ==
  /\ q \in requests /\ q.answer = None
  /\ q.to # None => Exists(q.to)
  /\ \E s \in Performed(q) :
       /\ server' = s
       /\ requests' = (requests \ {q}) \cup {[q EXCEPT !.answer = Answer(s)]}
  /\ UNCHANGED <<cache, queue, dialogs, loads, made, acts>>

\* setDeckDetailCache with the answer, or a toast.
Performs(q) ==
  /\ q \in requests /\ requests' = requests \ {q}
  /\ \/ q.answer # None /\ cache' = q.answer
     \/ UNCHANGED cache
  /\ UNCHANGED <<server, queue, dialogs, loads, made, acts>>

\* refetchOnMount and refetchOnWindowFocus, or useFocusEffect.
Load(how) ==
  /\ "load" \in uses /\ loads[how] = None
  /\ how = "focus" => \A v \in Version : ~HasPending(v)
  /\ loads' = [loads EXCEPT ![how] = Sent]
  /\ Acts /\ UNCHANGED <<server, cache, queue, requests, dialogs, made>>
Read(how) ==
  /\ loads[how] = Sent
  /\ loads' = [loads EXCEPT ![how] = Answer(server)]
  /\ UNCHANGED <<server, cache, queue, requests, dialogs, made, acts>>

\* The query takes the answer over; the focus effect only if nothing is waiting
\* to be saved and the answer is newer or of another version; either may fail.
Loaded(how) ==
  LET dropped == loads[how] = Sent \/ (how = "focus" /\ \E v \in Version : HasPending(v))
  IN /\ loads[how] # None /\ loads' = [loads EXCEPT ![how] = None]
     /\ cache' \in {cache} \cup IF dropped THEN {} ELSE {loads[how]}
     /\ UNCHANGED <<server, queue, requests, dialogs, made, acts>>

Event ==
  \/ \E immediate \in BOOLEAN : Edit(immediate)
  \/ \E v \in Version : Timer(v) \/ SwitchTo(v) \/ Manage("rename", v) \/ Manage("delete", v)
  \/ Back \/ Retry \/ NewVersion \/ FlushAll
  \/ \E then \in dialogs, anyway \in BOOLEAN : Decide(then, anyway)
  \/ \E how \in DOMAIN loads : Load(how) \/ Loaded(how)
  \/ \E v \in Version : SaveNewer(v) \/ SaveDone(v) \/ SaveFails(v) \/ SaveForbidden(v)
  \/ \E q \in requests : Performs(q)

Server ==
  \/ \E v \in Version : Serve(v)
  \/ \E q \in requests : Perform(q)
  \/ \E how \in DOMAIN loads : Read(how)

Next == (Microtask \/ (micro = <<>> /\ Event) \/ Server) /\ UNCHANGED uses

Spec == Init /\ [][Next]_<<vars, uses>>

\* Continuations run, timers fire, and a request is answered or fails in the end.
Answered(v) == Serve(v) \/ (micro = <<>> /\ (SaveNewer(v) \/ SaveDone(v) \/ SaveFails(v)))
Fairness ==
  /\ WF_vars(Microtask)
  /\ \A v \in Version : WF_vars(Answered(v)) /\ WF_vars(micro = <<>> /\ Timer(v))
FairSpec == Spec /\ Fairness

---------------------------------------------------------------------------
(* Properties. *)

\* The queue, the cache and the requests have their types; the server shows a
\* version that exists.
TypeOK ==
  /\ Exists(server.active)
  /\ server \in [active : Version, used : SUBSET Version, list : [Version -> {None} \cup List]]
  /\ cache \in Deck /\ made \in 0 .. MaxEdits /\ acts \in 0 .. MaxActs
  /\ handed \in [Version -> List] /\ requeued \in [Version -> {None} \cup List]
  /\ saves \in [Version ->
       [pending : {None} \cup List, timer : BOOLEAN, first : {None} \cup List,
        current : {None} \cup List, answer : {None} \cup Deck, waiting : Seq(Waiter),
        status : {"idle", "saving", "saved", "error"}]]
  /\ micro \in Seq(Call) /\ requests \subseteq Request /\ dialogs \subseteq Waiter
  /\ loads \in [{"query", "focus"} -> {None, Sent} \cup Deck]

\* Whatever list waits in a queue has a timer, a save that will come back to it,
\* or the menu says "Couldn't save": no queue is left behind while the editor says
\* that autosave is on or that all is saved (flushSaveKey). Which list it is that
\* waits, SavedIsStored says.
NoQueueStranded ==
  \A v \in Version :
    (micro = <<>> /\ saves[v].pending # None /\ ~saves[v].timer /\ ~Saving(v))
      => saves[v].status = "error"

\* Once a version is "Saved" and nothing of it waits, the server has the list the
\* editor last put in its queue, whatever was switched, retried or reloaded; or,
\* if a save failed after that, the list which catch put back. That one may be
\* the older: catch overwrites a newer list that waits (deckService.ts:223), whose
\* timer then saves the older list and says "Saved", and the newer edit is lost.
SavedIsStored ==
  \A v \in Version : (saves[v].status = "saved" /\ ~HasPending(v) /\ Exists(v))
                     => server.list[v] = latest[v]

\* The menu sends a version mutation after a flush only if the version it leaves
\* did not fail to save; otherwise it asks first (flushActive, switchTo).
AsksAfterFailure ==
  [][\A q \in requests' \ requests :
       (micro # <<>> /\ q.answer = None)
         => saves[Head(micro).at].status # "error"]_vars

\* What waits for its debounce, its turn or its save is saved in the end, or the
\* failure is shown: joined and restarted saves always settle.
SavesSettle ==
  \A v \in Version :
    HasPending(v) ~> (~HasPending(v) \/ saves[v].status = "error")

\* "Flush pending changes and wait for the API save to finish": when the flush
\* of the version menu is through, the list it was tapped on is on the server.
FlushWaits ==
  [][\A q \in requests' \ requests :
       (micro # <<>> /\ q.answer = None /\ Head(micro).saved # None)
         => Head(micro).then.list \subseteq server.list[Head(micro).at]]_vars
=============================================================================

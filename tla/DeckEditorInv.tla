--------------------------- MODULE DeckEditorInv ---------------------------
(***************************************************************************)
(* The inductive invariant of DeckEditor: what the queue of a version      *)
(* holds against what the server has and the continuations that are due.   *)
(***************************************************************************)
EXTENDS DeckEditor

Save == [pending : {None} \cup List, timer : BOOLEAN, first : {None} \cup List,
         current : {None} \cup List, answer : {None} \cup Deck, waiting : Seq(Waiter),
         status : {"idle", "saving", "saved", "error"}]

\* A switch names its version.
Proper(w) == w.do = "activate" => w.to \in Version

\* A save under way has a body and somebody who waits for it; without one there
\* is nothing of it.
Shape(s) ==
  /\ s.first # None => s.current # None /\ s.waiting # <<>>
  /\ s.first = None => s.current = None /\ s.answer = None /\ s.waiting = <<>>
  /\ \A i \in DOMAIN s.waiting : Proper(s.waiting[i])

\* Where the list is that was last put in the queue of v, by the editor or by a save
\* that failed (latest), against the deck d of the server: it waits, or it is being
\* saved, or it is saved.
Kept(s, list, v, d) ==
  /\ s.pending # None => list = s.pending
  /\ s.first # None /\ s.pending = None => list = s.current
  /\ s.answer # None /\ d.list[v] # None => d.list[v] = s.current
  /\ s.status = "saved" /\ s.first = None /\ s.pending = None /\ d.list[v] # None
       => d.list[v] = list
  /\ v \notin d.used => s.pending = None /\ s.first = None /\ s.status # "saved"

\* A list that waits behind a save without a timer has a flush that joined it.
Joined(s) == s.first # None /\ s.pending # None /\ ~s.timer => Len(s.waiting) > 1

\* A continuation that will look at the queue of v again.
Due(v) == \E i \in DOMAIN micro : /\ micro[i].at = v /\ micro[i].chained
                                  /\ micro[i].saved # Failed
Resumed(v) ==
  saves[v].pending # None /\ ~saves[v].timer /\ saves[v].first = None
    => saves[v].status = "error" \/ Due(v)

SaveFacts ==
  \A v \in Version : /\ Shape(saves[v]) /\ Kept(saves[v], latest[v], v, server)
                     /\ Joined(saves[v]) /\ Resumed(v)

\* Versions that anything speaks of were there, and are not given again.
Known(answer) == answer \in Deck => answer.version \in server.used
Decks ==
  /\ cache.version \in server.used /\ \A v \in Version : Exists(v) => v \in server.used
  /\ \A v \in Version : Known(saves[v].answer)
  /\ \A q \in requests : Known(q.answer)
  /\ \A how \in DOMAIN loads : Known(loads[how])

\* A version mutation waits for a flush that fails with its version.
Honest(c) ==
  c.saved # Failed /\ c.then.do \in {"activate", "create"} => saves[c.at].status # "error"
Fine(c) == Proper(c.then) /\ Known(c.saved) /\ Honest(c)
MicroFacts == \A i \in DOMAIN micro : Fine(micro[i])

RequestFacts ==
  /\ \A q \in requests : q.op # "create" => q.to \in Version
  /\ \A d \in dialogs : d.do \in {"activate", "create"} /\ Proper(d)

IInv == TypeOK /\ SaveFacts /\ Decks /\ MicroFacts /\ RequestFacts
=============================================================================

----------------------------- MODULE LiveHubInv -----------------------------
(***************************************************************************)
(* The inductive invariant of LiveHub: how the queue of a stream continues *)
(* what the stream has passed on, and who may hear what is in it.          *)
(***************************************************************************)
EXTENDS LiveHub

Stream == [at : {"off", "ensured", "open", "check", "wait"}, coll : {None} \cup Coll,
           signedIn : BOOLEAN, heard : BOOLEAN, queue : Seq(Event), lagged : BOOLEAN,
           attached : BOOLEAN, item : Event, last : 0..MaxEvents]

\* A stream holds nothing before it is subscribed, and waits with no event in hand.
Shaped(s) ==
  /\ s \in Stream /\ Len(s.queue) <= Capacity
  /\ s.at # "off" => s.coll \in Coll
  /\ s.at \in {"off", "ensured"} => s.queue = <<>> /\ ~s.lagged
  /\ s.at # "check" => s.item = Signal
  /\ s.item.n = 0 => s.item = Signal

\* The number of the last event the stream has taken from its queue.
Taken(s) == IF s.item.n > 0 THEN s.item.n ELSE s.last

\* Unless it lagged, a subscribed stream has in its queue, in order, every event
\* after the last it took, and it took the one after the last it passed on; k has
\* the numbers of the events published.
Continues(s, k) ==
  /\ s.at \in {"open", "check", "wait"} /\ ~s.lagged =>
       /\ \A i \in 1 .. Len(s.queue) : s.queue[i].n = Taken(s) + i
       /\ Taken(s) + Len(s.queue) = k[s.coll]
  /\ s.at = "check" /\ s.item.n > 0 => s.item.n = s.last + 1

\* Whoever may hear the stream now, at home in h, may hear all that it holds.
Deserved(s, h) ==
  h = s.coll /\ s.signedIn => /\ s.item.may
                              /\ \A i \in 1 .. Len(s.queue) : s.queue[i].may

Sound(s, h, k) == Shaped(s) /\ Continues(s, k) /\ Deserved(s, h)

\* Streams on one collection are as many as the hub counts, so finitely many.
Counted == CountsListeners /\ \A c \in Coll : IsFiniteSet(Listening(c))

IInv ==
  /\ home \in [Device -> Coll]
  /\ stream \in [Device -> Stream]
  /\ \A d \in Device : Sound(stream[d], home[d], sent)
  /\ active \in [Coll -> 0..MaxListeners] /\ sent \in [Coll -> 0..MaxEvents]
  /\ shutdown \in BOOLEAN /\ moves \in 0..MaxMoves
  /\ Counted
=============================================================================

--------------------------- MODULE LiveHubProofs ----------------------------
(***************************************************************************)
(* The safety properties of LiveHub hold for every number of devices,      *)
(* collections, listeners and events, and every capacity of a channel.     *)
(*                                                                         *)
(* A step changes what one stream holds (Sound), or who listens (Counted). *)
(***************************************************************************)
EXTENDS LiveHubInv, FiniteSetTheorems, SequenceTheorems, TLAPS

USE LimitsAssumption

\* A signal is an event with no number, and a stream that is off holds it.
LEMMA SignalFacts ==
  Signal \in Event /\ Signal.n = 0 /\ Signal.may
BY DEF Signal, Event

LEMMA OffSound == \A h, k : Sound(Off, h, k) /\ Off.at = "off"
BY SignalFacts, EmptySeq DEF Off, Sound, Shaped, Continues, Deserved, Stream

\* The fields of a stream, and of the events it holds.
LEMMA Fields ==
  ASSUME NEW s \in Stream
  PROVE  /\ s.queue \in Seq(Event) /\ Len(s.queue) \in Nat /\ s.item \in Event
         /\ s.last \in Nat /\ s.item.n \in Nat /\ s.last <= MaxEvents /\ s.item.n <= MaxEvents
         /\ \A i \in 1 .. Len(s.queue) : s.queue[i] \in Event /\ s.queue[i].n \in Nat
<1>1. s.queue \in Seq(Event) /\ s.item \in Event /\ s.last \in 0..MaxEvents
  BY DEF Stream
<1>2. Len(s.queue) \in Nat /\ s.queue \in [1 .. Len(s.queue) -> Event]
  BY <1>1, LenProperties
<1>3. \A e \in Event : e.n \in Nat /\ e.n <= MaxEvents
  BY DEF Event
<1> QED
  BY <1>1, <1>2, <1>3

LEMMA StreamOf ==
  ASSUME IInv, NEW d \in Device
  PROVE  /\ stream[d] \in Stream /\ Sound(stream[d], home[d], sent) /\ home[d] \in Coll
         /\ Subscribed(d) => stream[d].coll \in Coll
BY DEF IInv, Sound, Shaped, Subscribed

LEMMA InitInv == Init => IInv
<1> SUFFICES ASSUME Init PROVE IInv
  OBVIOUS
<1>1. stream \in [Device -> Stream] /\ \A d \in Device : Sound(stream[d], home[d], sent)
  BY OffSound DEF Init, Sound, Shaped
<1>2. \A c \in Coll : Listening(c) = {}
  BY OffSound DEF Init, Listening, Subscribed
<1>3. Counted
  <2> SUFFICES ASSUME NEW c \in Coll
               PROVE  /\ active[c] = Cardinality(Listening(c)) /\ IsFiniteSet(Listening(c))
                      /\ \A d \in Listening(c) : stream[d].attached
    BY DEF Counted, CountsListeners
  <2>1. active[c] = 0 /\ Listening(c) = {}
    BY <1>2 DEF Init
  <2> QED
    BY <2>1, FS_EmptySet
<1>4. /\ home \in [Device -> Coll] /\ shutdown \in BOOLEAN /\ moves \in 0..MaxMoves
      /\ active \in [Coll -> 0..MaxListeners] /\ sent \in [Coll -> 0..MaxEvents]
  <2>1. 0 \in 0..MaxMoves /\ 0 \in 0..MaxListeners /\ 0 \in 0..MaxEvents
    OBVIOUS
  <2>2. active = [c \in Coll |-> 0] /\ sent = [c \in Coll |-> 0] /\ moves = 0
    BY DEF Init
  <2> QED
    BY <2>1, <2>2 DEF Init
<1> QED
  BY <1>1, <1>3, <1>4 DEF IInv

(***************************************************************************)
(* The count of the listeners.                                             *)
(***************************************************************************)

\* Nobody begins or ceases to listen.
LEMMA SameListeners ==
  ASSUME Counted, active' = active,
         \A e \in Device : Subscribed(e)' <=> Subscribed(e),
         \A e \in Device : Subscribed(e) =>
           stream'[e].coll = stream[e].coll /\ stream'[e].attached = stream[e].attached
  PROVE  Counted'
<1>1. \A c \in Coll : Listening(c)' = Listening(c)
  BY DEF Listening
<1>2. \A c \in Coll : \A e \in Listening(c) : stream'[e].attached
  BY DEF Counted, CountsListeners, Listening
<1> QED
  BY <1>1, <1>2 DEF Counted, CountsListeners

\* A stream that ends gives its place back; the channel goes with the last.
LEMMA EndCounted ==
  ASSUME IInv, NEW d \in Device, End(d)
  PROVE  Counted' /\ active' \in [Coll -> 0..MaxListeners]
<1> DEFINE k == stream[d].coll
           closed == Subscribed(d) /\ Left(k) = 0
<1>1. /\ stream'[d] = Off /\ Off.at = "off"
      /\ \A e \in Device \ {d} :
           stream'[e] = IF closed /\ stream[e].coll = k
                          THEN [stream[e] EXCEPT !.attached = FALSE] ELSE stream[e]
  BY OffSound DEF End
<1>2. \A e \in Device \ {d} : /\ stream'[e].at = stream[e].at /\ stream'[e].coll = stream[e].coll
                              /\ ~(closed /\ stream[e].coll = k) =>
                                    stream'[e].attached = stream[e].attached
  BY <1>1, StreamOf DEF Stream
<1>3. ~Subscribed(d)'
  BY <1>1 DEF Subscribed
<1>4. \A e \in Device \ {d} : Subscribed(e)' <=> Subscribed(e)
  BY <1>2 DEF Subscribed
<1> HIDE DEF closed
<1>5. CASE Subscribed(d)
  <2>1. /\ k \in Coll /\ d \in Listening(k)
        /\ IsFiniteSet(Listening(k)) /\ active[k] = Cardinality(Listening(k))
        /\ active[k] \in 0..MaxListeners
    BY <1>5, StreamOf DEF Listening, IInv, Counted, CountsListeners
  <2>2. \A c \in Coll : Listening(c)' = Listening(c) \ {d}
    BY <1>2, <1>3, <1>4 DEF Listening
  <2>3. /\ IsFiniteSet(Listening(k) \ {d})
        /\ Cardinality(Listening(k) \ {d}) = active[k] - 1
        /\ Cardinality(Listening(k) \ {d}) \in Nat
    BY <2>1, FS_RemoveElement, FS_CardinalityType
  <2>4. /\ active' = [active EXCEPT ![k] = active[k] - 1]
        /\ active' \in [Coll -> 0..MaxListeners]
    BY <1>5, <2>1, <2>3 DEF End, Left, IInv
  <2>5. closed => Listening(k) \ {d} = {}
    BY <2>1, <2>3, FS_EmptySet DEF closed, Left
  <2>6. ASSUME NEW c \in Coll
        PROVE  /\ active'[c] = Cardinality(Listening(c)')
               /\ \A e \in Listening(c)' : stream'[e].attached
               /\ IsFiniteSet(Listening(c)')
    <3>1. c # k => Listening(c) \ {d} = Listening(c)
      BY DEF Listening
    <3>2. active'[c] = Cardinality(Listening(c)') /\ IsFiniteSet(Listening(c)')
      BY <2>1, <2>2, <2>3, <2>4, <3>1 DEF IInv, Counted, CountsListeners
    <3>3. ASSUME NEW e \in Listening(c) \ {d} PROVE stream'[e].attached
      <4>1. e \in Device \ {d} /\ stream[e].attached /\ stream[e].coll = c
        BY <3>3 DEF Listening, IInv, Counted, CountsListeners
      <4>2. ~(closed /\ stream[e].coll = k)
        BY <2>5, <3>3, <4>1
      <4> QED
        BY <1>2, <4>1, <4>2
    <3> QED
      BY <2>2, <3>2, <3>3
  <2> QED
    BY <2>4, <2>6 DEF Counted, CountsListeners
<1>6. CASE ~Subscribed(d)
  <2>1. active' = active
    BY <1>6 DEF End
  <2>2. ~closed
    BY <1>6 DEF closed
  <2> QED
    BY <1>2, <1>3, <1>4, <1>6, <2>1, <2>2, SameListeners DEF IInv
<1> QED
  BY <1>5, <1>6

(***************************************************************************)
(* Steps of one stream.                                                    *)
(***************************************************************************)

\* Streams that a step leaves alone stay sound while nothing is published.
LEMMA OneStream ==
  ASSUME IInv, NEW d \in Device, NEW n, stream' = [stream EXCEPT ![d] = n], Sound(n, home[d], sent),
         UNCHANGED <<home, sent, shutdown, moves>>
  PROVE  /\ stream' \in [Device -> Stream] /\ \A e \in Device : Sound(stream[e], home[e], sent)'
         /\ (home \in [Device -> Coll])' /\ (sent \in [Coll -> 0..MaxEvents])'
         /\ (shutdown \in BOOLEAN)' /\ (moves \in 0..MaxMoves)'
         /\ stream'[d] = n /\ \A e \in Device \ {d} : stream'[e] = stream[e]
<1>1. /\ stream' \in [Device -> Stream] /\ stream'[d] = n
      /\ \A e \in Device \ {d} : stream'[e] = stream[e]
  BY DEF IInv, Sound, Shaped
<1>2. ASSUME NEW e \in Device PROVE Sound(stream[e], home[e], sent)'
  <2>1. Sound(stream'[e], home[e], sent)
    BY <1>1 DEF IInv
  <2> QED
    BY <2>1 DEF Sound, Shaped, Continues, Deserved
<1> QED
  BY <1>1, <1>2 DEF IInv

\* The stream goes on listening, or goes on not listening.
LEMMA GoesOn ==
  ASSUME IInv, NEW d \in Device, NEW n, stream' = [stream EXCEPT ![d] = n], Sound(n, home[d], sent),
         n.at \in {"open", "check", "wait"} <=> Subscribed(d),
         Subscribed(d) => n.coll = stream[d].coll /\ n.attached = stream[d].attached,
         UNCHANGED <<home, active, sent, shutdown, moves>>
  PROVE  IInv'
<1>1. /\ stream' \in [Device -> Stream] /\ \A e \in Device : Sound(stream[e], home[e], sent)'
      /\ (home \in [Device -> Coll])' /\ (sent \in [Coll -> 0..MaxEvents])'
      /\ (shutdown \in BOOLEAN)' /\ (moves \in 0..MaxMoves)'
      /\ stream'[d] = n /\ \A e \in Device \ {d} : stream'[e] = stream[e]
  BY OneStream
<1>2. Counted'
  BY <1>1, SameListeners DEF IInv, Subscribed
<1> QED
  BY <1>1, <1>2 DEF IInv

\* A stream that ends holds nothing; one whose channel goes is told so.
LEMMA EndInv ==
  ASSUME IInv, NEW d \in Device, End(d), UNCHANGED <<home, sent, shutdown, moves>>
  PROVE  IInv'
<1>1. ASSUME NEW e \in Device PROVE stream'[e] \in Stream /\ Sound(stream[e], home[e], sent)'
  <2>1. stream'[e] \in {Off, stream[e], [stream[e] EXCEPT !.attached = FALSE]}
    BY DEF End
  <2>2. CASE stream'[e] = Off
    <3>1. Sound(Off, home[e], sent)
      BY OffSound
    <3> QED
      BY <2>2, <3>1 DEF Sound, Shaped, Continues, Deserved
  <2>3. CASE stream'[e] = stream[e]
    <3>1. Sound(stream[e], home[e], sent)
      BY StreamOf
    <3> QED
      BY <2>3, <3>1 DEF Sound, Shaped, Continues, Deserved
  <2>4. CASE stream'[e] = [stream[e] EXCEPT !.attached = FALSE]
    <3>1. Sound(stream[e], home[e], sent) /\ stream[e] \in Stream
      BY StreamOf
    <3> DEFINE s == stream[e]
               t == [s EXCEPT !.attached = FALSE]
    <3>2. /\ t \in Stream /\ t.at = s.at /\ t.coll = s.coll /\ t.signedIn = s.signedIn
          /\ t.queue = s.queue /\ t.lagged = s.lagged /\ t.item = s.item /\ t.last = s.last
      BY <3>1 DEF Stream
    <3> HIDE DEF t
    <3>3. Sound(t, home[e], sent)
      BY <3>1, <3>2 DEF Sound, Shaped, Continues, Deserved, Taken
    <3>4. stream'[e] = t
      BY <2>4 DEF t
    <3> QED
      BY <3>3, <3>4 DEF Sound, Shaped, Continues, Deserved
  <2> QED
    BY <2>1, <2>2, <2>3, <2>4
<1>2. stream' \in [Device -> Stream]
  BY <1>1 DEF End
<1> QED
  BY <1>1, <1>2, EndCounted DEF IInv

LEMMA EnsureInv ==
  ASSUME IInv, NEW d \in Device, Ensure(d)
  PROVE  IInv'
<1> DEFINE s == stream[d]
           n == [s EXCEPT !.at = "ensured", !.coll = home[d]]
<1>1. s \in Stream /\ Sound(s, home[d], sent) /\ home[d] \in Coll /\ s.at = "off"
  BY StreamOf DEF Ensure
<1>2. stream' = [stream EXCEPT ![d] = n]
  BY DEF Ensure
<1>3. /\ n \in Stream /\ n.at = "ensured" /\ n.coll = home[d] /\ n.queue = s.queue
      /\ n.lagged = s.lagged /\ n.item = s.item /\ n.last = s.last
  BY <1>1 DEF Stream
<1> HIDE DEF n
<1>4. Sound(n, home[d], sent)
  BY <1>1, <1>3, SignalFacts, EmptySeq DEF Sound, Shaped, Continues, Deserved
<1> QED
  BY <1>1, <1>2, <1>3, <1>4, GoesOn DEF Ensure, Subscribed

LEMMA StartInv ==
  ASSUME IInv, NEW d \in Device, Start(d)
  PROVE  IInv'
<1> DEFINE s == stream[d]
           n == [s EXCEPT !.at = "check"]
<1>1. s \in Stream /\ Sound(s, home[d], sent) /\ s.at = "open"
  BY StreamOf DEF Start
<1>2. CASE End(d)
  BY <1>2, EndInv DEF Start
<1>3. CASE ~End(d)
  <2>1. stream' = [stream EXCEPT ![d] = n]
    BY <1>3 DEF Start
  <2>2. /\ n \in Stream /\ n.at = "check" /\ n.coll = s.coll /\ n.queue = s.queue
        /\ n.signedIn = s.signedIn /\ n.attached = s.attached
        /\ n.lagged = s.lagged /\ n.item = s.item /\ n.last = s.last
    BY <1>1 DEF Stream
  <2> HIDE DEF n
  <2>3. Sound(n, home[d], sent)
    BY <1>1, <2>2, SignalFacts DEF Sound, Shaped, Continues, Deserved, Taken
  <2> QED
    BY <1>1, <1>3, <2>1, <2>2, <2>3, GoesOn DEF Start, Subscribed
<1> QED
  BY <1>2, <1>3

LEMMA HeartbeatInv ==
  ASSUME IInv, NEW d \in Device, Heartbeat(d)
  PROVE  IInv'
<1> DEFINE s == stream[d]
           n == [s EXCEPT !.at = "check"]
<1>1. s \in Stream /\ Sound(s, home[d], sent) /\ s.at = "wait"
  BY StreamOf DEF Heartbeat
<1>2. stream' = [stream EXCEPT ![d] = n]
  BY DEF Heartbeat
<1>3. /\ n \in Stream /\ n.at = "check" /\ n.coll = s.coll /\ n.queue = s.queue
      /\ n.signedIn = s.signedIn /\ n.attached = s.attached
      /\ n.lagged = s.lagged /\ n.item = s.item /\ n.last = s.last
  BY <1>1 DEF Stream
<1> HIDE DEF n
<1>4. Sound(n, home[d], sent)
  BY <1>1, <1>3, SignalFacts DEF Sound, Shaped, Continues, Deserved, Taken
<1> QED
  BY <1>1, <1>2, <1>3, <1>4, GoesOn DEF Heartbeat, Subscribed

\* What passed the check is the last event the stream has passed on.
LEMMA CheckInv ==
  ASSUME IInv, NEW d \in Device, Check(d)
  PROVE  IInv'
<1> DEFINE s == stream[d]
           n == [s EXCEPT !.at = "wait", !.item = Signal,
                          !.last = IF s.item.n > 0 THEN s.item.n ELSE @]
<1>1. s \in Stream /\ Sound(s, home[d], sent) /\ s.at = "check"
  BY StreamOf DEF Check
<1>2. CASE End(d)
  BY <1>2, EndInv DEF Check
<1>3. CASE ~End(d)
  <2>1. stream' = [stream EXCEPT ![d] = n]
    BY <1>3 DEF Check
  <2>2. /\ n.at = "wait" /\ n.coll = s.coll /\ n.queue = s.queue
        /\ n.signedIn = s.signedIn /\ n.attached = s.attached
        /\ n.lagged = s.lagged /\ n.item = Signal /\ n.last = Taken(s)
    BY <1>1 DEF Stream, Taken
  <2>3. n \in Stream
    <3>1. (IF s.item.n > 0 THEN s.item.n ELSE s.last) \in 0..MaxEvents
      BY <1>1, Fields
    <3> QED
      BY <1>1, <3>1, SignalFacts DEF Stream
  <2> HIDE DEF n
  <2>4. Sound(n, home[d], sent)
    BY <1>1, <2>2, <2>3, SignalFacts DEF Sound, Shaped, Continues, Deserved, Taken
  <2> QED
    BY <1>1, <1>3, <2>1, <2>2, <2>4, GoesOn DEF Check, Subscribed
<1> QED
  BY <1>2, <1>3

\* What is taken from the queue follows what was passed on last.
LEMMA ReceiveInv ==
  ASSUME IInv, NEW d \in Device, Receive(d)
  PROVE  IInv'
<1> DEFINE s == stream[d]
           n == [s EXCEPT !.at = "check", !.item = Head(s.queue), !.queue = Tail(@)]
<1>1. s \in Stream /\ Sound(s, home[d], sent) /\ s.at = "wait"
  BY StreamOf DEF Receive
<1>2. CASE End(d)
  BY <1>2, EndInv DEF Receive
<1>3. CASE ~End(d)
  <2>1. stream' = [stream EXCEPT ![d] = n] /\ s.queue # <<>> /\ ~s.lagged
    BY <1>3 DEF Receive, Broken
  <2>2. /\ Head(s.queue) \in Event /\ Tail(s.queue) \in Seq(Event)
        /\ Len(Tail(s.queue)) = Len(s.queue) - 1 /\ Len(s.queue) \in Nat \ {0}
        /\ \A i \in 1 .. Len(Tail(s.queue)) : Tail(s.queue)[i] = s.queue[i + 1]
        /\ Head(s.queue) = s.queue[1]
    BY <1>1, <2>1, Fields, HeadTailProperties, EmptySeq
  <2>3. /\ n.at = "check" /\ n.coll = s.coll /\ n.queue = Tail(s.queue)
        /\ n.signedIn = s.signedIn /\ n.attached = s.attached
        /\ n.lagged = s.lagged /\ n.item = s.queue[1] /\ n.last = s.last /\ n \in Stream
    BY <1>1, <2>2 DEF Stream
  <2> HIDE DEF n
  <2>4. s.item = Signal /\ s.last \in Nat /\ Taken(s) = s.last /\ Len(s.queue) <= Capacity
    BY <1>1, SignalFacts, Fields DEF Sound, Shaped, Taken
  <2>5. \A i \in 1 .. Len(s.queue) : s.queue[i].n = s.last + i
    BY <1>1, <2>1, <2>4 DEF Sound, Continues
  <2>6. n.item.n = s.last + 1 /\ Taken(n) = s.last + 1
    BY <2>2, <2>3, <2>4, <2>5 DEF Taken
  <2>7. Shaped(n)
    BY <1>1, <2>2, <2>3, <2>4, <2>6 DEF Sound, Shaped
  <2>8. Continues(n, sent)
    <3>1. ASSUME NEW i \in 1 .. Len(n.queue) PROVE n.queue[i].n = Taken(n) + i
      <4>1. i + 1 \in 1 .. Len(s.queue) /\ n.queue[i] = s.queue[i + 1] /\ i \in Nat
        BY <2>2, <2>3
      <4>2. s.queue[i + 1].n = s.last + (i + 1)
        BY <2>5, <4>1
      <4> QED
        BY <2>4, <2>6, <4>1, <4>2
    <3>2. s.last + Len(s.queue) = sent[s.coll]
      BY <1>1, <2>1, <2>4 DEF Sound, Continues
    <3>3. Taken(n) + Len(n.queue) = sent[n.coll]
      <4>1. Len(n.queue) = Len(s.queue) - 1 /\ sent[n.coll] = sent[s.coll]
        BY <2>2, <2>3
      <4>2. Len(s.queue) \in Nat /\ s.last \in Nat
        BY <2>2, <2>4
      <4>3. (s.last + 1) + (Len(s.queue) - 1) = s.last + Len(s.queue)
        BY <4>2
      <4> QED
        BY <2>6, <3>2, <4>1, <4>3
    <3> QED
      BY <2>3, <2>6, <3>1, <3>3 DEF Continues
  <2>9. Deserved(n, home[d])
    BY <1>1, <2>2, <2>3 DEF Sound, Deserved
  <2> QED
    BY <1>1, <1>3, <2>1, <2>3, <2>7, <2>8, <2>9, GoesOn DEF Receive, Subscribed, Sound
<1> QED
  BY <1>2, <1>3

LEMMA SignOutInv ==
  ASSUME IInv, NEW d \in Device, SignOut(d)
  PROVE  IInv'
<1> DEFINE s == stream[d]
           n == [s EXCEPT !.signedIn = FALSE]
<1>1. s \in Stream /\ Sound(s, home[d], sent)
  BY StreamOf
<1>2. stream' = [stream EXCEPT ![d] = n]
  BY DEF SignOut
<1>3. /\ n \in Stream /\ n.at = s.at /\ n.coll = s.coll /\ n.queue = s.queue /\ ~n.signedIn
      /\ n.attached = s.attached /\ n.lagged = s.lagged /\ n.item = s.item /\ n.last = s.last
  BY <1>1 DEF Stream
<1> HIDE DEF n
<1>4. Sound(n, home[d], sent)
  BY <1>1, <1>3 DEF Sound, Shaped, Continues, Deserved, Taken
<1> QED
  BY <1>1, <1>2, <1>3, <1>4, GoesOn DEF SignOut, Subscribed

\* A subscription takes a place, and hears what is published from then on.
LEMMA SubscribeInv ==
  ASSUME IInv, NEW d \in Device, Subscribe(d)
  PROVE  IInv'
<1> DEFINE s == stream[d]
           c == s.coll
           n == [s EXCEPT !.at = "open", !.heard = shutdown, !.attached = TRUE, !.last = sent[c]]
<1>1. /\ s \in Stream /\ Sound(s, home[d], sent) /\ s.at = "ensured" /\ c \in Coll
      /\ s.queue = <<>> /\ ~s.lagged /\ s.item = Signal /\ ~Subscribed(d)
      /\ sent[c] \in 0..MaxEvents /\ shutdown \in BOOLEAN
  BY StreamOf DEF Subscribe, Sound, Shaped, Subscribed, IInv
<1>2. CASE End(d)
  BY <1>2, EndInv DEF Subscribe
<1>3. CASE ~End(d)
  <2>1. /\ Room(c) /\ active' = [active EXCEPT ![c] = @ + 1]
        /\ stream' = [stream EXCEPT ![d] = n] /\ UNCHANGED <<home, sent, shutdown, moves>>
    BY <1>3 DEF Subscribe
  <2>2. /\ n \in Stream /\ n.at = "open" /\ n.coll = c /\ n.queue = s.queue
        /\ n.signedIn = s.signedIn /\ n.attached
        /\ n.lagged = s.lagged /\ n.item = s.item /\ n.last = sent[c]
    BY <1>1 DEF Stream
  <2> HIDE DEF n
  <2>3. Sound(n, home[d], sent)
    <3>1. Taken(n) = sent[c] /\ Len(n.queue) = 0 /\ sent[c] \in Nat
      BY <1>1, <2>2, SignalFacts, EmptySeq DEF Taken
    <3>2. Continues(n, sent)
      BY <1>1, <2>2, <3>1 DEF Continues
    <3> QED
      BY <1>1, <2>2, <3>2, SignalFacts, EmptySeq DEF Sound, Shaped, Deserved
  <2>4. /\ stream' \in [Device -> Stream] /\ \A e \in Device : Sound(stream[e], home[e], sent)'
        /\ (home \in [Device -> Coll])' /\ (sent \in [Coll -> 0..MaxEvents])'
        /\ (shutdown \in BOOLEAN)' /\ (moves \in 0..MaxMoves)'
        /\ stream'[d] = n /\ \A e \in Device \ {d} : stream'[e] = stream[e]
    BY <2>1, <2>3, OneStream
  <2>5. /\ active' \in [Coll -> 0..MaxListeners] /\ active'[c] = active[c] + 1
        /\ \A k \in Coll \ {c} : active'[k] = active[k]
    BY <1>1, <2>1 DEF IInv, Room
  <2>6. \A k \in Coll : Listening(k)' = IF k = c THEN Listening(k) \cup {d} ELSE Listening(k)
    BY <1>1, <2>2, <2>4 DEF Listening, Subscribed
  <2>7. d \notin Listening(c)
    BY <1>1 DEF Listening
  <2>8. ASSUME NEW k \in Coll
        PROVE  /\ active'[k] = Cardinality(Listening(k)')
               /\ \A e \in Listening(k)' : stream'[e].attached
               /\ IsFiniteSet(Listening(k)')
    <3>1. /\ active[k] = Cardinality(Listening(k)) /\ IsFiniteSet(Listening(k))
          /\ \A e \in Listening(k) : e \in Device /\ stream[e].attached
      BY DEF IInv, Counted, CountsListeners, Listening
    <3>2. CASE k = c
      <4>1. /\ IsFiniteSet(Listening(k) \cup {d})
            /\ Cardinality(Listening(k) \cup {d}) = Cardinality(Listening(k)) + 1
        BY <2>7, <3>1, <3>2, FS_AddElement
      <4>2. Listening(k)' = Listening(k) \cup {d}
        BY <2>6, <3>2
      <4>3. \A e \in Listening(k)' : stream'[e].attached
        BY <2>2, <2>4, <3>1, <4>2
      <4> QED
        BY <2>5, <3>1, <3>2, <4>1, <4>2, <4>3
    <3>3. CASE k # c
      <4>1. Listening(k)' = Listening(k) /\ active'[k] = active[k]
        BY <2>5, <2>6, <3>3
      <4>2. \A e \in Listening(k)' : stream'[e].attached
        BY <2>2, <2>4, <3>1, <4>1
      <4> QED
        BY <3>1, <4>1, <4>2
    <3> QED
      BY <3>2, <3>3
  <2>9. Counted'
    BY <2>8 DEF Counted, CountsListeners
  <2> QED
    BY <2>4, <2>5, <2>9 DEF IInv
<1> QED
  BY <1>2, <1>3

(***************************************************************************)
(* Steps around the streams.                                               *)
(***************************************************************************)

\* An event goes to the end of the queue of every listener; where it does not
\* fit, the first is lost, and the receiver knows.
LEMMA DeliveredSound ==
  ASSUME IInv, NEW d \in Device, NEW c \in Coll, Subscribed(d), stream[d].coll = c,
         sent[c] < MaxEvents, sent' = [sent EXCEPT ![c] = @ + 1]
  PROVE  /\ Delivered(d, c) \in Stream
         /\ Delivered(d, c).at = stream[d].at /\ Delivered(d, c).coll = c
         /\ Delivered(d, c).attached = stream[d].attached
         /\ Shaped(Delivered(d, c)) /\ Continues(Delivered(d, c), sent')
         /\ Deserved(Delivered(d, c), home[d])
<1> DEFINE s == stream[d]
           m == [n |-> sent[c] + 1, may |-> Allowed(d)]
           q == Append(s.queue, m)
           full == Len(s.queue) = Capacity
           p == IF full THEN Tail(q) ELSE q
           t == [s EXCEPT !.queue = p, !.lagged = @ \/ full]
<1>0. /\ s \in Stream /\ Shaped(s) /\ Continues(s, sent) /\ Deserved(s, home[d])
      /\ s.at \in {"open", "check", "wait"} /\ sent[c] \in Nat /\ sent'[c] = sent[c] + 1
      /\ s.lagged \in BOOLEAN /\ s.signedIn \in BOOLEAN
  BY StreamOf DEF Sound, Subscribed, IInv, Stream
<1>1. /\ s.queue \in Seq(Event) /\ Len(s.queue) \in Nat /\ Len(s.queue) <= Capacity
      /\ s.item \in Event /\ s.last \in Nat /\ s.item.n \in Nat
  BY <1>0, Fields DEF Shaped
<1>2. m \in Event /\ m.n = sent[c] + 1 /\ m.may = Allowed(d)
  <2>1. sent[c] + 1 \in 0..MaxEvents
    BY <1>0
  <2>2. Allowed(d) \in BOOLEAN
    BY DEF Allowed
  <2> QED
    BY <2>1, <2>2 DEF Event
<1> HIDE DEF m
<1>3. /\ q \in Seq(Event) /\ q # <<>> /\ Len(q) = Len(s.queue) + 1
      /\ \A i \in 1 .. Len(s.queue) : q[i] = s.queue[i]
      /\ q[Len(s.queue) + 1] = m
  BY <1>1, <1>2, AppendProperties
<1>4. Tail(q) \in Seq(Event) /\ Len(Tail(q)) = Len(q) - 1
      /\ \A i \in 1 .. Len(Tail(q)) : Tail(q)[i] = q[i + 1]
  BY <1>3, HeadTailProperties
<1>5. Delivered(d, c) = t
  BY DEF Delivered, m
<1> HIDE DEF q, full
<1>6. p \in Seq(Event) /\ Len(p) <= Capacity
  BY <1>1, <1>3, <1>4 DEF full
<1>7. /\ t \in Stream /\ t.at = s.at /\ t.coll = c /\ t.attached = s.attached
      /\ t.signedIn = s.signedIn /\ t.queue = p /\ t.item = s.item /\ t.last = s.last
      /\ t.lagged = (s.lagged \/ full)
  <2>1. (s.lagged \/ full) \in BOOLEAN
    OBVIOUS
  <2> QED
    BY <1>0, <1>6, <2>1 DEF Stream
<1> HIDE DEF t, p
<1>8. Shaped(t)
  BY <1>0, <1>6, <1>7 DEF Shaped
<1>9. Continues(t, sent')
  <2>0. Taken(t) = Taken(s) /\ Taken(s) \in Nat
    BY <1>1, <1>7 DEF Taken
  <2>1. ASSUME ~t.lagged
        PROVE  /\ \A i \in 1 .. Len(t.queue) : t.queue[i].n = Taken(t) + i
               /\ Taken(t) + Len(t.queue) = sent'[c]
    <3>1. ~full /\ ~s.lagged /\ t.queue = q
      BY <1>7, <2>1 DEF p
    <3>2. /\ \A i \in 1 .. Len(s.queue) : s.queue[i].n = Taken(s) + i
          /\ Taken(s) + Len(s.queue) = sent[c]
      BY <1>0, <3>1 DEF Continues
    <3>3. Taken(s) + Len(q) = sent[c] + 1
      BY <1>1, <1>3, <2>0, <3>2
    <3>4. ASSUME NEW i \in 1 .. Len(q) PROVE q[i].n = Taken(s) + i
      <4>1. CASE i \in 1 .. Len(s.queue)
        BY <1>3, <3>2, <4>1
      <4>2. CASE i = Len(s.queue) + 1
        <5>1. q[i].n = sent[c] + 1 /\ i = Len(q)
          BY <1>2, <1>3, <4>2
        <5> QED
          BY <3>3, <5>1
      <4>3. i \in 1 .. Len(s.queue) \/ i = Len(s.queue) + 1
        BY <1>1, <1>3
      <4> QED
        BY <4>1, <4>2, <4>3
    <3> QED
      BY <1>0, <2>0, <3>1, <3>3, <3>4
  <2>2. t.at = "check" /\ t.item.n > 0 => t.item.n = t.last + 1
    BY <1>0, <1>7 DEF Continues
  <2> QED
    BY <1>7, <2>1, <2>2 DEF Continues
<1>10. Deserved(t, home[d])
  <2>1. ASSUME home[d] = c, s.signedIn, NEW i \in 1 .. Len(p) PROVE p[i].may
    <3>1. \A j \in 1 .. Len(s.queue) : q[j].may
      BY <1>0, <1>3, <2>1 DEF Deserved
    <3>2. q[Len(s.queue) + 1].may
      BY <1>2, <1>3, <2>1 DEF Allowed
    <3>3. \A j \in 1 .. Len(q) : q[j].may
      <4>1. \A j \in 1 .. Len(q) : j \in 1 .. Len(s.queue) \/ j = Len(s.queue) + 1
        BY <1>1, <1>3
      <4> QED
        BY <3>1, <3>2, <4>1
    <3>4. CASE full
      <4>1. i \in 1 .. Len(Tail(q)) /\ i + 1 \in 1 .. Len(q) /\ p = Tail(q)
        BY <1>1, <1>3, <1>4, <2>1, <3>4 DEF p
      <4> QED
        BY <1>4, <3>3, <4>1
    <3>5. CASE ~full
      BY <2>1, <3>3, <3>5 DEF p
    <3> QED
      BY <3>4, <3>5
  <2> QED
    BY <1>0, <1>7, <2>1 DEF Deserved
<1> QED
  BY <1>5, <1>7, <1>8, <1>9, <1>10

LEMMA PublishInv ==
  ASSUME IInv, NEW c \in Coll, Publish(c)
  PROVE  IInv'
<1>1. /\ sent[c] < MaxEvents /\ sent' = [sent EXCEPT ![c] = @ + 1]
      /\ UNCHANGED <<home, active, shutdown, moves>>
      /\ stream' = [d \in Device |->
           IF d \in Listening(c) /\ stream[d].attached THEN Delivered(d, c) ELSE stream[d]]
  BY DEF Publish
<1>2. /\ sent' \in [Coll -> 0..MaxEvents] /\ \A k \in Coll \ {c} : sent'[k] = sent[k]
  BY <1>1 DEF IInv
<1>3. \A d \in Listening(c) : d \in Device /\ Subscribed(d) /\ stream[d].coll = c
                              /\ stream[d].attached
  BY DEF Listening, IInv, Counted, CountsListeners
<1>4. ASSUME NEW d \in Device
      PROVE  /\ stream'[d] \in Stream /\ Sound(stream'[d], home[d], sent')
             /\ stream'[d].at = stream[d].at
             /\ Subscribed(d) => /\ stream'[d].coll = stream[d].coll
                                 /\ stream'[d].attached = stream[d].attached
  <2>1. CASE d \in Listening(c)
    <3>1. stream'[d] = Delivered(d, c)
      BY <1>1, <1>3, <2>1
    <3> QED
      BY <1>1, <1>3, <2>1, <3>1, DeliveredSound DEF Sound
  <2>2. CASE d \notin Listening(c)
    <3>1. stream'[d] = stream[d]
      BY <1>1, <2>2
    <3>2. stream[d].at \in {"open", "check", "wait"} => sent'[stream[d].coll] = sent[stream[d].coll]
      BY <1>2, <2>2, StreamOf DEF Listening, Subscribed
    <3> QED
      BY <3>1, <3>2, StreamOf DEF Sound, Continues
  <2> QED
    BY <2>1, <2>2
<1>5. stream' \in [Device -> Stream]
  BY <1>1, <1>4
<1>6. Counted'
  BY <1>1, <1>4, SameListeners DEF IInv, Subscribed
<1> QED
  BY <1>1, <1>2, <1>4, <1>5, <1>6 DEF IInv

\* An account that joins may hear what is under way.
LEMMA MoveInv ==
  ASSUME IInv, NEW d \in Device, NEW c \in Coll, Move(d, c)
  PROVE  IInv'
<1> DEFINE s == stream[d]
           may == s.coll = c /\ s.signedIn
           Heard(e) == [e EXCEPT !.may = @ \/ may]
           q == [i \in DOMAIN s.queue |-> Heard(s.queue[i])]
           n == [s EXCEPT !.item = Heard(@), !.queue = q]
<1>1. s \in Stream /\ Shaped(s) /\ Continues(s, sent) /\ Deserved(s, home[d])
  BY StreamOf DEF Sound
<1>2. /\ home' = [home EXCEPT ![d] = c] /\ moves' \in 0..MaxMoves
      /\ stream' = [stream EXCEPT ![d] = n] /\ UNCHANGED <<active, sent, shutdown>>
  <2>1. /\ home' = [home EXCEPT ![d] = c] /\ moves' = moves + 1 /\ moves < MaxMoves
        /\ UNCHANGED <<active, sent, shutdown>>
    BY DEF Move
  <2>2. moves' \in 0..MaxMoves
    BY <2>1 DEF IInv
  <2>3. stream' = [stream EXCEPT ![d].item = Heard(@), ![d].queue = q]
    BY DEF Move
  <2>4. stream' = [stream EXCEPT ![d] = n]
    BY <2>3
  <2> QED
    BY <2>1, <2>2, <2>4
<1>3. may \in BOOLEAN
  BY <1>1
<1> HIDE DEF may
<1>4. ASSUME NEW e \in Event
      PROVE  Heard(e) \in Event /\ Heard(e).n = e.n /\ Heard(e).may = (e.may \/ may)
  <2>1. e.may \/ may \in BOOLEAN
    BY <1>3
  <2> QED
    BY <2>1 DEF Event
<1>5. /\ s.queue \in Seq(Event) /\ s.item \in Event /\ Len(s.queue) \in Nat
      /\ DOMAIN s.queue = 1 .. Len(s.queue)
      /\ \A i \in 1 .. Len(s.queue) : s.queue[i] \in Event
  BY <1>1, Fields, LenProperties
<1>6. Heard(Signal) = Signal
  <2>1. Signal.may = TRUE /\ (TRUE \/ may) = TRUE
    BY DEF Signal
  <2>2. Heard(Signal) = [Signal EXCEPT !.may = TRUE]
    BY <2>1
  <2>3. \A e \in Event : e.may => [e EXCEPT !.may = TRUE] = e
    BY SMT DEF Event
  <2> QED
    BY <2>2, <2>3, SignalFacts
<1> HIDE DEF Heard
<1>7. /\ q \in Seq(Event) /\ Len(q) = Len(s.queue)
      /\ \A i \in 1 .. Len(s.queue) : q[i] = Heard(s.queue[i])
  <2>1. \A i \in 1 .. Len(s.queue) : Heard(s.queue[i]) \in Event
    BY <1>4, <1>5
  <2>2. q \in [1 .. Len(s.queue) -> Event]
    BY <1>5, <2>1
  <2>3. q \in Seq(Event)
    BY <1>5, <2>2, SeqDef
  <2>4. DOMAIN q = 1 .. Len(q) /\ Len(q) \in Nat /\ DOMAIN q = 1 .. Len(s.queue)
    BY <2>2, <2>3, LenProperties
  <2>5. Len(q) = Len(s.queue)
    BY <1>5, <2>4
  <2>6. \A i \in 1 .. Len(s.queue) : q[i] = Heard(s.queue[i])
    BY <1>5
  <2> HIDE DEF q
  <2> QED
    BY <2>3, <2>5, <2>6
<1> HIDE DEF q
<1>8. /\ n \in Stream /\ n.at = s.at /\ n.coll = s.coll /\ n.signedIn = s.signedIn
      /\ n.attached = s.attached /\ n.lagged = s.lagged /\ n.last = s.last
      /\ n.item = Heard(s.item) /\ n.queue = q
  BY <1>1, <1>4, <1>5, <1>7 DEF Stream
<1> HIDE DEF n
<1>9. Shaped(n)
  <2>1. s.queue = <<>> => q = <<>>
    BY <1>5, <1>7, EmptySeq
  <2>2. s.item = Signal => n.item = Signal
    BY <1>6, <1>8
  <2>3. n.item.n = s.item.n
    BY <1>4, <1>5, <1>8
  <2> QED
    BY <1>1, <1>5, <1>7, <1>8, <2>1, <2>2, <2>3 DEF Shaped
<1>10. Continues(n, sent)
  <2>1. n.item.n = s.item.n /\ Taken(n) = Taken(s)
    BY <1>4, <1>5, <1>8 DEF Taken
  <2>2. \A i \in 1 .. Len(s.queue) : q[i].n = s.queue[i].n
    BY <1>4, <1>5, <1>7
  <2> QED
    BY <1>1, <1>5, <1>7, <1>8, <2>1, <2>2 DEF Continues
<1>11. Deserved(n, c)
  <2>1. ASSUME c = n.coll, n.signedIn
        PROVE  n.item.may /\ \A i \in 1 .. Len(n.queue) : n.queue[i].may
    <3>1. may
      BY <1>8, <2>1 DEF may
    <3>2. \A e \in Event : Heard(e).may
      BY <1>4, <3>1
    <3> QED
      BY <1>5, <1>7, <1>8, <3>2
  <2> QED
    BY <2>1 DEF Deserved
<1>12. /\ stream' \in [Device -> Stream] /\ stream'[d] = n /\ home' \in [Device -> Coll]
       /\ home'[d] = c
       /\ \A e \in Device \ {d} : stream'[e] = stream[e] /\ home'[e] = home[e]
  BY <1>2, <1>8 DEF IInv
<1>13. \A e \in Device : Sound(stream'[e], home'[e], sent')
  BY <1>2, <1>9, <1>10, <1>11, <1>12, StreamOf DEF Sound
<1>14. Counted'
  BY <1>2, <1>8, <1>12, SameListeners DEF IInv, Subscribed
<1> QED
  BY <1>2, <1>12, <1>13, <1>14 DEF IInv

LEMMA NextInv == IInv /\ [Next]_vars => IInv'
<1> SUFFICES ASSUME IInv, [Next]_vars PROVE IInv'
  OBVIOUS
<1>1. ASSUME NEW d \in Device, Ensure(d) \/ Subscribe(d) \/ Start(d) \/ Check(d) \/ Receive(d)
      PROVE  IInv'
  BY <1>1, EnsureInv, SubscribeInv, StartInv, CheckInv, ReceiveInv
<1>2. ASSUME NEW d \in Device, Heartbeat(d) \/ Stop(d) \/ Disconnect(d) \/ SignOut(d)
      PROVE  IInv'
  BY <1>2, HeartbeatInv, EndInv, SignOutInv DEF Stop, Disconnect
<1>3. ASSUME NEW d \in Device, NEW c \in Coll, Move(d, c) PROVE IInv'
  BY <1>3, MoveInv
<1>4. ASSUME NEW c \in Coll, Publish(c) PROVE IInv'
  BY <1>4, PublishInv
<1>5. CASE Shutdown
  <2>1. Counted'
    BY <1>5, SameListeners DEF Shutdown, IInv, Subscribed
  <2> QED
    BY <1>5, <2>1 DEF Shutdown, IInv
<1>6. CASE UNCHANGED vars
  <2>1. Counted'
    BY <1>6, SameListeners DEF vars, IInv, Subscribed
  <2> QED
    BY <1>6, <2>1 DEF vars, IInv
<1> QED
  BY <1>1, <1>2, <1>3, <1>4, <1>5, <1>6 DEF Next

(***************************************************************************)
(* Theorems.                                                               *)
(***************************************************************************)

\* The inductive invariant holds in every reachable state: what a stream holds
\* continues what it has passed on, and whoever listens may hear all of it.
THEOREM LiveInvariant == Spec => []IInv
<1> QED
  BY InitInv, NextInv, PTL DEF Spec

\* Streams, counts and numbers of events keep their types; no queue outgrows the
\* channel.
THEOREM Typed == Spec => []TypeOK
<1>1. ASSUME IInv PROVE TypeOK
  <2>1. ASSUME NEW d \in Device
        PROVE  LET s == stream[d]
               IN /\ s.at \in {"off", "ensured", "open", "check", "wait"}
                  /\ s.coll \in {None} \cup Coll
                  /\ {s.signedIn, s.heard, s.lagged, s.attached} \subseteq BOOLEAN
                  /\ Len(s.queue) <= Capacity /\ \A i \in DOMAIN s.queue : s.queue[i] \in Event
                  /\ s.item \in Event /\ s.last \in 0..MaxEvents
    <3>1. stream[d] \in Stream /\ Shaped(stream[d])
      BY <1>1, StreamOf DEF Sound
    <3>2. \A i \in DOMAIN stream[d].queue : stream[d].queue[i] \in Event
      BY <3>1, Fields, LenProperties
    <3> QED
      BY <3>1, <3>2 DEF Shaped, Stream
  <2> QED
    BY <1>1, <2>1 DEF IInv, TypeOK
<1> QED
  BY <1>1, LiveInvariant, PTL

\* The hub's count is that of the streams there are, however they ended, and none
\* listens to a channel that was replaced (Hub::subscribe, Drop of Subscription).
THEOREM CountsAreTrue == Spec => []CountsListeners
<1>1. IInv => CountsListeners
  BY DEF IInv, Counted
<1> QED
  BY <1>1, LiveInvariant, PTL

\* A stream passes on every event after it subscribed, in order, until it ends: a
\* receiver that lagged is never read again (events, "Lagged").
THEOREM NoGaps == Spec => []NoSilentGap
<1>1. ASSUME IInv PROVE NoSilentGap
  BY <1>1 DEF IInv, Sound, Continues, NoSilentGap
<1> QED
  BY <1>1, LiveInvariant, PTL

\* What a stream that passes its check may have in hand.
PassesOnDeserved ==
  \A d \in Device : stream[d].at = "check" /\ stream'[d].at = "wait" => stream[d].item.may

LEMMA PassingStep == IInv /\ [Next]_vars => [PassesOnDeserved]_vars
<1> SUFFICES ASSUME IInv, Next, NEW d \in Device, stream[d].at = "check", stream'[d].at = "wait"
             PROVE  stream[d].item.may
  BY DEF PassesOnDeserved
<1>0. stream[d] \in Stream /\ Deserved(stream[d], home[d])
  BY StreamOf DEF Sound
<1>1. SUFFICES Allowed(d)
  BY <1>0 DEF Deserved, Allowed
<1>2. \A e \in Device : End(e) => stream'[d].at \in {"off", "check"}
  BY <1>0, OffSound DEF End, Stream
<1>3. \A c \in Coll, e \in Device : Publish(c) \/ Move(e, c) => stream'[d].at = "check"
  <2>1. \A c \in Coll : Delivered(d, c).at = stream[d].at
    BY <1>0 DEF Delivered, Stream
  <2>2. \A c \in Coll : Publish(c) => stream'[d] = Delivered(d, c) \/ stream'[d] = stream[d]
    BY DEF Publish
  <2>3. ASSUME NEW c \in Coll, NEW e \in Device, Move(e, c) PROVE stream'[d].at = "check"
    <3>1. e # d => stream'[d] = stream[d]
      BY <2>3 DEF Move, IInv
    <3>2. e = d => stream'[d].at = stream[d].at
      BY <1>0, <2>3 DEF Move, IInv, Stream
    <3> QED
      BY <3>1, <3>2
  <2> QED
    BY <2>1, <2>2, <2>3
<1>4. ASSUME NEW e \in Device,
             Ensure(e) \/ Subscribe(e) \/ Start(e) \/ Receive(e) \/ Heartbeat(e)
             \/ Stop(e) \/ Disconnect(e) \/ SignOut(e)
      PROVE  stream'[d].at # "wait"
  <2>1. CASE End(e)
    BY <1>2, <2>1
  <2>2. CASE Ensure(e) \/ Heartbeat(e)
    BY <1>0, <2>2 DEF Ensure, Heartbeat, IInv, Stream
  <2>3. CASE SignOut(e)
    <3>1. stream'[d] \in {stream[d], [stream[d] EXCEPT !.signedIn = FALSE]}
      BY <1>0, <2>3 DEF SignOut, IInv
    <3> QED
      BY <1>0, <3>1 DEF Stream
  <2>4. CASE Subscribe(e) /\ ~End(e)
    BY <1>0, <2>4 DEF Subscribe, IInv, Stream
  <2>5. CASE (Start(e) \/ Receive(e)) /\ ~End(e)
    BY <1>0, <2>5 DEF Start, Receive, IInv, Stream
  <2> QED
    BY <1>4, <2>1, <2>2, <2>3, <2>4, <2>5 DEF Stop, Disconnect
<1>5. ASSUME NEW e \in Device, Check(e) PROVE e = d /\ MayHear(d)
  <2>1. ~End(e)
    BY <1>2
  <2>2. stream' = [stream EXCEPT ![e] = stream'[e]] /\ MayHear(e)
    BY <1>5, <2>1 DEF Check, IInv
  <2> QED
    BY <2>2 DEF IInv
<1> QED
  BY <1>2, <1>3, <1>4, <1>5 DEF Next, MayHear, Shutdown

\* An event published after an account left, or was signed out, never reaches its
\* stream: the query that precedes each event judges what was queued before.
THEOREM LeaversHearNothing == Spec => LeaverHearsNothing
<1>1. Spec => [][PassesOnDeserved]_vars
  BY PassingStep, LiveInvariant, PTL DEF Spec
<1> QED
  BY <1>1 DEF LeaverHearsNothing, PassesOnDeserved

=============================================================================

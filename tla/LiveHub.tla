------------------------------ MODULE LiveHub ------------------------------
(* The live updates of a collection: the hub with one broadcast channel per *)
(* collection, the event streams of the devices that listen, and what ends  *)
(* them.  A device belongs to one account and has one stream at a time; its *)
(* account moves between collections by accept and leave.                   *)
EXTENDS Integers, FiniteSets, Sequences

CONSTANTS
  Device,
  Coll,          \* collections
  MaxListeners,  \* streams of one collection (8)
  Capacity,      \* events a broadcast channel keeps (1024)
  MaxEvents,     \* bound: events published in all
  MaxMoves,      \* bound: changes of membership
  None

ASSUME LimitsAssumption ==
  /\ MaxListeners \in Nat \ {0} /\ Capacity \in Nat \ {0}
  /\ MaxEvents \in Nat /\ MaxMoves \in Nat

VARIABLES
  home,      \* the collection of each device's account
  stream,    \* the request and stream of each device
  active,    \* listeners the hub counts; a collection with none has no channel
  sent,      \* events published for each collection
  shutdown,  \* the shutdown signal has been given
  moves

vars == <<home, stream, active, sent, shutdown, moves>>

\* may: the account was allowed to hear the event at some time since it was
\* published.  Number 0 is the ready event or a heartbeat.
Event == [n : 0..MaxEvents, may : BOOLEAN]
Signal == [n |-> 0, may |-> TRUE]

\* heard: the watch receiver was created after the signal; lagged: an event was
\* overwritten before it was received; attached: the hub still sends to it.
Off == [at |-> "off", coll |-> None, signedIn |-> TRUE, heard |-> FALSE, queue |-> <<>>,
        lagged |-> FALSE, attached |-> FALSE, item |-> Signal, last |-> 0]

TypeOK ==
  /\ home \in [Device -> Coll]
  /\ \A d \in Device :
       LET s == stream[d]
       IN /\ s.at \in {"off", "ensured", "open", "check", "wait"}
          /\ s.coll \in {None} \cup Coll
          /\ {s.signedIn, s.heard, s.lagged, s.attached} \subseteq BOOLEAN
          /\ Len(s.queue) <= Capacity /\ \A i \in DOMAIN s.queue : s.queue[i] \in Event
          /\ s.item \in Event /\ s.last \in 0..MaxEvents
  /\ active \in [Coll -> 0..MaxListeners]
  /\ sent \in [Coll -> 0..MaxEvents]
  /\ shutdown \in BOOLEAN
  /\ moves \in 0..MaxMoves

Init ==
  /\ home \in [Device -> Coll]
  /\ stream = [d \in Device |-> Off]
  /\ active = [c \in Coll |-> 0]
  /\ sent = [c \in Coll |-> 0]
  /\ shutdown = FALSE /\ moves = 0

-----------------------------------------------------------------------------
(* Helpers.                                                                  *)

Subscribed(d) == stream[d].at \in {"open", "check", "wait"}
Listening(c) == {d \in Device : Subscribed(d) /\ stream[d].coll = c}

\* The query before each event: still a member, and the session still there.
Allowed(d) == home[d] = stream[d].coll /\ stream[d].signedIn

\* Mutant: only heartbeats are checked.
BeatsChecked(d) == stream[d].item.n > 0 \/ Allowed(d)
MayHear(d) == Allowed(d)

\* Mutant: one listener too many.
RoomForOneMore(c) == active[c] <= MaxListeners
Room(c) == active[c] < MaxListeners

\* Dropping a subscription: the last one takes the channel with it.
\* Mutant: the first one does.
FirstCloses(c) == 0
Left(c) == active[c] - 1

End(d) ==
  LET c == stream[d].coll
      closed == Subscribed(d) /\ Left(c) = 0
  IN /\ stream' = [e \in Device |->
                     CASE e = d -> Off
                       [] e # d /\ closed /\ stream[e].coll = c ->
                            [stream[e] EXCEPT !.attached = FALSE]
                       [] OTHER -> stream[e]]
     /\ active' = IF Subscribed(d) THEN [active EXCEPT ![c] = Left(c)] ELSE active

-----------------------------------------------------------------------------
(* A device listens.                                                         *)

\* events(): ensure() reads the membership, and the hub gives a place or none.
Ensure(d) ==
  /\ stream[d].at = "off" /\ ~shutdown
  /\ stream' = [stream EXCEPT ![d].at = "ensured", ![d].coll = home[d]]
  /\ UNCHANGED <<home, active, sent, shutdown, moves>>

Subscribe(d) ==
  LET c == stream[d].coll
  IN /\ stream[d].at = "ensured"
     /\ \/ /\ Room(c)
           /\ active' = [active EXCEPT ![c] = @ + 1]
           /\ stream' = [stream EXCEPT ![d].at = "open", ![d].heard = shutdown,
                                       ![d].attached = TRUE, ![d].last = sent[c]]
        \/ ~Room(c) /\ End(d)
     /\ UNCHANGED <<home, sent, shutdown, moves>>

\* A receiver created after the signal never sees it change: the stream looks at
\* it once before the ready event.  Mutant: it does not.
OpensAnyway == FALSE
DownAtStart == shutdown

Start(d) ==
  /\ stream[d].at = "open"
  /\ \/ DownAtStart /\ End(d)
     \/ /\ ~DownAtStart
        /\ stream' = [stream EXCEPT ![d].at = "check"]
        /\ UNCHANGED active
  /\ UNCHANGED <<home, sent, shutdown, moves>>

\* Each event is passed on only after a query; a refusal or an error ends the
\* stream.
Check(d) ==
  /\ stream[d].at = "check"
  /\ \/ /\ MayHear(d)
        /\ stream' = [stream EXCEPT ![d].at = "wait", ![d].item = Signal,
                        ![d].last = IF stream[d].item.n > 0 THEN stream[d].item.n ELSE @]
        /\ UNCHANGED active
     \/ End(d)
  /\ UNCHANGED <<home, sent, shutdown, moves>>

\* The select of the loop: an event, a heartbeat or the signal.
\* Mutant: a receiver that lagged goes on with what is left.
LagIgnored(d) == ~stream[d].attached
Broken(d) == stream[d].lagged \/ ~stream[d].attached

Receive(d) ==
  /\ stream[d].at = "wait"
  /\ \/ Broken(d) /\ End(d)
     \/ /\ ~Broken(d) /\ stream[d].queue # <<>>
        /\ stream' = [stream EXCEPT ![d].at = "check", ![d].item = Head(stream[d].queue),
                                    ![d].queue = Tail(@)]
        /\ UNCHANGED active
  /\ UNCHANGED <<home, sent, shutdown, moves>>

Heartbeat(d) ==
  /\ stream[d].at = "wait"
  /\ stream' = [stream EXCEPT ![d].at = "check"]
  /\ UNCHANGED <<home, active, sent, shutdown, moves>>

Stop(d) ==
  /\ stream[d].at = "wait" /\ shutdown /\ ~stream[d].heard
  /\ End(d)
  /\ UNCHANGED <<home, sent, shutdown, moves>>

\* The client goes away: the request or the stream is dropped where it is.
Disconnect(d) ==
  /\ stream[d].at # "off"
  /\ End(d)
  /\ UNCHANGED <<home, sent, shutdown, moves>>

-----------------------------------------------------------------------------
(* What happens around it.                                                   *)

\* A write publishes after its commit, under the collection it began with.
Delivered(d, c) ==
  LET s == stream[d]
      q == Append(s.queue, [n |-> sent[c] + 1, may |-> Allowed(d)])
      full == Len(s.queue) = Capacity
  IN [s EXCEPT !.queue = IF full THEN Tail(q) ELSE q, !.lagged = @ \/ full]

Publish(c) ==
  /\ sent[c] < MaxEvents /\ \A b \in Coll \ {c} : sent[b] = 0
  /\ stream' = [d \in Device |->
                  IF d \in Listening(c) /\ stream[d].attached THEN Delivered(d, c) ELSE stream[d]]
  /\ sent' = [sent EXCEPT ![c] = @ + 1]
  /\ UNCHANGED <<home, active, shutdown, moves>>

\* Accept or leave.  Whoever joins may hear what is under way.
Move(d, c) ==
  LET Heard(e) == [e EXCEPT !.may = @ \/ (stream[d].coll = c /\ stream[d].signedIn)]
      queue == stream[d].queue
  IN /\ moves < MaxMoves /\ home[d] # c
     /\ home' = [home EXCEPT ![d] = c]
     /\ stream' = [stream EXCEPT ![d].item = Heard(@),
                                 ![d].queue = [i \in DOMAIN queue |-> Heard(queue[i])]]
     /\ moves' = moves + 1
     /\ UNCHANGED <<active, sent, shutdown>>

\* The session of the stream is deleted or expires.
SignOut(d) ==
  /\ Subscribed(d) /\ stream[d].signedIn
  /\ stream' = [stream EXCEPT ![d].signedIn = FALSE]
  /\ UNCHANGED <<home, active, sent, shutdown, moves>>

Shutdown ==
  /\ ~shutdown /\ shutdown' = TRUE
  /\ UNCHANGED <<home, stream, active, sent, moves>>

Next ==
  \/ \E d \in Device :
       \/ Ensure(d) \/ Subscribe(d) \/ Start(d) \/ Check(d) \/ Receive(d) \/ Heartbeat(d)
       \/ Stop(d) \/ Disconnect(d) \/ SignOut(d)
       \/ \E c \in Coll : Move(d, c)
  \/ \E c \in Coll : Publish(c)
  \/ Shutdown

\* The runtime polls a stream whose client reads, and the timer ticks.  The
\* select picks at random among what is ready, so the signal is not passed over
\* for ever.
Polled(d) == Subscribe(d) \/ Start(d) \/ Check(d) \/ Heartbeat(d)

Fairness == \A d \in Device : WF_vars(Polled(d)) /\ SF_vars(Stop(d))

Spec == Init /\ [][Next]_vars /\ Fairness

-----------------------------------------------------------------------------
(* Properties.                                                               *)

\* The hub's count is that of the streams there are, however they ended, and
\* each of them listens to the channel the hub sends to: no place is lost to a
\* stream that is gone, and no stream is left on a channel that was replaced.
CountsListeners ==
  \A c \in Coll :
    /\ active[c] = Cardinality(Listening(c))
    /\ \A d \in Listening(c) : stream[d].attached

\* An event published after an account left, or was signed out, never reaches
\* its stream, whatever was queued and whenever the check was made.
LeaverHearsNothing ==
  [][\A d \in Device :
       stream[d].at = "check" /\ stream'[d].at = "wait" => stream[d].item.may]_vars

\* A stream passes on every event from the one after it subscribed, in order; if
\* one was lost to the capacity of the channel it ends instead, so that the
\* client knows it must reconnect.
NoSilentGap ==
  \A d \in Device :
    stream[d].at = "check" /\ stream[d].item.n > 0 => stream[d].item.n = stream[d].last + 1

\* A stream that has lost its right to the collection ends even if nothing happens
\* there, unless the account comes back; and after the signal every stream ends,
\* also one that was being opened, so that the graceful end is not held up.
StreamsEnd ==
  \A d \in Device :
    (shutdown /\ stream[d].at # "off") \/ (Subscribed(d) /\ ~Allowed(d))
      ~> stream[d].at = "off" \/ (Allowed(d) /\ ~shutdown)
=============================================================================

-------------------------- MODULE DeckEditorProofs --------------------------
(***************************************************************************)
(* What DeckEditor promises, proved for any number of versions, edits and  *)
(* acts, and whatever the network does.                                    *)
(***************************************************************************)
EXTENDS DeckEditorInv, SequenceTheorems, TLAPS

USE BoundsAssumption, GivenAssumption, NoneAssumption, AnswerAssumption

ServerType == [active : Version, used : SUBSET Version, list : [Version -> {None} \cup List]]

ServerTypes == Exists(server.active) /\ server \in ServerType
ScreenTypes == /\ cache \in Deck /\ made \in 0 .. MaxEdits /\ acts \in 0 .. MaxActs
               /\ loads \in [{"query", "focus"} -> {None, Sent} \cup Deck]
HistoryTypes == handed \in [Version -> List] /\ requeued \in [Version -> {None} \cup List]
QueueTypes  == latest \in [Version -> List] /\ saves \in [Version -> Save]
MicroTypes  == micro \in Seq(Call)
OpenTypes   == requests \subseteq Request /\ dialogs \subseteq Waiter

ServerKnown == \A v \in Version : Exists(v) => v \in server.used
ScreenKnown == cache.version \in server.used /\ \A how \in DOMAIN loads : Known(loads[how])
SavesKnown  == \A v \in Version : Known(saves[v].answer)
OpenKnown   == \A q \in requests : Known(q.answer)

LEMMA Parts ==
  IInv <=> /\ ServerTypes /\ ScreenTypes /\ HistoryTypes /\ QueueTypes /\ MicroTypes
           /\ OpenTypes /\ ServerKnown /\ ScreenKnown /\ SavesKnown /\ OpenKnown
           /\ SaveFacts /\ MicroFacts /\ RequestFacts
<1>1. HistoryTypes => latest \in [Version -> List]
  BY DEF HistoryTypes, latest
<1> QED
  BY <1>1 DEF IInv, TypeOK, ServerTypes, ScreenTypes, HistoryTypes, QueueTypes, MicroTypes, OpenTypes,
              Decks, ServerType, ServerKnown, ScreenKnown, SavesKnown, OpenKnown, Save

LEMMA PartsAfter ==
  ASSUME ServerTypes', ScreenTypes', HistoryTypes', QueueTypes', MicroTypes', OpenTypes',
         ServerKnown', ScreenKnown', SavesKnown', OpenKnown',
         SaveFacts', MicroFacts', RequestFacts'
  PROVE  IInv'
BY DEF IInv, TypeOK, ServerTypes, ScreenTypes, HistoryTypes, QueueTypes, MicroTypes, OpenTypes,
       Decks, ServerType, ServerKnown, ScreenKnown, SavesKnown, OpenKnown, Save

\* The list that was last put in each queue, after a step that puts none in one,
\* and after the editor has put one in the queue of v.
LEMMA SameHistory ==
  ASSUME IInv, UNCHANGED history
  PROVE  HistoryTypes' /\ latest' = latest
BY Parts DEF HistoryTypes, history, latest

LEMMA PutFacts ==
  ASSUME IInv, NEW v \in Version, NEW list \in List, Put(v, list)
  PROVE  HistoryTypes' /\ latest' = [latest EXCEPT ![v] = list]
BY Parts DEF HistoryTypes, Put, latest

LEMMA SaveOf ==
  ASSUME IInv, NEW v \in Version
  PROVE  /\ saves[v] \in Save /\ latest[v] \in List /\ Shape(saves[v])
         /\ Kept(saves[v], latest[v], v, server) /\ Joined(saves[v]) /\ Resumed(v)
         /\ Known(saves[v].answer)
BY Parts DEF QueueTypes, SaveFacts, SavesKnown

LEMMA ListsAreListed == \A list \in List : list # None
BY DEF List

LEMMA QuietFacts ==
  /\ Quiet \in Save /\ Quiet.pending = None /\ Quiet.first = None /\ Quiet.current = None
  /\ Quiet.answer = None /\ Quiet.waiting = <<>> /\ Quiet.status = "idle" /\ Quiet.timer = FALSE
<1>1. <<>> \in Seq(Waiter)
  BY EmptySeq
<1> QED
  BY <1>1 DEF Quiet, Save

(***************************************************************************)
(* The queue of one version.                                               *)
(***************************************************************************)

\* What flushSaveKey makes of a queue.
Flushes(s, then) ==
  IF s.first # None
  THEN [s EXCEPT !.timer = FALSE, !.waiting = Append(@, then)]
  ELSE IF s.pending = None THEN [s EXCEPT !.timer = FALSE]
  ELSE [Quiet EXCEPT !.first = s.pending, !.current = s.pending,
                     !.waiting = <<then>>, !.status = "saving"]

\* A flush leaves nothing that waits without a save to come.
LEMMA FlushesFacts ==
  ASSUME NEW s \in Save, Shape(s), NEW then \in Waiter, Proper(then),
         NEW v \in Version, NEW list \in List, NEW d, Kept(s, list, v, d),
         NEW n, n = Flushes(s, then)
  PROVE  /\ n \in Save /\ Shape(n) /\ Joined(n) /\ Kept(n, list, v, d)
         /\ n.pending # None => n.first # None
         /\ n.answer \in {None, s.answer} /\ n.status \in {s.status, "saving"}
<1>0. s.waiting \in Seq(Waiter)
  BY DEF Save
<1>1. CASE s.first # None
  <2> DEFINE w == Append(s.waiting, then)
  <2>1. w \in Seq(Waiter) /\ Len(w) = Len(s.waiting) + 1 /\ Len(s.waiting) \in Nat
        /\ DOMAIN w = 1 .. Len(s.waiting) + 1 /\ DOMAIN s.waiting = 1 .. Len(s.waiting)
        /\ \A i \in 1 .. Len(s.waiting) : w[i] = s.waiting[i]
        /\ w[Len(s.waiting) + 1] = then
    BY <1>0, AppendProperties, LenProperties
  <2>2. s.waiting # <<>>
    BY <1>1 DEF Shape
  <2>3. Len(s.waiting) > 0
    BY <1>0, <2>2, EmptySeq
  <2>4. \A i \in DOMAIN w : Proper(w[i])
    BY <2>1 DEF Shape
  <2>5. w # <<>> /\ Len(w) > 1
    BY <2>1, <2>3, EmptySeq
  <2>6. n = [s EXCEPT !.timer = FALSE, !.waiting = w]
    BY <1>1 DEF Flushes, Save
  <2> HIDE DEF w
  <2>7. /\ n \in Save /\ n.timer = FALSE /\ n.waiting = w /\ n.pending = s.pending
        /\ n.first = s.first /\ n.current = s.current /\ n.answer = s.answer /\ n.status = s.status
    BY <2>1, <2>6 DEF Save
  <2> QED
    BY <1>1, <2>4, <2>5, <2>7 DEF Shape, Joined, Kept
<1>2. CASE s.first = None /\ s.pending = None
  <2>1. n = [s EXCEPT !.timer = FALSE]
    BY <1>2 DEF Flushes
  <2>2. /\ n \in Save /\ n.waiting = s.waiting /\ n.pending = s.pending
        /\ n.first = s.first /\ n.current = s.current /\ n.answer = s.answer /\ n.status = s.status
    BY <2>1 DEF Save
  <2> QED
    BY <1>2, <2>2 DEF Shape, Joined, Kept
<1>3. CASE s.first = None /\ s.pending # None
  <2>1. n = [Quiet EXCEPT !.first = s.pending, !.current = s.pending,
                          !.waiting = <<then>>, !.status = "saving"]
    BY <1>3 DEF Flushes
  <2>2. /\ <<then>> \in Seq(Waiter) /\ <<then>> # <<>> /\ DOMAIN <<then>> = {1} /\ <<then>>[1] = then
    OBVIOUS
  <2>3. s.pending \in List /\ s.pending \in {None} \cup List
    BY <1>3 DEF Save
  <2>4. /\ n \in Save /\ n.waiting = <<then>> /\ n.pending = None
        /\ n.first = s.pending /\ n.current = s.pending /\ n.answer = None /\ n.status = "saving"
    BY <2>1, <2>2, <2>3, QuietFacts DEF Save
  <2>5. \A i \in DOMAIN n.waiting : Proper(n.waiting[i])
    BY <2>2, <2>4
  <2> QED
    BY <1>3, <2>2, <2>4, <2>5 DEF Shape, Joined, Kept
<1> QED
  BY <1>1, <1>2, <1>3

LEMMA FlushedIs ==
  ASSUME IInv, NEW v \in Version, NEW t \in Save, NEW then,
         NEW s \in [Version -> Save], s[v] = t, \A u \in Version \ {v} : s[u] = saves[u]
  PROVE  Flushed(s, v, then) = [saves EXCEPT ![v] = Flushes(t, then)]
<1>1. saves \in [Version -> Save] /\ s = [saves EXCEPT ![v] = t]
  BY Parts DEF QueueTypes
<1>2. CASE t.first # None
  BY <1>1, <1>2 DEF Flushed, Flushes, Save
<1>3. CASE t.first = None /\ t.pending = None
  BY <1>1, <1>3 DEF Flushed, Flushes
<1>4. CASE t.first = None /\ t.pending # None
  BY <1>1, <1>4 DEF Flushed, Flushes
<1> QED
  BY <1>2, <1>3, <1>4

(***************************************************************************)
(* Steps of the queue.                                                     *)
(***************************************************************************)

\* One version of the queue changes.
LEMMA QueueStep ==
  ASSUME IInv, NEW v \in Version, NEW n \in Save, saves' = [saves EXCEPT ![v] = n],
         latest' \in [Version -> List], \A u \in Version \ {v} : latest'[u] = latest[u],
         UNCHANGED server, Shape(n), Kept(n, latest'[v], v, server), Joined(n), Known(n.answer),
         n.pending # None /\ ~n.timer /\ n.first = None => n.status = "error" \/ Due(v)',
         \A u \in Version \ {v} : (saves[u].pending # None /\ Due(u)) =>
                                    (saves[u].status = "error" \/ Due(u)')
  PROVE  QueueTypes' /\ SaveFacts' /\ SavesKnown'
<1>1. /\ saves' \in [Version -> Save] /\ saves'[v] = n
      /\ \A u \in Version \ {v} : saves'[u] = saves[u]
  BY Parts DEF QueueTypes
<1>2. ASSUME NEW u \in Version
      PROVE  /\ (Shape(saves[u]) /\ Kept(saves[u], latest[u], u, server))'
             /\ Joined(saves[u])' /\ Resumed(u)' /\ Known(saves[u].answer)'
  <2>1. CASE u = v
    BY <1>1, <2>1 DEF Shape, Kept, Joined, Resumed, Known, Proper
  <2>2. CASE u # v
    <3>1. saves'[u] = saves[u] /\ latest'[u] = latest[u]
      BY <1>1, <2>2
    <3>2. /\ Shape(saves[u]) /\ Kept(saves[u], latest[u], u, server)
          /\ Joined(saves[u]) /\ Resumed(u) /\ Known(saves[u].answer)
      BY SaveOf
    <3>3. (Shape(saves[u]) /\ Kept(saves[u], latest[u], u, server))'
          /\ Joined(saves[u])' /\ Known(saves[u].answer)'
      BY <3>1, <3>2 DEF Shape, Kept, Joined, Known, Proper
    <3>4. Resumed(u)'
      BY <2>2, <3>1, <3>2 DEF Resumed
    <3> QED
      BY <3>3, <3>4
  <2> QED
    BY <2>1, <2>2
<1> QED
  BY <1>1, <1>2 DEF QueueTypes, SaveFacts, SavesKnown

\* Continuations stay fine while no version fails and none is given again.
LEMMA StaysFine ==
  ASSUME IInv, NEW c \in Call, Fine(c), server.used \subseteq server'.used,
         saves'[c.at].status = "error" => saves[c.at].status = "error"
  PROVE  Fine(c)'
BY DEF Fine, Honest, Known, Proper

LEMMA MicroOf ==
  ASSUME IInv, NEW i \in DOMAIN micro
  PROVE  micro[i] \in Call /\ Fine(micro[i])
<1>1. micro \in Seq(Call)
  BY Parts DEF MicroTypes
<1> QED
  BY <1>1, Parts, LenProperties, ElementOfSeq DEF MicroFacts

\* The continuations after the first.
LEMMA TailFacts ==
  ASSUME IInv, micro # <<>>
  PROVE  /\ Head(micro) \in Call /\ Fine(Head(micro)) /\ Tail(micro) \in Seq(Call)
         /\ \A i \in DOMAIN Tail(micro) : Tail(micro)[i] \in Call /\ Fine(Tail(micro)[i])
         /\ \A i \in DOMAIN micro : micro[i] = Head(micro)
                                    \/ \E j \in DOMAIN Tail(micro) : Tail(micro)[j] = micro[i]
<1>1. /\ micro \in Seq(Call) /\ Len(micro) \in Nat /\ DOMAIN micro = 1 .. Len(micro)
      /\ Head(micro) \in Call /\ Tail(micro) \in Seq(Call) /\ Len(Tail(micro)) = Len(micro) - 1
      /\ \A i \in 1 .. Len(Tail(micro)) : Tail(micro)[i] = micro[i + 1]
  BY Parts, LenProperties, HeadTailProperties DEF MicroTypes
<1>2. DOMAIN Tail(micro) = 1 .. Len(micro) - 1
  BY <1>1, LenProperties
<1>3. Head(micro) = micro[1] /\ 1 \in DOMAIN micro
  <2>1. Len(micro) # 0
    BY <1>1, EmptySeq
  <2> QED
    BY <1>1, <2>1
<1>4. \A i \in DOMAIN Tail(micro) : i + 1 \in DOMAIN micro /\ Tail(micro)[i] = micro[i + 1]
  BY <1>1, <1>2
<1>5. \A i \in DOMAIN micro : i = 1 \/ (i - 1 \in DOMAIN Tail(micro) /\ Tail(micro)[i - 1] = micro[i])
  BY <1>1, <1>2
<1> QED
  BY <1>1, <1>3, <1>4, <1>5, MicroOf

\* A flush of v, whose queue is t, by which only what is due may become less.
LEMMA FlushStep ==
  ASSUME IInv, NEW v \in Version, NEW t \in Save,
         NEW s \in [Version -> Save], s[v] = t, \A u \in Version \ {v} : s[u] = saves[u],
         Shape(t), Known(t.answer), t.status = saves[v].status,
         latest' \in [Version -> List], \A u \in Version \ {v} : latest'[u] = latest[u],
         Kept(t, latest'[v], v, server), UNCHANGED server,
         NEW then \in Waiter, Proper(then),
         t.pending # None \/ then.do \notin {"activate", "create"},
         NEW due \in Seq(Call), \A i \in DOMAIN due : Fine(due[i]),
         \A u \in Version \ {v} : (saves[u].pending # None /\ Due(u)) =>
           \E i \in DOMAIN due : due[i].at = u /\ due[i].chained /\ due[i].saved # Failed,
         Flush(s, v, then, due)
  PROVE  QueueTypes' /\ SaveFacts' /\ SavesKnown' /\ MicroTypes' /\ MicroFacts'
<1> DEFINE n == Flushes(t, then)
           c == [at |-> v, then |-> then, chained |-> FALSE, saved |-> None]
<1>1. /\ n \in Save /\ Shape(n) /\ Joined(n) /\ Kept(n, latest'[v], v, server)
      /\ n.pending # None => n.first # None
      /\ n.answer \in {None, t.answer} /\ n.status \in {t.status, "saving"}
  <2>1. latest'[v] \in List
    OBVIOUS
  <2> QED
    BY <2>1, FlushesFacts
<1>2. saves' = [saves EXCEPT ![v] = n]
  <2>1. saves' = Flushed(s, v, then)
    BY DEF Flush
  <2>2. Flushed(s, v, then) = [saves EXCEPT ![v] = Flushes(t, then)]
    BY FlushedIs
  <2> QED
    BY <2>1, <2>2
<1>3. micro' = due \/ (t.pending = None /\ micro' = Append(due, c))
  <2>1. s[v] = t
    BY Parts DEF QueueTypes
  <2> QED
    BY <2>1 DEF Flush
<1> HIDE DEF n
<1>4. Known(n.answer)
  BY <1>1 DEF Known, Deck
<1>5. /\ saves' \in [Version -> Save] /\ saves'[v] = n
      /\ \A u \in Version \ {v} : saves'[u] = saves[u]
  BY <1>1, <1>2, Parts DEF QueueTypes
<1>6. c \in Call /\ c.at = v /\ c.then = then /\ c.saved = None
  BY DEF Call
<1> HIDE DEF c
<1>7. /\ DOMAIN due = 1 .. Len(due) /\ Len(due) \in Nat
      /\ micro' \in Seq(Call) /\ \A i \in DOMAIN due : i \in DOMAIN micro' /\ micro'[i] = due[i]
      /\ \A i \in DOMAIN micro' : (i \in DOMAIN due /\ micro'[i] = due[i])
                                  \/ (t.pending = None /\ micro'[i] = c)
  <2>1. DOMAIN due = 1 .. Len(due) /\ Len(due) \in Nat
    BY LenProperties
  <2>2. CASE micro' = due
    BY <2>1, <2>2
  <2>3. CASE t.pending = None /\ micro' = Append(due, c)
    <3>1. /\ Append(due, c) \in Seq(Call) /\ Len(Append(due, c)) = Len(due) + 1
          /\ DOMAIN Append(due, c) = 1 .. Len(due) + 1
          /\ \A i \in 1 .. Len(due) : Append(due, c)[i] = due[i]
          /\ Append(due, c)[Len(due) + 1] = c
      BY <1>6, AppendProperties, LenProperties
    <3> QED
      BY <2>1, <2>3, <3>1
  <2> QED
    BY <1>3, <2>2, <2>3
<1>8. MicroFacts'
  <2> SUFFICES ASSUME NEW i \in DOMAIN micro' PROVE Fine(micro[i])'
    BY DEF MicroFacts
  <2>1. CASE i \in DOMAIN due /\ micro'[i] = due[i]
    <3>1. due[i] \in Call /\ Fine(due[i])
      BY <1>7, <2>1, ElementOfSeq
    <3>2. saves'[due[i].at].status = "error" => saves[due[i].at].status = "error"
      BY <1>1, <1>5, <3>1 DEF Call
    <3>3. \A e \in Call : e = due[i] => Fine(e)'
      BY <3>1, <3>2, StaysFine
    <3> QED
      BY <2>1, <3>1, <3>3 DEF Fine, Honest, Known, Proper
  <2>2. CASE t.pending = None /\ micro'[i] = c
    <3>1. then.do \notin {"activate", "create"} /\ None \notin Deck
      BY <2>2
    <3> QED
      BY <1>6, <2>2, <3>1 DEF Fine, Honest, Known, Proper
  <2> QED
    BY <1>7, <2>1, <2>2
<1>9. ASSUME NEW u \in Version \ {v}, saves[u].pending # None, Due(u) PROVE Due(u)'
  <2>1. PICK i \in DOMAIN due : due[i].at = u /\ due[i].chained /\ due[i].saved # Failed
    BY <1>9
  <2>2. i \in DOMAIN micro' /\ micro'[i] = due[i]
    BY <1>7
  <2> QED
    BY <2>1, <2>2 DEF Due
<1>10. QueueTypes' /\ SaveFacts' /\ SavesKnown'
  <2>1. \A u \in Version \ {v} : (saves[u].pending # None /\ Due(u)) =>
                                   (saves[u].status = "error" \/ Due(u)')
    BY <1>9
  <2>2. ~(n.pending # None /\ ~n.timer /\ n.first = None)
    BY <1>1
  <2> QED
    BY <1>1, <1>2, <1>4, <2>1, <2>2, QueueStep
<1> QED
  BY <1>7, <1>8, <1>10 DEF MicroTypes

\* A step that leaves the queue and what anything was given alone.
LEMMA SameQueue ==
  ASSUME IInv, UNCHANGED <<saves, micro, history>>, server.used \subseteq server'.used,
         \A v \in Version : Kept(saves[v], latest[v], v, server')
  PROVE  QueueTypes' /\ SaveFacts' /\ SavesKnown' /\ MicroTypes' /\ MicroFacts'
<1>0. latest' = latest
  BY SameHistory
<1>1. QueueTypes' /\ MicroTypes'
  BY <1>0, Parts DEF QueueTypes, MicroTypes
<1>2. SavesKnown'
  BY Parts DEF SavesKnown, Known
<1>3. MicroFacts'
  BY Parts DEF MicroFacts, Fine, Honest, Known, Proper
<1>4. ASSUME NEW v \in Version
      PROVE  /\ (Shape(saves[v]) /\ Kept(saves[v], latest[v], v, server))'
             /\ Joined(saves[v])' /\ Resumed(v)'
  <2>1. Shape(saves[v]) /\ Joined(saves[v]) /\ Resumed(v) /\ Kept(saves[v], latest[v], v, server')
    BY SaveOf
  <2> QED
    BY <1>0, <2>1 DEF Shape, Kept, Joined, Resumed, Due, Proper
<1> QED
  BY <1>1, <1>2, <1>3, <1>4 DEF SaveFacts

LEMMA SameServer ==
  ASSUME IInv, UNCHANGED server
  PROVE  /\ ServerTypes' /\ ServerKnown' /\ server.used \subseteq server'.used
         /\ \A v \in Version : Kept(saves[v], latest[v], v, server')
<1>1. ServerTypes' /\ ServerKnown'
  BY Parts DEF ServerTypes, ServerKnown, Exists
<1> QED
  BY <1>1, SaveOf

LEMMA SameOpen ==
  ASSUME IInv, UNCHANGED <<requests, dialogs>>, server.used \subseteq server'.used
  PROVE  OpenTypes' /\ OpenKnown' /\ RequestFacts'
BY Parts DEF OpenTypes, OpenKnown, Known, RequestFacts, Proper

LEMMA SameScreen ==
  ASSUME IInv, UNCHANGED <<cache, loads>>, server.used \subseteq server'.used,
         made' \in 0 .. MaxEdits, acts' \in 0 .. MaxActs
  PROVE  ScreenTypes' /\ ScreenKnown'
<1>1. ScreenTypes'
  BY Parts DEF ScreenTypes
<1>2. ScreenKnown'
  BY Parts DEF ScreenKnown, Known
<1> QED
  BY <1>1, <1>2

\* The queue is what the user has just put there.
LEMMA QueuedFacts ==
  ASSUME IInv, NEW v \in Version, NEW list \in List, v \in server.used
  PROVE  /\ Queued(v, list) \in [Version -> Save]
         /\ \A u \in Version \ {v} : Queued(v, list)[u] = saves[u]
         /\ \E t \in Save : /\ t = Queued(v, list)[v] /\ Shape(t) /\ Kept(t, list, v, server)
                           /\ Known(t.answer) /\ t.status = saves[v].status /\ t.pending # None
                           /\ t = [saves[v] EXCEPT !.pending = list]
<1>1. PICK s \in Save : s = saves[v]
  BY SaveOf
<1>2. PICK t : t = [s EXCEPT !.pending = list]
  OBVIOUS
<1>3. /\ t \in Save /\ t.pending = list /\ t.timer = s.timer /\ t.first = s.first
      /\ t.current = s.current /\ t.answer = s.answer /\ t.waiting = s.waiting
      /\ t.status = s.status
  BY <1>2 DEF Save
<1>4. list # None
  BY ListsAreListed
<1>5. Shape(s) /\ Kept(s, latest[v], v, server) /\ Known(s.answer)
  BY <1>1, SaveOf
<1>6. Shape(t) /\ Kept(t, list, v, server) /\ Known(t.answer)
  BY <1>3, <1>4, <1>5 DEF Shape, Kept
<1>7. /\ Queued(v, list) \in [Version -> Save] /\ Queued(v, list)[v] = t
      /\ \A u \in Version \ {v} : Queued(v, list)[u] = saves[u]
  BY <1>1, <1>2, <1>3, Parts DEF Queued, QueueTypes
<1> QED
  BY <1>1, <1>2, <1>3, <1>4, <1>6, <1>7

(***************************************************************************)
(* The initial state.                                                      *)
(***************************************************************************)

LEMMA InitInv == Init => IInv
<1> SUFFICES ASSUME Init PROVE IInv
  OBVIOUS
<1>1. {} \in List /\ {} # None
  BY ListsAreListed DEF List
<1>2. ServerTypes /\ ServerKnown
  <2>1. server.list \in [Version -> {None} \cup List]
    BY <1>1 DEF Init
  <2> QED
    BY <1>1, <2>1 DEF Init, ServerTypes, ServerType, ServerKnown, Exists
<1>3. cache = [version |-> Active, list |-> {}]
  BY DEF Init, Answer
<1>4. ScreenTypes /\ ScreenKnown
  <2>1. cache \in Deck /\ cache.version = Active /\ server.used = Given
    <3>1. server.used = Given
      BY DEF Init
    <3> QED
      BY <1>1, <1>3, <3>1 DEF Deck
  <2>2. made \in 0 .. MaxEdits /\ acts \in 0 .. MaxActs
    BY DEF Init
  <2>3. loads \in [{"query", "focus"} -> {None, Sent} \cup Deck] /\ \A how \in DOMAIN loads : loads[how] = None
    BY DEF Init
  <2> QED
    BY <2>1, <2>2, <2>3 DEF ScreenTypes, ScreenKnown, Known
<1>h. HistoryTypes /\ latest = [v \in Version |-> {}]
  BY <1>1 DEF Init, HistoryTypes, latest
<1>5. QueueTypes /\ \A v \in Version : saves[v] = Quiet /\ latest[v] = {}
  BY <1>h, <1>1, QuietFacts DEF Init, QueueTypes
<1>6. MicroTypes /\ MicroFacts /\ micro = <<>> /\ DOMAIN micro = {}
  BY EmptySeq DEF Init, MicroTypes, MicroFacts
<1>7. SaveFacts /\ SavesKnown
  <2>1. \A v \in Version : Shape(Quiet) /\ Joined(Quiet) /\ Kept(Quiet, {}, v, server)
    <3>1. DOMAIN <<>> = {}
      OBVIOUS
    <3> QED
      BY <3>1, QuietFacts DEF Shape, Joined, Kept
  <2>2. \A v \in Version : Resumed(v) /\ Known(saves[v].answer)
    BY <1>5, QuietFacts DEF Resumed, Known
  <2> QED
    BY <1>5, <2>1, <2>2 DEF SaveFacts, SavesKnown
<1>8. OpenTypes /\ OpenKnown /\ RequestFacts
  BY DEF Init, OpenTypes, OpenKnown, RequestFacts
<1> QED
  BY <1>h, <1>2, <1>4, <1>5, <1>6, <1>7, <1>8, Parts

(***************************************************************************)
(* Saves.                                                                  *)
(***************************************************************************)

\* The answer to a request is the version that is active.
LEMMA AnswerFacts ==
  ASSUME IInv
  PROVE  Answer(server) \in Deck /\ Known(Answer(server)) /\ Answer(server) \notin {None, Failed, Sent}
<1>1. /\ server.active \in Version /\ server.list[server.active] \in List
      /\ server.active \in server.used
  BY Parts DEF ServerTypes, ServerType, ServerKnown, Exists
<1>2. Answer(server) \in Deck /\ Answer(server).version = server.active
  BY <1>1 DEF Answer, Deck
<1> QED
  BY <1>1, <1>2 DEF Known

\* One version of the server gets a list.
LEMMA ServeInv ==
  ASSUME IInv, NEW v \in Version, Serve(v)
  PROVE  IInv'
<1> DEFINE s == saves[v]
           n == [s EXCEPT !.answer = Answer(server)']
<1>1. /\ s.first # None /\ Exists(v) /\ server' = [server EXCEPT !.list[v] = s.current]
      /\ saves' = [saves EXCEPT ![v].answer = Answer(server')]
      /\ UNCHANGED <<cache, micro, history, requests, dialogs, loads, made, acts>>
  BY DEF Serve, Saving, Body
<1>h. latest' = latest
  BY <1>1, SameHistory
<1>2. s \in Save /\ s.current \in List
  BY <1>1, SaveOf DEF Shape, Save
<1>3. /\ server' \in ServerType /\ server'.active = server.active /\ server'.used = server.used
      /\ server'.list = [server.list EXCEPT ![v] = s.current]
  BY <1>1, <1>2, Parts DEF ServerTypes, ServerType
<1>4. /\ server'.list[v] = s.current /\ \A u \in Version \ {v} : server'.list[u] = server.list[u]
      /\ s.current # None
  BY <1>2, <1>3, ListsAreListed, Parts DEF ServerTypes, ServerType
<1>5. ServerTypes' /\ ServerKnown'
  BY <1>1, <1>3, <1>4, Parts DEF ServerTypes, ServerKnown, Exists
<1>6. /\ Answer(server') \in Deck /\ Answer(server').version \in server'.used
  <2>1. /\ server'.active \in Version /\ server'.list[server'.active] \in List
        /\ server'.active \in server'.used
    BY <1>5, <1>3 DEF ServerTypes, ServerType, ServerKnown, Exists
  <2> QED
    BY <2>1 DEF Answer, Deck
<1>7. /\ saves' \in [Version -> Save] /\ \A u \in Version \ {v} : saves'[u] = saves[u]
      /\ saves'[v] = [s EXCEPT !.answer = Answer(server')]
  BY <1>1, <1>2, <1>6, Parts DEF QueueTypes, Save
<1>8. /\ saves'[v].pending = s.pending /\ saves'[v].timer = s.timer /\ saves'[v].first = s.first
      /\ saves'[v].current = s.current /\ saves'[v].answer = Answer(server')
      /\ saves'[v].waiting = s.waiting /\ saves'[v].status = s.status
  BY <1>2, <1>7 DEF Save
<1>9. SaveFacts' /\ SavesKnown'
  <2>1. ASSUME NEW u \in Version
        PROVE  /\ (Shape(saves[u]) /\ Kept(saves[u], latest[u], u, server))'
               /\ Joined(saves[u])' /\ Resumed(u)' /\ Known(saves[u].answer)'
    <3>1. CASE u = v
      <4>1. /\ Shape(s) /\ Joined(s) /\ Kept(s, latest[v], v, server) /\ Resumed(v)
        BY SaveOf
      <4>2. Shape(saves[u])' /\ Joined(saves[u])' /\ Resumed(u)' /\ Known(saves[u].answer)'
        BY <1>1, <1>6, <1>8, <3>1, <4>1 DEF Shape, Joined, Resumed, Known, Proper
      <4>3. Kept(saves[u], latest[u], u, server)'
        BY <1>h, <1>1, <1>3, <1>4, <1>8, <3>1, <4>1 DEF Kept
      <4> QED
        BY <4>2, <4>3
    <3>2. CASE u # v
      <4>1. /\ Shape(saves[u]) /\ Joined(saves[u]) /\ Kept(saves[u], latest[u], u, server)
            /\ Resumed(u) /\ Known(saves[u].answer) /\ saves'[u] = saves[u]
            /\ server'.list[u] = server.list[u]
        BY <1>4, <1>7, <3>2, SaveOf
      <4> QED
        BY <1>h, <1>1, <1>3, <4>1 DEF Shape, Joined, Kept, Resumed, Due, Known, Proper
    <3> QED
      BY <3>1, <3>2
  <2> QED
    BY <2>1 DEF SaveFacts, SavesKnown
<1>10. MicroFacts'
  <2>1. \A u \in Version : saves'[u].status = saves[u].status
    BY <1>7, <1>8
  <2>2. ASSUME NEW i \in DOMAIN micro PROVE Fine(micro[i])'
    <3>1. micro[i] \in Call /\ Fine(micro[i])
      BY MicroOf
    <3>2. micro[i].at \in Version
      BY <3>1 DEF Call
    <3> QED
      BY <1>1, <1>3, <2>1, <3>1, <3>2 DEF Fine, Honest, Known, Proper
  <2> QED
    BY <1>1, <2>2 DEF MicroFacts
<1>11. QueueTypes' /\ MicroTypes'
  BY <1>h, <1>1, <1>7, Parts DEF QueueTypes, MicroTypes
<1>12. ScreenTypes' /\ ScreenKnown'
  BY <1>1, <1>3, SameScreen, Parts DEF ScreenTypes
<1> QED
  BY <1>1, <1>3, <1>5, <1>9, <1>10, <1>11, <1>12, SameHistory, SameOpen, PartsAfter

LEMMA SaveNewerInv ==
  ASSUME IInv, NEW v \in Version, SaveNewer(v)
  PROVE  IInv'
<1>1. PICK s \in Save : s = saves[v]
  BY SaveOf
<1> DEFINE n == [s EXCEPT !.current = s.pending, !.pending = None, !.answer = None]
<1>2. /\ s.answer # None /\ s.pending # None /\ saves' = [saves EXCEPT ![v] = n]
      /\ UNCHANGED <<server, cache, micro, history, requests, dialogs, loads, made, acts>>
  BY <1>1, Parts DEF SaveNewer, QueueTypes, Save
<1>3. /\ n \in Save /\ n.current = s.pending /\ n.pending = None /\ n.answer = None
      /\ n.first = s.first /\ n.waiting = s.waiting /\ n.timer = s.timer /\ n.status = s.status
  BY DEF Save
<1> HIDE DEF n
<1>4. Shape(s) /\ Kept(s, latest[v], v, server) /\ s.first # None
  BY <1>1, <1>2, SaveOf DEF Shape
<1>5. Shape(n) /\ Kept(n, latest'[v], v, server) /\ Joined(n) /\ Known(n.answer)
  BY <1>2, <1>3, <1>4, SameHistory DEF Shape, Kept, Joined, Known
<1>6. latest' \in [Version -> List] /\ \A u \in Version \ {v} : latest'[u] = latest[u]
  BY <1>2, SameHistory, Parts DEF QueueTypes
<1>7. \A u \in Version \ {v} : Due(u) => Due(u)'
  BY <1>2 DEF Due
<1>8. QueueTypes' /\ SaveFacts' /\ SavesKnown'
  BY <1>2, <1>3, <1>5, <1>6, <1>7, QueueStep
<1>9. MicroTypes' /\ MicroFacts'
  <2>1. \A u \in Version : saves'[u].status = saves[u].status
    BY <1>1, <1>2, <1>3, Parts DEF QueueTypes
  <2>2. ASSUME NEW i \in DOMAIN micro PROVE Fine(micro[i])'
    <3>1. micro[i] \in Call /\ Fine(micro[i]) /\ micro[i].at \in Version
      BY MicroOf DEF Call
    <3> QED
      BY <1>2, <2>1, <3>1 DEF Fine, Honest, Known, Proper
  <2> QED
    BY <1>2, <2>2, Parts DEF MicroFacts, MicroTypes
<1>10. ScreenTypes' /\ ScreenKnown'
  BY <1>2, SameScreen, Parts DEF ScreenTypes
<1> QED
  BY <1>2, <1>8, <1>9, <1>10, SameHistory, SameServer, SameOpen, PartsAfter

\* The promise of a save that ends.
LEMMA SettledFacts ==
  ASSUME IInv, NEW v \in Version, NEW saved \in {None, Failed} \cup Deck, micro = <<>>,
         micro' = micro \o Settled(v, saved)
  PROVE  /\ micro' \in Seq(Call) /\ Len(micro') = Len(saves[v].waiting)
         /\ DOMAIN micro' = 1 .. Len(micro') /\ Len(micro') \in Nat
         /\ \A i \in DOMAIN micro' :
              /\ micro'[i].at = v /\ micro'[i].saved = saved /\ (i > 1 => micro'[i].chained)
              /\ Proper(micro'[i].then)
<1> DEFINE w == saves[v].waiting
<1>1. /\ w \in Seq(Waiter) /\ Len(w) \in Nat /\ DOMAIN w = 1 .. Len(w)
      /\ \A i \in DOMAIN w : Proper(w[i])
  BY SaveOf, LenProperties DEF Save, Shape
<1>2. \A i \in 1 .. Len(w) : w[i] \in Waiter
  BY <1>1, ElementOfSeq
<1>3. Settled(v, saved) = [i \in 1 .. Len(w) |->
                             [at |-> v, then |-> w[i], chained |-> i > 1, saved |-> saved]]
  BY <1>1 DEF Settled
<1> HIDE DEF w
<1>4. \A i \in 1 .. Len(w) : [at |-> v, then |-> w[i], chained |-> i > 1, saved |-> saved] \in Call
  BY <1>1, <1>2 DEF Call
<1>5. Settled(v, saved) \in Seq(Call) /\ Len(Settled(v, saved)) = Len(w)
  BY <1>1, <1>3, <1>4
<1>6. micro' = Settled(v, saved)
  BY <1>5, ConcatEmptySeq
<1>7. \A i \in 1 .. Len(w) :
        /\ micro'[i].at = v /\ micro'[i].saved = saved /\ (i > 1 => micro'[i].chained)
        /\ micro'[i].then = w[i]
  <2> SUFFICES ASSUME NEW i \in 1 .. Len(w)
               PROVE  /\ micro'[i].at = v /\ micro'[i].saved = saved
                      /\ (i > 1 => micro'[i].chained) /\ micro'[i].then = w[i]
    OBVIOUS
  <2>1. micro'[i] = [at |-> v, then |-> w[i], chained |-> i > 1, saved |-> saved]
    BY <1>3, <1>6
  <2>2. micro'[i].at = v /\ micro'[i].saved = saved /\ micro'[i].then = w[i]
    BY <2>1
  <2>3. micro'[i].chained = (i > 1)
    BY <2>1
  <2> QED
    BY <2>2, <2>3
<1>8. micro' \in Seq(Call) /\ Len(micro') = Len(w) /\ DOMAIN micro' = 1 .. Len(micro')
  BY <1>5, <1>6, LenProperties
<1>9. \A i \in DOMAIN micro' : Proper(micro'[i].then)
  BY <1>1, <1>7, <1>8
<1> QED
  BY <1>1, <1>7, <1>8, <1>9 DEF w

\* A save ends: its version keeps the list pending, and all who wait are due.
LEMMA EndStep ==
  ASSUME IInv, NEW v \in Version, micro = <<>>, saves[v].first # None,
         NEW pending \in {None} \cup List, NEW status \in {"idle", "saved", "error"},
         NEW saved \in {None, Failed} \cup Deck, Known(saved),
         saves' = Ended(v, pending, status), micro' = micro \o Settled(v, saved),
         latest' \in [Version -> List], \A u \in Version \ {v} : latest'[u] = latest[u],
         UNCHANGED server, status = "error" <=> saved = Failed,
         pending # None => pending = latest'[v],
         pending # None /\ status # "error" =>
           pending = saves[v].pending /\ saved # Failed,
         status = "saved" => /\ pending = saves[v].pending /\ saves[v].answer # None
                             /\ latest'[v] = latest[v]
  PROVE  QueueTypes' /\ SaveFacts' /\ SavesKnown' /\ MicroTypes' /\ MicroFacts'
<1> DEFINE n == [Quiet EXCEPT !.pending = pending, !.timer = saves[v].timer, !.status = status]
<1>1. PICK s \in Save : s = saves[v]
  BY SaveOf
<1>2. /\ n \in Save /\ n.pending = pending /\ n.timer = s.timer /\ n.status = status
      /\ n.first = None /\ n.current = None /\ n.answer = None /\ n.waiting = <<>>
  BY <1>1, QuietFacts DEF Save
<1>3. saves' = [saves EXCEPT ![v] = n]
  BY DEF Ended
<1> HIDE DEF n
<1>4. /\ micro' \in Seq(Call) /\ Len(micro') = Len(s.waiting) /\ DOMAIN micro' = 1 .. Len(micro')
      /\ Len(micro') \in Nat
      /\ \A i \in DOMAIN micro' :
           /\ micro'[i].at = v /\ micro'[i].saved = saved /\ (i > 1 => micro'[i].chained)
           /\ Proper(micro'[i].then)
  BY <1>1, SettledFacts
<1>5. Shape(s) /\ Kept(s, latest[v], v, server) /\ Joined(s) /\ Known(s.answer) /\ s.first # None
  BY <1>1, SaveOf
<1>6. Shape(n) /\ Joined(n) /\ Known(n.answer)
  <2>1. DOMAIN <<>> = {}
    OBVIOUS
  <2> QED
    BY <1>2, <2>1 DEF Shape, Joined, Known
<1>7. Kept(n, latest'[v], v, server)
  <2>1. v \in server.used
    BY <1>5 DEF Kept
  <2>2. status = "saved" /\ pending = None /\ server.list[v] # None => server.list[v] = latest'[v]
    BY <1>1, <1>5 DEF Kept
  <2> QED
    BY <1>2, <2>1, <2>2 DEF Kept
<1>8. n.pending # None /\ ~n.timer /\ n.first = None => n.status = "error" \/ Due(v)'
  <2> SUFFICES ASSUME n.pending # None, ~n.timer, n.status # "error" PROVE Due(v)'
    OBVIOUS
  <2>1. s.pending # None /\ ~s.timer /\ saved # Failed
    BY <1>1, <1>2
  <2>2. 2 \in DOMAIN micro'
    BY <1>4, <1>5, <2>1 DEF Joined
  <2> QED
    BY <1>4, <2>1, <2>2 DEF Due
<1>9. \A u \in Version \ {v} : ~Due(u)
  <2>1. DOMAIN micro = {}
    OBVIOUS
  <2> QED
    BY <2>1 DEF Due
<1>10. QueueTypes' /\ SaveFacts' /\ SavesKnown'
  BY <1>2, <1>3, <1>6, <1>7, <1>8, <1>9, QueueStep
<1>11. MicroFacts'
  <2>1. saves'[v].status = status
    BY <1>2, <1>3, Parts DEF QueueTypes
  <2>2. ASSUME NEW i \in DOMAIN micro' PROVE Fine(micro[i])'
    BY <1>4, <2>1, <2>2 DEF Fine, Honest, Known, Proper
  <2> QED
    BY <2>2 DEF MicroFacts
<1> QED
  BY <1>4, <1>10, <1>11 DEF MicroTypes

LEMMA SaveDoneInv ==
  ASSUME IInv, NEW v \in Version, SaveDone(v), micro = <<>>
  PROVE  IInv'
<1>1. /\ saves[v] \in Save /\ saves[v].first # None /\ Known(saves[v].answer)
      /\ Kept(saves[v], latest[v], v, server)
      /\ saves[v].answer \in Deck
  BY SaveOf DEF SaveDone, Shape, Save
<1>2. saves[v].answer # Failed /\ saves[v].pending \in {None} \cup List
  BY <1>1 DEF Save
<1>3. /\ saves' = Ended(v, saves[v].pending, "saved") /\ micro' = micro \o Settled(v, saves[v].answer)
      /\ UNCHANGED <<server, cache, history, requests, dialogs, loads, made, acts>>
  BY DEF SaveDone
<1>4. latest' \in [Version -> List] /\ \A u \in Version \ {v} : latest'[u] = latest[u]
  BY <1>3, SameHistory, Parts DEF QueueTypes
<1>5. saves[v].pending # None => saves[v].pending = latest'[v]
  BY <1>1, <1>3, SameHistory DEF Kept
<1>6. saves[v].answer # None /\ latest'[v] = latest[v]
  BY <1>1, <1>3, SameHistory
<1>7. QueueTypes' /\ SaveFacts' /\ SavesKnown' /\ MicroTypes' /\ MicroFacts'
  BY <1>1, <1>2, <1>3, <1>4, <1>5, <1>6, EndStep
<1>8. ScreenTypes' /\ ScreenKnown'
  BY <1>3, SameScreen, Parts DEF ScreenTypes
<1> QED
  BY <1>3, <1>7, <1>8, SameHistory, SameServer, SameOpen, PartsAfter

LEMMA SaveFailsInv ==
  ASSUME IInv, NEW v \in Version, SaveFails(v), micro = <<>>
  PROVE  IInv'
<1>1. saves[v] \in Save /\ saves[v].first # None /\ saves[v].first \in List
  BY SaveOf DEF SaveFails, Saving, Save
<1>2. /\ saves' = Ended(v, saves[v].first, "error") /\ micro' = micro \o Settled(v, Failed)
      /\ requeued' = [requeued EXCEPT ![v] = IF saves[v].first = handed[v]
                                             THEN None ELSE saves[v].first]
      /\ UNCHANGED <<server, cache, handed, requests, dialogs, loads, made, acts>>
  BY DEF SaveFails, Unsaved
<1>3. /\ HistoryTypes' /\ latest' \in [Version -> List] /\ latest'[v] = saves[v].first
      /\ \A u \in Version \ {v} : latest'[u] = latest[u]
  BY <1>1, <1>2, Parts DEF HistoryTypes, latest
<1>4. Known(Failed)
  BY DEF Known
<1>5. QueueTypes' /\ SaveFacts' /\ SavesKnown' /\ MicroTypes' /\ MicroFacts'
  BY <1>1, <1>2, <1>3, <1>4, EndStep
<1>6. ScreenTypes' /\ ScreenKnown'
  BY <1>2, SameScreen, Parts DEF ScreenTypes
<1> QED
  BY <1>2, <1>3, <1>5, <1>6, SameServer, SameOpen, PartsAfter

LEMMA SaveForbiddenInv ==
  ASSUME IInv, NEW v \in Version, SaveForbidden(v), micro = <<>>
  PROVE  IInv'
<1>1. /\ saves[v].first # None /\ saves' = Ended(v, None, "idle")
      /\ micro' = micro \o Settled(v, None)
      /\ UNCHANGED <<server, cache, history, requests, dialogs, loads, made, acts>>
  BY DEF SaveForbidden, Saving
<1>2. latest' \in [Version -> List] /\ \A u \in Version \ {v} : latest'[u] = latest[u]
  BY <1>1, SameHistory, Parts DEF QueueTypes
<1>3. Known(None)
  BY DEF Known
<1>4. QueueTypes' /\ SaveFacts' /\ SavesKnown' /\ MicroTypes' /\ MicroFacts'
  BY <1>1, <1>2, <1>3, EndStep
<1>5. ScreenTypes' /\ ScreenKnown'
  BY <1>1, SameScreen, Parts DEF ScreenTypes
<1> QED
  BY <1>1, <1>4, <1>5, SameHistory, SameServer, SameOpen, PartsAfter

(***************************************************************************)
(* Continuations.                                                          *)
(***************************************************************************)

\* Whatever screen is shown is one that was given.
LEMMA ScreenStep ==
  ASSUME IInv, cache' \in Deck, Known(cache'), UNCHANGED <<server, loads>>,
         made' \in 0 .. MaxEdits, acts' \in 0 .. MaxActs
  PROVE  ScreenTypes' /\ ScreenKnown'
<1>1. ScreenTypes'
  BY Parts DEF ScreenTypes
<1>2. ScreenKnown'
  BY Parts DEF ScreenKnown, Known
<1> QED
  BY <1>1, <1>2

LEMMA ScreenOf ==
  ASSUME IInv
  PROVE  /\ cache \in Deck /\ Known(cache) /\ cache.version \in Version /\ cache.list \in List
         /\ cache.version \in server.used
         /\ made \in 0 .. MaxEdits /\ acts \in 0 .. MaxActs
BY Parts DEF ScreenTypes, ScreenKnown, Known, Deck

\* A continuation that does not look at the queue is through.
LEMMA TailStep ==
  ASSUME IInv, micro # <<>>, ~Again(Head(micro)), micro' = Tail(micro),
         UNCHANGED <<saves, history, server>>
  PROVE  QueueTypes' /\ SaveFacts' /\ SavesKnown' /\ MicroTypes' /\ MicroFacts'
<1>0. latest' = latest
  BY SameHistory
<1>1. QueueTypes' /\ SavesKnown' /\ MicroTypes'
  BY <1>0, TailFacts, Parts DEF QueueTypes, SavesKnown, Known, MicroTypes
<1>2. MicroFacts'
  BY TailFacts DEF MicroFacts, Fine, Honest, Known, Proper
<1>3. ASSUME NEW v \in Version
      PROVE  /\ (Shape(saves[v]) /\ Kept(saves[v], latest[v], v, server))'
             /\ Joined(saves[v])' /\ Resumed(v)'
  <2>1. Shape(saves[v]) /\ Joined(saves[v]) /\ Resumed(v) /\ Kept(saves[v], latest[v], v, server)
    BY SaveOf
  <2>2. ASSUME saves[v].pending # None, Due(v) PROVE Due(v)'
    <3>1. PICK i \in DOMAIN micro : micro[i].at = v /\ micro[i].chained /\ micro[i].saved # Failed
      BY <2>2 DEF Due
    <3>2. micro[i] # Head(micro)
      BY <2>2, <3>1 DEF Again
    <3>3. PICK j \in DOMAIN Tail(micro) : Tail(micro)[j] = micro[i]
      BY <3>2, TailFacts
    <3> QED
      BY <3>1, <3>3 DEF Due
  <2> QED
    BY <1>0, <2>1, <2>2 DEF Shape, Kept, Joined, Resumed, Proper
<1> QED
  BY <1>1, <1>2, <1>3 DEF SaveFacts

\* A request that a flush or a dialog sends.
LEMMA SentFacts ==
  ASSUME IInv, NEW w \in Waiter, w.do \in {"activate", "create"}, Proper(w)
  PROVE  LET q == Send(w.do, w.to)
         IN  q \in Request /\ q.answer = None /\ (q.op # "create" => q.to \in Version)
BY DEF Send, Request, Waiter, Proper

LEMMA OpenStep ==
  ASSUME IInv, UNCHANGED server,
         \A q \in requests' : \/ q \in requests
                              \/ /\ q \in Request /\ Known(q.answer)
                                 /\ (q.op # "create" => q.to \in Version),
         \A d \in dialogs' : \/ d \in dialogs
                             \/ d \in Waiter /\ d.do \in {"activate", "create"} /\ Proper(d)
  PROVE  OpenTypes' /\ OpenKnown' /\ RequestFacts'
<1>1. OpenTypes'
  BY Parts DEF OpenTypes
<1>2. OpenKnown'
  BY Parts DEF OpenKnown, Known
<1>3. RequestFacts'
  BY Parts DEF RequestFacts, Proper
<1> QED
  BY <1>1, <1>2, <1>3

LEMMA CallOf ==
  ASSUME IInv, micro # <<>>, NEW call, call = Head(micro)
  PROVE  /\ call \in Call /\ call.at \in Version /\ call.then \in Waiter
         /\ call.saved \in {None, Failed} \cup Deck /\ Proper(call.then) /\ Known(call.saved)
         /\ Honest(call)
BY TailFacts DEF Call, Fine

LEMMA ContinueInv ==
  ASSUME IInv, micro # <<>>, NEW call, call = Head(micro), ~Again(call), Continue(call),
         UNCHANGED <<server, history, loads, made, acts>>
  PROVE  IInv'
<1>1. micro' = Tail(micro) /\ UNCHANGED saves
  BY DEF Continue
<1>2. QueueTypes' /\ SaveFacts' /\ SavesKnown' /\ MicroTypes' /\ MicroFacts'
  BY <1>1, TailStep
<1>3. ScreenTypes' /\ ScreenKnown'
  <2>1. cache' = cache \/ (cache' = call.saved /\ call.saved \in Deck)
    BY CallOf DEF Continue
  <2>2. cache' \in Deck /\ Known(cache')
    BY <2>1, CallOf, ScreenOf
  <2> QED
    BY <2>2, ScreenOf, ScreenStep
<1>4. OpenTypes' /\ OpenKnown' /\ RequestFacts'
  <2>1. CASE UNCHANGED <<requests, dialogs>>
    BY <2>1, OpenStep
  <2>2. CASE /\ call.then.do \in {"activate", "create"}
             /\ dialogs' = dialogs \cup {call.then} /\ UNCHANGED requests
    BY <2>2, CallOf, OpenStep
  <2>3. CASE /\ call.then.do \in {"activate", "create"}
             /\ requests' = requests \cup {Send(call.then.do, call.then.to)} /\ UNCHANGED dialogs
    <3> DEFINE q == Send(call.then.do, call.then.to)
    <3>1. q \in Request /\ q.answer = None /\ (q.op # "create" => q.to \in Version)
      BY <2>3, CallOf, SentFacts
    <3>2. Known(q.answer)
      BY <3>1 DEF Known
    <3> HIDE DEF q
    <3>3. requests' = requests \cup {q}
      BY <2>3 DEF q
    <3> QED
      BY <2>3, <3>1, <3>2, <3>3, OpenStep
  <2> QED
    BY <2>1, <2>2, <2>3 DEF Continue
<1> QED
  BY <1>2, <1>3, <1>4, SameHistory, SameServer, PartsAfter

\* The queue as it is, for a flush.
LEMMA FlushSame ==
  ASSUME IInv, NEW v \in Version, UNCHANGED <<history, server>>, NEW then \in Waiter, Proper(then),
         saves[v].pending # None \/ then.do \notin {"activate", "create"},
         NEW due \in Seq(Call), \A i \in DOMAIN due : Fine(due[i]),
         \A u \in Version \ {v} : (saves[u].pending # None /\ Due(u)) =>
           \E i \in DOMAIN due : due[i].at = u /\ due[i].chained /\ due[i].saved # Failed,
         Flush(saves, v, then, due)
  PROVE  QueueTypes' /\ SaveFacts' /\ SavesKnown' /\ MicroTypes' /\ MicroFacts'
<1>1. saves \in [Version -> Save] /\ latest' \in [Version -> List]
  BY SameHistory, Parts DEF QueueTypes
<1>2. PICK t \in Save : /\ t = saves[v] /\ Shape(t) /\ Known(t.answer)
                        /\ Kept(t, latest'[v], v, server)
  BY SameHistory, SaveOf
<1>3. saves[v] = t /\ t.status = saves[v].status
  BY <1>2
<1>4. t.pending # None \/ then.do \notin {"activate", "create"}
  BY <1>2
<1> QED
  BY <1>1, <1>2, <1>3, <1>4, SameHistory, FlushStep

LEMMA AgainInv ==
  ASSUME IInv, micro # <<>>, NEW call, call = Head(micro), Again(call),
         Flush(saves, call.at, call.then, Tail(micro)),
         UNCHANGED <<cache, requests, dialogs, server, history, loads, made, acts>>
  PROVE  IInv'
<1>1. /\ call.at \in Version /\ call.then \in Waiter /\ Proper(call.then)
      /\ saves[call.at].pending # None
  BY CallOf DEF Again
<1>2. Tail(micro) \in Seq(Call) /\ \A i \in DOMAIN Tail(micro) : Fine(Tail(micro)[i])
  BY TailFacts
<1>3. \A u \in Version \ {call.at} : Due(u) =>
        \E i \in DOMAIN Tail(micro) : /\ Tail(micro)[i].at = u /\ Tail(micro)[i].chained
                                      /\ Tail(micro)[i].saved # Failed
  BY TailFacts DEF Due
<1>4. QueueTypes' /\ SaveFacts' /\ SavesKnown' /\ MicroTypes' /\ MicroFacts'
  BY <1>1, <1>2, <1>3, FlushSame
<1>5. ScreenTypes' /\ ScreenKnown'
  BY ScreenOf, SameScreen
<1> QED
  BY <1>4, <1>5, SameHistory, SameServer, SameOpen, PartsAfter

LEMMA RestFacts ==
  ASSUME NEW vs \in SUBSET Version
  PROVE  Rest(vs) \in Waiter /\ Rest(vs).do = "rest" /\ Proper(Rest(vs))
<1>1. {} \in List
  BY DEF List
<1> QED
  BY <1>1 DEF Rest, Nothing, Waiter, Proper

LEMMA NextKeyInv ==
  ASSUME IInv, micro # <<>>, NEW call, call = Head(micro), ~Again(call), NextKey(call),
         UNCHANGED <<server, history, loads, made, acts>>
  PROVE  IInv'
<1>1. UNCHANGED <<cache, requests, dialogs>>
  BY DEF NextKey
<1>2. PICK v \in call.then.rest : Flush(saves, v, Rest(call.then.rest \ {v}), Tail(micro))
  BY DEF NextKey
<1>3. v \in Version /\ call.then.rest \ {v} \in SUBSET Version
  BY CallOf DEF Waiter
<1>4. Tail(micro) \in Seq(Call) /\ \A i \in DOMAIN Tail(micro) : Fine(Tail(micro)[i])
  BY TailFacts
<1>5. ASSUME NEW u \in Version \ {v}, saves[u].pending # None, Due(u)
      PROVE  \E i \in DOMAIN Tail(micro) : /\ Tail(micro)[i].at = u /\ Tail(micro)[i].chained
                                           /\ Tail(micro)[i].saved # Failed
  <2>1. PICK i \in DOMAIN micro : micro[i].at = u /\ micro[i].chained /\ micro[i].saved # Failed
    BY <1>5 DEF Due
  <2>2. micro[i] # Head(micro)
    BY <1>5, <2>1 DEF Again
  <2> QED
    BY <2>1, <2>2, TailFacts
<1>6. QueueTypes' /\ SaveFacts' /\ SavesKnown' /\ MicroTypes' /\ MicroFacts'
  <2> DEFINE then == Rest(call.then.rest \ {v})
  <2>1. then \in Waiter /\ Proper(then) /\ then.do = "rest"
    BY <1>3, RestFacts
  <2>2. Flush(saves, v, then, Tail(micro))
    BY <1>2
  <2> HIDE DEF then
  <2>3. then.do \notin {"activate", "create"}
    BY <2>1
  <2> QED
    BY <1>3, <1>4, <1>5, <2>1, <2>2, <2>3, FlushSame
<1>7. ScreenTypes' /\ ScreenKnown'
  BY <1>1, ScreenOf, SameScreen
<1> QED
  BY <1>1, <1>6, <1>7, SameHistory, SameServer, SameOpen, PartsAfter

LEMMA MicrotaskInv ==
  ASSUME IInv, Microtask
  PROVE  IInv'
<1>1. PICK call : call = Head(micro)
  OBVIOUS
<1>2. micro # <<>> /\ UNCHANGED <<server, history, loads, made, acts>>
  BY DEF Microtask
<1>3. CASE Again(call)
  BY <1>1, <1>2, <1>3, AgainInv DEF Microtask
<1>4. CASE ~Again(call)
  BY <1>1, <1>2, <1>4, ContinueInv, NextKeyInv DEF Microtask
<1> QED
  BY <1>3, <1>4

(***************************************************************************)
(* The user.                                                               *)
(***************************************************************************)

LEMMA NoneDue ==
  ASSUME IInv, micro = <<>>
  PROVE  /\ micro \in Seq(Call) /\ \A i \in DOMAIN micro : Fine(micro[i])
         /\ \A u \in Version : ~Due(u)
<1>1. DOMAIN <<>> = {}
  OBVIOUS
<1> QED
  BY <1>1, Parts DEF MicroTypes, MicroFacts, Due

\* A list is put in the queue of v and flushed.
LEMMA FlushQueued ==
  ASSUME IInv, micro = <<>>, NEW v \in Version, v \in server.used, NEW list \in List,
         latest' = [latest EXCEPT ![v] = list], UNCHANGED server,
         NEW then \in Waiter, Proper(then), Flush(Queued(v, list), v, then, micro)
  PROVE  QueueTypes' /\ SaveFacts' /\ SavesKnown' /\ MicroTypes' /\ MicroFacts'
<1>1. /\ latest' \in [Version -> List] /\ latest'[v] = list
      /\ \A u \in Version \ {v} : latest'[u] = latest[u]
  BY Parts DEF QueueTypes
<1>2. PICK t \in Save : /\ t = Queued(v, list)[v] /\ Shape(t) /\ Kept(t, list, v, server)
                        /\ Known(t.answer) /\ t.status = saves[v].status /\ t.pending # None
  BY QueuedFacts
<1>3. PICK s \in [Version -> Save] : /\ s = Queued(v, list) /\ s[v] = t
                                     /\ \A u \in Version \ {v} : s[u] = saves[u]
  BY <1>2, QueuedFacts
<1>4. Flush(s, v, then, micro) /\ Kept(t, latest'[v], v, server)
  BY <1>1, <1>2, <1>3
<1> QED
  BY <1>1, <1>2, <1>3, <1>4, NoneDue, FlushStep

LEMMA AdoptFacts ==
  /\ Nothing \in Waiter /\ Proper(Nothing) /\ Nothing.do = "nothing"
  /\ Adopt \in Waiter /\ Proper(Adopt) /\ Adopt.do = "adopt"
<1>1. {} \in List
  BY DEF List
<1> QED
  BY <1>1 DEF Nothing, Adopt, Waiter, Proper

LEMMA EditInv ==
  ASSUME IInv, NEW immediate \in BOOLEAN, Edit(immediate), micro = <<>>
  PROVE  IInv'
<1> DEFINE v == cache.version
           next == cache.list \cup {made + 1}
<1>1. v \in Version /\ v \in server.used /\ next \in List /\ made + 1 \in 0 .. MaxEdits
  <2>1. made < MaxEdits
    BY DEF Edit
  <2> QED
    BY <2>1, ScreenOf DEF List
<1>2. /\ made' = made + 1 /\ cache' = [cache EXCEPT !.list = next]
      /\ UNCHANGED <<server, requests, dialogs, loads, acts>>
      /\ \/ Flush(Queued(v, next), v, Adopt, micro)
         \/ saves' = [Queued(v, next) EXCEPT ![v].timer = TRUE] /\ UNCHANGED micro
  BY DEF Edit
<1>h. HistoryTypes' /\ latest' = [latest EXCEPT ![v] = next]
  <2>1. Put(v, next)
    BY DEF Edit
  <2> QED
    BY <1>1, <2>1, PutFacts
<1>3. cache' \in Deck /\ cache'.version = v
  <2>1. PICK c \in Deck : c = cache
    BY ScreenOf
  <2>2. cache' = [c EXCEPT !.list = next]
    BY <1>2, <2>1
  <2> QED
    BY <1>1, <2>1, <2>2 DEF Deck
<1> HIDE DEF v, next
<1>4. ScreenTypes' /\ ScreenKnown'
  <2>1. Known(cache')
    BY <1>1, <1>3 DEF Known
  <2>2. made' \in 0 .. MaxEdits /\ acts' \in 0 .. MaxActs
    BY <1>1, <1>2, ScreenOf
  <2> QED
    BY <1>2, <1>3, <2>1, <2>2, ScreenStep
<1>5. CASE Flush(Queued(v, next), v, Adopt, micro)
  <2>1. QueueTypes' /\ SaveFacts' /\ SavesKnown' /\ MicroTypes' /\ MicroFacts'
    BY <1>h, <1>1, <1>2, <1>5, AdoptFacts, FlushQueued
  <2> QED
    BY <1>h, <1>2, <1>4, <2>1, SameServer, SameOpen, PartsAfter
<1>6. CASE saves' = [Queued(v, next) EXCEPT ![v].timer = TRUE] /\ UNCHANGED micro
  <2>1. PICK t \in Save : /\ t = Queued(v, next)[v] /\ Shape(t) /\ Kept(t, next, v, server)
                          /\ Known(t.answer) /\ t.status = saves[v].status
    BY <1>1, QueuedFacts
  <2> DEFINE n == [t EXCEPT !.timer = TRUE]
  <2>2. saves' = [saves EXCEPT ![v] = n]
    <3>1. /\ Queued(v, next) \in [Version -> Save]
          /\ \A u \in Version \ {v} : Queued(v, next)[u] = saves[u]
      BY <1>1, QueuedFacts
    <3>2. saves' = [Queued(v, next) EXCEPT ![v] = n]
      BY <1>6, <2>1
    <3> HIDE DEF n
    <3> QED
      BY <1>1, <3>1, <3>2, Parts DEF QueueTypes
  <2>3. /\ n \in Save /\ n.timer = TRUE /\ n.pending = t.pending /\ n.first = t.first
        /\ n.current = t.current /\ n.answer = t.answer /\ n.waiting = t.waiting
        /\ n.status = t.status
    BY <2>1 DEF Save
  <2> HIDE DEF n
  <2>4. /\ latest' \in [Version -> List] /\ latest'[v] = next
        /\ \A u \in Version \ {v} : latest'[u] = latest[u]
    BY <1>h, <1>1, Parts DEF QueueTypes
  <2>5. Shape(n) /\ Kept(n, latest'[v], v, server) /\ Joined(n) /\ Known(n.answer)
    BY <2>1, <2>3, <2>4 DEF Shape, Kept, Joined, Known
  <2>6. \A u \in Version : ~Due(u)
    BY NoneDue
  <2>7. QueueTypes' /\ SaveFacts' /\ SavesKnown'
    BY <1>1, <1>2, <2>2, <2>3, <2>4, <2>5, <2>6, QueueStep
  <2>8. MicroTypes' /\ MicroFacts'
    BY <1>6, Parts, NoneDue DEF MicroTypes, MicroFacts
  <2> QED
    BY <1>h, <1>2, <1>4, <2>7, <2>8, SameServer, SameOpen, PartsAfter
<1> QED
  BY <1>2, <1>5, <1>6

LEMMA TimerInv ==
  ASSUME IInv, NEW v \in Version, Timer(v), micro = <<>>
  PROVE  IInv'
<1>1. /\ Flush(saves, v, Nothing, micro)
      /\ UNCHANGED <<server, cache, history, requests, dialogs, loads, made, acts>>
  BY DEF Timer
<1>2. Nothing \in Waiter /\ Proper(Nothing) /\ Nothing.do \notin {"activate", "create"}
  BY AdoptFacts
<1>3. QueueTypes' /\ SaveFacts' /\ SavesKnown' /\ MicroTypes' /\ MicroFacts'
  BY <1>1, <1>2, NoneDue, FlushSame
<1>4. ScreenTypes' /\ ScreenKnown'
  BY <1>1, ScreenOf, SameScreen
<1> QED
  BY <1>1, <1>3, <1>4, SameHistory, SameServer, SameOpen, PartsAfter

LEMMA ActsFacts ==
  ASSUME IInv, Acts
  PROVE  acts' \in 0 .. MaxActs
BY ScreenOf DEF Acts

LEMMA FlushShownInv ==
  ASSUME IInv, micro = <<>>, NEW then \in Waiter, Proper(then), FlushShown(then)
  PROVE  IInv'
<1>1. /\ Put(cache.version, cache.list) /\ Acts
      /\ Flush(Queued(cache.version, cache.list), cache.version, then, micro)
      /\ UNCHANGED <<server, cache, requests, dialogs, loads, made>>
  BY DEF FlushShown
<1>h. HistoryTypes' /\ latest' = [latest EXCEPT ![cache.version] = cache.list]
  BY <1>1, ScreenOf, PutFacts
<1>2. QueueTypes' /\ SaveFacts' /\ SavesKnown' /\ MicroTypes' /\ MicroFacts'
  BY <1>h, <1>1, ScreenOf, FlushQueued
<1>3. ScreenTypes' /\ ScreenKnown'
  BY <1>1, ActsFacts, ScreenOf, SameScreen
<1> QED
  BY <1>h, <1>1, <1>2, <1>3, SameServer, SameOpen, PartsAfter

LEMMA ShownInv ==
  ASSUME IInv, micro = <<>>,
         Back \/ Retry \/ NewVersion \/ \E w \in Version : SwitchTo(w)
  PROVE  IInv'
<1>1. Create \in Waiter /\ Proper(Create)
  BY ScreenOf DEF Create, Nothing, Waiter, Proper
<1>2. ASSUME NEW w \in Version PROVE Activate(w) \in Waiter /\ Proper(Activate(w))
  BY ScreenOf DEF Activate, Nothing, Waiter, Proper
<1>3. CASE Back
  BY <1>3, AdoptFacts, FlushShownInv DEF Back
<1>4. CASE Retry
  BY <1>4, AdoptFacts, FlushShownInv DEF Retry
<1>5. CASE NewVersion
  BY <1>1, <1>5, FlushShownInv DEF NewVersion
<1>6. ASSUME NEW w \in Version, SwitchTo(w) PROVE IInv'
  <2>1. FlushShown(Activate(w))
    BY <1>6 DEF SwitchTo
  <2> QED
    BY <1>2, <2>1, FlushShownInv
<1> QED
  BY <1>3, <1>4, <1>5, <1>6

LEMMA FlushAllInv ==
  ASSUME IInv, FlushAll, micro = <<>>
  PROVE  IInv'
<1>1. Acts /\ UNCHANGED <<server, cache, history, requests, dialogs, loads, made>>
  BY DEF FlushAll
<1>2. PICK v \in Version : Flush(saves, v, Rest({w \in Version \ {v} : HasPending(w)}), micro)
  BY DEF FlushAll
<1>3. QueueTypes' /\ SaveFacts' /\ SavesKnown' /\ MicroTypes' /\ MicroFacts'
  <2> DEFINE vs == {w \in Version \ {v} : HasPending(w)}
             then == Rest(vs)
  <2>1. vs \in SUBSET Version
    OBVIOUS
  <2> HIDE DEF vs
  <2>2. then \in Waiter /\ Proper(then) /\ then.do \notin {"activate", "create"}
    BY <2>1, RestFacts
  <2>3. Flush(saves, v, then, micro)
    BY <1>2 DEF vs
  <2> HIDE DEF then
  <2> QED
    BY <1>1, <2>2, <2>3, NoneDue, FlushSame
<1>4. ScreenTypes' /\ ScreenKnown'
  BY <1>1, ActsFacts, ScreenOf, SameScreen
<1> QED
  BY <1>1, <1>3, <1>4, SameHistory, SameServer, SameOpen, PartsAfter

\* Steps that leave queue and server alone.
LEMMA OutsideStep ==
  ASSUME IInv, UNCHANGED <<server, saves, micro, history>>, ScreenTypes', ScreenKnown',
         OpenTypes', OpenKnown', RequestFacts'
  PROVE  IInv'
BY SameHistory, SameServer, SameQueue, PartsAfter

LEMMA DecideInv ==
  ASSUME IInv, NEW then \in dialogs, NEW anyway \in BOOLEAN, Decide(then, anyway)
  PROVE  IInv'
<1>1. /\ dialogs' = dialogs \ {then}
      /\ requests' = IF anyway THEN requests \cup {Send(then.do, then.to)} ELSE requests
      /\ UNCHANGED <<server, cache, saves, micro, history, loads, made, acts>>
  BY DEF Decide, queue
<1>2. then \in Waiter /\ then.do \in {"activate", "create"} /\ Proper(then)
  BY Parts DEF OpenTypes, RequestFacts
<1>3. OpenTypes' /\ OpenKnown' /\ RequestFacts'
  <2> DEFINE q == Send(then.do, then.to)
  <2>1. q \in Request /\ q.answer = None /\ (q.op # "create" => q.to \in Version)
    BY <1>2, SentFacts
  <2>2. Known(q.answer)
    BY <2>1 DEF Known
  <2> HIDE DEF q
  <2>3. requests' \subseteq requests \cup {q}
    BY <1>1 DEF q
  <2> QED
    BY <1>1, <2>1, <2>2, <2>3, OpenStep
<1>4. ScreenTypes' /\ ScreenKnown'
  BY <1>1, ScreenOf, SameScreen
<1> QED
  BY <1>1, <1>3, <1>4, OutsideStep

LEMMA ManageInv ==
  ASSUME IInv, NEW op \in {"rename", "delete"}, NEW v \in Version, Manage(op, v)
  PROVE  IInv'
<1> DEFINE q == Send(op, v)
<1>1. /\ requests' = requests \cup {q} /\ Acts
      /\ UNCHANGED <<server, cache, saves, micro, history, dialogs, loads, made>>
  BY DEF Manage, queue
<1>2. q \in Request /\ q.answer = None /\ q.to = v
  BY DEF Send, Request
<1> HIDE DEF q
<1>3. OpenTypes' /\ OpenKnown' /\ RequestFacts'
  BY <1>1, <1>2, OpenStep DEF Known
<1>4. ScreenTypes' /\ ScreenKnown'
  BY <1>1, ActsFacts, ScreenOf, SameScreen
<1> QED
  BY <1>1, <1>3, <1>4, OutsideStep

(***************************************************************************)
(* Version mutations and reloads.                                          *)
(***************************************************************************)

\* No version is given twice, and the one that is shown exists.
LEMMA PerformedFacts ==
  ASSUME IInv, NEW q \in requests, q.to # None => Exists(q.to), NEW s \in Performed(q)
  PROVE  /\ s \in ServerType /\ s.list[s.active] # None
         /\ \A v \in Version : s.list[v] # None => v \in s.used
         /\ server.used \subseteq s.used
         /\ \A v \in Version : \/ s.list[v] \in {None, server.list[v]}
                               \/ v \notin server.used
         /\ \A v \in Version : v \notin s.used => v \notin server.used
<1>1. /\ server \in ServerType /\ server.list[server.active] # None /\ server.active \in Version
      /\ server.used \in SUBSET Version /\ server.list \in [Version -> {None} \cup List]
      /\ \A v \in Version : server.list[v] # None => v \in server.used
  BY Parts DEF ServerTypes, ServerType, ServerKnown, Exists
<1>2. q.op \in {"activate", "create", "rename", "delete"} /\ (q.op # "create" => q.to \in Version)
  BY Parts DEF OpenTypes, Request, RequestFacts
<1>3. PICK d \in ServerType : d = server
  BY <1>1
<1>4. CASE q.op = "activate"
  <2>1. s = [d EXCEPT !.active = q.to] /\ q.to \in Version /\ server.list[q.to] # None
    BY <1>2, <1>3, <1>4 DEF Performed, Exists
  <2>2. s \in ServerType /\ s.active = q.to /\ s.used = d.used /\ s.list = d.list
    BY <2>1 DEF ServerType
  <2> QED
    BY <1>1, <1>3, <2>1, <2>2
<1>5. CASE q.op = "create"
  <2>1. PICK v \in Version \ server.used :
          s = [server EXCEPT !.active = v, !.used = @ \cup {v},
                             !.list[v] = server.list[server.active]]
    BY <1>5 DEF Performed
  <2>2. /\ s.active = v /\ s.used = server.used \cup {v}
        /\ s.list = [server.list EXCEPT ![v] = server.list[server.active]]
        /\ s \in ServerType
    BY <1>1, <2>1 DEF ServerType
  <2>3. s.list[v] = server.list[server.active] /\ \A u \in Version \ {v} : s.list[u] = server.list[u]
    BY <1>1, <2>2
  <2> QED
    BY <1>1, <2>1, <2>2, <2>3
<1>6. CASE q.op = "rename"
  <2>1. s = server
    BY <1>6 DEF Performed
  <2> QED
    BY <1>1, <2>1
<1>7. CASE q.op = "delete"
  <2>1. PICK v \in MovesOnTo(q.to) : s = [server EXCEPT !.list[q.to] = None, !.active = v]
    BY <1>7 DEF Performed
  <2>2. v \in Version \ {q.to} /\ server.list[v] # None /\ q.to \in Version
    BY <1>2, <1>7, <2>1 DEF MovesOnTo, Exists
  <2>3. /\ s.active = v /\ s.used = server.used
        /\ s.list = [server.list EXCEPT ![q.to] = None] /\ s \in ServerType
    BY <1>1, <2>1, <2>2 DEF ServerType
  <2>4. s.list[q.to] = None /\ \A u \in Version \ {q.to} : s.list[u] = server.list[u]
    BY <1>1, <2>2, <2>3
  <2> QED
    BY <1>1, <2>2, <2>3, <2>4
<1> QED
  BY <1>2, <1>4, <1>5, <1>6, <1>7

LEMMA PerformInv ==
  ASSUME IInv, NEW q \in requests, Perform(q)
  PROVE  IInv'
<1>1. /\ q.to # None => Exists(q.to)
      /\ UNCHANGED <<cache, saves, micro, history, dialogs, loads, made, acts>>
  BY DEF Perform, queue
<1>2. PICK s \in Performed(q) :
        /\ server' = s
        /\ requests' = (requests \ {q}) \cup {[q EXCEPT !.answer = Answer(s)]}
  BY DEF Perform
<1>3. /\ server' \in ServerType /\ server'.list[server'.active] # None
      /\ \A v \in Version : server'.list[v] # None => v \in server'.used
      /\ server.used \subseteq server'.used
      /\ \A v \in Version : server'.list[v] \in {None, server.list[v]} \/ v \notin server.used
  BY <1>1, <1>2, PerformedFacts
<1>4. ServerTypes' /\ ServerKnown'
  BY <1>3 DEF ServerTypes, ServerType, ServerKnown, Exists
<1>5. ASSUME NEW v \in Version PROVE Kept(saves[v], latest[v], v, server')
  <2>1. Kept(saves[v], latest[v], v, server)
    BY SaveOf
  <2>2. CASE v \notin server.used
    <3>1. saves[v].pending = None /\ saves[v].first = None /\ saves[v].status # "saved"
      BY <2>1, <2>2 DEF Kept
    <3>2. saves[v].answer = None
      BY <3>1, SaveOf DEF Shape
    <3> QED
      BY <3>1, <3>2 DEF Kept
  <2>3. CASE v \in server.used
    BY <1>3, <2>1, <2>3 DEF Kept
  <2> QED
    BY <2>2, <2>3
<1>6. QueueTypes' /\ SaveFacts' /\ SavesKnown' /\ MicroTypes' /\ MicroFacts'
  BY <1>1, <1>3, <1>5, SameQueue
<1>7. ScreenTypes' /\ ScreenKnown'
  BY <1>1, <1>3, ScreenOf, SameScreen
<1>8. Answer(server') \in Deck /\ Answer(server').version \in server'.used
  <2>1. server'.active \in Version /\ server'.list[server'.active] \in List
    BY <1>3 DEF ServerType
  <2> QED
    BY <1>3, <2>1 DEF Answer, Deck
<1> DEFINE n == [q EXCEPT !.answer = Answer(server')]
<1>9. n \in Request /\ n.op = q.op /\ n.to = q.to /\ n.answer = Answer(server')
  <2>1. PICK p \in Request : p = q
    BY Parts DEF OpenTypes
  <2> QED
    BY <1>8, <2>1 DEF Request
<1>10. requests' = (requests \ {q}) \cup {n}
  BY <1>2
<1> HIDE DEF n
<1>11. OpenTypes' /\ OpenKnown' /\ RequestFacts'
  <2>1. OpenTypes'
    BY <1>1, <1>9, <1>10, Parts DEF OpenTypes
  <2>2. OpenKnown'
    BY <1>3, <1>8, <1>9, <1>10, Parts DEF OpenKnown, Known
  <2>3. RequestFacts'
    BY <1>1, <1>9, <1>10, Parts DEF RequestFacts, Proper
  <2> QED
    BY <2>1, <2>2, <2>3
<1> QED
  BY <1>1, <1>4, <1>6, <1>7, <1>11, SameHistory, PartsAfter

LEMMA PerformsInv ==
  ASSUME IInv, NEW q \in requests, Performs(q)
  PROVE  IInv'
<1>1. /\ requests' = requests \ {q}
      /\ \/ q.answer # None /\ cache' = q.answer
         \/ UNCHANGED cache
      /\ UNCHANGED <<server, saves, micro, history, dialogs, loads, made, acts>>
  BY DEF Performs, queue
<1>2. q.answer \in {None} \cup Deck /\ Known(q.answer)
  BY Parts DEF OpenTypes, OpenKnown, Request
<1>3. cache' \in Deck /\ Known(cache')
  BY <1>1, <1>2, ScreenOf
<1>4. ScreenTypes' /\ ScreenKnown'
  BY <1>1, <1>3, ScreenOf, ScreenStep
<1>5. OpenTypes' /\ OpenKnown' /\ RequestFacts'
  BY <1>1, OpenStep
<1> QED
  BY <1>1, <1>4, <1>5, OutsideStep

LEMMA LoadStep ==
  ASSUME IInv, NEW how \in {"query", "focus"}, NEW x \in {None, Sent} \cup Deck, Known(x),
         loads' = [loads EXCEPT ![how] = x], cache' \in Deck, Known(cache'),
         acts' \in 0 .. MaxActs,
         UNCHANGED <<server, saves, micro, history, requests, dialogs, made>>
  PROVE  IInv'
<1>1. /\ loads' \in [{"query", "focus"} -> {None, Sent} \cup Deck] /\ loads'[how] = x
      /\ \A h \in {"query", "focus"} \ {how} : loads'[h] = loads[h]
  BY Parts DEF ScreenTypes
<1>2. ScreenTypes'
  BY <1>1, ScreenOf DEF ScreenTypes
<1>3. ScreenKnown'
  <2>1. \A h \in {"query", "focus"} : Known(loads[h])
    BY Parts DEF ScreenKnown, ScreenTypes
  <2>2. \A h \in {"query", "focus"} : Known(loads[h])'
    BY <1>1, <2>1 DEF Known
  <2> QED
    BY <1>1, <2>2 DEF ScreenKnown, Known
<1>4. OpenTypes' /\ OpenKnown' /\ RequestFacts'
  BY OpenStep
<1> QED
  BY <1>2, <1>3, <1>4, OutsideStep

LEMMA LoadsInv ==
  ASSUME IInv, NEW how \in {"query", "focus"}, Load(how) \/ Read(how) \/ Loaded(how)
  PROVE  IInv'
<1>1. Known(None) /\ Known(Sent)
  BY DEF Known
<1>2. CASE Load(how)
  BY <1>1, <1>2, ScreenOf, ActsFacts, LoadStep DEF Load, queue
<1>3. CASE Read(how)
  BY <1>3, AnswerFacts, ScreenOf, LoadStep DEF Read, queue
<1>4. CASE Loaded(how)
  <2>1. /\ loads' = [loads EXCEPT ![how] = None]
        /\ cache' = cache \/ (cache' = loads[how] /\ loads[how] # Sent /\ loads[how] # None)
        /\ UNCHANGED <<server, saves, micro, history, requests, dialogs, made, acts>>
    BY <1>4 DEF Loaded, queue
  <2>2. loads[how] \in {None, Sent} \cup Deck /\ Known(loads[how])
    BY Parts DEF ScreenTypes, ScreenKnown
  <2>3. cache' \in Deck /\ Known(cache')
    BY <2>1, <2>2, ScreenOf
  <2> QED
    BY <1>1, <2>1, <2>3, ScreenOf, LoadStep
<1> QED
  BY <1>2, <1>3, <1>4

LEMMA StutterInv ==
  ASSUME IInv, UNCHANGED vars
  PROVE  IInv'
<1>1. UNCHANGED <<server, cache, saves, micro, history, requests, dialogs, loads, made, acts>>
  BY DEF vars, queue
<1>2. ScreenTypes' /\ ScreenKnown'
  BY <1>1, ScreenOf, SameScreen
<1>3. OpenTypes' /\ OpenKnown' /\ RequestFacts'
  BY <1>1, OpenStep
<1> QED
  BY <1>1, <1>2, <1>3, OutsideStep

LEMMA NextInv == IInv /\ [Next]_<<vars, uses>> => IInv'
<1> SUFFICES ASSUME IInv, [Next]_<<vars, uses>> PROVE IInv'
  OBVIOUS
<1>0. DOMAIN loads = {"query", "focus"}
  BY Parts DEF ScreenTypes
<1>1. CASE Microtask
  BY <1>1, MicrotaskInv
<1>2. CASE micro = <<>> /\ Event
  <2>1. ASSUME NEW immediate \in BOOLEAN, Edit(immediate) PROVE IInv'
    BY <1>2, <2>1, EditInv
  <2>2. ASSUME NEW v \in Version,
               Timer(v) \/ SwitchTo(v) \/ Manage("rename", v) \/ Manage("delete", v)
        PROVE  IInv'
    BY <1>2, <2>2, TimerInv, ShownInv, ManageInv
  <2>3. CASE Back \/ Retry \/ NewVersion \/ FlushAll
    BY <1>2, <2>3, ShownInv, FlushAllInv
  <2>4. ASSUME NEW then \in dialogs, NEW anyway \in BOOLEAN, Decide(then, anyway) PROVE IInv'
    BY <2>4, DecideInv
  <2>5. ASSUME NEW how \in DOMAIN loads, Load(how) \/ Loaded(how) PROVE IInv'
    BY <1>0, <2>5, LoadsInv
  <2>6. ASSUME NEW v \in Version,
               SaveNewer(v) \/ SaveDone(v) \/ SaveFails(v) \/ SaveForbidden(v)
        PROVE  IInv'
    BY <1>2, <2>6, SaveNewerInv, SaveDoneInv, SaveFailsInv, SaveForbiddenInv
  <2>7. ASSUME NEW q \in requests, Performs(q) PROVE IInv'
    BY <2>7, PerformsInv
  <2> QED
    BY <1>2, <2>1, <2>2, <2>3, <2>4, <2>5, <2>6, <2>7 DEF Event
<1>3. CASE Server
  <2>1. ASSUME NEW v \in Version, Serve(v) PROVE IInv'
    BY <2>1, ServeInv
  <2>2. ASSUME NEW q \in requests, Perform(q) PROVE IInv'
    BY <2>2, PerformInv
  <2>3. ASSUME NEW how \in DOMAIN loads, Read(how) PROVE IInv'
    BY <1>0, <2>3, LoadsInv
  <2> QED
    BY <1>3, <2>1, <2>2, <2>3 DEF Server
<1>4. CASE UNCHANGED <<vars, uses>>
  BY <1>4, StutterInv
<1> QED
  BY <1>1, <1>2, <1>3, <1>4 DEF Next

(***************************************************************************)
(* Theorems.                                                               *)
(***************************************************************************)

\* The inductive invariant holds in every reachable state: of each queue the list
\* that was last put in it, by the editor or by a save that failed, waits there, is
\* being saved or is on the server.
THEOREM EditorInvariant == Spec => []IInv
<1> QED
  BY InitInv, NextInv, PTL DEF Spec

\* Queue, cache and requests keep their types, and the active version exists.
THEOREM Typed == Spec => []TypeOK
<1>1. IInv => TypeOK
  BY DEF IInv
<1> QED
  BY <1>1, EditorInvariant, PTL

\* Whatever list waits has a timer, a save that will come back to it or a failure
\* that is shown (flushSaveKey).
THEOREM QueuesAreNotStranded == Spec => []NoQueueStranded
<1>1. ASSUME IInv PROVE NoQueueStranded
  <2> SUFFICES ASSUME NEW v \in Version, micro = <<>>, saves[v].pending # None,
                      ~saves[v].timer, ~Saving(v)
               PROVE  saves[v].status = "error"
    BY DEF NoQueueStranded
  <2>1. ~Due(v)
    BY <1>1, NoneDue
  <2> QED
    BY <1>1, <2>1, SaveOf DEF Resumed, Saving
<1>2. IInv => NoQueueStranded
  BY <1>1
<1> QED
  BY <1>2, EditorInvariant, PTL

\* Of a version that is "Saved" the server has the list that was last put in its
\* queue: the editor's, or the one that a failed save has put back over it since.
THEOREM SavedVersionsAreStored == Spec => []SavedIsStored
<1>1. ASSUME IInv PROVE SavedIsStored
  <2> SUFFICES ASSUME NEW v \in Version, saves[v].status = "saved", ~HasPending(v), Exists(v)
               PROVE  server.list[v] = latest[v]
    BY DEF SavedIsStored
  <2>1. Kept(saves[v], latest[v], v, server)
    BY <1>1, SaveOf
  <2> QED
    BY <2>1 DEF Kept, HasPending, Saving, Exists
<1>2. IInv => SavedIsStored
  BY <1>1
<1> QED
  BY <1>2, EditorInvariant, PTL

\* The step of AsksAfterFailure.
SendsAfterSuccess ==
  \A q \in requests' \ requests :
    (micro # <<>> /\ q.answer = None) => saves[Head(micro).at].status # "error"

\* The version menu sends nothing behind a save that has failed (flushActive,
\* switchTo).
THEOREM FailuresAreAskedAbout == Spec => AsksAfterFailure
<1>1. ASSUME IInv, Microtask PROVE SendsAfterSuccess
  <2> SUFFICES ASSUME NEW q \in requests' \ requests
               PROVE  saves[Head(micro).at].status # "error"
    BY DEF SendsAfterSuccess
  <2>1. micro # <<>>
    BY <1>1 DEF Microtask
  <2>2. PICK call : call = Head(micro)
    OBVIOUS
  <2>3. Continue(call) /\ call.then.do \in {"activate", "create"} /\ ~Refused(call)
    BY <1>1, <2>2 DEF Microtask, Continue, NextKey
  <2>4. Honest(call)
    BY <1>1, <2>1, <2>2, CallOf
  <2> QED
    BY <2>2, <2>3, <2>4 DEF Honest, Refused
<1>2. ASSUME micro = <<>> PROVE SendsAfterSuccess
  BY <1>2 DEF SendsAfterSuccess
<1>3. ASSUME IInv, Server PROVE SendsAfterSuccess
  <2>1. ASSUME NEW q \in requests, Perform(q) PROVE SendsAfterSuccess
    <3>1. PICK s \in Performed(q) : requests' = (requests \ {q}) \cup {[q EXCEPT !.answer = Answer(s)]}
      BY <2>1 DEF Perform
    <3>2. [q EXCEPT !.answer = Answer(s)].answer # None
      <4>1. PICK p \in Request : p = q
        BY <1>3, <2>1, Parts DEF OpenTypes
      <4>2. q.to # None => Exists(q.to)
        BY <2>1 DEF Perform
      <4>3. s.active \in Version /\ s.list[s.active] \in List
        <5>1. s \in ServerType /\ s.list[s.active] # None
          BY <1>3, <4>2, PerformedFacts
        <5> QED
          BY <5>1 DEF ServerType
      <4>4. Answer(s) \in Deck
        BY <4>3 DEF Answer, Deck
      <4>5. Answer(s) # None
        BY <4>4
      <4> QED
        BY <4>1, <4>5 DEF Request
    <3> QED
      BY <3>1, <3>2 DEF SendsAfterSuccess
  <2>2. ASSUME NEW v \in Version, Serve(v) PROVE SendsAfterSuccess
    BY <2>2 DEF Serve, SendsAfterSuccess
  <2>3. ASSUME NEW how \in DOMAIN loads, Read(how) PROVE SendsAfterSuccess
    BY <2>3 DEF Read, SendsAfterSuccess
  <2> QED
    BY <1>3, <2>1, <2>2, <2>3 DEF Server
<1>4. ASSUME UNCHANGED <<vars, uses>> PROVE SendsAfterSuccess
  BY <1>4 DEF vars, SendsAfterSuccess
<1>5. IInv /\ [Next]_<<vars, uses>> => [SendsAfterSuccess]_vars
  BY <1>1, <1>2, <1>3, <1>4 DEF Next
<1>6. Spec => [][SendsAfterSuccess]_vars
  BY <1>5, EditorInvariant, PTL DEF Spec
<1> QED
  BY <1>6 DEF AsksAfterFailure, SendsAfterSuccess

=============================================================================

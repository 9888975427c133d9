------------------------- MODULE OneTimeCodesProofs -------------------------
(***************************************************************************)
(* What OneTimeCodes promises, proved for any identifiers, addresses,      *)
(* limits and number of overlapping requests.                              *)
(***************************************************************************)
EXTENDS OneTimeCodesInv, TLAPS

USE LimitAssumption, BoundAssumption, NoneAssumption, RowAssumption

CodeTypes   == /\ code \in [Id -> {None} \cup Code] /\ issued \in 0 .. MaxIssued
               /\ used \subseteq 1 .. issued /\ wrong \in [1 .. MaxIssued -> Nat]
WindowTypes == windows \in [Key -> Window]
LinkTypes   == \A i \in links : Target[i] = None

LEMMA Parts ==
  IInv <=> /\ CodeTypes /\ WindowTypes /\ LinkTypes /\ RequestTypes /\ Exclusive /\ ReadsStand
           /\ CodeFacts /\ WindowFacts
BY DEF IInv, TypeOK, CodeTypes, WindowTypes, LinkTypes

LEMMA PartsAfter ==
  ASSUME CodeTypes', WindowTypes', LinkTypes', RequestTypes', Exclusive', ReadsStand',
         CodeFacts', WindowFacts'
  PROVE  IInv'
BY DEF IInv, TypeOK, CodeTypes, WindowTypes, LinkTypes

(***************************************************************************)
(* Keys of budgets.                                                        *)
(***************************************************************************)

LEMMA Limits ==
  ASSUME NEW k \in Key
  PROVE  Limit(k) \in Nat /\ 1 <= Limit(k)
BY DEF Limit

LEMMA KeysOf ==
  ASSUME NEW i \in Id
  PROVE  /\ Guesses(i) \subseteq Key /\ Sends(i) \in Key
         /\ \A k \in Guesses(i) : Limit(k) = MaxGuesses
         /\ Limit(Sends(i)) = MaxSends
<1>1. Guesses(i) \subseteq Key /\ Sends(i) \in Key
  BY DEF Key
<1>2. \A k \in Guesses(i) : k[1] \in {"attempts", "target"}
  BY DEF Guesses
<1> QED
  BY <1>1, <1>2 DEF Limit, Sends

\* Guesses and codes sent are never counted in one budget.
LEMMA SendsApart ==
  ASSUME NEW i \in Id, NEW j \in Id
  PROVE  Sends(i) \notin Guesses(j)
<1>1. \A k \in Guesses(j) : k[1] \in {"attempts", "target"}
  BY DEF Guesses
<1>2. Sends(i)[1] = "sends"
  BY DEF Sends
<1> QED
  BY <1>1, <1>2

LEMMA IdleFacts ==
  Idle \in Locals /\ Idle.step = "idle"
BY DEF Idle, Locals, Counts

LEMMA RequestOf ==
  ASSUME IInv, NEW r \in Request
  PROVE  requests[r] \in Locals /\ (requests[r].step # "idle" => requests[r].id \in Id)
BY Parts DEF RequestTypes

\* A row of a budget that was read, and what is charged to it.
LEMMA ChargedFacts ==
  ASSUME IInv, NEW k \in Key, NEW c \in {0, windows[k].count}, c < Limit(k)
  PROVE  /\ Charged(k, c) \in Window
         /\ Charged(k, c).events = Charged(k, c).count /\ Charged(k, c).count <= Limit(k)
<1>1. /\ windows[k] \in Window /\ windows[k].count \in Nat /\ windows[k].events \in Nat
      /\ windows[k].events = windows[k].count
  BY Parts DEF WindowTypes, WindowFacts, Window
<1>2. c \in Nat /\ Limit(k) \in Nat /\ 1 <= Limit(k)
  BY <1>1, Limits
<1>3. CASE c = 0
  BY <1>2, <1>3 DEF Charged, Window
<1>4. CASE c # 0
  <2>1. c = windows[k].count
    BY <1>4
  <2>2. /\ Charged(k, c) \in Window
        /\ Charged(k, c).count = c + 1 /\ Charged(k, c).events = windows[k].events + 1
    <3>1. PICK w \in Window : w = windows[k]
      BY <1>1
    <3>2. Charged(k, c) = [w EXCEPT !.count = c + 1, !.events = w.events + 1]
      BY <1>4, <3>1 DEF Charged, Window
    <3>3. c + 1 \in Nat /\ w.events + 1 \in Nat
      BY <1>1, <1>2, <3>1
    <3> QED
      BY <3>1, <3>2, <3>3 DEF Window
  <2> QED
    BY <1>1, <1>2, <2>1, <2>2
<1> QED
  BY <1>3, <1>4

LEMMA Counted ==
  ASSUME IInv, NEW k \in Key, NEW q
  PROVE  /\ Count(q, k) \in {0, windows[k].count} /\ Count(q, k) \in Nat
         /\ ~Exhausted(q, k) => Count(q, k) < Limit(k)
<1>1. windows[k].count \in Nat
  BY Parts DEF WindowTypes, Window
<1>2. Count(q, k) \in {0, windows[k].count} /\ Count(q, k) \in Nat
  BY <1>1 DEF Count
<1> QED
  BY <1>2, Limits DEF Exhausted

(***************************************************************************)
(* Checks that judge.                                                      *)
(***************************************************************************)

\* A request that goes on to a step without locks leaves the others theirs.
LEMMA RequestStep ==
  ASSUME IInv, NEW r \in Request, NEW n \in Locals, n.step # "idle" => n.id \in Id,
         n.step # "judge", requests' = [requests EXCEPT ![r] = n]
  PROVE  /\ RequestTypes' /\ Exclusive'
         /\ \A s \in Request : Judges(s)' => s # r /\ Judges(s) /\ requests'[s] = requests[s]
<1>1. requests' \in [Request -> Locals] /\ requests'[r] = n
  BY Parts DEF RequestTypes
<1>2. \A s \in Request \ {r} : requests'[s] = requests[s]
  BY Parts DEF RequestTypes
<1>3. RequestTypes'
  BY <1>1, <1>2, Parts DEF RequestTypes
<1>4. \A s \in Request : Judges(s)' => s # r /\ Judges(s) /\ requests'[s] = requests[s]
  BY <1>1, <1>2 DEF Judges, At
<1>5. Exclusive'
  <2> SUFFICES ASSUME NEW s \in Request, NEW u \in Request, s # u, Judges(s)', Judges(u)'
               PROVE  LocksOf(requests'[s].id) \cap LocksOf(requests'[u].id) = {}
    BY DEF Exclusive, LocksOf, Guesses
  <2>1. /\ Judges(s) /\ Judges(u) /\ requests'[s] = requests[s] /\ requests'[u] = requests[u]
    BY <1>4
  <2>2. LocksOf(requests[s].id) \cap LocksOf(requests[u].id) = {}
    BY <2>1, Parts DEF Exclusive
  <2> QED
    BY <2>1, <2>2
<1> QED
  BY <1>3, <1>4, <1>5

LEMMA SameRequests ==
  ASSUME IInv, requests' = requests
  PROVE  /\ RequestTypes' /\ Exclusive'
         /\ \A s \in Request : Judges(s)' => Judges(s) /\ requests'[s] = requests[s]
<1>1. RequestTypes' /\ \A s \in Request : Judges(s)' => Judges(s) /\ requests'[s] = requests[s]
  BY Parts DEF RequestTypes, Judges, At
<1>2. Exclusive'
  BY Parts DEF Exclusive, Judges, At, LocksOf, Guesses
<1> QED
  BY <1>1, <1>2

\* What a check judges is there, and belongs to no other.
LEMMA Judged ==
  ASSUME IInv, NEW r \in Request, Judges(r)
  PROVE  /\ requests[r] \in Locals /\ requests[r].id \in Id
         /\ SeenStands(requests[r]) /\ CountsStand(requests[r])
         /\ \A s \in Request \ {r} : Judges(s) =>
              /\ requests[s].id \in Id /\ requests[s].id # requests[r].id
              /\ Guesses(requests[s].id) \cap Guesses(requests[r].id) = {}
<1>1. /\ requests[r] \in Locals /\ requests[r].id \in Id
      /\ SeenStands(requests[r]) /\ CountsStand(requests[r])
  BY Parts DEF RequestTypes, ReadsStand, Judges, At
<1>2. ASSUME NEW s \in Request \ {r}, Judges(s)
      PROVE  /\ requests[s].id \in Id /\ requests[s].id # requests[r].id
             /\ Guesses(requests[s].id) \cap Guesses(requests[r].id) = {}
  <2>1. requests[s].id \in Id
    BY <1>2, Parts DEF RequestTypes, Judges, At
  <2>2. LocksOf(requests[r].id) \cap LocksOf(requests[s].id) = {}
    BY <1>2, Parts DEF Exclusive
  <2> QED
    BY <2>1, <2>2 DEF LocksOf
<1> QED
  BY <1>1, <1>2

\* A code is the one that was read: only its expiry may differ.
SameCode(a, b) ==
  /\ a = None => b = None
  /\ a # None => b # None /\ b.n = a.n /\ b.attempts = a.attempts

LEMMA KeepReads ==
  ASSUME IInv,
         \A s \in Request : Judges(s)' => Judges(s) /\ requests'[s] = requests[s],
         \A s \in Request : Judges(s)' =>
           /\ SameCode(code[requests[s].id], code'[requests[s].id])
           /\ \A k \in Guesses(requests[s].id) : windows'[k].count = windows[k].count
  PROVE  ReadsStand'
<1> SUFFICES ASSUME NEW s \in Request, Judges(s)'
             PROVE  (SeenStands(requests[s]) /\ CountsStand(requests[s]))'
  BY DEF ReadsStand
<1>1. /\ Judges(s) /\ requests'[s] = requests[s]
      /\ SameCode(code[requests[s].id], code'[requests[s].id])
      /\ \A k \in Guesses(requests[s].id) : windows'[k].count = windows[k].count
  OBVIOUS
<1>2. SeenStands(requests[s]) /\ CountsStand(requests[s])
  BY <1>1, Judged
<1>3. SeenStands(requests[s])'
  BY <1>1, <1>2 DEF SeenStands, SameCode
<1>4. CountsStand(requests[s])'
  BY <1>1, <1>2 DEF CountsStand, Guesses, Limit
<1> QED
  BY <1>3, <1>4

\* A step that leaves the codes and the budgets of guesses alone.
LEMMA KeepTables ==
  ASSUME IInv, UNCHANGED code,
         \A s \in Request : Judges(s)' => Judges(s) /\ requests'[s] = requests[s],
         \A i \in Id : \A k \in Guesses(i) : windows'[k].count = windows[k].count
  PROVE  ReadsStand'
<1>1. \A s \in Request : Judges(s)' =>
        /\ SameCode(code[requests[s].id], code'[requests[s].id])
        /\ \A k \in Guesses(requests[s].id) : windows'[k].count = windows[k].count
  <2> SUFFICES ASSUME NEW s \in Request, Judges(s)'
               PROVE  /\ SameCode(code[requests[s].id], code'[requests[s].id])
                      /\ \A k \in Guesses(requests[s].id) : windows'[k].count = windows[k].count
    OBVIOUS
  <2>1. requests[s].id \in Id
    BY Judged
  <2> QED
    BY <2>1 DEF SameCode
<1> QED
  BY <1>1, KeepReads

LEMMA SameCodes ==
  ASSUME IInv, UNCHANGED <<code, issued, used, wrong>>
  PROVE  CodeTypes' /\ CodeFacts'
BY Parts DEF CodeTypes, CodeFacts, Unspent

\* Fewer codes.
LEMMA DiscardFacts ==
  ASSUME IInv, NEW i \in Id, code' = [code EXCEPT ![i] = None], UNCHANGED <<issued, used, wrong>>
  PROVE  CodeTypes' /\ CodeFacts'
<1>1. CodeTypes' /\ code'[i] = None /\ \A j \in Id \ {i} : code'[j] = code[j]
  BY Parts DEF CodeTypes
<1>2. \A j \in Id : code'[j] # None => Unspent(j)'
  BY <1>1, Parts DEF CodeFacts, Unspent
<1> QED
  BY <1>1, <1>2, Parts DEF CodeFacts

LEMMA SameWindows ==
  ASSUME IInv, UNCHANGED windows
  PROVE  WindowTypes' /\ WindowFacts'
BY Parts DEF WindowTypes, WindowFacts, Limit

(***************************************************************************)
(* The initial state.                                                      *)
(***************************************************************************)

LEMMA InitInv == Init => IInv
<1> SUFFICES ASSUME Init PROVE IInv
  OBVIOUS
<1>1. CodeTypes /\ LinkTypes
  BY DEF Init, CodeTypes, LinkTypes
<1>2. WindowTypes /\ \A k \in Key : windows[k].events = 0 /\ windows[k].count = 0
  BY DEF Init, WindowTypes, Window
<1>3. WindowFacts
  <2>1. \A k \in Key : 0 <= Limit(k)
    BY Limits
  <2> QED
    BY <1>2, <2>1 DEF WindowFacts
<1>4. RequestTypes /\ \A r \in Request : ~Judges(r)
  BY IdleFacts DEF Init, RequestTypes, Judges, At
<1>5. Exclusive /\ ReadsStand
  BY <1>4 DEF Exclusive, ReadsStand
<1>6. CodeFacts
  <2>1. \A i \in Id : code[i] = None
    BY DEF Init
  <2>2. \A n \in 1 .. MaxIssued : wrong[n] = 0
    BY DEF Init
  <2> QED
    BY <2>1, <2>2 DEF CodeFacts
<1> QED
  BY <1>1, <1>2, <1>3, <1>4, <1>5, <1>6, Parts

(***************************************************************************)
(* Sending a code.                                                         *)
(***************************************************************************)

LEMMA BeganFacts ==
  ASSUME IInv, NEW i \in Id
  PROVE  Began(i) \in Locals /\ Began(i).id = i
<1> DEFINE d == IF code[i] # None /\ code[i].expired THEN code[i].n ELSE None
           c == {k \in Guesses(i) \cup {Sends(i)} : windows[k].count > 0 /\ ~windows[k].open}
<1>1. d \in {None} \cup 1 .. MaxIssued
  BY Parts DEF CodeTypes, Code
<1>2. c \in SUBSET Key
  BY KeysOf
<1>3. Began(i) = [Idle EXCEPT !.id = i, !.dead = d, !.closed = c]
  BY DEF Began
<1> HIDE DEF d, c
<1> QED
  BY <1>1, <1>2, <1>3, IdleFacts DEF Locals

LEMMA BeginSendInv ==
  ASSUME IInv, NEW r \in Request, NEW i \in Id, BeginSend(r, i)
  PROVE  IInv'
<1> DEFINE n == [Began(i) EXCEPT !.op = "send", !.step = "budget"]
<1>1. n \in Locals /\ n.step = "budget" /\ n.id = i
  <2>1. PICK b \in Locals : b = Began(i) /\ b.id = i
    BY BeganFacts
  <2> QED
    BY <2>1 DEF Locals
<1>2. /\ requests' = [requests EXCEPT ![r] = n]
      /\ UNCHANGED <<code, links, windows, issued, ticks, wrong, used>>
  BY DEF BeginSend, tables
<1> HIDE DEF n
<1>3. /\ RequestTypes' /\ Exclusive'
      /\ \A s \in Request : Judges(s)' => Judges(s) /\ requests'[s] = requests[s]
  BY <1>1, <1>2, RequestStep
<1>4. LinkTypes'
  BY <1>2, Parts DEF LinkTypes
<1> QED
  BY <1>2, <1>3, <1>4, SameCodes, SameWindows, KeepTables, PartsAfter

LEMMA BeginCheckInv ==
  ASSUME IInv, NEW r \in Request, NEW i \in Id, BeginCheck(r, i)
  PROVE  IInv'
<1> DEFINE n == [Began(i) EXCEPT !.op = "check", !.step = "lock"]
<1>1. n \in Locals /\ n.step = "lock" /\ n.id = i
  <2>1. PICK b \in Locals : b = Began(i) /\ b.id = i
    BY BeganFacts
  <2> QED
    BY <2>1 DEF Locals
<1>2. /\ requests' = [requests EXCEPT ![r] = n]
      /\ UNCHANGED <<code, links, windows, issued, ticks, wrong, used>>
  BY DEF BeginCheck, tables
<1> HIDE DEF n
<1>3. /\ RequestTypes' /\ Exclusive'
      /\ \A s \in Request : Judges(s)' => Judges(s) /\ requests'[s] = requests[s]
  BY <1>1, <1>2, RequestStep
<1>4. LinkTypes'
  BY <1>2, Parts DEF LinkTypes
<1> QED
  BY <1>2, <1>3, <1>4, SameCodes, SameWindows, KeepTables, PartsAfter

LEMMA DoneFacts ==
  ASSUME IInv, NEW r \in Request, Done(r)
  PROVE  /\ RequestTypes' /\ Exclusive'
         /\ \A s \in Request : Judges(s)' => s # r /\ Judges(s) /\ requests'[s] = requests[s]
<1>1. Idle.step # "judge" /\ Idle \in Locals /\ Idle.step = "idle"
  BY IdleFacts
<1> QED
  BY <1>1, RequestStep DEF Done

LEMMA IssuanceInv ==
  ASSUME IInv, NEW r \in Request, Issuance(r)
  PROVE  IInv'
<1> DEFINE q == requests[r]
           k == Sends(q.id)
           n == [q EXCEPT !.step = "store"]
<1>1. /\ q \in Locals /\ q.id \in Id /\ k \in Key
      /\ UNCHANGED <<code, links, issued, ticks, wrong, used>>
  BY RequestOf, KeysOf DEF Issuance, At
<1>2. LinkTypes'
  BY <1>1, Parts DEF LinkTypes
<1>3. CASE Done(r) /\ UNCHANGED windows
  BY <1>1, <1>2, <1>3, DoneFacts, SameCodes, SameWindows, KeepTables, PartsAfter
<1>4. CASE /\ ~Exhausted(q, k) /\ windows' = [windows EXCEPT ![k] = Charged(k, Count(q, k))]
           /\ requests' = [requests EXCEPT ![r].step = "store"]
  <2>1. n \in Locals /\ n.step = "store" /\ n.id = q.id
    BY <1>1 DEF Locals
  <2>2. requests' = [requests EXCEPT ![r] = n]
    BY <1>4
  <2>3. /\ RequestTypes' /\ Exclusive'
        /\ \A s \in Request : Judges(s)' => Judges(s) /\ requests'[s] = requests[s]
    <3> HIDE DEF n
    <3> QED
      BY <1>1, <2>1, <2>2, RequestStep
  <2>4. /\ Charged(k, Count(q, k)) \in Window
        /\ Charged(k, Count(q, k)).events = Charged(k, Count(q, k)).count
        /\ Charged(k, Count(q, k)).count <= Limit(k)
    BY <1>1, <1>4, Counted, ChargedFacts
  <2>5. WindowTypes' /\ WindowFacts'
    <3>1. /\ windows'[k] = Charged(k, Count(q, k)) /\ WindowTypes'
          /\ \A j \in Key \ {k} : windows'[j] = windows[j]
      BY <1>1, <1>4, <2>4, Parts DEF WindowTypes
    <3>2. \A j \in Key : windows'[j].events = windows'[j].count /\ windows'[j].count <= Limit(j)
      BY <2>4, <3>1, Parts DEF WindowFacts
    <3> QED
      BY <3>1, <3>2 DEF WindowFacts
  <2>6. \A i \in Id : \A j \in Guesses(i) : windows'[j].count = windows[j].count
    <3> SUFFICES ASSUME NEW i \in Id, NEW j \in Guesses(i)
                 PROVE  windows'[j] = windows[j]
      OBVIOUS
    <3>1. j \in Key /\ j # k
      BY <1>1, KeysOf, SendsApart
    <3> QED
      BY <1>4, <3>1, Parts DEF WindowTypes
  <2> QED
    BY <1>1, <1>2, <2>3, <2>5, <2>6, SameCodes, KeepTables, PartsAfter
<1> QED
  BY <1>3, <1>4 DEF Issuance

LEMMA StoreInv ==
  ASSUME IInv, NEW r \in Request, Store(r), NEW i \in Id, i = requests[r].id
  PROVE  IInv'
<1> DEFINE q == requests[r]
           n == [q EXCEPT !.step = "detached"]
<1>1. /\ q \in Locals /\ q.id = i /\ i \notin Held /\ issued < MaxIssued /\ issued' = issued + 1
      /\ code' = [code EXCEPT ![i] = [n |-> issued + 1, attempts |-> 0, expired |-> FALSE]]
      /\ requests' = [requests EXCEPT ![r] = n]
      /\ UNCHANGED <<links, windows, ticks, wrong, used>>
  BY RequestOf DEF Store, At
<1>2. n \in Locals /\ n.step = "detached" /\ n.id = i
  BY <1>1 DEF Locals
<1>3. /\ RequestTypes' /\ Exclusive'
      /\ \A s \in Request : Judges(s)' => Judges(s) /\ requests'[s] = requests[s]
  <2> HIDE DEF n
  <2> QED
    BY <1>1, <1>2, RequestStep
<1>4. issued \in Nat /\ issued + 1 \in 1 .. MaxIssued /\ used \subseteq 1 .. issued
  BY <1>1, Parts DEF CodeTypes
<1>5. /\ code'[i] \in Code /\ code'[i].n = issued + 1 /\ code'[i].attempts = 0
      /\ \A j \in Id \ {i} : code'[j] = code[j]
  BY <1>1, <1>4, Parts DEF CodeTypes, Code
<1>6. CodeTypes'
  <2>1. code' \in [Id -> {None} \cup Code]
    BY <1>1, <1>5, Parts DEF CodeTypes
  <2> QED
    BY <1>1, <1>4, <2>1, Parts DEF CodeTypes
<1>7. \A j \in Id \ {i} : code[j] # None => code[j].n # issued + 1
  BY <1>4, Parts DEF CodeFacts, Unspent
<1>8. CodeFacts'
  <2>1. wrong[issued + 1] = 0
    BY <1>4, Parts DEF CodeFacts
  <2>2. Unspent(i)'
    <3>1. issued + 1 \notin used
      BY <1>4
    <3> QED
      BY <1>1, <1>4, <1>5, <1>7, <2>1, <3>1 DEF Unspent
  <2>3. ASSUME NEW j \in Id \ {i}, code'[j] # None PROVE Unspent(j)'
    <3>1. Unspent(j) /\ code[j] # None
      BY <1>5, <2>3, Parts DEF CodeFacts
    <3>2. \A u \in Id \ {j} : code'[u] # None => code'[u].n # code'[j].n
      BY <1>5, <1>7, <3>1, <2>3 DEF Unspent
    <3>3. code'[j] = code[j] /\ wrong' = wrong /\ used' = used
      BY <1>1, <1>5
    <3>4. code[j].n \in 1 .. issued' \ used
      BY <1>1, <1>4, <3>1 DEF Unspent
    <3> QED
      BY <3>1, <3>2, <3>3, <3>4 DEF Unspent
  <2>4. \A m \in 1 .. MaxIssued : wrong'[m] <= PerCode /\ (m > issued' => wrong'[m] = 0)
    BY <1>1, <1>4, Parts DEF CodeFacts
  <2> QED
    <3>1. \A j \in Id : code'[j] # None => Unspent(j)'
      BY <2>2, <2>3
    <3> QED
      BY <2>4, <3>1 DEF CodeFacts
<1>9. ReadsStand'
  <2>1. ASSUME NEW s \in Request, Judges(s)'
        PROVE  /\ SameCode(code[requests[s].id], code'[requests[s].id])
               /\ \A k \in Guesses(requests[s].id) : windows'[k].count = windows[k].count
    <3>1. Judges(s) /\ requests[s].id \in Id
      BY <1>3, <2>1, Judged
    <3>2. requests[s].id # i
      BY <1>1, <3>1 DEF Held, LocksOf, Judges
    <3> QED
      BY <1>1, <1>5, <3>1, <3>2 DEF SameCode
  <2> QED
    BY <1>3, <2>1, KeepReads
<1>10. LinkTypes'
  BY <1>1, Parts DEF LinkTypes
<1> QED
  BY <1>1, <1>3, <1>6, <1>8, <1>9, <1>10, SameWindows, PartsAfter

\* Without a check that judges the code, it may be discarded.
LEMMA Discarded ==
  ASSUME IInv, NEW i \in Id, RowFree(i), code' = [code EXCEPT ![i] = None],
         UNCHANGED windows,
         \A s \in Request : Judges(s)' => Judges(s) /\ requests'[s] = requests[s]
  PROVE  ReadsStand'
<1>1. ASSUME NEW s \in Request, Judges(s)'
      PROVE  /\ SameCode(code[requests[s].id], code'[requests[s].id])
             /\ \A k \in Guesses(requests[s].id) : windows'[k].count = windows[k].count
  <2>1. Judges(s) /\ requests[s].id \in Id /\ SeenStands(requests[s])
    BY <1>1, Judged
  <2>2. CASE requests[s].id = i
    <3>1. code[i] = None
      BY <2>1, <2>2 DEF RowFree, Judges, SeenStands
    <3> QED
      BY <2>2, <3>1, Parts DEF CodeTypes, SameCode
  <2>3. CASE requests[s].id # i
    BY <2>1, <2>3, Parts DEF CodeTypes, SameCode
  <2> QED
    BY <2>2, <2>3
<1> QED
  BY <1>1, KeepReads

LEMMA DetachedInv ==
  ASSUME IInv, NEW r \in Request, Detached(r), NEW i \in Id, i = requests[r].id
  PROVE  IInv'
<1>1. /\ RequestTypes' /\ Exclusive' /\ UNCHANGED <<windows, issued, wrong, used>>
      /\ \A s \in Request : Judges(s)' => Judges(s) /\ requests'[s] = requests[s]
  BY DoneFacts DEF Detached
<1>2. LinkTypes'
  BY Parts DEF Detached, MailsLink, LinkTypes
<1>3. CASE UNCHANGED code
  BY <1>1, <1>2, <1>3, SameCodes, SameWindows, KeepTables, PartsAfter
<1>4. CASE RowFree(i) /\ code' = [code EXCEPT ![i] = None]
  BY <1>1, <1>2, <1>4, DiscardFacts, SameWindows, Discarded, PartsAfter
<1> QED
  BY <1>3, <1>4 DEF Detached

(***************************************************************************)
(* Checking one.                                                           *)
(***************************************************************************)

\* Who gets the locks reads what there is.
LEMMA CheckLocksInv ==
  ASSUME IInv, NEW r \in Request, CheckLocks(r), NEW i \in Id, i = requests[r].id
  PROVE  IInv'
<1> DEFINE q == requests[r]
           counts == [k \in Guesses(i) |-> Count(q, k)]
           n == [q EXCEPT !.step = "judge", !.seen = code[i], !.counts = counts]
<1>1. /\ q \in Locals /\ q.op = "check" /\ q.id = i /\ LocksOf(i) \cap Held = {}
      /\ UNCHANGED <<code, links, windows, issued, wrong, used>>
  BY RequestOf DEF CheckLocks, At, tables
<1>2. CodeTypes' /\ CodeFacts' /\ WindowTypes' /\ WindowFacts' /\ LinkTypes'
  BY <1>1, SameCodes, SameWindows, Parts DEF LinkTypes
<1>3. CASE Done(r)
  BY <1>1, <1>2, <1>3, DoneFacts, KeepTables, PartsAfter
<1>4. CASE /\ \A k \in Guesses(i) : ~Exhausted(q, k)
           /\ requests' = [requests EXCEPT ![r] = n]
  <2>1. \A k \in Guesses(i) : /\ counts[k] \in {0, windows[k].count} /\ counts[k] \in 0 .. MaxGuesses
                              /\ counts[k] < Limit(k)
    <3> SUFFICES ASSUME NEW k \in Guesses(i)
                 PROVE  /\ Count(q, k) \in {0, windows[k].count} /\ Count(q, k) \in 0 .. MaxGuesses
                        /\ Count(q, k) < Limit(k)
      OBVIOUS
    <3>1. k \in Key /\ Limit(k) = MaxGuesses
      BY KeysOf
    <3>2. /\ Count(q, k) \in {0, windows[k].count} /\ Count(q, k) \in Nat
          /\ Count(q, k) < Limit(k)
      BY <1>4, <3>1, Counted
    <3> QED
      BY <3>1, <3>2
  <2>2. counts \in Counts
    <3>1. counts \in [Guesses(i) -> 0 .. MaxGuesses]
      BY <2>1
    <3> QED
      BY <3>1 DEF Counts
  <2> HIDE DEF counts
  <2>3. code[i] \in {None} \cup Code
    BY Parts DEF CodeTypes
  <2>4. n \in Locals
    BY <1>1, <2>2, <2>3 DEF Locals
  <2>5. n.step = "judge" /\ n.id = i /\ n.op = "check" /\ n.seen = code[i] /\ n.counts = counts
    BY <1>1 DEF Locals
  <2> HIDE DEF n
  <2>6. requests'[r] = n /\ \A s \in Request \ {r} : requests'[s] = requests[s]
    BY <1>4, Parts DEF RequestTypes
  <2>7. RequestTypes'
    BY <1>4, <2>4, <2>5, <2>6, Parts DEF RequestTypes
  <2>8. Exclusive'
    <3>1. ASSUME NEW s \in Request \ {r}, Judges(s)'
          PROVE  Judges(s) /\ LocksOf(requests[s].id) \cap LocksOf(i) = {}
      <4>1. Judges(s)
        BY <2>6, <3>1 DEF Judges, At
      <4>2. LocksOf(requests[s].id) \subseteq Held
        BY <4>1 DEF Held, Judges
      <4> QED
        BY <1>1, <4>1, <4>2
    <3> SUFFICES ASSUME NEW s \in Request, NEW u \in Request, s # u, Judges(s)', Judges(u)'
                 PROVE  LocksOf(requests'[s].id) \cap LocksOf(requests'[u].id) = {}
      BY DEF Exclusive, LocksOf, Guesses
    <3>2. CASE s = r
      <4>1. requests'[s].id = i /\ requests'[u].id = requests[u].id
        BY <2>5, <2>6, <3>2
      <4> QED
        BY <3>1, <3>2, <4>1
    <3>3. CASE u = r
      <4>1. requests'[u].id = i /\ requests'[s].id = requests[s].id
        BY <2>5, <2>6, <3>3
      <4> QED
        BY <3>1, <3>3, <4>1
    <3>4. CASE s # r /\ u # r
      <4>1. requests'[u] = requests[u] /\ requests'[s] = requests[s] /\ Judges(s) /\ Judges(u)
        BY <2>6, <3>1, <3>4
      <4>2. LocksOf(requests[s].id) \cap LocksOf(requests[u].id) = {}
        BY <4>1, Parts DEF Exclusive
      <4> QED
        BY <4>1, <4>2
    <3> QED
      BY <3>2, <3>3, <3>4
  <2>9. ReadsStand'
    <3> SUFFICES ASSUME NEW s \in Request, Judges(s)'
                 PROVE  (SeenStands(requests[s]) /\ CountsStand(requests[s]))'
      BY DEF ReadsStand
    <3>1. CASE s = r
      <4>1. SeenStands(requests[s])'
        BY <1>1, <2>5, <2>6, <3>1 DEF SeenStands
      <4>2. \A k \in Guesses(i) : counts[k] \in {0, windows'[k].count} /\ counts[k] < Limit(k)
        BY <1>1, <2>1
      <4>3. CountsStand(requests[s])'
        BY <2>5, <2>6, <3>1, <4>2 DEF CountsStand, Guesses, Limit
      <4> QED
        BY <4>1, <4>3
    <3>2. CASE s # r
      <4>1. requests'[s] = requests[s] /\ Judges(s)
        BY <2>6, <3>2 DEF Judges, At
      <4>2. SeenStands(requests[s]) /\ CountsStand(requests[s])
        BY <4>1, Judged
      <4> QED
        BY <1>1, <4>1, <4>2 DEF SeenStands, CountsStand, Guesses, Limit
    <3> QED
      BY <3>1, <3>2
  <2> QED
    BY <1>2, <2>7, <2>8, <2>9, PartsAfter
<1> QED
  BY <1>1, <1>3, <1>4 DEF CheckLocks

\* A code that is used is gone, and every other is another.
LEMMA CheckRightInv ==
  ASSUME IInv, NEW r \in Request, CheckRight(r), NEW i \in Id, i = requests[r].id
  PROVE  IInv'
<1>1. /\ RequestTypes' /\ Exclusive' /\ UNCHANGED <<links, windows, issued, wrong>>
      /\ \A s \in Request : Judges(s)' => s # r /\ Judges(s) /\ requests'[s] = requests[s]
  BY DoneFacts DEF CheckRight
<1>2. Judges(r) /\ requests[r].seen # None
  BY DEF CheckRight, Judges, Alive
<1>3. /\ SeenStands(requests[r]) /\ code[i] # None /\ code[i].n = requests[r].seen.n
      /\ Unspent(i)
  BY <1>2, Judged, Parts DEF SeenStands, CodeFacts
<1>4. LinkTypes'
  BY <1>1, Parts DEF LinkTypes
<1>5. CASE UNCHANGED <<code, used>>
  BY <1>1, <1>4, <1>5, SameCodes, SameWindows, KeepTables, PartsAfter
<1>6. CASE code' = [code EXCEPT ![i] = None] /\ used' = used \cup {code[i].n}
  <2>1. code'[i] = None /\ \A j \in Id \ {i} : code'[j] = code[j]
    BY <1>6, Parts DEF CodeTypes
  <2>2. CodeTypes'
    BY <1>1, <1>3, <1>6, Parts DEF CodeTypes, Unspent
  <2>3. ASSUME NEW j \in Id, code'[j] # None PROVE Unspent(j)'
    <3>1. j # i /\ code'[j] = code[j] /\ Unspent(j)
      BY <2>1, <2>3, Parts DEF CodeFacts
    <3>2. code[j].n # code[i].n
      BY <1>3, <3>1, <2>3 DEF Unspent
    <3>3. \A u \in Id \ {j} : code'[u] # None => code'[u].n # code'[j].n
      BY <2>1, <3>1 DEF Unspent
    <3> QED
      BY <1>1, <1>6, <3>1, <3>2, <3>3 DEF Unspent
  <2>4. CodeFacts'
    <3>1. \A n \in 1 .. MaxIssued : wrong'[n] <= PerCode /\ (n > issued' => wrong'[n] = 0)
      BY <1>1, Parts DEF CodeFacts
    <3> QED
      BY <2>3, <3>1 DEF CodeFacts
  <2>5. ReadsStand'
    <3>1. ASSUME NEW s \in Request, Judges(s)'
          PROVE  /\ SameCode(code[requests[s].id], code'[requests[s].id])
                 /\ \A k \in Guesses(requests[s].id) : windows'[k].count = windows[k].count
      <4>1. s # r /\ Judges(s)
        BY <1>1, <3>1
      <4>2. requests[s].id \in Id /\ requests[s].id # i
        BY <1>2, <4>1, Judged
      <4> QED
        BY <1>1, <2>1, <4>2 DEF SameCode
    <3> QED
      BY <1>1, <3>1, KeepReads
  <2> QED
    BY <1>1, <1>4, <2>2, <2>4, <2>5, SameWindows, PartsAfter
<1> QED
  BY <1>3, <1>5, <1>6 DEF CheckRight, Discard

\* A wrong guess is counted by the code it was judged against, or takes it away.
LEMMA CheckWrongInv ==
  ASSUME IInv, NEW r \in Request, CheckWrong(r), NEW i \in Id, i = requests[r].id
  PROVE  IInv'
<1> DEFINE q == requests[r]
<1>1. /\ RequestTypes' /\ Exclusive' /\ UNCHANGED <<links, issued, used>>
      /\ \A s \in Request : Judges(s)' => s # r /\ Judges(s) /\ requests'[s] = requests[s]
  BY DoneFacts DEF CheckWrong
<1>2. Judges(r) /\ q \in Locals /\ SeenStands(q) /\ CountsStand(q)
  BY Judged DEF CheckWrong, Judges
<1>3. LinkTypes'
  BY <1>1, Parts DEF LinkTypes
<1>4. windows' = [k \in Key |-> IF k \in Guesses(i) THEN Charged(k, q.counts[k]) ELSE windows[k]]
  BY DEF CheckWrong
<1>5. WindowTypes' /\ WindowFacts'
  <2>1. ASSUME NEW k \in Key
        PROVE  /\ windows'[k] \in Window
               /\ windows'[k].events = windows'[k].count /\ windows'[k].count <= Limit(k)
    <3>1. CASE k \in Guesses(i)
      <4>1. q.counts[k] \in {0, windows[k].count} /\ q.counts[k] < Limit(k)
        BY <1>2, <3>1 DEF CountsStand
      <4>2. windows'[k] = Charged(k, q.counts[k])
        BY <1>4, <3>1
      <4> QED
        BY <4>1, <4>2, ChargedFacts
    <3>2. CASE k \notin Guesses(i)
      BY <1>4, <3>2, Parts DEF WindowTypes, WindowFacts
    <3> QED
      BY <3>1, <3>2
  <2>2. WindowTypes'
    <3>1. DOMAIN windows' = Key /\ windows' = [k \in Key |-> windows'[k]]
      BY <1>4
    <3> QED
      BY <2>1, <3>1 DEF WindowTypes
  <2> QED
    BY <2>1, <2>2 DEF WindowFacts, Limit
<1>6. ASSUME \A j \in Id \ {i} : code'[j] = code[j] PROVE ReadsStand'
  <2>1. ASSUME NEW s \in Request, Judges(s)'
        PROVE  /\ SameCode(code[requests[s].id], code'[requests[s].id])
               /\ \A k \in Guesses(requests[s].id) : windows'[k].count = windows[k].count
    <3>1. s # r /\ Judges(s)
      BY <1>1, <2>1
    <3>2. /\ requests[s].id \in Id \ {i} /\ Guesses(requests[s].id) \cap Guesses(i) = {}
      BY <1>2, <3>1, Judged
    <3>3. Guesses(requests[s].id) \subseteq Key
      BY <3>2, KeysOf
    <3>4. \A k \in Guesses(requests[s].id) : windows'[k] = windows[k]
      BY <1>4, <3>2, <3>3
    <3> QED
      BY <1>6, <3>2, <3>4 DEF SameCode
  <2> QED
    BY <1>1, <2>1, KeepReads
<1>7. CASE q.seen = None
  <2>1. UNCHANGED <<code, wrong>>
    BY <1>7 DEF CheckWrong, Alive
  <2> QED
    BY <1>1, <1>3, <1>5, <1>6, <2>1, SameCodes, PartsAfter
<1>8. CASE q.seen # None /\ ~Alive(q)
  <2>1. code' = [code EXCEPT ![i] = None] /\ UNCHANGED wrong
    BY <1>2, <1>8 DEF CheckWrong, Discard, SeenStands
  <2>2. \A j \in Id \ {i} : code'[j] = code[j]
    BY <2>1, Parts DEF CodeTypes
  <2> QED
    BY <1>1, <1>3, <1>5, <1>6, <2>1, <2>2, DiscardFacts, PartsAfter
<1>9. CASE Alive(q)
  <2> DEFINE m == q.seen.n
             a == q.seen.attempts
  <2>1. /\ code[i] \in Code /\ code[i].n = m /\ code[i].attempts = a /\ Unspent(i) /\ a \in Nat
        /\ code[i] # None
    BY <1>2, <1>9, Parts DEF SeenStands, Alive, CodeTypes, CodeFacts, Code
  <2>2. /\ m \in 1 .. issued /\ m \in 1 .. MaxIssued /\ m \notin used
        /\ wrong[m] <= a /\ a < PerCode /\ wrong[m] \in Nat
    BY <2>1, Parts DEF Unspent, CodeTypes
  <2>3. wrong' = [wrong EXCEPT ![m] = wrong[m] + 1]
    BY <1>9 DEF CheckWrong
  <2> HIDE DEF m, a
  <2>4. /\ wrong' \in [1 .. MaxIssued -> Nat] /\ wrong'[m] = wrong[m] + 1
        /\ \A n \in 1 .. MaxIssued \ {m} : wrong'[n] = wrong[n]
    BY <2>2, <2>3, Parts DEF CodeTypes
  <2>5. \A n \in 1 .. MaxIssued : wrong'[n] <= PerCode /\ (n > issued' => wrong'[n] = 0)
    <3>1. wrong[m] + 1 <= PerCode
      BY <2>1, <2>2
    <3>2. \A n \in 1 .. MaxIssued : wrong[n] <= PerCode /\ (n > issued => wrong[n] = 0)
      BY Parts DEF CodeFacts
    <3>3. ~(m > issued) /\ issued' = issued
      BY <1>1, <2>2, Parts DEF CodeTypes
    <3> QED
      BY <2>4, <3>1, <3>2, <3>3
  <2>6. ASSUME NEW j \in Id \ {i}, code[j] # None
        PROVE  /\ Unspent(j) /\ code[j].n # m /\ code[j].n \in 1 .. MaxIssued
               /\ wrong'[code[j].n] = wrong[code[j].n]
    <3>1. Unspent(j) /\ code[j].n # m
      BY <2>1, <2>6, Parts DEF CodeFacts, Unspent
    <3>2. code[j].n \in 1 .. MaxIssued
      BY <3>1, Parts DEF Unspent, CodeTypes
    <3> QED
      BY <2>4, <3>1, <3>2
  <2>7. CASE Worn(q)
    <3>1. code' = [code EXCEPT ![i] = None]
      BY <1>9, <2>1, <2>7 DEF CheckWrong, Discard, Alive
    <3>2. code'[i] = None /\ \A j \in Id \ {i} : code'[j] = code[j]
      BY <3>1, Parts DEF CodeTypes
    <3>3. CodeTypes'
      BY <1>1, <2>4, <3>1, Parts DEF CodeTypes
    <3>4. ASSUME NEW j \in Id, code'[j] # None PROVE Unspent(j)'
      <4>1. j # i /\ code'[j] = code[j]
        BY <3>2, <3>4
      <4>2. \A u \in Id \ {j} : code'[u] # None => code'[u].n # code'[j].n
        BY <2>6, <3>2, <3>4, <4>1 DEF Unspent
      <4> QED
        BY <1>1, <2>6, <3>4, <4>1, <4>2 DEF Unspent
    <3>5. CodeFacts'
      BY <2>5, <3>4 DEF CodeFacts
    <3> QED
      BY <1>1, <1>3, <1>5, <1>6, <3>2, <3>3, <3>5, PartsAfter
  <2>8. CASE ~Worn(q)
    <3>0. a + 1 \in Nat /\ a + 1 < PerCode
      BY <2>1, <2>2, <2>8 DEF Worn, a
    <3>1. code' = [code EXCEPT ![i].n = m, ![i].attempts = a + 1]
      BY <1>9, <2>1, <2>8 DEF CheckWrong, Alive, m, a
    <3>2. PICK c \in Code : c = code[i]
      BY <2>1
    <3>3. /\ code'[i] = [c EXCEPT !.n = m, !.attempts = a + 1]
          /\ \A j \in Id \ {i} : code'[j] = code[j]
          /\ code' = [code EXCEPT ![i] = code'[i]]
      BY <3>1, <3>2, Parts DEF CodeTypes
    <3>4. code'[i] \in Code /\ code'[i].n = m /\ code'[i].attempts = a + 1
      BY <2>2, <3>0, <3>3 DEF Code
    <3>5. CodeTypes'
      BY <1>1, <2>4, <3>3, <3>4, Parts DEF CodeTypes
    <3>6. Unspent(i)'
      <4>1. \A u \in Id \ {i} : code'[u] # None => code'[u].n # code'[i].n
        BY <2>6, <3>3, <3>4
      <4>2. wrong'[m] <= a + 1
        BY <2>1, <2>2, <2>4
      <4> QED
        BY <1>1, <2>2, <3>0, <3>4, <4>1, <4>2 DEF Unspent
    <3>7. ASSUME NEW j \in Id \ {i}, code'[j] # None PROVE Unspent(j)'
      <4>1. /\ code'[j] = code[j] /\ Unspent(j) /\ code[j].n # m
            /\ wrong'[code[j].n] = wrong[code[j].n]
        BY <2>6, <3>3, <3>7
      <4>2. \A u \in Id \ {j} : code'[u] # None => code'[u].n # code'[j].n
        BY <3>3, <3>4, <4>1 DEF Unspent
      <4> QED
        BY <1>1, <4>1, <4>2 DEF Unspent
    <3>8. CodeFacts'
      <4>1. \A j \in Id : code'[j] # None => Unspent(j)'
        BY <3>6, <3>7
      <4> QED
        BY <2>5, <4>1 DEF CodeFacts
    <3> QED
      BY <1>1, <1>3, <1>5, <1>6, <3>3, <3>5, <3>8, PartsAfter
  <2> QED
    BY <2>7, <2>8
<1> QED
  BY <1>7, <1>8, <1>9 DEF Alive

(***************************************************************************)
(* Links, time, and failures.                                              *)
(***************************************************************************)

LEMMA ConsumeLinkInv ==
  ASSUME IInv, NEW i \in Id, ConsumeLink(i)
  PROVE  IInv'
<1>1. /\ RowFree(i) /\ code' = [code EXCEPT ![i] = None]
      /\ UNCHANGED <<windows, requests, issued, wrong, used>>
  BY DEF ConsumeLink, Discard
<1>2. LinkTypes'
  BY Parts DEF ConsumeLink, LinkTypes
<1> QED
  BY <1>1, <1>2, SameRequests, DiscardFacts, SameWindows, Discarded, PartsAfter

LEMMA CodeExpiresInv ==
  ASSUME IInv, NEW i \in Id, CodeExpires(i)
  PROVE  IInv'
<1>1. /\ code[i] # None /\ code' = [code EXCEPT ![i].expired = TRUE]
      /\ UNCHANGED <<links, windows, requests, issued, wrong, used>>
  BY DEF CodeExpires
<1>2. PICK c \in Code : c = code[i]
  BY <1>1, Parts DEF CodeTypes
<1>3. /\ code'[i] = [c EXCEPT !.expired = TRUE] /\ \A j \in Id \ {i} : code'[j] = code[j]
      /\ code' = [code EXCEPT ![i] = code'[i]]
  BY <1>1, <1>2, Parts DEF CodeTypes
<1>4. code'[i] \in Code /\ code'[i].n = code[i].n /\ code'[i].attempts = code[i].attempts
  BY <1>2, <1>3 DEF Code
<1>5. code'[i] # None
  BY <1>4
<1>6. \A j \in Id : SameCode(code[j], code'[j]) /\ (code'[j] # None => code[j] # None)
  BY <1>1, <1>3, <1>4, <1>5 DEF SameCode
<1>7. CodeTypes'
  BY <1>1, <1>3, <1>4, Parts DEF CodeTypes
<1>8. CodeFacts'
  <2>1. ASSUME NEW j \in Id, code'[j] # None PROVE Unspent(j)'
    <3>1. Unspent(j) /\ code'[j].n = code[j].n /\ code'[j].attempts = code[j].attempts
      BY <1>6, <2>1, Parts DEF CodeFacts, SameCode
    <3>2. \A u \in Id \ {j} : code'[u] # None => code'[u].n # code'[j].n
      BY <1>6, <3>1 DEF Unspent, SameCode
    <3> QED
      BY <1>1, <3>1, <3>2 DEF Unspent
  <2>2. \A n \in 1 .. MaxIssued : wrong'[n] <= PerCode /\ (n > issued' => wrong'[n] = 0)
    BY <1>1, Parts DEF CodeFacts
  <2> QED
    BY <2>1, <2>2 DEF CodeFacts
<1>9. ReadsStand'
  <2>1. ASSUME NEW s \in Request, Judges(s)'
        PROVE  /\ SameCode(code[requests[s].id], code'[requests[s].id])
               /\ \A k \in Guesses(requests[s].id) : windows'[k].count = windows[k].count
    <3>1. Judges(s)
      BY <1>1, <2>1 DEF Judges, At
    <3>2. requests[s].id \in Id
      BY <3>1, Judged
    <3> QED
      BY <1>1, <1>6, <3>2
  <2> QED
    BY <1>1, <2>1, SameRequests, KeepReads
<1>10. LinkTypes'
  BY <1>1, Parts DEF LinkTypes
<1> QED
  BY <1>1, <1>7, <1>8, <1>9, <1>10, SameRequests, SameWindows, PartsAfter

LEMMA WindowClosesInv ==
  ASSUME IInv, NEW k \in Key, WindowCloses(k)
  PROVE  IInv'
<1>1. /\ windows' = [windows EXCEPT ![k].open = FALSE]
      /\ UNCHANGED <<code, links, requests, issued, wrong, used>>
  BY DEF WindowCloses
<1>2. PICK w \in Window : w = windows[k]
  BY Parts DEF WindowTypes
<1>3. /\ windows'[k] = [w EXCEPT !.open = FALSE] /\ \A j \in Key \ {k} : windows'[j] = windows[j]
      /\ windows' = [windows EXCEPT ![k] = windows'[k]]
  BY <1>1, <1>2, Parts DEF WindowTypes
<1>4. /\ windows'[k] \in Window /\ windows'[k].count = windows[k].count
      /\ windows'[k].events = windows[k].events
  BY <1>2, <1>3 DEF Window
<1>5. \A j \in Key : windows'[j].count = windows[j].count /\ windows'[j].events = windows[j].events
  BY <1>3, <1>4
<1>6. WindowTypes' /\ WindowFacts'
  BY <1>3, <1>4, <1>5, Parts DEF WindowTypes, WindowFacts, Limit
<1>7. \A i \in Id : \A j \in Guesses(i) : windows'[j].count = windows[j].count
  BY <1>5, KeysOf
<1>8. LinkTypes'
  BY <1>1, Parts DEF LinkTypes
<1> QED
  BY <1>1, <1>6, <1>7, <1>8, SameRequests, SameCodes, KeepTables, PartsAfter

LEMMA FailInv ==
  ASSUME IInv, NEW r \in Request, Fail(r)
  PROVE  IInv'
<1>1. Done(r) /\ UNCHANGED <<code, links, windows, issued, wrong, used>>
  BY DEF Fail, tables
<1>2. LinkTypes'
  BY <1>1, Parts DEF LinkTypes
<1> QED
  BY <1>1, <1>2, DoneFacts, SameCodes, SameWindows, KeepTables, PartsAfter

LEMMA StutterInv ==
  ASSUME IInv, UNCHANGED vars
  PROVE  IInv'
<1>1. UNCHANGED <<code, links, windows, requests, issued, wrong, used>>
  BY DEF vars, tables
<1>2. LinkTypes'
  BY <1>1, Parts DEF LinkTypes
<1> QED
  BY <1>1, <1>2, SameRequests, SameCodes, SameWindows, KeepTables, PartsAfter

LEMMA NextInv == IInv /\ [Next]_vars => IInv'
<1> SUFFICES ASSUME IInv, [Next]_vars PROVE IInv'
  OBVIOUS
<1>1. ASSUME NEW r \in Request, NEW i \in Id, BeginSend(r, i) \/ BeginCheck(r, i) PROVE IInv'
  BY <1>1, BeginSendInv, BeginCheckInv
<1>2. ASSUME NEW r \in Request,
             Store(r) \/ Detached(r) \/ CheckLocks(r) \/ CheckRight(r) \/ CheckWrong(r)
      PROVE  IInv'
  <2>1. requests[r].id \in Id
    BY <1>2, RequestOf DEF Store, Detached, CheckLocks, CheckRight, CheckWrong, At
  <2> QED
    BY <1>2, <2>1, StoreInv, DetachedInv, CheckLocksInv, CheckRightInv, CheckWrongInv
<1>3. ASSUME NEW r \in Request, Issuance(r) \/ Fail(r) PROVE IInv'
  BY <1>3, IssuanceInv, FailInv
<1>4. ASSUME NEW i \in Id, ConsumeLink(i) \/ CodeExpires(i) PROVE IInv'
  BY <1>4, ConsumeLinkInv, CodeExpiresInv
<1>5. ASSUME NEW k \in Key, WindowCloses(k) PROVE IInv'
  BY <1>5, WindowClosesInv
<1>6. CASE UNCHANGED vars
  BY <1>6, StutterInv
<1> QED
  BY <1>1, <1>2, <1>3, <1>4, <1>5, <1>6 DEF Next

(***************************************************************************)
(* Theorems.                                                               *)
(***************************************************************************)

\* The inductive invariant holds in every reachable state: what a check has read
\* under its locks stands until it has judged.
THEOREM CodesInvariant == Spec => []IInv
<1> QED
  BY InitInv, NextInv, PTL DEF Spec

\* Rows keep their types, and links stand for verifications.
THEOREM Typed == Spec => []TypeOK
<1>1. IInv => TypeOK
  BY DEF IInv
<1> QED
  BY <1>1, CodesInvariant, PTL

\* No window lets more through than its budget, and no code is judged against more
\* wrong guesses than its limit, however sends and checks overlap (budget, check).
THEOREM GuessingIsBounded == Spec => []WithinBudgets
<1>1. ASSUME IInv PROVE WithinBudgets
  <2>1. \A k \in Key : windows[k].events <= Limit(k)
    BY <1>1, Parts DEF WindowFacts
  <2>2. \A n \in 1 .. MaxIssued : wrong[n] <= PerCode
    BY <1>1, Parts DEF CodeFacts
  <2> QED
    BY <2>1, <2>2 DEF WithinBudgets
<1>2. IInv => WithinBudgets
  BY <1>1
<1> QED
  BY <1>2, CodesInvariant, PTL

\* A code that was consumed is judged by no check (check).
THEOREM CodesCountOnce == Spec => []UsedOnce
<1>1. ASSUME IInv, NEW r \in Request, At(r, "check", "judge"), requests[r].seen # None
      PROVE  requests[r].seen.n \notin used
  <2>1. requests[r].id \in Id /\ SeenStands(requests[r])
    BY <1>1, Judged DEF Judges
  <2>2. Unspent(requests[r].id) /\ code[requests[r].id].n = requests[r].seen.n
    BY <1>1, <2>1, Parts DEF CodeFacts, SeenStands
  <2> QED
    BY <2>2 DEF Unspent
<1>2. IInv => UsedOnce
  BY <1>1 DEF UsedOnce
<1> QED
  BY <1>2, CodesInvariant, PTL

\* The step of SparesNewCodes.
ChecksTouchTheirOwn ==
  \A r \in Request, i \in Id :
    (At(r, "check", "judge") /\ requests'[r] = Idle /\ requests[r].id = i
       /\ code'[i] # code[i] /\ code[i] # None)
      => requests[r].seen # None /\ requests[r].seen.n = code[i].n

\* A check that ends changes no code but the one it has judged (check, store).
THEOREM NewCodesAreSpared == Spec => SparesNewCodes
<1>1. ASSUME IInv PROVE ChecksTouchTheirOwn
  <2> SUFFICES ASSUME NEW r \in Request, NEW i \in Id, Judges(r), requests[r].id = i,
                      code[i] # None
               PROVE  requests[r].seen # None /\ requests[r].seen.n = code[i].n
    BY DEF ChecksTouchTheirOwn, Judges
  <2>1. SeenStands(requests[r])
    BY <1>1, Judged
  <2> QED
    BY <2>1 DEF SeenStands
<1>2. IInv => ChecksTouchTheirOwn
  BY <1>1
<1>3. Spec => [][ChecksTouchTheirOwn]_vars
  BY <1>2, CodesInvariant, PTL
<1> QED
  BY <1>3 DEF SparesNewCodes, ChecksTouchTheirOwn

=============================================================================

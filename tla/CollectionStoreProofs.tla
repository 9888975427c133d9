---------------------- MODULE CollectionStoreProofs ------------------------
(***************************************************************************)
(* The inductive invariant of CollectionStore holds for every number of    *)
(* users, requests, collections, invites and stacks.                       *)
(*                                                                         *)
(* A step of request r is split the same way everywhere: the locals of r,  *)
(* the locals of the others (untouched), the locks, the tables.            *)
(***************************************************************************)
EXTENDS CollectionStoreInv, TLAPS

USE BoundsAssumption, NoneAssumption, LockAssumption

Facts(r) == ControlFacts(r) /\ LockFacts(r) /\ ShareFacts(r) /\ WriteFacts(r)

\* Nothing about the requests other than r changes.
OthersSame(r) ==
  \A q \in Req \ {r} :
    /\ held'[q] = held[q] /\ keyShare'[q] = keyShare[q] /\ pc'[q] = pc[q]
    /\ op'[q] = op[q] /\ actor'[q] = actor[q] /\ who'[q] = who[q]
    /\ coll'[q] = coll[q] /\ token'[q] = token[q] /\ late'[q] = late[q]
    /\ todo'[q] = todo[q] /\ buf'[q] = buf[q]

(***************************************************************************)
(* The end of a request.                                                   *)
(***************************************************************************)

\* A request that ends is idle, holds nothing and remembers nothing.
LEMMA FinishLocals ==
  ASSUME TypeOK, NEW r \in Req, Finish(r)
  PROVE  /\ RequestsOK' /\ OthersSame(r)
         /\ pc'[r] = "idle" /\ held'[r] = {} /\ op'[r] = "read" /\ buf'[r] = Untouched
<1>1. RequestsOK'
  BY DEF TypeOK, RequestsOK, Finish, Release, Goto, Steps, AllOps, WriteOps,
         ShareOps, Untouched
<1>2. OthersSame(r)
  BY DEF TypeOK, RequestsOK, Finish, Release, Goto, OthersSame
<1>3. pc'[r] = "idle" /\ held'[r] = {} /\ op'[r] = "read" /\ buf'[r] = Untouched
  BY DEF TypeOK, RequestsOK, Finish, Release, Goto
<1> QED
  BY <1>1, <1>2, <1>3

\* Nothing is claimed of an idle request.
LEMMA IdleFacts ==
  ASSUME NEW r \in Req, pc'[r] = "idle", op'[r] = "read", buf'[r] = Untouched
  PROVE  Facts(r)'
BY DEF Facts, ControlFacts, LockFacts, ShareFacts, WriteFacts, UnderShareLock,
       TokenOps, WriteOps

\* So nothing is claimed of a request that has just ended.
LEMMA FinishFacts ==
  ASSUME TypeOK, NEW r \in Req, Finish(r)
  PROVE  Facts(r)'
BY FinishLocals, IdleFacts

\* Releasing locks never breaks their exclusion; taking one that is free neither.
LEMMA KeepExclusion ==
  ASSUME LockExclusion, NEW r \in Req, OthersSame(r),
         \A q \in Req \ {r} : held'[r] \cap held[q] = {}
  PROVE  LockExclusion'
BY DEF LockExclusion, OthersSame

\* A request that ends gives its locks back, so nobody else's are disturbed.
LEMMA FinishExclusion ==
  ASSUME TypeOK, LockExclusion, NEW r \in Req, Finish(r)
  PROVE  LockExclusion'
BY FinishLocals, KeepExclusion

(***************************************************************************)
(* Steps that leave the tables alone.                                      *)
(***************************************************************************)

\* The facts of the other requests survive such a step.
LEMMA OtherFacts ==
  ASSUME NEW r \in Req, OthersSame(r), UNCHANGED tables, NEW q \in Req \ {r}, Facts(q)
  PROVE  Facts(q)'
<1>1. ControlFacts(q)'
  BY DEF OthersSame, tables, Facts, ControlFacts
<1>2. LockFacts(q)'
  BY DEF OthersSame, tables, Facts, LockFacts, UnderShareLock
<1>3. ShareFacts(q)'
  BY DEF OthersSame, tables, Facts, ShareFacts, Members
<1>4. WriteFacts(q)'
  BY DEF OthersSame, tables, Facts, WriteFacts, Logged, Seen
<1> QED
  BY <1>1, <1>2, <1>3, <1>4 DEF Facts

\* What is said of the tables alone survives such a step.
LEMMA SameTables ==
  ASSUME IInv, UNCHANGED tables
  PROVE  TablesOK' /\ TableFacts' /\ MembershipInv' /\ LedgerBalances'
BY DEF IInv, TypeOK, TablesOK, tables, TableFacts, MembershipInv, NoOrphanCollection,
       AtMostTwoMembers, OneOwner, PendingInviteFromSoleMember, LedgerBalances, Members

\* A step that changes only r's locals and locks keeps the invariant if r's own
\* facts hold after it.
LEMMA LocalStep ==
  ASSUME IInv, NEW r \in Req, UNCHANGED tables, RequestsOK', OthersSame(r), Facts(r)',
         \A q \in Req \ {r} : held'[r] \cap held[q] = {}
  PROVE  IInv'
<1>1. \A q \in Req : Facts(q)'
  BY OtherFacts DEF IInv, Facts
<1>2. LockExclusion'
  BY KeepExclusion DEF IInv
<1> QED
  BY <1>1, <1>2, SameTables DEF IInv, TypeOK, Facts

\* An error answer: everything the request did is rolled back.
LEMMA FailInv == ASSUME IInv, NEW r \in Req, Fail(r) PROVE IInv'
BY LocalStep, FinishLocals, FinishFacts DEF Fail, IInv

\* membership::ensure hands over to the handler; the uuid is one in use.
LEMMA EnsuredLocals ==
  ASSUME IInv, NEW r \in Req, NEW c \in Coll, c \in spent', Ensured(r, c),
         pc[r] \in {"ensure", "provision"}
  PROVE  RequestsOK' /\ OthersSame(r) /\ Facts(r)' /\ held'[r] = {}
<1>0. TypeOK /\ Facts(r)
  BY DEF IInv, Facts
<1>1. CASE CallerNext(r)
  <2>1. RequestsOK' /\ OthersSame(r) /\ held'[r] = {}
    BY <1>0, <1>1 DEF CallerNext, TypeOK, RequestsOK, Release, Goto, Steps, OthersSame
  <2>2. pc'[r] = "ensure" /\ op[r] = "preview" /\ op'[r] = op[r] /\ actor'[r] = actor[r]
        /\ who'[r] = actor[r] /\ token'[r] = token[r] /\ buf'[r] = buf[r]
    BY <1>0, <1>1 DEF CallerNext, TypeOK, RequestsOK, Release, Goto
  <2>3. Facts(r)'
    BY <1>0, <2>2 DEF Facts, ControlFacts, LockFacts, ShareFacts, WriteFacts,
                      UnderShareLock, TokenOps, WriteOps
  <2> QED
    BY <2>1, <2>3
<1>2. CASE Answered(r)
  BY <1>0, <1>2, FinishLocals, FinishFacts DEF Answered
<1>3. CASE StartWrite(r, c)
  <2>1. RequestsOK' /\ OthersSame(r) /\ held'[r] = {}
    BY <1>0, <1>3 DEF StartWrite, TypeOK, RequestsOK, Release, Goto, Steps, OthersSame
  <2>2. pc'[r] = "lockColl" /\ op'[r] = op[r] /\ op[r] \in WriteOps /\ coll'[r] = c
        /\ actor'[r] = actor[r] /\ who'[r] = who[r] /\ todo'[r] = todo[r] /\ buf'[r] = buf[r]
    BY <1>0, <1>3 DEF StartWrite, TypeOK, RequestsOK, Release, Goto
  <2>3. Facts(r)'
    BY <1>0, <2>2 DEF Facts, ControlFacts, LockFacts, ShareFacts, WriteFacts,
                      UnderShareLock, TokenOps, WriteOps
  <2> QED
    BY <2>1, <2>3
<1>4. CASE StartShare(r)
  <2>1. RequestsOK' /\ OthersSame(r) /\ held'[r] = {}
    BY <1>0, <1>4 DEF StartShare, TypeOK, RequestsOK, Release, Goto, Steps, OthersSame
  <2>2. pc'[r] = "advisory" /\ op'[r] = op[r] /\ op[r] \in ShareOps /\ token'[r] = token[r]
        /\ actor'[r] = actor[r] /\ who'[r] = who[r] /\ buf'[r] = buf[r]
    BY <1>0, <1>4 DEF StartShare, TypeOK, RequestsOK, Release, Goto
  <2>3. Facts(r)'
    BY <1>0, <2>2 DEF Facts, ControlFacts, LockFacts, ShareFacts, WriteFacts,
                      UnderShareLock, TokenOps, WriteOps, ShareOps
  <2> QED
    BY <2>1, <2>3
<1> QED
  BY <1>1, <1>2, <1>3, <1>4 DEF Ensured

\* Init.
LEMMA InitInv == Init => IInv
<1> SUFFICES ASSUME Init PROVE IInv
  OBVIOUS
<1>1. TypeOK
  BY DEF Init, TypeOK, TablesOK, RequestsOK, Steps, AllOps, InviteRow, InviteRows,
         Untouched, NoItems
<1>2. LockExclusion
  BY DEF Init, LockExclusion
<1>3. ASSUME NEW r \in Req PROVE Facts(r)
  BY DEF Init, Facts, ControlFacts, LockFacts, ShareFacts, WriteFacts, UnderShareLock,
         TokenOps, WriteOps
<1>4. TableFacts
  BY DEF Init, TableFacts, InviteRow
<1>5. MembershipInv
  BY DEF Init, MembershipInv, NoOrphanCollection, AtMostTwoMembers, OneOwner,
         PendingInviteFromSoleMember, InviteRow
<1>6. LedgerBalances
  BY DEF Init, LedgerBalances
<1> QED
  BY <1>1, <1>2, <1>3, <1>4, <1>5, <1>6 DEF IInv, Facts

\* A new request.
LEMMA BeginInv ==
  ASSUME IInv, NEW r \in Req, NEW u \in User, NEW o \in Ops,
         NEW i \in Invite \cup {None}, NEW n \in 0 .. MaxRows, Begin(r, u, o, i, n)
  PROVE  IInv'
<1>0. TypeOK /\ Facts(r) /\ LockExclusion
  BY DEF IInv, Facts
<1>1. RequestsOK' /\ OthersSame(r) /\ held'[r] = held[r] /\ buf'[r] = buf[r]
  BY <1>0, OpsAssumption DEF Begin, TypeOK, RequestsOK, Goto, Steps, OthersSame
<1>2. /\ pc'[r] \in {"pending", "advisory", "ensure"} /\ op'[r] = o
      /\ pc'[r] = "pending" => o = "preview"
      /\ pc'[r] = "ensure" => o # "delete_user"
      /\ pc'[r] = "advisory" => o = "delete_user"
      /\ actor'[r] = u /\ who'[r] = u /\ token'[r] = i /\ todo'[r] = n
  BY <1>0 DEF Begin, TypeOK, RequestsOK, Goto
<1>3. (o \in TokenOps => i \in Invite) /\ (o \in WriteOps => n > 0) /\ pc[r] = "idle"
  BY DEF Begin, WriteOps
<1>4. Facts(r)'
  BY <1>0, <1>1, <1>2, <1>3
     DEF Facts, ControlFacts, LockFacts, ShareFacts, WriteFacts, UnderShareLock,
         TokenOps, WriteOps
<1> QED
  BY <1>0, <1>1, <1>4, LocalStep DEF Begin, LockExclusion

\* The read of pending().
LEMMA PendingInv ==
  ASSUME IInv, NEW r \in Req, pending(r)
  PROVE  IInv'
<1>0. TypeOK /\ Facts(r) /\ LockExclusion /\ TableFacts
  BY DEF IInv, Facts
<1>1. CASE Fail(r)
  BY <1>1, FailInv
<1>2. CASE ~Fail(r)
  <2>1. token[r] \in Invite /\ invite[token[r]].inviter \in User
    BY <1>0, <1>2 DEF pending, Facts, ControlFacts, TokenOps, TableFacts
  <2>2. /\ who'[r] = invite[token[r]].inviter /\ op'[r] = op[r] /\ op[r] = "preview"
        /\ pc'[r] \in {"expire", "ensure"} /\ actor'[r] = actor[r] /\ held'[r] = held[r]
        /\ token'[r] = token[r] /\ buf'[r] = buf[r] /\ pc[r] = "pending"
    BY <1>0, <1>2 DEF pending, TypeOK, RequestsOK, Goto, Facts, ControlFacts
  <2>3. RequestsOK' /\ OthersSame(r) /\ UNCHANGED tables
    BY <1>0, <1>2, <2>1 DEF pending, TypeOK, RequestsOK, Goto, Steps, OthersSame
  <2>4. Facts(r)'
    BY <1>0, <2>1, <2>2, <2>3
       DEF Facts, ControlFacts, LockFacts, ShareFacts, WriteFacts, UnderShareLock,
           TokenOps, WriteOps
  <2> QED
    BY <1>0, <2>2, <2>3, <2>4, LocalStep DEF LockExclusion
<1> QED
  BY <1>1, <1>2

\* The fast path of ensure().
LEMMA EnsureFastInv ==
  ASSUME IInv, NEW r \in Req, EnsureFast(r)
  PROVE  IInv'
<1>0. TypeOK /\ Facts(r) /\ LockExclusion /\ TableFacts /\ NoOrphanCollection
  BY DEF IInv, Facts, MembershipInv
<1>1. CASE member[who[r]] # None /\ Ensured(r, member[who[r]])
  <2>1. member[who[r]] \in Coll /\ member[who[r]] \in spent' /\ UNCHANGED tables
    BY <1>0, <1>1 DEF EnsureFast, TypeOK, TablesOK, Facts, ControlFacts, TableFacts,
                      NoOrphanCollection, tables
  <2> QED
    BY <1>0, <1>1, <2>1, EnsuredLocals, LocalStep DEF EnsureFast
<1>2. CASE ~(member[who[r]] # None /\ Ensured(r, member[who[r]]))
  <2>1. RequestsOK' /\ OthersSame(r) /\ UNCHANGED tables
    BY <1>0, <1>2 DEF EnsureFast, TypeOK, RequestsOK, Goto, Steps, OthersSame, locals
  <2>2. /\ pc'[r] = "userLock" /\ pc[r] = "ensure" /\ op'[r] = op[r] /\ who'[r] = who[r]
        /\ actor'[r] = actor[r] /\ held'[r] = held[r] /\ token'[r] = token[r]
        /\ buf'[r] = buf[r] /\ todo'[r] = todo[r]
    BY <1>0, <1>2 DEF EnsureFast, TypeOK, RequestsOK, Goto, locals
  <2>3. Facts(r)'
    BY <1>0, <2>1, <2>2
       DEF Facts, ControlFacts, LockFacts, ShareFacts, WriteFacts, UnderShareLock,
           TokenOps, WriteOps
  <2> QED
    BY <1>0, <2>1, <2>2, <2>3, LocalStep DEF LockExclusion
<1> QED
  BY <1>1, <1>2

\* ensure() takes the user row, or gives up because the account is gone.
LEMMA EnsureLockUserInv ==
  ASSUME IInv, NEW r \in Req, EnsureLockUser(r)
  PROVE  IInv'
<1>0. TypeOK /\ Facts(r) /\ LockExclusion
  BY DEF IInv, Facts
<1>1. CASE Fail(r)
  BY <1>1, FailInv
<1>2. CASE ~Fail(r)
  <2>1. /\ pc'[r] = "provision" /\ pc[r] = "userLock" /\ op'[r] = op[r] /\ who'[r] = who[r]
        /\ actor'[r] = actor[r] /\ held'[r] = held[r] \cup {who[r]} /\ token'[r] = token[r]
        /\ buf'[r] = buf[r] /\ todo'[r] = todo[r] /\ who[r] \in User
    BY <1>0, <1>2 DEF EnsureLockUser, TypeOK, RequestsOK, Goto, locals, Facts, ControlFacts
  <2>2. OthersSame(r) /\ UNCHANGED tables
    BY <1>0, <1>2 DEF EnsureLockUser, TypeOK, RequestsOK, Goto, OthersSame, locals
  <2>5. RequestsOK'
    <3>1. held' \in [Req -> SUBSET (User \cup Coll \cup Invite \cup {Advisory})]
      BY <1>0, <1>2, <2>1 DEF EnsureLockUser, TypeOK, RequestsOK
    <3> QED
      BY <1>0, <1>2, <3>1 DEF EnsureLockUser, TypeOK, RequestsOK, Goto, Steps, locals
  <2>3. \A q \in Req \ {r} : held'[r] \cap held[q] = {}
    BY <1>0, <1>2, <2>1 DEF EnsureLockUser, UserFree, Free, LockExclusion
  <2>4. Facts(r)'
    BY <1>0, <2>1, <2>2
       DEF Facts, ControlFacts, LockFacts, ShareFacts, WriteFacts, UnderShareLock,
           TokenOps, WriteOps
  <2> QED
    BY <2>2, <2>3, <2>4, <2>5, LocalStep
<1> QED
  BY <1>1, <1>2

\* SELECT ... FROM collections ... FOR UPDATE.
LEMMA LockCollectionInv ==
  ASSUME IInv, NEW r \in Req, LockCollection(r)
  PROVE  IInv'
<1>0. TypeOK /\ Facts(r) /\ LockExclusion /\ TableFacts
  BY DEF IInv, Facts
<1>1. /\ pc'[r] \in {"row", "commit"} /\ (pc'[r] = "row" <=> op[r] \in WriteOps)
      /\ pc[r] = "lockColl" /\ op'[r] = op[r] /\ who'[r] = who[r] /\ actor'[r] = actor[r]
      /\ held'[r] = held[r] \cup ({coll[r]} \cap live) /\ token'[r] = token[r]
      /\ buf'[r] = buf[r] /\ todo'[r] = todo[r] /\ coll'[r] = coll[r] /\ coll[r] \in Coll
  BY <1>0 DEF LockCollection, Locked, TypeOK, TablesOK, RequestsOK, Goto, locals, Facts,
              ControlFacts
<1>2. RequestsOK' /\ OthersSame(r) /\ UNCHANGED tables
  BY <1>0, <1>1 DEF LockCollection, Locked, TypeOK, RequestsOK, Goto, Steps, OthersSame, locals
<1>3. \A q \in Req \ {r} : held'[r] \cap held[q] = {}
  BY <1>0, <1>1 DEF LockCollection, Free, LockExclusion
<1>4. /\ ControlFacts(r)' /\ LockFacts(r)' /\ ShareFacts(r)'
  BY <1>0, <1>1, <1>2
     DEF Facts, ControlFacts, LockFacts, ShareFacts, UnderShareLock, TokenOps, WriteOps,
         tables, Members
<1>5. WriteFacts(r)'
  <2>1. buf[r] = Untouched
    BY <1>0, <1>1 DEF Facts, WriteFacts
  <2>2. \A s \in Stack : items[coll[r]][s] \in Nat
    BY <1>0, <1>1 DEF TypeOK, TablesOK
  <2>3. \A s \in Stack : Logged(r, s)' = Seen(r, s)' - items'[coll'[r]][s]
    BY <1>1, <1>2, <2>1, <2>2 DEF Logged, Seen, Untouched, tables
  <2> QED
    BY <1>0, <1>1, <1>2, <2>1, <2>3 DEF Facts, ControlFacts, WriteFacts, WriteOps, tables
<1> QED
  BY <1>2, <1>3, <1>4, <1>5, LocalStep DEF Facts

\* One item of a write.
LEMMA MutateInInv ==
  ASSUME IInv, NEW r \in Req, mutate_in(r)
  PROVE  IInv'
<1>0. TypeOK /\ Facts(r) /\ LockExclusion /\ TableFacts /\ NoOrphanCollection
  BY DEF IInv, Facts, MembershipInv
<1>1. CASE Fail(r)
  BY <1>1, FailInv
<1>2. CASE ~Fail(r)
  <2>1. PICK s \in Stack : \E after \in Requested(op[r], Seen(r, s)) :
          /\ buf' = [buf EXCEPT ![r][s] =
                  [qty |-> after, delta |-> Logged(r, s) + (after - Seen(r, s))]]
          /\ Goto(r, IF after # Seen(r, s) THEN "audit" ELSE AfterRow(r, todo[r] - 1))
    BY <1>2 DEF mutate_in
  <2>2. PICK after \in Requested(op[r], Seen(r, s)) :
          /\ buf' = [buf EXCEPT ![r][s] =
                  [qty |-> after, delta |-> Logged(r, s) + (after - Seen(r, s))]]
          /\ Goto(r, IF after # Seen(r, s) THEN "audit" ELSE AfterRow(r, todo[r] - 1))
    BY <2>1
  <2>3. /\ pc[r] = "row" /\ op[r] \in WriteOps /\ member[actor[r]] = coll[r]
        /\ actor[r] \in User /\ coll[r] \in Coll /\ todo[r] > 0 /\ coll[r] \in live
    BY <1>0, <1>2 DEF mutate_in, IsMember, Facts, ControlFacts, TypeOK, TablesOK,
                      RequestsOK, NoOrphanCollection
  <2>4. /\ \A t \in Stack : Seen(r, t) \in Nat /\ Logged(r, t) \in Int
        /\ \A t \in Stack : Logged(r, t) = Seen(r, t) - items[coll[r]][t]
        /\ \A t \in Stack : items[coll[r]][t] \in Nat
    BY <1>0, <2>3 DEF TypeOK, TablesOK, RequestsOK, Seen, Logged, Facts, WriteFacts
  <2>5. after \in Nat
    BY <2>3, <2>4 DEF Requested, WriteOps
  <2>6. /\ UNCHANGED tables /\ OthersSame(r) /\ held'[r] = held[r]
        /\ pc'[r] \in {"audit", "row", "commit"} /\ op'[r] = op[r] /\ actor'[r] = actor[r]
        /\ who'[r] = who[r] /\ coll'[r] = coll[r] /\ token'[r] = token[r]
        /\ todo'[r] = todo[r] - 1
        /\ buf'[r] = [buf[r] EXCEPT ![s] =
              [qty |-> after, delta |-> Logged(r, s) + (after - Seen(r, s))]]
    BY <1>0, <1>2, <2>2
       DEF mutate_in, TypeOK, RequestsOK, Goto, AfterRow, OthersSame
  <2>7. RequestsOK'
    <3>1. [qty |-> after, delta |-> Logged(r, s) + (after - Seen(r, s))]
             \in [qty : Nat, delta : Int]
      BY <2>4, <2>5
    <3>2. buf' \in [Req -> [Stack -> [qty : Nat, delta : Int] \cup {None}]]
      BY <1>0, <2>2, <3>1 DEF TypeOK, RequestsOK
    <3>3. todo[r] - 1 \in 0 .. MaxRows /\ todo' = [todo EXCEPT ![r] = @ - 1]
      BY <1>0, <1>2, <2>3 DEF mutate_in, TypeOK, RequestsOK
    <3>4. todo' \in [Req -> 0 .. MaxRows]
      BY <1>0, <3>3 DEF TypeOK, RequestsOK
    <3>5. pc' \in [Req -> Steps]
      BY <1>0, <2>2 DEF TypeOK, RequestsOK, Goto, AfterRow, Steps
    <3> QED
      BY <1>0, <1>2, <3>2, <3>4, <3>5 DEF mutate_in, TypeOK, RequestsOK
  <2>8. pc'[r] = "row" => todo'[r] > 0
    BY <1>0, <2>2, <2>3, <2>6 DEF TypeOK, RequestsOK, Goto, AfterRow
  <2>9. ControlFacts(r)' /\ LockFacts(r)' /\ ShareFacts(r)'
    BY <1>0, <2>3, <2>6, <2>8
       DEF Facts, ControlFacts, LockFacts, ShareFacts, UnderShareLock, TokenOps, WriteOps,
           tables
  <2>10. WriteFacts(r)'
    <3>1. ASSUME NEW t \in Stack
          PROVE  Logged(r, t)' = Seen(r, t)' - items'[coll'[r]][t]
      <4>1. CASE t = s
        <5>1. buf'[r][t] = [qty |-> after, delta |-> Logged(r, s) + (after - Seen(r, s))]
          BY <1>0, <2>6, <4>1 DEF TypeOK, RequestsOK
        <5>2. buf'[r][t] # None
          BY <2>4, <2>5, <5>1
        <5> QED
          BY <2>4, <2>5, <2>6, <4>1, <5>1, <5>2 DEF Logged, Seen, tables
      <4>2. CASE t # s
        <5>1. buf'[r][t] = buf[r][t]
          BY <1>0, <2>6, <4>2 DEF TypeOK, RequestsOK
        <5> QED
          BY <2>4, <2>6, <5>1 DEF Logged, Seen, tables
      <4> QED
        BY <4>1, <4>2
    <3> QED
      BY <1>0, <2>3, <2>6, <3>1 DEF Facts, WriteFacts, tables
  <2> QED
    BY <1>0, <2>6, <2>7, <2>9, <2>10, LocalStep DEF Facts, LockExclusion
<1> QED
  BY <1>1, <1>2

\* The audit row of an item.
LEMMA AuditInv ==
  ASSUME IInv, NEW r \in Req, Audit(r)
  PROVE  IInv'
<1>0. TypeOK /\ Facts(r) /\ LockExclusion
  BY DEF IInv, Facts
<1>1. CASE Fail(r)
  BY <1>1, FailInv
<1>2. CASE ~Fail(r)
  <2>1. /\ pc[r] = "audit" /\ pc'[r] = AfterRow(r, todo[r]) /\ op[r] \in WriteOps
        /\ pc'[r] \in {"row", "commit"} /\ (pc'[r] = "row" => todo[r] > 0)
    BY <1>0, <1>2 DEF Audit, AfterRow, TypeOK, RequestsOK, Goto, Facts, ControlFacts
  <2>2. /\ op'[r] = op[r] /\ actor'[r] = actor[r] /\ who'[r] = who[r] /\ coll'[r] = coll[r]
        /\ token'[r] = token[r] /\ held'[r] = held[r] /\ todo'[r] = todo[r]
        /\ buf'[r] = buf[r] /\ UNCHANGED tables
    BY <1>2 DEF Audit, locals
  <2>3. RequestsOK' /\ OthersSame(r)
    <3>1. pc' \in [Req -> Steps]
      BY <1>0, <1>2 DEF Audit, TypeOK, RequestsOK, Goto, AfterRow, Steps
    <3> QED
      BY <1>0, <1>2, <3>1 DEF Audit, TypeOK, RequestsOK, Goto, OthersSame, locals
  <2>4. ControlFacts(r)' /\ LockFacts(r)' /\ ShareFacts(r)'
    BY <1>0, <2>1, <2>2
       DEF Facts, ControlFacts, LockFacts, ShareFacts, UnderShareLock, TokenOps, WriteOps,
           tables
  <2>5. WriteFacts(r)'
    BY <1>0, <2>1, <2>2 DEF Facts, WriteFacts, Logged, Seen, tables
  <2> QED
    BY <1>0, <2>2, <2>3, <2>4, <2>5, LocalStep DEF Facts, LockExclusion
<1> QED
  BY <1>1, <1>2

\* pg_advisory_xact_lock.
LEMMA LockAdvisoryInv ==
  ASSUME IInv, NEW r \in Req, LockAdvisory(r)
  PROVE  IInv'
<1>0. TypeOK /\ Facts(r) /\ LockExclusion
  BY DEF IInv, Facts
<1>1. /\ pc[r] = "advisory" /\ pc'[r] \in {"findInvite", "current"}
      /\ (pc'[r] = "findInvite" <=> op[r] = "accept")
      /\ held'[r] = held[r] \cup {Advisory}
  BY <1>0 DEF LockAdvisory, TypeOK, RequestsOK, Goto
<1>2. /\ op'[r] = op[r] /\ actor'[r] = actor[r] /\ who'[r] = who[r] /\ coll'[r] = coll[r]
      /\ token'[r] = token[r] /\ todo'[r] = todo[r] /\ buf'[r] = buf[r] /\ UNCHANGED tables
  BY DEF LockAdvisory, locals
<1>3. held' \in [Req -> SUBSET (User \cup Coll \cup Invite \cup {Advisory})]
  BY <1>0 DEF LockAdvisory, TypeOK, RequestsOK
<1>4. RequestsOK' /\ OthersSame(r)
  BY <1>0, <1>3 DEF LockAdvisory, TypeOK, RequestsOK, Goto, Steps, OthersSame, locals
<1>5. \A q \in Req \ {r} : held'[r] \cap held[q] = {}
  BY <1>0, <1>1 DEF LockAdvisory, Free, LockExclusion
<1>6. Facts(r)'
  BY <1>0, <1>1, <1>2
     DEF Facts, ControlFacts, LockFacts, ShareFacts, WriteFacts, UnderShareLock, TokenOps,
         WriteOps, ShareOps
<1> QED
  BY <1>2, <1>4, <1>5, <1>6, LocalStep

\* Locking the two collections of an accept.
LEMMA AcceptLockInv ==
  ASSUME IInv, NEW r \in Req, AcceptLock(r)
  PROVE  IInv'
<1>0. TypeOK /\ Facts(r) /\ LockExclusion
  BY DEF IInv, Facts
<1>1. PICK c \in (live \cap {coll[r], invite[token[r]].coll}) \ held[r] :
        Free(r, c) /\ held' = [held EXCEPT ![r] = @ \cup {c}]
  BY DEF AcceptLock
<1>2. c \in Coll /\ held'[r] = held[r] \cup {c} /\ pc[r] = "lockBoth"
  BY <1>0, <1>1 DEF AcceptLock, TypeOK, TablesOK, RequestsOK
<1>3. held' \in [Req -> SUBSET (User \cup Coll \cup Invite \cup {Advisory})]
  BY <1>0, <1>1, <1>2 DEF TypeOK, RequestsOK
<1>4. /\ op'[r] = op[r] /\ actor'[r] = actor[r] /\ who'[r] = who[r] /\ coll'[r] = coll[r]
      /\ token'[r] = token[r] /\ todo'[r] = todo[r] /\ buf'[r] = buf[r] /\ pc'[r] = pc[r]
      /\ UNCHANGED tables
  BY DEF AcceptLock, locals
<1>5. RequestsOK' /\ OthersSame(r)
  BY <1>0, <1>1, <1>3 DEF AcceptLock, TypeOK, RequestsOK, OthersSame, locals
<1>6. \A q \in Req \ {r} : held'[r] \cap held[q] = {}
  BY <1>0, <1>1, <1>2 DEF Free, LockExclusion
<1>7. Facts(r)'
  BY <1>0, <1>2, <1>4
     DEF Facts, ControlFacts, LockFacts, ShareFacts, WriteFacts, UnderShareLock, TokenOps,
         tables
<1> QED
  BY <1>4, <1>5, <1>6, <1>7, LocalStep

\* DELETE FROM "user" has the row.
LEMMA DeleteUserRowInv ==
  ASSUME IInv, NEW r \in Req, DeleteUserRow(r)
  PROVE  IInv'
<1>0. TypeOK /\ Facts(r) /\ LockExclusion
  BY DEF IInv, Facts
<1>1. /\ pc[r] = "deleteUser" /\ pc'[r] = "cascade" /\ actor[r] \in User
      /\ held'[r] = held[r] \cup {actor[r]}
  BY <1>0 DEF DeleteUserRow, TypeOK, RequestsOK, Goto, Facts, ControlFacts
<1>2. /\ op'[r] = op[r] /\ actor'[r] = actor[r] /\ who'[r] = who[r] /\ coll'[r] = coll[r]
      /\ token'[r] = token[r] /\ todo'[r] = todo[r] /\ buf'[r] = buf[r] /\ UNCHANGED tables
  BY DEF DeleteUserRow, locals
<1>3. held' \in [Req -> SUBSET (User \cup Coll \cup Invite \cup {Advisory})]
  BY <1>0, <1>1 DEF DeleteUserRow, TypeOK, RequestsOK
<1>4. RequestsOK' /\ OthersSame(r)
  BY <1>0, <1>3 DEF DeleteUserRow, TypeOK, RequestsOK, Goto, Steps, OthersSame, locals
<1>5. \A q \in Req \ {r} : held'[r] \cap held[q] = {}
  BY <1>0, <1>1 DEF DeleteUserRow, UserFree, Free, LockExclusion
<1>6. Facts(r)'
  BY <1>0, <1>1, <1>2
     DEF Facts, ControlFacts, LockFacts, ShareFacts, WriteFacts, UnderShareLock, TokenOps,
         WriteOps, tables, Members
<1> QED
  BY <1>2, <1>4, <1>5, <1>6, LocalStep

(***************************************************************************)
(* Steps that change the tables: what the other requests rely on.          *)
(***************************************************************************)

\* Where a request is and what it holds depends on its own locals; uuids that
\* were given out stay given out.
LEMMA OtherControl ==
  ASSUME NEW r \in Req, OthersSame(r), spent \subseteq spent',
         NEW q \in Req \ {r}, Facts(q)
  PROVE  ControlFacts(q)' /\ LockFacts(q)'
<1>1. ControlFacts(q)'
  BY DEF OthersSame, Facts, ControlFacts
<1>2. LockFacts(q)'
  BY DEF OthersSame, Facts, LockFacts, UnderShareLock
<1> QED
  BY <1>1, <1>2

\* The share lock has one holder: while r has it, no other request relies on
\* the memberships.
LEMMA OtherShare ==
  ASSUME NEW r \in Req, LockExclusion, OthersSame(r), Advisory \in held[r],
         NEW q \in Req \ {r}, Facts(q)
  PROVE  ShareFacts(q)'
<1>1. ~UnderShareLock(q)
  BY DEF LockExclusion, Facts, LockFacts
<1> QED
  BY <1>1 DEF OthersSame, UnderShareLock, ShareFacts

\* A write keeps what it computed as long as nobody touches the row it locked.
LEMMA OtherWrite ==
  ASSUME NEW r \in Req, TypeOK, OthersSame(r), TablesOK', live' \cap spent \subseteq live,
         NEW q \in Req \ {r}, Facts(q),
         \A c \in held[q] \cap live : c \in live' /\ items'[c] = items[c]
  PROVE  WriteFacts(q)'
<1>0. /\ held'[q] = held[q] /\ pc'[q] = pc[q] /\ op'[q] = op[q] /\ coll'[q] = coll[q]
      /\ buf'[q] = buf[q]
  BY DEF OthersSame
<1>1. SUFFICES ASSUME pc[q] \in {"row", "audit", "commit"}, op[q] \in WriteOps
               PROVE  WriteFacts(q)'
  BY <1>0 DEF WriteFacts, Facts
<1>2. coll[q] \in spent /\ coll[q] \in Coll
  BY <1>1 DEF Facts, ControlFacts, TypeOK, TablesOK
<1>3. CASE coll[q] \in live
  <2>1. coll[q] \in held[q] /\ items'[coll[q]] = items[coll[q]] /\ coll[q] \in live'
    BY <1>1, <1>3 DEF Facts, WriteFacts
  <2> QED
    BY <1>0, <2>1 DEF Facts, WriteFacts, Logged, Seen
<1>4. CASE coll[q] \notin live
  <2>1. pc[q] = "row" /\ buf[q] = Untouched /\ coll[q] \notin live'
    BY <1>1, <1>2, <1>4 DEF Facts, WriteFacts
  <2>2. \A s \in Stack : items'[coll[q]][s] \in Nat
    BY <1>2 DEF TablesOK
  <2> QED
    BY <1>0, <2>1, <2>2 DEF WriteFacts, Logged, Seen, Untouched
<1> QED
  BY <1>3, <1>4

\* What the statements do to a row of collection_invites.
LEMMA InviteEdits ==
  ASSUME NEW row \in InviteRows
  PROVE  /\ \A s \in {"pending", "accepted", "revoked", "expired"} :
              /\ [row EXCEPT !.status = s] \in InviteRows
              /\ [row EXCEPT !.status = s].status = s
              /\ [row EXCEPT !.status = s].coll = row.coll
              /\ [row EXCEPT !.status = s].inviter = row.inviter
         /\ [row EXCEPT !.expired = TRUE] \in InviteRows
         /\ [row EXCEPT !.expired = TRUE].status = row.status
         /\ [row EXCEPT !.expired = TRUE].coll = row.coll
         /\ [row EXCEPT !.expired = TRUE].inviter = row.inviter
BY DEF InviteRows

\* An invite expires: only its own request can be holding the row.
LEMMA MarkExpiredInv ==
  ASSUME IInv, NEW r \in Req, MarkExpired(r)
  PROVE  IInv'
<1>0. TypeOK /\ LockExclusion /\ TableFacts /\ MembershipInv /\ \A q \in Req : Facts(q)
  BY DEF IInv, Facts
<1>1. Finish(r) /\ token[r] \in Invite /\ pc[r] = "expire"
      /\ UNCHANGED <<users, live, spent, member, role, items, ledger>>
  BY <1>0 DEF MarkExpired, Facts, ControlFacts, TokenOps
<1>2. /\ \A i \in Invite \ {token[r]} : invite'[i] = invite[i]
      /\ \A i \in Invite :
           /\ invite'[i].coll = invite[i].coll /\ invite'[i].inviter = invite[i].inviter
           /\ invite'[i].status \in {invite[i].status, "expired"}
           /\ invite[i].status = "unissued" => invite'[i].status = "unissued"
           /\ invite[i].status = "gone" => invite'[i].status = "gone"
      /\ invite' \in [Invite -> InviteRows]
  <2> DEFINE row == invite[token[r]]
             new == IF row.status = "pending" THEN [row EXCEPT !.status = "expired"] ELSE row
  <2>1. row \in InviteRows /\ invite \in [Invite -> InviteRows]
    BY <1>0, <1>1 DEF TypeOK, TablesOK
  <2>2. /\ new \in InviteRows /\ new.coll = row.coll /\ new.inviter = row.inviter
        /\ new.status \in {row.status, "expired"}
        /\ row.status \in {"unissued", "gone"} => new.status = row.status
    BY <2>1, InviteEdits
  <2>3. invite' = [invite EXCEPT ![token[r]] = new]
    BY DEF MarkExpired
  <2> HIDE DEF new
  <2> QED
    BY <1>1, <2>1, <2>2, <2>3
<1>3. TablesOK'
  BY <1>0, <1>1, <1>2 DEF TypeOK, TablesOK
<1>4. ASSUME NEW q \in Req \ {r} PROVE Facts(q)'
  <2>1. OthersSame(r) /\ Facts(q)
    BY <1>0, <1>1, FinishLocals
  <2>2. ShareFacts(q)'
    <3>1. pc[q] = "lockBoth" => token[q] # token[r] /\ token[q] \in Invite
      BY <2>1 DEF MarkExpired, Free, Facts, LockFacts, ControlFacts, TokenOps
    <3> QED
      BY <1>1, <1>2, <2>1, <3>1 DEF Facts, ShareFacts, OthersSame, Members
  <2>3. ControlFacts(q)' /\ LockFacts(q)'
    BY <1>1, <2>1, OtherControl
  <2>4. WriteFacts(q)'
    BY <1>0, <1>1, <1>3, <2>1, OtherWrite
  <2> QED
    BY <2>2, <2>3, <2>4 DEF Facts
<1>5. TableFacts' /\ LedgerBalances'
  BY <1>0, <1>1, <1>2 DEF IInv, TableFacts, LedgerBalances
<1>6. MembershipInv'
  BY <1>0, <1>1, <1>2 DEF MembershipInv, NoOrphanCollection, AtMostTwoMembers, OneOwner,
                          PendingInviteFromSoleMember, Members
<1> QED
  BY <1>0, <1>1, <1>3, <1>4, <1>5, <1>6, FinishLocals, FinishFacts, FinishExclusion
     DEF IInv, TypeOK, Facts

\* Time passes.
LEMMA ExpireInv ==
  ASSUME IInv, NEW i \in Invite, Expire(i)
  PROVE  IInv'
<1>0. TypeOK /\ LockExclusion /\ TableFacts /\ MembershipInv /\ \A q \in Req : Facts(q)
  BY DEF IInv, Facts
<1>1. UNCHANGED <<users, live, spent, member, role, items, ledger, held, keyShare, pc, locals>>
  BY DEF Expire
<1>2. /\ invite' \in [Invite -> InviteRows]
      /\ \A j \in Invite : /\ invite'[j].coll = invite[j].coll
                           /\ invite'[j].inviter = invite[j].inviter
                           /\ invite'[j].status = invite[j].status
  <2> DEFINE new == [invite[i] EXCEPT !.expired = TRUE]
  <2>1. invite[i] \in InviteRows /\ invite \in [Invite -> InviteRows]
    BY <1>0 DEF TypeOK, TablesOK
  <2>2. /\ new \in InviteRows /\ new.status = invite[i].status
        /\ new.coll = invite[i].coll /\ new.inviter = invite[i].inviter
    BY <2>1, InviteEdits
  <2>3. invite' = [invite EXCEPT ![i] = new]
    BY DEF Expire
  <2> HIDE DEF new
  <2> QED
    BY <2>1, <2>2, <2>3
<1>3. TypeOK'
  BY <1>0, <1>1, <1>2 DEF TypeOK, TablesOK, RequestsOK, locals
<1>4. ASSUME NEW q \in Req PROVE Facts(q)'
  <2>1. ControlFacts(q)' /\ LockFacts(q)'
    BY <1>0, <1>1 DEF Facts, ControlFacts, LockFacts, UnderShareLock, locals
  <2>2. ShareFacts(q)'
    BY <1>0, <1>1, <1>2 DEF Facts, ControlFacts, ShareFacts, Members, locals, TokenOps
  <2>3. WriteFacts(q)'
    BY <1>0, <1>1 DEF Facts, WriteFacts, Logged, Seen, locals
  <2> QED
    BY <2>1, <2>2, <2>3 DEF Facts
<1>5. LockExclusion' /\ TableFacts' /\ LedgerBalances'
  BY <1>0, <1>1, <1>2 DEF IInv, LockExclusion, TableFacts, LedgerBalances
<1>6. MembershipInv'
  BY <1>0, <1>1, <1>2 DEF MembershipInv, NoOrphanCollection, AtMostTwoMembers, OneOwner,
                          PendingInviteFromSoleMember, Members
<1> QED
  BY <1>3, <1>4, <1>5, <1>6 DEF IInv, Facts

\* A user gets a collection: nobody relied on their having none, and the uuid
\* is new.
LEMMA EnsureProvisionInv ==
  ASSUME IInv, NEW r \in Req, EnsureProvision(r)
  PROVE  IInv'
<1>0. /\ TypeOK /\ LockExclusion /\ TableFacts /\ MembershipInv
      /\ \A q \in Req : Facts(q)
  BY DEF IInv, Facts
<1>1. CASE member[who[r]] # None /\ Ensured(r, member[who[r]]) /\ UNCHANGED tables
  <2>1. member[who[r]] \in Coll /\ member[who[r]] \in spent'
    BY <1>0, <1>1 DEF EnsureProvision, TypeOK, TablesOK, Facts, ControlFacts, TableFacts,
                      MembershipInv, NoOrphanCollection, tables
  <2> QED
    BY <1>0, <1>1, <2>1, EnsuredLocals, LocalStep DEF EnsureProvision
<1>2. CASE ~(member[who[r]] # None /\ Ensured(r, member[who[r]]) /\ UNCHANGED tables)
  <2> DEFINE w == who[r]
  <2>1. PICK c \in Coll \ spent :
          /\ live' = live \cup {c} /\ spent' = spent \cup {c}
          /\ member' = [member EXCEPT ![w] = c]
          /\ role' = [role EXCEPT ![w] = "owner"]
          /\ Ensured(r, c)
    BY <1>2 DEF EnsureProvision
  <2>2. /\ w \in User /\ member[w] = None /\ pc[r] = "provision"
        /\ UNCHANGED <<users, items, ledger, invite>>
    BY <1>0, <1>2 DEF EnsureProvision, Facts, ControlFacts
  <2>3. RequestsOK' /\ OthersSame(r) /\ Facts(r)' /\ held'[r] = {}
    BY <2>1, <2>2, EnsuredLocals
  <2>4. TablesOK'
    BY <1>0, <2>1, <2>2 DEF TypeOK, TablesOK
  <2>5. /\ c \notin live /\ c # None /\ \A u \in User : member[u] # c
        /\ member'[w] = c /\ \A u \in User \ {w} : member'[u] = member[u]
        /\ role'[w] = "owner" /\ \A u \in User \ {w} : role'[u] = role[u]
    BY <1>0, <2>1, <2>2 DEF TypeOK, TablesOK, TableFacts, MembershipInv, NoOrphanCollection
  <2>6. MembershipInv'
    <3>0. None \notin live /\ live' = live \cup {c}
      BY <1>0, <2>1 DEF TypeOK, TablesOK
    <3>1. /\ \A d \in live : Members(d)' = Members(d) /\ w \notin Members(d)
          /\ Members(c)' = {w}
      BY <2>2, <2>5, <3>0 DEF Members
    <3>2. NoOrphanCollection'
      BY <1>0, <2>1, <2>2, <2>5, <3>0, <3>1 DEF MembershipInv, NoOrphanCollection
    <3>3. AtMostTwoMembers'
      BY <1>0, <2>2, <2>5 DEF MembershipInv, AtMostTwoMembers
    <3>4. OneOwner'
      <4> SUFFICES ASSUME NEW d \in live'
                   PROVE  \E u \in Members(d)' :
                            role'[u] = "owner" /\ \A v \in Members(d)' \ {u} : role'[v] = "member"
        BY DEF OneOwner
      <4>1. CASE d = c
        BY <2>5, <3>1, <4>1
      <4>2. CASE d # c
        BY <1>0, <2>5, <3>0, <3>1, <4>2 DEF MembershipInv, OneOwner, Members
      <4> QED
        BY <4>1, <4>2
    <3>5. PendingInviteFromSoleMember'
      BY <1>0, <2>1, <2>2, <3>1 DEF MembershipInv, PendingInviteFromSoleMember
    <3> QED
      BY <3>2, <3>3, <3>4, <3>5 DEF MembershipInv
  <2>7. TableFacts' /\ LedgerBalances'
    BY <1>0, <2>1, <2>2 DEF IInv, TableFacts, LedgerBalances, NoItems
  <2>8. ASSUME NEW q \in Req \ {r} PROVE Facts(q)'
    <3>1. ControlFacts(q)' /\ LockFacts(q)'
      BY <1>0, <2>1, <2>3, OtherControl
    <3>2. WriteFacts(q)'
      BY <1>0, <2>1, <2>2, <2>3, <2>4, <2>5, OtherWrite
    <3>3. ShareFacts(q)'
      <4>1. Facts(q) /\ OthersSame(r)
        BY <1>0, <2>3
      <4>2. coll[q] \in spent => coll[q] # None
        BY <1>0 DEF TypeOK, TablesOK
      <4>3. pc[q] \in {"deleteUser", "cascade"} =>
              \/ coll[q] = member'[actor[q]]
              \/ coll[q] = None /\ Members(member[actor[q]])' = {actor[q]}
        <5>1. SUFFICES ASSUME pc[q] \in {"deleteUser", "cascade"}
                       PROVE  \/ coll[q] = member'[actor[q]]
                              \/ coll[q] = None /\ Members(member[actor[q]])' = {actor[q]}
          OBVIOUS
        <5>2. actor[q] \in User
          BY <4>1, <5>1 DEF Facts, ControlFacts
        <5>3. CASE actor[q] = w
          BY <2>2, <2>5, <4>1, <5>1, <5>2, <5>3 DEF Facts, ShareFacts, Members, OthersSame
        <5>4. CASE actor[q] # w
          BY <2>2, <2>5, <4>1, <5>1, <5>2, <5>4 DEF Facts, ShareFacts, Members, OthersSame
        <5> QED
          BY <5>3, <5>4
      <4>4. pc[q] = "lockBoth" \/ (pc[q] \in {"lockColl", "commit"} /\ op[q] \in {"invite", "leave"})
              => actor[q] \in User /\ member'[actor[q]] = member[actor[q]]
        BY <2>2, <2>5, <4>1, <4>2 DEF Facts, ControlFacts, ShareFacts
      <4> QED
        BY <2>2, <4>1, <4>3, <4>4 DEF Facts, ShareFacts, OthersSame
    <3> QED
      BY <3>1, <3>2, <3>3 DEF Facts
  <2>9. LockExclusion'
    BY <1>0, <2>3, KeepExclusion
  <2> QED
    BY <2>3, <2>4, <2>6, <2>7, <2>8, <2>9 DEF IInv, TypeOK, Facts
<1> QED
  BY <1>1, <1>2

\* The commit of a write.
LEMMA CommitWriteInv ==
  ASSUME IInv, NEW r \in Req, CommitWrite(r)
  PROVE  IInv'
<1>0. /\ TypeOK /\ LockExclusion /\ TableFacts /\ MembershipInv /\ LedgerBalances
      /\ \A q \in Req : Facts(q)
  BY DEF IInv, Facts
<1> DEFINE c == coll[r]
<1>1. /\ pc[r] = "commit" /\ op[r] \in WriteOps /\ c \in live /\ c \in held[r] /\ c \in Coll
      /\ c \in spent /\ UNCHANGED <<users, live, spent, member, role, invite>>
  BY <1>0 DEF CommitWrite, Facts, ControlFacts, WriteFacts, TypeOK, TablesOK
<1>2. /\ \A s \in Stack : Seen(r, s) \in Nat /\ Logged(r, s) \in Int
      /\ \A s \in Stack : Logged(r, s) = Seen(r, s) - items[c][s]
      /\ \A s \in Stack : items[c][s] \in Nat /\ ledger[c][s] \in Int
  BY <1>0, <1>1 DEF TypeOK, TablesOK, RequestsOK, Seen, Logged, Facts, WriteFacts
<1>3. /\ items'[c] = [s \in Stack |-> Seen(r, s)]
      /\ ledger'[c] = [s \in Stack |-> ledger[c][s] + Logged(r, s)]
      /\ \A d \in Coll \ {c} : items'[d] = items[d] /\ ledger'[d] = ledger[d]
  BY <1>0, <1>1 DEF CommitWrite, TypeOK, TablesOK
<1>4. TablesOK'
  <2>1. [s \in Stack |-> Seen(r, s)] \in [Stack -> Nat]
    BY <1>2
  <2>2. [s \in Stack |-> ledger[c][s] + Logged(r, s)] \in [Stack -> Int]
    BY <1>2
  <2>3. items' \in [Coll -> [Stack -> Nat]] /\ ledger' \in [Coll -> [Stack -> Int]]
    BY <1>0, <1>1, <2>1, <2>2 DEF CommitWrite, TypeOK, TablesOK
  <2> QED
    BY <1>0, <1>1, <2>3 DEF TypeOK, TablesOK
<1>5. RequestsOK' /\ OthersSame(r) /\ held'[r] = {} /\ Facts(r)'
  <2>1. CASE Finish(r)
    BY <1>0, <2>1, FinishLocals, FinishFacts
  <2>2. CASE ~Finish(r)
    <3>1. /\ pc'[r] = "lockColl" /\ op'[r] = op[r] /\ actor'[r] = actor[r]
          /\ who'[r] = who[r] /\ coll'[r] = coll[r] /\ token'[r] = token[r]
          /\ todo'[r] = todo[r] /\ todo[r] > 0 /\ buf'[r] = Untouched /\ held'[r] = {}
      BY <1>0, <2>2 DEF CommitWrite, Release, Goto, TypeOK, RequestsOK
    <3>2. RequestsOK' /\ OthersSame(r)
      <4>1. buf' \in [Req -> [Stack -> [qty : Nat, delta : Int] \cup {None}]]
        <5>1. Untouched \in [Stack -> [qty : Nat, delta : Int] \cup {None}]
          BY DEF Untouched
        <5> QED
          BY <1>0, <2>2, <5>1 DEF CommitWrite, TypeOK, RequestsOK
      <4>2. /\ pc' \in [Req -> Steps]
            /\ held' \in [Req -> SUBSET (User \cup Coll \cup Invite \cup {Advisory})]
        BY <1>0, <2>2 DEF CommitWrite, Release, Goto, TypeOK, RequestsOK, Steps
      <4>3. RequestsOK'
        BY <1>0, <2>2, <4>1, <4>2 DEF CommitWrite, Release, TypeOK, RequestsOK
      <4>4. OthersSame(r)
        BY <1>0, <2>2 DEF CommitWrite, Release, Goto, TypeOK, RequestsOK, OthersSame
      <4> QED
        BY <4>3, <4>4
    <3>3. Facts(r)'
      BY <1>0, <1>1, <3>1 DEF Facts, ControlFacts, LockFacts, ShareFacts, WriteFacts,
                              UnderShareLock, TokenOps, WriteOps
    <3> QED
      BY <3>1, <3>2, <3>3
  <2> QED
    BY <2>1, <2>2
<1>6. ASSUME NEW q \in Req \ {r} PROVE Facts(q)'
  <2>1. ControlFacts(q)' /\ LockFacts(q)'
    BY <1>0, <1>1, <1>5, OtherControl
  <2>2. ShareFacts(q)'
    BY <1>0, <1>1, <1>5 DEF Facts, ShareFacts, OthersSame, Members
  <2>3. WriteFacts(q)'
    <3>1. \A d \in held[q] \cap live : d \in live' /\ items'[d] = items[d]
      BY <1>0, <1>1, <1>3 DEF LockExclusion, TypeOK, TablesOK
    <3> QED
      BY <1>0, <1>1, <1>4, <1>5, <3>1, OtherWrite
  <2> QED
    BY <2>1, <2>2, <2>3 DEF Facts
<1>7. TableFacts' /\ MembershipInv'
  BY <1>0, <1>1, <1>3 DEF TableFacts, MembershipInv, NoOrphanCollection, AtMostTwoMembers,
       OneOwner, PendingInviteFromSoleMember, Members
<1>8. LedgerBalances'
  <2> SUFFICES ASSUME NEW d \in live, NEW s \in Stack PROVE ledger'[d][s] = items'[d][s]
    BY <1>1 DEF LedgerBalances
  <2>1. CASE d = c
    BY <1>0, <1>1, <1>2, <1>3, <2>1 DEF LedgerBalances
  <2>2. CASE d # c
    BY <1>0, <1>3, <2>2 DEF LedgerBalances, TypeOK, TablesOK
  <2> QED
    BY <2>1, <2>2
<1> QED
  BY <1>0, <1>4, <1>5, <1>6, <1>7, <1>8, KeepExclusion DEF IInv, TypeOK, Facts

\* Under the share lock some pending invites are settled, and nothing else.
LEMMA SettleInv ==
  ASSUME IInv, NEW r \in Req, Finish(r), Advisory \in held[r],
         UNCHANGED <<users, live, spent, member, role, items, ledger>>,
         invite' \in [Invite -> InviteRows],
         \A i \in Invite :
           /\ invite'[i].coll = invite[i].coll /\ invite'[i].inviter = invite[i].inviter
           /\ \/ invite'[i].status = invite[i].status
              \/ invite[i].status = "pending" /\ invite'[i].status \in {"revoked", "expired"}
  PROVE  IInv'
<1>0. /\ TypeOK /\ LockExclusion /\ TableFacts /\ MembershipInv /\ LedgerBalances
      /\ \A q \in Req : Facts(q)
  BY DEF IInv, Facts
<1>1. TablesOK'
  BY <1>0 DEF TypeOK, TablesOK
<1>2. ASSUME NEW q \in Req \ {r} PROVE Facts(q)'
  BY <1>0, <1>1, FinishLocals, OtherControl, OtherShare, OtherWrite DEF Facts
<1>3. TableFacts' /\ LedgerBalances'
  BY <1>0 DEF TableFacts, LedgerBalances
<1>4. MembershipInv'
  BY <1>0 DEF MembershipInv, NoOrphanCollection, AtMostTwoMembers, OneOwner,
              PendingInviteFromSoleMember, Members
<1> QED
  BY <1>0, <1>1, <1>2, <1>3, <1>4, FinishLocals, FinishFacts, FinishExclusion
     DEF IInv, TypeOK, Facts

\* What a handler reads under the lock, or the revocation of the pending invites.
LEMMA CurrentCollectionInv ==
  ASSUME IInv, NEW r \in Req, current_collection(r)
  PROVE  IInv'
<1>0. TypeOK /\ Facts(r) /\ LockExclusion /\ TableFacts /\ NoOrphanCollection
  BY DEF IInv, Facts, MembershipInv
<1>1. pc[r] = "current" /\ Advisory \in held[r] /\ actor[r] \in User
  BY <1>0 DEF current_collection, Facts, LockFacts, UnderShareLock, ControlFacts
<1>2. CASE Fail(r)
  BY <1>2, FailInv
<1>3. CASE op[r] = "revoke" /\ ~Fail(r)
  <2> DEFINE hit(i) == i \in PendingOf(member[actor[r]])
  <2>1. /\ Finish(r) /\ UNCHANGED <<users, live, spent, member, role, items, ledger>>
        /\ invite' = [i \in Invite |-> Revoked(invite[i], hit(i))]
    BY <1>3 DEF current_collection
  <2>2. ASSUME NEW i \in Invite
        PROVE  /\ Revoked(invite[i], hit(i)) \in InviteRows
               /\ Revoked(invite[i], hit(i)).coll = invite[i].coll
               /\ Revoked(invite[i], hit(i)).inviter = invite[i].inviter
               /\ \/ Revoked(invite[i], hit(i)).status = invite[i].status
                  \/ /\ invite[i].status = "pending"
                     /\ Revoked(invite[i], hit(i)).status = "revoked"
    <3>1. invite[i] \in InviteRows
      BY <1>0 DEF TypeOK, TablesOK
    <3> QED
      BY <3>1, InviteEdits DEF Revoked, PendingOf
  <2> HIDE DEF hit
  <2> QED
    BY <1>1, <2>1, <2>2, SettleInv
<1>4. CASE op[r] # "revoke" /\ ~Fail(r)
  <2>1. /\ coll' = [coll EXCEPT ![r] = member[actor[r]]]
        /\ pc' = [pc EXCEPT ![r] = IF op[r] = "delete_user" THEN "deleteUser" ELSE "lockColl"]
        /\ UNCHANGED <<tables, held, keyShare, op, actor, who, token, late, todo, buf>>
        /\ op[r] \in {"invite", "leave", "delete_user"}
        /\ op[r] # "delete_user" => member[actor[r]] # None
    BY <1>4 DEF current_collection, Goto
  <2>2. RequestsOK' /\ OthersSame(r)
    BY <1>0, <1>1, <2>1 DEF TypeOK, TablesOK, RequestsOK, Steps, OthersSame
  <2>3. /\ pc'[r] = IF op[r] = "delete_user" THEN "deleteUser" ELSE "lockColl"
        /\ coll'[r] = member[actor[r]] /\ buf[r] = Untouched
        /\ op[r] # "delete_user" => member[actor[r]] \in spent
    BY <1>0, <1>1, <2>1 DEF TypeOK, TablesOK, RequestsOK, Facts, WriteFacts, TableFacts,
                            NoOrphanCollection
  <2>4. Facts(r)'
    BY <1>0, <1>1, <2>1, <2>3
       DEF Facts, ControlFacts, LockFacts, ShareFacts, WriteFacts, UnderShareLock,
           TokenOps, WriteOps, tables
  <2>5. \A q \in Req \ {r} : held'[r] \cap held[q] = {}
    BY <1>0, <2>1 DEF LockExclusion
  <2> QED
    BY <2>1, <2>2, <2>4, <2>5, LocalStep
<1> QED
  BY <1>2, <1>3, <1>4

\* The invite an accept names, judged under its row lock.
LEMMA FindInviteInv ==
  ASSUME IInv, NEW r \in Req, FindInvite(r)
  PROVE  IInv'
<1>0. TypeOK /\ Facts(r) /\ LockExclusion /\ TableFacts /\ NoOrphanCollection
  BY DEF IInv, Facts, MembershipInv
<1>1. /\ pc[r] = "findInvite" /\ Advisory \in held[r] /\ actor[r] \in User
      /\ op[r] = "accept" /\ token[r] \in Invite /\ invite[token[r]] \in InviteRows
  BY <1>0 DEF FindInvite, Facts, LockFacts, UnderShareLock, ControlFacts, TokenOps,
              TypeOK, TablesOK
<1>2. CASE Fail(r)
  BY <1>2, FailInv
<1>3. CASE late[r] /\ ~Fail(r)
  <2> DEFINE new == [invite[token[r]] EXCEPT !.status = "expired"]
  <2>1. /\ Finish(r) /\ UNCHANGED <<users, live, spent, member, role, items, ledger>>
        /\ invite[token[r]].status = "pending"
        /\ invite' = [invite EXCEPT ![token[r]] = new]
    BY <1>3 DEF FindInvite, Settled
  <2>2. /\ new \in InviteRows /\ new.status = "expired" /\ new.coll = invite[token[r]].coll
        /\ new.inviter = invite[token[r]].inviter
    BY <1>1, InviteEdits
  <2> HIDE DEF new
  <2>3. invite' \in [Invite -> InviteRows]
    BY <1>0, <2>1, <2>2 DEF TypeOK, TablesOK
  <2>4. \A i \in Invite :
           /\ invite'[i].coll = invite[i].coll /\ invite'[i].inviter = invite[i].inviter
           /\ \/ invite'[i].status = invite[i].status
              \/ invite[i].status = "pending" /\ invite'[i].status \in {"revoked", "expired"}
    BY <1>0, <1>1, <2>1, <2>2 DEF TypeOK, TablesOK
  <2> QED
    BY <1>1, <2>1, <2>3, <2>4, SettleInv
<1>4. CASE ~late[r] /\ ~Fail(r)
  <2>1. /\ coll' = [coll EXCEPT ![r] = member[actor[r]]]
        /\ held' = [held EXCEPT ![r] = @ \cup {token[r]}]
        /\ pc' = [pc EXCEPT ![r] = "lockBoth"] /\ Free(r, token[r])
        /\ UNCHANGED <<tables, keyShare, op, actor, who, token, late, todo, buf>>
        /\ invite[token[r]].status = "pending" /\ invite[token[r]].inviter # actor[r]
        /\ member[actor[r]] # None /\ member[actor[r]] # invite[token[r]].coll
    BY <1>4 DEF FindInvite, Settled, Goto
  <2>2. held' \in [Req -> SUBSET (User \cup Coll \cup Invite \cup {Advisory})]
    BY <1>0, <1>1, <2>1 DEF TypeOK, RequestsOK
  <2>3. RequestsOK' /\ OthersSame(r)
    BY <1>0, <1>1, <2>1, <2>2 DEF TypeOK, TablesOK, RequestsOK, Steps, OthersSame
  <2>4. /\ pc'[r] = "lockBoth" /\ coll'[r] = member[actor[r]] /\ buf[r] = Untouched
        /\ held'[r] = held[r] \cup {token[r]} /\ member[actor[r]] \in spent
    BY <1>0, <1>1, <2>1 DEF TypeOK, TablesOK, RequestsOK, Facts, WriteFacts, TableFacts,
                            NoOrphanCollection
  <2>5. Facts(r)'
    BY <1>0, <1>1, <2>1, <2>4
       DEF Facts, ControlFacts, LockFacts, ShareFacts, WriteFacts, UnderShareLock,
           TokenOps, WriteOps, tables
  <2>6. \A q \in Req \ {r} : held'[r] \cap held[q] = {}
    BY <1>0, <2>1, <2>4 DEF LockExclusion, Free
  <2> QED
    BY <2>1, <2>3, <2>5, <2>6, LocalStep
<1> QED
  BY <1>2, <1>3, <1>4

\* A new invite, and the revocation of the one before it.
LEMMA InviteInsertInv ==
  ASSUME IInv, NEW r \in Req, invite_insert(r)
  PROVE  IInv'
<1>0. /\ TypeOK /\ LockExclusion /\ TableFacts /\ MembershipInv /\ LedgerBalances
      /\ \A q \in Req : Facts(q)
  BY DEF IInv, Facts
<1>1. CASE Fail(r)
  BY <1>1, FailInv
<1>2. CASE ~Fail(r)
  <2> DEFINE c == coll[r]
             a == actor[r]
             hit(j) == j \in PendingOf(c)
             fresh == InviteRow("pending", c, a, FALSE)
  <2>1. /\ Finish(r) /\ UNCHANGED <<users, live, spent, member, role, items, ledger>>
        /\ ~Shared(c) /\ pc[r] = "commit" /\ op[r] = "invite"
        /\ \E i \in {j \in Invite : invite[j].status = "unissued"} :
             invite' = [j \in Invite |-> IF j = i THEN fresh ELSE Revoked(invite[j], hit(j))]
    BY <1>2 DEF invite_insert
  <2>2. PICK i \in Invite :
          /\ invite[i].status = "unissued"
          /\ invite' = [j \in Invite |-> IF j = i THEN fresh ELSE Revoked(invite[j], hit(j))]
    BY <2>1
  <2>3. /\ Advisory \in held[r] /\ a \in User /\ c = member[a] /\ c \in spent /\ c \in Coll
    BY <1>0, <2>1 DEF Facts, ControlFacts, LockFacts, ShareFacts, UnderShareLock,
                      TypeOK, TablesOK
  <2>4. Members(c) = {a} /\ c \in live
    BY <1>0, <2>1, <2>3 DEF Shared, Members, MembershipInv, NoOrphanCollection
  <2>5. /\ fresh \in InviteRows /\ fresh.status = "pending" /\ fresh.coll = c
        /\ fresh.inviter = a
    BY <2>3 DEF InviteRow, InviteRows
  <2>6. ASSUME NEW j \in Invite
        PROVE  /\ Revoked(invite[j], hit(j)) \in InviteRows
               /\ Revoked(invite[j], hit(j)).coll = invite[j].coll
               /\ Revoked(invite[j], hit(j)).inviter = invite[j].inviter
               /\ \/ /\ Revoked(invite[j], hit(j)).status = invite[j].status
                     /\ invite[j].status = "pending" => invite[j].coll # c
                  \/ /\ invite[j].status = "pending"
                     /\ Revoked(invite[j], hit(j)).status = "revoked"
    <3>1. invite[j] \in InviteRows
      BY <1>0 DEF TypeOK, TablesOK
    <3> QED
      BY <3>1, InviteEdits DEF Revoked, PendingOf
  <2> HIDE DEF hit, fresh
  <2>7. TablesOK'
    <3>1. invite' \in [Invite -> InviteRows]
      BY <2>2, <2>5, <2>6
    <3> QED
      BY <1>0, <2>1, <3>1 DEF TypeOK, TablesOK
  <2>8. /\ invite'[i].status = "pending" /\ invite'[i].coll = c /\ invite'[i].inviter = a
        /\ \A j \in Invite \ {i} :
             /\ invite'[j].coll = invite[j].coll /\ invite'[j].inviter = invite[j].inviter
             /\ \/ /\ invite'[j].status = invite[j].status
                   /\ invite[j].status = "pending" => invite[j].coll # c
                \/ invite[j].status = "pending" /\ invite'[j].status = "revoked"
    BY <2>2, <2>5, <2>6
  <2>9. TableFacts' /\ LedgerBalances'
    BY <1>0, <2>1, <2>3, <2>8 DEF TableFacts, LedgerBalances
  <2>10. MembershipInv'
    <3>1. PendingInviteFromSoleMember'
      BY <1>0, <2>1, <2>4, <2>8 DEF MembershipInv, PendingInviteFromSoleMember, Members
    <3> QED
      BY <1>0, <2>1, <3>1 DEF MembershipInv, NoOrphanCollection, AtMostTwoMembers,
                              OneOwner, Members
  <2>11. ASSUME NEW q \in Req \ {r} PROVE Facts(q)'
    BY <1>0, <2>1, <2>3, <2>7, FinishLocals, OtherControl, OtherShare, OtherWrite DEF Facts
  <2> QED
    BY <1>0, <2>1, <2>7, <2>9, <2>10, <2>11, FinishLocals, FinishFacts, FinishExclusion
       DEF IInv, TypeOK, Facts
<1> QED
  BY <1>1, <1>2

\* The member left behind owns the collection, and the one who goes owns theirs.
LEMMA Promotion ==
  ASSUME TypeOK, AtMostTwoMembers, NEW c \in Coll, NEW u \in Members(c), PromoteIn(c, u)
  PROVE  /\ role' \in [User -> {"owner", "member"}]
         /\ \A v \in Members(c) : role'[v] = "owner"
         /\ \A v \in User \ Members(c) : role'[v] = role[v]
<1>1. u \in User /\ member[u] = c /\ c # None /\ role \in [User -> {"owner", "member"}]
  BY DEF TypeOK, TablesOK, Members
<1>2. \A v, w \in Others(c, u) : v = w
  BY <1>1 DEF AtMostTwoMembers, Others, Members
<1>3. CASE Others(c, u) = {} \/ \E v \in Others(c, u) : role[v] = "owner"
  <2>1. role' = [role EXCEPT ![u] = "owner"]
    BY <1>3 DEF PromoteIn
  <2> QED
    BY <1>1, <1>2, <1>3, <2>1 DEF Others, Members
<1>4. CASE ~(Others(c, u) = {} \/ \E v \in Others(c, u) : role[v] = "owner")
  <2>1. PICK heir \in Others(c, u) :
          role' = [[role EXCEPT ![u] = "owner"] EXCEPT ![heir] = "owner"]
    BY <1>4 DEF PromoteIn
  <2> QED
    BY <1>1, <1>2, <2>1 DEF Others, Members
<1> QED
  BY <1>3, <1>4

\* Leaving.
LEMMA LeaveInv ==
  ASSUME IInv, NEW r \in Req, Leave(r)
  PROVE  IInv'
<1>0. /\ TypeOK /\ LockExclusion /\ TableFacts /\ MembershipInv /\ LedgerBalances
      /\ \A q \in Req : Facts(q)
  BY DEF IInv, Facts
<1>1. CASE Fail(r)
  BY <1>1, FailInv
<1>2. CASE ~Fail(r)
  <2> DEFINE p == coll[r]
             u == actor[r]
             hit(i) == i \in PendingOf(p) /\ invite[i].inviter = u
  <2>1. /\ Finish(r) /\ UNCHANGED <<users, items, ledger>> /\ Shared(p) /\ PromoteIn(p, u)
        /\ pc[r] = "commit" /\ op[r] = "leave"
        /\ invite' = [i \in Invite |-> Revoked(invite[i], hit(i))]
    BY <1>2 DEF Leave
  <2>2. PICK c \in Coll \ spent : /\ live' = live \cup {c} /\ spent' = spent \cup {c}
                                  /\ member' = [member EXCEPT ![u] = c]
    BY <1>2 DEF Leave
  <2>3. /\ Advisory \in held[r] /\ u \in User /\ p = member[u] /\ p \in spent /\ p \in Coll
        /\ p \in live /\ u \in Members(p)
    BY <1>0, <2>1 DEF Facts, ControlFacts, LockFacts, ShareFacts, UnderShareLock, Members,
                      TypeOK, TablesOK, MembershipInv, NoOrphanCollection
  <2>4. PICK v \in User : v # u /\ Members(p) = {u, v}
    BY <1>0, <2>1, <2>3 DEF Shared, Members, MembershipInv, AtMostTwoMembers
  <2>5. /\ role' \in [User -> {"owner", "member"}] /\ role'[u] = "owner" /\ role'[v] = "owner"
        /\ \A x \in User \ {u, v} : role'[x] = role[x]
    BY <1>0, <2>1, <2>3, <2>4, Promotion DEF MembershipInv
  <2>6. /\ c \notin live /\ c # None /\ c # p /\ p # None /\ None \notin live
        /\ \A x \in User : member[x] # c
        /\ member'[u] = c /\ \A x \in User \ {u} : member'[x] = member[x]
    BY <1>0, <2>2, <2>3 DEF TypeOK, TablesOK, TableFacts, MembershipInv, NoOrphanCollection
  <2>7. /\ Members(c)' = {u}
        /\ \A d \in live : IF d = p THEN Members(d)' = {v}
             ELSE Members(d)' = Members(d) /\ u \notin Members(d) /\ v \notin Members(d)
    BY <2>3, <2>4, <2>6 DEF Members
  <2>8. ASSUME NEW i \in Invite
        PROVE  /\ Revoked(invite[i], hit(i)) \in InviteRows
               /\ Revoked(invite[i], hit(i)).coll = invite[i].coll
               /\ Revoked(invite[i], hit(i)).inviter = invite[i].inviter
               /\ \/ Revoked(invite[i], hit(i)).status = invite[i].status
                  \/ /\ invite[i].status = "pending"
                     /\ Revoked(invite[i], hit(i)).status = "revoked"
    <3>1. invite[i] \in InviteRows
      BY <1>0 DEF TypeOK, TablesOK
    <3> QED
      BY <3>1, InviteEdits DEF Revoked, PendingOf
  <2> HIDE DEF hit
  <2>9. TablesOK'
    <3>1. invite' \in [Invite -> InviteRows]
      BY <2>1, <2>8
    <3> QED
      BY <1>0, <2>1, <2>2, <2>5, <3>1 DEF TypeOK, TablesOK
  <2>10. \A i \in Invite :
           /\ invite'[i].coll = invite[i].coll /\ invite'[i].inviter = invite[i].inviter
           /\ \/ invite'[i].status = invite[i].status
              \/ invite[i].status = "pending" /\ invite'[i].status = "revoked"
    BY <2>1, <2>8
  <2>11. TableFacts' /\ LedgerBalances'
    <3>1. TableFacts'
      BY <1>0, <2>1, <2>2, <2>10 DEF TableFacts
    <3>2. items[c] = NoItems /\ ledger[c] = NoItems
      BY <1>0 DEF TableFacts
    <3>3. LedgerBalances'
      BY <1>0, <2>1, <2>2, <3>2 DEF LedgerBalances, NoItems
    <3> QED
      BY <3>1, <3>3
  <2>12. MembershipInv'
    <3>1. NoOrphanCollection'
      BY <1>0, <2>2, <2>6, <2>7 DEF MembershipInv, NoOrphanCollection
    <3>2. AtMostTwoMembers'
      BY <1>0, <2>3, <2>6 DEF MembershipInv, AtMostTwoMembers
    <3>3. OneOwner'
      <4> SUFFICES ASSUME NEW d \in live'
                   PROVE  \E x \in Members(d)' :
                      role'[x] = "owner" /\ \A y \in Members(d)' \ {x} : role'[y] = "member"
        BY DEF OneOwner
      <4>1. CASE d \in {c, p}
        BY <2>3, <2>5, <2>7, <4>1
      <4>2. CASE d \notin {c, p}
        BY <1>0, <2>2, <2>5, <2>7, <4>2 DEF MembershipInv, OneOwner, Members
      <4> QED
        BY <4>1, <4>2
    <3>4. PendingInviteFromSoleMember'
      <4>1. \A i \in Invite : invite[i].status = "pending" => invite[i].coll \in live \ {p}
        BY <1>0, <2>4 DEF MembershipInv, PendingInviteFromSoleMember
      <4> QED
        BY <1>0, <2>2, <2>7, <2>10, <4>1 DEF MembershipInv, PendingInviteFromSoleMember
    <3> QED
      BY <3>1, <3>2, <3>3, <3>4 DEF MembershipInv
  <2>13. ASSUME NEW q \in Req \ {r} PROVE Facts(q)'
    <3>1. OthersSame(r) /\ Facts(q) /\ spent \subseteq spent' /\ live' \cap spent \subseteq live
          /\ live \subseteq live'
      BY <1>0, <2>1, <2>2, FinishLocals
    <3> QED
      BY <1>0, <2>1, <2>3, <2>9, <3>1, OtherControl, OtherShare, OtherWrite DEF Facts
  <2> QED
    BY <1>0, <2>1, <2>9, <2>11, <2>12, <2>13, FinishLocals, FinishFacts, FinishExclusion
       DEF IInv, TypeOK, Facts
<1> QED
  BY <1>1, <1>2

\* Accepting: two collections with one member each become one with two.
LEMMA AcceptInv ==
  ASSUME IInv, NEW r \in Req, Accept(r)
  PROVE  IInv'
<1>0. /\ TypeOK /\ LockExclusion /\ TableFacts /\ MembershipInv /\ LedgerBalances
      /\ \A q \in Req : Facts(q)
  BY DEF IInv, Facts
<1>1. CASE Fail(r)
  BY <1>1, FailInv
<1>2. CASE ~Fail(r)
  <2>1. PICK a, i, source, target :
          a = actor[r] /\ i = token[r] /\ source = coll[r] /\ target = invite[i].coll
    OBVIOUS
  <2>2. /\ live \cap {source, target} \subseteq held[r] /\ ~Shared(target) /\ ~Shared(source)
        /\ Finish(r) /\ UNCHANGED <<users, spent>> /\ live' = live \ {source}
        /\ member' = [member EXCEPT ![a] = target] /\ role' = [role EXCEPT ![a] = "member"]
        /\ invite' = [j \in Invite |->
             IF j = i THEN [invite[i] EXCEPT !.status = "accepted"]
             ELSE Revoked(Cascaded(invite[j], invite[j].coll = source), j \in PendingOf(target))]
    BY <1>2, <2>1 DEF Accept
  <2>3. PICK merged \in {items[source], NoItems} :
          /\ items' = [items EXCEPT ![source] = NoItems,
                         ![target] = [s \in Stack |-> items[target][s] + merged[s]]]
          /\ ledger' = [ledger EXCEPT ![source] = NoItems,
                         ![target] = [s \in Stack |-> ledger[target][s] + merged[s]]]
    BY <1>2, <2>1 DEF Accept
  <2>4. /\ Advisory \in held[r] /\ a \in User /\ source = member[a] /\ source \in spent
        /\ source \in Coll /\ i \in Invite /\ invite[i].status = "pending"
        /\ target # source /\ invite[i].inviter # a
    <3>1. pc[r] = "lockBoth" /\ op[r] = "accept"
      BY <1>0 DEF Accept, Facts, ControlFacts
    <3>2. a \in User /\ i \in Invite /\ source \in spent /\ Advisory \in held[r]
      BY <1>0, <2>1, <3>1 DEF Facts, ControlFacts, LockFacts, UnderShareLock, TokenOps
    <3>3. /\ source = member[a] /\ invite[i].status = "pending" /\ target # source
          /\ invite[i].inviter # a
      BY <1>0, <2>1, <3>1 DEF Facts, ShareFacts
    <3> QED
      BY <1>0, <3>2, <3>3 DEF TypeOK, TablesOK
  <2>5. PICK b \in User : b = invite[i].inviter
    BY <1>0, <2>4 DEF TableFacts
  <2>6. /\ Members(target) = {b} /\ target \in live /\ target \in Coll /\ b # a
        /\ Members(source) = {a} /\ source \in live /\ None \notin live
        /\ member[a] = source /\ member[b] = target
    BY <1>0, <2>1, <2>2, <2>4, <2>5
       DEF MembershipInv, PendingInviteFromSoleMember, NoOrphanCollection, Shared, Members,
           TypeOK, TablesOK
  <2>7. /\ Members(target)' = {a, b}
        /\ \A d \in live \ {source, target} :
             Members(d)' = Members(d) /\ a \notin Members(d) /\ b \notin Members(d)
        /\ member'[a] = target /\ \A u \in User \ {a} : member'[u] = member[u]
        /\ \A u \in User \ {a} : member[u] # source
        /\ \A u \in User \ {b} : member[u] # target
    BY <1>0, <2>2, <2>4, <2>6 DEF Members, TypeOK, TablesOK
  <2>8. /\ role' \in [User -> {"owner", "member"}]
        /\ role'[a] = "member" /\ \A u \in User \ {a} : role'[u] = role[u]
    BY <1>0, <2>2, <2>4 DEF TypeOK, TablesOK
  <2>9. /\ merged \in [Stack -> Nat]
        /\ items[target] \in [Stack -> Nat] /\ ledger[target] \in [Stack -> Int]
    BY <1>0, <2>4, <2>6 DEF TypeOK, TablesOK, NoItems
  <2>10. /\ items' \in [Coll -> [Stack -> Nat]] /\ ledger' \in [Coll -> [Stack -> Int]]
         /\ items'[target] = [s \in Stack |-> items[target][s] + merged[s]]
         /\ ledger'[target] = [s \in Stack |-> ledger[target][s] + merged[s]]
         /\ \A d \in Coll \ {source, target} : items'[d] = items[d] /\ ledger'[d] = ledger[d]
    <3>1. /\ [s \in Stack |-> items[target][s] + merged[s]] \in [Stack -> Nat]
          /\ [s \in Stack |-> ledger[target][s] + merged[s]] \in [Stack -> Int]
          /\ NoItems \in [Stack -> Nat] /\ NoItems \in [Stack -> Int]
      BY <2>9 DEF NoItems
    <3> QED
      BY <1>0, <2>3, <2>4, <2>6, <3>1 DEF TypeOK, TablesOK
  <2>11. ASSUME NEW j \in Invite
         PROVE  /\ invite'[j] \in InviteRows
                /\ \/ j = i /\ invite'[j].status = "accepted" /\ invite'[j].coll = invite[j].coll
                      /\ invite'[j].inviter = invite[j].inviter
                   \/ j # i /\ invite'[j].status = "gone"
                   \/ j # i /\ invite'[j] = invite[j] /\ invite[j].coll # source
                      /\ (invite[j].status = "pending" => invite[j].coll # target)
                   \/ j # i /\ invite'[j].status = "revoked" /\ invite'[j].coll = invite[j].coll
                      /\ invite'[j].inviter = invite[j].inviter /\ invite[j].status = "pending"
    <3>0. invite[j] \in InviteRows /\ InviteRow("gone", None, None, FALSE) \in InviteRows
          /\ InviteRow("gone", None, None, FALSE).status = "gone"
      BY <1>0 DEF TypeOK, TablesOK, InviteRow, InviteRows
    <3>1. CASE j = i
      <4> DEFINE new == [invite[j] EXCEPT !.status = "accepted"]
      <4>1. /\ new \in InviteRows /\ new.status = "accepted" /\ new.coll = invite[j].coll
            /\ new.inviter = invite[j].inviter
        BY <3>0, InviteEdits
      <4>2. invite'[j] = new
        BY <2>2, <3>1
      <4> QED
        BY <3>1, <4>1, <4>2
    <3>2. CASE j # i /\ invite[j].coll = source
      <4>1. j \notin PendingOf(target)
        BY <2>4, <3>2 DEF PendingOf
      <4>2. invite'[j] = InviteRow("gone", None, None, FALSE)
        BY <2>2, <3>2, <4>1 DEF Revoked, Cascaded
      <4> QED
        BY <3>0, <3>2, <4>2
    <3>3. CASE j # i /\ invite[j].coll # source
      <4> DEFINE new == [invite[j] EXCEPT !.status = "revoked"]
      <4>1. invite'[j] = IF j \in PendingOf(target) THEN new ELSE invite[j]
        BY <2>2, <3>3 DEF Revoked, Cascaded
      <4>2. /\ new \in InviteRows /\ new.status = "revoked" /\ new.coll = invite[j].coll
            /\ new.inviter = invite[j].inviter
        BY <3>0, InviteEdits
      <4> HIDE DEF new
      <4> QED
        BY <3>0, <3>3, <4>1, <4>2 DEF PendingOf
    <3> QED
      BY <3>1, <3>2, <3>3
  <2>12. TablesOK'
    <3>1. invite' \in [Invite -> InviteRows]
      BY <2>2, <2>11
    <3>2. member' \in [User -> Coll \cup {None}]
      BY <1>0, <2>2, <2>6 DEF TypeOK, TablesOK
    <3> QED
      BY <1>0, <2>2, <2>8, <2>10, <3>1, <3>2 DEF TypeOK, TablesOK
  <2>13. TableFacts'
    <3>1. live' \subseteq spent' /\ source \in spent /\ target \in spent
      BY <1>0, <2>2, <2>4, <2>6 DEF TableFacts
    <3>2. \A j \in Invite : invite'[j].status \notin {"unissued", "gone"}
             => invite'[j].coll \in Coll /\ invite'[j].inviter \in User
      BY <1>0, <2>4, <2>11 DEF TableFacts
    <3>3. \A d \in Coll \ spent' : items'[d] = NoItems /\ ledger'[d] = NoItems
      BY <1>0, <2>2, <2>10, <3>1 DEF TableFacts
    <3> QED
      BY <3>1, <3>2, <3>3 DEF TableFacts
  <2>14. LedgerBalances'
    <3> SUFFICES ASSUME NEW d \in live', NEW s \in Stack PROVE ledger'[d][s] = items'[d][s]
      BY DEF LedgerBalances
    <3>1. CASE d = target
      BY <1>0, <2>6, <2>10, <3>1 DEF LedgerBalances
    <3>2. CASE d # target
      BY <1>0, <2>2, <2>10, <3>2 DEF LedgerBalances, TypeOK, TablesOK
    <3> QED
      BY <3>1, <3>2
  <2>15. MembershipInv'
    <3>1. NoOrphanCollection'
      BY <1>0, <2>2, <2>4, <2>6, <2>7 DEF MembershipInv, NoOrphanCollection
    <3>2. AtMostTwoMembers'
      <4>1. \A u \in User : member'[u] = target => u \in {a, b}
        BY <2>7
      <4> QED
        BY <1>0, <2>7, <4>1 DEF MembershipInv, AtMostTwoMembers
    <3>3. OneOwner'
      <4> SUFFICES ASSUME NEW d \in live'
                   PROVE  \E x \in Members(d)' :
                      role'[x] = "owner" /\ \A y \in Members(d)' \ {x} : role'[y] = "member"
        BY DEF OneOwner
      <4>1. CASE d = target
        <5>1. role[b] = "owner"
          BY <1>0, <2>6 DEF MembershipInv, OneOwner
        <5>2. Members(d)' = {a, b}
          BY <2>7, <4>1
        <5> QED
          BY <2>6, <2>8, <5>1, <5>2
      <4>2. CASE d # target
        BY <1>0, <2>2, <2>7, <2>8, <4>2 DEF MembershipInv, OneOwner, Members
      <4> QED
        BY <4>1, <4>2
    <3>4. PendingInviteFromSoleMember'
      <4> SUFFICES ASSUME NEW j \in Invite, invite'[j].status = "pending"
                   PROVE  /\ invite'[j].coll \in live'
                          /\ {u \in User : member'[u] = invite'[j].coll} = {invite'[j].inviter}
                          /\ \A k \in Invite \ {j} : invite'[k].status = "pending"
                               => invite'[k].coll # invite'[j].coll
        BY DEF PendingInviteFromSoleMember, Members
      <4>1. /\ invite'[j] = invite[j] /\ invite[j].coll \notin {source, target}
        BY <2>11
      <4>2. \A k \in Invite : invite'[k].status = "pending" => invite'[k] = invite[k]
        BY <2>11
      <4>3. /\ invite[j].status = "pending" /\ invite[j].coll \in live
            /\ Members(invite[j].coll) = {invite[j].inviter}
            /\ \A k \in Invite \ {j} : invite[k].status = "pending"
                 => invite[k].coll # invite[j].coll
        BY <1>0, <4>1 DEF MembershipInv, PendingInviteFromSoleMember
      <4>4. PICK d \in live \ {source, target} : d = invite[j].coll
        BY <4>1, <4>3
      <4>5. Members(d)' = Members(d)
        BY <2>7
      <4> QED
        BY <2>2, <4>1, <4>2, <4>3, <4>4, <4>5 DEF Members
    <3> QED
      BY <3>1, <3>2, <3>3, <3>4 DEF MembershipInv
  <2>16. ASSUME NEW q \in Req \ {r} PROVE Facts(q)'
    <3>1. OthersSame(r) /\ Facts(q) /\ spent \subseteq spent' /\ live' \cap spent \subseteq live
      BY <1>0, <2>2, FinishLocals
    <3>2. \A d \in held[q] \cap live : d \in live' /\ items'[d] = items[d]
      BY <1>0, <2>2, <2>6, <2>10 DEF LockExclusion, TypeOK, TablesOK
    <3> QED
      BY <1>0, <2>4, <2>12, <3>1, <3>2, OtherControl, OtherShare, OtherWrite DEF Facts
  <2> QED
    BY <1>0, <2>2, <2>12, <2>13, <2>14, <2>15, <2>16, FinishLocals, FinishFacts,
       FinishExclusion DEF IInv, TypeOK, Facts
<1> QED
  BY <1>1, <1>2

\* Deleting an account, with the cascades.
LEMMA CascadeDeleteInv ==
  ASSUME IInv, NEW r \in Req, CascadeDelete(r)
  PROVE  IInv'
<1>0. /\ TypeOK /\ LockExclusion /\ TableFacts /\ MembershipInv /\ LedgerBalances
      /\ \A q \in Req : Facts(q)
  BY DEF IInv, Facts
<1>1. PICK u, c, emptied :
        u = actor[r] /\ c = member[u] /\ emptied = {c} \cap {d \in live : Others(d, u) = {}}
  OBVIOUS
<1>2. /\ \A d \in emptied : Free(r, d)
      /\ users' = users \ {u} /\ member' = [member EXCEPT ![u] = None]
      /\ live' = live \ emptied /\ UNCHANGED spent /\ Finish(r)
      /\ items' = [d \in Coll |-> IF d \in emptied THEN NoItems ELSE items[d]]
      /\ ledger' = [d \in Coll |-> IF d \in emptied THEN NoItems ELSE ledger[d]]
      /\ IF coll[r] = None THEN role' = [role EXCEPT ![u] = "owner"] ELSE PromoteIn(coll[r], u)
  BY <1>1 DEF CascadeDelete, DropCollections
<1>3. Advisory \in held[r] /\ u \in User /\ None \notin live /\ None \notin Coll /\ live \subseteq Coll
  <2>1. pc[r] = "cascade"
    BY DEF CascadeDelete
  <2> QED
    BY <1>0, <1>1, <2>1 DEF Facts, ControlFacts, LockFacts, UnderShareLock, TypeOK, TablesOK
<1>4. coll[r] = c \/ (coll[r] = None /\ Members(c) = {u})
  BY <1>0, <1>1 DEF CascadeDelete, Facts, ShareFacts
<1>5. /\ member'[u] = None /\ \A v \in User \ {u} : member'[v] = member[v]
      /\ member' \in [User -> Coll \cup {None}]
      /\ \A d \in live : d # c => Members(d)' = Members(d) /\ u \notin Members(d)
      /\ \A d \in live : d = c => Members(d)' = Others(d, u) /\ u \in Members(d)
  BY <1>0, <1>1, <1>2, <1>3 DEF TypeOK, TablesOK, Members, Others
<1>6. /\ role' \in [User -> {"owner", "member"}]
      /\ \A v \in User : c # None /\ v # u /\ member[v] = c => role'[v] = "owner"
      /\ \A v \in User : v # u /\ member[v] # c => role'[v] = role[v]
  <2>1. CASE coll[r] = None
    <3>1. c # None => Members(c) = {u}
      BY <1>4, <2>1
    <3> QED
      BY <1>0, <1>2, <1>3, <2>1, <3>1 DEF TypeOK, TablesOK, Members
  <2>2. CASE coll[r] # None
    <3>1. c = coll[r] /\ c \in Coll /\ u \in Members(c) /\ PromoteIn(c, u)
      BY <1>0, <1>1, <1>2, <1>3, <1>4, <2>2 DEF TypeOK, TablesOK, Members
    <3> QED
      BY <1>0, <3>1, Promotion DEF MembershipInv, Members
  <2> QED
    BY <2>1, <2>2
<1>7. ASSUME NEW i \in Invite
      PROVE  /\ invite'[i] \in InviteRows
             /\ \/ invite'[i].status = "gone"
                \/ /\ invite'[i] = invite[i] /\ invite[i].inviter # u
                   /\ invite[i].coll \notin emptied
  <2> DEFINE gone(j) == invite[j].coll \in emptied \/ invite[j].inviter = u
  <2>1. invite'[i] = Cascaded(invite[i], gone(i))
    BY <1>1 DEF CascadeDelete
  <2>2. /\ invite[i] \in InviteRows /\ InviteRow("gone", None, None, FALSE) \in InviteRows
        /\ InviteRow("gone", None, None, FALSE).status = "gone"
    BY <1>0 DEF TypeOK, TablesOK, InviteRow, InviteRows
  <2> QED
    BY <2>1, <2>2 DEF Cascaded
<1>8. TablesOK'
  <2>1. invite' \in [Invite -> InviteRows]
    <3>1. \E f : invite' = [i \in Invite |-> f[i]]
      <4> DEFINE f == [i \in Invite |-> Cascaded(invite[i],
                          invite[i].coll \in emptied \/ invite[i].inviter = u)]
      <4>1. invite' = [i \in Invite |-> f[i]]
        BY <1>1 DEF CascadeDelete
      <4> QED
        BY <4>1
    <3> QED
      BY <1>7, <3>1
  <2>2. /\ items' \in [Coll -> [Stack -> Nat]] /\ ledger' \in [Coll -> [Stack -> Int]]
    <3>1. NoItems \in [Stack -> Nat] /\ NoItems \in [Stack -> Int]
      BY DEF NoItems
    <3> QED
      BY <1>0, <1>2, <3>1 DEF TypeOK, TablesOK
  <2> QED
    BY <1>0, <1>2, <1>5, <1>6, <2>1, <2>2 DEF TypeOK, TablesOK
<1>9. TableFacts'
  BY <1>0, <1>2, <1>7 DEF TableFacts
<1>10. LedgerBalances'
  BY <1>0, <1>2, <1>3 DEF LedgerBalances
<1>11. MembershipInv'
  <2>1. NoOrphanCollection'
    <3>1. \A d \in live' : Members(d)' # {}
      BY <1>0, <1>1, <1>2, <1>5 DEF MembershipInv, NoOrphanCollection
    <3>2. \A v \in User : member'[v] \in live' \cup {None}
      BY <1>0, <1>1, <1>2, <1>3, <1>5 DEF MembershipInv, NoOrphanCollection, Others, Members
    <3> QED
      BY <3>1, <3>2 DEF NoOrphanCollection
  <2>2. AtMostTwoMembers'
    BY <1>0, <1>5 DEF MembershipInv, AtMostTwoMembers
  <2>3. OneOwner'
    <3> SUFFICES ASSUME NEW d \in live'
                 PROVE  \E x \in Members(d)' :
                    role'[x] = "owner" /\ \A y \in Members(d)' \ {x} : role'[y] = "member"
      BY DEF OneOwner
    <3>1. CASE d = c
      <4>1. Members(d)' = Others(d, u) /\ Others(d, u) # {} /\ d # None /\ u \in Members(d)
        BY <1>1, <1>2, <1>3, <1>5, <3>1
      <4>2. PICK x \in Others(d, u) : TRUE
        BY <4>1
      <4>3. Others(d, u) = {x} /\ x \in User /\ role'[x] = "owner"
        BY <1>0, <1>6, <3>1, <4>1, <4>2 DEF MembershipInv, AtMostTwoMembers, Others, Members
      <4> QED
        BY <4>1, <4>3
    <3>2. CASE d # c
      <4>1. d \in live /\ Members(d)' = Members(d) /\ u \notin Members(d)
        BY <1>2, <1>5, <3>2
      <4>2. \A v \in Members(d) : role'[v] = role[v]
        BY <1>6, <3>2, <4>1 DEF Members
      <4> QED
        BY <1>0, <4>1, <4>2 DEF MembershipInv, OneOwner
    <3> QED
      BY <3>1, <3>2
  <2>4. PendingInviteFromSoleMember'
    <3> SUFFICES ASSUME NEW j \in Invite, invite'[j].status = "pending"
                 PROVE  /\ invite'[j].coll \in live'
                        /\ {v \in User : member'[v] = invite'[j].coll} = {invite'[j].inviter}
                        /\ \A k \in Invite \ {j} : invite'[k].status = "pending"
                             => invite'[k].coll # invite'[j].coll
      BY DEF PendingInviteFromSoleMember, Members
    <3>1. \A k \in Invite : invite'[k].status = "pending" => invite'[k] = invite[k]
      BY <1>7
    <3>2. /\ invite'[j] = invite[j] /\ invite[j].inviter # u /\ invite[j].coll \notin emptied
      BY <1>7
    <3>3. /\ invite[j].coll \in live /\ Members(invite[j].coll) = {invite[j].inviter}
          /\ \A k \in Invite \ {j} : invite[k].status = "pending"
               => invite[k].coll # invite[j].coll
      BY <1>0, <3>2 DEF MembershipInv, PendingInviteFromSoleMember
    <3>4. invite[j].coll # c
      BY <1>1, <1>3, <3>2, <3>3 DEF Members
    <3> QED
      BY <1>2, <1>5, <3>1, <3>2, <3>3, <3>4 DEF Members
  <2> QED
    BY <2>1, <2>2, <2>3, <2>4 DEF MembershipInv
<1>12. ASSUME NEW q \in Req \ {r} PROVE Facts(q)'
  <2>1. OthersSame(r) /\ Facts(q) /\ spent \subseteq spent' /\ live' \cap spent \subseteq live
    BY <1>0, <1>2, FinishLocals
  <2>2. \A d \in held[q] \cap live : d \in live' /\ items'[d] = items[d]
    BY <1>2, <1>3 DEF Free
  <2> QED
    BY <1>0, <1>3, <1>8, <2>1, <2>2, OtherControl, OtherShare, OtherWrite DEF Facts
<1> QED
  BY <1>0, <1>2, <1>8, <1>9, <1>10, <1>11, <1>12, FinishLocals, FinishFacts,
     FinishExclusion DEF IInv, TypeOK, Facts

(***************************************************************************)
(* The theorems.                                                           *)
(***************************************************************************)

\* Every step of the system, and every step in which it does nothing, keeps the
\* inductive invariant.
LEMMA NextInv == IInv /\ [Next]_vars => IInv'
<1> SUFFICES ASSUME IInv, [Next]_vars PROVE IInv'
  OBVIOUS
<1>1. CASE \E r \in Req, u \in User, o \in Ops, i \in Invite \cup {None}, n \in 0 .. MaxRows :
             Begin(r, u, o, i, n)
  BY <1>1, BeginInv
<1>2. ASSUME NEW r \in Req, Handle(r) PROVE IInv'
  BY <1>2, PendingInv, MarkExpiredInv, EnsureFastInv, EnsureLockUserInv, EnsureProvisionInv,
     LockCollectionInv, MutateInInv, AuditInv, CommitWriteInv, LockAdvisoryInv,
     CurrentCollectionInv, InviteInsertInv, FindInviteInv, AcceptLockInv, AcceptInv,
     LeaveInv, DeleteUserRowInv, CascadeDeleteInv DEF Handle
<1>3. CASE \E i \in Invite : Expire(i)
  BY <1>3, ExpireInv
<1>4. CASE \E r \in Req : Abandon(r)
  BY <1>4, FailInv DEF Abandon
<1>5. CASE \E w, d \in Req : BreakDeadlock(w, d)
  BY <1>5, FailInv DEF BreakDeadlock
<1>6. CASE UNCHANGED vars
  <2>1. UNCHANGED tables /\ UNCHANGED locals /\ UNCHANGED <<held, keyShare, pc>>
    BY <1>6 DEF vars
  <2>2. RequestsOK' /\ LockExclusion'
    BY <2>1 DEF IInv, TypeOK, RequestsOK, LockExclusion, locals
  <2>3. ASSUME NEW q \in Req PROVE Facts(q)'
    <3>1. Facts(q) /\ UNCHANGED <<users, live, spent, member, role, items, ledger, invite>>
      BY <2>1 DEF IInv, Facts, tables
    <3>2. ControlFacts(q)' /\ LockFacts(q)' /\ ShareFacts(q)'
      BY <2>1, <3>1 DEF Facts, ControlFacts, LockFacts, ShareFacts, UnderShareLock, Members, locals
    <3>3. WriteFacts(q)'
      BY <2>1, <3>1 DEF Facts, WriteFacts, Logged, Seen, locals
    <3> QED
      BY <3>2, <3>3 DEF Facts
  <2> QED
    BY <2>1, <2>2, <2>3, SameTables DEF IInv, TypeOK, Facts
<1> QED
  BY <1>1, <1>2, <1>3, <1>4, <1>5, <1>6 DEF Next

\* The invariant holds in every reachable state, for any number of users,
\* requests, collections, invites and stacks.
THEOREM InvariantHolds == Spec => []IInv
BY InitInv, NextInv, PTL DEF Spec

\* Every variable keeps its type (CollectionStore).
THEOREM TypeCorrect == Spec => []TypeOK
<1>1. IInv => TypeOK
  BY DEF IInv
<1> QED
  BY <1>1, InvariantHolds, PTL

\* Memberships are sound, whatever overlaps (share.rs, membership.rs, core.rs).
THEOREM MembershipSound == Spec => []MembershipInv
<1>1. IInv => MembershipInv
  BY DEF IInv
<1> QED
  BY <1>1, InvariantHolds, PTL

\* No collection is orphaned and nobody is a member of a deleted one, whatever
\* accepts, leaves and account deletions overlap (share.rs, core.rs).
THEOREM NoOrphans == Spec => []NoOrphanCollection
<1>1. IInv => NoOrphanCollection
  BY DEF IInv, MembershipInv
<1> QED
  BY <1>1, InvariantHolds, PTL

\* A collection never gets a third member (share.rs accept).
THEOREM TwoMembers == Spec => []AtMostTwoMembers
<1>1. IInv => AtMostTwoMembers
  BY DEF IInv, MembershipInv
<1> QED
  BY <1>1, InvariantHolds, PTL

\* A collection always has exactly one owner (share.rs leave, core.rs delete_user).
THEOREM ExactlyOneOwner == Spec => []OneOwner
<1>1. IInv => OneOwner
  BY DEF IInv, MembershipInv
<1> QED
  BY <1>1, InvariantHolds, PTL

\* A pending invite is the only one of a collection whose only member issued it
\* (share.rs invite, revoke, accept, leave).
THEOREM InvitesAreFresh == Spec => []PendingInviteFromSoleMember
<1>1. IInv => PendingInviteFromSoleMember
  BY DEF IInv, MembershipInv
<1> QED
  BY <1>1, InvariantHolds, PTL

\* The audit trail adds up to the quantities, so no concurrent write is lost or
\* applied twice (service.rs mutate_in).
THEOREM LedgerAddsUp == Spec => []LedgerBalances
<1>1. IInv => LedgerBalances
  BY DEF IInv
<1> QED
  BY <1>1, InvariantHolds, PTL

(***************************************************************************)
(* On whose behalf a write and a leave act: the second invariant.          *)
(***************************************************************************)

\* A writer q at its audit row, or with one written, is still a member of the
\* collection it writes, and the account q provisions for still exists.
StillMember(q) ==
  /\ IsMember(q) /\ (keyShare[q] \/ (pc[q] = "audit" /\ actor[q] \in users'))
       => member'[actor[q]] = coll[q]
  /\ pc[q] = "provision" => who[q] \in users'

\* What a step of r has to leave alone for the other writers, and to establish.
LEMMA WriterStep ==
  ASSUME IInv, IInv', WInv, NEW r \in Req, OthersSame(r), users' \subseteq users,
         \A q \in Req \ {r} : StillMember(q),
         \A q \in Req \ {r} : keyShare[q] => actor[q] \notin held'[r],
         \A q \in Req \ {r} : keyShare'[r] => actor'[r] \notin held[q],
         WriterFacts(r)', AccountFacts'
  PROVE  WInv'
<1>1. KeyShareExclusion'
  BY DEF KeyShareExclusion, WInv, OthersSame
<1>2. ASSUME NEW q \in Req \ {r} PROVE WriterFacts(q)'
  <2>0. /\ keyShare'[q] = keyShare[q] /\ pc'[q] = pc[q] /\ op'[q] = op[q]
        /\ actor'[q] = actor[q] /\ coll'[q] = coll[q] /\ held'[q] = held[q]
        /\ buf'[q] = buf[q] /\ who'[q] = who[q]
    BY DEF OthersSame
  <2>1. WriterFacts(q) /\ StillMember(q)
    BY DEF WInv
  <2>2. /\ keyShare[q] => IsMember(q)'
        /\ pc[q] = "audit" /\ actor[q] \in users' => IsMember(q)'
    BY <2>0, <2>1 DEF WriterFacts, StillMember, IsMember
  <2>3. ASSUME pc[q] \in {"row", "commit"}, op[q] \in WriteOps, ~keyShare[q], NEW s \in Stack
        PROVE  Seen(q, s)' = items'[coll'[q]][s]
    <3>1. coll[q] \in Coll /\ items[coll[q]][s] \in Int /\ items'[coll[q]][s] \in Int
      BY <2>3 DEF IInv, ControlFacts, TypeOK, TablesOK
    <3>2. /\ Logged(q, s) = Seen(q, s) - items[coll[q]][s]
          /\ Logged(q, s)' = Seen(q, s)' - items'[coll'[q]][s]
      BY <2>0, <2>3 DEF IInv, WriteFacts
    <3>3. Logged(q, s)' = Logged(q, s) /\ Seen(q, s) = items[coll[q]][s]
      BY <2>0, <2>1, <2>3 DEF Logged, WriterFacts
    <3>4. Seen(q, s)' \in Int
      BY <2>0, <3>1 DEF Seen, IInv, TypeOK, RequestsOK
    <3> QED
      BY <2>0, <3>1, <3>2, <3>3, <3>4
  <2> QED
    BY <2>0, <2>1, <2>2, <2>3 DEF WriterFacts, StillMember
<1> QED
  BY <1>1, <1>2 DEF WInv

\* Nothing is claimed of a request that holds no audit row and is not writing.
LEMMA NoWriter ==
  ASSUME NEW r \in Req, keyShare'[r] = FALSE,
         pc'[r] \notin {"row", "audit", "commit", "provision"}
  PROVE  WriterFacts(r)'
BY DEF WriterFacts

\* A step that ends the request, or ends its transaction and goes on.
LEMMA WriterEnd ==
  ASSUME IInv, IInv', WInv, NEW r \in Req, OthersSame(r), users' \subseteq users,
         \A q \in Req \ {r} : StillMember(q), AccountFacts',
         held'[r] = {}, keyShare'[r] = FALSE, pc'[r] \notin {"row", "audit", "commit", "provision"}
  PROVE  WInv'
BY NoWriter, WriterStep

LEMMA WriterFinish ==
  ASSUME IInv, IInv', WInv, NEW r \in Req, Finish(r), users' \subseteq users,
         \A q \in Req \ {r} : StillMember(q), AccountFacts'
  PROVE  WInv'
<1>1. keyShare'[r] = FALSE
  BY DEF Finish, Release, IInv, TypeOK, RequestsOK
<1> QED
  BY <1>1, FinishLocals, WriterEnd DEF IInv

\* Memberships, roles and accounts are untouched by most steps.
LEMMA SameMembers ==
  ASSUME WInv, UNCHANGED <<users, member, role>>
  PROVE  AccountFacts' /\ users' \subseteq users /\ \A q \in Req : StillMember(q)
BY DEF WInv, AccountFacts, StillMember, IsMember, WriterFacts

LEMMA WriterFail ==
  ASSUME IInv, IInv', WInv, NEW r \in Req, Fail(r)
  PROVE  WInv'
<1>1. Finish(r) /\ UNCHANGED <<users, member, role>>
  BY DEF Fail, tables
<1> QED
  BY <1>1, SameMembers, WriterFinish

\* A request that has not reached its collection row has no audit row.
LEMMA NotYetWriting ==
  ASSUME WInv, NEW r \in Req, pc[r] \notin {"row", "audit", "commit"}
  PROVE  keyShare[r] # TRUE
BY DEF WInv, WriterFacts

\* The end of membership::ensure.
LEMMA WriterEnsured ==
  ASSUME IInv, IInv', WInv, NEW r \in Req, NEW c \in Coll, Ensured(r, c),
         users' \subseteq users, \A q \in Req \ {r} : StillMember(q), AccountFacts'
  PROVE  WInv'
<1>0. TypeOK
  BY DEF IInv
<1>1. CASE Answered(r)
  BY <1>1, WriterFinish DEF Answered
<1>2. CASE ~Answered(r)
  <2>1. Release(r) /\ pc'[r] \in {"ensure", "lockColl", "advisory"}
    BY <1>0, <1>2 DEF Ensured, CallerNext, StartWrite, StartShare, Goto, TypeOK, RequestsOK
  <2>2. held'[r] = {} /\ keyShare'[r] = FALSE
    BY <1>0, <2>1 DEF Release, TypeOK, RequestsOK
  <2>3. OthersSame(r)
    BY <1>0, <1>2 DEF Ensured, CallerNext, StartWrite, StartShare, Release, Goto, TypeOK,
                      RequestsOK, OthersSame
  <2> QED
    BY <2>1, <2>2, <2>3, WriterEnd
<1> QED
  BY <1>1, <1>2

\* Provisioning gives a collection to somebody who has none, hence to no writer.
LEMMA WriterProvision ==
  ASSUME IInv, IInv', WInv, NEW r \in Req, EnsureProvision(r)
  PROVE  WInv'
<1>0. TypeOK
  BY DEF IInv
<1>1. CASE member[who[r]] # None
  <2>1. who[r] \in User /\ member[who[r]] \in Coll
    BY <1>0, <1>1 DEF EnsureProvision, IInv, ControlFacts, TypeOK, TablesOK
  <2> QED
    BY <1>1, <2>1, SameMembers, WriterEnsured DEF EnsureProvision, tables
<1>2. CASE member[who[r]] = None
  <2>1. PICK c \in Coll \ spent :
          /\ member' = [member EXCEPT ![who[r]] = c]
          /\ role' = [role EXCEPT ![who[r]] = "owner"]
          /\ Ensured(r, c)
    BY <1>2 DEF EnsureProvision
  <2>2. users' = users
    BY <1>2 DEF EnsureProvision
  <2>3. AccountFacts'
    <3>1. who[r] \in users
      BY DEF EnsureProvision, WInv, WriterFacts
    <3> QED
      BY <1>0, <2>1, <2>2, <3>1 DEF WInv, AccountFacts, TypeOK, TablesOK
  <2>4. ASSUME NEW q \in Req \ {r} PROVE StillMember(q)
    <3>1. SUFFICES ASSUME IsMember(q), keyShare[q] \/ pc[q] = "audit"
                   PROVE  member'[actor[q]] = coll[q]
      BY <2>2 DEF StillMember, WInv, WriterFacts
    <3>2. pc[q] \in {"row", "audit", "commit"} /\ op[q] \in WriteOps
      BY <3>1 DEF WInv, WriterFacts, IInv, ControlFacts
    <3>3. actor[q] \in User /\ coll[q] \in Coll
      BY <1>0, <3>2 DEF IInv, ControlFacts, TypeOK, TablesOK
    <3>4. actor[q] # who[r]
      BY <1>2, <3>1, <3>3, NoneAssumption DEF IsMember
    <3> QED
      BY <1>0, <2>1, <3>1, <3>3, <3>4 DEF IsMember, TypeOK, TablesOK
  <2> QED
    BY <2>1, <2>2, <2>3, <2>4, WriterEnsured
<1> QED
  BY <1>1, <1>2

\* A writer's own membership is not moved by somebody who holds its collection.
LEMMA LockedMember ==
  ASSUME IInv, WInv, NEW r \in Req, NEW q \in Req \ {r},
         actor[r] \in User, member[actor[r]] \in held[r],
         \A u \in User \ {actor[r]} : member'[u] = member[u], users' = users
  PROVE  StillMember(q)
<1>1. SUFFICES ASSUME IsMember(q), keyShare[q] \/ pc[q] = "audit"
               PROVE  member'[actor[q]] = coll[q]
  BY DEF StillMember, WInv, WriterFacts
<1>2. pc[q] \in {"row", "audit", "commit"} /\ op[q] \in WriteOps
  BY <1>1 DEF WInv, WriterFacts, IInv, ControlFacts
<1>3. actor[q] \in User /\ coll[q] \in Coll
  BY <1>2 DEF IInv, ControlFacts, TypeOK, TablesOK
<1>4. coll[q] \in live
  BY <1>1, <1>3 DEF IsMember, IInv, MembershipInv, NoOrphanCollection
<1>5. coll[q] \in held[q]
  BY <1>2, <1>4 DEF IInv, WriteFacts
<1>6. actor[q] # actor[r]
  BY <1>1, <1>5 DEF IsMember, IInv, LockExclusion
<1> QED
  BY <1>1, <1>3, <1>6 DEF IsMember

\* leave() holds the collection it leaves.
LEMMA WriterLeave ==
  ASSUME IInv, IInv', WInv, NEW r \in Req, Leave(r)
  PROVE  WInv'
<1>0. TypeOK
  BY DEF IInv
<1>1. CASE Fail(r)
  BY <1>1, WriterFail
<1>2. CASE ~Fail(r)
  <2> DEFINE u == actor[r]
  <2>1. /\ u \in User /\ coll[r] = member[u] /\ coll[r] \in held[r]
        /\ pc[r] = "commit" /\ op[r] = "leave"
    BY DEF Leave, IInv, ControlFacts, ShareFacts, WInv, WriterFacts
  <2>2. Finish(r) /\ users' = users
    BY <1>2 DEF Leave
  <2>3. PICK c \in Coll : member' = [member EXCEPT ![u] = c]
    BY <1>2 DEF Leave
  <2>4. /\ \A v \in User \ {u} : member'[v] = member[v]
        /\ member'[u] \in Coll
    BY <1>0, <2>1, <2>3 DEF TypeOK, TablesOK
  <2>5. \A v \in User \ {u} : role'[v] \in {role[v], "owner"}
    <3>1. PromoteIn(coll[r], u)
      BY <1>2 DEF Leave
    <3> QED
      BY <1>0, <2>1, <3>1 DEF PromoteIn, TypeOK, TablesOK, Others, Members
  <2>6. AccountFacts'
    <3>1. member[u] # None /\ u \in users
      BY <1>0, <2>1, NoneAssumption DEF Leave, IInv, ControlFacts, TypeOK, TablesOK, WInv,
                                        AccountFacts
    <3> QED
      BY <1>0, <2>2, <2>4, <2>5, <3>1, NoneAssumption DEF WInv, AccountFacts
  <2> QED
    BY <2>1, <2>2, <2>4, <2>6, LockedMember, WriterFinish
<1> QED
  BY <1>1, <1>2

\* accept() holds both collections.
LEMMA WriterAccept ==
  ASSUME IInv, IInv', WInv, NEW r \in Req, Accept(r)
  PROVE  WInv'
<1>0. TypeOK
  BY DEF IInv
<1>1. CASE Fail(r)
  BY <1>1, WriterFail
<1>2. CASE ~Fail(r)
  <2> DEFINE u == actor[r]
             target == invite[token[r]].coll
  <2>1. /\ u \in User /\ coll[r] = member[u] /\ pc[r] = "lockBoth" /\ coll[r] \in Coll
    BY <1>0 DEF Accept, IInv, ControlFacts, ShareFacts, TypeOK, TablesOK
  <2>2. coll[r] \in held[r]
    <3>1. coll[r] \in live
      BY <2>1 DEF IInv, MembershipInv, NoOrphanCollection
    <3> QED
      BY <3>1 DEF Accept
  <2>3. Finish(r) /\ users' = users
    BY <1>2 DEF Accept
  <2>4. /\ member' = [member EXCEPT ![u] = target] /\ target \in Coll
        /\ role' = [role EXCEPT ![u] = "member"]
    BY <1>2, <2>1 DEF Accept, IInv, ShareFacts, ControlFacts, TokenOps, TableFacts
  <2>5. \A v \in User \ {u} : member'[v] = member[v] /\ role'[v] = role[v]
    BY <1>0, <2>1, <2>4 DEF TypeOK, TablesOK
  <2>6. AccountFacts'
    BY <1>0, <2>1, <2>3, <2>4, <2>5, NoneAssumption
       DEF WInv, AccountFacts, TypeOK, TablesOK
  <2> QED
    BY <2>1, <2>2, <2>3, <2>5, <2>6, LockedMember, WriterFinish
<1> QED
  BY <1>1, <1>2

\* The deletion of an account holds the row that audit rows refer to.
LEMMA WriterCascade ==
  ASSUME IInv, IInv', WInv, NEW r \in Req, CascadeDelete(r)
  PROVE  WInv'
<1>0. TypeOK
  BY DEF IInv
<1> DEFINE u == actor[r]
<1>1. /\ u \in User /\ u \in held[r] /\ Finish(r) /\ pc[r] = "cascade"
      /\ users' = users \ {u}
  BY DEF CascadeDelete, IInv, ControlFacts, LockFacts
<1>2. member' = [member EXCEPT ![u] = None]
  BY DEF CascadeDelete
<1>3. \A v \in User \ {u} : member'[v] = member[v]
  BY <1>0, <1>1, <1>2 DEF TypeOK, TablesOK
<1>4. role'[u] = "owner" /\ \A v \in User \ {u} : role'[v] \in {role[v], "owner"}
  <2>1. role' = [role EXCEPT ![u] = "owner"] \/ PromoteIn(coll[r], u)
    BY DEF CascadeDelete
  <2> QED
    BY <1>0, <1>1, <2>1 DEF PromoteIn, TypeOK, TablesOK, Others, Members
<1>5. AccountFacts'
  <2>1. member'[u] = None
    BY <1>0, <1>1, <1>2 DEF TypeOK, TablesOK
  <2> QED
    BY <1>0, <1>1, <1>3, <1>4, <2>1 DEF WInv, AccountFacts
<1>6. ASSUME NEW q \in Req \ {r} PROVE StillMember(q)
  <2>0. pc[q] = "provision" => who[q] \in users'
    BY <1>1 DEF WInv, WriterFacts, IInv, LockFacts, LockExclusion
  <2>1. SUFFICES ASSUME IsMember(q), keyShare[q] \/ (pc[q] = "audit" /\ actor[q] \in users')
                 PROVE  member'[actor[q]] = coll[q]
    BY <2>0 DEF StillMember
  <2>2. actor[q] # u
    BY <1>1, <2>1 DEF WInv, KeyShareExclusion
  <2>3. actor[q] \in User
    BY <2>1 DEF WInv, WriterFacts, IInv, ControlFacts
  <2> QED
    BY <1>3, <2>1, <2>2, <2>3 DEF IsMember
<1> QED
  BY <1>1, <1>5, <1>6, WriterFinish

\* A step that touches no account and locks no account row.
LEMMA WriterLocal ==
  ASSUME IInv, IInv', WInv, NEW r \in Req, OthersSame(r), UNCHANGED <<users, member, role>>,
         held'[r] \cap User \subseteq held[r],
         keyShare'[r] = TRUE => keyShare[r] /\ actor'[r] = actor[r],
         WriterFacts(r)'
  PROVE  WInv'
<1>1. ASSUME NEW q \in Req \ {r}, keyShare[q] PROVE actor[q] \notin held'[r]
  <2>1. actor[q] \in User
    BY <1>1 DEF WInv, WriterFacts, IInv, ControlFacts
  <2> QED
    BY <1>1, <2>1 DEF WInv, KeyShareExclusion
<1>2. ASSUME NEW q \in Req \ {r}, keyShare'[r] PROVE actor'[r] \notin held[q]
  <2>1. keyShare'[r] = TRUE
    BY <1>2 DEF IInv, TypeOK, RequestsOK
  <2> QED
    BY <2>1 DEF WInv, KeyShareExclusion
<1> QED
  BY <1>1, <1>2, SameMembers, WriterStep

\* Between two statements of a handler that is not writing yet.
LEMMA WriterMoves ==
  ASSUME IInv, IInv', WInv, NEW r \in Req, OthersSame(r), UNCHANGED <<users, member, role>>,
         held'[r] \cap User \subseteq held[r], keyShare' = keyShare,
         pc[r] \notin {"row", "audit", "commit"},
         pc'[r] \notin {"row", "audit", "commit", "provision"}
  PROVE  WInv'
<1>1. keyShare[r] = FALSE
  BY NotYetWriting DEF IInv, TypeOK, RequestsOK
<1> QED
  BY <1>1, NoWriter, WriterLocal

LEMMA WriterBegin ==
  ASSUME IInv, IInv', WInv, NEW r \in Req, NEW u \in User, NEW o \in Ops,
         NEW i \in Invite \cup {None}, NEW n \in 0 .. MaxRows, Begin(r, u, o, i, n)
  PROVE  WInv'
<1>1. /\ OthersSame(r) /\ held' = held /\ keyShare' = keyShare
      /\ UNCHANGED <<users, member, role>>
  BY DEF IInv, Begin, TypeOK, RequestsOK, Goto, OthersSame, tables
<1>2. pc[r] = "idle" /\ pc'[r] \in {"pending", "advisory", "ensure"}
  BY DEF IInv, Begin, TypeOK, RequestsOK, Goto
<1> QED
  BY <1>1, <1>2, WriterMoves

LEMMA WriterPending ==
  ASSUME IInv, IInv', WInv, NEW r \in Req, pending(r)
  PROVE  WInv'
<1>1. CASE Fail(r)
  BY <1>1, WriterFail
<1>2. CASE ~Fail(r)
  <2>1. /\ OthersSame(r) /\ held' = held /\ keyShare' = keyShare
        /\ UNCHANGED <<users, member, role>>
    BY <1>2 DEF IInv, pending, TypeOK, RequestsOK, Goto, OthersSame, tables
  <2>2. pc[r] = "pending" /\ pc'[r] \in {"expire", "ensure"}
    BY <1>2 DEF IInv, pending, TypeOK, RequestsOK, Goto
  <2> QED
    BY <2>1, <2>2, WriterMoves
<1> QED
  BY <1>1, <1>2

LEMMA WriterFast ==
  ASSUME IInv, IInv', WInv, NEW r \in Req, EnsureFast(r)
  PROVE  WInv'
<1>1. UNCHANGED <<users, member, role>>
  BY DEF EnsureFast, tables
<1>2. CASE member[who[r]] # None /\ Ensured(r, member[who[r]])
  <2>1. member[who[r]] \in Coll
    BY <1>2 DEF EnsureFast, IInv, ControlFacts, TypeOK, TablesOK
  <2> QED
    BY <1>1, <1>2, <2>1, SameMembers, WriterEnsured
<1>3. CASE ~(member[who[r]] # None /\ Ensured(r, member[who[r]]))
  <2>1. OthersSame(r) /\ held' = held /\ keyShare' = keyShare
    BY <1>3 DEF IInv, EnsureFast, TypeOK, RequestsOK, Goto, OthersSame, locals
  <2>2. pc[r] = "ensure" /\ pc'[r] = "userLock"
    BY <1>3 DEF IInv, EnsureFast, TypeOK, RequestsOK, Goto
  <2> QED
    BY <1>1, <2>1, <2>2, WriterMoves
<1> QED
  BY <1>2, <1>3

\* Taking an account row FOR UPDATE waits for the audit rows that refer to it.
LEMMA WriterTakesUser ==
  ASSUME IInv, IInv', WInv, NEW r \in Req, NEW u \in User, UserFree(r, u), OthersSame(r),
         UNCHANGED <<users, member, role>>, held'[r] \subseteq held[r] \cup {u},
         keyShare' = keyShare, pc[r] \notin {"row", "audit", "commit"},
         pc'[r] \notin {"row", "audit", "commit"},
         pc'[r] = "provision" => who'[r] \in users
  PROVE  WInv'
<1>1. keyShare'[r] = FALSE
  BY NotYetWriting DEF IInv, TypeOK, RequestsOK
<1>2. ASSUME NEW q \in Req \ {r}, keyShare[q] PROVE actor[q] \notin held'[r]
  BY <1>2 DEF UserFree, Shares, WInv, KeyShareExclusion
<1>3. WriterFacts(r)'
  BY <1>1 DEF WriterFacts
<1> QED
  BY <1>1, <1>2, <1>3, SameMembers, WriterStep

LEMMA WriterLockUser ==
  ASSUME IInv, IInv', WInv, NEW r \in Req, EnsureLockUser(r)
  PROVE  WInv'
<1>1. CASE Fail(r)
  BY <1>1, WriterFail
<1>2. CASE ~Fail(r)
  <2>1. /\ OthersSame(r) /\ held'[r] = held[r] \cup {who[r]} /\ keyShare' = keyShare
        /\ UNCHANGED <<users, member, role>>
    BY <1>2 DEF IInv, EnsureLockUser, TypeOK, RequestsOK, Goto, OthersSame, locals, tables
  <2>2. /\ pc[r] = "userLock" /\ pc'[r] = "provision" /\ UserFree(r, who[r])
        /\ who[r] \in User /\ who'[r] = who[r] /\ who[r] \in users
    BY <1>2 DEF IInv, EnsureLockUser, TypeOK, RequestsOK, Goto, ControlFacts, locals
  <2> QED
    BY <2>1, <2>2, WriterTakesUser
<1> QED
  BY <1>1, <1>2

LEMMA WriterDeleteRow ==
  ASSUME IInv, IInv', WInv, NEW r \in Req, DeleteUserRow(r)
  PROVE  WInv'
<1>1. /\ OthersSame(r) /\ held'[r] = held[r] \cup {actor[r]} /\ keyShare' = keyShare
      /\ UNCHANGED <<users, member, role>>
  BY DEF IInv, DeleteUserRow, TypeOK, RequestsOK, Goto, OthersSame, locals, tables
<1>2. /\ pc[r] = "deleteUser" /\ pc'[r] = "cascade" /\ UserFree(r, actor[r])
      /\ actor[r] \in User
  BY DEF IInv, DeleteUserRow, TypeOK, RequestsOK, Goto, ControlFacts
<1> QED
  BY <1>1, <1>2, WriterTakesUser

\* A write starts from the row as it is; invite and leave hold the row they use.
LEMMA WriterLockCollection ==
  ASSUME IInv, IInv', WInv, NEW r \in Req, LockCollection(r)
  PROVE  WInv'
<1>0. TypeOK
  BY DEF IInv
<1>1. /\ OthersSame(r) /\ held'[r] = held[r] \cup ({coll[r]} \cap live)
      /\ keyShare' = keyShare /\ buf' = buf /\ coll' = coll /\ op' = op
      /\ UNCHANGED <<users, member, role, items>>
  BY <1>0 DEF LockCollection, Locked, TypeOK, RequestsOK, Goto, OthersSame, locals, tables
<1>2. /\ pc[r] = "lockColl" /\ pc'[r] \in {"row", "commit"} /\ coll[r] \in Coll
      /\ (pc'[r] = "row" <=> op[r] \in WriteOps)
  BY <1>0 DEF IInv, LockCollection, TypeOK, TablesOK, RequestsOK, Goto, ControlFacts
<1>3. keyShare[r] = FALSE /\ buf[r] = Untouched
  BY <1>0, <1>2, NotYetWriting DEF TypeOK, RequestsOK, IInv, WriteFacts
<1>4. op[r] = "leave" => coll[r] \in held'[r]
  <2>1. op[r] = "leave" => coll[r] = member[actor[r]] /\ actor[r] \in User
    BY <1>2 DEF IInv, ShareFacts, ControlFacts
  <2> QED
    BY <1>1, <1>2, <2>1, NoneAssumption DEF IInv, MembershipInv, NoOrphanCollection
<1>5. WriterFacts(r)'
  BY <1>1, <1>2, <1>3, <1>4 DEF WriterFacts, Seen, Untouched, WriteOps
<1>6. held'[r] \cap User \subseteq held[r]
  BY <1>1, <1>2, LockAssumption
<1> QED
  BY <1>1, <1>3, <1>5, <1>6, WriterLocal

\* An item that leaves the quantity alone is not audited, one that changes it is.
LEMMA WriterMutates ==
  ASSUME IInv, IInv', WInv, NEW r \in Req, mutate_in(r)
  PROVE  WInv'
<1>0. TypeOK
  BY DEF IInv
<1>1. CASE Fail(r)
  BY <1>1, WriterFail
<1>2. CASE ~Fail(r)
  <2>1. PICK s \in Stack : \E after \in Requested(op[r], Seen(r, s)) :
          /\ buf' = [buf EXCEPT ![r][s] =
                  [qty |-> after, delta |-> Logged(r, s) + (after - Seen(r, s))]]
          /\ Goto(r, IF after # Seen(r, s) THEN "audit" ELSE AfterRow(r, todo[r] - 1))
    BY <1>2 DEF mutate_in
  <2>2. PICK after \in Requested(op[r], Seen(r, s)) :
          /\ buf' = [buf EXCEPT ![r][s] =
                  [qty |-> after, delta |-> Logged(r, s) + (after - Seen(r, s))]]
          /\ Goto(r, IF after # Seen(r, s) THEN "audit" ELSE AfterRow(r, todo[r] - 1))
    BY <2>1
  <2>3. /\ pc[r] = "row" /\ op[r] \in WriteOps /\ IsMember(r)
        /\ OthersSame(r) /\ held' = held /\ keyShare' = keyShare /\ coll' = coll
        /\ op' = op /\ actor' = actor /\ UNCHANGED <<users, member, role, items>>
    BY <1>0, <1>2, <2>2 DEF IInv, mutate_in, ControlFacts, TypeOK, RequestsOK, Goto,
                            OthersSame, tables
  <2>4. /\ pc'[r] \in {"audit", "row", "commit"}
        /\ pc'[r] # "audit" => after = Seen(r, s)
    BY <1>0, <2>2 DEF TypeOK, RequestsOK, Goto, AfterRow
  <2>5. ASSUME pc'[r] # "audit", ~keyShare[r], NEW t \in Stack
        PROVE  Seen(r, t)' = items[coll[r]][t]
    <3>1. Seen(r, t) = items[coll[r]][t]
      BY <2>3, <2>5 DEF WInv, WriterFacts
    <3>2. Seen(r, t) \in Nat /\ Logged(r, t) \in Int /\ Seen(r, s) \in Nat
          /\ Logged(r, s) \in Int
      <4>1. coll[r] \in Coll
        BY <1>0, <2>3 DEF IInv, ControlFacts, TypeOK, TablesOK
      <4> QED
        BY <1>0, <4>1 DEF Seen, Logged, TypeOK, TablesOK, RequestsOK
    <3>3. CASE t = s
      <4> DEFINE new == [qty |-> after, delta |-> Logged(r, s) + (after - Seen(r, s))]
      <4>1. buf'[r][t] = new
        BY <1>0, <2>2, <3>3 DEF TypeOK, RequestsOK
      <4>2. new # None
        <5>1. new \in [qty : Nat, delta : Int]
          BY <2>4, <2>5, <3>2
        <5> QED
          BY <5>1, NoneAssumption
      <4>3. new.qty = after
        OBVIOUS
      <4> HIDE DEF new
      <4> QED
        BY <2>4, <2>5, <3>1, <3>3, <4>1, <4>2, <4>3 DEF Seen
    <3>4. CASE t # s
      <4>1. buf'[r][t] = buf[r][t]
        BY <1>0, <2>2, <3>4 DEF TypeOK, RequestsOK
      <4> QED
        BY <2>3, <3>1, <4>1 DEF Seen
    <3> QED
      BY <3>3, <3>4
  <2>6. WriterFacts(r)'
    BY <2>3, <2>4, <2>5 DEF WriterFacts, IsMember, WriteOps
  <2> QED
    BY <2>3, <2>6, WriterLocal
<1> QED
  BY <1>1, <1>2

\* The audit row finds the account, which holds off its deletion from now on.
LEMMA WriterAudits ==
  ASSUME IInv, IInv', WInv, NEW r \in Req, Audit(r)
  PROVE  WInv'
<1>0. TypeOK
  BY DEF IInv
<1>1. CASE Fail(r)
  BY <1>1, WriterFail
<1>2. CASE ~Fail(r)
  <2>1. /\ pc[r] = "audit" /\ op[r] \in WriteOps /\ actor[r] \in users /\ Free(r, actor[r])
        /\ OthersSame(r) /\ held' = held /\ keyShare'[r] = TRUE
        /\ pc'[r] \in {"row", "commit"}
        /\ UNCHANGED <<users, member, role>> /\ coll' = coll /\ actor' = actor /\ op' = op
    BY <1>0, <1>2 DEF IInv, Audit, AfterRow, ControlFacts, TypeOK, RequestsOK, Goto,
                      OthersSame, locals, tables
  <2>2. IsMember(r)
    BY <2>1 DEF WInv, WriterFacts
  <2>3. WriterFacts(r)'
    BY <2>1, <2>2 DEF WriterFacts, IsMember, WriteOps
  <2>4. ASSUME NEW q \in Req \ {r}, keyShare[q] PROVE actor[q] \notin held'[r]
    BY <2>1, <2>4 DEF WInv, KeyShareExclusion
  <2>5. ASSUME NEW q \in Req \ {r} PROVE actor'[r] \notin held[q]
    BY <2>1 DEF Free
  <2> QED
    BY <2>1, <2>3, <2>4, <2>5, SameMembers, WriterStep
<1> QED
  BY <1>1, <1>2

LEMMA WriterCommits ==
  ASSUME IInv, IInv', WInv, NEW r \in Req, CommitWrite(r)
  PROVE  WInv'
<1>0. TypeOK /\ UNCHANGED <<users, member, role>>
  BY DEF IInv, CommitWrite
<1>1. CASE Finish(r)
  BY <1>0, <1>1, SameMembers, WriterFinish
<1>2. CASE ~Finish(r)
  <2>1. OthersSame(r) /\ held'[r] = {} /\ keyShare'[r] = FALSE /\ pc'[r] = "lockColl"
    BY <1>0, <1>2 DEF CommitWrite, Release, Goto, TypeOK, RequestsOK, OthersSame
  <2> QED
    BY <1>0, <2>1, SameMembers, WriterEnd
<1> QED
  BY <1>1, <1>2

LEMMA WriterLockAdvisory ==
  ASSUME IInv, IInv', WInv, NEW r \in Req, LockAdvisory(r)
  PROVE  WInv'
<1>1. /\ OthersSame(r) /\ held'[r] = held[r] \cup {Advisory} /\ keyShare' = keyShare
      /\ UNCHANGED <<users, member, role>>
      /\ pc[r] = "advisory" /\ pc'[r] \in {"findInvite", "current"}
  BY DEF IInv, LockAdvisory, TypeOK, RequestsOK, Goto, OthersSame, locals, tables
<1> QED
  BY <1>1, LockAssumption, WriterMoves

LEMMA WriterCurrent ==
  ASSUME IInv, IInv', WInv, NEW r \in Req, current_collection(r)
  PROVE  WInv'
<1>0. TypeOK /\ UNCHANGED <<users, member, role>>
  BY DEF IInv, current_collection, Fail, tables
<1>1. CASE Finish(r)
  BY <1>0, <1>1, SameMembers, WriterFinish
<1>2. CASE ~Finish(r)
  <2>1. /\ OthersSame(r) /\ held' = held /\ keyShare' = keyShare
        /\ pc[r] = "current" /\ pc'[r] \in {"deleteUser", "lockColl"}
    BY <1>0, <1>2 DEF current_collection, Fail, Goto, TypeOK, RequestsOK, OthersSame
  <2> QED
    BY <1>0, <2>1, WriterMoves
<1> QED
  BY <1>1, <1>2

LEMMA WriterInvite ==
  ASSUME IInv, IInv', WInv, NEW r \in Req, invite_insert(r)
  PROVE  WInv'
<1>1. Finish(r) /\ UNCHANGED <<users, member, role>>
  BY DEF invite_insert, Fail, tables
<1> QED
  BY <1>1, SameMembers, WriterFinish

LEMMA WriterFindInvite ==
  ASSUME IInv, IInv', WInv, NEW r \in Req, FindInvite(r)
  PROVE  WInv'
<1>0. TypeOK /\ UNCHANGED <<users, member, role>>
  BY DEF IInv, FindInvite, Fail, tables
<1>1. CASE Finish(r)
  BY <1>0, <1>1, SameMembers, WriterFinish
<1>2. CASE ~Finish(r)
  <2>1. /\ OthersSame(r) /\ held'[r] = held[r] \cup {token[r]} /\ keyShare' = keyShare
        /\ pc[r] = "findInvite" /\ pc'[r] = "lockBoth"
    BY <1>0, <1>2 DEF FindInvite, Fail, Goto, TypeOK, RequestsOK, OthersSame
  <2>2. token[r] \in Invite
    BY <2>1 DEF IInv, ControlFacts, TokenOps
  <2> QED
    BY <1>0, <2>1, <2>2, LockAssumption, WriterMoves
<1> QED
  BY <1>1, <1>2

LEMMA WriterAcceptLock ==
  ASSUME IInv, IInv', WInv, NEW r \in Req, AcceptLock(r)
  PROVE  WInv'
<1>0. TypeOK
  BY DEF IInv
<1>1. PICK c \in live : held' = [held EXCEPT ![r] = @ \cup {c}]
  BY DEF AcceptLock
<1>2. c \in Coll /\ held'[r] = held[r] \cup {c}
  BY <1>0, <1>1 DEF TypeOK, TablesOK, RequestsOK
<1>3. /\ OthersSame(r) /\ keyShare' = keyShare
      /\ pc[r] = "lockBoth" /\ pc'[r] = "lockBoth" /\ UNCHANGED <<users, member, role>>
  BY <1>0, <1>1 DEF AcceptLock, TypeOK, RequestsOK, OthersSame, locals, tables
<1> QED
  BY <1>2, <1>3, LockAssumption, WriterMoves

\* Steps that touch no request: an expiry, or nothing at all.
LEMMA WriterStutter ==
  ASSUME WInv, UNCHANGED <<users, member, role, items, held, keyShare, pc, locals>>
  PROVE  WInv'
<1>1. AccountFacts' /\ KeyShareExclusion'
  BY DEF WInv, AccountFacts, KeyShareExclusion, locals
<1>2. ASSUME NEW q \in Req PROVE WriterFacts(q)'
  BY DEF WInv, WriterFacts, IsMember, Seen, locals
<1> QED
  BY <1>1, <1>2 DEF WInv

LEMMA InitWriters == Init => WInv
BY NoneAssumption DEF Init, WInv, KeyShareExclusion, AccountFacts, WriterFacts

\* Every step keeps the second invariant, given the first.
LEMMA NextWriters == IInv /\ IInv' /\ WInv /\ [Next]_vars => WInv'
<1> SUFFICES ASSUME IInv, IInv', WInv, [Next]_vars PROVE WInv'
  OBVIOUS
<1>1. CASE \E r \in Req, u \in User, o \in Ops, i \in Invite \cup {None}, n \in 0 .. MaxRows :
             Begin(r, u, o, i, n)
  BY <1>1, WriterBegin
<1>2. ASSUME NEW r \in Req, Handle(r) PROVE WInv'
  <2>1. CASE MarkExpired(r)
    BY <2>1, SameMembers, WriterFinish DEF MarkExpired
  <2> QED
    BY <1>2, <2>1, WriterPending, WriterFast, WriterLockUser, WriterProvision,
       WriterLockCollection, WriterMutates, WriterAudits, WriterCommits, WriterLockAdvisory,
       WriterCurrent, WriterInvite, WriterFindInvite, WriterAcceptLock, WriterAccept,
       WriterLeave, WriterDeleteRow, WriterCascade DEF Handle
<1>3. CASE \E i \in Invite : Expire(i)
  BY <1>3, WriterStutter DEF Expire
<1>4. CASE \E r \in Req : Abandon(r)
  BY <1>4, WriterFail DEF Abandon
<1>5. CASE \E w, d \in Req : BreakDeadlock(w, d)
  BY <1>5, WriterFail DEF BreakDeadlock
<1>6. CASE UNCHANGED vars
  BY <1>6, WriterStutter DEF vars, tables
<1> QED
  BY <1>1, <1>2, <1>3, <1>4, <1>5, <1>6 DEF Next

\* The second invariant holds in every reachable state.
THEOREM WritersHold == Spec => []WInv
BY InvariantHolds, InitWriters, NextWriters, PTL DEF Spec

(***************************************************************************)
(* What a step may never do.                                               *)
(***************************************************************************)

\* What OnlyMembersWrite says of one step.
WrittenForMember ==
  \A c \in live \cap live' : items'[c] # items[c] =>
    \E r \in Req : pc[r] \in {"commit", "lockBoth"} /\ pc'[r] # pc[r]
                   /\ member'[actor[r]] = c

\* What InvitesUsedOnce says of one step.
InviteUsedUp ==
  /\ \A u \in User : member'[u] # member[u] /\ member'[u] \in live
       => \E i \in Invite : /\ invite[i].status = "pending"
                            /\ invite'[i].status = "accepted"
                            /\ invite[i].coll = member'[u]
                            /\ Members(member'[u]) = {invite[i].inviter}
  /\ \A i \in Invite :
       invite[i].status \in {"accepted", "revoked", "expired", "gone"}
         => invite'[i].status \in {invite[i].status, "gone"}

\* Only a commit of a write, an accept and an account deletion change quantities.
LEMMA ItemsChange ==
  ASSUME [Next]_vars, items' # items
  PROVE  \E r \in Req : \/ CommitWrite(r)
                        \/ Accept(r) /\ ~Fail(r)
                        \/ CascadeDelete(r)
<1>1. CASE \E r \in Req, u \in User, o \in Ops, i \in Invite \cup {None}, n \in 0 .. MaxRows :
             Begin(r, u, o, i, n)
  BY <1>1 DEF Begin, tables
<1>2. ASSUME NEW r \in Req, Handle(r)
      PROVE  CommitWrite(r) \/ (Accept(r) /\ ~Fail(r)) \/ CascadeDelete(r)
  BY <1>2 DEF Handle, pending, MarkExpired, EnsureFast, EnsureLockUser, EnsureProvision,
     LockCollection, mutate_in, Audit, LockAdvisory, current_collection, invite_insert,
     FindInvite, AcceptLock, Leave, DeleteUserRow, Fail, tables
<1>3. CASE \E i \in Invite : Expire(i)
  BY <1>3 DEF Expire
<1>4. CASE \E r \in Req : Abandon(r)
  BY <1>4 DEF Abandon, Fail, tables
<1>5. CASE \E w, d \in Req : BreakDeadlock(w, d)
  BY <1>5 DEF BreakDeadlock, Fail, tables
<1>6. CASE UNCHANGED vars
  BY <1>6 DEF vars, tables
<1> QED
  BY <1>1, <1>2, <1>3, <1>4, <1>5, <1>6 DEF Next

\* A writer whose commit changes a quantity is a member of the collection.
LEMMA CommitForMember ==
  ASSUME IInv, WInv, NEW r \in Req, CommitWrite(r), items' # items
  PROVE  /\ member'[actor[r]] = coll[r] /\ actor[r] \in User /\ coll[r] \in live
         /\ pc'[r] # pc[r]
<1>0. TypeOK /\ op[r] \in WriteOps /\ pc[r] = "commit" /\ coll[r] \in live /\ coll[r] \in Coll
      /\ actor[r] \in User
  BY DEF IInv, CommitWrite, ControlFacts, WriteFacts, TypeOK, TablesOK
<1>1. PICK s \in Stack : Seen(r, s) # items[coll[r]][s]
  <2>1. SUFFICES ASSUME \A s \in Stack : Seen(r, s) = items[coll[r]][s]
                 PROVE  items' = items
    OBVIOUS
  <2>2. items' = [items EXCEPT ![coll[r]] = [s \in Stack |-> items[coll[r]][s]]]
    BY <2>1 DEF CommitWrite
  <2>3. items[coll[r]] = [s \in Stack |-> items[coll[r]][s]]
    BY <1>0 DEF TypeOK, TablesOK
  <2> QED
    BY <1>0, <2>2, <2>3 DEF TypeOK, TablesOK
<1>2. IsMember(r)
  BY <1>0, <1>1 DEF WInv, WriterFacts
<1>3. pc'[r] # pc[r]
  BY <1>0 DEF CommitWrite, Finish, Goto, TypeOK, RequestsOK
<1> QED
  BY <1>0, <1>2, <1>3 DEF IsMember, CommitWrite

LEMMA MembersWrite ==
  ASSUME IInv, WInv, [Next]_vars
  PROVE  WrittenForMember
<1> SUFFICES ASSUME NEW c \in live \cap live', items'[c] # items[c]
             PROVE  \E r \in Req : pc[r] \in {"commit", "lockBoth"} /\ pc'[r] # pc[r]
                                   /\ member'[actor[r]] = c
  BY DEF WrittenForMember
<1>0. TypeOK /\ c \in Coll /\ items' # items
  BY DEF IInv, TypeOK, TablesOK
<1>1. PICK r \in Req : \/ CommitWrite(r)
                       \/ Accept(r) /\ ~Fail(r)
                       \/ CascadeDelete(r)
  BY <1>0, ItemsChange
<1>2. CASE CommitWrite(r)
  <2>1. /\ member'[actor[r]] = coll[r] /\ pc'[r] # pc[r] /\ coll[r] \in Coll
        /\ pc[r] = "commit"
    BY <1>0, <1>2, CommitForMember DEF CommitWrite, TypeOK, TablesOK, IInv
  <2>2. c = coll[r]
    BY <1>0, <1>2, <2>1 DEF CommitWrite, TypeOK, TablesOK
  <2> QED
    BY <2>1, <2>2
<1>3. CASE Accept(r) /\ ~Fail(r)
  <2> DEFINE source == coll[r]
             target == invite[token[r]].coll
  <2>1. /\ source \in Coll /\ target \in Coll /\ target # source /\ actor[r] \in User
        /\ pc[r] = "lockBoth"
    BY <1>0, <1>3 DEF Accept, IInv, ControlFacts, ShareFacts, TokenOps, TableFacts,
                      TypeOK, TablesOK
  <2>2. PICK f : items' = [items EXCEPT ![source] = NoItems, ![target] = f]
    <3>1. PICK merged \in {items[source], NoItems} :
             items' = [items EXCEPT ![source] = NoItems,
                         ![target] = [s \in Stack |-> items[target][s] + merged[s]]]
      BY <1>3 DEF Accept
    <3> QED
      BY <3>1
  <2>3. c \in {source, target} /\ c # source
    BY <1>0, <1>3, <2>1, <2>2 DEF Accept, TypeOK, TablesOK
  <2>4. /\ pc'[r] = "idle" /\ member'[actor[r]] = target
    BY <1>0, <1>3, <2>1 DEF Accept, Finish, Goto, TypeOK, TablesOK, RequestsOK
  <2> QED
    BY <2>1, <2>3, <2>4
<1>4. CASE CascadeDelete(r)
  BY <1>0, <1>4 DEF CascadeDelete, DropCollections
<1> QED
  BY <1>1, <1>2, <1>3, <1>4

\* Quantities change only on behalf of a member, though the handler looked the
\* collection up in an earlier transaction (service.rs mutate_in, share.rs accept).
THEOREM WritesAreForMembers == Spec => OnlyMembersWrite
<1>1. IInv /\ WInv /\ [Next]_vars => [WrittenForMember]_vars
  BY MembersWrite
<1>2. Spec => [][WrittenForMember]_vars
  BY <1>1, InvariantHolds, WritersHold, PTL DEF Spec
<1> QED
  BY <1>2 DEF OnlyMembersWrite, WrittenForMember

\* A step that leaves the memberships alone and at most settles a pending invite,
\* issues a new one or cascades one away uses up no invite wrongly.
LEMMA InvitesOnly ==
  ASSUME member' = member,
         \A i \in Invite :
           invite[i].status \in {"accepted", "revoked", "expired", "gone"}
             => invite'[i].status \in {invite[i].status, "gone"}
  PROVE  InviteUsedUp
BY DEF InviteUsedUp

\* Provisioned and departing users get a collection that did not exist.
LEMMA FreshCollection ==
  ASSUME IInv, NEW v \in User, NEW c \in Coll \ spent, member' = [member EXCEPT ![v] = c],
         \A i \in Invite :
           invite[i].status \in {"accepted", "revoked", "expired", "gone"}
             => invite'[i].status \in {invite[i].status, "gone"}
  PROVE  InviteUsedUp
<1>1. c \notin live /\ \A u \in User \ {v} : member'[u] = member[u]
  BY DEF IInv, TableFacts, TypeOK, TablesOK
<1>2. member'[v] = c
  BY DEF IInv, TypeOK, TablesOK
<1> QED
  BY <1>1, <1>2 DEF InviteUsedUp

LEMMA InviteRowsTyped == ASSUME IInv, NEW i \in Invite PROVE invite[i] \in InviteRows
BY DEF IInv, TypeOK, TablesOK

\* The only member of a collection takes the user in, and the invite is used up.
LEMMA AcceptUsesInvite ==
  ASSUME IInv, NEW r \in Req, Accept(r), ~Fail(r)
  PROVE  InviteUsedUp
<1>0. TypeOK
  BY DEF IInv
<1> DEFINE u == actor[r]
           i == token[r]
           source == coll[r]
           target == invite[i].coll
<1>1. /\ u \in User /\ i \in Invite /\ source \in Coll /\ pc[r] = "lockBoth"
      /\ invite[i].status = "pending" /\ target # source
  BY <1>0 DEF Accept, IInv, ControlFacts, ShareFacts, TokenOps, TypeOK, TablesOK
<1>2. /\ member' = [member EXCEPT ![u] = target]
      /\ invite' = [j \in Invite |->
           IF j = i THEN [invite[j] EXCEPT !.status = "accepted"]
           ELSE Revoked(Cascaded(invite[j], invite[j].coll = source),
                        j \in PendingOf(target))]
  BY DEF Accept
<1>3. invite'[i].status = "accepted"
  <2>1. invite'[i] = [invite[i] EXCEPT !.status = "accepted"]
    BY <1>1, <1>2
  <2>2. invite[i] \in InviteRows
    BY <1>1, InviteRowsTyped
  <2> QED
    BY <2>1, <2>2 DEF InviteRows
<1>4. Members(target) = {invite[i].inviter}
  BY <1>1 DEF IInv, MembershipInv, PendingInviteFromSoleMember
<1>5. member'[u] = target /\ \A v \in User \ {u} : member'[v] = member[v]
  BY <1>0, <1>1, <1>2 DEF TypeOK, TablesOK
<1>6. ASSUME NEW j \in Invite, invite[j].status \in {"accepted", "revoked", "expired", "gone"}
      PROVE  invite'[j].status \in {invite[j].status, "gone"}
  <2>1. j # i /\ j \notin PendingOf(target)
    BY <1>1, <1>6 DEF PendingOf
  <2>2. invite'[j] = Cascaded(invite[j], invite[j].coll = source)
    BY <1>2, <2>1 DEF Revoked
  <2> QED
    BY <2>2 DEF Cascaded, InviteRow
<1> QED
  BY <1>1, <1>3, <1>4, <1>5, <1>6 DEF InviteUsedUp

\* A settled invite is not among those that a revocation touches.
LEMMA RevokedSettled ==
  ASSUME NEW i \in Invite, NEW C, invite[i].status # "pending"
  PROVE  Revoked(invite[i], i \in PendingOf(C)) = invite[i]
BY DEF Revoked, PendingOf

LEMMA HandleInvites ==
  ASSUME IInv, NEW r \in Req, Handle(r)
  PROVE  InviteUsedUp
<1>0. TypeOK
  BY DEF IInv
<1>1. CASE UNCHANGED <<member, invite>>
  BY <1>1, InvitesOnly
<1>2. CASE MarkExpired(r)
  <2>1. token[r] \in Invite /\ member' = member
    BY <1>2 DEF MarkExpired, IInv, ControlFacts, TokenOps
  <2>2. \A i \in Invite : invite[i].status # "pending" => invite'[i] = invite[i]
    BY <1>0, <1>2, <2>1 DEF MarkExpired, TypeOK, TablesOK
  <2> QED
    BY <2>1, <2>2, InvitesOnly
<1>3. CASE EnsureProvision(r) /\ member[who[r]] = None
  <2>1. PICK c \in Coll \ spent : member' = [member EXCEPT ![who[r]] = c]
    BY <1>3 DEF EnsureProvision
  <2>2. who[r] \in User /\ invite' = invite
    BY <1>3 DEF EnsureProvision, IInv, ControlFacts
  <2> QED
    BY <2>1, <2>2, FreshCollection
<1>4. CASE current_collection(r) /\ ~UNCHANGED invite
  <2>1. /\ member' = member
        /\ invite' = [i \in Invite |-> Revoked(invite[i], i \in PendingOf(member[actor[r]]))]
    BY <1>4 DEF current_collection, Fail, tables
  <2>2. \A i \in Invite : invite[i].status # "pending" => invite'[i] = invite[i]
    BY <2>1, RevokedSettled
  <2> QED
    BY <2>1, <2>2, InvitesOnly
<1>5. CASE invite_insert(r) /\ ~UNCHANGED invite
  <2>1. member' = member
    BY <1>5 DEF invite_insert, Fail, tables
  <2>2. PICK i \in {j \in Invite : invite[j].status = "unissued"} :
          invite' = [j \in Invite |->
            IF j = i THEN InviteRow("pending", coll[r], actor[r], FALSE)
            ELSE Revoked(invite[j], j \in PendingOf(coll[r]))]
    BY <1>5 DEF invite_insert, Fail, tables
  <2>3. \A j \in Invite : invite[j].status \in {"accepted", "revoked", "expired", "gone"}
          => invite'[j] = invite[j]
    BY <2>2, RevokedSettled
  <2> QED
    BY <2>1, <2>3, InvitesOnly
<1>6. CASE FindInvite(r) /\ ~UNCHANGED invite
  <2>1. member' = member /\ invite' = [invite EXCEPT ![token[r]].status = "expired"]
        /\ ~Settled(token[r])
    BY <1>6 DEF FindInvite, Fail, tables
  <2>2. \A j \in Invite : invite[j].status # "pending" => invite'[j] = invite[j]
    BY <1>0, <2>1 DEF Settled, TypeOK, TablesOK
  <2> QED
    BY <2>1, <2>2, InvitesOnly
<1>7. CASE Accept(r) /\ ~Fail(r)
  BY <1>7, AcceptUsesInvite
<1>8. CASE Leave(r) /\ ~Fail(r)
  <2>1. PICK c \in Coll \ spent : member' = [member EXCEPT ![actor[r]] = c]
    BY <1>8 DEF Leave
  <2>2. /\ actor[r] \in User
        /\ invite' = [i \in Invite |-> Revoked(invite[i],
                i \in PendingOf(coll[r]) /\ invite[i].inviter = actor[r])]
    BY <1>8 DEF Leave, IInv, ControlFacts
  <2>3. \A i \in Invite : invite[i].status # "pending" => invite'[i] = invite[i]
    BY <2>2 DEF Revoked, PendingOf
  <2> QED
    BY <2>1, <2>2, <2>3, FreshCollection
<1>9. CASE CascadeDelete(r)
  <2> DEFINE u == actor[r]
             gone(i) == invite[i].coll \in ({member[u]} \cap {d \in live : Others(d, u) = {}})
                          \/ invite[i].inviter = u
  <2>1. /\ member' = [member EXCEPT ![u] = None]
        /\ invite' = [i \in Invite |-> Cascaded(invite[i], gone(i))]
    BY <1>9 DEF CascadeDelete
  <2>2. /\ None \notin live /\ \A v \in User : member'[v] \in {member[v], None}
    BY <1>0, <2>1, NoneAssumption DEF TypeOK, TablesOK
  <2>3. \A i \in Invite : invite'[i] = invite[i] \/ invite'[i].status = "gone"
    <3> HIDE DEF gone
    <3> QED
      BY <2>1 DEF Cascaded, InviteRow
  <2> QED
    BY <2>2, <2>3 DEF InviteUsedUp
<1> QED
  BY <1>1, <1>2, <1>3, <1>4, <1>5, <1>6, <1>7, <1>8, <1>9
     DEF Handle, pending, EnsureFast, EnsureLockUser, EnsureProvision, LockCollection,
         mutate_in, Audit, CommitWrite, LockAdvisory, current_collection, invite_insert,
         FindInvite, AcceptLock, Accept, Leave, DeleteUserRow, Fail, tables

LEMMA StepInvites ==
  ASSUME IInv, [Next]_vars
  PROVE  InviteUsedUp
<1>1. CASE UNCHANGED <<member, invite>>
  BY <1>1, InvitesOnly
<1>2. CASE \E i \in Invite : Expire(i)
  <2>1. PICK i \in Invite : Expire(i)
    BY <1>2
  <2>2. \A j \in Invite : invite[j].status # "pending" => invite'[j] = invite[j]
    BY <2>1 DEF Expire, IInv, TypeOK, TablesOK
  <2> QED
    BY <2>1, <2>2, InvitesOnly DEF Expire
<1> QED
  BY <1>1, <1>2, HandleInvites DEF Next, Begin, Abandon, BreakDeadlock, Fail, vars, tables

\* Two people come to share a collection only through a pending invite of the one
\* already in it, which is used up; a settled invite never reopens (share.rs).
THEOREM InvitesAreUsedOnce == Spec => InvitesUsedOnce
<1>1. IInv /\ [Next]_vars => [InviteUsedUp]_vars
  BY StepInvites
<1>2. Spec => [][InviteUsedUp]_vars
  BY <1>1, InvariantHolds, PTL DEF Spec
<1> QED
  BY <1>2 DEF InvitesUsedOnce, InviteUsedUp

(***************************************************************************)
(* CollectionStore implements SharedCollections: every request takes       *)
(* effect in one of its steps, and all its other steps change no table.    *)
(***************************************************************************)

\* The tables that the abstract specification has.
shown == <<users, live, spent, member, role, items, ledger>>

LEMMA AbstractInit == Init => Abstract!Init
BY DEF Init, Abstract!Init, NoItems, Abstract!NoItems

\* A new collection for somebody who has none.
LEMMA ProvisionStep ==
  ASSUME IInv, WInv, NEW r \in Req, EnsureProvision(r)
  PROVE  Abstract!Next \/ UNCHANGED shown
<1>1. CASE member[who[r]] # None
  BY <1>1 DEF EnsureProvision, tables, shown
<1>2. CASE member[who[r]] = None
  <2>1. PICK c \in Coll \ spent :
          /\ live' = live \cup {c} /\ spent' = spent \cup {c}
          /\ member' = [member EXCEPT ![who[r]] = c]
          /\ role' = [role EXCEPT ![who[r]] = "owner"]
    BY <1>2 DEF EnsureProvision
  <2>2. who[r] \in users /\ who[r] \in User
    BY DEF EnsureProvision, WInv, WriterFacts, IInv, ControlFacts
  <2>3. Abstract!Provision(who[r], c)
    BY <1>2, <2>1, <2>2 DEF EnsureProvision, Abstract!Provision, Abstract!Found
  <2> QED
    BY <2>2, <2>3 DEF Abstract!Next
<1> QED
  BY <1>1, <1>2

\* The commit of a write: a member's, and the audit trail has the difference.
LEMMA CommitStep ==
  ASSUME IInv, WInv, NEW r \in Req, CommitWrite(r)
  PROVE  Abstract!Next \/ UNCHANGED shown
<1>0. TypeOK /\ coll[r] \in live /\ coll[r] \in Coll /\ op[r] \in WriteOps /\ pc[r] = "commit"
  BY DEF IInv, CommitWrite, ControlFacts, WriteFacts, TypeOK, TablesOK
<1> DEFINE c == coll[r]
<1>1. \A s \in Stack : /\ Seen(r, s) \in Nat /\ items[c][s] \in Nat /\ ledger[c][s] \in Int
                       /\ Logged(r, s) = Seen(r, s) - items[c][s]
  <2>1. \A s \in Stack : items[c][s] \in Nat /\ ledger[c][s] \in Int
    BY <1>0 DEF TypeOK, TablesOK
  <2>2. \A s \in Stack : Seen(r, s) \in Nat
    BY <1>0, <2>1 DEF Seen, TypeOK, RequestsOK
  <2>3. \A s \in Stack : Logged(r, s) = Seen(r, s) - items[c][s]
    BY <1>0 DEF IInv, WriteFacts
  <2> QED
    BY <2>1, <2>2, <2>3
<1>2. /\ items' = [items EXCEPT ![c] = [s \in Stack |-> Seen(r, s)]]
      /\ ledger' = [ledger EXCEPT ![c] = [s \in Stack |-> @[s] + Logged(r, s)]]
      /\ UNCHANGED <<users, live, spent, member, role>>
  BY DEF CommitWrite
<1>3. /\ \A s \in Stack : items'[c][s] = Seen(r, s)
      /\ items' = [items EXCEPT ![c] = items'[c]]
  BY <1>0, <1>2 DEF TypeOK, TablesOK
<1>4. ledger' = [ledger EXCEPT ![c] =
                   [s \in Stack |-> ledger[c][s] + (items'[c][s] - items[c][s])]]
  <2>1. \A s \in Stack : ledger[c][s] + Logged(r, s)
                           = ledger[c][s] + (items'[c][s] - items[c][s])
    BY <1>1, <1>3
  <2>2. [s \in Stack |-> ledger[c][s] + Logged(r, s)]
          = [s \in Stack |-> ledger[c][s] + (items'[c][s] - items[c][s])]
    BY <2>1
  <2> QED
    BY <1>2, <2>2
<1>5. CASE items' = items
  <2>1. \A s \in Stack : ledger[c][s] + (items'[c][s] - items[c][s]) = ledger[c][s]
    BY <1>1, <1>5
  <2>2. [s \in Stack |-> ledger[c][s] + (items'[c][s] - items[c][s])]
          = [s \in Stack |-> ledger[c][s]]
    BY <2>1
  <2>3. [s \in Stack |-> ledger[c][s]] = ledger[c]
    BY <1>0 DEF TypeOK, TablesOK
  <2>4. ledger' = ledger
    BY <1>0, <1>4, <2>2, <2>3 DEF TypeOK, TablesOK
  <2> QED
    BY <1>2, <1>5, <2>4 DEF shown
<1>6. CASE items' # items
  <2>1. actor[r] \in User /\ member[actor[r]] = c
    BY <1>2, <1>6, CommitForMember
  <2>2. c # None /\ \A s \in Stack : items'[c][s] \in Nat
    BY <1>0, <1>1, <1>3, NoneAssumption
  <2>3. Abstract!Write(actor[r])
    <3>1. items' = [items EXCEPT ![member[actor[r]]] = items'[member[actor[r]]]]
      BY <1>3, <2>1
    <3>2. ledger' = [ledger EXCEPT ![member[actor[r]]] =
            [s \in Stack |-> ledger[member[actor[r]]][s]
                + (items'[member[actor[r]]][s] - items[member[actor[r]]][s])]]
      BY <1>4, <2>1, Zenon
    <3> QED
      BY <1>2, <2>1, <2>2, <3>1, <3>2 DEF Abstract!Write
  <2> QED
    BY <2>1, <2>3 DEF Abstract!Next
<1> QED
  BY <1>5, <1>6

\* Whoever is the only member of a collection is alone in it.
LEMMA AloneIn ==
  ASSUME IInv, NEW u \in User, member[u] \in Coll, ~Shared(member[u])
  PROVE  Abstract!Alone(u)
BY NoneAssumption DEF Shared, Members, Abstract!Alone, Abstract!Members

\* An accept is a Join of two users who are each alone.
LEMMA AcceptStep ==
  ASSUME IInv, WInv, NEW r \in Req, Accept(r)
  PROVE  Abstract!Next \/ UNCHANGED shown
<1>1. CASE Fail(r)
  BY <1>1 DEF Fail, tables, shown
<1>2. CASE ~Fail(r)
  <2> DEFINE u == actor[r]
             v == invite[token[r]].inviter
             source == coll[r]
             target == invite[token[r]].coll
  <2>1. /\ u \in User /\ source = member[u] /\ source \in Coll /\ source # target /\ u # v
        /\ invite[token[r]].status = "pending" /\ token[r] \in Invite
    BY DEF Accept, IInv, ControlFacts, ShareFacts, TokenOps, TypeOK, TablesOK
  <2>2. v \in User /\ Members(target) = {v} /\ target \in Coll
    BY <2>1 DEF IInv, TableFacts, MembershipInv, PendingInviteFromSoleMember
  <2>3. member[v] = target
    BY <2>2 DEF Members
  <2>4. ~Shared(source) /\ ~Shared(target)
    BY <1>2 DEF Accept
  <2>5. Abstract!Alone(u) /\ Abstract!Alone(v)
    BY <2>1, <2>2, <2>3, <2>4, AloneIn
  <2>6. PICK merged \in {items[source], NoItems} :
          /\ items' = [items EXCEPT ![source] = NoItems,
                         ![target] = [s \in Stack |-> items[target][s] + merged[s]]]
          /\ ledger' = [ledger EXCEPT ![source] = NoItems,
                         ![target] = [s \in Stack |-> ledger[target][s] + merged[s]]]
    BY <1>2 DEF Accept
  <2>7. \E kept \in {items[source], Abstract!NoItems} :
          /\ items' = [items EXCEPT ![source] = Abstract!NoItems,
                         ![target] = [s \in Stack |-> items[target][s] + kept[s]]]
          /\ ledger' = [ledger EXCEPT ![source] = Abstract!NoItems,
                         ![target] = [s \in Stack |-> ledger[target][s] + kept[s]]]
    BY <2>6 DEF NoItems, Abstract!NoItems
  <2>8. /\ live' = live \ {source} /\ member' = [member EXCEPT ![u] = target]
        /\ role' = [role EXCEPT ![u] = "member"] /\ UNCHANGED <<users, spent>>
    BY <1>2 DEF Accept
  <2>9. Abstract!Join(u, v)
    <3>1. \E kept \in {items[member[u]], Abstract!NoItems} :
            /\ items' = [items EXCEPT ![member[u]] = Abstract!NoItems,
                 ![member[v]] = [s \in Stack |-> items[member[v]][s] + kept[s]]]
            /\ ledger' = [ledger EXCEPT ![member[u]] = Abstract!NoItems,
                 ![member[v]] = [s \in Stack |-> ledger[member[v]][s] + kept[s]]]
      <4>1. PICK kept \in {items[source], Abstract!NoItems} :
              /\ items' = [items EXCEPT ![source] = Abstract!NoItems,
                         ![target] = [s \in Stack |-> items[target][s] + kept[s]]]
              /\ ledger' = [ledger EXCEPT ![source] = Abstract!NoItems,
                         ![target] = [s \in Stack |-> ledger[target][s] + kept[s]]]
        BY <2>7
      <4> HIDE DEF source, target, v
      <4>2. kept \in {items[member[u]], Abstract!NoItems}
        BY <2>1, <4>1
      <4>3. /\ items' = [items EXCEPT ![member[u]] = Abstract!NoItems,
                 ![member[v]] = [s \in Stack |-> items[member[v]][s] + kept[s]]]
            /\ ledger' = [ledger EXCEPT ![member[u]] = Abstract!NoItems,
                 ![member[v]] = [s \in Stack |-> ledger[member[v]][s] + kept[s]]]
        BY <2>1, <2>3, <4>1
      <4> QED
        BY <4>2, <4>3
    <3>2. /\ live' = live \ {member[u]} /\ member' = [member EXCEPT ![u] = member[v]]
          /\ role' = [role EXCEPT ![u] = "member"] /\ UNCHANGED <<users, spent>>
      BY <2>1, <2>3, <2>8
    <3> QED
      BY <2>1, <2>5, <3>1, <3>2 DEF Abstract!Join
  <2> QED
    BY <2>1, <2>2, <2>9 DEF Abstract!Next
<1> QED
  BY <1>1, <1>2

\* Two members, one of them known: the other is the only other one.
LEMMA OtherMember ==
  ASSUME IInv, NEW u \in User, member[u] # None, Shared(member[u])
  PROVE  \E v \in User : v # u /\ Members(member[u]) = {u, v} /\ Others(member[u], u) = {v}
<1>1. PICK v \in User : v # u /\ member[v] = member[u]
  BY DEF Shared, Members
<1>2. Members(member[u]) = {u, v}
  BY <1>1 DEF Members, IInv, MembershipInv, AtMostTwoMembers
<1> QED
  BY <1>1, <1>2 DEF Others

\* The member left behind is the owner afterwards, whoever was before.
LEMMA Promoted ==
  ASSUME TypeOK, NEW u \in User, NEW v \in User, u # v, NEW c, Others(c, u) = {v},
         PromoteIn(c, u)
  PROVE  role' = [role EXCEPT ![u] = "owner", ![v] = "owner"]
<1>1. role \in [User -> {"owner", "member"}]
  BY DEF TypeOK, TablesOK
<1>2. CASE role[v] = "owner"
  <2>1. role' = [role EXCEPT ![u] = "owner"]
    BY <1>2 DEF PromoteIn
  <2> QED
    BY <1>1, <1>2, <2>1
<1>3. CASE role[v] # "owner"
  BY <1>1, <1>3 DEF PromoteIn
<1> QED
  BY <1>2, <1>3

\* A leave is a Leave of one of two members.
LEMMA LeaveStep ==
  ASSUME IInv, WInv, NEW r \in Req, Leave(r)
  PROVE  Abstract!Next \/ UNCHANGED shown
<1>1. CASE Fail(r)
  BY <1>1 DEF Fail, tables, shown
<1>2. CASE ~Fail(r)
  <2> DEFINE u == actor[r]
  <2>1. /\ u \in User /\ coll[r] = member[u] /\ Shared(coll[r]) /\ TypeOK
        /\ coll[r] \in Coll
    BY <1>2 DEF Leave, IInv, ControlFacts, ShareFacts, TypeOK, TablesOK
  <2>2. PICK v \in User : /\ v # u /\ Members(member[u]) = {u, v}
                          /\ Others(member[u], u) = {v}
    BY <2>1, OtherMember, NoneAssumption
  <2>3. PICK c \in Coll \ spent :
          live' = live \cup {c} /\ spent' = spent \cup {c} /\ member' = [member EXCEPT ![u] = c]
    BY <1>2 DEF Leave
  <2>4. role' = [role EXCEPT ![u] = "owner", ![v] = "owner"]
    BY <1>2, <2>1, <2>2, Promoted DEF Leave
  <2>5. UNCHANGED <<users, items, ledger>>
    BY <1>2 DEF Leave
  <2>6. Abstract!Leave(u, v, c)
    BY <2>1, <2>2, <2>3, <2>4, <2>5, NoneAssumption
       DEF Abstract!Leave, Abstract!Found, Abstract!Members, Members
  <2> QED
    BY <2>1, <2>2, <2>3, <2>6 DEF Abstract!Next
<1> QED
  BY <1>1, <1>2

\* The deletion of an account that exists is a DeleteAccount; of one that is
\* already gone, nothing.
LEMMA CascadeStep ==
  ASSUME IInv, WInv, NEW r \in Req, CascadeDelete(r)
  PROVE  Abstract!Next \/ UNCHANGED shown
<1> DEFINE u == actor[r]
           c == member[u]
           emptied == {c} \cap {d \in live : Others(d, u) = {}}
<1>0. /\ TypeOK /\ u \in User /\ role \in [User -> {"owner", "member"}]
      /\ member \in [User -> Coll \cup {None}]
      /\ c = None => role[u] = "owner"
  BY DEF CascadeDelete, IInv, ControlFacts, TypeOK, TablesOK, WInv, AccountFacts
<1>1. /\ users' = users \ {u} /\ member' = [member EXCEPT ![u] = None] /\ spent' = spent
      /\ live' = live \ emptied
      /\ items' = [d \in Coll |-> IF d \in emptied THEN NoItems ELSE items[d]]
      /\ ledger' = [d \in Coll |-> IF d \in emptied THEN NoItems ELSE ledger[d]]
      /\ IF coll[r] = None THEN role' = [role EXCEPT ![u] = "owner"] ELSE PromoteIn(coll[r], u)
  BY DEF CascadeDelete, DropCollections
<1>2. None \notin live /\ (c # None => c \in live)
  BY <1>0, NoneAssumption DEF TypeOK, TablesOK, IInv, MembershipInv, NoOrphanCollection
<1>3. coll[r] = c \/ (coll[r] = None /\ Members(c) = {u})
  BY DEF CascadeDelete, IInv, ShareFacts
<1>4. emptied = {d \in {c} \cap live : Abstract!Alone(u)}
  <2>1. c # None => (Others(c, u) = {} <=> Abstract!Alone(u))
    BY <1>0 DEF Others, Members, Abstract!Alone, Abstract!Members
  <2> QED
    BY <1>2, <2>1
<1>5. role' = [v \in User |-> IF c # None /\ member[v] = c THEN "owner" ELSE role[v]]
  <2>1. CASE c = None
    <3>1. coll[r] = None
      BY <1>3, <2>1
    <3> QED
      BY <1>0, <1>1, <2>1, <3>1
  <2>2. CASE c # None /\ ~Shared(c)
    <3>1. Members(c) = {u} /\ Others(c, u) = {}
      BY <1>0 , <2>2 DEF Shared, Members, Others
    <3>2. role' = [role EXCEPT ![u] = "owner"]
      BY <1>1, <1>3, <3>1 DEF PromoteIn
    <3>3. \A v \in User : member[v] = c <=> v = u
      BY <3>1 DEF Members
    <3> QED
      BY <1>0, <2>2, <3>2, <3>3
  <2>3. CASE c # None /\ Shared(c)
    <3>1. PICK v \in User : v # u /\ Members(c) = {u, v} /\ Others(c, u) = {v}
      BY <1>0, <2>3, OtherMember
    <3>2. role' = [role EXCEPT ![u] = "owner", ![v] = "owner"]
      BY <1>0, <1>1, <1>3, <2>3, <3>1, Promoted
    <3>3. \A w \in User : member[w] = c <=> w \in {u, v}
      BY <3>1 DEF Members
    <3> QED
      BY <1>0, <2>3, <3>2, <3>3
  <2> QED
    BY <2>1, <2>2, <2>3
<1>6. CASE u \in users
  <2>1. Abstract!DeleteAccount(u)
    BY <1>1, <1>4, <1>5, <1>6 DEF Abstract!DeleteAccount, NoItems, Abstract!NoItems
  <2> QED
    BY <1>0, <2>1 DEF Abstract!Next
<1>7. CASE u \notin users
  <2>1. c = None /\ emptied = {}
    BY <1>0, <1>2, <1>7 DEF WInv, AccountFacts
  <2>2. users' = users /\ live' = live
    BY <1>1, <1>7, <2>1
  <2>3. items' = items /\ ledger' = ledger
    BY <1>0, <1>1, <2>1 DEF TypeOK, TablesOK
  <2>4. member' = member
    BY <1>0, <1>1, <2>1
  <2>5. role' = role
    BY <1>0, <1>5, <2>1
  <2> QED
    BY <1>1, <2>2, <2>3, <2>4, <2>5 DEF shown
<1> QED
  BY <1>6, <1>7

LEMMA AbstractStep ==
  ASSUME IInv, WInv, [Next]_vars
  PROVE  Abstract!Next \/ UNCHANGED shown
<1>1. ASSUME NEW r \in Req, Handle(r) PROVE Abstract!Next \/ UNCHANGED shown
  <2>1. CASE UNCHANGED shown
    BY <2>1
  <2> QED
    BY <1>1, ProvisionStep, CommitStep, AcceptStep, LeaveStep, CascadeStep
       DEF Handle, pending, MarkExpired, EnsureFast, EnsureLockUser, LockCollection, mutate_in,
           Audit, LockAdvisory, current_collection, invite_insert, FindInvite, AcceptLock,
           DeleteUserRow, Fail, tables, shown
<1> QED
  BY <1>1 DEF Next, Begin, Expire, Abandon, BreakDeadlock, Fail, vars, tables, shown

\* Whatever requests overlap, block each other, fail or are dropped, the tables
\* change only as if every request had been one atomic step (SharedCollections).
THEOREM RequestsAreAtomic == Spec => AtomicRequests
<1>1. IInv /\ WInv /\ [Next]_vars => [Abstract!Next]_(Abstract!vars)
  BY AbstractStep DEF shown, Abstract!vars
<1>2. Spec => [][Abstract!Next]_(Abstract!vars)
  BY <1>1, InvariantHolds, WritersHold, PTL DEF Spec
<1> QED
  BY <1>2, AbstractInit DEF AtomicRequests, Spec

=============================================================================

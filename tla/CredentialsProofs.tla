------------------------- MODULE CredentialsProofs --------------------------
(***************************************************************************)
(* The invariants of Credentials hold for every number of accounts,        *)
(* addresses, overlapping requests, hashes and tokens.                     *)
(*                                                                         *)
(* Most actions only move one request on (LocalStep); those that commit    *)
(* end their request (Ended) and are treated one conjunct at a time.       *)
(***************************************************************************)
EXTENDS CredentialsInv, TLAPS

USE BoundsAssumption, NoneAssumption, RowAssumption

\* The invariant in the groups that the steps disturb together.
RequestFacts == /\ requests \in [Request -> Task]
                /\ \A r \in Request : Locals(requests[r])
                /\ LockExclusion
TableFacts   == /\ account \in [User -> {None, Gone} \cup Row]
                /\ sessions \subseteq Session /\ \A s \in sessions : Exists(s.user)
                /\ links \subseteq Link
                /\ writes \in 0 .. MaxWrites /\ tokens \in 0 .. MaxTokens
                /\ floor \in [User -> 0 .. MaxWrites] /\ resets \in [User -> Nat]

LEMMA Parts ==
  IInv <=> /\ RequestFacts /\ TableFacts /\ EmailFacts /\ AccountFacts
           /\ SessionFacts /\ ChangeFacts /\ ResetFacts /\ LinksFollowAddress
BY DEF IInv, TypeOK, RequestFacts, TableFacts

LEMMA PartsAfter ==
  ASSUME RequestFacts', TableFacts', EmailFacts', AccountFacts', SessionFacts', ChangeFacts',
         ResetFacts', LinksFollowAddress'
  PROVE  IInv'
BY DEF IInv, TypeOK, RequestFacts, TableFacts

\* A request that does nothing has its type and claims nothing.
LEMMA IdleTask ==
  Idle \in Task /\ Locals(Idle) /\ Idle.op = None /\ None \notin Op /\ Idle.step = "idle"
BY DEF Idle, Task, Locals, Op

LEMMA InitInv == Init => IInv
<1> SUFFICES ASSUME Init PROVE IInv
  OBVIOUS
<1>1. PICK us \in SUBSET User : Home \in [us -> Address]
  BY HomeAssumption
<1>2. DOMAIN Home = us /\ \A u \in us : Home[u] \in Address
  BY <1>1
<1>3. ASSUME NEW u \in User PROVE account[u] \in {None, Gone} \cup Row
  BY <1>2 DEF Init, Row
<1>4. TableFacts
  <2>1. account \in [User -> {None, Gone} \cup Row]
    BY <1>3 DEF Init
  <2> QED
    BY <2>1 DEF Init, TableFacts
<1>5. RequestFacts
  BY IdleTask DEF Init, RequestFacts, LockExclusion, InCredential, InEmail
<1>6. AddressesDistinct
  <2> SUFFICES ASSUME NEW u \in User, NEW w \in User, u # w, Exists(u), Exists(w)
               PROVE  account[u].address # account[w].address
    BY DEF AddressesDistinct
  <2>1. u \in us /\ w \in us /\ account[u].address = Home[u] /\ account[w].address = Home[w]
    BY <1>2 DEF Init, Exists
  <2> QED
    BY <1>2, <2>1, HomeAssumption
<1>7. EmailFacts /\ AccountFacts
  BY <1>6, IdleTask DEF Op, Init, EmailFacts, AccountFacts, InEmail
<1>8. SessionFacts
  <2>1. \A u \in User : Exists(u) => account[u].hash = 0
    BY DEF Init, Exists
  <2> QED
    BY <2>1 DEF Init, SessionFacts, NoStaleSession
<1>9. ChangeFacts /\ ResetFacts /\ LinksFollowAddress
  BY IdleTask DEF Op, Init, ChangeFacts, ResetFacts, InCredential, LinksFollowAddress, LinksOf
<1> QED
  BY <1>4, <1>5, <1>6, <1>7, <1>8, <1>9, Parts

(***************************************************************************)
(* Steps that only move a request on.                                      *)
(***************************************************************************)

\* Nothing about the requests other than r changes, and r becomes n.
Becomes(r, n) == requests' = [requests EXCEPT ![r] = n]

\* What is claimed of a request that has become n.
Fits(r, n) ==
  /\ n \in Task /\ Locals(n)
  /\ (n.op \in {"change", "reset"} /\ n.step = "locked") =>
       \A q \in Request \ {r} : InCredential(q) => requests[q].user # n.user
  /\ (n.op \in {"signUp", "address"} /\ n.step = "locked") =>
       /\ ~Taken(n.to)
       /\ \A q \in Request \ {r} : InEmail(q) => requests[q].to # n.to
  /\ n.op # None =>
       /\ n.op = "signUp" <=> account[n.user] = None
       /\ \A q \in Request \ {r} :
            (n.op = "signUp" \/ requests[q].op = "signUp") => requests[q].user # n.user
  /\ n.op = "change" =>
       /\ n.session.token <= tokens
       /\ n.session \in sessions \/ n.step = "locked" => n.round = resets[n.user]
  /\ (n.op = "reset" /\ n.step = "locked") =>
       /\ n.link.round >= resets[n.user]
       /\ \A l \in LinksOf(n.user) \ n.swept : l.round >= resets[n.user] + 1

LEMMA LocalStep ==
  ASSUME IInv, NEW r \in Request, NEW n, Becomes(r, n), Fits(r, n),
         UNCHANGED <<store, writes, tokens, floor, resets>>
  PROVE  IInv'
<1>0. /\ RequestFacts /\ TableFacts /\ EmailFacts /\ AccountFacts
      /\ SessionFacts /\ ChangeFacts /\ ResetFacts /\ LinksFollowAddress
      /\ UNCHANGED <<account, sessions, links, writes, tokens, floor, resets>>
  BY Parts DEF store
<1>1. /\ requests'[r] = n /\ \A q \in Request \ {r} : requests'[q] = requests[q]
      /\ requests' \in [Request -> Task] /\ n \in Task /\ Locals(n)
  BY <1>0 DEF RequestFacts, Becomes, Fits
<1>2. RequestFacts'
  <2>1. \A q \in Request : Locals(requests'[q])
    BY <1>0, <1>1 DEF RequestFacts
  <2>2. LockExclusion'
    <3> SUFFICES ASSUME NEW p \in Request, NEW q \in Request, p # q
                 PROVE  /\ (InCredential(p) /\ InCredential(q) => requests[p].user # requests[q].user)'
                        /\ (InEmail(p) /\ InEmail(q) => requests[p].to # requests[q].to)'
      BY DEF LockExclusion
    <3>1. CASE p = r
      BY <1>1, <3>1 DEF Fits, InCredential, InEmail
    <3>2. CASE q = r
      BY <1>1, <3>2 DEF Fits, InCredential, InEmail
    <3>3. CASE p # r /\ q # r
      BY <1>0, <1>1, <3>3 DEF RequestFacts, LockExclusion, InCredential, InEmail
    <3> QED
      BY <3>1, <3>2, <3>3
  <2> QED
    BY <1>1, <2>1, <2>2 DEF RequestFacts
<1>3. TableFacts' /\ LinksFollowAddress' /\ SessionFacts'
  BY <1>0 DEF TableFacts, LinksFollowAddress, SessionFacts, NoStaleSession, Exists
<1>4. EmailFacts'
  <2>1. AddressesDistinct'
    BY <1>0 DEF EmailFacts, AddressesDistinct, Exists
  <2>2. \A q \in Request : InEmail(q)' => ~Taken(requests'[q].to)
    BY <1>0, <1>1 DEF EmailFacts, Fits, InEmail
  <2>3. \A a : Taken(a)' <=> Taken(a)
    BY <1>0 DEF Taken, Exists
  <2> QED
    BY <2>1, <2>2, <2>3 DEF EmailFacts, InEmail, Taken
<1>5. AccountFacts'
  <2>1. \A q \in Request : requests'[q].op # None =>
          (requests'[q].op = "signUp" <=> account[requests'[q].user] = None)
    BY <1>0, <1>1 DEF AccountFacts, Fits
  <2>2. \A p, q \in Request : (p # q /\ requests'[p].op = "signUp") =>
          requests'[q].user # requests'[p].user
    <3>1. ASSUME NEW q \in Request \ {r}, requests[q].op = "signUp"
          PROVE  requests[q].user # n.user
      <4>1. CASE n.op = None
        <5>1. requests[q].user \in User /\ n.user = None
          BY <1>0, <1>1, <3>1, <4>1, IdleTask DEF RequestFacts, Locals, Op, Idle
        <5> QED
          BY <5>1
      <4> QED
        BY <3>1, <4>1 DEF Fits
    <3>2. ASSUME NEW q \in Request \ {r}, n.op = "signUp"
          PROVE  requests[q].user # n.user
      BY <3>2, IdleTask DEF Fits, Op
    <3> QED
      BY <1>0, <1>1, <3>1, <3>2 DEF AccountFacts
  <2> QED
    BY <1>0, <2>1, <2>2 DEF AccountFacts
<1>6. ChangeFacts'
  BY <1>0, <1>1 DEF ChangeFacts, Fits, InCredential
<1>7. ResetFacts'
  BY <1>0, <1>1 DEF ResetFacts, Fits, InCredential, LinksOf
<1> QED
  BY <1>2, <1>3, <1>4, <1>5, <1>6, <1>7, PartsAfter

LEMMA DoneStep ==
  ASSUME IInv, NEW r \in Request, Done(r),
         UNCHANGED <<store, writes, tokens, floor, resets>>
  PROVE  IInv'
<1>1. Fits(r, Idle)
  BY IdleTask DEF Fits, Op
<1> QED
  BY <1>1, LocalStep DEF Done, Becomes

\* A request of an account that exists, or did, outside both locks.
LEMMA OutsideStep ==
  ASSUME IInv, NEW r \in Request, NEW n, Becomes(r, n), n \in Task, Locals(n),
         n.op \in Op \ {"signUp"}, n.step # "locked", account[n.user] # None,
         n.op = "change" => /\ n.session.token <= tokens
                            /\ n.session \in sessions => n.round = resets[n.user],
         UNCHANGED <<store, writes, tokens, floor, resets>>
  PROVE  IInv'
<1>1. \A q \in Request : requests[q].op = "signUp" => account[requests[q].user] = None
  BY IdleTask DEF IInv, AccountFacts, Op
<1>2. Fits(r, n)
  BY <1>1, IdleTask DEF Fits
<1> QED
  BY <1>2, LocalStep

\* The sessions and links there are belong to accounts that exist, or did.
LEMMA RowsOf ==
  ASSUME IInv
  PROVE  /\ \A s \in sessions : /\ s \in Session /\ s.user \in User /\ Exists(s.user)
                                /\ account[s.user] # None /\ s.token <= tokens
         /\ \A l \in links : /\ l \in Link /\ l.user \in User /\ account[l.user] # None
         /\ \A u \in User : Exists(u) => account[u] \in Row /\ account[u] # None
BY DEF IInv, TypeOK, Exists, Session, Link, AccountFacts, ChangeFacts

LEMMA SignInInv ==
  ASSUME IInv, NEW r \in Request, NEW u \in User, SignIn(r, u)
  PROVE  IInv'
<1> DEFINE n == [Idle EXCEPT !.step = "lock", !.user = u, !.hash = account[u].hash,
                             !.op = "signIn"]
<1>1. Becomes(r, n) /\ account[u] \in Row /\ account[u] # None
  BY RowsOf DEF SignIn, Start, Becomes, Idle
<1>2. n \in Task /\ Locals(n) /\ n.op = "signIn" /\ n.step = "lock" /\ n.user = u
  BY <1>1, IdleTask DEF Task, Locals, Idle, Op, Row
<1> QED
  BY <1>1, <1>2, OutsideStep DEF SignIn, Op

LEMMA ForgotInv ==
  ASSUME IInv, NEW r \in Request, NEW u \in User, Forgot(r, u)
  PROVE  IInv'
<1> DEFINE n == [Idle EXCEPT !.step = "lock", !.user = u, !.to = account[u].address,
                             !.op = "forgot"]
<1>1. Becomes(r, n) /\ account[u] \in Row /\ account[u] # None
  BY RowsOf DEF Forgot, Start, Becomes, Idle
<1>2. n \in Task /\ Locals(n) /\ n.op = "forgot" /\ n.step = "lock" /\ n.user = u
  BY <1>1, IdleTask DEF Task, Locals, Idle, Op, Row
<1> QED
  BY <1>1, <1>2, OutsideStep DEF Forgot, Op

LEMMA ChangeInv ==
  ASSUME IInv, NEW r \in Request, NEW s \in sessions, NEW revoke \in BOOLEAN,
         Change(r, s, revoke)
  PROVE  IInv'
<1> DEFINE n == [Idle EXCEPT !.step = "verify", !.user = s.user, !.session = s,
                             !.revoke = revoke, !.round = resets[s.user], !.op = "change"]
<1>1. /\ Becomes(r, n) /\ s \in Session /\ s.user \in User /\ account[s.user] # None
      /\ s.token <= tokens /\ resets[s.user] \in Nat
  BY RowsOf DEF Change, Start, Becomes, Idle, IInv, TypeOK
<1>2. n \in Task /\ Locals(n) /\ n.op = "change" /\ n.step = "verify" /\ n.user = s.user
      /\ n.session = s /\ n.round = resets[s.user]
  BY <1>1, IdleTask DEF Task, Locals, Idle, Op
<1> QED
  BY <1>1, <1>2, OutsideStep DEF Change, Op

LEMMA ChangeAddressInv ==
  ASSUME IInv, NEW r \in Request, NEW s \in sessions, NEW a \in Address,
         ChangeAddress(r, s, a)
  PROVE  IInv'
<1> DEFINE n == [Idle EXCEPT !.step = "lock", !.user = s.user, !.to = a, !.op = "address"]
<1>1. Becomes(r, n) /\ s.user \in User /\ account[s.user] # None
  BY RowsOf DEF ChangeAddress, Start, Becomes, Idle
<1>2. n \in Task /\ Locals(n) /\ n.op = "address" /\ n.step = "lock" /\ n.user = s.user
  BY <1>1, IdleTask DEF Task, Locals, Idle, Op
<1> QED
  BY <1>1, <1>2, OutsideStep DEF ChangeAddress, Op

LEMMA DeleteInv ==
  ASSUME IInv, NEW r \in Request, NEW s \in sessions, Delete(r, s)
  PROVE  IInv'
<1> DEFINE n == [Idle EXCEPT !.step = "verify", !.user = s.user, !.op = "delete"]
<1>1. Becomes(r, n) /\ s.user \in User /\ account[s.user] # None
  BY RowsOf DEF Delete, Start, Becomes, Idle
<1>2. n \in Task /\ Locals(n) /\ n.op = "delete" /\ n.step = "verify" /\ n.user = s.user
  BY <1>1, IdleTask DEF Task, Locals, Idle, Op
<1> QED
  BY <1>1, <1>2, OutsideStep DEF Delete, Op

LEMMA ResetInv ==
  ASSUME IInv, NEW r \in Request, NEW l \in links, Reset(r, l)
  PROVE  IInv'
<1> DEFINE n == [Idle EXCEPT !.step = "lock", !.user = l.user, !.link = l, !.op = "reset"]
<1>1. Becomes(r, n) /\ l.user \in User /\ account[l.user] # None /\ l \in Link
  BY RowsOf DEF Reset, Start, Becomes, Idle
<1>2. n \in Task /\ Locals(n) /\ n.op = "reset" /\ n.step = "lock" /\ n.user = l.user
  BY <1>1, IdleTask DEF Task, Locals, Idle, Op
<1> QED
  BY <1>1, <1>2, OutsideStep DEF Reset, Op

\* A sign-up draws an id that no row and no request has.
LEMMA SignUpInv ==
  ASSUME IInv, NEW r \in Request, NEW u \in User, NEW a \in Address, SignUp(r, u, a)
  PROVE  IInv'
<1> DEFINE n == [Idle EXCEPT !.step = "lock", !.user = u, !.to = a, !.op = "signUp"]
<1>1. Becomes(r, n) /\ account[u] = None /\ \A q \in Request : requests[q].user # u
  BY DEF SignUp, Start, Becomes, Idle
<1>2. n \in Task /\ Locals(n) /\ n.op = "signUp" /\ n.step = "lock" /\ n.user = u
  BY IdleTask DEF Task, Locals, Idle, Op
<1>3. Fits(r, n)
  BY <1>1, <1>2, IdleTask DEF Fits, Op
<1> QED
  BY <1>1, <1>3, LocalStep DEF SignUp

\* What is known of a request under way.
LEMMA UnderWay ==
  ASSUME IInv, NEW r \in Request, requests[r].op \in Op
  PROVE  /\ requests[r] \in Task /\ Locals(requests[r]) /\ requests[r].user \in User
         /\ requests[r].op = "signUp" <=> account[requests[r].user] = None
BY IdleTask DEF IInv, TypeOK, Locals, AccountFacts

LEMMA VerifyPasswordInv ==
  ASSUME IInv, NEW r \in Request, VerifyPassword(r)
  PROVE  IInv'
<1> DEFINE u == requests[r].user
           n == [requests[r] EXCEPT !.step = "lock", !.hash = account[u].hash]
<1>0. requests[r].op \in {"change", "delete"} /\ requests[r].op \in Op
  BY DEF VerifyPassword, At, Op
<1>1. CASE Exists(u)
  <2>1. /\ requests[r] \in Task /\ Locals(requests[r]) /\ u \in User /\ account[u] # None
        /\ account[u] \in Row
    BY <1>0, <1>1, UnderWay, RowsOf
  <2>2. Becomes(r, n)
    BY <1>1, <2>1 DEF VerifyPassword, Becomes, IInv, TypeOK
  <2>3. /\ n \in Task /\ Locals(n) /\ n.op = requests[r].op /\ n.step = "lock" /\ n.user = u
        /\ n.session = requests[r].session /\ n.round = requests[r].round
    BY <1>0, <2>1, IdleTask DEF Task, Locals, Row
  <2>4. n.op = "change" => /\ n.session.token <= tokens
                           /\ n.session \in sessions => n.round = resets[n.user]
    BY <2>3 DEF IInv, ChangeFacts
  <2> QED
    BY <1>0, <2>1, <2>2, <2>3, <2>4, OutsideStep DEF VerifyPassword, Op
<1>2. CASE ~Exists(u)
  BY <1>2, DoneStep DEF VerifyPassword
<1> QED
  BY <1>1, <1>2

\* Entering credential:{user} for a change: its session has not been revoked, so
\* no reset has come in between.
LEMMA ChangeLocksInv ==
  ASSUME IInv, NEW r \in Request, ChangeLocks(r)
  PROVE  IInv'
<1> DEFINE u == requests[r].user
           n == [requests[r] EXCEPT !.step = "locked"]
<1>0. requests[r].op = "change" /\ requests[r].op \in Op
  BY DEF ChangeLocks, At, Op
<1>1. CASE MayChange(r, u)
  <2>1. requests[r] \in Task /\ Locals(requests[r]) /\ u \in User /\ account[u] # None
    BY <1>0, UnderWay
  <2>2. Becomes(r, n)
    BY <1>1, <2>1 DEF ChangeLocks, Proceed, Becomes, IInv, TypeOK
  <2>3. /\ n \in Task /\ Locals(n) /\ n.op = "change" /\ n.step = "locked" /\ n.user = u
        /\ n.session = requests[r].session /\ n.round = requests[r].round
    BY <1>0, <2>1, IdleTask DEF Task, Locals, Op
  <2>4. n.session.token <= tokens /\ n.round = resets[u]
    BY <1>0, <1>1, <2>3 DEF IInv, ChangeFacts, MayChange
  <2>5. \A q \in Request : InCredential(q) => requests[q].user # u
    BY DEF ChangeLocks, CredentialFree, InCredential, At
  <2>6. \A q \in Request : requests[q].op = "signUp" => requests[q].user # u
    BY <2>1, IdleTask DEF IInv, AccountFacts, Op
  <2>7. Fits(r, n)
    BY <2>1, <2>3, <2>4, <2>5, <2>6, IdleTask DEF Fits, Op
  <2> QED
    BY <2>2, <2>7, LocalStep DEF ChangeLocks
<1>2. CASE ~MayChange(r, u)
  BY <1>2, DoneStep DEF ChangeLocks
<1> QED
  BY <1>1, <1>2

\* Entering it for a reset: the link is still there, so no reset has swept it.
LEMMA ResetLocksInv ==
  ASSUME IInv, NEW r \in Request, ResetLocks(r)
  PROVE  IInv'
<1> DEFINE u == requests[r].user
           n == [requests[r] EXCEPT !.step = "locked", !.swept = LinksOf(u)]
<1>0. requests[r].op = "reset" /\ requests[r].op \in Op
  BY DEF ResetLocks, At, Op
<1>1. CASE Consumed(r)
  <2>1. requests[r] \in Task /\ Locals(requests[r]) /\ u \in User /\ account[u] # None
    BY <1>0, UnderWay
  <2>2. Becomes(r, n)
    BY <1>1, <2>1 DEF ResetLocks, Becomes, IInv, TypeOK
  <2>3. LinksOf(u) \subseteq Link
    BY DEF LinksOf, IInv, TypeOK
  <2>4. /\ n \in Task /\ Locals(n) /\ n.op = "reset" /\ n.step = "locked" /\ n.user = u
        /\ n.link = requests[r].link /\ n.swept = LinksOf(u)
    BY <1>0, <2>1, <2>3, IdleTask DEF Task, Locals, Op
  <2>5. n.link.round >= resets[u]
    BY <1>0, <1>1, <2>1, <2>4 DEF Locals, Consumed, IInv, ResetFacts
  <2>6. \A q \in Request : InCredential(q) => requests[q].user # u
    BY DEF ResetLocks, CredentialFree, InCredential, At
  <2>7. \A q \in Request : requests[q].op = "signUp" => requests[q].user # u
    BY <2>1, IdleTask DEF IInv, AccountFacts, Op
  <2>8. Fits(r, n)
    BY <2>1, <2>4, <2>5, <2>6, <2>7, IdleTask DEF Fits, Op
  <2> QED
    BY <2>2, <2>8, LocalStep DEF ResetLocks
<1>2. CASE ~Consumed(r)
  <2>1. Done(r)
    BY <1>2 DEF ResetLocks, Done, IInv, TypeOK
  <2> QED
    BY <2>1, DoneStep DEF ResetLocks
<1> QED
  BY <1>1, <1>2

\* Entering user-email:{address}: the address is free.
LEMMA EmailLocksInv ==
  ASSUME IInv, NEW r \in Request, EmailLocks(r)
  PROVE  IInv'
<1> DEFINE a == requests[r].to
           n == [requests[r] EXCEPT !.step = "locked"]
<1>0. requests[r].op \in {"signUp", "address"} /\ requests[r].op \in Op
  BY DEF EmailLocks, At, Op
<1>1. CASE ~Taken(a)
  <2>1. /\ requests[r] \in Task /\ Locals(requests[r]) /\ requests[r].user \in User
        /\ requests[r].op = "signUp" <=> account[requests[r].user] = None
    BY <1>0, UnderWay
  <2>2. Becomes(r, n)
    BY <1>1, <2>1 DEF EmailLocks, Proceed, Becomes, IInv, TypeOK
  <2>3. /\ n \in Task /\ Locals(n) /\ n.op = requests[r].op /\ n.step = "locked"
        /\ n.user = requests[r].user /\ n.to = a
    BY <1>0, <2>1, IdleTask DEF Task, Locals, Op
  <2>4. \A q \in Request : InEmail(q) => requests[q].to # a
    BY DEF EmailLocks, EmailLocked, EmailFree, InEmail, At
  <2>5. \A q \in Request \ {r} : (requests[r].op = "signUp" \/ requests[q].op = "signUp") =>
          requests[q].user # requests[r].user
    BY <1>0, <2>1, IdleTask DEF IInv, AccountFacts, Op
  <2>6. Fits(r, n)
    BY <1>0, <1>1, <2>1, <2>3, <2>4, <2>5, IdleTask DEF Fits, Op
  <2> QED
    BY <2>2, <2>6, LocalStep DEF EmailLocks
<1>2. CASE Taken(a)
  BY <1>2, DoneStep DEF EmailLocks
<1> QED
  BY <1>1, <1>2

(***************************************************************************)
(* Steps that commit.  No request is further than before.                  *)
(***************************************************************************)

Fewer ==
  /\ requests' \in [Request -> Task]
  /\ \A q \in Request : requests'[q] = requests[q] \/ requests'[q] = Idle

LEMMA DoneFewer ==
  ASSUME IInv, NEW r \in Request, Done(r)
  PROVE  /\ Fewer /\ requests'[r] = Idle
         /\ \A q \in Request \ {r} : requests'[q] = requests[q]
BY IdleTask DEF Done, Fewer, IInv, TypeOK

LEMMA SameFewer ==
  ASSUME IInv, requests' = requests
  PROVE  Fewer
BY DEF Fewer, IInv, TypeOK

\* A request that ended is in no lock.
LEMMA StillInside ==
  ASSUME Fewer, NEW q \in Request
  PROVE  /\ InCredential(q)' => InCredential(q) /\ requests'[q] = requests[q]
         /\ InEmail(q)' => InEmail(q) /\ requests'[q] = requests[q]
         /\ requests'[q].op # None => requests'[q] = requests[q]
BY IdleTask DEF Fewer, InCredential, InEmail

LEMMA FewerRequests ==
  ASSUME IInv, Fewer
  PROVE  RequestFacts'
<1>1. \A q \in Request : Locals(requests'[q])
  BY IdleTask DEF Fewer, IInv
<1>2. LockExclusion'
  BY StillInside DEF IInv, LockExclusion
<1> QED
  BY <1>1, <1>2 DEF RequestFacts, Fewer

\* Addresses stay where they are, or go.
LEMMA SameAddresses ==
  ASSUME IInv, Fewer,
         \A u \in User : Exists(u)' => Exists(u) /\ account'[u].address = account[u].address
  PROVE  EmailFacts'
<1>1. AddressesDistinct'
  BY DEF IInv, EmailFacts, AddressesDistinct
<1>2. \A q \in Request : InEmail(q)' => InEmail(q) /\ requests'[q] = requests[q]
  BY StillInside
<1>3. \A q \in Request : InEmail(q)' => ~(Taken(requests[q].to)')
  BY <1>2 DEF IInv, EmailFacts, Taken
<1> QED
  BY <1>1, <1>2, <1>3 DEF EmailFacts, Taken

\* No account comes into being.
LEMMA SameAccounts ==
  ASSUME IInv, Fewer, \A u \in User : account'[u] = None <=> account[u] = None,
         \A l \in links' \ links : account[l.user] # None, links' \subseteq Link
  PROVE  AccountFacts'
<1>1. \A q \in Request : requests'[q].op # None =>
        (requests'[q].op = "signUp" <=> account'[requests'[q].user] = None)
  BY StillInside DEF IInv, AccountFacts, Locals
<1>2. \A p, q \in Request : (p # q /\ requests'[p].op = "signUp") =>
        requests'[q].user # requests'[p].user
  <2> SUFFICES ASSUME NEW p \in Request, NEW q \in Request, p # q, requests'[p].op = "signUp"
               PROVE  requests'[q].user # requests'[p].user
    OBVIOUS
  <2>1. requests'[p] = requests[p] /\ requests[p].user \in User
    BY StillInside, IdleTask DEF Op, IInv, Locals
  <2>2. requests'[q] = requests[q] \/ requests'[q].user = None
    BY DEF Fewer, Idle
  <2> QED
    BY <2>1, <2>2 DEF IInv, AccountFacts
<1>3. \A l \in links' : account'[l.user] # None
  BY DEF IInv, AccountFacts, Link
<1> QED
  BY <1>1, <1>2, <1>3 DEF AccountFacts

\* Sessions that are opened have a new token.
LEMMA SameChanges ==
  ASSUME IInv, Fewer, tokens' \in Nat, tokens <= tokens', resets' = resets,
         \A s \in sessions' \ sessions : tokens < s.token /\ s.token <= tokens'
  PROVE  ChangeFacts'
<1>0. /\ tokens \in Nat /\ \A s \in sessions : s.token <= tokens /\ s.token \in Nat
      /\ \A q \in Request : requests[q].op = "change" => requests[q].session.token \in Nat
  BY DEF IInv, TypeOK, ChangeFacts, Session, Locals
<1>1. \A s \in sessions' : s.token <= tokens'
  BY <1>0
<1>2. ASSUME NEW q \in Request, requests'[q].op = "change"
      PROVE  /\ requests'[q].session.token <= tokens'
             /\ requests'[q].session \in sessions' \/ InCredential(q)'
                  => requests'[q].round = resets'[requests'[q].user]
  <2>1. /\ requests'[q] = requests[q] /\ requests[q].session.token <= tokens
        /\ requests[q].session \in sessions \/ InCredential(q)
             => requests[q].round = resets[requests[q].user]
    BY <1>2, StillInside, IdleTask DEF Op, IInv, ChangeFacts
  <2>2. requests[q].session \in sessions' => requests[q].session \in sessions
    BY <1>0, <1>2, <2>1
  <2> QED
    BY <1>0, <1>2, <2>1, <2>2, StillInside
<1> QED
  BY <1>1, <1>2 DEF ChangeFacts

\* Links only go.
LEMMA SameLinks ==
  ASSUME IInv, Fewer, resets' = resets, links' \subseteq links
  PROVE  ResetFacts'
<1>1. \A l \in links' : l.round >= resets'[l.user]
  BY DEF IInv, ResetFacts
<1>2. ASSUME NEW q \in Request, InCredential(q)', requests'[q].op = "reset"
      PROVE  /\ requests'[q].link.round >= resets'[requests'[q].user]
             /\ \A l \in LinksOf(requests[q].user)' \ requests'[q].swept :
                  l.round >= resets'[requests'[q].user] + 1
  BY <1>2, StillInside DEF IInv, ResetFacts, LinksOf
<1> QED
  BY <1>1, <1>2 DEF ResetFacts

\* Hashes only get younger, and nothing ends sessions.
LEMMA SameSessions ==
  ASSUME IInv, floor' = floor, writes' \in Nat, writes <= writes',
         \A u \in User : Exists(u)' => floor[u] <= account'[u].hash /\ account'[u].hash <= writes',
         \A s \in sessions' \ sessions : s.via >= floor[s.user]
  PROVE  SessionFacts'
<1>0. writes \in Nat /\ \A u \in User : floor[u] \in Nat /\ floor[u] <= writes
  BY DEF IInv, TypeOK, SessionFacts
<1>1. NoStaleSession'
  BY DEF IInv, SessionFacts, NoStaleSession
<1>2. \A u \in User : floor'[u] <= writes'
  BY <1>0
<1> QED
  BY <1>1, <1>2 DEF SessionFacts, Exists

LEMMA Bounds ==
  ASSUME IInv
  PROVE  /\ writes \in Nat /\ tokens \in Nat /\ writes <= MaxWrites /\ tokens <= MaxTokens
         /\ \A u \in User : floor[u] \in Nat /\ floor[u] <= writes /\ resets[u] \in Nat
         /\ \A u \in User : Exists(u) => /\ account[u] \in Row /\ account[u].hash \in Nat
                                         /\ floor[u] <= account[u].hash
                                         /\ account[u].hash <= writes
BY RowsOf DEF IInv, TypeOK, SessionFacts, Row

\* signOut and the like.
LEMMA EndSessionsInv ==
  ASSUME IInv, NEW s \in sessions, EndSessions(s)
  PROVE  IInv'
<1>1. /\ Fewer /\ sessions' \subseteq sessions
      /\ UNCHANGED <<account, links, writes, tokens, floor, resets>>
  BY SameFewer DEF EndSessions
<1>2. TableFacts'
  BY <1>1 DEF IInv, TypeOK, TableFacts, Exists
<1>3. EmailFacts' /\ AccountFacts' /\ ChangeFacts' /\ ResetFacts' /\ SessionFacts'
  BY <1>1, Bounds, SameAddresses, SameAccounts, SameChanges, SameLinks, SameSessions
     DEF Exists, IInv, TypeOK
<1>4. LinksFollowAddress'
  BY <1>1 DEF IInv, LinksFollowAddress, Exists
<1> QED
  BY <1>1, <1>2, <1>3, <1>4, FewerRequests, PartsAfter

\* A row is rewritten in place: hash, verified, or both.
LEMMA Rewritten ==
  ASSUME IInv, NEW u \in User, Exists(u), NEW row \in Row, account' = [account EXCEPT ![u] = row]
  PROVE  /\ account' \in [User -> {None, Gone} \cup Row] /\ account'[u] = row
         /\ \A w \in User \ {u} : account'[w] = account[w]
         /\ \A w \in User : Exists(w)' <=> Exists(w)
         /\ \A w \in User : account'[w] = None <=> account[w] = None
BY DEF IInv, TypeOK, Exists

LEMMA VerifyEmailInv ==
  ASSUME IInv, NEW u \in User, VerifyEmail(u)
  PROVE  IInv'
<1> DEFINE row == [account[u] EXCEPT !.verified = TRUE]
<1>1. /\ Fewer /\ Exists(u) /\ account[u] \in Row
      /\ UNCHANGED <<sessions, links, requests, writes, tokens, floor, resets>>
  BY SameFewer, Bounds DEF VerifyEmail
<1>2. row \in Row /\ row.address = account[u].address /\ row.hash = account[u].hash
  BY <1>1 DEF Row
<1>3. account' = [account EXCEPT ![u] = row]
  BY DEF VerifyEmail
<1>4. /\ account' \in [User -> {None, Gone} \cup Row] /\ account'[u] = row
      /\ \A w \in User \ {u} : account'[w] = account[w]
      /\ \A w \in User : Exists(w)' <=> Exists(w)
      /\ \A w \in User : account'[w] = None <=> account[w] = None
  BY <1>1, <1>2, <1>3, Rewritten
<1> HIDE DEF row
<1>5. TableFacts'
  BY <1>1, <1>4 DEF IInv, TypeOK, TableFacts, Session
<1>6. EmailFacts' /\ AccountFacts' /\ ChangeFacts' /\ ResetFacts' /\ SessionFacts'
  BY <1>1, <1>2, <1>4, Bounds, SameAddresses, SameAccounts, SameChanges, SameLinks,
     SameSessions DEF IInv, TypeOK
<1>7. LinksFollowAddress'
  BY <1>1, <1>2, <1>4 DEF IInv, LinksFollowAddress, TypeOK, Link
<1> QED
  BY <1>1, <1>5, <1>6, <1>7, FewerRequests, PartsAfter

\* The session of a sign-in is as young as the hash it was verified against.
LEMMA PasswordSessionInv ==
  ASSUME IInv, NEW r \in Request, PasswordSession(r)
  PROVE  IInv'
<1> DEFINE u == requests[r].user
           s == Opened(u, requests[r].hash)
<1>0. u \in User /\ Fewer
  BY UnderWay, DoneFewer DEF PasswordSession, At, Op
<1>1. CASE StillVerified(r, u)
  <2>1. /\ Exists(u) /\ account[u] \in Row /\ account[u].hash = requests[r].hash
        /\ sessions' = sessions \cup {s} /\ tokens' = tokens + 1 /\ tokens < MaxTokens
        /\ UNCHANGED <<account, links, writes, floor, resets>>
    BY <1>0, <1>1, Bounds DEF PasswordSession, StillVerified, Drawn
  <2>2. s \in Session /\ s.user = u /\ s.via = account[u].hash /\ s.token = tokens + 1
    BY <1>0, <2>1, Bounds DEF Opened, Session, Row
  <2> HIDE DEF s
  <2>3. TableFacts'
    BY <2>1, <2>2, Bounds DEF IInv, TypeOK, TableFacts, Exists
  <2>4. EmailFacts' /\ AccountFacts' /\ ChangeFacts' /\ ResetFacts' /\ SessionFacts'
    BY <1>0, <2>1, <2>2, Bounds, SameAddresses, SameAccounts, SameChanges, SameLinks,
       SameSessions DEF Exists, IInv, TypeOK
  <2>5. LinksFollowAddress'
    BY <2>1 DEF IInv, LinksFollowAddress, Exists
  <2> QED
    BY <1>0, <2>3, <2>4, <2>5, FewerRequests, PartsAfter
<1>2. CASE ~StillVerified(r, u)
  BY <1>2, DoneStep DEF PasswordSession, store
<1> QED
  BY <1>1, <1>2

\* No other change or reset of the account is inside the lock.
LEMMA AloneInside ==
  ASSUME IInv, NEW r \in Request, InCredential(r), NEW q \in Request, q # r, InCredential(q)
  PROVE  requests[q].user # requests[r].user
BY DEF IInv, LockExclusion

\* What a request inside credential:{user} is.
LEMMA Inside ==
  ASSUME IInv, NEW r \in Request, NEW op \in {"change", "reset"}, At(r, op, "locked")
  PROVE  /\ InCredential(r) /\ requests[r].op = op /\ requests[r].user \in User
         /\ Locals(requests[r]) /\ requests[r] \in Task
BY UnderWay DEF At, InCredential, Op

LEMMA HashedRow ==
  ASSUME IInv, NEW u \in User, Exists(u), Hashed(u)
  PROVE  \E row \in Row :
           /\ account' = [account EXCEPT ![u] = row]
           /\ row.address = account[u].address /\ row.hash = writes + 1
           /\ writes' = writes + 1 /\ writes + 1 \in 0 .. MaxWrites
<1>1. writes + 1 \in 0 .. MaxWrites /\ account[u] \in Row
  BY Bounds DEF Hashed
<1> DEFINE row == [account[u] EXCEPT !.hash = writes + 1]
<1>2. row \in Row /\ row.address = account[u].address /\ row.hash = writes + 1
  BY <1>1 DEF Row
<1>3. account' = [account EXCEPT ![u] = row]
  BY DEF Hashed
<1> HIDE DEF row
<1> QED
  BY <1>1, <1>2, <1>3 DEF Hashed

\* A change of password ends the other sessions or leaves them all.
LEMMA ChangePasswordInv ==
  ASSUME IInv, NEW r \in Request, ChangePassword(r)
  PROVE  IInv'
<1> DEFINE u == requests[r].user
           s == Opened(u, writes')
<1>0. u \in User /\ Fewer /\ Exists(u)
  BY Inside, DoneFewer DEF ChangePassword
<1>1. PICK row \in Row : /\ account' = [account EXCEPT ![u] = row]
                         /\ row.address = account[u].address /\ row.hash = writes + 1
                         /\ writes' = writes + 1 /\ writes + 1 \in 0 .. MaxWrites
  BY <1>0, HashedRow DEF ChangePassword
<1>2. /\ account' \in [User -> {None, Gone} \cup Row] /\ account'[u] = row
      /\ \A w \in User \ {u} : account'[w] = account[w]
      /\ \A w \in User : Exists(w)' <=> Exists(w)
      /\ \A w \in User : account'[w] = None <=> account[w] = None
  BY <1>0, <1>1, Rewritten
<1>3. /\ links' = links /\ resets' = resets
      /\ \/ UNCHANGED <<sessions, tokens, floor>>
         \/ /\ sessions' = (sessions \ SessionsOf(u)) \cup {s}
            /\ tokens' = tokens + 1 /\ tokens < MaxTokens
            /\ floor' = [floor EXCEPT ![u] = writes + 1]
  BY <1>1 DEF ChangePassword, Drawn
<1>4. s \in Session \/ UNCHANGED <<sessions, tokens, floor>>
  BY <1>0, <1>1, <1>3, Bounds DEF Opened, Session
<1>5. s.user = u /\ s.via = writes + 1 /\ s.token = tokens + 1
  BY <1>1 DEF Opened
<1> HIDE DEF s
<1>6. TableFacts'
  <2>1. sessions' \subseteq Session /\ \A x \in sessions' : Exists(x.user)'
    BY <1>0, <1>2, <1>3, <1>4, <1>5 DEF IInv, TypeOK, Session
  <2>2. tokens' \in 0 .. MaxTokens /\ floor' \in [User -> 0 .. MaxWrites]
    BY <1>1, <1>3, Bounds DEF IInv, TypeOK
  <2> QED
    BY <1>1, <1>2, <1>3, <2>1, <2>2 DEF IInv, TypeOK, TableFacts
<1>7. EmailFacts' /\ AccountFacts' /\ ResetFacts' /\ LinksFollowAddress'
  <2>1. \A w \in User : Exists(w)' => Exists(w) /\ account'[w].address = account[w].address
    BY <1>1, <1>2
  <2>2. LinksFollowAddress'
    BY <1>3, <2>1 DEF IInv, LinksFollowAddress, TypeOK, Link
  <2> QED
    BY <1>0, <1>2, <1>3, <2>1, <2>2, SameAddresses, SameAccounts, SameLinks DEF IInv, TypeOK
<1>8. ChangeFacts'
  BY <1>0, <1>3, <1>5, Bounds, SameChanges
<1>9. SessionFacts'
  <2>1. \A w \in User : /\ floor'[w] <= writes + 1
                        /\ Exists(w)' => floor'[w] <= account'[w].hash
                                         /\ account'[w].hash <= writes + 1
    BY <1>0, <1>1, <1>2, <1>3, Bounds DEF IInv, TypeOK
  <2>2. NoStaleSession'
    <3> SUFFICES ASSUME NEW x \in sessions' PROVE x.via >= floor'[x.user]
      BY DEF NoStaleSession
    <3>1. CASE UNCHANGED <<sessions, tokens, floor>>
      BY <3>1 DEF IInv, SessionFacts, NoStaleSession
    <3>2. CASE x = s /\ floor' = [floor EXCEPT ![u] = writes + 1]
      BY <1>0, <1>5, <3>2, Bounds DEF IInv, TypeOK
    <3>3. CASE x \in sessions \ SessionsOf(u) /\ floor' = [floor EXCEPT ![u] = writes + 1]
      BY <3>3 DEF IInv, SessionFacts, NoStaleSession, TypeOK, SessionsOf, Session
    <3> QED
      BY <1>3, <3>1, <3>2, <3>3
  <2> QED
    BY <1>1, <2>1, <2>2 DEF SessionFacts, Exists
<1> QED
  BY <1>0, <1>6, <1>7, <1>8, <1>9, FewerRequests, PartsAfter

\* A reset sweeps the account's links and sessions: only what was stored while it
\* swept stays, and counts as later than it.
LEMMA ResetPasswordInv ==
  ASSUME IInv, NEW r \in Request, ResetPassword(r)
  PROVE  IInv'
<1> DEFINE u == requests[r].user
<1>0. /\ u \in User /\ Fewer /\ Exists(u) /\ InCredential(r) /\ requests[r].op = "reset"
      /\ requests'[r] = Idle /\ \A q \in Request \ {r} : requests'[q] = requests[q]
  BY Inside, DoneFewer DEF ResetPassword
<1>1. PICK row \in Row : /\ account' = [account EXCEPT ![u] = row]
                         /\ row.address = account[u].address /\ row.hash = writes + 1
                         /\ writes' = writes + 1 /\ writes + 1 \in 0 .. MaxWrites
  BY <1>0, HashedRow DEF ResetPassword
<1>2. /\ account' \in [User -> {None, Gone} \cup Row] /\ account'[u] = row
      /\ \A w \in User \ {u} : account'[w] = account[w]
      /\ \A w \in User : Exists(w)' <=> Exists(w)
      /\ \A w \in User : account'[w] = None <=> account[w] = None
  BY <1>0, <1>1, Rewritten
<1>3. /\ links' = links \ requests[r].swept /\ sessions' = sessions \ SessionsOf(u)
      /\ floor' = [floor EXCEPT ![u] = writes + 1] /\ tokens' = tokens
      /\ resets' = [resets EXCEPT ![u] = @ + 1]
  BY <1>1 DEF ResetPassword
<1>4. /\ \A w \in User \ {u} : floor'[w] = floor[w] /\ resets'[w] = resets[w]
      /\ floor'[u] = writes + 1 /\ resets'[u] = resets[u] + 1 /\ resets[u] \in Nat
      /\ floor' \in [User -> 0 .. MaxWrites] /\ resets' \in [User -> Nat]
  BY <1>0, <1>1, <1>3 DEF IInv, TypeOK
<1>5. TableFacts'
  BY <1>1, <1>2, <1>3, <1>4 DEF IInv, TypeOK, TableFacts, Session
<1>6. EmailFacts' /\ AccountFacts' /\ LinksFollowAddress'
  <2>1. \A w \in User : Exists(w)' => Exists(w) /\ account'[w].address = account[w].address
    BY <1>1, <1>2
  <2>2. LinksFollowAddress'
    BY <1>3, <2>1 DEF IInv, LinksFollowAddress, TypeOK, Link
  <2> QED
    BY <1>0, <1>2, <1>3, <2>1, <2>2, SameAddresses, SameAccounts DEF IInv, TypeOK
<1>7. SessionFacts'
  <2>1. \A w \in User : /\ floor'[w] <= writes + 1
                        /\ Exists(w)' => floor'[w] <= account'[w].hash
                                         /\ account'[w].hash <= writes + 1
    BY <1>0, <1>1, <1>2, <1>4, Bounds
  <2>2. NoStaleSession'
    BY <1>3, <1>4 DEF IInv, SessionFacts, NoStaleSession, TypeOK, SessionsOf, Session
  <2> QED
    BY <1>1, <2>1, <2>2 DEF SessionFacts, Exists
<1>8. ChangeFacts'
  <2>1. \A s \in sessions' : s.token <= tokens'
    BY <1>3 DEF IInv, ChangeFacts
  <2>2. ASSUME NEW q \in Request, requests'[q].op = "change"
        PROVE  /\ requests'[q].session.token <= tokens'
               /\ requests'[q].session \in sessions' \/ InCredential(q)'
                    => requests'[q].round = resets'[requests'[q].user]
    <3>1. /\ q # r /\ requests'[q] = requests[q] /\ requests[q].session.token <= tokens
          /\ requests[q].session.user = requests[q].user /\ requests[q].user \in User
          /\ requests[q].session \in sessions \/ InCredential(q)
               => requests[q].round = resets[requests[q].user]
      BY <1>0, <2>2, IdleTask DEF Op, IInv, ChangeFacts, Locals
    <3>2. CASE requests[q].user = u
      <4>1. requests[q].session \notin sessions'
        BY <1>3, <3>1, <3>2 DEF SessionsOf
      <4>2. ~InCredential(q)'
        BY <1>0, <3>1, <3>2, AloneInside DEF InCredential
      <4> QED
        BY <1>3, <3>1, <4>1, <4>2
    <3>3. CASE requests[q].user # u
      BY <1>3, <1>4, <3>1, <3>3 DEF InCredential
    <3> QED
      BY <3>2, <3>3
  <2> QED
    BY <2>1, <2>2 DEF ChangeFacts
<1>9. ResetFacts'
  <2>1. ASSUME NEW l \in links' PROVE l.round >= resets'[l.user]
    <3>1. l \in links /\ l.user \in User /\ l.round >= resets[l.user] /\ l \notin requests[r].swept
      BY <1>3, <2>1, RowsOf DEF IInv, ResetFacts
    <3>2. CASE l.user = u
      <4>1. l \in LinksOf(u) \ requests[r].swept
        BY <3>1, <3>2 DEF LinksOf
      <4> QED
        BY <1>0, <1>4, <3>2, <4>1 DEF IInv, ResetFacts
    <3> QED
      BY <1>4, <3>1, <3>2
  <2>2. ASSUME NEW q \in Request, InCredential(q)', requests'[q].op = "reset"
        PROVE  /\ requests'[q].link.round >= resets'[requests'[q].user]
               /\ \A l \in LinksOf(requests[q].user)' \ requests'[q].swept :
                    l.round >= resets'[requests'[q].user] + 1
    <3>1. /\ q # r /\ requests'[q] = requests[q] /\ InCredential(q)
          /\ requests[q].user \in User /\ requests[q].user # u
      BY <1>0, <2>2, StillInside, AloneInside, IdleTask DEF Op, IInv, Locals
    <3> QED
      BY <1>3, <1>4, <2>2, <3>1 DEF IInv, ResetFacts, LinksOf
  <2>3. \A q \in Request : InCredential(q)' => requests'[q] = requests[q]
    BY <1>0, StillInside
  <2> QED
    BY <2>1, <2>2, <2>3 DEF ResetFacts, LinksOf
<1> QED
  BY <1>0, <1>5, <1>6, <1>7, <1>8, <1>9, FewerRequests, PartsAfter

\* A link is stored by a task that knows the account, or knew it.
LEMMA StoreLinkInv ==
  ASSUME IInv, NEW r \in Request, StoreLink(r)
  PROVE  IInv'
<1> DEFINE u == requests[r].user
           sw == IF Sweeping(u) THEN 1 ELSE 0
           l == [token |-> tokens + 1, user |-> u, to |-> requests[r].to,
                 late |-> ~Exists(u) \/ account[u].address # requests[r].to,
                 round |-> resets[u] + sw]
<1>0. /\ u \in User /\ Fewer /\ requests[r].to \in Address /\ account[u] # None
      /\ requests'[r] = Idle /\ \A q \in Request \ {r} : requests'[q] = requests[q]
  BY UnderWay, DoneFewer DEF StoreLink, At, Op, Locals
<1>1. /\ links' = links \cup {l} /\ tokens' = tokens + 1 /\ tokens < MaxTokens
      /\ UNCHANGED <<account, sessions, writes, floor, resets>>
  BY DEF StoreLink, Drawn
<1>2. /\ l \in Link /\ l.user = u /\ l.round = resets[u] + sw /\ sw \in {0, 1}
      /\ l.to = requests[r].to /\ resets[u] \in Nat
      /\ l.late = (~Exists(u) \/ account[u].address # requests[r].to)
  BY <1>0, <1>1, Bounds DEF Link
<1> HIDE DEF l
<1>3. TableFacts'
  BY <1>1, <1>2, Bounds DEF IInv, TypeOK, TableFacts, Exists
<1>4. EmailFacts' /\ AccountFacts' /\ ChangeFacts' /\ SessionFacts'
  BY <1>0, <1>1, <1>2, Bounds, SameAddresses, SameAccounts, SameChanges, SameSessions
     DEF Exists, IInv, TypeOK
<1>5. LinksFollowAddress'
  BY <1>1, <1>2 DEF IInv, LinksFollowAddress, Exists
<1>6. ResetFacts'
  <2>1. \A k \in links' : k.round >= resets'[k.user]
    BY <1>0, <1>1, <1>2 DEF IInv, ResetFacts
  <2>2. ASSUME NEW q \in Request, InCredential(q)', requests'[q].op = "reset"
        PROVE  /\ requests'[q].link.round >= resets'[requests'[q].user]
               /\ \A k \in LinksOf(requests[q].user)' \ requests'[q].swept :
                    k.round >= resets'[requests'[q].user] + 1
    <3>1. requests'[q] = requests[q] /\ InCredential(q) /\ requests[q].op = "reset"
      BY <1>0, <2>2, StillInside
    <3>2. requests[q].user = u => sw = 1
      BY <3>1 DEF Sweeping, InCredential, At
    <3>3. \A k \in LinksOf(requests[q].user)' : k \in LinksOf(requests[q].user) \/ k = l
      BY <1>1, <3>1 DEF LinksOf
    <3>4. l \in LinksOf(requests[q].user)' => requests[q].user = u
      BY <1>2, <3>1 DEF LinksOf
    <3> QED
      BY <1>1, <1>2, <3>1, <3>2, <3>3, <3>4 DEF IInv, ResetFacts
  <2>3. \A q \in Request : InCredential(q)' => requests'[q] = requests[q]
    BY <1>0, StillInside
  <2> QED
    BY <2>1, <2>2, <2>3 DEF ResetFacts, LinksOf
<1> QED
  BY <1>0, <1>3, <1>4, <1>5, <1>6, FewerRequests, PartsAfter

\* A sign-up brings an account into being: nothing refers to its id, and nobody
\* has its address.
LEMMA InsertUserInv ==
  ASSUME IInv, NEW r \in Request, InsertUser(r)
  PROVE  IInv'
<1> DEFINE u == requests[r].user
           row == [hash |-> writes + 1, address |-> requests[r].to, verified |-> FALSE]
<1>0. /\ u \in User /\ Fewer /\ requests[r].to \in Address /\ account[u] = None
      /\ requests[r].op = "signUp" /\ InEmail(r) /\ ~Taken(requests[r].to)
      /\ requests'[r] = Idle /\ \A q \in Request \ {r} : requests'[q] = requests[q]
  BY UnderWay, DoneFewer DEF InsertUser, At, Op, Locals, InEmail, IInv, EmailFacts
<1>1. /\ account' = [account EXCEPT ![u] = row] /\ writes' = writes + 1 /\ writes < MaxWrites
      /\ UNCHANGED <<sessions, links, tokens, floor, resets>>
  BY DEF InsertUser
<1>2. row \in Row /\ row.address = requests[r].to /\ row.hash = writes + 1
  BY <1>0, <1>1, Bounds DEF Row
<1> HIDE DEF row
<1>3. /\ account' \in [User -> {None, Gone} \cup Row] /\ account'[u] = row
      /\ \A w \in User \ {u} : account'[w] = account[w]
      /\ account'[u] \notin {None, Gone} /\ ~Exists(u)
      /\ \A w \in User \ {u} : Exists(w)' <=> Exists(w)
  BY <1>0, <1>1, <1>2 DEF IInv, TypeOK, Exists
<1>4. TableFacts'
  <2>1. \A s \in sessions' : Exists(s.user)'
    BY <1>1, <1>3, RowsOf
  <2> QED
    BY <1>1, <1>3, <2>1, Bounds DEF IInv, TypeOK, TableFacts
<1>5. EmailFacts'
  <2>1. AddressesDistinct'
    <3> SUFFICES ASSUME NEW v \in User, NEW w \in User, v # w, Exists(v)', Exists(w)'
                 PROVE  account'[v].address # account'[w].address
      BY DEF AddressesDistinct
    <3>1. \A x \in User \ {u} : Exists(x)' => account'[x].address # requests[r].to
      BY <1>0, <1>3 DEF Taken
    <3> QED
      BY <1>2, <1>3, <3>1 DEF IInv, EmailFacts, AddressesDistinct
  <2>2. ASSUME NEW q \in Request, InEmail(q)' PROVE ~(Taken(requests[q].to)')
    <3>1. /\ InEmail(q) /\ q # r /\ requests[q].to # requests[r].to /\ ~Taken(requests[q].to)
          /\ requests'[q] = requests[q]
      BY <1>0, <2>2, StillInside, IdleTask DEF IInv, LockExclusion, EmailFacts, InEmail
    <3> QED
      BY <1>2, <1>3, <3>1 DEF Taken
  <2>3. \A q \in Request : InEmail(q)' => requests'[q] = requests[q]
    BY <1>0, StillInside
  <2> QED
    BY <2>1, <2>2, <2>3 DEF EmailFacts, Taken
<1>6. AccountFacts'
  <2>1. ASSUME NEW q \in Request, requests'[q].op # None
        PROVE  requests'[q].op = "signUp" <=> account'[requests'[q].user] = None
    <3>1. q # r /\ requests'[q] = requests[q] /\ requests[q].user # u /\ requests[q].user \in User
      BY <1>0, <2>1, IdleTask DEF IInv, AccountFacts, Locals
    <3> QED
      BY <1>3, <2>1, <3>1 DEF IInv, AccountFacts
  <2>2. \A p, q \in Request : (p # q /\ requests'[p].op = "signUp") =>
          requests'[q].user # requests'[p].user
    <3> SUFFICES ASSUME NEW p \in Request, NEW q \in Request, p # q, requests'[p].op = "signUp"
                 PROVE  requests'[q].user # requests'[p].user
      OBVIOUS
    <3>1. requests'[p] = requests[p] /\ requests[p].user \in User
      BY <1>0, StillInside, IdleTask DEF Op, IInv, Locals
    <3>2. requests'[q] = requests[q] \/ requests'[q].user = None
      BY <1>0 DEF Fewer, Idle
    <3> QED
      BY <3>1, <3>2 DEF IInv, AccountFacts
  <2>3. \A l \in links' : account'[l.user] # None
    BY <1>0, <1>1, <1>3, RowsOf
  <2> QED
    BY <2>1, <2>2, <2>3 DEF AccountFacts
<1>7. SessionFacts' /\ ChangeFacts' /\ ResetFacts'
  <2>1. \A w \in User : Exists(w)' => floor[w] <= account'[w].hash /\ account'[w].hash <= writes'
    BY <1>1, <1>2, <1>3, Bounds
  <2> QED
    BY <1>0, <1>1, <2>1, Bounds, SameChanges, SameLinks, SameSessions
<1>8. LinksFollowAddress'
  BY <1>0, <1>1, <1>3, RowsOf DEF IInv, LinksFollowAddress
<1> QED
  BY <1>0, <1>4, <1>5, <1>6, <1>7, <1>8, FewerRequests, PartsAfter

\* A change of address takes the account's links along.
LEMMA UpdateAddressInv ==
  ASSUME IInv, NEW r \in Request, UpdateAddress(r)
  PROVE  IInv'
<1> DEFINE u == requests[r].user
           row == [account[u] EXCEPT !.address = requests[r].to, !.verified = TRUE]
<1>0. /\ u \in User /\ Fewer /\ requests[r].to \in Address
      /\ InEmail(r) /\ ~Taken(requests[r].to)
      /\ requests'[r] = Idle /\ \A q \in Request \ {r} : requests'[q] = requests[q]
  BY UnderWay, DoneFewer DEF UpdateAddress, At, Op, Locals, InEmail, IInv, EmailFacts
<1>1. CASE Exists(u)
  <2>1. /\ account' = [account EXCEPT ![u] = row] /\ links' = links \ LinksOf(u)
        /\ UNCHANGED <<sessions, writes, tokens, floor, resets>>
    BY <1>1 DEF UpdateAddress, Outdated
  <2>2. row \in Row /\ row.address = requests[r].to /\ row.hash = account[u].hash
    BY <1>0, <1>1, Bounds DEF Row
  <2> HIDE DEF row
  <2>3. /\ account' \in [User -> {None, Gone} \cup Row] /\ account'[u] = row
        /\ \A w \in User \ {u} : account'[w] = account[w]
        /\ \A w \in User : Exists(w)' <=> Exists(w)
        /\ \A w \in User : account'[w] = None <=> account[w] = None
    BY <1>0, <1>1, <2>1, <2>2, Rewritten
  <2>4. TableFacts'
    BY <2>1, <2>3 DEF IInv, TypeOK, TableFacts, Session
  <2>5. EmailFacts'
    <3>1. AddressesDistinct'
      <4> SUFFICES ASSUME NEW v \in User, NEW w \in User, v # w, Exists(v)', Exists(w)'
                   PROVE  account'[v].address # account'[w].address
        BY DEF AddressesDistinct
      <4>1. \A x \in User \ {u} : Exists(x)' => account'[x].address # requests[r].to
        BY <1>0, <2>3 DEF Taken
      <4> QED
        BY <2>2, <2>3, <4>1 DEF IInv, EmailFacts, AddressesDistinct
    <3>2. ASSUME NEW q \in Request, InEmail(q)' PROVE ~(Taken(requests[q].to)')
      <4>1. /\ InEmail(q) /\ q # r /\ requests[q].to # requests[r].to /\ ~Taken(requests[q].to)
            /\ requests'[q] = requests[q]
        BY <1>0, <3>2, StillInside, IdleTask DEF IInv, LockExclusion, EmailFacts, InEmail
      <4> QED
        BY <2>2, <2>3, <4>1 DEF Taken
    <3>3. \A q \in Request : InEmail(q)' => requests'[q] = requests[q]
      BY <1>0, StillInside
    <3> QED
      BY <3>1, <3>2, <3>3 DEF EmailFacts, Taken
  <2>6. AccountFacts' /\ ChangeFacts' /\ ResetFacts' /\ SessionFacts'
    BY <1>0, <2>1, <2>2, <2>3, Bounds, SameAccounts, SameChanges, SameLinks, SameSessions
       DEF IInv, TypeOK
  <2>7. LinksFollowAddress'
    BY <2>1, <2>3 DEF IInv, LinksFollowAddress, TypeOK, Link, LinksOf
  <2> QED
    BY <1>0, <2>4, <2>5, <2>6, <2>7, FewerRequests, PartsAfter
<1>2. CASE ~Exists(u)
  BY <1>2, DoneStep DEF UpdateAddress, store
<1> QED
  BY <1>1, <1>2

\* A deleted account takes its sessions and links along.
LEMMA DeleteUserInv ==
  ASSUME IInv, NEW r \in Request, DeleteUser(r)
  PROVE  IInv'
<1> DEFINE u == requests[r].user
<1>0. u \in User /\ Fewer /\ account[u] # None
  BY UnderWay, DoneFewer DEF DeleteUser, At, Op
<1>1. /\ account' = [account EXCEPT ![u] = Gone]
      /\ sessions' = sessions \ SessionsOf(u) /\ links' = links \ LinksOf(u)
      /\ UNCHANGED <<writes, tokens, floor, resets>>
  BY DEF DeleteUser
<1>2. /\ account' \in [User -> {None, Gone} \cup Row] /\ account'[u] = Gone
      /\ \A w \in User \ {u} : account'[w] = account[w]
      /\ \A w \in User : Exists(w)' => w # u /\ Exists(w)
      /\ \A w \in User \ {u} : Exists(w) => Exists(w)'
      /\ \A w \in User : account'[w] = None <=> account[w] = None
  BY <1>0, <1>1 DEF IInv, TypeOK, Exists
<1>3. TableFacts'
  <2>1. \A s \in sessions' : Exists(s.user)'
    BY <1>1, <1>2, RowsOf DEF SessionsOf
  <2> QED
    BY <1>1, <1>2, <2>1 DEF IInv, TypeOK, TableFacts
<1>4. EmailFacts' /\ AccountFacts' /\ ChangeFacts' /\ ResetFacts' /\ SessionFacts'
  <2>1. \A w \in User : Exists(w)' => Exists(w) /\ account'[w] = account[w]
    BY <1>2
  <2> QED
    BY <1>0, <1>1, <1>2, <2>1, Bounds, SameAddresses, SameAccounts, SameChanges, SameLinks,
       SameSessions DEF IInv, TypeOK
<1>5. LinksFollowAddress'
  BY <1>1, <1>2, RowsOf DEF IInv, LinksFollowAddress
<1> QED
  BY <1>0, <1>3, <1>4, <1>5, FewerRequests, PartsAfter

LEMMA StutterInv ==
  ASSUME IInv, UNCHANGED vars
  PROVE  IInv'
<1>1. Fewer /\ UNCHANGED <<account, sessions, links, writes, tokens, floor, resets>>
  BY SameFewer DEF vars, store
<1>2. TableFacts' /\ LinksFollowAddress'
  BY <1>1 DEF IInv, TypeOK, TableFacts, LinksFollowAddress, Exists
<1> QED
  BY <1>1, <1>2, Bounds, SameAddresses, SameAccounts, SameChanges, SameLinks, SameSessions,
     FewerRequests, PartsAfter DEF Exists, IInv, TypeOK

LEMMA NextInv == IInv /\ [Next]_vars => IInv'
<1> SUFFICES ASSUME IInv, [Next]_vars PROVE IInv'
  OBVIOUS
<1>1. ASSUME NEW r \in Request, NEW u \in User,
             SignIn(r, u) \/ Forgot(r, u) \/ \E a \in Address : SignUp(r, u, a)
      PROVE  IInv'
  BY <1>1, SignInInv, ForgotInv, SignUpInv
<1>2. ASSUME NEW r \in Request, NEW s \in sessions,
             \/ \E revoke \in BOOLEAN : Change(r, s, revoke)
             \/ \E a \in Address : ChangeAddress(r, s, a)
             \/ Delete(r, s)
      PROVE  IInv'
  BY <1>2, ChangeInv, ChangeAddressInv, DeleteInv
<1>3. ASSUME NEW r \in Request, NEW l \in links, Reset(r, l) PROVE IInv'
  BY <1>3, ResetInv
<1>4. ASSUME NEW r \in Request,
             PasswordSession(r) \/ VerifyPassword(r) \/ ChangeLocks(r) \/ ChangePassword(r)
      PROVE  IInv'
  BY <1>4, PasswordSessionInv, VerifyPasswordInv, ChangeLocksInv, ChangePasswordInv
<1>5. ASSUME NEW r \in Request, StoreLink(r) \/ ResetLocks(r) \/ ResetPassword(r) PROVE IInv'
  BY <1>5, StoreLinkInv, ResetLocksInv, ResetPasswordInv
<1>6. ASSUME NEW r \in Request,
             EmailLocks(r) \/ InsertUser(r) \/ UpdateAddress(r) \/ DeleteUser(r) \/ Fail(r)
      PROVE  IInv'
  BY <1>6, EmailLocksInv, InsertUserInv, UpdateAddressInv, DeleteUserInv, DoneStep DEF Fail
<1>7. ASSUME NEW s \in sessions, EndSessions(s) PROVE IInv'
  BY <1>7, EndSessionsInv
<1>8. ASSUME NEW u \in User, VerifyEmail(u) PROVE IInv'
  BY <1>8, VerifyEmailInv
<1>9. CASE UNCHANGED vars
  BY <1>9, StutterInv
<1> QED
  BY <1>1, <1>2, <1>3, <1>4, <1>5, <1>6, <1>7, <1>8, <1>9 DEF Next

(***************************************************************************)
(* Theorems.                                                               *)
(***************************************************************************)

\* The inductive invariant holds in every reachable state: whatever overlaps,
\* every request has the locals of its operation, and the two advisory locks
\* protect what is written under them.
THEOREM CredentialsInvariant == Spec => []IInv
<1> QED
  BY InitInv, NextInv, PTL DEF Spec

\* The rows and locals keep their types, and no session outlives its account.
THEOREM Typed == Spec => []TypeOK
<1>1. IInv => TypeOK
  BY DEF IInv
<1> QED
  BY <1>1, CredentialsInvariant, PTL

\* password_session: a password replaced by a reset, or by a change that ends the
\* other sessions, has no session left, and none is created for it later.
THEOREM ReplacedPasswordsHaveNoSession == Spec => []NoStaleSession
<1>1. IInv => NoStaleSession
  BY DEF IInv, SessionFacts
<1> QED
  BY <1>1, CredentialsInvariant, PTL

\* change (otp.rs) deletes the links of the address the account leaves; one to an
\* old address can only come from a task that read the address before.
THEOREM LinksGoWithTheAddress == Spec => []LinksFollowAddress
<1>1. IInv => LinksFollowAddress
  BY DEF IInv
<1> QED
  BY <1>1, CredentialsInvariant, PTL

\* The lock user-email makes sign_up and change look before they write: no two
\* accounts have an address, without the help of the unique index.
THEOREM AddressesStayDistinct == Spec => []AddressesDistinct
<1>1. IInv => AddressesDistinct
  BY DEF IInv, EmailFacts
<1> QED
  BY <1>1, CredentialsInvariant, PTL

\* What a step that stores a hash is allowed by: the change has seen as many
\* resets as there were, and the link is as young as the last of them.
ByTheLastReset ==
  \A r \in Request :
    LET q == requests[r]
    IN (q.step = "locked" /\ requests'[r] = Idle /\ writes' # writes)
         => /\ q.op = "change" => q.round = resets[q.user]
            /\ q.op = "reset"  => q.link.round >= resets[q.user]

LEMMA LockedByTheLastReset ==
  ASSUME IInv PROVE ByTheLastReset
<1> SUFFICES ASSUME NEW r \in Request, requests[r].step = "locked"
             PROVE  /\ requests[r].op = "change" => requests[r].round = resets[requests[r].user]
                    /\ requests[r].op = "reset" => requests[r].link.round >= resets[requests[r].user]
  BY DEF ByTheLastReset
<1> QED
  BY DEF IInv, ChangeFacts, ResetFacts, InCredential

\* "A change verified against an old hash or a revoked session must not override
\* a concurrent reset" (change_password), and a link that a reset has used or
\* swept resets nothing (resetPassword): in every step, of any number of requests.
THEOREM ResetsAreTheLastWord == Spec => ResetsPrevail
<1>1. IInv => [ByTheLastReset]_vars
  BY LockedByTheLastReset
<1>2. Spec => [][ByTheLastReset]_vars
  BY <1>1, CredentialsInvariant, PTL DEF Spec
<1> QED
  BY <1>2 DEF ResetsPrevail, ByTheLastReset

=============================================================================

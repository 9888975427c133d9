---------------------------- MODULE Credentials ----------------------------
(***************************************************************************)
(* Passwords, sessions, reset links and addresses of accounts: the auth    *)
(* operations of auth/core.rs, auth/service.rs and auth/otp.rs that read   *)
(* without a lock, verify or hash a password, and write in a transaction   *)
(* under an advisory lock.                                                 *)
(*                                                                         *)
(* A password is the number of the write that stored its hash (hashes are  *)
(* salted).  Callers know the password they verify; a wrong one changes    *)
(* nothing here.  Mail is configured, so sign-up opens no session.         *)
(***************************************************************************)
EXTENDS Naturals, FiniteSets

CONSTANTS
  User,        \* account ids (bound)
  Address,     \* e-mail addresses (bound)
  Home,        \* the accounts there are at the start, with their addresses
  Request,     \* requests and detached tasks that overlap (bound)
  MaxWrites,   \* hashes stored (bound)
  MaxTokens,   \* sessions opened and links stored (bound)
  Mixes,       \* the operations that overlap: each behaviour has one member
  None,
  Gone         \* what is left of a deleted account: its id is not drawn again

Op == {"signIn", "signUp", "change", "forgot", "reset", "address", "delete", "end", "verify"}

ASSUME BoundsAssumption == MaxWrites \in Nat /\ MaxTokens \in Nat
ASSUME HomeAssumption   ==
  /\ \E us \in SUBSET User : Home \in [us -> Address]
  /\ \A u, w \in DOMAIN Home : Home[u] = Home[w] => u = w
ASSUME MixesAssumption  == Mixes \subseteq SUBSET Op
ASSUME NoneAssumption   == None \notin User \cup Op \cup Address /\ None # Gone

VARIABLES
  account,    \* "user" with its credential account
  sessions,   \* the table session
  links,      \* verification rows reset-password:{token}
  requests,   \* locals of the requests under way
  writes,     \* hashes stored so far
  tokens,     \* tokens drawn so far
  floor,      \* the last hash whose writer ended every session (history)
  resets,     \* resets committed (history)
  uses        \* the member of Mixes

store == <<account, sessions, links>>
vars  == <<store, requests, writes, tokens, floor, resets, uses>>

Row     == [hash : 0 .. MaxWrites, address : Address, verified : BOOLEAN]
ASSUME RowAssumption == Row \cap {None, Gone} = {}
Session == [token : 1 .. MaxTokens, user : User, via : 0 .. MaxWrites]
\* to, late and round are history: the address it is mailed to, whether that was
\* the account's no more, and how many resets had swept or were sweeping.
Link    == [token : 1 .. MaxTokens, user : User, to : Address, late : BOOLEAN, round : Nat]

\* step: what the request waits for.  round: resets when it began (history).
Idle == [op |-> None, step |-> "idle", user |-> None, session |-> None, hash |-> 0,
         to |-> None, link |-> None, swept |-> {}, revoke |-> FALSE, round |-> 0]
Task == [op : {None} \cup Op, step : {"idle", "verify", "lock", "locked"},
         user : {None} \cup User, session : {None} \cup Session, hash : 0 .. MaxWrites,
         to : {None} \cup Address, link : {None} \cup Link, swept : SUBSET Link,
         revoke : BOOLEAN, round : Nat]

Init ==
  /\ uses \in Mixes
  /\ account = [u \in User |-> IF u \in DOMAIN Home
                  THEN [hash |-> 0, address |-> Home[u], verified |-> TRUE] ELSE None]
  /\ sessions = {} /\ links = {} /\ writes = 0 /\ tokens = 0
  /\ requests = [r \in Request |-> Idle]
  /\ floor = [u \in User |-> 0] /\ resets = [u \in User |-> 0]

Exists(u)      == account[u] \notin {None, Gone}
Taken(a)       == \E u \in User : Exists(u) /\ account[u].address = a
\* Mutant: sessions are left behind.
NoSessions(u)  == {}
SessionsOf(u)  == {s \in sessions : s.user = u}
LinksOf(u)     == {l \in links : l.user = u}

At(r, op, step) == requests[r].op = op /\ requests[r].step = step
Start(r, op, locals) ==
  /\ op \in uses /\ requests[r] = Idle
  /\ requests' = [requests EXCEPT ![r] = [locals EXCEPT !.op = op]]
Proceed(r, step) == requests' = [requests EXCEPT ![r].step = step]
Done(r)          == requests' = [requests EXCEPT ![r] = Idle]

\* The advisory lock credential:{user}, and user-email:{address}.
CredentialFree(u) ==
  \A r \in Request : ~(requests[r].user = u /\ (At(r, "change", "locked") \/ At(r, "reset", "locked")))
EmailFree(a) ==
  \A r \in Request : ~(requests[r].to = a /\ (At(r, "signUp", "locked") \/ At(r, "address", "locked")))

Hashed(u) ==
  /\ writes < MaxWrites /\ writes' = writes + 1
  /\ account' = [account EXCEPT ![u].hash = writes + 1]
Opened(u, via) == [token |-> tokens + 1, user |-> u, via |-> via]
Drawn == tokens < MaxTokens /\ tokens' = tokens + 1

---------------------------------------------------------------------------
(* Signing in. *)

\* find_user, SELECT password, verify.
SignIn(r, u) ==
  /\ Exists(u) /\ account[u].verified
  /\ Start(r, "signIn", [Idle EXCEPT !.step = "lock", !.user = u, !.hash = account[u].hash])
  /\ UNCHANGED <<store, writes, tokens, floor, resets>>

\* Mutant: the session is created from what was verified.
Trusts(r, u) == Exists(u)
StillVerified(r, u) == Exists(u) /\ account[u].hash = requests[r].hash

PasswordSession(r) ==
  LET u == requests[r].user
  IN /\ At(r, "signIn", "lock") /\ CredentialFree(u) /\ Done(r)
     /\ IF StillVerified(r, u)
        THEN sessions' = sessions \cup {Opened(u, requests[r].hash)} /\ Drawn
        ELSE UNCHANGED <<sessions, tokens>>
     /\ UNCHANGED <<account, links, writes, floor, resets>>

\* signOut and revokeSession; revokeOtherSessions; revokeSessions.
EndSessions(s) ==
  /\ "end" \in uses
  /\ sessions' \in {sessions \ {s}, (sessions \ SessionsOf(s.user)) \cup {s},
                    sessions \ SessionsOf(s.user)}
  /\ UNCHANGED <<account, links, requests, writes, tokens, floor, resets>>

---------------------------------------------------------------------------
(* Changing the password. *)

Change(r, s, revoke) ==
  /\ Start(r, "change", [Idle EXCEPT !.step = "verify", !.user = s.user, !.session = s,
                                     !.revoke = revoke, !.round = resets[s.user]])
  /\ UNCHANGED <<store, writes, tokens, floor, resets>>

VerifyPassword(r) ==
  LET u == requests[r].user
  IN /\ At(r, "change", "verify") \/ At(r, "delete", "verify")
     /\ IF Exists(u)
        THEN requests' = [requests EXCEPT ![r].step = "lock", ![r].hash = account[u].hash]
        ELSE Done(r)
     /\ UNCHANGED <<store, writes, tokens, floor, resets>>

\* Mutant: the session is not looked at again.
HashOnly(r, u) == StillVerified(r, u)
MayChange(r, u) == StillVerified(r, u) /\ requests[r].session \in sessions

ChangeLocks(r) ==
  LET u == requests[r].user
  IN /\ At(r, "change", "lock") /\ CredentialFree(u)
     /\ IF MayChange(r, u) THEN Proceed(r, "locked") ELSE Done(r)
     /\ UNCHANGED <<store, writes, tokens, floor, resets>>

ChangePassword(r) ==
  LET u == requests[r].user
  IN /\ At(r, "change", "locked") /\ Exists(u) /\ Hashed(u) /\ Done(r)
     /\ IF requests[r].revoke
        THEN /\ sessions' = (sessions \ SessionsOf(u)) \cup {Opened(u, writes')}
             /\ Drawn /\ floor' = [floor EXCEPT ![u] = writes']
        ELSE UNCHANGED <<sessions, tokens, floor>>
     /\ UNCHANGED <<links, resets>>

---------------------------------------------------------------------------
(* Resetting it. *)

\* requestPasswordReset: the detached task looks the account up ...
Forgot(r, u) ==
  /\ Exists(u)
  /\ Start(r, "forgot", [Idle EXCEPT !.step = "lock", !.user = u, !.to = account[u].address])
  /\ UNCHANGED <<store, writes, tokens, floor, resets>>

Sweeping(u) == \E q \in Request : requests[q].user = u /\ At(q, "reset", "locked")

\* ... and stores a link, which it mails.
StoreLink(r) ==
  LET u == requests[r].user
      l == [token |-> tokens + 1, user |-> u, to |-> requests[r].to,
            late |-> ~Exists(u) \/ account[u].address # requests[r].to,
            round |-> resets[u] + IF Sweeping(u) THEN 1 ELSE 0]
  IN /\ At(r, "forgot", "lock") /\ Drawn /\ Done(r)
     /\ links' = links \cup {l}
     /\ UNCHANGED <<account, sessions, writes, floor, resets>>

Reset(r, l) ==
  /\ Start(r, "reset", [Idle EXCEPT !.step = "lock", !.user = l.user, !.link = l])
  /\ UNCHANGED <<store, writes, tokens, floor, resets>>

Consumed(r) == requests[r].link \in links

\* DELETE of the link, UPDATE of the account, DELETE of its other links.
ResetLocks(r) ==
  LET u == requests[r].user
  IN /\ At(r, "reset", "lock") /\ CredentialFree(u)
     /\ requests' = [requests EXCEPT ![r] = IF Consumed(r)
                       THEN [@ EXCEPT !.step = "locked", !.swept = LinksOf(u)] ELSE Idle]
     /\ UNCHANGED <<store, writes, tokens, floor, resets>>

ResetPassword(r) ==
  LET u == requests[r].user
  IN /\ At(r, "reset", "locked") /\ Exists(u) /\ Hashed(u) /\ Done(r)
     /\ links' = links \ requests[r].swept
     /\ sessions' = sessions \ SessionsOf(u)
     /\ floor' = [floor EXCEPT ![u] = writes'] /\ resets' = [resets EXCEPT ![u] = @ + 1]
     /\ UNCHANGED tokens

---------------------------------------------------------------------------
(* Addresses. *)

SignUp(r, u, a) ==
  /\ account[u] = None /\ \A q \in Request : requests[q].user # u   \* a fresh id
  /\ Start(r, "signUp", [Idle EXCEPT !.step = "lock", !.user = u, !.to = a])
  /\ UNCHANGED <<store, writes, tokens, floor, resets>>

\* The code mailed to the new address has been checked (OneTimeCodes).
ChangeAddress(r, s, a) ==
  /\ Exists(s.user) /\ a # account[s.user].address
  /\ Start(r, "address", [Idle EXCEPT !.step = "lock", !.user = s.user, !.to = a])
  /\ UNCHANGED <<store, writes, tokens, floor, resets>>

\* Mutant: the key of the lock is not the address.
OtherKey(a) == TRUE
EmailLocked(a) == EmailFree(a)

EmailLocks(r) ==
  LET a == requests[r].to
  IN /\ At(r, "signUp", "lock") \/ At(r, "address", "lock")
     /\ EmailLocked(a)
     /\ IF Taken(a) THEN Done(r) ELSE Proceed(r, "locked")
     /\ UNCHANGED <<store, writes, tokens, floor, resets>>

InsertUser(r) ==
  LET u == requests[r].user
  IN /\ At(r, "signUp", "locked") /\ Done(r)
     /\ writes < MaxWrites /\ writes' = writes + 1
     /\ account' = [account EXCEPT ![u] = [hash |-> writes + 1, address |-> requests[r].to,
                                           verified |-> FALSE]]
     /\ UNCHANGED <<sessions, links, tokens, floor, resets>>

\* Mutant: links to the old address stay.
NoneSwept(u) == {}
Outdated(u) == LinksOf(u)

\* It waits for the rows a reset of the account has deleted.
UpdateAddress(r) ==
  LET u == requests[r].user
  IN /\ At(r, "address", "locked") /\ ~Sweeping(u) /\ Done(r)
     /\ IF Exists(u)
        THEN /\ account' = [account EXCEPT ![u].address = requests[r].to, ![u].verified = TRUE]
             /\ links' = links \ Outdated(u)
        ELSE UNCHANGED <<account, links>>
     /\ UNCHANGED <<sessions, writes, tokens, floor, resets>>

VerifyEmail(u) ==
  /\ "verify" \in uses /\ Exists(u)
  /\ account' = [account EXCEPT ![u].verified = TRUE]
  /\ UNCHANGED <<sessions, links, requests, writes, tokens, floor, resets>>

---------------------------------------------------------------------------
(* The end of an account, and of a request that fails. *)

Delete(r, s) ==
  /\ Start(r, "delete", [Idle EXCEPT !.step = "verify", !.user = s.user])
  /\ UNCHANGED <<store, writes, tokens, floor, resets>>

\* It waits for the rows that a change or reset has written.
DeleteUser(r) ==
  LET u == requests[r].user
  IN /\ At(r, "delete", "lock") /\ CredentialFree(u) /\ Done(r)
     /\ account' = [account EXCEPT ![u] = Gone]
     /\ sessions' = sessions \ SessionsOf(u) /\ links' = links \ LinksOf(u)
     /\ UNCHANGED <<writes, tokens, floor, resets>>

\* An error, a dropped request, a deadlock or a foreign key: the transaction is
\* rolled back.
Fail(r) ==
  /\ requests[r] # Idle /\ Done(r)
  /\ UNCHANGED <<store, writes, tokens, floor, resets>>

Next ==
  /\ \/ \E r \in Request :
          \/ \E u \in User : SignIn(r, u) \/ Forgot(r, u) \/ \E a \in Address : SignUp(r, u, a)
          \/ \E s \in sessions : \/ \E revoke \in BOOLEAN : Change(r, s, revoke)
                                 \/ \E a \in Address : ChangeAddress(r, s, a)
                                 \/ Delete(r, s)
          \/ \E l \in links : Reset(r, l)
          \/ PasswordSession(r) \/ VerifyPassword(r) \/ ChangeLocks(r) \/ ChangePassword(r)
          \/ StoreLink(r) \/ ResetLocks(r) \/ ResetPassword(r)
          \/ EmailLocks(r) \/ InsertUser(r) \/ UpdateAddress(r) \/ DeleteUser(r) \/ Fail(r)
     \/ \E s \in sessions : EndSessions(s)
     \/ \E u \in User : VerifyEmail(u)
  /\ UNCHANGED uses

Spec == Init /\ [][Next]_vars

---------------------------------------------------------------------------
(* Properties. *)

\* The rows and the locals of requests have their types; only accounts there are
\* have sessions.
TypeOK ==
  /\ account \in [User -> {None, Gone} \cup Row]
  /\ sessions \subseteq Session /\ \A s \in sessions : Exists(s.user)
  /\ links \subseteq Link
  /\ requests \in [Request -> Task]
  /\ writes \in 0 .. MaxWrites /\ tokens \in 0 .. MaxTokens
  /\ floor \in [User -> 0 .. MaxWrites] /\ resets \in [User -> Nat]

\* Whoever signed in with a password that a reset, or a change that ends the
\* other sessions, has replaced has no session, even if the password was
\* verified before and the session created after (password_session).
NoStaleSession == \A s \in sessions : s.via >= floor[s.user]

\* A reset is the last word on what came before it.  "A change verified against
\* an old hash or a revoked session must not override a concurrent reset"
\* (change_password), and a link resets only if no reset has used it or swept it
\* with the account's links since it was stored (resetPassword).
ResetsPrevail ==
  [][\A r \in Request :
       LET q == requests[r]
       IN (q.step = "locked" /\ requests'[r] = Idle /\ writes' # writes)
            => /\ q.op = "change" => q.round = resets[q.user]
               /\ q.op = "reset"  => q.link.round >= resets[q.user]]_vars

\* A reset link for an address the account has left was stored by a task that
\* looked the account up before the change (change, requestPasswordReset).
LinksFollowAddress ==
  \A l \in links :
    (Exists(l.user) /\ account[l.user].address # l.to) => l.late

\* Sign-ups and changes of address that race for an address never meet at the
\* unique index: the second is answered "already in use" (sign_up, change).
AddressesDistinct ==
  \A u, w \in User : (u # w /\ Exists(u) /\ Exists(w)) => account[u].address # account[w].address
=============================================================================

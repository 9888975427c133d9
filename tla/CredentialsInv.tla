--------------------------- MODULE CredentialsInv ---------------------------
(***************************************************************************)
(* The inductive invariant of Credentials: what a request knows of the     *)
(* account it works on, and what the two advisory locks protect.           *)
(***************************************************************************)
EXTENDS Credentials

\* Who is inside credential:{user}, and who inside user-email:{address}.
InCredential(r) == requests[r].op \in {"change", "reset"} /\ requests[r].step = "locked"
InEmail(r)      == requests[r].op \in {"signUp", "address"} /\ requests[r].step = "locked"

\* Every request has the locals of its operation.
Locals(q) ==
  /\ q.op = None => q = Idle
  /\ q.op # None => q.user \in User /\ q.step # "idle"
  /\ q.op \in {"forgot", "signUp", "address"} => q.to \in Address
  /\ q.op = "change" => q.session \in Session /\ q.session.user = q.user
  /\ q.op = "reset" => q.link \in Link /\ q.link.user = q.user

\* One transaction at a time is inside each lock.
LockExclusion ==
  \A r, q \in Request : r # q =>
    /\ InCredential(r) /\ InCredential(q) => requests[r].user # requests[q].user
    /\ InEmail(r) /\ InEmail(q) => requests[r].to # requests[q].to

\* What is written under user-email: the address is nobody's.
EmailFacts ==
  /\ AddressesDistinct
  /\ \A r \in Request : InEmail(r) => ~Taken(requests[r].to)

\* An id is drawn once: until its sign-up commits nothing refers to it, and a
\* deleted account never comes back.
AccountFacts ==
  /\ \A r \in Request : requests[r].op # None =>
       (requests[r].op = "signUp" <=> account[requests[r].user] = None)
  /\ \A r, q \in Request : (r # q /\ requests[r].op = "signUp") =>
       requests[q].user # requests[r].user
  /\ \A l \in links : account[l.user] # None

\* Every session is as young as the last hash that ended the others, and so is
\* the hash a sign-in is judged by.
SessionFacts ==
  /\ NoStaleSession
  /\ \A u \in User : /\ floor[u] <= writes
                     /\ Exists(u) => floor[u] <= account[u].hash /\ account[u].hash <= writes

\* Tokens are drawn once; a session that outlived no reset belongs to a change
\* that outlived none.
ChangeFacts ==
  /\ \A s \in sessions : s.token <= tokens
  /\ \A r \in Request : requests[r].op = "change" =>
       LET q == requests[r]
       IN /\ q.session.token <= tokens
          /\ q.session \in sessions \/ InCredential(r) => q.round = resets[q.user]

\* A link that resets have not swept was stored after the last of them; while one
\* sweeps, what it does not sweep was stored since.
ResetFacts ==
  /\ \A l \in links : l.round >= resets[l.user]
  /\ \A r \in Request : (InCredential(r) /\ requests[r].op = "reset") =>
       LET q == requests[r]
       IN /\ q.link.round >= resets[q.user]
          /\ \A l \in LinksOf(q.user) \ q.swept : l.round >= resets[q.user] + 1

IInv ==
  /\ TypeOK
  /\ \A r \in Request : Locals(requests[r])
  /\ LockExclusion /\ EmailFacts /\ AccountFacts
  /\ SessionFacts /\ ChangeFacts /\ ResetFacts /\ LinksFollowAddress
=============================================================================

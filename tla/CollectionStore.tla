-------------------------- MODULE CollectionStore --------------------------
(***************************************************************************)
(* Collections, their members, invites and item stacks, as the Axum        *)
(* handlers change them through PostgreSQL (READ COMMITTED).               *)
(*                                                                         *)
(* A request is a process.  Each SQL statement that can wait, or whose     *)
(* answer a later statement relies on, is one action; the writes of a      *)
(* transaction become visible in its last action, which is its COMMIT.     *)
(* Row locks and the advisory lock are held until the transaction ends.    *)
(* The variables users .. invite are the committed tables; held .. buf are *)
(* what one in-flight request owns or remembers.                           *)
(***************************************************************************)
EXTENDS Naturals, Integers, FiniteSets

CONSTANTS
  User,      \* accounts
  Req,       \* handlers that may be in flight at once
  Coll,      \* collection uuids available to the model (bound)
  Invite,    \* invite tokens available to the model (bound)
  Stack,     \* (variant, condition, language, is_foil) keys of collection_items
  MaxQty,    \* largest quantity a client asks for (bound)
  MaxRows,   \* most items in the body of a batch or an import (bound)
  Ops,       \* endpoints exercised by the run
  None,      \* no row / no value
  Advisory   \* pg_advisory_xact_lock(1280472986)

WriteOps == {"set", "add", "remove", "drop", "batch", "import"}
ShareOps == {"invite", "revoke", "accept", "leave"}
TokenOps == {"accept", "preview"}
AllOps   == WriteOps \cup ShareOps \cup {"read", "preview", "delete_user"}

ASSUME BoundsAssumption == MaxQty \in Nat \ {0} /\ MaxRows \in Nat \ {0}
ASSUME OpsAssumption    == Ops \subseteq AllOps
ASSUME NoneAssumption   ==
  None \notin User \cup Coll \cup Invite /\ None \notin [qty : Nat, delta : Int]
ASSUME LockAssumption   ==
  /\ Advisory \notin User \cup Coll \cup Invite
  /\ User \cap Coll = {} /\ User \cap Invite = {} /\ Coll \cap Invite = {}

VARIABLES
  users,     \* rows of "user"
  live,      \* rows of collections
  spent,     \* uuids ever given to a collection
  member,    \* collection_members: the collection of each user (unique index)
  role,      \* collection_members.role
  items,     \* collection_items.quantity (0: no row)
  ledger,    \* sum of quantity_delta over the audit events written for a stack
  invite,    \* collection_invites
  held,      \* locks of a transaction: FOR UPDATE rows and the advisory lock
  keyShare,  \* the transaction has FOR KEY SHARE on its actor's user row
  pc,        \* the next statement of a request
  op,        \* its endpoint
  actor,     \* session.user.id
  who,       \* the user membership::ensure is working for
  coll,      \* the collection id the handler read
  token,     \* the invite named by the path
  late,      \* the invite had expired when the transaction began (now())
  todo,      \* items of the body still to be written
  buf        \* per stack: quantity and sum of the audit deltas written by the
             \* open transaction (None: untouched)

tables == <<users, live, spent, member, role, items, ledger, invite>>
locals == <<op, actor, who, coll, token, late, todo, buf>>
vars   == <<tables, held, keyShare, pc, locals>>

InviteRow(s, c, u, e) == [status |-> s, coll |-> c, inviter |-> u, expired |-> e]
Untouched == [s \in Stack |-> None]
NoItems   == [s \in Stack |-> 0]

Steps == {"idle", "pending", "expire", "ensure", "userLock", "provision",
          "lockColl", "row", "audit", "commit", "advisory", "current",
          "findInvite", "lockBoth", "deleteUser", "cascade"}

InviteRows ==
  [status  : {"unissued", "pending", "accepted", "revoked", "expired", "gone"},
   coll    : Coll \cup {None},
   inviter : User \cup {None},
   expired : BOOLEAN]

TablesOK ==
  /\ users \subseteq User
  /\ live \subseteq Coll /\ spent \subseteq Coll
  /\ member \in [User -> Coll \cup {None}]
  /\ role \in [User -> {"owner", "member"}]
  /\ items \in [Coll -> [Stack -> Nat]]
  /\ ledger \in [Coll -> [Stack -> Int]]
  /\ invite \in [Invite -> InviteRows]

RequestsOK ==
  /\ held \in [Req -> SUBSET (User \cup Coll \cup Invite \cup {Advisory})]
  /\ keyShare \in [Req -> BOOLEAN]
  /\ pc \in [Req -> Steps]
  /\ op \in [Req -> AllOps]
  /\ actor \in [Req -> User \cup {None}]
  /\ who \in [Req -> User \cup {None}]
  /\ coll \in [Req -> Coll \cup {None}]
  /\ token \in [Req -> Invite \cup {None}]
  /\ late \in [Req -> BOOLEAN]
  /\ todo \in [Req -> 0 .. MaxRows]
  /\ buf \in [Req -> [Stack -> [qty : Nat, delta : Int] \cup {None}]]

TypeOK == TablesOK /\ RequestsOK

Init ==
  /\ users = User
  /\ live = {} /\ spent = {}
  /\ member = [u \in User |-> None]
  /\ role = [u \in User |-> "owner"]
  /\ items = [c \in Coll |-> NoItems]
  /\ ledger = [c \in Coll |-> NoItems]
  /\ invite = [i \in Invite |-> InviteRow("unissued", None, None, FALSE)]
  /\ held = [r \in Req |-> {}]
  /\ keyShare = [r \in Req |-> FALSE]
  /\ pc = [r \in Req |-> "idle"]
  /\ op = [r \in Req |-> "read"]
  /\ actor = [r \in Req |-> None]
  /\ who = [r \in Req |-> None]
  /\ coll = [r \in Req |-> None]
  /\ token = [r \in Req |-> None]
  /\ late = [r \in Req |-> FALSE]
  /\ todo = [r \in Req |-> 0]
  /\ buf = [r \in Req |-> Untouched]

---------------------------------------------------------------------------
(* Tables and locks. *)

Members(c)   == {u \in User : member[u] = c}
\* Mutant: three members are needed before a collection counts as full.
FullAtThree(c) ==
  \E u, v, w \in Members(c) : u # v /\ v # w /\ u # w
Shared(c)    == \E u, v \in Members(c) : u # v      \* member_count(c) >= 2
Others(c, u) == Members(c) \ {u}
PendingOf(c) == {i \in Invite : invite[i].status = "pending" /\ invite[i].coll = c}

\* No other transaction has this row (or the advisory lock) FOR UPDATE.
Free(r, l) == \A q \in Req \ {r} : l \notin held[q]
Shares(q, u) == keyShare[q] /\ actor[q] = u
\* FOR UPDATE and DELETE of a user row also wait for FOR KEY SHARE holders.
UserFree(r, u) == Free(r, u) /\ \A q \in Req \ {r} : ~Shares(q, u)

Goto(r, step) == pc' = [pc EXCEPT ![r] = step]

\* Mutant: pg_advisory_lock, which outlives the transaction.
ReleaseRowsOnly(r) ==
  /\ held' = [held EXCEPT ![r] = @ \cap {Advisory}]
  /\ keyShare' = [keyShare EXCEPT ![r] = FALSE]

\* COMMIT and ROLLBACK release every lock; a handler that returns forgets all.
Release(r) ==
  /\ held' = [held EXCEPT ![r] = {}]
  /\ keyShare' = [keyShare EXCEPT ![r] = FALSE]

Finish(r) ==
  /\ Release(r)
  /\ Goto(r, "idle")
  /\ op' = [op EXCEPT ![r] = "read"]
  /\ actor' = [actor EXCEPT ![r] = None]
  /\ who' = [who EXCEPT ![r] = None]
  /\ coll' = [coll EXCEPT ![r] = None]
  /\ token' = [token EXCEPT ![r] = None]
  /\ late' = [late EXCEPT ![r] = FALSE]
  /\ todo' = [todo EXCEPT ![r] = 0]
  /\ buf' = [buf EXCEPT ![r] = Untouched]

\* Return an error: the transaction, if any, rolls back when it is dropped.
Fail(r) == Finish(r) /\ UNCHANGED tables

\* The rows of C are deleted: items cascade, audit events lose the collection.
DropCollections(C) ==
  /\ live' = live \ C
  /\ items' = [c \in Coll |-> IF c \in C THEN NoItems ELSE items[c]]
  /\ ledger' = [c \in Coll |-> IF c \in C THEN NoItems ELSE ledger[c]]

\* Rows of collection_invites whose predicate P holds are cascaded away.
Cascaded(row, gone) == IF gone THEN InviteRow("gone", None, None, FALSE) ELSE row

Revoked(row, hit) == IF hit THEN [row EXCEPT !.status = "revoked"] ELSE row

---------------------------------------------------------------------------
(* The start of a request and membership::ensure. *)

\* Bound: a request that may draw a uuid or a token starts only while the model
\* has one left for each request in flight and for it.
RoomFor(u, o) ==
  LET open == Cardinality({q \in Req : pc[q] # "idle"}) IN
  /\ o = "leave" \/ member[u] = None => Cardinality(Coll \ spent) > open
  /\ o = "invite" =>
       Cardinality({i \in Invite : invite[i].status = "unissued"}) > open

\* RouteUser has checked the session; a path names a token, a body has n items.
Begin(r, u, o, i, n) ==
  /\ pc[r] = "idle"
  /\ u \in users /\ o \in Ops /\ RoomFor(u, o)
  /\ IF o \in TokenOps THEN i \in Invite /\ invite[i].status # "unissued"
                       ELSE i = None
  /\ n \in CASE o \in {"batch", "import"} -> 1 .. MaxRows
              [] o \in WriteOps \ {"batch", "import"} -> {1}
              [] OTHER -> {0}
  /\ op' = [op EXCEPT ![r] = o]
  /\ actor' = [actor EXCEPT ![r] = u]
  /\ who' = [who EXCEPT ![r] = u]
  /\ token' = [token EXCEPT ![r] = i]
  /\ todo' = [todo EXCEPT ![r] = n]
  /\ Goto(r, CASE o = "preview" -> "pending"
               [] o = "delete_user" -> "advisory"
               [] OTHER -> "ensure")
  /\ UNCHANGED <<tables, held, keyShare, coll, late, buf>>

\* pending(): read outside any transaction.  A valid invite makes preview()
\* ensure the inviter's collection, then the caller's.
pending(r) ==
  /\ pc[r] = "pending"
  /\ LET row == invite[token[r]] IN
       \/ /\ row.status # "pending"
          /\ Fail(r)
       \/ /\ row.status = "pending"
          /\ who' = [who EXCEPT ![r] = row.inviter]
          /\ Goto(r, IF row.expired THEN "expire" ELSE "ensure")
          /\ UNCHANGED <<tables, held, keyShare, op, actor, coll, token, late, todo, buf>>

\* Mutant: the UPDATE without AND status='pending'.
MarkExpiredBlindly(r) ==
  /\ pc[r] = "expire"
  /\ Free(r, token[r])
  /\ invite' = [invite EXCEPT ![token[r]].status = "expired"]
  /\ Finish(r)
  /\ UNCHANGED <<users, live, spent, member, role, items, ledger>>

\* The second statement of pending(): it waits for an accept holding the row.
MarkExpired(r) ==
  /\ pc[r] = "expire"
  /\ Free(r, token[r])
  /\ invite' = [invite EXCEPT ![token[r]] =
       IF @.status = "pending" THEN [@ EXCEPT !.status = "expired"] ELSE @]
  /\ Finish(r)
  /\ UNCHANGED <<users, live, spent, member, role, items, ledger>>

\* ensure() has an answer c, and the handler goes on: preview() ensures its
\* caller after the inviter, a reader answers, a writer remembers c, and a share
\* handler begins its transaction, which fixes now().
CallerNext(r) ==
  /\ op[r] = "preview" /\ who[r] # actor[r]
  /\ who' = [who EXCEPT ![r] = actor[r]]
  /\ Release(r) /\ Goto(r, "ensure")
  /\ UNCHANGED <<op, actor, coll, token, late, todo, buf>>

Answered(r) ==
  /\ op[r] = "read" \/ (op[r] = "preview" /\ who[r] = actor[r])
  /\ Finish(r)

StartWrite(r, c) ==
  /\ op[r] \in WriteOps
  /\ coll' = [coll EXCEPT ![r] = c]
  /\ Release(r) /\ Goto(r, "lockColl")
  /\ UNCHANGED <<op, actor, who, token, late, todo, buf>>

StartShare(r) ==
  /\ op[r] \in ShareOps
  /\ late' = [late EXCEPT ![r] = op[r] = "accept" /\ invite[token[r]].expired]
  /\ Release(r) /\ Goto(r, "advisory")
  /\ UNCHANGED <<op, actor, who, coll, token, todo, buf>>

Ensured(r, c) == CallerNext(r) \/ Answered(r) \/ StartWrite(r, c) \/ StartShare(r)

\* The fast path: a membership read outside any transaction.
EnsureFast(r) ==
  /\ pc[r] = "ensure"
  /\ UNCHANGED tables
  /\ \/ member[who[r]] # None /\ Ensured(r, member[who[r]])
     \/ /\ member[who[r]] = None
        /\ Goto(r, "userLock")
        /\ UNCHANGED <<held, keyShare, locals>>

EnsureLockUser(r) ==
  /\ pc[r] = "userLock"
  /\ UserFree(r, who[r])
  /\ \/ who[r] \notin users /\ Fail(r)
     \/ /\ who[r] \in users
        /\ held' = [held EXCEPT ![r] = @ \cup {who[r]}]
        /\ Goto(r, "provision")
        /\ UNCHANGED <<tables, keyShare, locals>>

\* Under the user row lock: another request's collection, or a new one.
EnsureProvision(r) ==
  /\ pc[r] = "provision"
  /\ \/ /\ member[who[r]] # None
        /\ Ensured(r, member[who[r]])
        /\ UNCHANGED tables
     \/ /\ member[who[r]] = None
        /\ \E c \in Coll \ spent :
             /\ live' = live \cup {c}
             /\ spent' = spent \cup {c}
             /\ member' = [member EXCEPT ![who[r]] = c]
             /\ role' = [role EXCEPT ![who[r]] = "owner"]
             /\ Ensured(r, c)
        /\ UNCHANGED <<users, items, ledger, invite>>

---------------------------------------------------------------------------
(* service::mutate, the batch loop and imports::import. *)

\* Mutant: SELECT ... FROM collections without FOR UPDATE.
LockedNothing(r) == {}

\* SELECT ... FROM collections WHERE id = $1 FOR UPDATE: no row, no lock.
Locked(r) == {coll[r]} \cap live

LockCollection(r) ==
  /\ pc[r] = "lockColl"
  /\ Free(r, coll[r])
  /\ held' = [held EXCEPT ![r] = @ \cup Locked(r)]
  /\ Goto(r, IF op[r] \in WriteOps THEN "row" ELSE "commit")
  /\ UNCHANGED <<tables, keyShare, locals>>

\* Mutant: Adjust without max(0).
RequestedBelowZero(o, before) ==
  IF o = "remove" THEN {before - 1} ELSE 0 .. MaxQty

\* The quantities a body may ask for when the stack holds `before`: Set, Adjust
\* with a positive delta either way, Delete.  Inputs are bounded so that nobody
\* asks for more than MaxQty copies.
Requested(o, before) ==
  LET set    == 0 .. MaxQty
      add    == (before + 1) .. MaxQty
      remove == IF before = 0 THEN {0} ELSE 0 .. (before - 1)
  IN CASE o \in {"set", "batch"} -> set
       [] o = "add"    -> add
       [] o = "remove" -> remove
       [] o = "drop"   -> {0}
       [] o = "import" -> set \cup add

\* The quantity the transaction's next SELECT sees: its own write first.
Seen(r, s) == IF buf[r][s] = None THEN items[coll[r]][s] ELSE buf[r][s].qty
Logged(r, s) == IF buf[r][s] = None THEN 0 ELSE buf[r][s].delta

AfterRow(r, left) == IF op[r] = "import" /\ left > 0 THEN "row" ELSE "commit"

\* Mutant: the collection id that ensure() returned is trusted.
AnyoneWrites(r) == TRUE

\* SELECT id FROM collection_members WHERE collection_id=$1 AND user_id=$2
IsMember(r) == member[actor[r]] = coll[r]

\* One mutate_in: member check, read of the stack, upsert or delete.  The row
\* lock keeps the stack from moving between those statements.
mutate_in(r) ==
  /\ pc[r] = "row"
  /\ \/ ~IsMember(r) /\ Fail(r)
     \/ /\ IsMember(r)
        /\ \E s \in Stack : \E after \in Requested(op[r], Seen(r, s)) :
             /\ buf' = [buf EXCEPT ![r][s] =
                  [qty |-> after, delta |-> Logged(r, s) + (after - Seen(r, s))]]
             /\ Goto(r, IF after # Seen(r, s) THEN "audit"
                        ELSE AfterRow(r, todo[r] - 1))
        /\ todo' = [todo EXCEPT ![r] = @ - 1]
        /\ UNCHANGED <<tables, held, keyShare, op, actor, who, coll, token, late>>

\* The audit INSERT: its foreign key takes FOR KEY SHARE on the actor's row,
\* waits for a DELETE of it, and fails when the row is gone.
Audit(r) ==
  /\ pc[r] = "audit"
  /\ Free(r, actor[r])
  /\ \/ actor[r] \notin users /\ Fail(r)
     \/ /\ actor[r] \in users
        /\ keyShare' = [keyShare EXCEPT ![r] = TRUE]
        /\ Goto(r, AfterRow(r, todo[r]))
        /\ UNCHANGED <<tables, held, locals>>

\* COMMIT of mutate() or import(); a batch goes on with its next item, under
\* the collection id that ensure() returned before the first.
CommitWrite(r) ==
  /\ pc[r] = "commit" /\ op[r] \in WriteOps
  /\ items' = [items EXCEPT ![coll[r]] = [s \in Stack |-> Seen(r, s)]]
  /\ ledger' = [ledger EXCEPT ![coll[r]] = [s \in Stack |-> @[s] + Logged(r, s)]]
  /\ UNCHANGED <<users, live, spent, member, role, invite>>
  /\ \/ todo[r] = 0 /\ Finish(r)
     \/ /\ todo[r] > 0
        /\ Release(r) /\ Goto(r, "lockColl")
        /\ buf' = [buf EXCEPT ![r] = Untouched]
        /\ UNCHANGED <<op, actor, who, coll, token, late, todo>>

---------------------------------------------------------------------------
(* share.rs: every membership change holds the advisory lock. *)

LockAdvisory(r) ==
  /\ pc[r] = "advisory"
  /\ Free(r, Advisory)
  /\ held' = [held EXCEPT ![r] = @ \cup {Advisory}]
  /\ Goto(r, IF op[r] = "accept" THEN "findInvite" ELSE "current")
  /\ UNCHANGED <<tables, keyShare, locals>>

\* current_collection(): read under the lock.  Nothing else for delete_user if
\* the user has none; revoke() updates and commits at once.
current_collection(r) ==
  /\ pc[r] = "current"
  /\ \/ member[actor[r]] = None /\ op[r] # "delete_user" /\ Fail(r)
     \/ /\ op[r] \in {"invite", "leave", "delete_user"}
        /\ member[actor[r]] # None \/ op[r] = "delete_user"
        /\ coll' = [coll EXCEPT ![r] = member[actor[r]]]
        /\ Goto(r, IF op[r] = "delete_user" THEN "deleteUser" ELSE "lockColl")
        /\ UNCHANGED <<tables, held, keyShare, op, actor, who, token, late, todo, buf>>
     \/ /\ op[r] = "revoke" /\ member[actor[r]] # None
        /\ invite' = [i \in Invite |->
             Revoked(invite[i], i \in PendingOf(member[actor[r]]))]
        /\ Finish(r)
        /\ UNCHANGED <<users, live, spent, member, role, items, ledger>>

\* invite(): one pending invite per collection, none once it is shared.
invite_insert(r) ==
  /\ pc[r] = "commit" /\ op[r] = "invite"
  /\ \/ Shared(coll[r]) /\ Fail(r)
     \/ /\ ~Shared(coll[r])
        /\ Free(r, actor[r])
        /\ \E i \in {j \in Invite : invite[j].status = "unissued"} :
             invite' = [j \in Invite |->
               IF j = i THEN InviteRow("pending", coll[r], actor[r], FALSE)
               ELSE Revoked(invite[j], j \in PendingOf(coll[r]))]
        /\ Finish(r)
        /\ UNCHANGED <<users, live, spent, member, role, items, ledger>>

Settled(i) == invite[i].status # "pending"

\* accept(): lock the invite row and judge it; coll is the source collection.
FindInvite(r) ==
  /\ pc[r] = "findInvite"
  /\ Free(r, token[r])
  /\ LET row    == invite[token[r]]
         source == member[actor[r]]
         bad    == \/ Settled(token[r])
                   \/ ~late[r] /\ \/ row.inviter = actor[r]
                                  \/ source \in {None, row.coll}
     IN \/ bad /\ Fail(r)
        \/ /\ ~bad /\ late[r]
           /\ invite' = [invite EXCEPT ![token[r]].status = "expired"]
           /\ Finish(r)
           /\ UNCHANGED <<users, live, spent, member, role, items, ledger>>
        \/ /\ ~bad /\ ~late[r]
           /\ coll' = [coll EXCEPT ![r] = source]
           /\ held' = [held EXCEPT ![r] = @ \cup {token[r]}]
           /\ Goto(r, "lockBoth")
           /\ UNCHANGED <<tables, keyShare, op, actor, who, token, late, todo, buf>>

\* SELECT ... WHERE id = ANY(source, target) FOR UPDATE locks row by row.  Only
\* a holder of the advisory lock takes two, so either order is allowed here.
AcceptLock(r) ==
  /\ pc[r] = "lockBoth"
  /\ \E c \in (live \cap {coll[r], invite[token[r]].coll}) \ held[r] :
       /\ Free(r, c)
       /\ held' = [held EXCEPT ![r] = @ \cup {c}]
  /\ UNCHANGED <<tables, keyShare, pc, locals>>

\* The rest of accept(), to COMMIT: merge or discard the source's items, move
\* the member, delete the source (its invites cascade), settle the invites.
Accept(r) ==
  /\ pc[r] = "lockBoth"
  /\ LET source == coll[r]
         target == invite[token[r]].coll
     IN /\ live \cap {source, target} \subseteq held[r]
        /\ \/ /\ Shared(target) \/ Shared(source)
              /\ Fail(r)
           \/ /\ ~Shared(target) /\ ~Shared(source)
              /\ items[source] = NoItems \/ Free(r, actor[r])
              /\ \E merged \in {items[source], NoItems} :
                   LET plus(old, c) == [s \in Stack |-> old[c][s] + merged[s]]
                       moved(old) == [old EXCEPT ![source] = NoItems,
                                                 ![target] = plus(old, target)]
                   IN items' = moved(items) /\ ledger' = moved(ledger)
              /\ live' = live \ {source}
              /\ member' = [member EXCEPT ![actor[r]] = target]
              /\ role' = [role EXCEPT ![actor[r]] = "member"]
              /\ invite' = [i \in Invite |->
                   IF i = token[r] THEN [invite[i] EXCEPT !.status = "accepted"]
                   ELSE Revoked(Cascaded(invite[i], invite[i].coll = source),
                                i \in PendingOf(target))]
              /\ Finish(r)
              /\ UNCHANGED <<users, spent>>

\* leave(): a new collection for the leaver; the longest-standing member left
\* behind becomes owner when nobody is; the leaver's pending invites go.
PromoteIn(c, gone) ==
  LET left  == Others(c, gone)
      moved == [role EXCEPT ![gone] = "owner"]
  IN IF left = {} \/ \E u \in left : role[u] = "owner"
     THEN role' = moved
     ELSE \E heir \in left : role' = [moved EXCEPT ![heir] = "owner"]

Leave(r) ==
  /\ pc[r] = "commit" /\ op[r] = "leave"
  /\ LET previous == coll[r]
         u == actor[r]
     IN \/ ~Shared(previous) /\ Fail(r)
        \/ /\ Shared(previous)
           /\ Free(r, u)
           /\ \E c \in Coll \ spent :
                /\ live' = live \cup {c}
                /\ spent' = spent \cup {c}
                /\ member' = [member EXCEPT ![u] = c]
           /\ PromoteIn(previous, u)
           /\ invite' = [i \in Invite |-> Revoked(invite[i],
                i \in PendingOf(previous) /\ invite[i].inviter = u)]
           /\ Finish(r)
           /\ UNCHANGED <<users, items, ledger>>

---------------------------------------------------------------------------
(* auth/core.rs delete_user, with the cascades and the 0006 trigger. *)

\* DELETE FROM "user": waits for any lock on the row.
DeleteUserRow(r) ==
  /\ pc[r] = "deleteUser"
  /\ UserFree(r, actor[r])
  /\ held' = [held EXCEPT ![r] = @ \cup {actor[r]}]
  /\ Goto(r, "cascade")
  /\ UNCHANGED <<tables, keyShare, locals>>

\* The cascade removes the membership; cleanup_empty_collection() deletes the
\* collection with its last member and waits for that row.  Then COMMIT.
CascadeDelete(r) ==
  /\ pc[r] = "cascade"
  /\ LET u == actor[r]
         c == member[u]
         emptied == {c} \cap {d \in live : Others(d, u) = {}}
     IN /\ \A d \in emptied : Free(r, d)
        /\ users' = users \ {u}
        /\ member' = [member EXCEPT ![u] = None]
        /\ DropCollections(emptied)
        /\ IF coll[r] = None THEN role' = [role EXCEPT ![u] = "owner"]
                          ELSE PromoteIn(coll[r], u)
        /\ invite' = [i \in Invite |-> Cascaded(invite[i],
             invite[i].coll \in emptied \/ invite[i].inviter = u)]
  /\ Finish(r)
  /\ UNCHANGED spent

---------------------------------------------------------------------------
(* What the environment does. *)

\* A pending invite passes its expires_at.
Expire(i) ==
  /\ invite[i].status = "pending" /\ ~invite[i].expired
  /\ invite' = [invite EXCEPT ![i].expired = TRUE]
  /\ UNCHANGED <<users, live, spent, member, role, items, ledger, held, keyShare, pc, locals>>

\* The client disconnects, the variant is unknown, or a statement fails: the
\* handler is dropped where it is and its transaction rolls back.
Abandon(r) ==
  /\ pc[r] # "idle"
  /\ Fail(r)

\* PostgreSQL aborts one of two transactions that wait for each other: a write
\* that needs the user row of a deletion that needs its collection row.
Deadlock(w, d) ==
  /\ pc[w] = "audit" /\ actor[w] \in held[d]
  /\ pc[d] = "cascade" /\ member[actor[d]] \in held[w]
  /\ Others(member[actor[d]], actor[d]) = {}

BreakDeadlock(w, d) ==
  /\ Deadlock(w, d)
  /\ \E victim \in {w, d} : Fail(victim)

Handle(r) ==
  \/ pending(r) \/ MarkExpired(r)
  \/ EnsureFast(r) \/ EnsureLockUser(r) \/ EnsureProvision(r)
  \/ LockCollection(r) \/ mutate_in(r) \/ Audit(r) \/ CommitWrite(r)
  \/ LockAdvisory(r) \/ current_collection(r) \/ invite_insert(r)
  \/ FindInvite(r) \/ AcceptLock(r) \/ Accept(r) \/ Leave(r)
  \/ DeleteUserRow(r) \/ CascadeDelete(r)

Next ==
  \/ \E r \in Req, u \in User, o \in Ops, i \in Invite \cup {None}, n \in 0 .. MaxRows :
       Begin(r, u, o, i, n)
  \/ \E r \in Req : Handle(r)
  \/ \E i \in Invite : Expire(i)
  \/ \E r \in Req : Abandon(r)
  \/ \E w, d \in Req : BreakDeadlock(w, d)

Spec == Init /\ [][Next]_vars

\* A handler's future is polled until it ends, PostgreSQL queues the waiters of
\* a lock, so one that keeps being released is granted, and its deadlock
\* detector runs.  Nobody is obliged to send requests or to abandon them.
Fairness ==
  /\ \A r \in Req : SF_vars(Handle(r))
  /\ \A w, d \in Req : WF_vars(BreakDeadlock(w, d))

FairSpec == Spec /\ Fairness

---------------------------------------------------------------------------
(* Properties. *)

\* Every collection row has a member: accept, account deletion and the cleanup
\* trigger never leave an orphan behind, and nobody is a member of a deleted one.
NoOrphanCollection ==
  /\ \A c \in live : Members(c) # {}
  /\ \A u \in User : member[u] \in live \cup {None}

\* "Collection already has the maximum of 2 members", whoever invites, accepts,
\* leaves or deletes an account at the same time.
AtMostTwoMembers ==
  \A u, v, w \in User :
    member[u] # None /\ member[u] = member[v] /\ member[v] = member[w]
      => u = v \/ v = w \/ u = w

\* A collection always has exactly one owner: leaving and account deletion
\* promote the member left behind, accepting never adds a second owner.
OneOwner ==
  \A c \in live : \E u \in Members(c) :
    role[u] = "owner" /\ \A v \in Members(c) \ {u} : role[v] = "member"

\* A pending invite was issued by the only member of its collection, and it is
\* the only one pending there: a link never outlives what it invites into.
PendingInviteFromSoleMember ==
  \A i \in Invite : invite[i].status = "pending" =>
    /\ invite[i].coll \in live
    /\ Members(invite[i].coll) = {invite[i].inviter}
    /\ \A j \in Invite \ {i} :
         invite[j].status = "pending" => invite[j].coll # invite[i].coll

\* The audit trail accounts for every copy: the deltas recorded for a stack add
\* up to its quantity, so no concurrent write was lost or counted twice.
LedgerBalances == \A c \in live, s \in Stack : ledger[c][s] = items[c][s]

\* The quantities of a collection that survives a step change only on behalf of
\* somebody who is its member after the step, though the handler looked the
\* collection id up in an earlier transaction.
OnlyMembersWrite ==
  [][\A c \in live \cap live' : items'[c] # items[c] =>
       \E r \in Req : pc[r] \in {"commit", "lockBoth"} /\ pc'[r] # pc[r]
                      /\ member'[actor[r]] = c]_vars

\* Two people come to share a collection only through a pending invite of the
\* member who is already in it, and the invite is used up by it: once accepted,
\* revoked or expired it keeps that answer until its collection or its inviter is
\* deleted, and preview's late UPDATE does not reopen it.
InvitesUsedOnce ==
  [][/\ \A u \in User : member'[u] # member[u] /\ member'[u] \in live
          => \E i \in Invite : /\ invite[i].status = "pending"
                               /\ invite'[i].status = "accepted"
                               /\ invite[i].coll = member'[u]
                               /\ Members(member'[u]) = {invite[i].inviter}
     /\ \A i \in Invite :
          invite[i].status \in {"accepted", "revoked", "expired", "gone"}
            => invite'[i].status \in {invite[i].status, "gone"}]_vars

\* Every request is answered: no handler waits for ever on a lock, and waiting
\* for each other always ends with PostgreSQL refusing one of the two.
RequestsEnd == \A r \in Req : pc[r] # "idle" ~> pc[r] = "idle"

\* Seen from outside, every request is one atomic step of SharedCollections.
Abstract == INSTANCE SharedCollections
  WITH users <- users, live <- live, spent <- spent, member <- member,
       role <- role, items <- items, ledger <- ledger
AtomicRequests == Abstract!Init /\ [][Abstract!Next]_(Abstract!vars)

=============================================================================

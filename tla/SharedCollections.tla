------------------------- MODULE SharedCollections -------------------------
(***************************************************************************)
(* What the collection API promises, with every request a single step: no  *)
(* locks, no transactions, no stale collection ids.  CollectionStore       *)
(* implements this specification under the identity mapping of the         *)
(* committed tables.                                                       *)
(***************************************************************************)
EXTENDS Integers

CONSTANTS User, Coll, Stack, None

VARIABLES
  users,   \* accounts that exist
  live,    \* collections that exist
  spent,   \* collection ids ever used
  member,  \* the collection of each user, or None
  role,    \* "owner" or "member"
  items,   \* copies of each stack of each collection
  ledger   \* copies the audit trail accounts for

vars == <<users, live, spent, member, role, items, ledger>>

NoItems == [s \in Stack |-> 0]
Members(c) == {u \in User : member[u] = c}
Alone(u)   == member[u] # None /\ Members(member[u]) = {u}

Init ==
  /\ users = User /\ live = {} /\ spent = {}
  /\ member = [u \in User |-> None]
  /\ role = [u \in User |-> "owner"]
  /\ items = [c \in Coll |-> NoItems]
  /\ ledger = [c \in Coll |-> NoItems]

\* u, who has no collection, becomes the owner of a new, empty one.
Found(u, c) ==
  /\ c \notin spent
  /\ live' = live \cup {c} /\ spent' = spent \cup {c}
  /\ member' = [member EXCEPT ![u] = c]

Provision(u, c) ==
  /\ u \in users /\ member[u] = None
  /\ Found(u, c)
  /\ role' = [role EXCEPT ![u] = "owner"]
  /\ UNCHANGED <<users, items, ledger>>

\* A member changes the stacks of the collection; the audit trail records the
\* exact difference.
Write(u) ==
  LET c == member[u] IN
  /\ c # None
  /\ items' = [items EXCEPT ![c] = items'[c]]
  /\ \A s \in Stack : items'[c][s] \in Nat
  /\ ledger' = [ledger EXCEPT ![c] =
       [s \in Stack |-> ledger[c][s] + (items'[c][s] - items[c][s])]]
  /\ UNCHANGED <<users, live, spent, member, role>>

\* u gives up a collection of their own and joins somebody who is alone; the
\* copies move to the joint collection (or are given up), none is duplicated.
Join(u, v) ==
  LET source == member[u]
      target == member[v]
  IN /\ u # v /\ Alone(u) /\ Alone(v)
     /\ \E kept \in {items[source], NoItems} :
          LET moved(old) == [old EXCEPT ![source] = NoItems,
                ![target] = [s \in Stack |-> old[target][s] + kept[s]]]
          IN items' = moved(items) /\ ledger' = moved(ledger)
     /\ live' = live \ {source}
     /\ member' = [member EXCEPT ![u] = target]
     /\ role' = [role EXCEPT ![u] = "member"]
     /\ UNCHANGED <<users, spent>>

\* u leaves v behind, who keeps the collection and owns it.
Leave(u, v, c) ==
  /\ u # v /\ member[u] # None /\ Members(member[u]) = {u, v}
  /\ Found(u, c)
  /\ role' = [role EXCEPT ![u] = "owner", ![v] = "owner"]
  /\ UNCHANGED <<users, items, ledger>>

\* An account goes; its collection goes with its last member, or stays with
\* the other one as owner.
DeleteAccount(u) ==
  /\ u \in users
  /\ users' = users \ {u}
  /\ member' = [member EXCEPT ![u] = None]
  /\ LET c == member[u]
         empty == {d \in {c} \cap live : Alone(u)}
     IN /\ live' = live \ empty
        /\ items' = [d \in Coll |-> IF d \in empty THEN NoItems ELSE items[d]]
        /\ ledger' = [d \in Coll |-> IF d \in empty THEN NoItems ELSE ledger[d]]
        /\ role' = [v \in User |->
             IF c # None /\ member[v] = c THEN "owner" ELSE role[v]]
  /\ UNCHANGED spent

Next ==
  \/ \E u \in User, c \in Coll : Provision(u, c)
  \/ \E u \in User : Write(u)
  \/ \E u, v \in User : Join(u, v)
  \/ \E u, v \in User, c \in Coll : Leave(u, v, c)
  \/ \E u \in User : DeleteAccount(u)

Spec == Init /\ [][Next]_vars
=============================================================================

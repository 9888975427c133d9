------------------------ MODULE CollectionStoreInv -------------------------
(***************************************************************************)
(* The inductive invariant of CollectionStore: what each statement of a    *)
(* handler may rely on, because of the locks its transaction holds.        *)
(***************************************************************************)
EXTENDS CollectionStore

\* Statements that run under the share lock.
UnderShareLock(r) ==
  \/ pc[r] \in {"current", "findInvite", "lockBoth", "deleteUser", "cascade"}
  \/ pc[r] \in {"lockColl", "commit"} /\ op[r] \in {"invite", "leave"}

\* Which handler is at which statement, and which locals are set there.
ControlFacts(r) ==
  /\ pc[r] # "idle" => actor[r] \in User /\ who[r] \in User
  /\ op[r] \in TokenOps => token[r] \in Invite
  /\ pc[r] \in {"pending", "expire"} => op[r] = "preview"
  /\ pc[r] \in {"ensure", "userLock", "provision"} => op[r] # "delete_user"
  /\ pc[r] \in {"row", "audit"} => op[r] \in WriteOps
  /\ pc[r] \in {"lockColl", "commit"} => op[r] \in WriteOps \cup {"invite", "leave"}
  /\ pc[r] = "advisory" => op[r] \in ShareOps \cup {"delete_user"}
  /\ pc[r] = "current" => op[r] \in {"invite", "revoke", "leave", "delete_user"}
  /\ pc[r] \in {"findInvite", "lockBoth"} => op[r] = "accept"
  /\ pc[r] \in {"deleteUser", "cascade"} => op[r] = "delete_user"
  /\ pc[r] \in {"lockColl", "row", "audit", "commit", "lockBoth"} => coll[r] \in spent
  /\ /\ pc[r] \in {"ensure", "userLock", "provision", "lockColl", "row"}
     /\ op[r] \in WriteOps
     => todo[r] > 0

\* No two transactions hold the same lock, and a statement runs under its own.
LockExclusion == \A r, q \in Req : r # q => held[r] \cap held[q] = {}

LockFacts(r) ==
  /\ UnderShareLock(r) => Advisory \in held[r]
  /\ pc[r] = "provision" => who[r] \in held[r]
  /\ pc[r] = "cascade" => actor[r] \in held[r]
  /\ pc[r] = "lockBoth" => token[r] \in held[r]

\* What a handler read under the share lock is still true.
ShareFacts(r) ==
  /\ pc[r] = "lockBoth" =>
       /\ coll[r] = member[actor[r]]
       /\ invite[token[r]].status = "pending"
       /\ invite[token[r]].coll # coll[r]
       /\ invite[token[r]].inviter # actor[r]
  /\ pc[r] \in {"lockColl", "commit"} /\ op[r] \in {"invite", "leave"}
       => coll[r] = member[actor[r]]
  /\ pc[r] \in {"deleteUser", "cascade"} =>
       \/ coll[r] = member[actor[r]]
       \/ coll[r] = None /\ Members(member[actor[r]]) = {actor[r]}

\* What a write has computed still describes the row it has locked.
WriteFacts(r) ==
  /\ pc[r] \notin {"row", "audit", "commit"} => buf[r] = Untouched
  /\ pc[r] \in {"row", "audit", "commit"} /\ op[r] \in WriteOps =>
       /\ coll[r] \in live => coll[r] \in held[r]
       /\ (pc[r] \in {"audit", "commit"} \/ buf[r] # Untouched) => coll[r] \in live
       /\ \A s \in Stack : Logged(r, s) = Seen(r, s) - items[coll[r]][s]

\* The tables: issued invites name rows that exist, uuids are not reused.
TableFacts ==
  /\ live \subseteq spent
  /\ \A i \in Invite : invite[i].status \notin {"unissued", "gone"}
       => invite[i].coll \in Coll /\ invite[i].inviter \in User
  /\ \A c \in Coll \ spent : items[c] = NoItems /\ ledger[c] = NoItems

\* Memberships are sound whatever overlaps: a collection has one or two members,
\* one of them its owner, and an invite is never for a third.
MembershipInv ==
  /\ NoOrphanCollection
  /\ AtMostTwoMembers
  /\ OneOwner
  /\ PendingInviteFromSoleMember

IInv ==
  /\ TypeOK
  /\ LockExclusion
  /\ \A r \in Req :
       ControlFacts(r) /\ LockFacts(r) /\ ShareFacts(r) /\ WriteFacts(r)
  /\ TableFacts
  /\ MembershipInv
  /\ LedgerBalances

(***************************************************************************)
(* A second invariant, on top of the first: on whose behalf a write and a  *)
(* leave act, and which accounts exist.  The foreign key of the audit row  *)
(* keeps the writer's account (FOR KEY SHARE), the lock on the collection  *)
(* keeps the membership.                                                   *)
(***************************************************************************)

\* Nobody locks an account row FOR UPDATE while an audit row refers to it.
KeyShareExclusion == \A r, q \in Req : r # q /\ keyShare[q] => actor[q] \notin held[r]

WriterFacts(r) ==
  /\ keyShare[r] => /\ pc[r] \in {"row", "audit", "commit"} /\ op[r] \in WriteOps
                     /\ IsMember(r)
  /\ pc[r] = "audit" /\ actor[r] \in users => IsMember(r)
  /\ pc[r] \in {"row", "commit"} /\ op[r] \in WriteOps /\ ~keyShare[r]
       => \A s \in Stack : Seen(r, s) = items[coll[r]][s]
  /\ pc[r] = "commit" /\ op[r] = "leave" => coll[r] \in held[r]
  /\ pc[r] = "provision" => who[r] \in users

\* A deleted account has no collection; the role of a user without one is not
\* stored, the model keeps it "owner".
AccountFacts ==
  \A u \in User : /\ u \notin users => member[u] = None
                  /\ member[u] = None => role[u] = "owner"

WInv == KeyShareExclusion /\ AccountFacts /\ \A r \in Req : WriterFacts(r)

=============================================================================

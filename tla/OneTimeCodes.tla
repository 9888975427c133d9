---------------------------- MODULE OneTimeCodes ----------------------------
(***************************************************************************)
(* Codes mailed to an address (auth/otp.rs): how many are sent, how often  *)
(* one may be guessed, and that it counts once, while checks, sends and    *)
(* links of the same code overlap.  A code is the number of its issue;     *)
(* whether a guess fits the code is open until it is judged.                *)
(*                                                                         *)
(* Sends and checks are transactions; now() is the time they begin, before *)
(* they wait for their advisory locks.                                     *)
(***************************************************************************)
EXTENDS Naturals, FiniteSets

CONSTANTS
  Id,          \* identifiers of codes (bound)
  Target,      \* the address a change of address is for, or None: a verification
  Request,     \* overlapping requests (bound)
  MaxGuesses,  \* wrong guesses per window and budget (10 in the code)
  PerCode,     \* wrong guesses per code (3 in the code)
  MaxSends,    \* codes sent per window (3 in the code)
  MaxIssued,   \* codes issued (bound)
  MaxTicks,    \* codes and windows that expire (bound)
  Mixes,       \* the identifiers in use: each behaviour has one member
  None

ASSUME LimitAssumption  == {MaxGuesses, PerCode, MaxSends} \subseteq Nat \ {0}
ASSUME BoundAssumption  == MaxIssued \in Nat /\ MaxTicks \in Nat
ASSUME TargetAssumption == DOMAIN Target = Id
ASSUME NoneAssumption   == None \notin Id /\ None \notin Nat

VARIABLES
  code,      \* verification rows of codes
  links,     \* verification rows of links, by the identifier they stand for
  windows,   \* verification rows of budgets
  requests,  \* locals of the requests under way
  issued,    \* codes issued so far
  ticks,     \* codes and windows that expired so far
  wrong,     \* wrong guesses that were judged against each code (history)
  used,      \* codes that were consumed (history)
  ids        \* the member of Mixes

tables == <<code, links, windows>>
vars   == <<tables, requests, issued, ticks, wrong, used, ids>>

\* The budgets otp-attempts:{id}, otp-attempts:target:{target}, otp-send:{id}.
Guesses(i) == {<<"attempts", i>>} \cup ({"target"} \X ({Target[i]} \ {None}))
Sends(i)   == <<"sends", i>>
Key        == UNION {Guesses(i) \cup {Sends(i)} : i \in Id}
Limit(key) == IF key[1] = "sends" THEN MaxSends ELSE MaxGuesses

\* events is history: what was let through since the window opened.
Window == [count : Nat, open : BOOLEAN, events : Nat]
Code   == [n : 1 .. MaxIssued, attempts : Nat, expired : BOOLEAN]

ASSUME RowAssumption == None \notin Code

\* dead and closed: what had expired when the transaction began.  seen: the
\* code it has read; counts: the budgets it has read.
Idle == [op |-> None, step |-> "idle", id |-> None, dead |-> None, closed |-> {},
         seen |-> None, counts |-> <<>>]

Init ==
  /\ ids \in Mixes
  /\ code = [i \in Id |-> None] /\ links = {}
  /\ windows = [k \in Key |-> [count |-> 0, open |-> FALSE, events |-> 0]]
  /\ requests = [r \in Request |-> Idle]
  /\ issued = 0 /\ ticks = 0 /\ wrong = [n \in 1 .. MaxIssued |-> 0] /\ used = {}

At(r, op, step) == requests[r].op = op /\ requests[r].step = step
Done(r) == requests' = [requests EXCEPT ![r] = Idle]

\* What a transaction that begins now will find expired.
Began(i) ==
  [Idle EXCEPT !.id = i,
     !.dead   = IF code[i] # None /\ code[i].expired THEN code[i].n ELSE None,
     !.closed = {k \in Guesses(i) \cup {Sends(i)} : windows[k].count > 0 /\ ~windows[k].open}]

\* The advisory locks of a check: its budgets and the code.
\* Mutants: the budgets, or the code, are not locked.
CodeOnly(i)    == {i}
BudgetsOnly(i) == Guesses(i)
LocksOf(i)     == Guesses(i) \cup {i}

Held == UNION {LocksOf(requests[r].id) : r \in {q \in Request : At(q, "check", "judge")}}

---------------------------------------------------------------------------
(* Budgets. *)

Active(q, k)  == windows[k].open \/ k \notin q.closed
Count(q, k)   == IF Active(q, k) THEN windows[k].count ELSE 0

Exhausted(q, k) == Count(q, k) >= Limit(k)

\* budget(.., charge) for a key whose count was read: a first event opens a window.
Charged(k, count) ==
  IF count = 0 THEN [count |-> 1, open |-> TRUE, events |-> 1]
  ELSE [windows[k] EXCEPT !.count = count + 1, !.events = @ + 1]

---------------------------------------------------------------------------
(* Sending a code. *)

BeginSend(r, i) ==
  /\ i \in ids /\ requests[r] = Idle
  /\ requests' = [requests EXCEPT ![r] = [Began(i) EXCEPT !.op = "send", !.step = "budget"]]
  /\ UNCHANGED <<tables, issued, ticks, wrong, used>>

\* issuance_budget; that of a change of address has a lock of its own.
Issuance(r) ==
  LET q == requests[r]
      k == Sends(q.id)
  IN /\ At(r, "send", "budget") /\ (Target[q.id] = None => q.id \notin Held)
     /\ IF Exhausted(q, k) THEN Done(r) /\ UNCHANGED windows
        ELSE /\ windows' = [windows EXCEPT ![k] = Charged(k, Count(q, k))]
             /\ requests' = [requests EXCEPT ![r].step = "store"]
     /\ UNCHANGED <<code, links, issued, ticks, wrong, used>>

Store(r) ==
  LET i == requests[r].id
  IN /\ At(r, "send", "store") /\ i \notin Held
     /\ issued < MaxIssued /\ issued' = issued + 1
     /\ code' = [code EXCEPT ![i] = [n |-> issued + 1, attempts |-> 0, expired |-> FALSE]]
     /\ requests' = [requests EXCEPT ![r].step = "detached"]
     /\ UNCHANGED <<links, windows, ticks, wrong, used>>

\* Judging locks the row of the code that was read.
RowFree(i) == \A r \in Request :
  ~(At(r, "check", "judge") /\ requests[r].id = i /\ requests[r].seen # None)

\* Mutant: a change of address mails a link, too.
EveryCode(i)  == TRUE
MailsLink(i)  == Target[i] = None

\* A verification mails a link as well; a change of address to one that is taken
\* discards the code, of whichever send; otherwise the code is mailed.
Detached(r) ==
  LET i == requests[r].id
  IN /\ At(r, "send", "detached") /\ Done(r)
     /\ \/ MailsLink(i) /\ links' = links \cup {i} /\ UNCHANGED code
        \/ /\ Target[i] # None /\ RowFree(i)
           /\ code' = [code EXCEPT ![i] = None] /\ UNCHANGED links
        \/ UNCHANGED <<code, links>>
     /\ UNCHANGED <<windows, issued, ticks, wrong, used>>

---------------------------------------------------------------------------
(* Checking one. *)

BeginCheck(r, i) ==
  /\ i \in ids /\ requests[r] = Idle
  /\ requests' = [requests EXCEPT ![r] = [Began(i) EXCEPT !.op = "check", !.step = "lock"]]
  /\ UNCHANGED <<tables, issued, ticks, wrong, used>>

Alive(q) == q.seen # None /\ q.seen.n # q.dead

\* The locks, the budgets without a charge, and SELECT .. FOR UPDATE of the code.
CheckLocks(r) ==
  LET q == requests[r]
  IN /\ At(r, "check", "lock") /\ LocksOf(q.id) \cap Held = {}
     /\ IF \E k \in Guesses(q.id) : Exhausted(q, k) THEN Done(r)
        ELSE requests' = [requests EXCEPT ![r].step = "judge", ![r].seen = code[q.id],
                            ![r].counts = [k \in Guesses(q.id) |-> Count(q, k)]]
     /\ UNCHANGED <<tables, issued, ticks, wrong, used>>

\* Mutant: a code that is consumed stays.
Kept(i)    == code
Discard(i) == [code EXCEPT ![i] = None]

\* checkVerificationOTP leaves the code.
CheckRight(r) ==
  LET q == requests[r]
  IN /\ At(r, "check", "judge") /\ Alive(q) /\ Done(r)
     /\ \/ code' = Discard(q.id) /\ used' = used \cup {q.seen.n}
        \/ Target[q.id] = None /\ UNCHANGED <<code, used>>
     /\ UNCHANGED <<links, windows, issued, ticks, wrong>>

Worn(q) == q.seen.attempts + 1 >= PerCode

\* The UPDATE and the DELETE name the identifier, not the row that was read.
CheckWrong(r) ==
  LET q == requests[r]
  IN /\ At(r, "check", "judge") /\ Done(r)
     /\ windows' = [k \in Key |-> IF k \in Guesses(q.id) THEN Charged(k, q.counts[k])
                                  ELSE windows[k]]
     /\ code' = IF q.seen = None \/ code[q.id] = None THEN code
                ELSE IF Alive(q) /\ ~Worn(q)
                THEN [code EXCEPT ![q.id].n = q.seen.n, ![q.id].attempts = q.seen.attempts + 1]
                ELSE Discard(q.id)
     /\ wrong' = IF Alive(q) THEN [wrong EXCEPT ![q.seen.n] = @ + 1] ELSE wrong
     /\ UNCHANGED <<links, issued, ticks, used>>

\* consume_link: a link takes the code of its address along.
ConsumeLink(i) ==
  /\ i \in links /\ RowFree(i)
  /\ links' = links \ {i} /\ code' = Discard(i)
  /\ UNCHANGED <<windows, requests, issued, ticks, wrong, used>>

---------------------------------------------------------------------------
(* Time, and failures. *)

Tick == ticks < MaxTicks /\ ticks' = ticks + 1

CodeExpires(i) ==
  /\ code[i] # None /\ ~code[i].expired /\ code' = [code EXCEPT ![i].expired = TRUE] /\ Tick
  /\ UNCHANGED <<links, windows, requests, issued, wrong, used>>

WindowCloses(k) ==
  /\ windows[k].open /\ windows' = [windows EXCEPT ![k].open = FALSE] /\ Tick
  /\ UNCHANGED <<code, links, requests, issued, wrong, used>>

Fail(r) ==
  /\ requests[r] # Idle /\ Done(r)
  /\ UNCHANGED <<tables, issued, ticks, wrong, used>>

Next ==
  /\ \/ \E r \in Request :
          \/ \E i \in Id : BeginSend(r, i) \/ BeginCheck(r, i)
          \/ Issuance(r) \/ Store(r) \/ Detached(r)
          \/ CheckLocks(r) \/ CheckRight(r) \/ CheckWrong(r) \/ Fail(r)
     \/ \E i \in Id : ConsumeLink(i) \/ CodeExpires(i)
     \/ \E k \in Key : WindowCloses(k)
  /\ UNCHANGED ids

Spec == Init /\ [][Next]_vars

---------------------------------------------------------------------------
(* Properties. *)

\* Rows have their types; a link stands for a verification, and a used code was
\* issued.
TypeOK ==
  /\ code \in [Id -> {None} \cup Code] /\ windows \in [Key -> Window]
  /\ \A i \in links : Target[i] = None
  /\ issued \in 0 .. MaxIssued /\ used \subseteq 1 .. issued
  /\ wrong \in [1 .. MaxIssued -> Nat]

\* Guessing is bounded however requests overlap and whatever was sent anew: a
\* code is judged against few wrong guesses, and no window lets more through than
\* its budget, wrong guesses for one identifier, or for one address over all
\* accounts that change to it, and codes sent (budget, check).
WithinBudgets ==
  /\ \A k \in Key : windows[k].events <= Limit(k)
  /\ \A n \in 1 .. MaxIssued : wrong[n] <= PerCode

\* A code that was consumed is not judged again, nor was a check that still
\* judges it before (check).
UsedOnce ==
  \A r \in Request :
    (At(r, "check", "judge") /\ requests[r].seen # None) => requests[r].seen.n \notin used

\* A check discards or counts only the code it has judged, never one that was
\* sent meanwhile (check, store).
SparesNewCodes ==
  [][\A r \in Request, i \in Id :
       (At(r, "check", "judge") /\ requests'[r] = Idle /\ requests[r].id = i
          /\ code'[i] # code[i] /\ code[i] # None)
         => requests[r].seen # None /\ requests[r].seen.n = code[i].n]_vars
=============================================================================

-------------------------- MODULE OneTimeCodesInv --------------------------
(***************************************************************************)
(* The inductive invariant of OneTimeCodes: checks that judge hold their   *)
(* locks alone, and what they have read under them stands.                 *)
(***************************************************************************)
EXTENDS OneTimeCodes

Counts == {<<>>} \cup UNION {[Guesses(i) -> 0 .. MaxGuesses] : i \in Id}
Locals == [op : {None, "send", "check"}, id : {None} \cup Id,
           step : {"idle", "budget", "store", "detached", "lock", "judge"},
           dead : {None} \cup 1 .. MaxIssued, closed : SUBSET Key,
           seen : {None} \cup Code,
           counts : Counts]

RequestTypes ==
  /\ requests \in [Request -> Locals]
  /\ \A r \in Request : requests[r].step # "idle" => requests[r].id \in Id

Judges(r) == At(r, "check", "judge")

\* No two checks hold one lock.
Exclusive ==
  \A r, s \in Request :
    r # s /\ Judges(r) /\ Judges(s) => LocksOf(requests[r].id) \cap LocksOf(requests[s].id) = {}

\* The code that a check has read, but for its expiry, and the budgets, but for
\* their windows, are as it read them.
SeenStands(q) ==
  /\ q.seen = None => code[q.id] = None
  /\ q.seen # None => /\ code[q.id] # None
                      /\ code[q.id].n = q.seen.n /\ code[q.id].attempts = q.seen.attempts
CountsStand(q) ==
  \A k \in Guesses(q.id) : q.counts[k] \in {0, windows[k].count} /\ q.counts[k] < Limit(k)

ReadsStand ==
  \A r \in Request : Judges(r) => SeenStands(requests[r]) /\ CountsStand(requests[r])

\* A code that is there was issued to nobody else and is not used; the wrong
\* guesses that were judged against it are counted in its row.
Unspent(i) ==
  /\ code[i].n \in 1 .. issued \ used
  /\ wrong[code[i].n] <= code[i].attempts /\ code[i].attempts < PerCode
  /\ \A j \in Id \ {i} : code[j] # None => code[j].n # code[i].n

CodeFacts ==
  /\ \A i \in Id : code[i] # None => Unspent(i)
  /\ \A n \in 1 .. MaxIssued : wrong[n] <= PerCode /\ (n > issued => wrong[n] = 0)

\* A row counts all that its window has let through.
WindowFacts ==
  \A k \in Key : windows[k].events = windows[k].count /\ windows[k].count <= Limit(k)

IInv ==
  /\ TypeOK /\ RequestTypes /\ Exclusive /\ ReadsStand /\ CodeFacts /\ WindowFacts
=============================================================================

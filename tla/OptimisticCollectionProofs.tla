---------------------- MODULE OptimisticCollectionProofs ----------------------
(* Proofs about OptimisticCollection: the shapes of its state, the replay of *)
(* the edits, and what a client that is alone shows when it rests.           *)
EXTENDS OptimisticCollectionInv, SequenceTheorems, WellFoundedInduction, TLAPS

(***************************************************************************)
(* Replays.  h replays the edits on from a + 1 to n over base.             *)
(***************************************************************************)

Replays(h, es, on, a, n, base) ==
  /\ h[a] = base
  /\ \A i \in a + 1 .. n :
       h[i] = IF i \in on THEN Result(es[i], h[i - 1]) ELSE h[i - 1]

\* Two histories count the same from a + 1 to n.
Alike(es, on, fs, by, a, n) ==
  \A i \in a + 1 .. n :
    /\ i \in on <=> i \in by
    /\ i \in on => es[i].rel = fs[i].rel /\ es[i].n = fs[i].n

\* The recursion that a replay solves.
Solves(g, es, on, a, n, base) ==
  g = [i \in a .. n |->
        IF i = a THEN base
        ELSE IF i \in on THEN Result(es[i], g[i - 1]) ELSE g[i - 1]]

\* The edits a replay counts: those of k that have not failed, or those of k
\* that the server has applied.
Unfailed(es, k) == {i \in DOMAIN es : k \in es[i].keys /\ es[i].state # "failed"}
Applied(es, k)  == {i \in DOMAIN es : k \in es[i].applied}

\* A set of numbers has a least one.
LEMMA LeastNumber ==
  ASSUME NEW T \in SUBSET Nat, T # {}
  PROVE  \E n \in T : \A m \in T : n <= m
<1> DEFINE R == {ss \in Nat \X Nat : ss[1] < ss[2]}
<1>1. IsWellFoundedOn(R, Nat)
  BY NatLessThanWellFounded DEF OpToRel
<1>2. PICK n \in T : \A m \in T : ~ (<<m, n>> \in R)
  <2> HIDE DEF R
  <2> QED
    BY <1>1, WFMin
<1>3. ASSUME NEW m \in T PROVE n <= m
  <2>1. m \in Nat /\ n \in Nat
    OBVIOUS
  <2>2. ~ (m < n)
    BY <1>2, <2>1
  <2> QED
    BY <2>1, <2>2
<1> QED
  BY <1>3

\* What holds at a and passes from each number to the next holds up to n.
LEMMA Upwards ==
  ASSUME NEW a \in Nat, NEW n \in Nat, NEW S, a \in S,
         \A i \in a + 1 .. n : i - 1 \in S => i \in S
  PROVE  \A i \in a .. n : i \in S
<1> SUFFICES ASSUME ~ \A i \in a .. n : i \in S PROVE FALSE
  OBVIOUS
<1> DEFINE T == {i \in a .. n : i \notin S}
<1>1. T \in SUBSET Nat /\ T # {}
  OBVIOUS
<1>2. PICK m \in T : \A j \in T : m <= j
  BY <1>1, LeastNumber
<1>3. m \in a + 1 .. n
  OBVIOUS
<1>4. m - 1 \in a .. n /\ m - 1 \notin T
  BY <1>2, <1>3
<1> QED
  BY <1>3, <1>4

\* Replays that count the same edits agree.
LEMMA ReplaysAgree ==
  ASSUME NEW a \in Nat, NEW n \in Nat, a <= n, NEW base,
         NEW g, NEW h, NEW es, NEW fs, NEW on, NEW by,
         Replays(g, es, on, a, n, base), Replays(h, fs, by, a, n, base),
         Alike(es, on, fs, by, a, n)
  PROVE  \A i \in a .. n : g[i] = h[i]
<1> DEFINE S == {i \in a .. n : g[i] = h[i]}
<1>1. a \in S
  BY DEF Replays
<1>2. ASSUME NEW i \in a + 1 .. n, i - 1 \in S PROVE i \in S
  <2>1. g[i - 1] = h[i - 1] /\ i \in a .. n
    BY <1>2
  <2>2. g[i] = h[i]
    BY <2>1 DEF Replays, Result, Alike
  <2> QED
    BY <2>1, <2>2
<1> QED
  <2> HIDE DEF S
  <2>1. \A i \in a .. n : i \in S
    BY <1>1, <1>2, Upwards
  <2> QED
    BY <2>1 DEF S

\* A replay that counts nothing after m stays as it was there.
LEMMA ReplayRests ==
  ASSUME NEW a \in Nat, NEW n \in Nat, NEW m \in a .. n, NEW base, NEW h, NEW es, NEW on,
         Replays(h, es, on, a, n, base), \A i \in m + 1 .. n : i \notin on
  PROVE  h[n] = h[m]
<1> DEFINE S == {i \in m .. n : h[i] = h[m]}
<1>1. m \in S
  OBVIOUS
<1>2. ASSUME NEW i \in m + 1 .. n, i - 1 \in S PROVE i \in S
  <2>1. i \in a + 1 .. n
    OBVIOUS
  <2> QED
    BY <1>2, <2>1 DEF Replays
<1> QED
  <2> HIDE DEF S
  <2>1. \A i \in m .. n : i \in S
    BY <1>1, <1>2, Upwards
  <2>2. n \in S
    BY <2>1
  <2> QED
    BY <2>2 DEF S

\* Quantities stay natural numbers.
LEMMA ReplayIsQuantity ==
  ASSUME NEW a \in Nat, NEW n \in Nat, a <= n, NEW base \in Nat, NEW h, NEW es, NEW on,
         Replays(h, es, on, a, n, base),
         \A i \in a + 1 .. n : es[i].n \in Int
  PROVE  \A i \in a .. n : h[i] \in Nat
<1> DEFINE S == {i \in a .. n : h[i] \in Nat}
<1>1. a \in S
  BY DEF Replays
<1>2. ASSUME NEW i \in a + 1 .. n, i - 1 \in S PROVE i \in S
  <2>1. h[i - 1] \in Nat /\ i \in a .. n /\ es[i].n \in Int
    BY <1>2
  <2>2. Result(es[i], h[i - 1]) \in Nat
    BY <2>1 DEF Result, AtLeastZero
  <2>3. h[i] \in Nat
    BY <2>1, <2>2 DEF Replays
  <2> QED
    BY <2>1, <2>3
<1> QED
  <2> HIDE DEF S
  <2>1. \A i \in a .. n : i \in S
    BY <1>1, <1>2, Upwards
  <2> QED
    BY <2>1 DEF S

\* Every replay can be carried out.
LEMMA ReplayExists ==
  ASSUME NEW a \in Nat, NEW n \in Nat, a <= n, NEW base, NEW es, NEW on
  PROVE  \E g : Solves(g, es, on, a, n, base)
<1> DEFINE S == {m \in a .. n : \E g : Solves(g, es, on, a, m, base)}
<1>1. a \in S
  <2> DEFINE z == [i \in a .. a |-> base]
  <2>1. z = [i \in a .. a |->
         IF i = a THEN base ELSE IF i \in on THEN Result(es[i], z[i - 1]) ELSE z[i - 1]]
    OBVIOUS
  <2>2. Solves(z, es, on, a, a, base)
    BY <2>1 DEF Solves
  <2> QED
    BY <2>2
<1>2. ASSUME NEW m \in a + 1 .. n, m - 1 \in S PROVE m \in S
  <2>1. PICK g : Solves(g, es, on, a, m - 1, base)
    BY <1>2
  <2> DEFINE h == [i \in a .. m |->
         IF i = m THEN (IF m \in on THEN Result(es[m], g[m - 1]) ELSE g[m - 1]) ELSE g[i]]
             H == [i \in a .. m |->
         IF i = a THEN base
         ELSE IF i \in on THEN Result(es[i], h[i - 1]) ELSE h[i - 1]]
  <2>2. \A i \in a .. m - 1 : g[i] = IF i = a THEN base
           ELSE IF i \in on THEN Result(es[i], g[i - 1]) ELSE g[i - 1]
    BY <2>1 DEF Solves
  <2>3. ASSUME NEW i \in a .. m PROVE h[i] = H[i]
    <3>1. CASE i = m
      <4>1. h[i - 1] = g[i - 1] /\ i # a
        BY <3>1
      <4> QED
        BY <3>1, <4>1
    <3>2. CASE i # m /\ i = a
      BY <2>2, <3>2
    <3>3. CASE i # m /\ i # a
      <4>1. i \in a .. m - 1 /\ i - 1 \in a .. m /\ i - 1 # m
        BY <3>3
      <4>2. h[i] = g[i] /\ h[i - 1] = g[i - 1]
        BY <4>1
      <4>3. H[i] = IF i \in on THEN Result(es[i], h[i - 1]) ELSE h[i - 1]
        BY <3>3
      <4> HIDE DEF h, H
      <4> QED
        BY <2>2, <3>3, <4>1, <4>2, <4>3
    <3> QED
      BY <3>1, <3>2, <3>3
  <2>4. h = H
    BY <2>3
  <2>5. Solves(h, es, on, a, m, base)
    BY <2>4 DEF Solves
  <2>6. m \in a .. n
    OBVIOUS
  <2> HIDE DEF h
  <2> QED
    BY <2>5, <2>6
<1> QED
  <2> HIDE DEF S
  <2>1. \A m \in a .. n : m \in S
    BY <1>1, <1>2, Upwards
  <2>2. n \in S
    BY <2>1
  <2> QED
    BY <2>2 DEF S
(***************************************************************************)
(* The replays of a batch.                                                 *)
(***************************************************************************)

Base(b, k) == Quantity(b.entries, b.ownership, k)

\* The replay of ReplayOf and that of ServedOf, from a batch b.
ReplayFrom(b, es, k) ==
  LET base == Base(b, k)
      q[i \in b.first - 1 .. Len(es)] ==
        IF i < b.first THEN base
        ELSE IF k \notin es[i].keys \/ es[i].state = "failed" THEN q[i - 1]
        ELSE Result(es[i], q[i - 1])
  IN q[Len(es)]
ServedFrom(b, es, k) ==
  LET base == Base(b, k)
      q[i \in b.first - 1 .. Len(es)] ==
        IF i < b.first THEN base
        ELSE IF k \notin es[i].applied THEN q[i - 1]
        ELSE Result(es[i], q[i - 1])
  IN q[Len(es)]

\* ReplayOf is what ReplayFrom says of the batch there is; so is ServedOf.
LEMMA ReplaysOfBatch ==
  ASSUME NEW k, NEW es
  PROVE  /\ ReplayOf(es, k) = ReplayFrom(batch, es, k)
         /\ ServedOf(es, k) = ServedFrom(batch, es, k)
BY DEF ReplayOf, ServedOf, ReplayFrom, ServedFrom, Base

LEMMA ReplaysOfNextBatch ==
  ASSUME NEW k
  PROVE  /\ ReplayOf(edits, k)' = ReplayFrom(batch', edits', k)
         /\ ServedOf(edits, k)' = ServedFrom(batch', edits', k)
BY DEF ReplayOf, ServedOf, ReplayFrom, ServedFrom, Base

Shows(b, es, k, on, x) ==
  \E g : /\ Replays(g, es, on, b.first - 1, Len(es), Base(b, k))
         /\ x = g[Len(es)]

\* What is shown is a replay of the edits that have not failed.
LEMMA ShownFrom ==
  ASSUME NEW b, NEW es, NEW k, Len(es) \in Nat, DOMAIN es = 1 .. Len(es),
         b.first \in 1 .. Len(es) + 1
  PROVE  Shows(b, es, k, Unfailed(es, k), ReplayFrom(b, es, k))
<1> DEFINE a == b.first - 1
           n == Len(es)
           on == Unfailed(es, k)
           base == Base(b, k)
           Body(g) == [i \in b.first - 1 .. Len(es) |->
             IF i < b.first THEN base
             ELSE IF k \notin es[i].keys \/ es[i].state = "failed" THEN g[i - 1]
             ELSE Result(es[i], g[i - 1])]
           q == CHOOSE g : g = Body(g)
<1>1. a \in Nat /\ n \in Nat /\ a <= n
  OBVIOUS
<1>2. PICK g : Solves(g, es, on, a, n, base)
  <2> HIDE DEF a, n, on, base
  <2> QED
    BY <1>1, ReplayExists
<1>3. ASSUME NEW f, NEW i \in a .. n
      PROVE  Body(f)[i] = IF i = a THEN base
               ELSE IF i \in on THEN Result(es[i], f[i - 1]) ELSE f[i - 1]
  <2>1. CASE i = a
    BY <2>1
  <2>2. CASE i # a
    <3>1. i \in DOMAIN es /\ ~ (i < b.first)
      BY <2>2
    <3>2. i \in on <=> ~ (k \notin es[i].keys \/ es[i].state = "failed")
      BY <3>1 DEF Unfailed
    <3> HIDE DEF on, base
    <3> QED
      BY <2>2, <3>1, <3>2
  <2> QED
    BY <2>1, <2>2
<1>4. g = Body(g)
  <2>1. \A i \in a .. n : g[i] = Body(g)[i]
    <3> HIDE DEF Body, on, base
    <3> QED
      BY <1>2, <1>3 DEF Solves
  <2>2. g = [i \in a .. n |-> g[i]]
    <3> HIDE DEF Body, on, base
    <3> QED
      BY <1>2 DEF Solves
  <2>3. Body(g) = [i \in a .. n |-> Body(g)[i]]
    OBVIOUS
  <2> HIDE DEF Body
  <2> QED
    BY <2>1, <2>2, <2>3
<1>5. q = Body(q)
  <2> HIDE DEF Body
  <2> QED
    BY <1>4
<1>6. Replays(q, es, on, a, n, base)
  <2>1. \A i \in a .. n : q[i] = IF i = a THEN base
               ELSE IF i \in on THEN Result(es[i], q[i - 1]) ELSE q[i - 1]
    <3> HIDE DEF Body, on, base, q, a, n
    <3> QED
      BY <1>3, <1>5
  <2> HIDE DEF Body, on, base, q, a, n
  <2> QED
    BY <1>1, <2>1 DEF Replays
<1>7. ReplayFrom(b, es, k) = q[n]
  BY DEF ReplayFrom
<1> QED
  <2> HIDE DEF q
  <2> QED
    BY <1>6, <1>7 DEF Shows

\* What the server has is a replay of the edits it has applied.
LEMMA ServedIs ==
  ASSUME NEW b, NEW es, NEW k, Len(es) \in Nat, DOMAIN es = 1 .. Len(es),
         b.first \in 1 .. Len(es) + 1
  PROVE  Shows(b, es, k, Applied(es, k), ServedFrom(b, es, k))
<1> DEFINE a == b.first - 1
           n == Len(es)
           on == Applied(es, k)
           base == Base(b, k)
           Body(g) == [i \in b.first - 1 .. Len(es) |->
             IF i < b.first THEN base
             ELSE IF k \notin es[i].applied THEN g[i - 1]
             ELSE Result(es[i], g[i - 1])]
           q == CHOOSE g : g = Body(g)
<1>1. a \in Nat /\ n \in Nat /\ a <= n
  OBVIOUS
<1>2. PICK g : Solves(g, es, on, a, n, base)
  <2> HIDE DEF a, n, on, base
  <2> QED
    BY <1>1, ReplayExists
<1>3. ASSUME NEW f, NEW i \in a .. n
      PROVE  Body(f)[i] = IF i = a THEN base
               ELSE IF i \in on THEN Result(es[i], f[i - 1]) ELSE f[i - 1]
  <2>1. CASE i = a
    BY <2>1
  <2>2. CASE i # a
    <3>1. i \in DOMAIN es /\ ~ (i < b.first)
      BY <2>2
    <3>2. i \in on <=> k \in es[i].applied
      BY <3>1 DEF Applied
    <3> HIDE DEF on, base
    <3> QED
      BY <2>2, <3>1, <3>2
  <2> QED
    BY <2>1, <2>2
<1>4. g = Body(g)
  <2>1. \A i \in a .. n : g[i] = Body(g)[i]
    <3> HIDE DEF Body, on, base
    <3> QED
      BY <1>2, <1>3 DEF Solves
  <2>2. g = [i \in a .. n |-> g[i]]
    <3> HIDE DEF Body, on, base
    <3> QED
      BY <1>2 DEF Solves
  <2>3. Body(g) = [i \in a .. n |-> Body(g)[i]]
    OBVIOUS
  <2> HIDE DEF Body
  <2> QED
    BY <2>1, <2>2, <2>3
<1>5. q = Body(q)
  <2> HIDE DEF Body
  <2> QED
    BY <1>4
<1>6. Replays(q, es, on, a, n, base)
  <2>1. \A i \in a .. n : q[i] = IF i = a THEN base
               ELSE IF i \in on THEN Result(es[i], q[i - 1]) ELSE q[i - 1]
    <3> HIDE DEF Body, on, base, q, a, n
    <3> QED
      BY <1>3, <1>5
  <2> HIDE DEF Body, on, base, q, a, n
  <2> QED
    BY <1>1, <2>1 DEF Replays
<1>7. ServedFrom(b, es, k) = q[n]
  BY DEF ServedFrom
<1> QED
  <2> HIDE DEF q
  <2> QED
    BY <1>6, <1>7 DEF Shows
\* Two histories with the same counted edits show the same.
LEMMA ShowsSame ==
  ASSUME NEW b, NEW es, NEW fs, NEW k, NEW on, NEW by, NEW x, NEW y,
         Len(es) \in Nat, Len(fs) = Len(es), b.first \in 1 .. Len(es) + 1,
         Shows(b, es, k, on, x), Shows(b, fs, k, by, y),
         Alike(es, on, fs, by, b.first - 1, Len(es))
  PROVE  x = y
<1> DEFINE a == b.first - 1
           n == Len(es)
<1>1. PICK g : Replays(g, es, on, a, n, Base(b, k)) /\ x = g[n]
  BY DEF Shows
<1>2. PICK h : Replays(h, fs, by, a, n, Base(b, k)) /\ y = h[n]
  BY DEF Shows
<1>3. a \in Nat /\ n \in Nat /\ a <= n /\ n \in a .. n /\ a + 1 = b.first
  OBVIOUS
<1>4. Alike(es, on, fs, by, a, n)
  OBVIOUS
<1>5. \A i \in a .. n : g[i] = h[i]
  <2> HIDE DEF a, n
  <2> QED
    BY <1>1, <1>2, <1>3, <1>4, ReplaysAgree
<1> QED
  <2> HIDE DEF a, n
  <2> QED
    BY <1>1, <1>2, <1>3, <1>5

\* One more edit is applied to what was shown.
LEMMA ShowsAppended ==
  ASSUME NEW b, NEW es, NEW fs, NEW k, NEW on, NEW by, NEW x, NEW y,
         Len(es) \in Nat, Len(fs) = Len(es) + 1, b.first \in 1 .. Len(es) + 1,
         Shows(b, es, k, on, x), Shows(b, fs, k, by, y),
         Alike(es, on, fs, by, b.first - 1, Len(es))
  PROVE  y = IF Len(fs) \in by THEN Result(fs[Len(fs)], x) ELSE x
<1> DEFINE a == b.first - 1
           n == Len(es)
<1>1. PICK g : Replays(g, es, on, a, n, Base(b, k)) /\ x = g[n]
  BY DEF Shows
<1>2. PICK h : Replays(h, fs, by, a, n + 1, Base(b, k)) /\ y = h[n + 1]
  BY DEF Shows
<1>3. a \in Nat /\ n \in Nat /\ a <= n /\ n \in a .. n /\ a + 1 = b.first
  OBVIOUS
<1>4. Alike(es, on, fs, by, a, n)
  OBVIOUS
<1>5. Replays(h, fs, by, a, n, Base(b, k))
  <2> HIDE DEF a, n
  <2> QED
    BY <1>2, <1>3 DEF Replays
<1>6. h[n] = g[n]
  <2> HIDE DEF a, n
  <2>1. \A i \in a .. n : g[i] = h[i]
    BY <1>1, <1>3, <1>4, <1>5, ReplaysAgree
  <2> QED
    BY <1>3, <2>1
<1>7. h[n + 1] = IF n + 1 \in by THEN Result(fs[n + 1], h[n]) ELSE h[n]
  <2>1. n + 1 \in a + 1 .. n + 1 /\ (n + 1) - 1 = n
    BY <1>3
  <2> HIDE DEF a, n
  <2> QED
    BY <1>2, <2>1 DEF Replays
<1> QED
  BY <1>1, <1>2, <1>6, <1>7

\* The next edit to count, behind all that count already, is applied to what was
\* shown.
LEMMA ShowsNext ==
  ASSUME NEW b, NEW es, NEW fs, NEW k, NEW on, NEW by, NEW x, NEW y,
         Len(es) \in Nat, Len(fs) = Len(es), b.first \in 1 .. Len(es) + 1,
         NEW m \in b.first .. Len(es),
         Shows(b, es, k, on, x), Shows(b, fs, k, by, y),
         Alike(es, on, fs, by, b.first - 1, m - 1),
         \A i \in m .. Len(es) : i \notin on,
         m \in by, \A i \in m + 1 .. Len(es) : i \notin by
  PROVE  y = Result(fs[m], x)
<1> DEFINE a == b.first - 1
           n == Len(es)
           l == m - 1
<1>1. PICK g : Replays(g, es, on, a, n, Base(b, k)) /\ x = g[n]
  BY DEF Shows
<1>2. PICK h : Replays(h, fs, by, a, n, Base(b, k)) /\ y = h[n]
  BY DEF Shows
<1>3. /\ a \in Nat /\ n \in Nat /\ a <= n /\ a + 1 = b.first /\ l \in Nat
      /\ a <= l /\ m \in a .. n /\ l \in a .. n /\ m \in a + 1 .. n /\ l \in a .. l
      /\ l + 1 = m /\ m \in Nat /\ m <= n
  OBVIOUS
<1>4. Alike(es, on, fs, by, a, l)
  OBVIOUS
<1>5. /\ Replays(g, es, on, a, l, Base(b, k))
      /\ Replays(h, fs, by, a, l, Base(b, k))
  <2> HIDE DEF a, n
  <2> QED
    BY <1>1, <1>2, <1>3 DEF Replays
<1>6. h[l] = g[l]
  <2> HIDE DEF a, n, l
  <2>1. \A i \in a .. l : g[i] = h[i]
    BY <1>3, <1>4, <1>5, ReplaysAgree
  <2> QED
    BY <1>3, <2>1
<1>7. h[m] = Result(fs[m], h[l])
  <2> HIDE DEF a, n
  <2> QED
    BY <1>2, <1>3 DEF Replays
<1>8. g[n] = g[l]
  <2>1. \A i \in l + 1 .. n : i \notin on
    OBVIOUS
  <2> HIDE DEF a, n, l
  <2> QED
    BY <1>1, <1>3, <2>1, ReplayRests
<1>9. h[n] = h[m]
  <2>1. \A i \in m + 1 .. n : i \notin by
    OBVIOUS
  <2> HIDE DEF a, n
  <2> QED
    BY <1>2, <1>3, <2>1, ReplayRests
<1> QED
  BY <1>1, <1>2, <1>6, <1>7, <1>8, <1>9

\* What is shown is a quantity.
LEMMA ShowsQuantity ==
  ASSUME NEW b, NEW es, NEW k, NEW on, NEW x,
         Len(es) \in Nat, b.first \in 1 .. Len(es) + 1, Base(b, k) \in Nat,
         Shows(b, es, k, on, x), \A i \in 1 .. Len(es) : es[i].n \in Int
  PROVE  x \in Nat
<1> DEFINE a == b.first - 1
           n == Len(es)
<1>1. PICK g : Replays(g, es, on, a, n, Base(b, k)) /\ x = g[n]
  BY DEF Shows
<1>2. a \in Nat /\ n \in Nat /\ a <= n /\ n \in a .. n /\ \A i \in a + 1 .. n : es[i].n \in Int
  OBVIOUS
<1>3. \A i \in a .. n : g[i] \in Nat
  <2> HIDE DEF a, n
  <2> QED
    BY <1>1, <1>2, ReplayIsQuantity
<1> QED
  BY <1>1, <1>2, <1>3

\* A batch without edits shows what it started from.
LEMMA ShowsBase ==
  ASSUME NEW b, NEW es, NEW k, NEW on, NEW x,
         Len(es) \in Nat, b.first = Len(es) + 1, Shows(b, es, k, on, x)
  PROVE  x = Base(b, k)
<1>1. b.first - 1 = Len(es)
  OBVIOUS
<1> QED
  BY <1>1 DEF Shows, Replays
(***************************************************************************)
(* Shapes.                                                                 *)
(***************************************************************************)

Requests ==
  [phase : {"idle", "sent", "read"}, gen : 0 .. MaxEdits, during : BOOLEAN,
   value : {None} \cup [Key -> Nat], seen : SUBSET (1 .. MaxEdits)]

\* The sequence of edits with another record at m.
Becomes(m, e) ==
  /\ edits' \in Seq(EditRecords) /\ Len(edits') = Len(edits) /\ e \in EditRecords
  /\ edits'[m] = e /\ \A i \in DOMAIN edits \ {m} : edits'[i] = edits[i]

LEMMA EditsAre ==
  ASSUME TypeOK
  PROVE  /\ Len(edits) \in 0 .. MaxEdits /\ DOMAIN edits = 1 .. Len(edits)
         /\ \A i \in DOMAIN edits : edits[i] \in EditRecords
<1>1. edits \in Seq(EditRecords) /\ Len(edits) <= MaxEdits
  BY DEF TypeOK
<1>2. Len(edits) \in Nat /\ DOMAIN edits = 1 .. Len(edits)
  BY <1>1, LenProperties
<1>3. \A i \in 1 .. Len(edits) : edits[i] \in EditRecords
  BY <1>1, ElementOfSeq
<1> QED
  BY <1>1, <1>2, <1>3, BoundsAssumption

LEMMA Changed ==
  ASSUME TypeOK, NEW m \in DOMAIN edits, NEW e \in EditRecords,
         edits' = [edits EXCEPT ![m] = e]
  PROVE  Becomes(m, e) /\ DOMAIN edits' = DOMAIN edits
<1>1. edits \in Seq(EditRecords) /\ m \in 1 .. Len(edits) /\ DOMAIN edits = 1 .. Len(edits)
  BY EditsAre DEF TypeOK
<1>2. edits' \in Seq(EditRecords) /\ Len(edits') = Len(edits)
  BY <1>1, ExceptSeq
<1>3. DOMAIN edits' = DOMAIN edits /\ edits'[m] = e
  BY <1>1
<1>4. \A i \in DOMAIN edits \ {m} : edits'[i] = edits[i]
  BY <1>1
<1> QED
  BY <1>2, <1>3, <1>4 DEF Becomes

LEMMA QuantityIs ==
  ASSUME NEW l \in {None} \cup [Key -> Nat], NEW o \in [Key -> Nat \cup {None}],
         NEW k \in Key
  PROVE  Quantity(l, o, k) \in Nat
<1>1. o[k] \in Nat \cup {None} /\ (l # None => l[k] \in Nat)
  OBVIOUS
<1> QED
  BY <1>1 DEF Quantity

LEMMA ResultIs ==
  ASSUME NEW e, e.n \in Int, NEW q \in Nat
  PROVE  Result(e, q) \in Nat
BY DEF Result, AtLeastZero

\* What is shown when quantities q are applied to the finishes of keys.
LEMMA Applying ==
  ASSUME TypeOK, NEW q \in [Key -> Nat], NEW seeds, NEW keys \in SUBSET Key,
         NEW l, l = ListWith(q, seeds, keys), NEW o, o = OwnWith(q, keys)
  PROVE  /\ l = None \/ l \in [Key -> Nat]
         /\ list # None => l # None
         /\ o \in [Key -> Nat \cup {None}]
         /\ \A k \in Key : Quantity(l, o, k) = IF k \in keys THEN q[k] ELSE Cached(k)
<1>1. o \in [Key -> Nat \cup {None}] /\ \A k \in Key : o[k] = IF k \in keys THEN q[k] ELSE own[k]
  BY DEF OwnWith, TypeOK
<1> DEFINE old == IF list = None THEN NoEntries ELSE list
           kept(k) == k \notin keys \/ (q[k] > 0 /\ old[k] = 0 /\ k \notin seeds)
<1>2. old \in [Key -> Nat]
  BY DEF TypeOK, NoEntries
<1>3. CASE list = None /\ \A k \in keys : kept(k)
  <2>1. l = None
    BY <1>3 DEF ListWith
  <2>2. ASSUME NEW k \in Key
        PROVE  Quantity(l, o, k) = IF k \in keys THEN q[k] ELSE Cached(k)
    <3>1. q[k] \in Nat /\ q[k] # None
      BY NoneAssumption
    <3> QED
      BY <1>1, <1>3, <2>1, <3>1 DEF Quantity, Cached
  <2> QED
    BY <1>1, <1>3, <2>1, <2>2
<1>4. CASE ~ (list = None /\ \A k \in keys : kept(k))
  <2>1. l = [k \in Key |-> IF kept(k) THEN old[k] ELSE q[k]]
    BY <1>4 DEF ListWith
  <2>2. l \in [Key -> Nat] /\ l # None
    <3>1. l \in [Key -> Nat]
      <4> HIDE DEF old, kept
      <4> QED
        BY <1>2, <2>1
    <3> QED
      BY <3>1, NoneAssumption
  <2>3. ASSUME NEW k \in Key
        PROVE  Quantity(l, o, k) = IF k \in keys THEN q[k] ELSE Cached(k)
    <3>1. q[k] \in Nat /\ q[k] # None /\ old[k] \in Nat
      BY NoneAssumption, <1>2
    <3>2. l[k] = IF kept(k) THEN old[k] ELSE q[k]
      <4> HIDE DEF old, kept
      <4> QED
        BY <2>1
    <3>3. CASE k \in keys
      <4>1. o[k] = q[k] /\ (kept(k) => old[k] = 0)
        BY <1>1, <3>3
      <4>2. Quantity(l, o, k) = q[k]
        <5> HIDE DEF old, kept
        <5> QED
          BY <3>1, <3>2, <4>1, <2>2 DEF Quantity
      <4> QED
        BY <4>2, <3>3
    <3>4. CASE k \notin keys
      <4>1. o[k] = own[k] /\ l[k] = old[k]
        BY <1>1, <3>2, <3>4
      <4>2. old[k] = IF list = None THEN 0 ELSE list[k]
        BY DEF NoEntries
      <4>3. Quantity(l, o, k) = Cached(k)
        <5> HIDE DEF old, kept
        <5> QED
          BY <4>1, <4>2, <2>2 DEF Quantity, Cached
      <4> QED
        BY <4>3, <3>4
    <3> QED
      BY <3>3, <3>4
  <2> QED
    BY <1>1, <2>2, <2>3
<1> QED
  BY <1>3, <1>4

\* The statement of ShownIsReplay, now and after a step.
Showing(b, l, o, es) ==
  (b # None /\ b.entries # None) => \A k \in Key : Quantity(l, o, k) = ReplayFrom(b, es, k)

LEMMA ShowingIs ==
  /\ ShownIsReplay <=> Showing(batch, list, own, edits)
  /\ ShownIsReplay' <=> Showing(batch', list', own', edits')
<1>1. ShownIsReplay <=> Showing(batch, list, own, edits)
  BY ReplaysOfBatch DEF ShownIsReplay, Showing, Cached
<1>2. ShownIsReplay' <=> Showing(batch', list', own', edits')
  BY ReplaysOfNextBatch DEF ShownIsReplay, Showing, Cached
<1> QED
  BY <1>1, <1>2
(***************************************************************************)
(* Steps.                                                                  *)
(***************************************************************************)

\* An edit never opens again, and one that is no longer open does not change.
Later(es) ==
  /\ Len(es) \in Nat /\ Len(es) >= Len(edits)
  /\ \A m \in DOMAIN edits :
       /\ IsOpen(es, m) => IsOpen(edits, m)
       /\ (es[m].state = "ok" /\ ~IsOpen(edits, m)) => edits[m].state = "ok"

LEMMA InformedLater ==
  ASSUME TypeOK, NEW es, Later(es), NEW f \in Fetch, Informed(fetch[f], edits)
  PROVE  Informed(fetch[f], es)
<1> DEFINE q == fetch[f]
<1>1. DOMAIN edits = 1 .. Len(edits) /\ Len(edits) \in Nat
  BY EditsAre
<1>2. q.phase # "idle" => q.gen \in 0 .. Len(es) /\ \A m \in 1 .. q.gen : m \in DOMAIN edits
  BY <1>1 DEF Informed, Later
<1> HIDE DEF q
<1>3. q = fetch[f]
  BY DEF q
<1> QED
  BY <1>2, <1>3 DEF Informed, Later

\* Starting a request leaves those under way alone.
LEMMA Started ==
  ASSUME TypeOK, generation = Len(edits), NEW es, Len(es) = Len(edits),
         NEW g \in Fetch, NEW mutating \in BOOLEAN, Starts(g, mutating),
         ~mutating => \A m \in 1 .. Len(edits) : ~IsOpen(es, m),
         \A f \in Fetch : Informed(fetch[f], es)
  PROVE  /\ fetch' \in [Fetch -> Requests] /\ current' \in Fetch \cup {None}
         /\ \A f \in Fetch : Informed(fetch'[f], es)
         /\ \A f \in Fetch : fetch'[f] # fetch[f] =>
              fetch[f].phase = "idle" /\ fetch'[f].phase = "sent"
<1>1. fetch \in [Fetch -> Requests] /\ current \in Fetch \cup {None}
  BY DEF TypeOK, Requests
<1>2. CASE UNCHANGED <<fetch, current>>
  BY <1>1, <1>2
<1>3. CASE ~ UNCHANGED <<fetch, current>>
  <2> DEFINE n == [Idle EXCEPT !.phase = "sent", !.gen = generation, !.during = mutating]
  <2>1. fetch' = [fetch EXCEPT ![g] = n] /\ current' = g /\ fetch[g].phase = "idle"
    BY <1>3 DEF Starts, Free
  <2>2. generation \in 0 .. MaxEdits
    BY DEF TypeOK
  <2>3. /\ n \in Requests /\ n.phase = "sent" /\ n.gen = generation /\ n.during = mutating
    BY <2>2 DEF Idle, Requests
  <2>4. Informed(n, es)
    BY <2>2, <2>3 DEF Informed
  <2> HIDE DEF n
  <2>5. \A f \in Fetch : fetch'[f] = IF f = g THEN n ELSE fetch[f]
    BY <1>1, <2>1
  <2>6. fetch' \in [Fetch -> Requests]
    BY <1>1, <2>1, <2>3
  <2> QED
    BY <2>1, <2>3, <2>4, <2>5, <2>6
<1> QED
  BY <1>2, <1>3

\* Steps that leave the edits and what is shown alone.
LEMMA Elsewhere ==
  ASSUME IInv, UNCHANGED <<list, own, edits, batch, generation>>,
         server' \in [Key -> Nat], remote' \in 0 .. MaxRemote,
         fetch' \in [Fetch -> Requests], current' \in Fetch \cup {None},
         \A f \in Fetch : Informed(fetch'[f], edits),
         {timer', event', deferred', owed'} \subseteq BOOLEAN, deferred' => Mutating
  PROVE  IInv'
<1>1. TypeOK'
  BY DEF IInv, TypeOK, Requests
<1>2. Batched' /\ \A m \in DOMAIN edits' : Edited(edits'[m])
  <2>1. Batched /\ \A m \in DOMAIN edits : Edited(edits[m])
    BY DEF IInv
  <2> QED
    BY <2>1 DEF Batched
<1>3. \A f \in Fetch : Informed(fetch'[f], edits')
  OBVIOUS
<1>4. DeferredOnlyWhileMutating'
  BY DEF DeferredOnlyWhileMutating, Mutating, Pending
<1>5. ShownIsReplay'
  BY ShowingIs DEF IInv
<1> QED
  BY <1>1, <1>2, <1>3, <1>4, <1>5 DEF IInv

LEMMA TypesHold ==
  ASSUME TypeOK
  PROVE  /\ server \in [Key -> Nat] /\ remote \in 0 .. MaxRemote
         /\ fetch \in [Fetch -> Requests] /\ current \in Fetch \cup {None}
         /\ {timer, event, deferred, owed} \subseteq BOOLEAN
         /\ Mutating \in BOOLEAN
BY DEF TypeOK, Requests, Mutating

\* Mutating says whether an edit is open, and is what a batch is kept for.
LEMMA MutatingIs ==
  ASSUME TypeOK
  PROVE  /\ ~Mutating => \A m \in 1 .. Len(edits) : ~IsOpen(edits, m)
         /\ Mutating => \E m \in DOMAIN edits : IsOpen(edits, m)
         /\ Batched => (batch # None <=> Mutating)
<1>1. DOMAIN edits = 1 .. Len(edits)
  BY EditsAre
<1>2. Mutating <=> \E m \in DOMAIN edits : IsOpen(edits, m)
  BY DEF Mutating, Pending, IsOpen
<1> QED
  BY <1>1, <1>2 DEF Batched

LEMMA StepReconcile ==
  ASSUME IInv, Reconcile
  PROVE  IInv'
<1>1. PICK g \in Fetch : Starts(g, Mutating)
  BY DEF Reconcile
<1>2. TypeOK /\ generation = Len(edits) /\ \A f \in Fetch : Informed(fetch[f], edits)
  BY DEF IInv, Batched
<1>3. /\ fetch' \in [Fetch -> Requests] /\ current' \in Fetch \cup {None}
      /\ \A f \in Fetch : Informed(fetch'[f], edits)
  BY <1>1, <1>2, Started, MutatingIs, TypesHold
<1> QED
  BY <1>2, <1>3, TypesHold, Elsewhere DEF Reconcile, IInv, DeferredOnlyWhileMutating

LEMMA StepRefetch ==
  ASSUME IInv, NEW g \in Fetch, Refetch(g)
  PROVE  IInv'
<1>1. Starts(g, Mutating)
  BY DEF Refetch
<1>2. TypeOK /\ generation = Len(edits) /\ \A f \in Fetch : Informed(fetch[f], edits)
  BY DEF IInv, Batched
<1>3. /\ fetch' \in [Fetch -> Requests] /\ current' \in Fetch \cup {None}
      /\ \A f \in Fetch : Informed(fetch'[f], edits)
  BY <1>1, <1>2, Started, MutatingIs, TypesHold
<1> QED
  BY <1>2, <1>3, TypesHold, Elsewhere DEF Refetch, IInv, DeferredOnlyWhileMutating

LEMMA StepLiveEvent ==
  ASSUME IInv, LiveEvent
  PROVE  IInv'
<1>1. TypeOK /\ generation = Len(edits) /\ \A f \in Fetch : Informed(fetch[f], edits)
  BY DEF IInv, Batched
<1>2. /\ fetch' \in [Fetch -> Requests] /\ current' \in Fetch \cup {None}
      /\ \A f \in Fetch : Informed(fetch'[f], edits)
  <2>1. CASE Mutating
    BY <1>1, <2>1, TypesHold DEF LiveEvent
  <2>2. CASE ~Mutating
    <3>1. PICK g \in Fetch : Starts(g, FALSE)
      BY <2>2 DEF LiveEvent
    <3> QED
      BY <1>1, <2>2, <3>1, Started, MutatingIs
  <2> QED
    BY <2>1, <2>2
<1> QED
  BY <1>1, <1>2, TypesHold, Elsewhere DEF LiveEvent

LEMMA StepRemote ==
  ASSUME IInv, (\E k \in Key, q \in 0 .. MaxQty : RemoteChange(k, q)) \/ Disconnect
  PROVE  IInv'
<1>1. TypeOK /\ \A f \in Fetch : Informed(fetch[f], edits)
  BY DEF IInv
<1>2. UNCHANGED client
  BY DEF RemoteChange, Disconnect
<1>3. server' \in [Key -> Nat] /\ remote' \in 0 .. MaxRemote /\ event' \in BOOLEAN
  <2>1. CASE Disconnect
    BY <1>1, <2>1, TypesHold DEF Disconnect
  <2>2. ASSUME NEW k \in Key, NEW q \in 0 .. MaxQty, RemoteChange(k, q)
        PROVE  server' \in [Key -> Nat] /\ remote' \in 0 .. MaxRemote /\ event' \in BOOLEAN
    <3>1. q \in Nat
      BY BoundsAssumption
    <3> QED
      BY <1>1, <2>2, <3>1, TypesHold, BoundsAssumption DEF RemoteChange
  <2> QED
    BY <2>1, <2>2
<1> QED
  BY <1>1, <1>2, <1>3, TypesHold, Elsewhere DEF client, IInv, DeferredOnlyWhileMutating

LEMMA StepRead ==
  ASSUME IInv, NEW g \in Fetch, Read(g)
  PROVE  IInv'
<1>1. TypeOK /\ (\A f \in Fetch : Informed(fetch[f], edits)) /\ \A m \in DOMAIN edits : Edited(edits[m])
  BY DEF IInv
<1>2. PICK q \in Requests : q = fetch[g]
  BY <1>1, TypesHold
<1> DEFINE seen == {m \in DOMAIN edits : edits[m].applied = edits[m].asks}
           n == [q EXCEPT !.phase = "read", !.value = server, !.seen = seen]
<1>3. fetch' = [fetch EXCEPT ![g] = n] /\ q.phase = "sent"
  BY <1>2 DEF Read
<1>4. /\ n \in Requests /\ n.phase = "read" /\ n.gen = q.gen /\ n.during = q.during
      /\ n.value = server /\ n.seen = seen
  <2>1. seen \in SUBSET (1 .. MaxEdits)
    <3>1. seen \subseteq DOMAIN edits
      OBVIOUS
    <3>2. DOMAIN edits \subseteq 1 .. MaxEdits
      BY <1>1, EditsAre, BoundsAssumption
    <3> QED
      BY <3>1, <3>2
  <2> HIDE DEF seen
  <2> QED
    BY <1>1, <2>1, TypesHold DEF Requests
<1>5. Informed(q, edits)
  BY <1>1, <1>2
<1>6. ASSUME NEW m \in 1 .. q.gen, edits[m].state = "ok" PROVE m \in seen
  <2>1. m \in DOMAIN edits
    BY <1>1, <1>3, <1>5, EditsAre DEF Informed
  <2> QED
    BY <1>1, <1>6, <2>1 DEF Edited
<1> HIDE DEF n, seen
<1>7. Informed(n, edits)
  BY <1>1, <1>3, <1>4, <1>5, <1>6, TypesHold DEF Informed
<1>8. fetch' \in [Fetch -> Requests] /\ \A f \in Fetch : Informed(fetch'[f], edits)
  BY <1>1, <1>3, <1>4, <1>7, TypesHold
<1> QED
  BY <1>1, <1>8, TypesHold, Elsewhere DEF Read, IInv, DeferredOnlyWhileMutating

\* An idle request claims nothing.
LEMMA IdleIs ==
  Idle \in Requests /\ \A es : Informed(Idle, es)
<1>1. Idle \in Requests
  BY BoundsAssumption DEF Idle, Requests
<1> QED
  BY <1>1 DEF Idle, Informed

LEMMA StepFetchFails ==
  ASSUME IInv, NEW g \in Fetch, FetchFails(g)
  PROVE  IInv'
<1>1. TypeOK /\ \A f \in Fetch : Informed(fetch[f], edits)
  BY DEF IInv
<1>2. fetch' \in [Fetch -> Requests] /\ \A f \in Fetch : Informed(fetch'[f], edits)
  BY <1>1, IdleIs, TypesHold DEF FetchFails
<1>3. current' \in Fetch \cup {None} /\ owed' \in BOOLEAN
  BY <1>1, TypesHold DEF FetchFails
<1> QED
  BY <1>1, <1>2, <1>3, TypesHold, Elsewhere DEF FetchFails, IInv, DeferredOnlyWhileMutating
\* The batch there is has a first edit and quantities it started from.
LEMMA BatchIs ==
  ASSUME TypeOK, Batched, batch # None
  PROVE  /\ batch.first \in 1 .. Len(edits) /\ \A k \in Key : Base(batch, k) \in Nat
<1>1. batch \in Batches /\ batch.first \in 1 .. Len(edits)
  BY DEF Batched
<1>2. /\ batch.entries \in {None} \cup [Key -> Nat]
      /\ batch.ownership \in [Key -> Nat \cup {None}]
  BY <1>1 DEF Batches
<1> QED
  BY <1>1, <1>2, QuantityIs DEF Base

\* A record that keeps the finishes and numbers of its edit, and fails if that
\* had failed, does not change what is shown.
LEMMA Relabelled ==
  ASSUME TypeOK, NEW m \in DOMAIN edits, NEW n, Becomes(m, n), NEW k \in Key,
         NEW b, b.first \in 1 .. Len(edits),
         n.keys = edits[m].keys, n.rel = edits[m].rel, n.n = edits[m].n,
         k \in n.keys => (n.state = "failed" <=> edits[m].state = "failed")
  PROVE  ReplayFrom(b, edits', k) = ReplayFrom(b, edits, k)
<1>1. /\ Len(edits) \in Nat /\ DOMAIN edits = 1 .. Len(edits)
      /\ Len(edits') = Len(edits)
  BY EditsAre, BoundsAssumption DEF Becomes
<1>2. DOMAIN edits' = 1 .. Len(edits')
  BY LenProperties DEF Becomes
<1>3. Shows(b, edits, k, Unfailed(edits, k), ReplayFrom(b, edits, k))
  BY <1>1, ShownFrom
<1>4. Shows(b, edits', k, Unfailed(edits', k), ReplayFrom(b, edits', k))
  <2> DEFINE es == edits'
  <2>1. Len(es) \in Nat /\ DOMAIN es = 1 .. Len(es) /\ b.first \in 1 .. Len(es) + 1
    BY <1>1, <1>2
  <2> HIDE DEF es
  <2>2. Shows(b, es, k, Unfailed(es, k), ReplayFrom(b, es, k))
    BY <2>1, ShownFrom
  <2> QED
    BY <2>2 DEF es
<1>5. Alike(edits, Unfailed(edits, k), edits', Unfailed(edits', k), b.first - 1, Len(edits))
  <2>1. ASSUME NEW i \in (b.first - 1) + 1 .. Len(edits)
        PROVE  /\ i \in Unfailed(edits, k) <=> i \in Unfailed(edits', k)
               /\ edits[i].rel = edits'[i].rel /\ edits[i].n = edits'[i].n
    <3>1. i \in DOMAIN edits /\ i \in DOMAIN edits'
      BY <1>1, <1>2
    <3>2. CASE i = m
      BY <3>1, <3>2 DEF Unfailed, Becomes
    <3>3. CASE i # m
      BY <3>1, <3>3 DEF Unfailed, Becomes
    <3> QED
      BY <3>2, <3>3
  <2> QED
    BY <2>1 DEF Alike
<1> QED
  <2>1. b.first \in 1 .. Len(edits) + 1
    BY <1>1
  <2> QED
    BY <1>1, <1>3, <1>4, <1>5, <2>1, ShowsSame

LEMMA MergedIs ==
  ASSUME TypeOK, NEW s \in [Key -> Nat]
  PROVE  Merged(s) \in [Key -> Nat \cup {None}]
BY DEF Merged, TypeOK

LEMMA StepFetchDone ==
  ASSUME IInv, NEW g \in Fetch, FetchDone(g)
  PROVE  IInv'
<1>1. /\ TypeOK /\ Batched /\ (\A f \in Fetch : Informed(fetch[f], edits))
      /\ \A m \in DOMAIN edits : Edited(edits[m])
  BY DEF IInv
<1> DEFINE snapshot == fetch[g].value
<1>2. snapshot \in [Key -> Nat] /\ snapshot # None
  BY <1>1, NoneAssumption DEF FetchDone, Informed
<1>3. fetch' \in [Fetch -> Requests] /\ \A f \in Fetch : Informed(fetch'[f], edits)
  BY <1>1, IdleIs, TypesHold DEF FetchDone
<1>4. current' \in Fetch \cup {None} /\ owed' \in BOOLEAN
  BY <1>1, TypesHold DEF FetchDone
<1>5. list' = list \/ list' = snapshot
  BY DEF FetchDone
<1>6. own' \in [Key -> Nat \cup {None}]
  <2>1. own' = own \/ own' = Merged(snapshot)
    BY DEF FetchDone
  <2> QED
    BY <1>1, <1>2, <2>1, MergedIs DEF TypeOK
<1>7. UNCHANGED <<server, remote, event, edits, batch, generation, timer, deferred>>
  BY DEF FetchDone
<1>8. (batch # None /\ batch.entries # None) => UNCHANGED <<list, own>>
  BY <1>1, MutatingIs DEF FetchDone, Stale, Batched
<1> HIDE DEF snapshot
<1>9. TypeOK'
  <2>1. list' = None \/ list' \in [Key -> Nat]
    BY <1>1, <1>2, <1>5 DEF TypeOK
  <2> QED
    BY <1>1, <1>3, <1>4, <1>6, <1>7, <2>1 DEF TypeOK, Requests
<1>10. Batched' /\ \A m \in DOMAIN edits' : Edited(edits'[m])
  BY <1>1, <1>2, <1>5, <1>7 DEF Batched
<1>11. \A f \in Fetch : Informed(fetch'[f], edits')
  BY <1>3, <1>7
<1>12. DeferredOnlyWhileMutating'
  BY <1>7 DEF IInv, DeferredOnlyWhileMutating, Mutating, Pending
<1>13. ShownIsReplay'
  BY <1>7, <1>8, ShowingIs DEF IInv, Showing
<1> QED
  BY <1>9, <1>10, <1>11, <1>12, <1>13 DEF IInv

LEMMA StepServe ==
  ASSUME IInv, NEW m \in DOMAIN edits, NEW k \in Key, Serve(m, k)
  PROVE  IInv'
<1>1. /\ TypeOK /\ Batched /\ (\A f \in Fetch : Informed(fetch[f], edits))
      /\ \A i \in DOMAIN edits : Edited(edits[i])
  BY DEF IInv
<1>2. PICK e \in EditRecords : e = edits[m]
  BY <1>1, EditsAre
<1> DEFINE n == [e EXCEPT !.todo = @ \ {k}, !.applied = @ \cup {k}]
<1>3. edits' = [edits EXCEPT ![m] = n] /\ k \in e.todo
  BY <1>2 DEF Serve
<1>4. /\ n \in EditRecords /\ n.keys = e.keys /\ n.asks = e.asks
      /\ n.rel = e.rel /\ n.n = e.n /\ n.state = e.state
      /\ n.todo = e.todo \ {k} /\ n.applied = e.applied \cup {k}
  BY DEF EditRecords
<1> HIDE DEF n
<1>5. Becomes(m, n) /\ DOMAIN edits' = DOMAIN edits
  BY <1>1, <1>3, <1>4, Changed
<1>6. \A i \in DOMAIN edits : edits'[i].state = edits[i].state
  BY <1>2, <1>4, <1>5 DEF Becomes
<1>7. Edited(n)
  <2>1. Edited(e) /\ k \in e.asks
    BY <1>1, <1>2, <1>3 DEF Edited
  <2> QED
    BY <1>3, <1>4, <2>1 DEF Edited
<1>8. UNCHANGED <<remote, event, list, own, batch, generation, fetch, current,
                  timer, deferred, owed>>
  BY DEF Serve
<1>9. TypeOK'
  <2>1. server' \in [Key -> Nat]
    <3>1. server[k] \in Nat /\ e.n \in Int
      BY <1>1, BoundsAssumption DEF TypeOK, EditRecords
    <3>2. server' = [server EXCEPT ![k] = Result(e, server[k])] /\ Result(e, server[k]) \in Nat
      BY <1>2, <3>1, ResultIs DEF Serve
    <3> QED
      BY <1>1, <3>2 DEF TypeOK
  <2> QED
    BY <1>1, <1>5, <1>8, <2>1 DEF TypeOK, Becomes
<1>10. \A i \in DOMAIN edits' : Edited(edits'[i])
  BY <1>1, <1>5, <1>7 DEF Becomes
<1>11. Batched'
  BY <1>1, <1>5, <1>6, <1>8 DEF Batched, IsOpen, Becomes
<1>12. \A f \in Fetch : Informed(fetch'[f], edits')
  <2>1. Later(edits')
    BY <1>1, <1>5, <1>6, EditsAre DEF Later, IsOpen, Becomes
  <2> QED
    BY <1>1, <1>8, <2>1, InformedLater
<1>13. DeferredOnlyWhileMutating'
  BY <1>5, <1>6, <1>8 DEF IInv, DeferredOnlyWhileMutating, Mutating, Pending
<1>14. ShownIsReplay'
  <2>1. ASSUME batch # None, NEW j \in Key
        PROVE  ReplayFrom(batch, edits', j) = ReplayFrom(batch, edits, j)
    BY <1>1, <1>2, <1>4, <1>5, <2>1, BatchIs, Relabelled
  <2> QED
    BY <1>8, <2>1, ShowingIs DEF IInv, Showing
<1> QED
  BY <1>9, <1>10, <1>11, <1>12, <1>13, <1>14 DEF IInv

\* What a record of an answered edit and onSettled leave in order.
LEMMA Settled ==
  ASSUME IInv, NEW m \in DOMAIN edits, IsOpen(edits, m), NEW n, Becomes(m, n),
         DOMAIN edits' = DOMAIN edits, n.state \in {"ok", "failed"}, Edited(n), Settle(m),
         list' = None \/ list' \in [Key -> Nat], list # None => list' # None,
         own' \in [Key -> Nat \cup {None}], owed' \in BOOLEAN,
         Showing(batch, list', own', edits')
  PROVE  IInv'
<1>1. /\ TypeOK /\ Batched /\ (\A f \in Fetch : Informed(fetch[f], edits))
      /\ \A i \in DOMAIN edits : Edited(edits[i])
  BY DEF IInv
<1>2. /\ Len(edits) \in Nat /\ DOMAIN edits = 1 .. Len(edits) /\ Len(edits') = Len(edits)
      /\ edits'[m] = n /\ \A i \in DOMAIN edits \ {m} : edits'[i] = edits[i]
  BY <1>1, EditsAre, BoundsAssumption DEF Becomes
<1>3. batch # None /\ batch.first \in 1 .. Len(edits)
  BY <1>1 DEF Batched
<1> DEFINE members == batch.first .. Len(edits)
           over    == \A i \in members \ {m} : edits[i].state # "open"
<1>4. /\ batch' = IF over THEN None ELSE batch
      /\ timer' = (timer \/ (over /\ \E i \in members : edits'[i].state = "failed"))
      /\ UNCHANGED <<server, remote, event, generation>>
      /\ IF Flush THEN deferred' = FALSE /\ \E f \in Fetch : Starts(f, FALSE)
         ELSE UNCHANGED <<deferred, fetch, current>>
  BY DEF Settle
<1>5. Later(edits')
  <2>1. ASSUME NEW i \in DOMAIN edits
        PROVE  /\ IsOpen(edits', i) => IsOpen(edits, i)
               /\ (edits'[i].state = "ok" /\ ~IsOpen(edits, i)) => edits[i].state = "ok"
    BY <1>2 DEF IsOpen
  <2> QED
    BY <1>2, <2>1 DEF Later
<1>6. \A f \in Fetch : Informed(fetch[f], edits')
  BY <1>1, <1>5, InformedLater
<1>7. /\ fetch' \in [Fetch -> Requests] /\ current' \in Fetch \cup {None}
      /\ \A f \in Fetch : Informed(fetch'[f], edits')
      /\ deferred' \in BOOLEAN
  <2>1. CASE Flush
    <3>1. PICK g \in Fetch : Starts(g, FALSE)
      BY <1>4, <2>1
    <3>2. \A i \in 1 .. Len(edits) : ~IsOpen(edits', i)
      BY <1>2, <2>1 DEF Flush, Mutating, Pending, IsOpen
    <3>3. /\ fetch' \in [Fetch -> Requests] /\ current' \in Fetch \cup {None}
          /\ \A f \in Fetch : Informed(fetch'[f], edits')
      BY <1>1, <1>2, <1>6, <3>1, <3>2, Started DEF Batched
    <3> QED
      BY <1>4, <2>1, <3>3
  <2>2. CASE ~Flush
    BY <1>1, <1>4, <1>6, <2>2, TypesHold
  <2> QED
    BY <2>1, <2>2
<1>8. DeferredOnlyWhileMutating'
  BY <1>4 DEF Flush, DeferredOnlyWhileMutating
<1>9. timer' \in BOOLEAN
  BY <1>1, <1>4, TypesHold
<1>10. Batched'
  <2>1. CASE over
    <3>1. ASSUME NEW i \in DOMAIN edits' PROVE ~IsOpen(edits', i)
      <4>1. CASE i = m
        BY <1>2, <4>1 DEF IsOpen
      <4>2. CASE i # m /\ i < batch.first
        BY <1>1, <1>2, <1>3, <4>2 DEF Batched, IsOpen
      <4>3. CASE i # m /\ i >= batch.first
        BY <1>2, <1>3, <2>1, <4>3 DEF IsOpen
      <4> QED
        BY <1>2, <1>3, <4>1, <4>2, <4>3
    <3> QED
      BY <1>1, <1>2, <1>4, <2>1, <3>1 DEF Batched
  <2>2. CASE ~over
    <3>1. PICK i \in members \ {m} : edits[i].state = "open"
      BY <2>2
    <3>2. i \in DOMAIN edits' /\ i >= batch.first /\ IsOpen(edits', i)
      BY <1>2, <1>3, <3>1 DEF IsOpen
    <3>3. \A j \in DOMAIN edits' : j < batch.first => ~IsOpen(edits', j)
      BY <1>1, <1>2, <1>3, <1>5 DEF Batched, Later
    <3>4. batch' = batch
      BY <1>4, <2>2
    <3> QED
      BY <1>1, <1>2, <1>3, <1>4, <3>2, <3>3, <3>4 DEF Batched
  <2> QED
    BY <2>1, <2>2
<1>11. TypeOK'
  <2>1. batch' = None \/ batch'.first \in 1 .. Len(edits')
    BY <1>2, <1>3, <1>4
  <2> QED
    BY <1>1, <1>2, <1>4, <1>7, <1>9, <2>1 DEF TypeOK, Requests, Becomes
<1>12. \A i \in DOMAIN edits' : Edited(edits'[i])
  BY <1>1, <1>2
<1>13. ShownIsReplay'
  <2>1. batch' = None \/ batch' = batch
    BY <1>4
  <2> QED
    BY <2>1, ShowingIs DEF Showing
<1> QED
  BY <1>7, <1>8, <1>10, <1>11, <1>12, <1>13 DEF IInv
\* What an answer leaves in order before onSettled looks at the batch; without
\* losses a failed edit has left no trace.
Outcome(m, n) ==
  /\ IsOpen(edits, m) /\ Becomes(m, n) /\ DOMAIN edits' = DOMAIN edits /\ Settle(m)
  /\ n.state \in {"ok", "failed"} /\ Edited(n)
  /\ n.rel = edits[m].rel /\ n.n = edits[m].n
  /\ n.keys = edits[m].keys /\ n.asks = edits[m].asks
  /\ n.applied = edits[m].applied /\ n.todo \subseteq edits[m].todo
  /\ ~Lossy => n.todo = {} /\ (n.state = "failed" => n.applied = {})
  /\ list' = None \/ list' \in [Key -> Nat]
  /\ list # None => list' # None
  /\ own' \in [Key -> Nat \cup {None}] /\ owed' \in BOOLEAN
  /\ Showing(batch, list', own', edits')

LEMMA Succeeded ==
  ASSUME IInv, NEW m \in DOMAIN edits, Succeed(m)
  PROVE  \E n : Outcome(m, n)
<1>1. TypeOK /\ Batched /\ \A i \in DOMAIN edits : Edited(edits[i])
  BY DEF IInv
<1>2. PICK e \in EditRecords : e = edits[m]
  BY <1>1, EditsAre
<1> DEFINE n == [e EXCEPT !.state = "ok"]
<1>3. /\ edits' = [edits EXCEPT ![m] = n] /\ e.state = "open" /\ e.todo = {}
      /\ UNCHANGED <<list, own, owed>> /\ Settle(m)
  BY <1>2 DEF Succeed
<1>4. /\ n \in EditRecords /\ n.keys = e.keys /\ n.asks = e.asks
      /\ n.rel = e.rel /\ n.n = e.n
      /\ n.state = "ok" /\ n.todo = e.todo /\ n.applied = e.applied
  BY DEF EditRecords
<1> HIDE DEF n
<1>5. Becomes(m, n) /\ DOMAIN edits' = DOMAIN edits
  BY <1>1, <1>3, <1>4, Changed
<1>6. Edited(n)
  BY <1>1, <1>2, <1>3, <1>4 DEF Edited
<1>7. Showing(batch, list', own', edits')
  <2>1. ASSUME batch # None, NEW j \in Key
        PROVE  ReplayFrom(batch, edits', j) = ReplayFrom(batch, edits, j)
    <3>1. n.state # "failed" /\ edits[m].state # "failed"
      BY <1>2, <1>3, <1>4
    <3>2. n.keys = edits[m].keys /\ n.rel = edits[m].rel /\ n.n = edits[m].n
      BY <1>2, <1>4
    <3>3. batch.first \in 1 .. Len(edits)
      BY <1>1, <2>1, BatchIs
    <3> QED
      BY <1>1, <1>5, <3>1, <3>2, <3>3, Relabelled
  <2> QED
    BY <1>3, <2>1, ShowingIs DEF IInv, Showing
<1>8. Outcome(m, n)
  BY <1>1, <1>2, <1>3, <1>4, <1>5, <1>6, <1>7 DEF Outcome, TypeOK, IsOpen
<1> QED
  BY <1>8

\* The replay without the failed edit consists of quantities.
LEMMA RestoredIs ==
  ASSUME TypeOK, Batched, batch # None, NEW m \in DOMAIN edits, NEW n, Becomes(m, n), NEW k \in Key
  PROVE  Restored(edits', k) = ReplayFrom(batch, edits', k) /\ Restored(edits', k) \in Nat
<1> DEFINE es == edits'
<1>1. /\ Len(es) \in Nat /\ DOMAIN es = 1 .. Len(es) /\ batch.first \in 1 .. Len(es) + 1
      /\ Base(batch, k) \in Nat
  <2>1. es \in Seq(EditRecords) /\ Len(es) = Len(edits)
    BY DEF Becomes
  <2>2. Len(es) \in Nat /\ DOMAIN es = 1 .. Len(es)
    BY <2>1, LenProperties
  <2> QED
    BY <2>1, <2>2, BatchIs
<1>2. \A i \in 1 .. Len(es) : es[i].n \in Int
  <2>1. ASSUME NEW i \in 1 .. Len(es) PROVE es[i].n \in Int
    <3>1. es[i] \in EditRecords
      BY ElementOfSeq DEF Becomes
    <3> QED
      BY <3>1, BoundsAssumption DEF EditRecords
  <2> QED
    BY <2>1
<1>3. Restored(es, k) = ReplayFrom(batch, es, k)
  BY ReplaysOfBatch DEF Restored
<1> HIDE DEF es
<1>4. Shows(batch, es, k, Unfailed(es, k), ReplayFrom(batch, es, k))
  BY <1>1, ShownFrom
<1>5. ReplayFrom(batch, es, k) \in Nat
  BY <1>1, <1>2, <1>4, ShowsQuantity
<1> QED
  BY <1>3, <1>5 DEF es

LEMMA Failed ==
  ASSUME IInv, NEW m \in DOMAIN edits, Fail(m)
  PROVE  \E n : Outcome(m, n)
<1>1. TypeOK /\ Batched /\ \A i \in DOMAIN edits : Edited(edits[i])
  BY DEF IInv
<1>2. PICK e \in EditRecords : e = edits[m]
  BY <1>1, EditsAre
<1>3. PICK rest \in SUBSET e.todo :
        /\ edits' = [edits EXCEPT ![m].state = "failed", ![m].todo = rest]
        /\ LET q == [k \in Key |-> Restored(edits', k)]
           IN /\ list' = ListWith(q, Seeded(edits), e.keys)
              /\ own' = OwnWith(q, e.keys)
        /\ e.state = "open" /\ owed' = TRUE /\ Settle(m)
        /\ ~Lossy => rest = {} /\ e.applied = {}
  BY <1>2 DEF Fail
<1> DEFINE n == [e EXCEPT !.state = "failed", !.todo = rest]
           q == [k \in Key |-> Restored(edits', k)]
<1>4. edits' = [edits EXCEPT ![m] = n]
  BY <1>2, <1>3
<1>5. /\ n \in EditRecords /\ n.keys = e.keys /\ n.asks = e.asks
      /\ n.rel = e.rel /\ n.n = e.n
      /\ n.state = "failed" /\ n.todo = rest /\ n.applied = e.applied
  BY DEF EditRecords
<1> HIDE DEF n
<1>6. Becomes(m, n) /\ DOMAIN edits' = DOMAIN edits
  BY <1>1, <1>4, <1>5, Changed
<1>7. Edited(n)
  BY <1>1, <1>2, <1>3, <1>5 DEF Edited
<1>8. batch # None
  BY <1>1, <1>2, <1>3, MutatingIs, EditsAre DEF IsOpen
<1>9. /\ q \in [Key -> Nat]
      /\ \A k \in Key : q[k] = ReplayFrom(batch, edits', k)
  BY <1>1, <1>6, <1>8, RestoredIs
<1>10. list' = ListWith(q, Seeded(edits), e.keys) /\ own' = OwnWith(q, e.keys)
  BY <1>3
<1> HIDE DEF q
<1>11. /\ list' = None \/ list' \in [Key -> Nat]
       /\ list # None => list' # None
       /\ own' \in [Key -> Nat \cup {None}]
       /\ \A k \in Key : Quantity(list', own', k) = IF k \in e.keys THEN q[k] ELSE Cached(k)
  <2>1. e.keys \in SUBSET Key
    BY DEF EditRecords
  <2> QED
    BY <1>1, <1>9, <1>10, <2>1, Applying
<1>12. Showing(batch, list', own', edits')
  <2>1. SUFFICES ASSUME batch.entries # None, NEW k \in Key
                 PROVE  Quantity(list', own', k) = ReplayFrom(batch, edits', k)
    BY DEF Showing
  <2>2. CASE k \in e.keys
    BY <1>9, <1>11, <2>2
  <2>3. CASE k \notin e.keys
    <3>1. ReplayFrom(batch, edits', k) = ReplayFrom(batch, edits, k)
      BY <1>1, <1>2, <1>5, <1>6, <1>8, <2>3, BatchIs, Relabelled
    <3>2. Cached(k) = ReplayFrom(batch, edits, k)
      BY <1>8, <2>1, ShowingIs DEF IInv, Showing, Cached
    <3> QED
      BY <1>11, <2>3, <3>1, <3>2
  <2> QED
    BY <2>2, <2>3
<1>13. ~Lossy => n.todo = {} /\ n.applied = {}
  BY <1>2, <1>3, <1>5 DEF Fail
<1>14. Outcome(m, n)
  BY <1>2, <1>3, <1>5, <1>6, <1>7, <1>11, <1>12, <1>13 DEF Outcome, IsOpen
<1> QED
  BY <1>14

LEMMA StepAnswered ==
  ASSUME IInv, NEW m \in DOMAIN edits, Succeed(m) \/ Fail(m)
  PROVE  IInv'
<1>1. PICK n : Outcome(m, n)
  BY Succeeded, Failed
<1> QED
  BY <1>1, Settled DEF Outcome

\* An edit that has just been made.
Made(e) ==
  [rel |-> e.rel, seed |-> e.seed, keys |-> e.keys, asks |-> e.asks, n |-> e.n,
   state |-> "open", todo |-> e.asks, applied |-> {}]

\* It is put behind the others.
LEMMA Appended ==
  ASSUME TypeOK, NEW e \in Edits, edits' = Append(edits, Made(e)), Len(edits) < MaxEdits
  PROVE  /\ Made(e) \in EditRecords /\ edits' \in Seq(EditRecords)
         /\ Len(edits') = Len(edits) + 1 /\ Len(edits') <= MaxEdits
         /\ DOMAIN edits' = 1 .. Len(edits')
         /\ edits'[Len(edits')] = Made(e)
         /\ \A i \in DOMAIN edits : edits'[i] = edits[i]
<1>1. Made(e) \in EditRecords
  BY DEF Made, EditRecords, Edits
<1>2. edits \in Seq(EditRecords) /\ Len(edits) \in Nat /\ DOMAIN edits = 1 .. Len(edits)
  BY EditsAre, BoundsAssumption DEF TypeOK
<1>3. /\ edits' \in Seq(EditRecords) /\ Len(edits') = Len(edits) + 1
      /\ edits'[Len(edits) + 1] = Made(e)
      /\ \A i \in 1 .. Len(edits) : edits'[i] = edits[i]
  BY <1>1, <1>2, AppendProperties
<1>4. DOMAIN edits' = 1 .. Len(edits')
  BY <1>3, LenProperties
<1> QED
  BY <1>1, <1>2, <1>3, <1>4, BoundsAssumption

\* It is applied to whatever a batch shows.
LEMMA ReplayAppended ==
  ASSUME TypeOK, NEW e \in Edits, edits' = Append(edits, Made(e)), Len(edits) < MaxEdits,
         NEW b, b.first \in 1 .. Len(edits) + 1, NEW k \in Key
  PROVE  ReplayFrom(b, edits', k) =
           IF k \in e.keys THEN Result(e, ReplayFrom(b, edits, k)) ELSE ReplayFrom(b, edits, k)
<1> DEFINE es == edits'
           x == ReplayFrom(b, edits, k)
<1>1. /\ Len(edits) \in Nat /\ DOMAIN edits = 1 .. Len(edits)
      /\ Len(es) = Len(edits) + 1 /\ DOMAIN es = 1 .. Len(es)
      /\ es[Len(es)] = Made(e) /\ \A i \in DOMAIN edits : es[i] = edits[i]
  BY Appended, EditsAre, BoundsAssumption
<1> HIDE DEF es
<1>2. Shows(b, edits, k, Unfailed(edits, k), x)
  BY <1>1, ShownFrom
<1>3. Shows(b, es, k, Unfailed(es, k), ReplayFrom(b, es, k))
  <2>1. Len(es) \in Nat /\ b.first \in 1 .. Len(es) + 1
    BY <1>1
  <2> QED
    BY <1>1, <2>1, ShownFrom
<1> HIDE DEF x
<1>4. Alike(edits, Unfailed(edits, k), es, Unfailed(es, k), b.first - 1, Len(edits))
  <2>1. ASSUME NEW i \in (b.first - 1) + 1 .. Len(edits)
        PROVE  i \in DOMAIN edits /\ i \in DOMAIN es /\ es[i] = edits[i]
    BY <1>1
  <2> QED
    BY <2>1 DEF Alike, Unfailed
<1>5. ReplayFrom(b, es, k) =
        IF Len(es) \in Unfailed(es, k) THEN Result(es[Len(es)], x) ELSE x
  BY <1>1, <1>2, <1>3, <1>4, ShowsAppended
<1>6. Len(es) \in Unfailed(es, k) <=> k \in e.keys
  BY <1>1 DEF Unfailed, Made
<1>7. Result(es[Len(es)], x) = Result(e, x)
  BY <1>1 DEF Result, Made
<1> QED
  BY <1>5, <1>6, <1>7 DEF es, x

LEMMA StepBegin ==
  ASSUME IInv, NEW e \in Edits, Begin(e)
  PROVE  IInv'
<1>1. /\ TypeOK /\ Batched /\ (\A f \in Fetch : Informed(fetch[f], edits))
      /\ \A i \in DOMAIN edits : Edited(edits[i])
  BY DEF IInv
<1> DEFINE q == [k \in Key |-> Result(e, Cached(k))]
           b == [first |-> Len(edits) + 1, entries |-> list, ownership |-> own]
<1>2. /\ Len(edits) < MaxEdits /\ generation' = generation + 1
      /\ batch' = (IF batch # None THEN batch ELSE b)
      /\ edits' = Append(edits, Made(e))
      /\ list' = ListWith(q, IF e.seed THEN e.keys ELSE {}, e.keys)
      /\ own' = OwnWith(q, e.keys) /\ current' = None
      /\ UNCHANGED <<server, remote, event, fetch, timer, deferred, owed>>
  BY DEF Begin, Bumped, Made
<1>3. e.keys \in SUBSET Key /\ e.n \in Int
  BY BoundsAssumption DEF Edits
<1>4. /\ Made(e) \in EditRecords /\ edits' \in Seq(EditRecords)
      /\ Len(edits') = Len(edits) + 1 /\ Len(edits') <= MaxEdits
      /\ DOMAIN edits' = 1 .. Len(edits') /\ DOMAIN edits = 1 .. Len(edits)
      /\ edits'[Len(edits')] = Made(e)
      /\ \A i \in DOMAIN edits : edits'[i] = edits[i]
      /\ Len(edits) \in Nat
  BY <1>1, <1>2, Appended, EditsAre, BoundsAssumption
<1>5. /\ b \in Batches /\ b # None /\ b.first = Len(edits) + 1 /\ b.entries = list
      /\ b.ownership = own
  <2>1. b \in Batches
    BY <1>1, <1>4 DEF Batches, TypeOK
  <2> QED
    BY <2>1, BatchAssumption DEF Batches
<1>6. \A k \in Key : Cached(k) \in Nat /\ Result(e, Cached(k)) \in Nat
  BY <1>1, <1>3, QuantityIs, ResultIs DEF Cached, TypeOK
<1>7. q \in [Key -> Nat] /\ \A k \in Key : q[k] = Result(e, Cached(k))
  BY <1>6
<1> HIDE DEF q, b
<1>8. /\ list' = None \/ list' \in [Key -> Nat]
      /\ list # None => list' # None
      /\ own' \in [Key -> Nat \cup {None}]
      /\ \A k \in Key : Quantity(list', own', k) = IF k \in e.keys THEN q[k] ELSE Cached(k)
  BY <1>1, <1>2, <1>3, <1>7, Applying
<1>9. \A i \in DOMAIN edits' : i \in DOMAIN edits \/ i = Len(edits')
  BY <1>4
<1>10. batch'.first \in 1 .. Len(edits') /\ batch' \in Batches /\ batch' # None
  BY <1>1, <1>2, <1>4, <1>5 DEF Batched
<1>11. TypeOK'
  <2>1. generation' \in 0 .. MaxEdits
    BY <1>1, <1>2, <1>4, BoundsAssumption DEF Batched
  <2> QED
    BY <1>1, <1>2, <1>4, <1>8, <1>10, <2>1 DEF TypeOK
<1>12. \A i \in DOMAIN edits' : Edited(edits'[i])
  <2>1. e.asks \subseteq e.keys
    BY DerivedAssumption DEF Edits, Add, Adjust, SetTo, RemoveMany
  <2>2. Edited(Made(e))
    BY <2>1 DEF Edited, Made
  <2> QED
    BY <1>1, <1>4, <1>9, <2>2
<1>13. Batched'
  <2>1. generation' = Len(edits')
    BY <1>1, <1>2, <1>4 DEF Batched
  <2>2. ASSUME NEW i \in DOMAIN edits', i < batch'.first PROVE ~IsOpen(edits', i)
    <3>1. i \in DOMAIN edits
      BY <1>4, <1>10, <2>2
    <3> QED
      BY <1>1, <1>2, <1>4, <2>2, <3>1 DEF Batched, IsOpen
  <2>3. Len(edits') \in DOMAIN edits' /\ Len(edits') >= batch'.first /\ IsOpen(edits', Len(edits'))
    BY <1>4, <1>10 DEF IsOpen, Made
  <2>4. batch'.entries # None => list' # None
    BY <1>1, <1>2, <1>5, <1>8 DEF Batched
  <2> QED
    BY <1>10, <2>1, <2>2, <2>3, <2>4 DEF Batched
<1>14. \A f \in Fetch : Informed(fetch'[f], edits')
  <2>1. Later(edits')
    BY <1>4 DEF Later, IsOpen
  <2> QED
    BY <1>1, <1>2, <2>1, InformedLater
<1>15. DeferredOnlyWhileMutating'
  <2>1. Len(edits') \in DOMAIN edits' /\ edits'[Len(edits')].state = "open"
    BY <1>4 DEF Made
  <2> QED
    BY <2>1 DEF DeferredOnlyWhileMutating, Mutating, Pending
<1>16. ShownIsReplay'
  <2>1. SUFFICES ASSUME batch'.entries # None, NEW k \in Key
                 PROVE  Quantity(list', own', k) = ReplayFrom(batch', edits', k)
    BY ShowingIs DEF Showing
  <2>2. PICK c : c = batch'
    OBVIOUS
  <2>3. c.first \in 1 .. Len(edits) + 1
    BY <1>4, <1>10, <2>2
  <2>4. Cached(k) = ReplayFrom(c, edits, k)
    <3>1. CASE batch # None
      BY <1>2, <2>1, <2>2, <3>1, ShowingIs DEF IInv, Showing, Cached
    <3>2. CASE batch = None
      <4>1. c = b
        BY <1>2, <2>2, <3>2
      <4>2. Shows(b, edits, k, Unfailed(edits, k), ReplayFrom(b, edits, k))
        BY <1>4, <1>5, <2>3, <4>1, ShownFrom
      <4>3. ReplayFrom(b, edits, k) = Base(b, k)
        BY <1>4, <1>5, <4>2, ShowsBase
      <4> QED
        BY <1>5, <4>1, <4>3 DEF Base, Cached
    <3> QED
      BY <3>1, <3>2
  <2>5. ReplayFrom(c, edits', k) =
          IF k \in e.keys THEN Result(e, ReplayFrom(c, edits, k)) ELSE ReplayFrom(c, edits, k)
    BY <1>1, <1>2, <2>3, ReplayAppended
  <2> QED
    BY <1>7, <1>8, <2>2, <2>4, <2>5
<1> QED
  BY <1>11, <1>12, <1>13, <1>14, <1>15, <1>16 DEF IInv

LEMMA InitInv ==
  ASSUME Init
  PROVE  IInv
<1>1. /\ Len(edits) = 0 /\ DOMAIN edits = {} /\ edits \in Seq(EditRecords)
  BY EmptySeq DEF Init
<1>2. server \in [Key -> Nat]
  BY BoundsAssumption DEF Init
<1>3. (list = None \/ list \in [Key -> Nat]) /\ own \in [Key -> Nat \cup {None}]
  BY <1>2 DEF Init
<1>4. fetch \in [Fetch -> Requests]
  BY IdleIs DEF Init
<1>5. TypeOK
  <2>1. /\ remote = 0 /\ batch = None /\ generation = 0 /\ current = None
        /\ timer = FALSE /\ event = FALSE /\ deferred = FALSE /\ owed = FALSE
    BY DEF Init
  <2>2. 0 \in 0 .. MaxRemote /\ 0 \in 0 .. MaxEdits /\ 0 <= MaxEdits
    BY BoundsAssumption
  <2> QED
    BY <1>1, <1>2, <1>3, <1>4, <2>1, <2>2 DEF TypeOK, Requests
<1>6. Batched /\ \A m \in DOMAIN edits : Edited(edits[m])
  BY <1>1 DEF Init, Batched
<1>7. \A f \in Fetch : Informed(fetch[f], edits)
  BY IdleIs DEF Init
<1>8. DeferredOnlyWhileMutating /\ ShownIsReplay
  BY DEF Init, DeferredOnlyWhileMutating, ShownIsReplay
<1> QED
  BY <1>5, <1>6, <1>7, <1>8 DEF IInv

LEMMA AloneStep ==
  ASSUME IInv, Alone
  PROVE  IInv'
BY StepBegin, StepAnswered, StepServe, StepRefetch, StepRead, StepFetchFails,
   StepFetchDone, StepReconcile DEF Alone

LEMMA NextInv ==
  ASSUME IInv, [Next]_vars
  PROVE  IInv'
<1>1. CASE Alone
  BY <1>1, AloneStep
<1>2. CASE (\E k \in Key, q \in 0 .. MaxQty : RemoteChange(k, q)) \/ Disconnect
  BY <1>2, StepRemote
<1>3. CASE LiveEvent
  BY <1>3, StepLiveEvent
<1>4. CASE UNCHANGED vars
  <2>1. TypeOK /\ \A f \in Fetch : Informed(fetch[f], edits)
    BY DEF IInv
  <2> QED
    BY <1>4, <2>1, TypesHold, Elsewhere DEF IInv, DeferredOnlyWhileMutating, vars, client
<1> QED
  BY <1>1, <1>2, <1>3, <1>4 DEF Next
\* A request under way is left alone by the start of another.
LEMMA StartsSpares ==
  ASSUME TypeOK, NEW f \in Fetch, fetch[f].phase = "read", NEW g \in Fetch, NEW mutating,
         Starts(g, mutating)
  PROVE  fetch'[f] = fetch[f]
<1>1. fetch \in [Fetch -> Requests]
  BY TypesHold
<1>2. CASE UNCHANGED <<fetch, current>>
  BY <1>2
<1>3. CASE ~ UNCHANGED <<fetch, current>>
  BY <1>1, <1>3 DEF Starts, Free
<1> QED
  BY <1>2, <1>3

\* The step of AdoptsOnlyCurrent.
Adopts ==
  \A f \in Fetch :
    fetch[f].phase = "read" /\ fetch'[f].phase = "idle"
      /\ list # None /\ <<list, own>>' # <<list, own>>
    => ~Mutating /\ {m \in DOMAIN edits : edits[m].state = "ok"} \subseteq fetch[f].seen

LEMMA StepAdopts ==
  ASSUME IInv, Next
  PROVE  Adopts
<1> SUFFICES ASSUME NEW f \in Fetch, fetch[f].phase = "read", fetch'[f].phase = "idle",
                    list # None, <<list, own>>' # <<list, own>>
             PROVE  /\ ~Mutating
                    /\ {m \in DOMAIN edits : edits[m].state = "ok"} \subseteq fetch[f].seen
  BY DEF Adopts
<1>1. TypeOK /\ Batched /\ Informed(fetch[f], edits)
  BY DEF IInv
<1>2. fetch \in [Fetch -> Requests] /\ fetch'[f] # fetch[f]
  BY <1>1, TypesHold
<1>3. CASE FetchDone(f)
  <2>1. ~fetch[f].during /\ fetch[f].gen = generation /\ ~Mutating
    BY <1>3 DEF FetchDone, Stale
  <2>2. DOMAIN edits = 1 .. fetch[f].gen
    BY <1>1, <2>1, EditsAre DEF Batched
  <2> QED
    BY <1>1, <2>1, <2>2 DEF Informed
<1>4. ASSUME NEW g \in Fetch, g # f, FetchDone(g) PROVE FALSE
  BY <1>2, <1>4 DEF FetchDone
<1>5. ASSUME NEW g \in Fetch, Refetch(g) \/ Read(g) \/ FetchFails(g) PROVE FALSE
  <2>1. UNCHANGED <<list, own>>
    BY <1>5 DEF Refetch, Read, FetchFails
  <2> QED
    BY <2>1
<1>6. ASSUME Reconcile \/ LiveEvent \/ Disconnect \/ \E k \in Key, q \in 0 .. MaxQty : RemoteChange(k, q)
      PROVE  FALSE
  <2>1. UNCHANGED <<list, own>>
    BY <1>6 DEF Reconcile, LiveEvent, Disconnect, RemoteChange, client
  <2> QED
    BY <2>1
<1>7. ASSUME NEW e \in Edits, Begin(e) PROVE FALSE
  BY <1>2, <1>7 DEF Begin
<1>8. ASSUME NEW m \in DOMAIN edits, Succeed(m) \/ Fail(m) PROVE FALSE
  <2>1. Settle(m)
    BY <1>8 DEF Succeed, Fail
  <2>2. (\E g \in Fetch : Starts(g, FALSE)) \/ UNCHANGED <<deferred, fetch, current>>
    BY <2>1 DEF Settle
  <2> QED
    BY <1>1, <1>2, <2>2, StartsSpares
<1>9. ASSUME NEW m \in DOMAIN edits, NEW k \in Key, Serve(m, k) PROVE FALSE
  BY <1>2, <1>9 DEF Serve
<1> QED
  BY <1>3, <1>4, <1>5, <1>6, <1>7, <1>8, <1>9 DEF Next, Alone

(***************************************************************************)
(* A client alone, whose requests arrive in order and fail without effect. *)
(***************************************************************************)

\* The first four conjuncts of AloneInv, now and after a step.
Agrees(b, l, o, es, s) ==
  /\ l # None
  /\ b # None => b.entries # None
  /\ b = None => \A k \in Key \ Unasked(es) : Quantity(l, o, k) = s[k]
  /\ b # None => \A k \in Key \ Unasked(es) : s[k] = ServedFrom(b, es, k)

\* A finish that a confirmed edit did not ask for stays one.
LEMMA UnaskedGrows ==
  ASSUME NEW es, NEW fs, DOMAIN es \subseteq DOMAIN fs,
         \A m \in DOMAIN es : es[m].state = "ok" =>
           fs[m].state = "ok" /\ fs[m].keys = es[m].keys /\ fs[m].asks = es[m].asks
  PROVE  Unasked(es) \subseteq Unasked(fs)
BY DEF Unasked

\* A confirmed edit has asked for every other finish.
LEMMA AskedFor ==
  ASSUME NEW es, NEW m \in DOMAIN es, es[m].state = "ok",
         NEW k, k \notin Unasked(es), k \in es[m].keys
  PROVE  k \in es[m].asks
BY DEF Unasked

LEMMA AloneIs ==
  /\ AloneInv <=> /\ Agrees(batch, list, own, edits, server)
                  /\ InOrder /\ \A f \in Fetch : UpToDate(fetch[f])
  /\ AloneInv' <=> /\ Agrees(batch', list', own', edits', server')
                   /\ InOrder' /\ \A f \in Fetch : UpToDate(fetch[f])'
<1>1. AloneInv <=> /\ Agrees(batch, list, own, edits, server)
                   /\ InOrder /\ \A f \in Fetch : UpToDate(fetch[f])
  BY ReplaysOfBatch DEF AloneInv, Agrees, Cached
<1>2. AloneInv' <=> /\ Agrees(batch', list', own', edits', server')
                    /\ InOrder' /\ \A f \in Fetch : UpToDate(fetch[f])'
  BY ReplaysOfNextBatch DEF AloneInv, Agrees, Cached
<1> QED
  BY <1>1, <1>2

\* Requests that change or start keep up to date while the server stands still.
LEMMA AloneElsewhere ==
  ASSUME AloneInv, UNCHANGED <<server, list, own, edits, batch, generation>>,
         \A f \in Fetch : UpToDate(fetch[f])'
  PROVE  AloneInv'
<1>1. Agrees(batch, list, own, edits, server) /\ InOrder
  BY AloneIs
<1>2. InOrder'
  BY <1>1 DEF InOrder
<1> QED
  BY <1>1, <1>2, AloneIs

LEMMA StartsUpToDate ==
  ASSUME TypeOK, AloneInv, UNCHANGED <<server, generation>>,
         NEW g \in Fetch, NEW mutating \in BOOLEAN, Starts(g, mutating)
  PROVE  \A f \in Fetch : UpToDate(fetch[f])'
<1>1. fetch \in [Fetch -> Requests] /\ \A f \in Fetch : UpToDate(fetch[f])
  BY TypesHold DEF AloneInv
<1>2. CASE UNCHANGED <<fetch, current>>
  BY <1>1, <1>2 DEF UpToDate
<1>3. CASE ~ UNCHANGED <<fetch, current>>
  <2>1. \A f \in Fetch : fetch'[f] = fetch[f] \/ fetch'[f].phase = "sent"
    BY <1>1, <1>3 DEF Starts, Idle
  <2> QED
    BY <1>1, <2>1 DEF UpToDate
<1> QED
  BY <1>2, <1>3

LEMMA AloneRequests ==
  ASSUME IInv, AloneInv,
         Reconcile \/ \E g \in Fetch : Refetch(g) \/ Read(g) \/ FetchFails(g)
  PROVE  AloneInv'
<1>1. TypeOK /\ fetch \in [Fetch -> Requests] /\ \A f \in Fetch : UpToDate(fetch[f])
  BY TypesHold DEF IInv, AloneInv
<1>2. UNCHANGED <<server, list, own, edits, batch, generation>>
  BY DEF Reconcile, Refetch, Read, FetchFails
<1>3. ASSUME NEW g \in Fetch, NEW mutating \in BOOLEAN, Starts(g, mutating)
      PROVE  \A f \in Fetch : UpToDate(fetch[f])'
  BY <1>1, <1>2, <1>3, StartsUpToDate
<1>4. Mutating \in BOOLEAN
  BY <1>1, TypesHold
<1>5. CASE Reconcile
  BY <1>2, <1>3, <1>4, <1>5, AloneElsewhere DEF Reconcile
<1>6. ASSUME NEW g \in Fetch, Refetch(g) PROVE AloneInv'
  BY <1>2, <1>3, <1>4, <1>6, AloneElsewhere DEF Refetch
<1>7. ASSUME NEW g \in Fetch, Read(g) PROVE AloneInv'
  <2>1. \A f \in Fetch : fetch'[f] = fetch[f] \/ fetch'[f].value = server
    <3>1. fetch'[g].value = server
      <4>1. PICK q \in Requests : q = fetch[g]
        BY <1>1
      <4> QED
        BY <1>1, <1>7, <4>1 DEF Read, Requests
    <3> QED
      BY <1>1, <1>7, <3>1 DEF Read
  <2> QED
    BY <1>1, <1>2, <2>1, AloneElsewhere DEF UpToDate
<1>8. ASSUME NEW g \in Fetch, FetchFails(g) PROVE AloneInv'
  <2>1. \A f \in Fetch : fetch'[f] = fetch[f] \/ fetch'[f].phase = "idle"
    BY <1>1, <1>8 DEF FetchFails, Idle
  <2> QED
    BY <1>1, <1>2, <2>1, AloneElsewhere DEF UpToDate
<1> QED
  BY <1>5, <1>6, <1>7, <1>8

LEMMA AloneFetchDone ==
  ASSUME IInv, AloneInv, NEW g \in Fetch, FetchDone(g)
  PROVE  AloneInv'
<1>1. /\ TypeOK /\ Batched /\ Informed(fetch[g], edits)
      /\ fetch \in [Fetch -> Requests] /\ \A f \in Fetch : UpToDate(fetch[f])
  BY TypesHold DEF IInv, AloneInv
<1>2. Agrees(batch, list, own, edits, server) /\ InOrder
  BY AloneIs
<1>3. UNCHANGED <<server, edits, batch, generation>>
  BY DEF FetchDone
<1>4. \A f \in Fetch : UpToDate(fetch[f])'
  <2>1. \A f \in Fetch : fetch'[f] = fetch[f] \/ fetch'[f].phase = "idle"
    BY <1>1 DEF FetchDone, Idle
  <2> QED
    BY <1>1, <1>3, <2>1 DEF UpToDate
<1>5. CASE Stale(g)
  <2>1. UNCHANGED <<list, own>>
    BY <1>2, <1>5 DEF FetchDone, Agrees
  <2> QED
    BY <1>3, <1>4, <2>1, AloneElsewhere
<1>6. CASE ~Stale(g)
  <2>1. ~fetch[g].during /\ fetch[g].gen = generation /\ ~Mutating
    BY <1>6 DEF Stale
  <2>2. fetch[g].value = server /\ batch = None
    BY <1>1, <2>1, MutatingIs DEF UpToDate, FetchDone
  <2>3. own' = Merged(server) /\ (list' = list \/ list' = server)
    BY <1>6, <2>2 DEF FetchDone
  <2>4. server \in [Key -> Nat] /\ server # None /\ list # None
    BY <1>1, <1>2, NoneAssumption DEF TypeOK, Agrees
  <2>5. ASSUME NEW k \in Key \ Unasked(edits) PROVE Quantity(list', own', k) = server[k]
    <3>1. own'[k] = IF server[k] > 0 THEN server[k] ELSE IF own[k] = None THEN None ELSE 0
      BY <2>3 DEF Merged
    <3>2. server[k] \in Nat /\ server[k] # None
      BY <2>4, NoneAssumption
    <3>3. list \in [Key -> Nat] /\ list[k] \in Nat
      BY <1>1, <2>4 DEF TypeOK
    <3>4. list[k] > 0 => list[k] = server[k]
      BY <1>2, <2>2, <2>4 DEF Agrees, Quantity
    <3> QED
      BY <2>3, <2>4, <3>1, <3>2, <3>3, <3>4 DEF Quantity
  <2>6. Agrees(batch', list', own', edits', server')
    BY <1>3, <2>2, <2>3, <2>4, <2>5 DEF Agrees
  <2>7. InOrder'
    BY <1>2, <1>3 DEF InOrder
  <2> QED
    BY <1>4, <2>6, <2>7, AloneIs
<1> QED
  BY <1>5, <1>6
\* Edits that are not open have nothing left for the server.
LEMMA NothingLeft ==
  ASSUME IInv, AloneInv, NEW m \in DOMAIN edits, ~IsOpen(edits, m)
  PROVE  edits[m].todo = {}
<1>1. edits[m] \in EditRecords /\ Edited(edits[m])
  BY EditsAre DEF IInv
<1>2. edits[m].state \in {"ok", "failed"}
  BY <1>1 DEF EditRecords, IsOpen
<1> QED
  BY <1>1, <1>2 DEF Edited, AloneInv, InOrder

\* What the server has of k does not change with records that apply k alike.
LEMMA ServedSame ==
  ASSUME TypeOK, NEW m \in DOMAIN edits, NEW n, Becomes(m, n), NEW k,
         NEW b, b.first \in 1 .. Len(edits),
         n.rel = edits[m].rel, n.n = edits[m].n, k \in n.applied <=> k \in edits[m].applied
  PROVE  ServedFrom(b, edits', k) = ServedFrom(b, edits, k)
<1> DEFINE es == edits'
<1>1. /\ Len(edits) \in Nat /\ DOMAIN edits = 1 .. Len(edits) /\ Len(es) = Len(edits)
      /\ es[m] = n /\ \A i \in DOMAIN edits \ {m} : es[i] = edits[i]
  BY EditsAre, BoundsAssumption DEF Becomes
<1>2. DOMAIN es = 1 .. Len(es)
  BY LenProperties DEF Becomes
<1> HIDE DEF es
<1>3. b.first \in 1 .. Len(edits) + 1
  BY <1>1
<1>4. /\ Shows(b, edits, k, Applied(edits, k), ServedFrom(b, edits, k))
      /\ Shows(b, es, k, Applied(es, k), ServedFrom(b, es, k))
  BY <1>1, <1>2, <1>3, ServedIs
<1>5. Alike(edits, Applied(edits, k), es, Applied(es, k), b.first - 1, Len(edits))
  <2>1. ASSUME NEW i \in (b.first - 1) + 1 .. Len(edits)
        PROVE  /\ i \in Applied(edits, k) <=> i \in Applied(es, k)
               /\ edits[i].rel = es[i].rel /\ edits[i].n = es[i].n
    <3>1. i \in DOMAIN edits /\ i \in DOMAIN es
      BY <1>1, <1>2
    <3>2. CASE i = m
      BY <1>1, <3>1, <3>2 DEF Applied
    <3>3. CASE i # m
      BY <1>1, <3>1, <3>3 DEF Applied
    <3> QED
      BY <3>2, <3>3
  <2> QED
    BY <2>1 DEF Alike
<1>6. ServedFrom(b, es, k) = ServedFrom(b, edits, k)
  BY <1>1, <1>3, <1>4, <1>5, ShowsSame
<1> QED
  BY <1>6 DEF es

\* The server applies the next edit to what it has.
LEMMA ServedNext ==
  ASSUME TypeOK, InOrder, NEW m \in DOMAIN edits, NEW n, Becomes(m, n), NEW k,
         NEW b, b.first \in 1 .. Len(edits), m >= b.first,
         n.rel = edits[m].rel, n.n = edits[m].n, k \in n.applied,
         k \notin edits[m].applied, edits[m].todo # {}
  PROVE  ServedFrom(b, edits', k) = Result(edits[m], ServedFrom(b, edits, k))
<1> DEFINE es == edits'
           x == ServedFrom(b, edits, k)
           y == ServedFrom(b, es, k)
           on == Applied(edits, k)
           by == Applied(es, k)
<1>1. /\ Len(edits) \in Nat /\ DOMAIN edits = 1 .. Len(edits) /\ Len(es) = Len(edits)
      /\ es[m] = n /\ \A i \in DOMAIN edits \ {m} : es[i] = edits[i]
  BY EditsAre, BoundsAssumption DEF Becomes
<1>2. DOMAIN es = 1 .. Len(es)
  BY LenProperties DEF Becomes
<1> HIDE DEF es
<1>3. b.first \in 1 .. Len(edits) + 1 /\ m \in b.first .. Len(edits)
  BY <1>1
<1>4. Shows(b, edits, k, on, x) /\ Shows(b, es, k, by, y)
  BY <1>1, <1>2, <1>3, ServedIs
<1>5. Alike(edits, on, es, by, b.first - 1, m - 1)
  <2>1. ASSUME NEW i \in (b.first - 1) + 1 .. m - 1
        PROVE  i \in DOMAIN edits /\ i \in DOMAIN es /\ es[i] = edits[i]
    BY <1>1, <1>2, <1>3
  <2> QED
    BY <2>1 DEF Alike, Applied
<1>6. \A i \in DOMAIN edits : i > m => edits[i].applied = {}
  BY <1>1 DEF InOrder
<1>7. \A i \in m .. Len(edits) : i \notin on
  <2>1. ASSUME NEW i \in m .. Len(edits) PROVE i \notin on
    <3>1. i = m \/ (i > m /\ i \in DOMAIN edits)
      BY <1>1
    <3> QED
      BY <1>6, <3>1 DEF Applied
  <2> QED
    BY <2>1
<1>8. m \in by
  BY <1>1, <1>2 DEF Applied
<1>9. \A i \in m + 1 .. Len(edits) : i \notin by
  <2>1. ASSUME NEW i \in m + 1 .. Len(edits) PROVE i \notin by
    <3>1. i # m /\ i > m /\ i \in DOMAIN edits
      BY <1>1
    <3> QED
      BY <1>1, <1>6, <3>1 DEF Applied
  <2> QED
    BY <2>1
<1>10. y = Result(es[m], x)
  <2> HIDE DEF x, y, on, by
  <2> QED
    BY <1>1, <1>3, <1>4, <1>5, <1>7, <1>8, <1>9, ShowsNext
<1>11. Result(es[m], x) = Result(edits[m], x)
  BY <1>1 DEF Result
<1> QED
  BY <1>10, <1>11 DEF es

LEMMA AloneServe ==
  ASSUME Ordered, IInv, AloneInv, NEW m \in DOMAIN edits, NEW k \in Key, Serve(m, k)
  PROVE  AloneInv'
<1>1. /\ TypeOK /\ Batched /\ (\A f \in Fetch : Informed(fetch[f], edits))
      /\ Edited(edits[m]) /\ DOMAIN edits = 1 .. Len(edits)
  BY EditsAre DEF IInv
<1>2. Agrees(batch, list, own, edits, server) /\ InOrder
  BY AloneIs
<1>3. PICK e \in EditRecords : e = edits[m]
  BY <1>1, EditsAre
<1> DEFINE n == [e EXCEPT !.todo = @ \ {k}, !.applied = @ \cup {k}]
<1>4. /\ edits' = [edits EXCEPT ![m] = n] /\ k \in e.todo
      /\ \A i \in 1 .. m - 1 : edits[i].todo = {}
      /\ server' = [server EXCEPT ![k] = Result(e, server[k])]
      /\ UNCHANGED <<list, own, batch, generation, fetch>>
  BY <1>3 DEF Serve
<1>5. /\ n \in EditRecords /\ n.rel = e.rel /\ n.n = e.n
      /\ n.state = e.state /\ n.keys = e.keys /\ n.asks = e.asks
      /\ n.todo = e.todo \ {k} /\ n.applied = e.applied \cup {k}
  BY DEF EditRecords
<1> HIDE DEF n
<1>6. Becomes(m, n) /\ DOMAIN edits' = DOMAIN edits
  BY <1>1, <1>4, <1>5, Changed
<1>7. IsOpen(edits, m)
  BY <1>3, <1>4, NothingLeft
<1>8. /\ batch # None /\ batch.first \in 1 .. Len(edits) /\ m >= batch.first
      /\ k \notin e.applied
  <2>1. batch # None
    BY <1>1, <1>7 DEF Batched
  <2>2. batch.first \in 1 .. Len(edits) /\ ~ (m < batch.first)
    BY <1>1, <1>7, <2>1 DEF Batched
  <2>3. k \notin e.applied
    BY <1>1, <1>3, <1>4, <1>7 DEF Edited, IsOpen
  <2> QED
    BY <1>1, <2>1, <2>2, <2>3
<1>9. ASSUME NEW j \in Key \ Unasked(edits') PROVE server'[j] = ServedFrom(batch, edits', j)
  <2>1. server \in [Key -> Nat] /\ server[j] = ServedFrom(batch, edits, j)
    <3>1. ASSUME NEW i \in DOMAIN edits, edits[i].state = "ok" PROVE edits'[i] = edits[i]
      BY <1>6, <1>7, <3>1 DEF Becomes, IsOpen
    <3>2. j \notin Unasked(edits)
      BY <1>6, <3>1, UnaskedGrows
    <3> QED
      BY <1>1, <1>2, <1>8, <3>2 DEF TypeOK, Agrees
  <2>2. CASE j = k
    <3>1. ServedFrom(batch, edits', k) = Result(edits[m], ServedFrom(batch, edits, k))
      <4>1. k \in n.applied /\ edits[m].todo # {}
        BY <1>3, <1>4, <1>5
      <4> QED
        BY <1>1, <1>2, <1>3, <1>5, <1>6, <1>8, <4>1, ServedNext
    <3> QED
      BY <1>3, <1>4, <2>1, <2>2, <3>1
  <2>3. CASE j # k
    <3>1. j \in n.applied <=> j \in edits[m].applied
      BY <1>3, <1>5, <2>3
    <3>2. ServedFrom(batch, edits', j) = ServedFrom(batch, edits, j)
      BY <1>1, <1>3, <1>5, <1>6, <1>8, <3>1, ServedSame
    <3> QED
      BY <1>4, <2>1, <2>3, <3>2
  <2> QED
    BY <2>2, <2>3
<1>10. Agrees(batch', list', own', edits', server')
  <2>1. list # None /\ batch.entries # None
    BY <1>2, <1>8 DEF Agrees
  <2> QED
    BY <1>4, <1>8, <1>9, <2>1 DEF Agrees
<1>11. InOrder'
  <2>1. ASSUME NEW i \in DOMAIN edits, NEW j \in DOMAIN edits, i < j, edits'[i].todo # {}
        PROVE  edits'[j].applied = {}
    <3>1. i # m => edits'[i] = edits[i]
      BY <1>6 DEF Becomes
    <3>2. edits[i].todo # {}
      BY <1>3, <1>4, <2>1, <3>1
    <3>3. j # m
      BY <1>1, <1>4, <2>1, <3>2
    <3>4. edits'[j] = edits[j]
      BY <1>6, <3>3 DEF Becomes
    <3> QED
      BY <1>2, <2>1, <3>2, <3>4 DEF InOrder
  <2>2. ASSUME NEW i \in DOMAIN edits, edits'[i].state = "failed"
        PROVE  edits'[i].todo = {} /\ edits'[i].applied = {}
    <3>1. i # m
      BY <1>3, <1>5, <1>6, <1>7, <2>2 DEF Becomes, IsOpen
    <3> QED
      BY <1>2, <1>6, <2>2, <3>1 DEF Becomes, InOrder
  <2> QED
    BY <1>6, <2>1, <2>2 DEF InOrder
<1>12. \A f \in Fetch : UpToDate(fetch[f])'
  <2>1. ASSUME NEW f \in Fetch, fetch[f].phase = "read", ~fetch[f].during,
               fetch[f].gen = generation
        PROVE  FALSE
    <3>1. m \in 1 .. fetch[f].gen
      BY <1>1, <2>1 DEF Batched
    <3> QED
      BY <1>1, <1>7, <2>1, <3>1 DEF Informed
  <2> QED
    BY <1>4, <2>1 DEF UpToDate
<1> QED
  BY <1>10, <1>11, <1>12, AloneIs

LEMMA AloneBegin ==
  ASSUME IInv, AloneInv, NEW e \in Edits, Begin(e)
  PROVE  AloneInv'
<1>1. TypeOK /\ Batched /\ \A f \in Fetch : Informed(fetch[f], edits)
  BY DEF IInv
<1>2. Agrees(batch, list, own, edits, server) /\ InOrder
  BY AloneIs
<1> DEFINE q == [k \in Key |-> Result(e, Cached(k))]
           b == [first |-> Len(edits) + 1, entries |-> list, ownership |-> own]
           es == edits'
<1>3. /\ Len(edits) < MaxEdits /\ generation' = generation + 1
      /\ batch' = (IF batch # None THEN batch ELSE b)
      /\ edits' = Append(edits, Made(e))
      /\ list' = ListWith(q, IF e.seed THEN e.keys ELSE {}, e.keys)
      /\ own' = OwnWith(q, e.keys) /\ UNCHANGED <<server, fetch>>
  BY DEF Begin, Bumped, Made
<1>4. /\ Len(es) = Len(edits) + 1 /\ DOMAIN es = 1 .. Len(es)
      /\ DOMAIN edits = 1 .. Len(edits) /\ Len(edits) \in Nat
      /\ es[Len(es)] = Made(e) /\ \A i \in DOMAIN edits : es[i] = edits[i]
  BY <1>1, <1>3, Appended, EditsAre, BoundsAssumption
<1>5. b # None /\ b.first = Len(edits) + 1 /\ b.entries = list /\ b.ownership = own
  <2>1. b \in Batches
    BY <1>1, <1>4 DEF Batches, TypeOK
  <2> QED
    BY <2>1, BatchAssumption DEF Batches
<1>6. q \in [Key -> Nat] /\ e.keys \in SUBSET Key
  <2>1. e.n \in Int /\ e.keys \in SUBSET Key
    BY BoundsAssumption DEF Edits
  <2> QED
    BY <1>1, <2>1, QuantityIs, ResultIs DEF Cached, TypeOK
<1> HIDE DEF q, b, es
<1>7. list' # None
  BY <1>1, <1>2, <1>3, <1>6, Applying DEF Agrees
<1>8. PICK c : c = batch'
  OBVIOUS
<1>9. c # None /\ c.entries # None /\ c.first \in 1 .. Len(edits) + 1
  <2>1. CASE batch # None
    BY <1>1, <1>2, <1>3, <1>4, <1>8, <2>1 DEF Agrees, Batched
  <2>2. CASE batch = None
    BY <1>2, <1>3, <1>4, <1>5, <1>8, <2>2 DEF Agrees
  <2> QED
    BY <2>1, <2>2
<1>10. ASSUME NEW k \in Key \ Unasked(es) PROVE server[k] = ServedFrom(c, es, k)
  <2>1. Shows(c, edits, k, Applied(edits, k), ServedFrom(c, edits, k))
    BY <1>4, <1>9, ServedIs
  <2>2. c.first \in 1 .. Len(es) + 1 /\ Len(es) \in Nat
    BY <1>4, <1>9
  <2>3. Shows(c, es, k, Applied(es, k), ServedFrom(c, es, k))
    BY <1>4, <2>2, ServedIs
  <2>4. Alike(edits, Applied(edits, k), es, Applied(es, k), c.first - 1, Len(edits))
    <3>1. ASSUME NEW i \in (c.first - 1) + 1 .. Len(edits)
          PROVE  i \in DOMAIN edits /\ i \in DOMAIN es /\ es[i] = edits[i]
      BY <1>4, <1>9
    <3> QED
      BY <3>1 DEF Alike, Applied
  <2>5. Len(es) \notin Applied(es, k)
    BY <1>4 DEF Applied, Made
  <2>6. ServedFrom(c, es, k) = ServedFrom(c, edits, k)
    BY <1>4, <1>9, <2>1, <2>3, <2>4, <2>5, ShowsAppended
  <2>7. server[k] = ServedFrom(c, edits, k)
    <3>3. DOMAIN edits \subseteq DOMAIN es
      BY <1>4
    <3>4. k \notin Unasked(edits)
      BY <1>4, <3>3, UnaskedGrows
    <3>1. CASE batch # None
      BY <1>2, <1>3, <1>8, <3>1, <3>4 DEF Agrees
    <3>2. CASE batch = None
      <4>1. c = b
        BY <1>3, <1>8, <3>2
      <4>2. ServedFrom(c, edits, k) = Base(c, k)
        BY <1>4, <1>5, <2>1, <4>1, ShowsBase
      <4> QED
        BY <1>2, <1>5, <3>2, <3>4, <4>1, <4>2 DEF Agrees, Base
    <3> QED
      BY <3>1, <3>2
  <2> QED
    BY <2>6, <2>7
<1>11. Agrees(batch', list', own', edits', server')
  <2>1. Agrees(c, list', own', es, server)
    BY <1>7, <1>9, <1>10 DEF Agrees
  <2> QED
    BY <1>3, <1>8, <2>1 DEF es
<1>12. InOrder'
  <2>1. ASSUME NEW i \in DOMAIN es, NEW j \in DOMAIN es, i < j, es[i].todo # {}
        PROVE  es[j].applied = {}
    <3>1. i \in DOMAIN edits /\ es[i] = edits[i]
      BY <1>4, <2>1
    <3>2. CASE j = Len(es)
      BY <1>4, <3>2 DEF Made
    <3>3. CASE j # Len(es)
      <4>1. j \in DOMAIN edits /\ es[j] = edits[j]
        BY <1>4, <3>3
      <4> QED
        BY <1>2, <2>1, <3>1, <4>1 DEF InOrder
    <3> QED
      BY <3>2, <3>3
  <2>2. ASSUME NEW i \in DOMAIN es, es[i].state = "failed"
        PROVE  es[i].todo = {} /\ es[i].applied = {}
    <3>1. i # Len(es)
      BY <1>4, <2>2 DEF Made
    <3>2. i \in DOMAIN edits /\ es[i] = edits[i]
      BY <1>4, <3>1
    <3> QED
      BY <1>2, <2>2, <3>2 DEF InOrder
  <2> QED
    BY <2>1, <2>2 DEF InOrder, es
<1>13. \A f \in Fetch : UpToDate(fetch[f])'
  <2>1. ASSUME NEW f \in Fetch, fetch[f].phase = "read", fetch[f].gen = generation + 1
        PROVE  FALSE
    <3>1. fetch[f].gen \in 0 .. Len(edits)
      BY <1>1, <2>1 DEF Informed
    <3> QED
      BY <1>1, <1>4, <2>1, <3>1 DEF Batched
  <2> QED
    BY <1>3, <2>1 DEF UpToDate
<1> QED
  BY <1>11, <1>12, <1>13, AloneIs

\* When the last edit of a batch is answered, what is shown is what was served.
LEMMA ServedIsShown ==
  ASSUME NEW b, NEW es, NEW k \in Key, Len(es) \in Nat, DOMAIN es = 1 .. Len(es),
         b.first \in 1 .. Len(es),
         \A i \in b.first .. Len(es) :
           \/ es[i].state = "ok" /\ (k \in es[i].applied <=> k \in es[i].keys)
           \/ es[i].state = "failed" /\ es[i].applied = {}
  PROVE  ServedFrom(b, es, k) = ReplayFrom(b, es, k)
<1>1. b.first \in 1 .. Len(es) + 1
  OBVIOUS
<1>2. /\ Shows(b, es, k, Applied(es, k), ServedFrom(b, es, k))
      /\ Shows(b, es, k, Unfailed(es, k), ReplayFrom(b, es, k))
  BY <1>1, ServedIs, ShownFrom
<1>3. Alike(es, Applied(es, k), es, Unfailed(es, k), b.first - 1, Len(es))
  <2>1. ASSUME NEW i \in (b.first - 1) + 1 .. Len(es)
        PROVE  i \in Applied(es, k) <=> i \in Unfailed(es, k)
    <3>1. i \in b.first .. Len(es) /\ i \in DOMAIN es
      OBVIOUS
    <3>2. CASE es[i].state = "ok" /\ (k \in es[i].applied <=> k \in es[i].keys)
      BY <3>1, <3>2 DEF Applied, Unfailed
    <3>3. CASE es[i].state = "failed" /\ es[i].applied = {}
      BY <3>1, <3>3 DEF Applied, Unfailed
    <3> QED
      BY <3>1, <3>2, <3>3
  <2> QED
    BY <2>1 DEF Alike
<1> QED
  BY <1>1, <1>2, <1>3, ShowsSame

LEMMA AloneAnswered ==
  ASSUME ~Lossy, IInv, AloneInv, NEW m \in DOMAIN edits, Succeed(m) \/ Fail(m)
  PROVE  AloneInv'
<1>1. /\ TypeOK /\ Batched /\ (\A f \in Fetch : Informed(fetch[f], edits))
      /\ \A i \in DOMAIN edits : Edited(edits[i])
  BY DEF IInv
<1>2. Agrees(batch, list, own, edits, server) /\ InOrder
  BY AloneIs
<1>3. PICK n : Outcome(m, n)
  BY Succeeded, Failed
<1>4. /\ IsOpen(edits, m) /\ Becomes(m, n) /\ DOMAIN edits' = DOMAIN edits /\ Settle(m)
      /\ n.state \in {"ok", "failed"} /\ Edited(n) /\ n.rel = edits[m].rel /\ n.n = edits[m].n
      /\ n.keys = edits[m].keys /\ n.asks = edits[m].asks
      /\ n.applied = edits[m].applied /\ n.todo = {} /\ (n.state = "failed" => n.applied = {})
      /\ list' # None /\ Showing(batch, list', own', edits')
  BY <1>2, <1>3 DEF Outcome, Agrees
<1>5. /\ Len(edits) \in Nat /\ DOMAIN edits = 1 .. Len(edits) /\ Len(edits') = Len(edits)
      /\ edits'[m] = n /\ \A i \in DOMAIN edits \ {m} : edits'[i] = edits[i]
  BY <1>1, <1>4, EditsAre, BoundsAssumption DEF Becomes
<1>6. batch # None /\ batch.entries # None /\ batch.first \in 1 .. Len(edits)
  BY <1>1, <1>2, <1>4 DEF Batched, Agrees
<1>7. UNCHANGED <<server, generation>>
  BY <1>4 DEF Settle, Succeed, Fail
<1>8. ASSUME NEW k \in Key \ Unasked(edits') PROVE server[k] = ServedFrom(batch, edits', k)
  <2>1. ServedFrom(batch, edits', k) = ServedFrom(batch, edits, k)
    BY <1>1, <1>4, <1>6, ServedSame
  <2>2. ASSUME NEW i \in DOMAIN edits, edits[i].state = "ok" PROVE edits'[i] = edits[i]
    BY <1>4, <1>5, <2>2 DEF IsOpen
  <2>3. k \notin Unasked(edits)
    BY <1>4, <2>2, UnaskedGrows
  <2> QED
    BY <1>2, <1>6, <2>1, <2>3 DEF Agrees
<1>9. Agrees(batch', list', own', edits', server')
  <2>1. CASE batch' = batch
    BY <1>4, <1>6, <1>7, <1>8, <2>1 DEF Agrees
  <2>2. CASE batch' # batch
    <3>1. /\ batch' = None
          /\ \A i \in (batch.first .. Len(edits)) \ {m} : edits[i].state # "open"
      BY <1>4, <2>2 DEF Settle
    <3>2. ASSUME NEW i \in batch.first .. Len(edits')
          PROVE  \/ edits'[i].state = "ok" /\ edits'[i].applied = edits'[i].asks
                      /\ edits'[i].asks \subseteq edits'[i].keys
                 \/ edits'[i].state = "failed" /\ edits'[i].applied = {}
      <4>1. CASE i = m
        BY <1>4, <1>5, <4>1 DEF Edited
      <4>2. CASE i # m
        <5>1. i \in DOMAIN edits /\ edits'[i] = edits[i] /\ edits[i].state # "open"
          BY <1>5, <1>6, <3>1, <4>2
        <5>2. edits[i].state \in {"ok", "failed"}
          BY <1>1, <5>1, EditsAre DEF EditRecords
        <5>3. /\ edits[i].state = "ok" => edits[i].applied = edits[i].asks
              /\ edits[i].asks \subseteq edits[i].keys
          BY <1>1, <5>1 DEF Edited
        <5>4. edits[i].state = "failed" => edits[i].applied = {}
          BY <1>2, <5>1 DEF InOrder
        <5> QED
          BY <5>1, <5>2, <5>3, <5>4
      <4> QED
        BY <4>1, <4>2
    <3>3. ASSUME NEW k \in Key \ Unasked(edits') PROVE Quantity(list', own', k) = server[k]
      <4> DEFINE es == edits'
      <4>1. Len(es) \in Nat /\ DOMAIN es = 1 .. Len(es) /\ batch.first \in 1 .. Len(es)
        BY <1>4, <1>5, <1>6
      <4>2. ServedFrom(batch, es, k) = ReplayFrom(batch, es, k)
        <5> HIDE DEF es
        <5>1. ASSUME NEW i \in batch.first .. Len(es)
              PROVE  \/ es[i].state = "ok" /\ (k \in es[i].applied <=> k \in es[i].keys)
                     \/ es[i].state = "failed" /\ es[i].applied = {}
          <6>1. i \in DOMAIN es /\ k \notin Unasked(es)
            BY <4>1, <3>3 DEF es
          <6>2. es[i].state = "ok" /\ k \in es[i].keys => k \in es[i].asks
            BY <6>1, AskedFor
          <6> QED
            BY <3>2, <6>2 DEF es
        <5> QED
          BY <4>1, <5>1, ServedIsShown
      <4>3. Quantity(list', own', k) = ReplayFrom(batch, es, k)
        BY <1>4, <1>6 DEF Showing
      <4> QED
        BY <1>8, <4>2, <4>3
    <3> QED
      BY <1>4, <1>7, <3>1, <3>3 DEF Agrees
  <2> QED
    BY <2>1, <2>2
<1>10. InOrder'
  <2>1. \A i \in DOMAIN edits : edits'[i].applied = edits[i].applied
    BY <1>4, <1>5
  <2>2. ASSUME NEW i \in DOMAIN edits, edits'[i].todo # {} PROVE edits[i].todo # {}
    BY <1>4, <1>5, <2>2
  <2>3. ASSUME NEW i \in DOMAIN edits, edits'[i].state = "failed"
        PROVE  edits'[i].todo = {} /\ edits'[i].applied = {}
    <3>1. CASE i = m
      BY <1>4, <1>5, <2>3, <3>1
    <3>2. CASE i # m
      BY <1>2, <1>5, <2>3, <3>2 DEF InOrder
    <3> QED
      BY <3>1, <3>2
  <2>4. \A i, j \in DOMAIN edits : (i < j /\ edits[i].todo # {}) => edits[j].applied = {}
    BY <1>2 DEF InOrder
  <2> QED
    BY <1>4, <2>1, <2>2, <2>3, <2>4 DEF InOrder
<1>11. \A f \in Fetch : UpToDate(fetch[f])'
  <2>1. CASE Flush
    <3>1. PICK g \in Fetch : Starts(g, FALSE)
      BY <1>4, <2>1 DEF Settle
    <3> QED
      BY <1>1, <1>7, <3>1, StartsUpToDate
  <2>2. CASE ~Flush
    <3>1. UNCHANGED fetch
      BY <1>4, <2>2 DEF Settle
    <3> QED
      BY <1>7, <3>1 DEF UpToDate, AloneInv
  <2> QED
    BY <2>1, <2>2
<1> QED
  BY <1>9, <1>10, <1>11, AloneIs

LEMMA AloneInit ==
  ASSUME ~Cold, Init
  PROVE  AloneInv
<1>1. /\ list = server /\ edits = <<>> /\ batch = None
      /\ fetch = [f \in Fetch |-> Idle] /\ server \in [Key -> Nat]
  BY BoundsAssumption DEF Init
<1>2. server # None
  BY <1>1, NoneAssumption
<1>3. ASSUME NEW k \in Key PROVE Cached(k) = server[k]
  <2>1. own[k] = server[k] /\ server[k] \in Nat /\ server[k] # None
    BY <1>1, <1>2, NoneAssumption DEF Init
  <2> QED
    BY <1>1, <1>2, <2>1 DEF Cached, Quantity
<1>4. InOrder
  BY <1>1 DEF InOrder
<1>5. \A f \in Fetch : UpToDate(fetch[f])
  BY <1>1 DEF UpToDate, Idle
<1> QED
  BY <1>1, <1>2, <1>3, <1>4, <1>5 DEF AloneInv

LEMMA AloneNext ==
  ASSUME Ordered, ~Lossy, IInv, AloneInv, [Alone]_vars
  PROVE  IInv' /\ AloneInv'
<1>1. IInv'
  BY NextInv DEF Next
<1>2. CASE Alone
  <2>1. ASSUME NEW m \in DOMAIN edits, Succeed(m) \/ Fail(m) \/ \E k \in Key : Serve(m, k)
        PROVE  AloneInv'
    BY <2>1, AloneAnswered, AloneServe
  <2>2. ASSUME NEW g \in Fetch, Refetch(g) \/ Read(g) \/ FetchFails(g) \/ FetchDone(g)
        PROVE  AloneInv'
    BY <2>2, AloneRequests, AloneFetchDone
  <2>3. ASSUME NEW e \in Edits, Begin(e) PROVE AloneInv'
    BY <2>3, AloneBegin
  <2>4. CASE Reconcile
    BY <1>1, <2>4, AloneRequests
  <2> QED
    BY <1>1, <1>2, <2>1, <2>2, <2>3, <2>4 DEF Alone
<1>3. CASE UNCHANGED vars
  <2>1. UNCHANGED <<server, list, own, edits, batch, generation, fetch>>
    BY <1>3 DEF vars, client
  <2>2. \A f \in Fetch : UpToDate(fetch[f])'
    BY <2>1 DEF UpToDate, AloneInv
  <2> QED
    BY <1>1, <2>1, <2>2, AloneElsewhere
<1> QED
  BY <1>1, <1>2, <1>3

(***************************************************************************)
(* What holds of every client.                                             *)
(***************************************************************************)

\* The inductive invariant holds in every reachable state, whatever is lost,
\* reordered or shared: while edits are open the client shows their replay.
THEOREM ClientInvariant == Spec => []IInv
<1> QED
  BY InitInv, NextInv, PTL DEF Spec

\* Lists, ownership, edits and requests keep their shapes.
THEOREM Typed == Spec => []TypeOK
<1>1. IInv => TypeOK
  BY DEF IInv
<1> QED
  BY <1>1, ClientInvariant, PTL

\* While edits are open, every finish shows the list they started from with the
\* edits that have not failed, for any number of edits that fail in any order
\* (rollback, collectionSnapshotIsStale).
THEOREM ScreenIsTheReplay == Spec => []ShownIsReplay
<1>1. IInv => ShownIsReplay
  BY DEF IInv
<1> QED
  BY <1>1, ClientInvariant, PTL

\* An invalidation is put off only while an edit is open
\* (flushCollectionLiveInvalidate).
THEOREM DeferredIsLetThrough == Spec => []DeferredOnlyWhileMutating
<1>1. IInv => DeferredOnlyWhileMutating
  BY DEF IInv
<1> QED
  BY <1>1, ClientInvariant, PTL

\* A list answer that replaces what is shown has whatever the confirmed edits asked
\* the server for (fetchCollectionQuery); a removal may have shown more than that.
THEOREM AnswersKeepConfirmedEdits == Spec => AdoptsOnlyCurrent
<1>1. Spec => [][Adopts]_vars
  <2>1. IInv /\ [Next]_vars => [Adopts]_vars
    BY StepAdopts
  <2> QED
    BY <2>1, ClientInvariant, PTL DEF Spec
<1> QED
  BY <1>1 DEF AdoptsOnlyCurrent, Adopts

(***************************************************************************)
(* What holds of a client alone.                                           *)
(***************************************************************************)

\* A client alone that starts from a loaded list, whose requests arrive in order
\* and fail without effect, shows what the server has as soon as nothing is under
\* way, however many edits fail (settleOptimisticCollectionMutation): of every
\* finish but those that a confirmed removeMany showed at 0 without asking for them.
THEOREM RestingClientsAgree ==
  ASSUME Ordered, ~Lossy, ~Cold
  PROVE  AloneSpec => []QuietAgrees
<1>1. Init => IInv /\ AloneInv
  BY InitInv, AloneInit
<1>2. IInv /\ AloneInv /\ [Alone]_vars => (IInv /\ AloneInv)'
  BY AloneNext
<1>3. IInv /\ AloneInv => QuietAgrees
  BY MutatingIs DEF IInv, AloneInv, QuietAgrees, Quiet
<1> QED
  BY <1>1, <1>2, <1>3, PTL DEF AloneSpec

==============================================================================

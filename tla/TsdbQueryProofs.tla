-------------------------- MODULE TsdbQueryProofs --------------------------
(***************************************************************************)
(* The iterations and the queries of the time-series database return what  *)
(* they should, for every geometry and any sequence of calls and sessions  *)
(* until the first failure.                                                *)
(***************************************************************************)
EXTENDS TsdbProps, TsdbLogProofs, FiniteSetTheorems

----------------------------------------------------------------------------
(* Sequences that are put together *)

\* A function of the numbers up to n that is defined from the one before.
LEMMA FlattenExists ==
  ASSUME NEW n \in Nat, n >= 1, NEW S
  PROVE  \E h : h = [i \in 1 .. n |-> IF i = 1 THEN S[i] ELSE h[i-1] \o S[i]]
<1> DEFINE Has(m) == \E h : h = [i \in 1 .. m |-> IF i = 1 THEN S[i] ELSE h[i-1] \o S[i]]
           T == {m \in Nat : m >= 1 /\ ~Has(m)}
<1>1. CASE T = {}
  BY <1>1
<1>2. CASE T # {}
  <2>1. T \subseteq Nat
    OBVIOUS
  <2>2. Least(T) \in T /\ \A y \in T : Least(T) <= y
    <3> HIDE DEF T
    <3> QED BY <1>2, <2>1, LeastExists
  <2>3. PICK m : m = Least(T)
    OBVIOUS
  <2>4. m \in Nat /\ m >= 1 /\ ~Has(m)
    BY <2>2, <2>3
  <2>5. Has(1)
    <3> DEFINE g == [i \in 1 .. 1 |-> S[1]]
    <3>1. g = [i \in 1 .. 1 |-> IF i = 1 THEN S[i] ELSE g[i-1] \o S[i]]
      OBVIOUS
    <3> QED BY <3>1
  <2>6. m - 1 \in Nat /\ m - 1 >= 1
    <3> HIDE DEF Has
    <3>1. m # 1
      BY <2>4, <2>5
    <3> QED BY <2>4, <3>1
  <2>7. Has(m-1)
    <3>1. m - 1 \notin T
      <4> HIDE DEF T
      <4> QED BY <2>2, <2>3, <2>4
    <3> HIDE DEF Has
    <3> QED BY <2>6, <3>1
  <2>8. PICK h : h = [i \in 1 .. m-1 |-> IF i = 1 THEN S[i] ELSE h[i-1] \o S[i]]
    BY <2>7
  <2> DEFINE g == [i \in 1 .. m |-> IF i = m THEN h[m-1] \o S[m] ELSE h[i]]
  <2>9. g = [i \in 1 .. m |-> IF i = 1 THEN S[i] ELSE g[i-1] \o S[i]]
    <3>1. ASSUME NEW i \in 1 .. m PROVE g[i] = IF i = 1 THEN S[i] ELSE g[i-1] \o S[i]
      <4>1. CASE i = m
        <5>1. i # 1 /\ i - 1 \in 1 .. m /\ i - 1 # m
          BY <2>4, <2>6, <4>1
        <5>2. g[i-1] = h[m-1]
          BY <4>1, <5>1
        <5> QED BY <4>1, <5>1, <5>2
      <4>2. CASE i # m
        <5>1. i \in 1 .. m-1 /\ g[i] = h[i]
          BY <2>4, <4>2
        <5>2. h[i] = IF i = 1 THEN S[i] ELSE h[i-1] \o S[i]
          BY <2>8, <5>1
        <5>3. i # 1 => i - 1 \in 1 .. m /\ i - 1 # m /\ g[i-1] = h[i-1]
          BY <2>4, <5>1
        <5> QED BY <5>1, <5>2, <5>3
      <4> QED BY <4>1, <4>2
    <3> QED BY <3>1
  <2>10. Has(m)
    <3> HIDE DEF g
    <3> QED BY <2>9
  <2> QED BY <2>4, <2>10
<1> QED BY <1>1, <1>2

\* FlattenSeq step by step.
LEMMA FlattenSteps ==
  ASSUME NEW S, NEW n \in Nat, n = Len(S), n >= 1
  PROVE  \E h : /\ FlattenSeq(S) = h[n] /\ h[1] = S[1]
                /\ \A i \in 2 .. n : h[i] = h[i-1] \o S[i]
<1> DEFINE h == CHOOSE g : g = [i \in 1 .. Len(S) |-> IF i = 1 THEN S[i] ELSE g[i-1] \o S[i]]
<1>1. h = [i \in 1 .. Len(S) |-> IF i = 1 THEN S[i] ELSE h[i-1] \o S[i]]
  BY FlattenExists
<1>2. FlattenSeq(S) = h[n]
  BY DEF FlattenSeq
<1> HIDE DEF h
<1>3. ASSUME NEW i \in 1 .. n PROVE h[i] = IF i = 1 THEN S[i] ELSE h[i-1] \o S[i]
  BY <1>1
<1>4. h[1] = S[1] /\ \A i \in 2 .. n : h[i] = h[i-1] \o S[i]
  <2>1. 1 \in 1 .. n /\ \A i \in 2 .. n : i \in 1 .. n /\ i # 1
    OBVIOUS
  <2>2. h[1] = S[1]
    BY <1>3, <2>1
  <2>3. ASSUME NEW i \in 2 .. n PROVE h[i] = h[i-1] \o S[i]
    BY <1>3, <2>1
  <2> QED BY <2>2, <2>3
<1> QED BY <1>2, <1>4

\* q is in order under the times tm.
SortedBy(tm, q) == \A k, m \in DOMAIN q : k < m => tm[q[k]] < tm[q[m]]
\* All of q is in front of all of r.
InFront(tm, q, r) == \A k \in DOMAIN q, m \in DOMAIN r : tm[q[k]] < tm[r[m]]

LEMMA SortedConcat ==
  ASSUME NEW X, NEW tm \in [X -> Int], NEW q \in Seq(X), NEW r \in Seq(X),
         SortedBy(tm, q), SortedBy(tm, r), InFront(tm, q, r)
  PROVE  /\ q \o r \in Seq(X) /\ SortedBy(tm, q \o r)
         /\ \A x : x \in ToSet(q \o r) <=> x \in ToSet(q) \/ x \in ToSet(r)
<1> DEFINE c == q \o r
<1>1. c \in Seq(X) /\ Len(c) = Len(q) + Len(r) /\ Len(q) \in Nat /\ Len(r) \in Nat
  OBVIOUS
<1>2. /\ DOMAIN c = 1 .. Len(q) + Len(r) /\ DOMAIN q = 1 .. Len(q) /\ DOMAIN r = 1 .. Len(r)
      /\ \A i \in 1 .. Len(q) : c[i] = q[i]
      /\ \A i \in 1 .. Len(r) : c[Len(q) + i] = r[i]
  OBVIOUS
<1>3. \A i \in DOMAIN c : \/ i \in DOMAIN q /\ c[i] = q[i]
                          \/ i - Len(q) \in DOMAIN r /\ c[i] = r[i - Len(q)] /\ i > Len(q)
  OBVIOUS
<1> HIDE DEF c
<1>4. \A x \in X : tm[x] \in Int
  OBVIOUS
<1>5. SortedBy(tm, c)
  <2> SUFFICES ASSUME NEW k \in DOMAIN c, NEW m \in DOMAIN c, k < m PROVE tm[c[k]] < tm[c[m]]
    BY DEF SortedBy
  <2>1. CASE k \in DOMAIN q /\ c[k] = q[k] /\ m \in DOMAIN q /\ c[m] = q[m]
    BY <2>1 DEF SortedBy
  <2>2. CASE k \in DOMAIN q /\ c[k] = q[k] /\ m - Len(q) \in DOMAIN r /\ c[m] = r[m - Len(q)]
    BY <2>2 DEF InFront
  <2>3. CASE k - Len(q) \in DOMAIN r /\ c[k] = r[k - Len(q)] /\ m - Len(q) \in DOMAIN r /\ c[m] = r[m - Len(q)]
    <3>1. k - Len(q) < m - Len(q)
      BY <1>1, <1>2
    <3> QED BY <2>3, <3>1 DEF SortedBy
  <2>4. ~ (k > Len(q) /\ m \in DOMAIN q)
    BY <1>1, <1>2
  <2> QED BY <1>3, <2>1, <2>2, <2>3, <2>4
<1>6. ASSUME NEW x PROVE x \in ToSet(c) <=> x \in ToSet(q) \/ x \in ToSet(r)
  <2>1. x \in ToSet(c) => x \in ToSet(q) \/ x \in ToSet(r)
    BY <1>3 DEF ToSet
  <2>2. x \in ToSet(q) => x \in ToSet(c)
    BY <1>1, <1>2 DEF ToSet
  <2>3. x \in ToSet(r) => x \in ToSet(c)
    <3> SUFFICES ASSUME NEW i \in DOMAIN r, x = r[i] PROVE x \in ToSet(c)
      BY DEF ToSet
    <3>1. Len(q) + i \in DOMAIN c /\ c[Len(q) + i] = x
      BY <1>1, <1>2
    <3> QED BY <3>1 DEF ToSet
  <2> QED BY <2>1, <2>2, <2>3
<1> QED BY <1>1, <1>5, <1>6 DEF c

\* n pieces of elements of X, in order.
Pieces(X, tm, S, n) ==
    /\ Len(S) = n /\ (n = 0 => S = <<>>)
    /\ \A i \in 1 .. n : S[i] \in Seq(X) /\ SortedBy(tm, S[i])
    /\ \A i, j \in 1 .. n : i < j => InFront(tm, S[i], S[j])

\* Pieces in order, one behind the other, are in order, and hold what the pieces hold.
LEMMA FlattenSorted ==
  ASSUME NEW X, NEW tm \in [X -> Int], NEW S, NEW n \in Nat, Pieces(X, tm, S, n)
  PROVE  /\ FlattenSeq(S) \in Seq(X) /\ SortedBy(tm, FlattenSeq(S))
         /\ \A x : x \in ToSet(FlattenSeq(S)) <=> \E i \in 1 .. n : x \in ToSet(S[i])
<1> USE DEF Pieces
<1>1. CASE n = 0
  <2>1. FlattenSeq(S) = <<>>
    BY <1>1 DEF FlattenSeq
  <2> QED BY <1>1, <2>1 DEF SortedBy, ToSet
<1>2. CASE n >= 1
  <2>1. PICK h : /\ FlattenSeq(S) = h[n] /\ h[1] = S[1]
                 /\ \A i \in 2 .. n : h[i] = h[i-1] \o S[i]
    BY <1>2, FlattenSteps
  <2> DEFINE Good(m) == /\ h[m] \in Seq(X) /\ SortedBy(tm, h[m])
                        /\ \A x : x \in ToSet(h[m]) <=> \E i \in 1 .. m : x \in ToSet(S[i])
             T == {m \in 1 .. n : ~Good(m)}
  <2>2. T = {}
    <3> SUFFICES ASSUME T # {} PROVE FALSE
      OBVIOUS
    <3>1. T \subseteq Nat
      OBVIOUS
    <3>2. Least(T) \in T /\ \A y \in T : Least(T) <= y
      <4> HIDE DEF T
      <4> QED BY <3>1, LeastExists
    <3>3. PICK m : m = Least(T)
      OBVIOUS
    <3>4. m \in 1 .. n /\ ~Good(m)
      BY <3>2, <3>3
    <3>5. CASE m = 1
      <4>1. \A x : x \in ToSet(h[1]) <=> \E i \in 1 .. 1 : x \in ToSet(S[i])
        BY <2>1
      <4>2. Good(1)
        BY <1>2, <2>1, <4>1
      <4> QED BY <3>4, <3>5, <4>2
    <3>6. CASE m # 1
      <4>1. m - 1 \in 1 .. n /\ m \in 2 .. n /\ Good(m-1)
        <5>1. m - 1 \in 1 .. n /\ m \in 2 .. n
          BY <3>4, <3>6
        <5>2. m - 1 \notin T
          <6> HIDE DEF T
          <6> QED BY <3>2, <3>3, <3>4
        <5> HIDE DEF Good
        <5> QED BY <5>1, <5>2
      <4>2. h[m] = h[m-1] \o S[m]
        BY <2>1, <4>1
      <4>3. InFront(tm, h[m-1], S[m])
        <5> SUFFICES ASSUME NEW k \in DOMAIN h[m-1], NEW l \in DOMAIN S[m]
                     PROVE  tm[h[m-1][k]] < tm[S[m][l]]
          BY DEF InFront
        <5>1. h[m-1][k] \in ToSet(h[m-1])
          BY DEF ToSet
        <5>2. PICK i \in 1 .. m-1 : h[m-1][k] \in ToSet(S[i])
          BY <4>1, <5>1
        <5>3. PICK j \in DOMAIN S[i] : h[m-1][k] = S[i][j]
          BY <5>2 DEF ToSet
        <5>4. i \in 1 .. n /\ i < m
          BY <4>1
        <5> QED BY <3>4, <5>3, <5>4 DEF InFront
      <4>4. /\ h[m] \in Seq(X) /\ SortedBy(tm, h[m])
            /\ \A x : x \in ToSet(h[m]) <=> x \in ToSet(h[m-1]) \/ x \in ToSet(S[m])
        <5>1. S[m] \in Seq(X) /\ SortedBy(tm, S[m])
          BY <3>4
        <5> HIDE DEF T, Pieces
        <5> QED BY <4>1, <4>2, <4>3, <5>1, SortedConcat
      <4>5. ASSUME NEW x PROVE x \in ToSet(h[m]) <=> \E i \in 1 .. m : x \in ToSet(S[i])
        <5>1. x \in ToSet(h[m-1]) <=> \E i \in 1 .. m-1 : x \in ToSet(S[i])
          BY <4>1
        <5>2. \A i : i \in 1 .. m <=> i \in 1 .. m-1 \/ i = m
          BY <3>4
        <5> QED BY <4>4, <5>1, <5>2
      <4> QED BY <3>4, <4>4, <4>5
    <3> QED BY <3>5, <3>6
  <2>3. Good(n)
    <3>1. n \in 1 .. n
      BY <1>2
    <3>2. n \notin T
      <4> HIDE DEF T
      <4> QED BY <2>2
    <3> HIDE DEF Good
    <3> QED BY <3>1, <3>2
  <2> QED BY <2>1, <2>3
<1> QED BY <1>1, <1>2

----------------------------------------------------------------------------
(* The binary search *)

\* The times at the places lo .. hi increase; every place has one.
Increasing(s, n) ==
    /\ \A j \in 0 .. n+2 : Slot(s, j).time \in Int
    /\ \A j, k \in 1 .. n : j < k => Slot(s, j).time < Slot(s, k).time

\* The place with the time that is looked for, or the place that stands for the first one
\* that is newer, behind the last one if there is none.
Answers(s, lo, hi, from, to, v) ==
    \/ \E k \in lo .. hi : Slot(s, k).time = from /\ v = k
    \/ \E k \in lo .. hi+1 : /\ \A j \in lo .. k-1 : Slot(s, j).time < from
                             /\ \A j \in k .. hi : Slot(s, j).time > from
                             /\ v = SearchEnd(s, k, from, to)

LEMMA MiddleIn ==
  ASSUME NEW lo \in Int, NEW hi \in Int, lo <= hi
  PROVE  Middle(<<lo, hi>>) \in lo .. hi
BY DEF Middle, HalfUp

\* Where the middle is too old the answer is above it, where it is too new below.
LEMMA SearchGoesUp ==
  ASSUME NEW s, NEW n \in Nat, Increasing(s, n), NEW lo \in 1 .. n, NEW hi \in 1 .. n, lo <= hi,
         NEW mid \in lo .. hi, NEW from \in Int, NEW to, Slot(s, mid).time < from, NEW v
  PROVE  Answers(s, mid + 1, hi, from, to, v) <=> Answers(s, lo, hi, from, to, v)
<1>1. \A j \in lo .. mid : Slot(s, j).time < from
  <2> TAKE j \in lo .. mid
  <2>1. j \in 1 .. n /\ mid \in 1 .. n /\ Slot(s, j).time \in Int /\ Slot(s, mid).time \in Int
    BY DEF Increasing
  <2>2. j = mid \/ Slot(s, j).time < Slot(s, mid).time
    BY <2>1 DEF Increasing
  <2> QED BY <2>1, <2>2
<1>2. \A j \in lo .. hi : Slot(s, j).time \in Int
  BY DEF Increasing
<1>3. ASSUME Answers(s, mid + 1, hi, from, to, v) PROVE Answers(s, lo, hi, from, to, v)
  <2>1. CASE \E k \in mid + 1 .. hi : Slot(s, k).time = from /\ v = k
    BY <2>1 DEF Answers
  <2>2. ASSUME NEW k \in mid + 1 .. hi + 1, \A j \in mid + 1 .. k-1 : Slot(s, j).time < from,
               \A j \in k .. hi : Slot(s, j).time > from, v = SearchEnd(s, k, from, to)
        PROVE  Answers(s, lo, hi, from, to, v)
    <3>1. k \in lo .. hi + 1 /\ \A j \in lo .. k-1 : j \in lo .. mid \/ j \in mid + 1 .. k-1
      OBVIOUS
    <3> QED BY <1>1, <2>2, <3>1 DEF Answers
  <2> QED BY <1>3, <2>1, <2>2 DEF Answers
<1>4. ASSUME Answers(s, lo, hi, from, to, v) PROVE Answers(s, mid + 1, hi, from, to, v)
  <2>1. ASSUME NEW k \in lo .. hi, Slot(s, k).time = from, v = k PROVE Answers(s, mid + 1, hi, from, to, v)
    <3>1. k \notin lo .. mid
      BY <1>1, <1>2, <2>1
    <3>2. k \in mid + 1 .. hi
      BY <3>1
    <3> QED BY <2>1, <3>2 DEF Answers
  <2>2. ASSUME NEW k \in lo .. hi + 1, \A j \in lo .. k-1 : Slot(s, j).time < from,
               \A j \in k .. hi : Slot(s, j).time > from, v = SearchEnd(s, k, from, to)
        PROVE  Answers(s, mid + 1, hi, from, to, v)
    <3>1. mid \notin k .. hi
      BY <1>1, <1>2, <2>2
    <3>2. k \in mid + 1 .. hi + 1 /\ \A j \in mid + 1 .. k-1 : j \in lo .. k-1
      BY <3>1
    <3> QED BY <2>2, <3>2 DEF Answers
  <2> QED BY <1>4, <2>1, <2>2 DEF Answers
<1> QED BY <1>3, <1>4

LEMMA SearchGoesDown ==
  ASSUME NEW s, NEW n \in Nat, Increasing(s, n), NEW lo \in 1 .. n, NEW hi \in 1 .. n, lo <= hi,
         NEW mid \in lo .. hi, NEW from \in Int, NEW to, Slot(s, mid).time > from, NEW v
  PROVE  Answers(s, lo, mid - 1, from, to, v) <=> Answers(s, lo, hi, from, to, v)
<1>1. \A j \in mid .. hi : Slot(s, j).time > from
  <2> TAKE j \in mid .. hi
  <2>1. j \in 1 .. n /\ mid \in 1 .. n /\ Slot(s, j).time \in Int /\ Slot(s, mid).time \in Int
    BY DEF Increasing
  <2>2. j = mid \/ Slot(s, mid).time < Slot(s, j).time
    BY <2>1 DEF Increasing
  <2> QED BY <2>1, <2>2
<1>2. \A j \in lo .. hi : Slot(s, j).time \in Int
  BY DEF Increasing
<1>3. ASSUME Answers(s, lo, mid - 1, from, to, v) PROVE Answers(s, lo, hi, from, to, v)
  <2>1. CASE \E k \in lo .. mid - 1 : Slot(s, k).time = from /\ v = k
    BY <2>1 DEF Answers
  <2>2. ASSUME NEW k \in lo .. (mid - 1) + 1, \A j \in lo .. k-1 : Slot(s, j).time < from,
               \A j \in k .. mid - 1 : Slot(s, j).time > from, v = SearchEnd(s, k, from, to)
        PROVE  Answers(s, lo, hi, from, to, v)
    <3>1. k \in lo .. hi + 1 /\ \A j \in k .. hi : j \in k .. mid - 1 \/ j \in mid .. hi
      OBVIOUS
    <3> QED BY <1>1, <2>2, <3>1 DEF Answers
  <2> QED BY <1>3, <2>1, <2>2 DEF Answers
<1>4. ASSUME Answers(s, lo, hi, from, to, v) PROVE Answers(s, lo, mid - 1, from, to, v)
  <2>1. ASSUME NEW k \in lo .. hi, Slot(s, k).time = from, v = k PROVE Answers(s, lo, mid - 1, from, to, v)
    <3>1. k \notin mid .. hi
      BY <1>1, <1>2, <2>1
    <3>2. k \in lo .. mid - 1
      BY <3>1
    <3> QED BY <2>1, <3>2 DEF Answers
  <2>2. ASSUME NEW k \in lo .. hi + 1, \A j \in lo .. k-1 : Slot(s, j).time < from,
               \A j \in k .. hi : Slot(s, j).time > from, v = SearchEnd(s, k, from, to)
        PROVE  Answers(s, lo, mid - 1, from, to, v)
    <3>1. mid \notin lo .. k-1
      BY <1>1, <1>2, <2>2
    <3>2. k \in lo .. (mid - 1) + 1 /\ \A j \in k .. mid - 1 : j \in k .. hi
      BY <3>1
    <3> QED BY <2>2, <3>2 DEF Answers
  <2> QED BY <1>4, <2>1, <2>2 DEF Answers
<1> QED BY <1>3, <1>4

\* Where the middle is what is looked for it is the only answer.
LEMMA SearchHits ==
  ASSUME NEW s, NEW n \in Nat, Increasing(s, n), NEW lo \in 1 .. n, NEW hi \in 1 .. n, lo <= hi,
         NEW mid \in lo .. hi, NEW from \in Int, NEW to, Slot(s, mid).time = from, NEW v
  PROVE  Answers(s, lo, hi, from, to, v) <=> v = mid
<1>1. ASSUME NEW k \in lo .. hi, Slot(s, k).time = from PROVE k = mid
  <2>1. k \in 1 .. n /\ mid \in 1 .. n
    OBVIOUS
  <2>2. (k < mid => Slot(s, k).time < Slot(s, mid).time) /\ (mid < k => Slot(s, mid).time < Slot(s, k).time)
    BY <2>1 DEF Increasing
  <2> QED BY <1>1, <2>1, <2>2
<1>2. ASSUME NEW k \in lo .. hi + 1, \A j \in lo .. k-1 : Slot(s, j).time < from,
             \A j \in k .. hi : Slot(s, j).time > from
      PROVE  FALSE
  <2>1. mid \in lo .. k-1 \/ mid \in k .. hi
    OBVIOUS
  <2> QED BY <1>2, <2>1
<1> QED BY <1>1, <1>2 DEF Answers

\* Without a place between them the answer is the lower end.
LEMMA SearchEnds ==
  ASSUME NEW s, NEW lo \in Int, NEW hi \in Int, hi = lo - 1, NEW from, NEW to, NEW v
  PROVE  Answers(s, lo, hi, from, to, v) <=> v = SearchEnd(s, lo, from, to)
<1>1. lo .. hi = {} /\ lo .. hi + 1 = {lo} /\ lo .. lo - 1 = {}
  OBVIOUS
<1> QED BY <1>1 DEF Answers

----------------------------------------------------------------------------
(* What the queries rest on: the headers tell what is in their sectors *)

HeadsNow == /\ \A s \in Sector : SectorTrue(flash[s], pc \in EndLabels)
            /\ StartTrue
            /\ pc \in EndLabels => EndTrue
            /\ pc \in {"Idle", "Off"} => Settled

LEMMA HeadsAre == HeadsOK <=> (Calm /\ ~ruined => HeadsNow)
BY DEF HeadsOK, HeadsNow

LEMMA HeadsAreNext == HeadsOK' <=> (Calm' /\ ~ruined' => HeadsNow')
BY DEF HeadsOK, HeadsNow

\* Everything that is known as long as nothing failed.
QueryInv == TsIInv /\ TsRInv /\ LogInv /\ HeadsOK
Still == QueryInv /\ Calm /\ ~ruined

LEMMA StillIs ==
  ASSUME Still
  PROVE  /\ TsIInv /\ TimesOK /\ RingOK /\ ReadAgain /\ CallOK /\ CurOK /\ ~failing
         /\ NoneTorn /\ ClosedLate /\ HeadsNow
         /\ flash \in Image /\ RamType /\ RunType /\ MediumType /\ ClientType
BY TypeParts, HeadsAre DEF Still, QueryInv, TsIInv, TsRInv, MemoryAgain, LogInv, CalmOK

LEMMA StillBefore ==
  ASSUME QueryInv, [Next]_vars, Calm', ~ruined'
  PROVE  Still
<1>1. TsIInv /\ ruined \in BOOLEAN
  BY TypeParts DEF QueryInv, TsIInv, ClientType
<1>2. Calm
  BY <1>1, FailuresNext
<1>3. ruined => ruined'
  <2>1. CASE Client
    <3>1. ASSUME NEW strict, Open(strict) PROVE ruined => ruined'
      BY <3>1 DEF Open, Opened
    <3>2. ASSUME NEW len, NEW t, AppendAt(len, t) PROVE ruined' = ruined
      BY <3>2 DEF AppendAt, TslAppend, AppendPanics, AppendNowhere
    <3> QED BY <2>1, <3>1, <3>2 DEF Client, AppendNow, AppendAgain, SetStatus, OpenPanics, SetRollover,
       Clean, Close, client
  <2>2. CASE Step
    BY <2>2 DEF Step, EndPre, EndData, EndWrite, SetFull, SetUsing, SetStart, TslPre, TslIdx,
       TslData, TslWrite, FmtErase, FmtStatus, FmtMagic, CleanEnd, client
  <2> QED BY <2>1, <2>2 DEF Next, PowerLoss, vars, client
<1>4. ~ruined
  BY <1>1, <1>3
<1> QED BY <1>2, <1>4 DEF Still

\* A write in a world without failures.
LEMMA StillWrite ==
  ASSUME Still, Calm', NEW s, NEW image, NEW ok \in BOOLEAN, Program(s, image, ok)
  PROVE  ok /\ flash' = [flash EXCEPT ![s] = image]
<1>1. ok
  BY CalmWrite DEF Still, QueryInv, LogInv
<1> QED BY <1>1, StillIs, Programmed

\* A sector of which only what does not matter changed.
LEMMA TrueKept ==
  ASSUME NEW old \in SectorImage, NEW new \in SectorImage, NEW c, NEW d, SectorTrue(old, c), c => d,
         new.store = old.store, new.start = old.start, new.ends = old.ends,
         old.store = "Full" => old.tsls # <<>>,
         Committed(new) = Committed(old), Len(new.tsls) = Len(old.tsls),
         \A k \in 1 .. Len(old.tsls) : new.tsls[k].time = old.tsls[k].time
  PROVE  SectorTrue(new, d)
<1>1. /\ old.tsls \in Seq(IndexRecord) /\ DOMAIN old.tsls = 1 .. Len(old.tsls) /\ Len(old.tsls) \in Nat
      /\ Committed(old) \subseteq 1 .. Len(old.tsls)
  BY DEF SectorImage, Committed
<1>2. \A j \in Committed(new) : new.tsls[j].time >= 0
  BY <1>1 DEF SectorTrue
<1>3. old.store = "Full" => HeaderTrue(new)
  <2> SUFFICES ASSUME old.store = "Full" PROVE HeaderTrue(new)
    OBVIOUS
  <2>1. Len(old.tsls) \in 1 .. Len(old.tsls) /\ 1 \in 1 .. Len(old.tsls)
    BY <1>1
  <2>2. EndOf(new) = EndOf(old)
    BY DEF EndOf
  <2> QED BY <2>1, <2>2 DEF SectorTrue, HeaderTrue, LastRecord
<1>4. Committed(old) # {} => 1 \in 1 .. Len(old.tsls)
  BY <1>1
<1> QED BY <1>2, <1>3, <1>4 DEF SectorTrue

\* While an append is in execution, the other sectors are not in use.
LEMMA OthersTrue ==
  ASSUME Still, pc \in AppendLabels, NEW s \in Sector, s # cur.sec, flash'[s] = flash[s], NEW d
  PROVE  SectorTrue(flash'[s], d)
<1>1. SectorTrue(flash[s], pc \in EndLabels)
  BY StillIs DEF HeadsNow
<1>2. flash[s].store # "Using"
  BY StillIs DEF TimesOK, OneInUse, Appending
<1> QED BY <1>1, <1>2 DEF SectorTrue

\* A step that writes to the current sector.
LEMMA AppendHeads ==
  ASSUME Still, pc \in AppendLabels, NEW image, flash' = [flash EXCEPT ![cur.sec] = image],
         SectorTrue(image, pc' \in EndLabels), StartTrue', pc' \in EndLabels => EndTrue',
         pc' \in {"Idle", "Off"} => Settled'
  PROVE  HeadsNow'
<1>1. cur.sec \in Sector
  BY StillIs, InSector
<1>2. \A s \in Sector : SectorTrue(flash'[s], pc' \in EndLabels)
  BY <1>1, StillIs, OneSector, OthersTrue
<1> QED BY <1>2 DEF HeadsNow

\* The three writes of the end information.
LEMMA EndHeads ==
  ASSUME Still, Calm', NEW ok \in BOOLEAN, EndPre(ok) \/ EndData(ok) \/ EndWrite(ok)
  PROVE  HeadsNow'
<1>1. pc \in EndLabels /\ pc \in AppendLabels
  BY DEF EndPre, EndData, EndWrite, AppendLabels, EndLabels
<1>2. cur.sec \in Sector /\ flash[cur.sec] \in SectorImage /\ EndTrue
  BY <1>1, StillIs, InSector DEF HeadsNow
<1>3. End \in EndInfo /\ call.slot = 1
  BY <1>2, StillIs, EndType DEF EndTrue
<1>4. PICK end, label :
         /\ Program(cur.sec, WithEnd(end), ok) /\ Then(ok, label) /\ UNCHANGED ram
         /\ label \in EndLabels \ {"EndPre"}
         /\ label \in {"EndWrite", "SetFull"} =>
               end.time = LastRecord(flash[cur.sec]).time /\ end.idx = Len(flash[cur.sec].tsls)
         /\ label = "SetFull" => end.stat = "Write"
  <2>1. CASE EndPre(ok)
    BY <2>1 DEF EndPre, EndLabels
  <2>2. CASE EndData(ok)
    <3>1. PICK end : end = [End EXCEPT !.time = lastTime, !.idx = cur.idx]
      OBVIOUS
    <3>2. end.time = lastTime /\ end.idx = cur.idx
      BY <1>3, <3>1 DEF EndInfo
    <3>3. Program(cur.sec, WithEnd(end), ok) /\ Then(ok, "EndWrite") /\ UNCHANGED ram
      BY <2>2, <3>1 DEF EndData
    <3>4. end.time = LastRecord(flash[cur.sec]).time /\ end.idx = Len(flash[cur.sec].tsls)
      BY <1>2, <3>2 DEF EndTrue
    <3> QED BY <3>3, <3>4 DEF EndLabels
  <2>3. CASE EndWrite(ok)
    <3>1. PICK end : end = [End EXCEPT !.stat = "Write"]
      OBVIOUS
    <3>2. end.time = End.time /\ end.idx = End.idx /\ end.stat = "Write"
      BY <1>3, <3>1 DEF EndInfo
    <3> QED BY <1>2, <2>3, <3>1, <3>2 DEF EndWrite, EndLabels, EndTrue
  <2> QED BY <2>1, <2>2, <2>3
<1>5. PICK image : image = WithEnd(end)
  OBVIOUS
<1>6. ok /\ flash' = [flash EXCEPT ![cur.sec] = image]
  BY <1>4, <1>5, StillWrite
<1>7. pc' = label /\ call' = call /\ cur' = cur /\ lastTime' = lastTime
  BY <1>4, <1>6 DEF Then, Goto, ram
<1>8. flash'[cur.sec] = image
  BY <1>2, <1>6, StillIs, OneSector
<1>9. /\ image.tsls = flash[cur.sec].tsls /\ image.store = flash[cur.sec].store
      /\ image.start = flash[cur.sec].start /\ image.ends[1] = end
  BY <1>2, <1>3, <1>5 DEF WithEnd, SectorImage
<1>10. flash[cur.sec].store = "Using" /\ SectorTrue(flash[cur.sec], TRUE)
  BY <1>1, <1>2, StillIs DEF HeadsNow, SectorTrue, TsIInv, MemoryOK, EndAgrees
<1>11. SectorTrue(image, pc' \in EndLabels)
  BY <1>4, <1>7, <1>9, <1>10 DEF SectorTrue, Committed
<1>12. EndTrue'
  <2>1. End' = end
    BY <1>3, <1>7, <1>8, <1>9 DEF End
  <2>2. LastRecord(image) = LastRecord(flash[cur.sec])
    BY <1>9 DEF LastRecord
  <2> QED BY <1>2, <1>4, <1>7, <1>8, <1>9, <2>1, <2>2 DEF EndTrue
<1>13. StartTrue' /\ pc' \notin {"Idle", "Off"}
  BY <1>4, <1>7 DEF StartTrue, EndLabels, RecordLabels
<1> QED BY <1>1, <1>6, <1>11, <1>12, <1>13, AppendHeads

\* The sector is closed: its header is that of its records.
LEMMA SetFullHeads ==
  ASSUME Still, Calm', NEW ok \in BOOLEAN, SetFull(ok)
  PROVE  HeadsNow'
<1>1. pc = "SetFull" /\ pc \in EndLabels /\ pc \in AppendLabels
  BY DEF SetFull, AppendLabels, EndLabels
<1>2. cur.sec \in Sector /\ flash[cur.sec] \in SectorImage /\ EndTrue /\ cur \in SecInfo
  BY <1>1, StillIs, InSector DEF HeadsNow
<1>3. PICK image : image = [flash[cur.sec] EXCEPT !.store = "Full"]
  OBVIOUS
<1>4. ok /\ flash' = [flash EXCEPT ![cur.sec] = image]
  BY <1>3, StillWrite DEF SetFull
<1>5. /\ image.tsls = flash[cur.sec].tsls /\ image.store = "Full" /\ image.start = flash[cur.sec].start
      /\ image.ends = flash[cur.sec].ends /\ image.ok = flash[cur.sec].ok
  BY <1>2, <1>3 DEF SectorImage
<1>6. flash[cur.sec].store = "Using" /\ SectorTrue(flash[cur.sec], TRUE)
  BY <1>1, <1>2, StillIs DEF HeadsNow, SectorTrue, TsIInv, MemoryOK, EndAgrees
<1>7. Committed(flash[cur.sec]) # {}
  <2>1. flash[cur.sec].tsls # <<>> /\ flash[cur.sec].tsls \in Seq(IndexRecord)
    BY <1>1, <1>2, StillIs DEF ClosedLate, SectorImage
  <2>2. 1 \in DOMAIN flash[cur.sec].tsls
    BY <2>1
  <2> QED BY <1>1, <1>2, <2>2, StillIs DEF NoneTorn, EndLabels, RecordLabels
<1>8. HeaderTrue(image)
  <2>1. EndOf(image) = flash[cur.sec].ends[1] /\ LastRecord(image) = LastRecord(flash[cur.sec])
    BY <1>1, <1>2, <1>5 DEF EndTrue, EndOf, End, LastRecord
  <2> QED BY <1>1, <1>2, <1>5, <1>6, <1>7, <2>1 DEF EndTrue, End, HeaderTrue, SectorTrue
<1>9. SectorTrue(image, pc' \in EndLabels)
  BY <1>5, <1>6, <1>8 DEF SectorTrue, Committed
<1>10. StartTrue' /\ pc' \notin EndLabels
  BY <1>4 DEF SetFull, TakeSector, Goto, Return, StartTrue, EndLabels, RecordLabels
<1>11. ASSUME pc' \in {"Idle", "Off"} PROVE Settled'
  <2>1. cur.sec + 1 = N
    BY <1>4, <1>11 DEF SetFull, TakeSector, Goto
  <2>2. Ring(flash, cur.sec) /\ flash[cur.sec].ok
    BY <1>1, StillIs DEF RingOK, RingAgrees, Still
  <2>3. \A s \in Sector : s = cur.sec \/ s < cur.sec
    BY <1>2, <2>1, Geometry DEF Sector
  <2>4. flash'[cur.sec] = image /\ \A s \in Sector : s # cur.sec => flash'[s] = flash[s]
    BY <1>2, <1>4, StillIs, OneSector
  <2>5. \A s \in Sector : flash'[s].ok /\ flash'[s].store = "Full"
    BY <1>2, <1>5, <2>2, <2>3, <2>4 DEF Ring
  <2> QED BY <2>5 DEF Settled, AllFull
<1> QED BY <1>1, <1>4, <1>9, <1>10, <1>11, AppendHeads

\* A sector is taken into use.
LEMMA SetUsingHeads ==
  ASSUME Still, Calm', NEW ok \in BOOLEAN, SetUsing(ok)
  PROVE  HeadsNow'
<1>1. pc = "SetUsing" /\ pc \in FirstLabels /\ pc \in AppendLabels
  BY DEF SetUsing, AppendLabels, FirstLabels
<1>2. cur.sec \in Sector /\ flash[cur.sec] \in SectorImage /\ SectorOK(flash[cur.sec])
  BY <1>1, StillIs, InSector
<1>3. PICK image : image = [flash[cur.sec] EXCEPT !.store = "Using"]
  OBVIOUS
<1>4. ok /\ flash' = [flash EXCEPT ![cur.sec] = image]
  BY <1>3, StillWrite DEF SetUsing
<1>5. image.tsls = flash[cur.sec].tsls /\ image.store = "Using" /\ image.ends = flash[cur.sec].ends
  BY <1>2, <1>3 DEF SectorImage
<1>6. image.tsls = <<>> /\ image.ends[1] = NoEnd
  <2>1. flash[cur.sec].store = "Empty"
    BY <1>1, StillIs DEF TsIInv, MemoryOK, FirstAgrees, Agrees
  <2> QED BY <1>2, <1>5, <2>1 DEF SectorOK, Fresh
<1>7. SectorTrue(image, pc' \in EndLabels)
  BY <1>5, <1>6 DEF SectorTrue, Committed
<1>8. pc' = "SetStart"
  BY <1>4 DEF SetUsing, Then, Goto
<1> QED BY <1>1, <1>4, <1>7, <1>8, AppendHeads DEF StartTrue, EndLabels, RecordLabels

\* Its start time is that of the record it gets.
LEMMA SetStartHeads ==
  ASSUME Still, Calm', NEW ok \in BOOLEAN, SetStart(ok)
  PROVE  HeadsNow'
<1>1. pc = "SetStart" /\ pc \notin EndLabels /\ pc \in AppendLabels
  BY DEF SetStart, AppendLabels, FirstLabels, EndLabels
<1>2. cur.sec \in Sector /\ flash[cur.sec] \in SectorImage
  BY <1>1, StillIs, InSector
<1>3. PICK image : image = [flash[cur.sec] EXCEPT !.start = call.time]
  OBVIOUS
<1>4. ok /\ flash' = [flash EXCEPT ![cur.sec] = image]
  BY <1>3, StillWrite DEF SetStart
<1>5. /\ image.tsls = flash[cur.sec].tsls /\ image.store = flash[cur.sec].store
      /\ image.ends = flash[cur.sec].ends /\ image.start = call.time
  BY <1>2, <1>3 DEF SectorImage
<1>6. pc' = "TslPre" /\ call' = call /\ cur' = cur
  BY <1>4 DEF SetStart, Then, Goto, ram
<1>7. /\ flash[cur.sec].tsls = <<>> /\ flash[cur.sec].store = "Using"
      /\ SectorTrue(flash[cur.sec], pc \in EndLabels)
  BY <1>1, <1>2, StillIs DEF ReadAgain, HeadsNow, TsIInv, MemoryOK, FirstAgrees, Agrees, FirstLabels
<1>8. SectorTrue(image, pc' \in EndLabels)
  BY <1>1, <1>5, <1>7 DEF SectorTrue, Committed
<1>9. StartTrue'
  <2>1. flash'[cur.sec] = image
    BY <1>2, <1>4, StillIs, OneSector
  <2> QED BY <1>5, <1>6, <2>1 DEF StartTrue
<1> QED BY <1>1, <1>4, <1>6, <1>8, <1>9, AppendHeads DEF EndLabels

\* A record that is not committed yet.
LEMMA TslPreHeads ==
  ASSUME Still, Calm', NEW ok \in BOOLEAN, TslPre(ok)
  PROVE  HeadsNow'
<1>1. pc = "TslPre" /\ pc \notin EndLabels /\ pc \in AppendLabels /\ pc \in FirstLabels
  BY DEF TslPre, AppendLabels, FirstLabels, EndLabels
<1>2. cur.sec \in Sector /\ flash[cur.sec] \in SectorImage
  BY <1>1, StillIs, InSector
<1>3. PICK image : image = [flash[cur.sec] EXCEPT !.tsls = Append(@, Reserved)]
  OBVIOUS
<1>4. ok /\ flash' = [flash EXCEPT ![cur.sec] = image]
  BY <1>3, StillWrite DEF TslPre
<1>5. /\ image.tsls = Append(flash[cur.sec].tsls, Reserved) /\ image.store = flash[cur.sec].store
      /\ image.ends = flash[cur.sec].ends /\ image.start = flash[cur.sec].start
  BY <1>2, <1>3 DEF SectorImage
<1>6. pc' = "TslIdx" /\ call' = call /\ cur' = cur
  BY <1>4 DEF TslPre, Then, Goto, ram
<1>7. flash'[cur.sec] = image
  BY <1>2, <1>4, StillIs, OneSector
<1>8. SameTimes(flash[cur.sec], image)
  BY <1>2, <1>7, StillIs, TslPreTimes DEF Silent
<1>9. SectorTrue(flash[cur.sec], pc \in EndLabels) /\ flash[cur.sec].store = "Using"
  BY <1>1, <1>2, StillIs DEF HeadsNow, TsIInv, MemoryOK, FirstAgrees, Agrees
<1>10. Committed(flash[cur.sec]) # {} => image.tsls[1] = flash[cur.sec].tsls[1]
  <2>1. flash[cur.sec].tsls \in Seq(IndexRecord)
    BY <1>2 DEF SectorImage
  <2>2. Committed(flash[cur.sec]) # {} => 1 \in 1 .. Len(flash[cur.sec].tsls)
    BY <2>1 DEF Committed
  <2> QED BY <1>5, <2>1, <2>2
<1>11. SectorTrue(image, pc' \in EndLabels)
  BY <1>1, <1>5, <1>8, <1>9, <1>10 DEF SectorTrue, SameTimes
<1>12. StartTrue'
  BY <1>1, <1>5, <1>6, <1>7, <1>8, StillIs DEF StartTrue, HeadsNow, SameTimes
<1> QED BY <1>1, <1>4, <1>6, <1>11, <1>12, AppendHeads DEF EndLabels

LEMMA RecordHeads ==
  ASSUME Still, Calm', NEW ok \in BOOLEAN, TslIdx(ok) \/ TslData(ok)
  PROVE  HeadsNow'
<1>1. pc \in RecordLabels /\ pc \notin EndLabels /\ pc \in AppendLabels
  BY DEF TslIdx, TslData, AppendLabels, RecordLabels, EndLabels
<1>2. cur.sec \in Sector /\ flash[cur.sec] \in SectorImage
  BY <1>1, StillIs, InSector
<1>3. PICK r, image : Program(cur.sec, image, ok) /\ image = WithLast(r)
  BY DEF TslIdx, TslData
<1>4. ok /\ flash' = [flash EXCEPT ![cur.sec] = image]
  BY <1>3, StillWrite
<1> DEFINE n == Len(flash[cur.sec].tsls)
<1>5. /\ n \in Nat \ {0} /\ image.tsls = [flash[cur.sec].tsls EXCEPT ![n] = r]
      /\ image.store = flash[cur.sec].store /\ image.ends = flash[cur.sec].ends
      /\ image.start = flash[cur.sec].start
  BY <1>1, <1>3, StillIs, LastWritten
<1>6. pc' \in RecordLabels /\ pc' \notin EndLabels \cup {"Idle", "Off"} /\ call' = call /\ cur' = cur
  BY <1>4 DEF TslIdx, TslData, Then, Goto, ram, RecordLabels, EndLabels
<1>7. flash'[cur.sec] = image
  BY <1>2, <1>4, StillIs, OneSector
<1>8. SameTimes(flash[cur.sec], image)
  BY <1>2, <1>7, StillIs, TslIdxTimes, TslDataTimes DEF Silent
<1>9. SectorTrue(flash[cur.sec], pc \in EndLabels) /\ flash[cur.sec].store = "Using"
  BY <1>1, <1>2, StillIs, AtRecord DEF HeadsNow, RecordAgrees
<1>10. Committed(flash[cur.sec]) # {} => image.tsls[1] = flash[cur.sec].tsls[1]
  <2>1. flash[cur.sec].tsls \in Seq(IndexRecord)
    BY <1>2 DEF SectorImage
  <2>2. n \notin Committed(flash[cur.sec])
    <3>1. Record.status = "PreWrite"
      BY <1>1, StillIs, AtRecord DEF RecordAgrees
    <3> QED BY <3>1 DEF Committed, Torn, Record, LastRecord
  <2>3. Committed(flash[cur.sec]) # {} => 1 \in 1 .. n /\ 1 # n
    <3>1. ASSUME NEW j \in Committed(flash[cur.sec]) PROVE 1 \in 1 .. n /\ 1 # n
      <4>1. j \in 1 .. n /\ j # n
        BY <2>1, <2>2 DEF Committed
      <4> HIDE DEF n
      <4>2. n \in Nat /\ j \in Int /\ j >= 1 /\ j <= n
        BY <1>5, <4>1
      <4> QED BY <4>1, <4>2
    <3> QED BY <3>1
  <2> QED BY <1>5, <2>1, <2>3
<1> HIDE DEF n
<1>11. SectorTrue(image, pc' \in EndLabels)
  BY <1>1, <1>5, <1>8, <1>9, <1>10 DEF SectorTrue, SameTimes
<1>12. StartTrue'
  BY <1>1, <1>5, <1>6, <1>7, <1>8, StillIs DEF StartTrue, HeadsNow, SameTimes
<1> QED BY <1>1, <1>4, <1>6, <1>11, <1>12, AppendHeads

\* The commit: the first record has the time the sector was taken into use with.
LEMMA TslWriteHeads ==
  ASSUME Still, Calm', NEW ok \in BOOLEAN, TslWrite(ok)
  PROVE  HeadsNow'
<1>1. pc \in RecordLabels /\ pc \notin EndLabels /\ pc \in AppendLabels
  BY DEF TslWrite, AppendLabels, RecordLabels, EndLabels
<1>2. cur.sec \in Sector /\ flash[cur.sec] \in SectorImage /\ call.time = clock
  BY <1>1, StillIs, InSector DEF TimesOK, NewTime, Appending
<1>3. PICK r, image : Program(cur.sec, image, ok) /\ image = WithLast(r)
  BY DEF TslWrite
<1>4. ok /\ flash' = [flash EXCEPT ![cur.sec] = image]
  BY <1>3, StillWrite
<1> DEFINE n == Len(flash[cur.sec].tsls)
<1>5. /\ n \in Nat \ {0} /\ image.tsls = [flash[cur.sec].tsls EXCEPT ![n] = r]
      /\ image.store = flash[cur.sec].store /\ image.ends = flash[cur.sec].ends
      /\ image.start = flash[cur.sec].start
  BY <1>1, <1>3, StillIs, LastWritten
<1>6. pc' = "Idle"
  BY <1>4 DEF TslWrite, Return
<1>7. flash'[cur.sec] = image
  BY <1>2, <1>4, StillIs, OneSector
<1>8. /\ flash[cur.sec].store = "Using"
      /\ Committed(image) = Committed(flash[cur.sec]) \cup {n}
      /\ image.tsls[n].time = call.time
      /\ \A j \in Committed(flash[cur.sec]) : /\ j \in 1 .. n-1
                                              /\ image.tsls[j].time = flash[cur.sec].tsls[j].time
  <2>1. TslWrite(TRUE)
    BY <1>4
  <2> QED BY <1>7, <2>1, StillIs, Commits
<1>9. SectorTrue(flash[cur.sec], pc \in EndLabels) /\ StartTrue
  BY <1>2, StillIs DEF HeadsNow
<1>10. call.time >= 0
  BY <1>2, StillIs DEF ClientType
<1>11. image.start = image.tsls[1].time
  <2>1. CASE n = 1
    <3>1. Committed(flash[cur.sec]) = {}
      BY <1>8, <2>1
    <3> QED BY <1>1, <1>5, <1>8, <1>9, <2>1, <3>1 DEF StartTrue
  <2>2. CASE n # 1
    <3>1. 1 \in DOMAIN flash[cur.sec].tsls
      BY <1>2, <1>5 DEF SectorImage
    <3>2. 1 \in Committed(flash[cur.sec])
      BY <1>2, <2>2, <3>1, StillIs DEF NoneTorn
    <3> QED BY <1>5, <1>8, <1>9, <3>2 DEF SectorTrue
  <2> QED BY <2>1, <2>2
<1>12. SectorTrue(image, pc' \in EndLabels)
  BY <1>1, <1>5, <1>8, <1>9, <1>10, <1>11 DEF SectorTrue
<1>13. Settled'
  <2>1. \A s \in Sector : s # cur.sec => flash'[s] = flash[s] /\ flash[s].store # "Using"
    BY <1>1, <1>2, <1>4, StillIs, OneSector DEF TimesOK, OneInUse, Appending
  <2>2. Len(image.tsls) = n /\ image.tsls # <<>>
    <3>1. flash[cur.sec].tsls \in Seq(IndexRecord)
      BY <1>2 DEF SectorImage
    <3> QED BY <1>5, <3>1
  <2> QED BY <1>2, <1>5, <1>7, <1>8, <2>1, <2>2 DEF Settled
<1> QED BY <1>1, <1>4, <1>6, <1>12, <1>13, AppendHeads DEF StartTrue, EndLabels, RecordLabels

\* An append up to its first write: in a sector in use there is a record.
LEMMA BeginHeads ==
  ASSUME Still, NEW len, NEW t, TslAppend(len, t)
  PROVE  HeadsNow'
<1>1. /\ pc = "Idle" /\ flash' = flash /\ cur' = cur /\ lastTime' = lastTime
      /\ pc' \in EndLabels \cup {"TslPre", "SetUsing", "Idle"}
  BY DEF TslAppend, Quiet, ram, Begin, Return, EndLabels
<1>2. /\ HeadsNow /\ Settled /\ RingAgrees /\ NoneTorn /\ flash \in Image /\ ReadAgain
  BY <1>1, StillIs DEF HeadsNow, RingOK, Still
<1>3. \A s \in Sector : SectorTrue(flash'[s], pc' \in EndLabels)
  <2>1. pc \notin EndLabels
    BY <1>1 DEF EndLabels
  <2> QED BY <1>1, <1>2, <2>1 DEF HeadsNow, SectorTrue
<1>4. ASSUME cur.status = "Using"
      PROVE  /\ cur.sec \in Sector /\ flash[cur.sec].store = "Using" /\ flash[cur.sec].ok
             /\ flash[cur.sec].tsls \in Seq(IndexRecord) /\ flash[cur.sec].tsls # <<>>
             /\ \A j \in 1 .. Len(flash[cur.sec].tsls) : j \in Committed(flash[cur.sec])
  <2>1. cur.sec \in Sector /\ flash[cur.sec].store = "Using" /\ flash[cur.sec].ok
    BY <1>1, <1>2, <1>4 DEF RingAgrees
  <2>2. flash[cur.sec].tsls \in Seq(IndexRecord) /\ flash[cur.sec].tsls # <<>>
    BY <1>2, <2>1, ImageFields DEF Settled
  <2>3. pc \notin RecordLabels
    BY <1>1 DEF RecordLabels
  <2> QED BY <1>2, <2>1, <2>2, <2>3 DEF NoneTorn
<1>5. StartTrue'
  <2> SUFFICES ASSUME pc' \in {"TslPre"} \cup RecordLabels PROVE Committed(flash[cur.sec]) # {}
    BY <1>1 DEF StartTrue
  <2>1. cur.status = "Using"
    BY DEF TslAppend, Begin, Return, RecordLabels
  <2>2. 1 \in 1 .. Len(flash[cur.sec].tsls)
    BY <1>4, <2>1
  <2> QED BY <1>4, <2>1, <2>2
<1>6. ASSUME pc' \in EndLabels PROVE EndTrue'
  <2>1. cur.status = "Using" /\ cur.ok
    BY <1>6 DEF TslAppend, Begin, Return, EndLabels
  <2>2. cur = read_sector_info(flash, cur.sec) /\ lastTime = FindLastTime(flash, cur, oldest)
    BY <1>1, <1>2, <2>1 DEF ReadAgain
  <2>3. /\ cur.stat[1] = "Unused" /\ cur.idx = Len(flash[cur.sec].tsls)
        /\ cur.endTime = EndTimeOf(flash[cur.sec])
    <3>1. SectorTrue(flash[cur.sec], pc \in EndLabels) /\ pc \notin EndLabels
      BY <1>1, <1>2, <1>4, <2>1 DEF HeadsNow, EndLabels
    <3>2. flash[cur.sec].ends[1].stat = "Unused"
      BY <1>4, <2>1, <3>1 DEF SectorTrue, NoEnd
    <3>3. cur.endTime = EndTimeOf(flash[cur.sec])
      BY <1>2, <1>4, <2>1, <2>2, InfoOfRecords
    <3> QED BY <1>2, <1>4, <2>1, <2>2, <3>2, <3>3, InfoOfUsing
  <2>4. 1 \in EndSlots /\ EndSlots \subseteq Nat
    BY <2>3 DEF EndSlots
  <2>5. Least(EndSlots) = 1
    <3>1. Least(EndSlots) \in EndSlots /\ \A y \in EndSlots : Least(EndSlots) <= y
      BY <2>4, LeastExists
    <3>2. Least(EndSlots) \in 1 .. 2
      BY <3>1 DEF EndSlots
    <3> QED BY <2>4, <3>1, <3>2
  <2>6. pc' = "EndPre" /\ call'.slot = 1
    <3>1. Begin(len, t, "EndPre", Least(EndSlots))
      BY <1>6, <2>1, <2>4 DEF TslAppend, Begin, Return, EndLabels
    <3>2. call'.slot = Least(EndSlots)
      BY <3>1 DEF Begin, NoCall
    <3> QED BY <2>5, <3>1, <3>2 DEF Begin
  <2>7. lastTime = LastRecord(flash[cur.sec]).time
    <3> DEFINE n == Len(flash[cur.sec].tsls)
    <3>1. n \in Nat /\ n \in Committed(flash[cur.sec]) /\ Committed(flash[cur.sec]) \subseteq 0 .. n
      BY <1>4, <2>1 DEF Committed
    <3> HIDE DEF n
    <3>2. /\ Greatest(Committed(flash[cur.sec])) \in Committed(flash[cur.sec])
          /\ \A y \in Committed(flash[cur.sec]) : y <= Greatest(Committed(flash[cur.sec]))
      BY <3>1, GreatestExists
    <3>3. Greatest(Committed(flash[cur.sec])) = n
      BY <3>1, <3>2
    <3> QED BY <2>1, <2>2, <2>3, <3>1, <3>3 DEF FindLastTime, EndTimeOf, LastRecord, n
  <2> QED BY <1>1, <2>3, <2>6, <2>7 DEF EndTrue
<1>7. pc' \in {"Idle", "Off"} => Settled'
  BY <1>1, <1>2 DEF Settled, AllFull
<1> QED BY <1>3, <1>5, <1>6, <1>7 DEF HeadsNow

\* A state that is given to a record leaves its time.
LEMMA MarkHeads ==
  ASSUME Still, Calm', NEW s \in Sector, NEW st \in Marks, NEW ok \in BOOLEAN,
         NEW j \in Committed(flash[s]), SetStatus(s, j, st, ok)
  PROVE  HeadsNow'
<1>1. PICK r, image : /\ r = [flash[s].tsls[j] EXCEPT !.status = st]
                      /\ image = PutRecord(flash[s], j, r)
  OBVIOUS
<1>2. Program(s, image, ok) /\ pc = "Idle" /\ pc' = "Idle" /\ cur' = cur
  BY <1>1 DEF SetStatus, Return, ram, PutRecord
<1>3. ok /\ flash' = [flash EXCEPT ![s] = image]
  BY <1>2, StillWrite
<1>4. flash'[s] = image /\ \A q \in Sector : q # s => flash'[q] = flash[q]
  BY <1>3, StillIs, OneSector
<1>5. /\ SameTimes(flash[s], image) /\ image.store = flash[s].store /\ image.ok = flash[s].ok
      /\ image.ends = flash[s].ends /\ image.start = flash[s].start
      /\ Len(image.tsls) = Len(flash[s].tsls)
      /\ \A k \in 1 .. Len(image.tsls) : image.tsls[k].time = flash[s].tsls[k].time
  BY <1>1, StillIs, MarkTimes
<1>6. flash[s] \in SectorImage /\ image \in SectorImage
  <2>1. flash' \in Image
    <3>1. Client
      BY DEF Client
    <3> QED BY <3>1, StillIs, NextStep, TypePartsNext DEF Next, TsIInv
  <2> QED BY <1>4, <2>1, StillIs DEF Image
<1>7. HeadsNow /\ NoneTorn
  BY StillIs
<1>8. \A q \in Sector : SectorTrue(flash'[q], pc' \in EndLabels)
  <2>1. SectorTrue(flash[s], pc \in EndLabels) /\ (flash[s].store = "Full" => flash[s].tsls # <<>>)
    BY <1>7 DEF HeadsNow, NoneTorn
  <2>2. SectorTrue(image, pc' \in EndLabels)
    BY <1>2, <1>5, <1>6, <2>1, TrueKept DEF SameTimes
  <2> QED BY <1>2, <1>4, <1>7, <2>2 DEF HeadsNow
<1>9. Settled'
  <2>1. \A q \in Sector : /\ flash'[q].store = flash[q].store /\ flash'[q].ok = flash[q].ok
                          /\ flash[q].tsls # <<>> => flash'[q].tsls # <<>>
    <3>1. flash[s].tsls # <<>> => image.tsls # <<>>
      BY <1>5, <1>6 DEF SectorImage
    <3> QED BY <1>4, <1>5, <3>1
  <2> QED BY <1>2, <1>7, <2>1 DEF Settled, HeadsNow, AllFull
<1> QED BY <1>2, <1>8, <1>9 DEF HeadsNow, StartTrue, EndLabels, RecordLabels

\* format_sector.
LEMMA FormatHeads ==
  ASSUME Still, Calm', NEW ok \in BOOLEAN, FmtErase(ok) \/ FmtStatus(ok) \/ FmtMagic(ok)
  PROVE  HeadsNow'
<1>1. pc \notin EndLabels
  BY DEF FmtErase, FmtStatus, FmtMagic, EndLabels
<1>2. call.sec \in Sector
  BY StillIs DEF RunType, Call
<1>3. flash[call.sec] \in SectorImage
  BY <1>2, StillIs DEF Image
<1>4. PICK image :
         /\ Program(call.sec, image, ok)
         /\ \/ image = Erased \/ image = [flash[call.sec] EXCEPT !.store = "Empty"]
            \/ image = [flash[call.sec] EXCEPT !.ok = TRUE]
  BY DEF FmtErase, FmtStatus, FmtMagic
<1>5. ok /\ flash' = [flash EXCEPT ![call.sec] = image]
  BY <1>4, StillWrite
<1>6. pc' \in {"FmtStatus", "FmtMagic", "SetUsing", "FmtErase", "CleanEnd"}
  BY <1>5 DEF FmtErase, FmtStatus, FmtMagic, FmtReturn, Goto
<1>7. SectorTrue(flash[call.sec], pc \in EndLabels)
  BY <1>2, StillIs DEF HeadsNow
<1>8. SectorTrue(image, FALSE)
  <2>1. CASE image = Erased
    BY <2>1 DEF SectorTrue, Erased, Committed
  <2>2. CASE image = [flash[call.sec] EXCEPT !.store = "Empty"]
    <3>1. image.tsls = flash[call.sec].tsls /\ image.store = "Empty"
      BY <1>3, <2>2 DEF SectorImage
    <3> QED BY <1>7, <3>1 DEF SectorTrue, Committed
  <2>3. CASE image = [flash[call.sec] EXCEPT !.ok = TRUE]
    <3>1. /\ image.tsls = flash[call.sec].tsls /\ image.store = flash[call.sec].store
          /\ image.start = flash[call.sec].start /\ image.ends = flash[call.sec].ends
      BY <1>3, <2>3 DEF SectorImage
    <3> QED BY <1>1, <1>7, <3>1 DEF SectorTrue, Committed, HeaderTrue, EndOf, LastRecord
  <2> QED BY <1>4, <2>1, <2>2, <2>3
<1>9. flash'[call.sec] = image /\ \A q \in Sector : q # call.sec => flash'[q] = flash[q]
  BY <1>2, <1>5, StillIs, OneSector
<1>10. \A s \in Sector : SectorTrue(flash'[s], pc' \in EndLabels)
  BY <1>1, <1>8, <1>9, StillIs DEF HeadsNow, SectorTrue
<1> QED BY <1>6, <1>10 DEF HeadsNow, StartTrue, EndLabels, RecordLabels

\* What writes nothing.
LEMMA QuietHeads ==
  ASSUME Still, flash' = flash, pc \notin EndLabels,
         pc' \notin EndLabels \cup RecordLabels \cup {"TslPre"},
         pc' \in {"Idle", "Off"} => pc \in {"Idle", "Off"} \/ \A s \in Sector : flash[s].store = "Empty"
  PROVE  HeadsNow'
<1>1. HeadsNow
  BY StillIs
<1>2. \A s \in Sector : SectorTrue(flash'[s], pc' \in EndLabels)
  BY <1>1 DEF HeadsNow, SectorTrue
<1>3. pc' \in {"Idle", "Off"} => Settled'
  <2>1. CASE pc \in {"Idle", "Off"}
    BY <1>1, <2>1 DEF HeadsNow, Settled, AllFull
  <2>2. CASE \A s \in Sector : flash[s].store = "Empty"
    BY <2>2 DEF Settled
  <2> QED BY <2>1, <2>2
<1> QED BY <1>2, <1>3 DEF HeadsNow, StartTrue

LEMMA HeadsNext ==
  ASSUME QueryInv, [Next]_vars
  PROVE  HeadsOK'
<1> SUFFICES ASSUME Calm', ~ruined' PROVE HeadsNow'
  BY HeadsAreNext
<1>1. Still
  BY StillBefore
<1>2. pc = "Idle" => cur.ok
  BY <1>1, StillIs DEF RingOK, RingAgrees, Still
<1>3. CASE Client
  <2>1. ASSUME NEW len, NEW t, AppendAt(len, t) PROVE HeadsNow'
    <3>1. TslAppend(len, t)
      BY <1>2, <2>1 DEF AppendAt, AppendPanics, AppendNowhere
    <3> QED BY <1>1, <3>1, BeginHeads
  <2>2. ASSUME NEW s \in Sector, NEW st \in Marks, NEW ok \in BOOLEAN, NEW j \in Committed(flash[s]),
               SetStatus(s, j, st, ok)
        PROVE  HeadsNow'
    BY <1>1, <2>2, MarkHeads
  <2>3. ASSUME NEW strict, Open(strict) PROVE HeadsNow'
    <3>1. flash' = flash /\ pc = "Off" /\ pc' \in {"Off", "Idle", "FmtErase"}
      BY <2>3 DEF Open, Quiet, Return, CleanCall
    <3> QED BY <1>1, <3>1, QuietHeads DEF EndLabels, RecordLabels
  <2>4. CASE OpenPanics \/ SetRollover \/ Clean \/ Close
    <3>1. flash' = flash /\ pc \in {"Off", "Idle"} /\ pc' \in {"Off", "Idle", "FmtErase"}
      BY <2>4 DEF OpenPanics, SetRollover, Clean, Close, Quiet, Return, CleanCall, Reset
    <3> QED BY <1>1, <3>1, QuietHeads DEF EndLabels, RecordLabels
  <2> QED BY <1>3, <2>1, <2>2, <2>3, <2>4 DEF Client, AppendNow, AppendAgain
<1>4. CASE Step
  <2>1. CASE CleanEnd
    <3>1. flash' = flash /\ pc = "CleanEnd" /\ pc' = "Idle"
      BY <2>1 DEF CleanEnd, Quiet, Return
    <3>2. \A s \in Sector : flash[s].store = "Empty"
      BY <1>1, <3>1, StillIs DEF TsIInv, MemoryOK, CallAgrees, FormatAgrees
    <3> QED BY <1>1, <3>1, <3>2, QuietHeads DEF EndLabels, RecordLabels
  <2> QED BY <1>1, <1>4, <2>1, EndHeads, SetFullHeads, SetUsingHeads, SetStartHeads, TslPreHeads,
             RecordHeads, TslWriteHeads, FormatHeads DEF Step
<1>5. CASE PowerLoss
  <2>1. failures' = failures - 1 /\ failures \in 0 .. MaxFailures
    BY <1>1, <1>5, StillIs DEF PowerLoss, MediumType
  <2> QED BY <1>1, <2>1, TsBoundsAssumption DEF Still, Calm
<1>6. CASE UNCHANGED vars
  <2>1. HeadsNow
    BY <1>1, StillIs
  <2> QED BY <1>6, <2>1 DEF vars, HeadsNow, StartTrue, EndTrue, Settled, AllFull, End
<1> QED BY <1>3, <1>4, <1>5, <1>6 DEF Next

LEMMA HeadsInit == Init => HeadsOK
<1> SUFFICES ASSUME Init PROVE HeadsNow
  BY HeadsAre
<1>1. pc = "Off" /\ \A s \in Sector : flash[s] = Erased
  BY DEF Init, Closed
<1>2. \A s \in Sector : SectorTrue(flash[s], FALSE)
  BY <1>1 DEF SectorTrue, Erased, Committed
<1>3. Settled
  BY <1>1 DEF Settled, Erased
<1> QED BY <1>1, <1>2, <1>3 DEF HeadsNow, StartTrue, EndLabels, RecordLabels, SectorTrue

\* Until the first failure the header of a closed sector tells the first and the last of its
\* records, that of the sector in use its first one, and what is in memory the last one
\* (write_sector_status, update_sec_status): no query is misled about a sector.
THEOREM HeadersTrue == Spec => []HeadsOK
<1>1. HeadsOK /\ TsIInv /\ TsRInv /\ LogInv /\ [Next]_vars => HeadsOK'
  BY HeadsNext DEF QueryInv
<1> QED BY HeadsInit, <1>1, TsInductive, RingAlways, LogInvariant, PTL DEF Spec

----------------------------------------------------------------------------
(* What the binary search returns *)

AnswerOf(s, i, from, to) == CHOOSE v : Answers(s, i[1], i[2], from, to, v)

\* There is one answer.
LEMMA AnswerIs ==
  ASSUME NEW s, NEW n \in Nat, Increasing(s, n), NEW lo \in 1 .. n, NEW hi \in 1 .. n, lo <= hi,
         NEW from \in Int, NEW to
  PROVE  \A u : Answers(s, lo, hi, from, to, u) <=> u = AnswerOf(s, <<lo, hi>>, from, to)
<1>1. \A j \in lo .. hi : j \in 1 .. n /\ Slot(s, j).time \in Int
  BY DEF Increasing
<1>2. \A j, k \in lo .. hi : j < k => Slot(s, j).time < Slot(s, k).time
  BY DEF Increasing
<1> DEFINE T == {j \in lo .. hi : Slot(s, j).time >= from}
<1>3. PICK k \in lo .. hi + 1 : /\ \A j \in lo .. k-1 : Slot(s, j).time < from
                                /\ \A j \in k .. hi : Slot(s, j).time >= from
  <2>1. CASE T = {}
    <3>1. hi + 1 \in lo .. hi + 1 /\ (hi + 1) - 1 = hi /\ hi + 1 .. hi = {}
      OBVIOUS
    <3>2. \A j \in lo .. hi : Slot(s, j).time < from
      BY <1>1, <2>1
    <3> QED BY <3>1, <3>2
  <2>2. CASE T # {}
    <3>1. T \subseteq Nat
      OBVIOUS
    <3>2. Least(T) \in T /\ \A y \in T : Least(T) <= y
      <4> HIDE DEF T
      <4> QED BY <2>2, <3>1, LeastExists
    <3>3. PICK k : k = Least(T)
      OBVIOUS
    <3>4. k \in lo .. hi /\ Slot(s, k).time >= from
      BY <3>2, <3>3
    <3>5. \A j \in lo .. k-1 : Slot(s, j).time < from
      <4> TAKE j \in lo .. k-1
      <4>1. j \in lo .. hi /\ j \notin T
        <5>1. j \in lo .. hi /\ j < k /\ j \in Int /\ k \in Int
          BY <3>4
        <5> HIDE DEF T
        <5> QED BY <3>2, <3>3, <5>1
      <4> QED BY <1>1, <4>1
    <3>6. \A j \in k .. hi : Slot(s, j).time >= from
      <4> TAKE j \in k .. hi
      <4>1. j \in lo .. hi /\ (j = k \/ k < j)
        BY <3>4
      <4> QED BY <1>1, <1>2, <3>4, <4>1
    <3> QED BY <3>4, <3>5, <3>6
  <2> QED BY <2>1, <2>2
<1>4. ASSUME NEW m \in lo .. hi, Slot(s, m).time = from PROVE m = k
  <2>1. m \notin lo .. k-1
    BY <1>3, <1>4
  <2>2. k \in lo .. hi /\ Slot(s, k).time >= from /\ k <= m
    BY <1>3, <2>1
  <2> QED BY <1>1, <1>2, <1>4, <2>2
<1>5. ASSUME NEW m \in lo .. hi + 1, \A j \in lo .. m-1 : Slot(s, j).time < from,
             \A j \in m .. hi : Slot(s, j).time > from
      PROVE  m = k
  <2>1. CASE m < k
    <3>1. m \in lo .. k-1 /\ m \in m .. hi /\ m \in lo .. hi
      BY <2>1
    <3> QED BY <1>1, <1>3, <1>5, <3>1
  <2>2. CASE k < m
    <3>1. k \in lo .. m-1 /\ k \in k .. hi /\ k \in lo .. hi
      BY <2>2
    <3> QED BY <1>1, <1>3, <1>5, <3>1
  <2> QED BY <2>1, <2>2
<1>6. ASSUME k \in lo .. hi /\ Slot(s, k).time = from
      PROVE  \E v : \A u : Answers(s, lo, hi, from, to, u) <=> u = v
  <2>1. ASSUME NEW m \in lo .. hi + 1, \A j \in lo .. m-1 : Slot(s, j).time < from,
               \A j \in m .. hi : Slot(s, j).time > from
        PROVE  FALSE
    <3>1. m = k /\ k \in m .. hi
      BY <1>5, <1>6, <2>1
    <3> QED BY <1>6, <2>1, <3>1
  <2>2. \A u : Answers(s, lo, hi, from, to, u) <=> u = k
    BY <1>4, <1>6, <2>1 DEF Answers
  <2> QED BY <2>2
<1>7. ASSUME ~ (k \in lo .. hi /\ Slot(s, k).time = from)
      PROVE  \E v : \A u : Answers(s, lo, hi, from, to, u) <=> u = v
  <2>1. \A j \in k .. hi : Slot(s, j).time > from
    <3> TAKE j \in k .. hi
    <3>1. j \in lo .. hi /\ k \in lo .. hi
      OBVIOUS
    <3>2. Slot(s, k).time >= from /\ (j = k \/ Slot(s, k).time < Slot(s, j).time)
      BY <1>2, <1>3, <3>1
    <3> QED BY <1>1, <1>7, <3>1, <3>2
  <2>2. \A m \in lo .. hi : Slot(s, m).time # from
    BY <1>4, <1>7
  <2>3. \A u : Answers(s, lo, hi, from, to, u) <=> u = SearchEnd(s, k, from, to)
    BY <1>3, <1>5, <2>1, <2>2 DEF Answers
  <2> QED BY <2>3
<1>8. PICK v : \A u : Answers(s, lo, hi, from, to, u) <=> u = v
  BY <1>6, <1>7
<1>9. AnswerOf(s, <<lo, hi>>, from, to) = CHOOSE w : Answers(s, lo, hi, from, to, w)
  BY DEF AnswerOf
<1>10. Answers(s, lo, hi, from, to, AnswerOf(s, <<lo, hi>>, from, to))
  BY <1>8, <1>9
<1> QED BY <1>8, <1>10

\* What is left of the places.
LEMMA NarrowedIs ==
  ASSUME NEW s, NEW lo \in Nat, NEW hi \in Nat, NEW from \in Int, NEW mid, mid = Middle(<<lo, hi>>),
         NEW t \in Int, t = Slot(s, mid).time, NEW rest, rest = Narrowed(s, <<lo, hi>>, from)
  PROVE  /\ lo <= hi => mid \in lo .. hi
         /\ lo > hi => mid = lo /\ (t # from => rest[1] > rest[2])
         /\ t < from => rest = <<mid + 1, hi>>
         /\ t > from => rest = <<lo, mid - 1>>
<1>1. lo <= hi => mid \in lo .. hi
  BY MiddleIn
<1>2. lo > hi => mid = lo
  BY DEF Middle, HalfUp
<1>3. rest = <<IF t < from THEN mid + 1 ELSE lo, IF t > from THEN mid - 1 ELSE hi>>
  BY DEF Narrowed
<1>4. t < from => rest = <<mid + 1, hi>>
  BY <1>3
<1>5. t > from => rest = <<lo, mid - 1>>
  BY <1>3
<1>6. lo > hi /\ t # from => rest[1] > rest[2]
  BY <1>2, <1>4, <1>5
<1> QED BY <1>1, <1>2, <1>4, <1>5, <1>6

SearchDomain(n) == (1 .. n + 2) \X (0 .. n)
SearchBody(s, i, from, to, f) ==
    IF Slot(s, Middle(i)).time = from THEN Middle(i)
    ELSE IF Narrowed(s, i, from)[1] > Narrowed(s, i, from)[2]
         THEN SearchEnd(s, Narrowed(s, i, from)[1], from, to)
    ELSE f[Narrowed(s, i, from)]

LEMMA SearchDefined ==
  ASSUME NEW s, NEW n \in Nat, Increasing(s, n), NEW from \in Int, NEW to
  PROVE  \E f : f = [i \in SearchDomain(n) |-> SearchBody(s, i, from, to, f)]
<1> DEFINE f == [i \in SearchDomain(n) |->
                   IF i[1] <= i[2] THEN AnswerOf(s, i, from, to)
                   ELSE IF Slot(s, Middle(i)).time = from THEN Middle(i)
                   ELSE SearchEnd(s, Narrowed(s, i, from)[1], from, to)]
<1>1. ASSUME NEW i \in SearchDomain(n) PROVE f[i] = SearchBody(s, i, from, to, f)
  <2>1. PICK lo \in 1 .. n + 2, hi \in 0 .. n : i = <<lo, hi>>
    BY DEF SearchDomain
  <2>2. PICK mid, t, rest : mid = Middle(i) /\ t = Slot(s, mid).time /\ rest = Narrowed(s, i, from)
    OBVIOUS
  <2>3. f[i] = IF lo <= hi THEN AnswerOf(s, i, from, to)
               ELSE IF t = from THEN mid ELSE SearchEnd(s, rest[1], from, to)
    BY <2>1, <2>2
  <2>4. SearchBody(s, i, from, to, f) = IF t = from THEN mid
          ELSE IF rest[1] > rest[2] THEN SearchEnd(s, rest[1], from, to) ELSE f[rest]
    BY <2>2 DEF SearchBody
  <2>5. CASE lo > hi
    <3>1. mid = lo
      BY <2>1, <2>2, <2>5 DEF Middle, HalfUp
    <3>2. t \in Int
      BY <2>2, <3>1 DEF Increasing
    <3>3. t # from => rest[1] > rest[2]
      BY <2>1, <2>2, <2>5, <3>2, NarrowedIs
    <3> QED BY <2>3, <2>4, <2>5, <3>3
  <2>6. CASE lo <= hi
    <3>1. lo \in 1 .. n /\ hi \in 1 .. n /\ mid \in lo .. hi
      BY <2>1, <2>2, <2>6, MiddleIn
    <3>2. t \in Int
      BY <2>2, <3>1 DEF Increasing
    <3>3. \A u : Answers(s, lo, hi, from, to, u) <=> u = AnswerOf(s, i, from, to)
      BY <2>1, <2>6, <3>1, AnswerIs
    <3> HIDE DEF f
    <3>4. CASE t = from
      <4>1. \A u : Answers(s, lo, hi, from, to, u) <=> u = mid
        <5>1. Slot(s, mid).time = from
          BY <2>2, <3>4
        <5> TAKE u
        <5> QED BY <2>6, <3>1, <5>1, SearchHits
      <4>2. AnswerOf(s, i, from, to) = mid
        BY <3>3, <4>1
      <4> QED BY <2>3, <2>4, <2>6, <3>4, <4>2
    <3>5. CASE t < from
      <4>1. rest = <<mid + 1, hi>>
        BY <2>1, <2>2, <3>2, <3>5, NarrowedIs
      <4>2. \A u : Answers(s, mid + 1, hi, from, to, u) <=> u = AnswerOf(s, i, from, to)
        BY <2>2, <2>6, <3>1, <3>3, <3>5, SearchGoesUp
      <4>3. CASE mid = hi
        <5>1. \A u : Answers(s, mid + 1, hi, from, to, u) <=> u = SearchEnd(s, mid + 1, from, to)
          BY <3>1, <4>3, SearchEnds
        <5> QED BY <2>3, <2>4, <2>6, <3>1, <3>5, <4>1, <4>2, <4>3, <5>1
      <4>4. CASE mid # hi
        <5>1. mid + 1 \in 1 .. n /\ mid + 1 <= hi /\ rest \in SearchDomain(n) /\ rest[1] <= rest[2]
          BY <3>1, <4>1, <4>4 DEF SearchDomain
        <5>2. f[rest] = AnswerOf(s, rest, from, to)
          BY <5>1 DEF f
        <5>3. \A u : Answers(s, mid + 1, hi, from, to, u) <=> u = AnswerOf(s, rest, from, to)
          BY <3>1, <4>1, <5>1, AnswerIs
        <5> QED BY <2>3, <2>4, <2>6, <3>5, <4>1, <4>2, <5>1, <5>2, <5>3
      <4> QED BY <4>3, <4>4
    <3>6. CASE t > from
      <4>1. rest = <<lo, mid - 1>>
        BY <2>1, <2>2, <3>2, <3>6, NarrowedIs
      <4>2. \A u : Answers(s, lo, mid - 1, from, to, u) <=> u = AnswerOf(s, i, from, to)
        BY <2>2, <2>6, <3>1, <3>3, <3>6, SearchGoesDown
      <4>3. CASE mid = lo
        <5>1. \A u : Answers(s, lo, mid - 1, from, to, u) <=> u = SearchEnd(s, lo, from, to)
          BY <3>1, <4>3, SearchEnds
        <5> QED BY <2>3, <2>4, <2>6, <3>1, <3>6, <4>1, <4>2, <4>3, <5>1
      <4>4. CASE mid # lo
        <5>1. mid - 1 \in 1 .. n /\ lo <= mid - 1 /\ rest \in SearchDomain(n) /\ rest[1] <= rest[2]
          BY <3>1, <4>1, <4>4 DEF SearchDomain
        <5>2. f[rest] = AnswerOf(s, rest, from, to)
          BY <5>1 DEF f
        <5>3. \A u : Answers(s, lo, mid - 1, from, to, u) <=> u = AnswerOf(s, rest, from, to)
          BY <3>1, <4>1, <5>1, AnswerIs
        <5> QED BY <2>3, <2>4, <2>6, <3>6, <4>1, <4>2, <5>1, <5>2, <5>3
      <4> QED BY <4>3, <4>4
    <3> QED BY <3>2, <3>4, <3>5, <3>6
  <2> QED BY <2>5, <2>6
<1>2. f = [i \in SearchDomain(n) |-> SearchBody(s, i, from, to, f)]
  <2>1. f = [i \in SearchDomain(n) |-> f[i]]
    OBVIOUS
  <2> HIDE DEF f
  <2> QED BY <1>1, <2>1
<1> HIDE DEF f
<1> QED BY <1>2

LEMMA SearchIs ==
  ASSUME NEW s, NEW n \in Nat, n >= 1, Increasing(s, n), NEW from \in Int, NEW to
  PROVE  Answers(s, 1, n, from, to, search_start_tsl_addr(s, n, from, to))
<1> DEFINE f == CHOOSE g : g = [i \in SearchDomain(n) |-> SearchBody(s, i, from, to, g)]
<1>1. f = [i \in SearchDomain(n) |-> SearchBody(s, i, from, to, f)]
  BY SearchDefined
<1>2. search_start_tsl_addr(s, n, from, to) = f[<<1, n>>]
  BY DEF search_start_tsl_addr, SearchDomain, SearchBody
<1> HIDE DEF f
<1>3. \A i \in SearchDomain(n) : f[i] = SearchBody(s, i, from, to, f)
  BY <1>1
<1> DEFINE T == {d \in Nat : \E lo, hi \in 1 .. n : lo <= hi /\ hi - lo = d /\ ~Answers(s, lo, hi, from, to, f[<<lo, hi>>])}
<1>4. T = {}
  <2> SUFFICES ASSUME T # {} PROVE FALSE
    OBVIOUS
  <2>1. T \subseteq Nat
    OBVIOUS
  <2>2. Least(T) \in T /\ \A y \in T : Least(T) <= y
    <3> HIDE DEF T
    <3> QED BY <2>1, LeastExists
  <2>3. PICK d : d = Least(T)
    OBVIOUS
  <2>4. PICK lo \in 1 .. n, hi \in 1 .. n :
           lo <= hi /\ hi - lo = d /\ ~Answers(s, lo, hi, from, to, f[<<lo, hi>>])
    BY <2>2, <2>3
  <2>5. ASSUME NEW a \in 1 .. n, NEW b \in 1 .. n, a <= b, b - a < d
        PROVE  Answers(s, a, b, from, to, f[<<a, b>>])
    <3>1. b - a \in Nat /\ b - a \notin T
      <4>1. b - a \in Nat /\ d \in Nat
        BY <2>4, <2>5
      <4> HIDE DEF T
      <4> QED BY <2>2, <2>3, <2>5, <4>1
    <3> QED BY <2>5, <3>1
  <2> HIDE DEF T
  <2>6. PICK mid, t, rest : /\ mid = Middle(<<lo, hi>>) /\ t = Slot(s, mid).time
                            /\ rest = Narrowed(s, <<lo, hi>>, from)
    OBVIOUS
  <2>7. mid \in lo .. hi /\ mid \in 1 .. n
    <3>1. lo \in Int /\ hi \in Int /\ lo <= hi
      BY <2>4
    <3>2. mid \in lo .. hi
      BY <2>6, <3>1, MiddleIn
    <3> QED BY <2>4, <3>2
  <2>8. t \in Int
    BY <2>6, <2>7 DEF Increasing
  <2>9. f[<<lo, hi>>] = IF t = from THEN mid
          ELSE IF rest[1] > rest[2] THEN SearchEnd(s, rest[1], from, to) ELSE f[rest]
    <3>1. <<lo, hi>> \in SearchDomain(n)
      BY <2>4 DEF SearchDomain
    <3> QED BY <1>3, <2>6, <3>1 DEF SearchBody
  <2>10. CASE t = from
    BY <2>4, <2>6, <2>7, <2>9, <2>10, SearchHits
  <2>11. CASE t < from
    <3>1. rest = <<mid + 1, hi>>
      BY <2>4, <2>6, <2>8, <2>11, NarrowedIs
    <3>2. \A v : Answers(s, mid + 1, hi, from, to, v) => Answers(s, lo, hi, from, to, v)
      BY <2>4, <2>6, <2>7, <2>11, SearchGoesUp
    <3>3. CASE mid = hi
      <4>1. Answers(s, mid + 1, hi, from, to, SearchEnd(s, mid + 1, from, to))
        BY <2>7, <3>3, SearchEnds
      <4> QED BY <2>4, <2>7, <2>8, <2>9, <2>11, <3>1, <3>2, <3>3, <4>1
    <3>4. CASE mid # hi
      <4>1. mid + 1 \in 1 .. n /\ mid + 1 <= hi /\ hi - (mid + 1) < d
        BY <2>4, <2>7, <3>4
      <4>2. Answers(s, mid + 1, hi, from, to, f[rest])
        BY <2>5, <3>1, <4>1
      <4> QED BY <2>4, <2>8, <2>9, <2>11, <3>1, <3>2, <4>1, <4>2
    <3> QED BY <3>3, <3>4
  <2>12. CASE t > from
    <3>1. rest = <<lo, mid - 1>>
      BY <2>4, <2>6, <2>8, <2>12, NarrowedIs
    <3>2. \A v : Answers(s, lo, mid - 1, from, to, v) => Answers(s, lo, hi, from, to, v)
      BY <2>4, <2>6, <2>7, <2>12, SearchGoesDown
    <3>3. CASE mid = lo
      <4>1. Answers(s, lo, mid - 1, from, to, SearchEnd(s, lo, from, to))
        BY <2>7, <3>3, SearchEnds
      <4> QED BY <2>4, <2>7, <2>8, <2>9, <2>12, <3>1, <3>2, <3>3, <4>1
    <3>4. CASE mid # lo
      <4>1. mid - 1 \in 1 .. n /\ lo <= mid - 1 /\ (mid - 1) - lo < d
        BY <2>4, <2>7, <3>4
      <4>2. Answers(s, lo, mid - 1, from, to, f[rest])
        BY <2>5, <3>1, <4>1
      <4> QED BY <2>4, <2>8, <2>9, <2>12, <3>1, <3>2, <4>1, <4>2
    <3> QED BY <3>3, <3>4
  <2> QED BY <2>8, <2>10, <2>11, <2>12
<1>5. n - 1 \in Nat /\ n - 1 \notin T /\ 1 \in 1 .. n /\ n \in 1 .. n
  <2> HIDE DEF T
  <2> QED BY <1>4
<1>6. Answers(s, 1, n, from, to, f[<<1, n>>])
  BY <1>5
<1> QED BY <1>2, <1>6

----------------------------------------------------------------------------
(* What there is between two calls *)

Rest == Still /\ pc = "Idle"

LEMMA RingNow ==
  ASSUME Rest
  PROVE  /\ cur.sec \in Sector /\ cur \in SecInfo /\ cur.ok /\ Ring(flash, cur.sec)
         /\ flash[cur.sec].ok /\ BeginsAt(flash, cur.sec, oldest)
         /\ cur.status = flash[cur.sec].store /\ Settled
BY StillIs DEF Rest, Still, RingOK, RingAgrees, HeadsNow, RamType

\* Every header is there, every record is committed, and a sector that is not empty has one.
LEMMA SectorNow ==
  ASSUME Rest, NEW s \in Sector, NEW sec, sec = flash[s], NEW n, n = Len(sec.tsls)
  PROVE  /\ sec \in SectorImage /\ sec.ok /\ sec.store \in {"Empty", "Using", "Full"}
         /\ HasRecords(s) <=> sec.store # "Empty"
         /\ IsEmpty(s) <=> sec.store = "Empty"
         /\ n \in Nat /\ sec.tsls \in Seq(IndexRecord) /\ Committed(sec) = 1 .. n
         /\ sec.store = "Empty" <=> n = 0
<1>1. sec \in SectorImage /\ pc \notin RecordLabels
  BY StillIs DEF Rest, Image, RecordLabels
<1>2. sec.ok /\ sec.store \in SectorStoreStatus \ {"Unused"}
  BY <1>1, RingNow, StillIs DEF Rest, Ring, TimesOK, HeaderOK, SectorImage
<1>3. sec.store \in {"Empty", "Using", "Full"}
  BY <1>2 DEF SectorStoreStatus
<1>4. n \in Nat /\ sec.tsls \in Seq(IndexRecord) /\ DOMAIN sec.tsls = 1 .. n
  BY <1>1 DEF SectorImage
<1>5. Committed(sec) = 1 .. n
  BY <1>1, <1>4, StillIs DEF Rest, NoneTorn, Committed
<1>6. sec.store = "Empty" => n = 0
  BY StillIs, <1>4 DEF Rest, TsIInv, MediumOK, SectorOK, Fresh
<1>7. sec.store # "Empty" => sec.tsls # <<>>
  BY <1>3, StillIs, RingNow DEF Rest, NoneTorn, Settled
<1> QED BY <1>1, <1>2, <1>3, <1>4, <1>5, <1>6, <1>7 DEF HasRecords, IsEmpty

\* The description of a sector tells its first and its last record.
LEMMA InfoNow ==
  ASSUME Rest, NEW s \in Sector, NEW sec, sec = flash[s], NEW n, n = Len(sec.tsls)
  PROVE  /\ SecFor(s).sec = s
         /\ n >= 1 => /\ SecFor(s).endIdx = n /\ SecFor(s).start = sec.tsls[1].time
                      /\ SecFor(s).endTime = sec.tsls[n].time
<1>1. /\ sec \in SectorImage /\ sec.ok /\ sec.store \in {"Empty", "Using", "Full"} /\ n \in Nat
      /\ sec.tsls \in Seq(IndexRecord) /\ Committed(sec) = 1 .. n /\ (sec.store = "Empty" <=> n = 0)
  BY SectorNow
<1>2. PICK h : h = read_header(flash, s)
  OBVIOUS
<1>3. /\ h.sec = s /\ h.ok /\ h.status = sec.store /\ h.start = sec.start
      /\ h.endTime = EndOf(sec).time /\ h.endIdx = EndOf(sec).idx
  BY <1>1, <1>2, HeaderOf, StillIs DEF Rest
<1>4. SectorTrue(sec, FALSE)
  <2>1. pc \notin EndLabels /\ SectorTrue(flash[s], pc \in EndLabels)
    BY StillIs DEF Rest, HeadsNow, EndLabels
  <2> QED BY <2>1 DEF SectorTrue
<1>5. CASE sec.store # "Using"
  <2>1. SecFor(s) = h
    BY <1>2, <1>3, <1>5 DEF SecFor
  <2>2. n >= 1 => HeaderTrue(sec)
    BY <1>1, <1>4, <1>5 DEF SectorTrue
  <2> QED BY <1>3, <2>1, <2>2 DEF HeaderTrue, LastRecord
<1>6. CASE sec.store = "Using"
  <2>1. SecFor(s) = cur /\ s = cur.sec
    BY <1>2, <1>3, <1>6, StillIs DEF Rest, SecFor, TimesOK, OneInUse
  <2>2. cur = read_sector_info(flash, s) /\ n >= 1 /\ sec.tsls # <<>>
    BY <1>1, <1>6, <2>1, RingNow, StillIs DEF Rest, ReadAgain
  <2>3. cur.start = sec.start /\ cur.endIdx = n /\ cur.endTime = EndTimeOf(sec)
    BY <1>1, <1>6, <2>2, InfoOfRecords, StillIs DEF Rest
  <2>4. EndTimeOf(sec) = sec.tsls[n].time
    <3>1. n \in 1 .. n /\ \A y \in 1 .. n : n >= y
      BY <1>1, <2>2
    <3>2. Greatest(1 .. n) = n
      BY <3>1, <1>1 DEF Greatest
    <3> QED BY <1>1, <3>1, <3>2 DEF EndTimeOf
  <2>5. sec.start = sec.tsls[1].time
    <3>1. 1 \in Committed(sec)
      BY <1>1, <2>2
    <3> QED BY <1>4, <1>6, <3>1 DEF SectorTrue
  <2> QED BY <2>1, <2>2, <2>3, <2>4, <2>5
<1> QED BY <1>5, <1>6

\* The records.
LEMMA RecordsNow ==
  ASSUME Rest
  PROVE  \A p : p \in Records <=> \E s \in Sector : \E j \in 1 .. Len(flash[s].tsls) : p = <<s, j>>
<1>1. \A s \in Sector : flash[s].ok /\ Committed(flash[s]) = 1 .. Len(flash[s].tsls)
  BY SectorNow
<1>2. \A p : p \in Records <=> \E s \in Sector : flash[s].ok /\ \E j \in Committed(flash[s]) : p = <<s, j>>
  BY DEF Records
<1> QED BY <1>1, <1>2

\* What is read at the place of a record.
LEMMA SlotNow ==
  ASSUME Rest, NEW s \in Sector, NEW n, n = Len(flash[s].tsls), NEW j \in 1 .. n
  PROVE  /\ <<s, j>> \in Records /\ Rec(<<s, j>>) = flash[s].tsls[j]
         /\ Slot(s, j).status = flash[s].tsls[j].status /\ Slot(s, j).status # "Unused"
         /\ Slot(s, j).time = flash[s].tsls[j].time
         /\ flash[s].tsls[j].time \in Nat /\ flash[s].tsls[j].time <= clock
         /\ \A k \in 1 .. n : j < k => flash[s].tsls[j].time < flash[s].tsls[k].time
<1>1. PICK sec : sec = flash[s]
  OBVIOUS
<1>2. /\ sec \in SectorImage /\ sec.tsls \in Seq(IndexRecord) /\ n \in Nat /\ Committed(sec) = 1 .. n
      /\ DOMAIN sec.tsls = 1 .. n
  BY <1>1, SectorNow
<1>3. <<s, j>> \in Records /\ Rec(<<s, j>>) = flash[s].tsls[j]
  BY RecordsNow DEF Rec
<1>4. ~Torn(sec.tsls[j])
  BY <1>2 DEF Committed
<1>5. Slot(s, j) = [status |-> sec.tsls[j].status, time |-> sec.tsls[j].time]
  BY <1>1, <1>2, <1>4 DEF Slot, ReadTime
<1>6. sec.tsls[j].time \in Int /\ sec.tsls[j].time >= 0
  <2>1. sec.tsls[j] \in IndexRecord /\ SectorTrue(sec, pc \in EndLabels) /\ j \in Committed(sec)
    BY <1>1, <1>2, StillIs DEF Rest, HeadsNow
  <2> QED BY <2>1 DEF SectorTrue, IndexRecord
<1>7. sec.tsls[j].time <= clock /\ \A k \in 1 .. n : j < k => sec.tsls[j].time < sec.tsls[k].time
  BY <1>1, <1>2, StillIs DEF Rest, TimesOK, ClockOK, SectorOrdered
<1> QED BY <1>1, <1>3, <1>4, <1>5, <1>6, <1>7 DEF Torn

\* What is read behind the records.
LEMMA SlotBehind ==
  ASSUME Rest, NEW s \in Sector, NEW n, n = Len(flash[s].tsls), NEW j \in Nat, j > n
  PROVE  Slot(s, j).time = 0 /\ (NoneExact => Slot(s, j).status = "Unused")
<1>1. n \in Nat /\ DOMAIN flash[s].tsls = 1 .. n
  BY SectorNow
<1>2. j \notin DOMAIN flash[s].tsls /\ j # 0
  BY <1>1
<1>3. Slot(s, j) = IF ExactlyFull(flash[s]) THEN BlobSlot ELSE UnusedSlot
  BY <1>2 DEF Slot
<1> QED BY <1>3 DEF NoneExact, BlobSlot, UnusedSlot

\* What is read in front of the records.
LEMMA SlotBefore ==
  ASSUME NEW s \in Sector, flash[s] \in SectorImage
  PROVE  HeaderSlot(s).time \in Int
<1> DEFINE e == flash[s].ends[2]
<1>1. e.time \in Int /\ e.idx \in Nat /\ s \in Nat /\ SecSize \in Nat
  BY Geometry DEF SectorImage, EndInfo, Sector
<1>2. EndIdxAddr(s, e) \in Int
  BY <1>1, Geometry DEF EndIdxAddr
<1>3. 2^16 \in Nat /\ 2^16 > 0 /\ 2^15 \in Nat
  OBVIOUS
<1>4. \A x \in Int : x % 2^16 \in Int /\ x \div 2^16 \in Int
  BY <1>3
<1>5. \A x \in Int : Signed16(x) \in Int
  BY <1>3 DEF Signed16
<1>6. HeaderTime(s, e) \in Int
  BY <1>1, <1>2, <1>3, <1>4, <1>5 DEF HeaderTime, ErasedTime
<1> QED BY <1>6 DEF HeaderSlot, UnusedSlot

LEMMA IncreasingNow ==
  ASSUME Rest, NEW s \in Sector, NEW n, n = Len(flash[s].tsls)
  PROVE  Increasing(s, n)
<1>1. n \in Nat /\ flash[s] \in SectorImage /\ DOMAIN flash[s].tsls = 1 .. n
  BY SectorNow
<1>2. ASSUME NEW j \in 0 .. n + 2 PROVE Slot(s, j).time \in Int
  <2>1. CASE j = 0
    <3>1. Slot(s, 0) = HeaderSlot(s)
      BY <1>1 DEF Slot
    <3> QED BY <1>1, <2>1, <3>1, SlotBefore
  <2>2. CASE j \in 1 .. n
    <3>1. Slot(s, j).time = flash[s].tsls[j].time /\ flash[s].tsls[j].time \in Nat
      BY <2>2, SlotNow
    <3> QED BY <3>1
  <2>3. CASE j > n
    BY <1>1, <2>3, SlotBehind
  <2> QED BY <1>1, <2>1, <2>2, <2>3
<1>3. ASSUME NEW j \in 1 .. n, NEW k \in 1 .. n, j < k PROVE Slot(s, j).time < Slot(s, k).time
  <2>1. Slot(s, j).time = flash[s].tsls[j].time /\ Slot(s, k).time = flash[s].tsls[k].time
    BY SlotNow
  <2>2. flash[s].tsls[j].time < flash[s].tsls[k].time
    BY <1>3, SlotNow
  <2> QED BY <2>1, <2>2
<1> QED BY <1>2, <1>3 DEF Increasing

----------------------------------------------------------------------------
(* The walks *)

LEMMA NextIs ==
  ASSUME NEW s \in Sector
  PROVE  NextSector(s) = IF s + 1 < N THEN s + 1 ELSE 0
<1>1. CASE s + 1 < N
  BY <1>1, Geometry DEF NextSector, Sector
<1>2. CASE s + 1 = N
  BY <1>2, Geometry DEF NextSector, Sector
<1> QED BY <1>1, <1>2, Geometry DEF Sector

LEMMA LastIs ==
  ASSUME NEW s \in Sector
  PROVE  LastSector(s) = IF s >= 1 THEN s - 1 ELSE N - 1
<1>1. CASE s >= 1
  <2>1. s - 1 \in 0 .. N-1 /\ s + N - 1 = (s - 1) + N /\ N \in Nat /\ N > 0
    BY <1>1, Geometry DEF Sector
  <2>2. ((s - 1) + N) % N = s - 1
    BY <2>1
  <2> QED BY <1>1, <2>1, <2>2 DEF LastSector
<1>2. CASE s = 0
  BY <1>2, Geometry DEF LastSector, Sector
<1> QED BY <1>1, <1>2, Geometry DEF Sector

\* Where the walks are at the i-th step.
UpStep(i) == IF oldest + i <= N THEN oldest + i - 1 ELSE oldest + i - 1 - N
DownStep(i) == IF i <= cur.sec + 1 THEN cur.sec - i + 1 ELSE cur.sec - i + 1 + N

\* Two functions that begin alike and go on alike are the same.
GoAlike(v, w, n) == w[1] = v[1] /\ \A i \in 2 .. n : w[i-1] = v[i-1] => w[i] = v[i]

LEMMA SameWalk ==
  ASSUME NEW n \in Nat, NEW v, NEW w, n >= 1, GoAlike(v, w, n)
  PROVE  \A i \in 1 .. n : w[i] = v[i]
<1> DEFINE T == {i \in 1 .. n : w[i] # v[i]}
<1> SUFFICES ASSUME T # {} PROVE FALSE
  OBVIOUS
<1>0. w[1] = v[1] /\ \A i \in 2 .. n : w[i-1] = v[i-1] => w[i] = v[i]
  BY DEF GoAlike
<1>1. T \subseteq Nat
  OBVIOUS
<1>2. Least(T) \in T /\ \A y \in T : Least(T) <= y
  <2> HIDE DEF T
  <2> QED BY <1>1, LeastExists
<1>3. PICK i : i = Least(T)
  OBVIOUS
<1>4. i \in 1 .. n /\ w[i] # v[i]
  BY <1>2, <1>3
<1>5. i \in 2 .. n /\ i - 1 \in 1 .. n
  BY <1>0, <1>4
<1>6. i - 1 \notin T
  <2> HIDE DEF T
  <2> QED BY <1>2, <1>3, <1>5
<1> QED BY <1>0, <1>4, <1>5, <1>6

LEMMA ForwardIs ==
  ASSUME Rest
  PROVE  Forward = [i \in 1 .. N |-> UpStep(i)] /\ \A i \in 1 .. N : UpStep(i) \in Sector
<1>1. oldest \in Sector
  BY RingNow DEF BeginsAt
<1>2. \A i \in 1 .. N : UpStep(i) \in Sector
  BY <1>1, Geometry DEF UpStep, Sector
<1>3. ASSUME NEW i \in 2 .. N PROVE NextSector(SecFor(UpStep(i-1)).sec) = UpStep(i)
  <2>1. UpStep(i-1) \in Sector
    BY <1>2, Geometry
  <2>2. SecFor(UpStep(i-1)).sec = UpStep(i-1)
    BY <2>1, InfoNow
  <2>3. NextSector(UpStep(i-1)) = IF UpStep(i-1) + 1 < N THEN UpStep(i-1) + 1 ELSE 0
    BY <2>1, NextIs
  <2> QED BY <1>1, <2>2, <2>3, Geometry DEF UpStep, Sector
<1> DEFINE F == [i \in 1 .. N |-> UpStep(i)]
           w == CHOOSE v : v = [i \in 1 .. N |-> IF i = 1 THEN oldest
                                                 ELSE NextSector(SecFor(v[i-1]).sec)]
<1>4. F = [i \in 1 .. N |-> IF i = 1 THEN oldest ELSE NextSector(SecFor(F[i-1]).sec)]
  <2>1. ASSUME NEW i \in 1 .. N
        PROVE  UpStep(i) = IF i = 1 THEN oldest ELSE NextSector(SecFor(F[i-1]).sec)
    <3>1. CASE i = 1
      BY <1>1, <3>1, Geometry DEF UpStep, Sector
    <3>2. CASE i # 1
      <4>1. i \in 2 .. N /\ F[i-1] = UpStep(i-1)
        BY <3>2, Geometry
      <4> QED BY <1>3, <3>2, <4>1
    <3> QED BY <3>1, <3>2
  <2> QED BY <2>1
<1>5. w = [i \in 1 .. N |-> IF i = 1 THEN oldest ELSE NextSector(SecFor(w[i-1]).sec)]
  <2> HIDE DEF F
  <2> QED BY <1>4
<1>6. Forward = w
  BY DEF Forward
<1> HIDE DEF w
<1>7. /\ w[1] = oldest
      /\ \A i \in 2 .. N : w[i] = NextSector(SecFor(w[i-1]).sec)
  <2>1. 1 \in 1 .. N /\ \A i \in 2 .. N : i \in 1 .. N /\ i # 1
    BY Geometry
  <2> QED BY <1>5, <2>1
<1>8. /\ F[1] = oldest
      /\ \A i \in 2 .. N : F[i] = NextSector(SecFor(F[i-1]).sec)
  <2>1. 1 \in 1 .. N /\ \A i \in 2 .. N : i \in 1 .. N /\ i # 1
    BY Geometry
  <2> HIDE DEF F
  <2> QED BY <1>4, <2>1
<1>9. \A i \in 1 .. N : w[i] = F[i]
  <2> HIDE DEF F
  <2>1. GoAlike(F, w, N)
    BY <1>7, <1>8 DEF GoAlike
  <2>2. N \in Nat /\ N >= 1
    BY Geometry
  <2> QED BY <2>1, <2>2, SameWalk
<1>10. w = [i \in 1 .. N |-> w[i]]
  BY <1>5
<1>11. w = F
  BY <1>9, <1>10
<1> QED BY <1>2, <1>6, <1>11

LEMMA BackwardIs ==
  ASSUME Rest
  PROVE  Backward = [i \in 1 .. N |-> DownStep(i)] /\ \A i \in 1 .. N : DownStep(i) \in Sector
<1>1. cur.sec \in Sector
  BY RingNow
<1>2. \A i \in 1 .. N : DownStep(i) \in Sector
  BY <1>1, Geometry DEF DownStep, Sector
<1>3. ASSUME NEW i \in 2 .. N PROVE LastSector(SecFor(DownStep(i-1)).sec) = DownStep(i)
  <2>1. DownStep(i-1) \in Sector
    BY <1>2, Geometry
  <2>2. SecFor(DownStep(i-1)).sec = DownStep(i-1)
    BY <2>1, InfoNow
  <2>3. LastSector(DownStep(i-1)) = IF DownStep(i-1) >= 1 THEN DownStep(i-1) - 1 ELSE N - 1
    BY <2>1, LastIs
  <2> QED BY <1>1, <2>2, <2>3, Geometry DEF DownStep, Sector
<1> DEFINE F == [i \in 1 .. N |-> DownStep(i)]
           w == CHOOSE v : v = [i \in 1 .. N |-> IF i = 1 THEN cur.sec
                                                 ELSE LastSector(SecFor(v[i-1]).sec)]
<1>4. F = [i \in 1 .. N |-> IF i = 1 THEN cur.sec ELSE LastSector(SecFor(F[i-1]).sec)]
  <2>1. ASSUME NEW i \in 1 .. N
        PROVE  DownStep(i) = IF i = 1 THEN cur.sec ELSE LastSector(SecFor(F[i-1]).sec)
    <3>1. CASE i = 1
      BY <1>1, <3>1, Geometry DEF DownStep, Sector
    <3>2. CASE i # 1
      <4>1. i \in 2 .. N /\ F[i-1] = DownStep(i-1)
        BY <3>2, Geometry
      <4> QED BY <1>3, <3>2, <4>1
    <3> QED BY <3>1, <3>2
  <2> QED BY <2>1
<1>5. w = [i \in 1 .. N |-> IF i = 1 THEN cur.sec ELSE LastSector(SecFor(w[i-1]).sec)]
  <2> HIDE DEF F
  <2> QED BY <1>4
<1>6. Backward = w
  BY DEF Backward
<1> HIDE DEF w
<1>7. /\ w[1] = cur.sec
      /\ \A i \in 2 .. N : w[i] = LastSector(SecFor(w[i-1]).sec)
  <2>1. 1 \in 1 .. N /\ \A i \in 2 .. N : i \in 1 .. N /\ i # 1
    BY Geometry
  <2> QED BY <1>5, <2>1
<1>8. /\ F[1] = cur.sec
      /\ \A i \in 2 .. N : F[i] = LastSector(SecFor(F[i-1]).sec)
  <2>1. 1 \in 1 .. N /\ \A i \in 2 .. N : i \in 1 .. N /\ i # 1
    BY Geometry
  <2> HIDE DEF F
  <2> QED BY <1>4, <2>1
<1>9. \A i \in 1 .. N : w[i] = F[i]
  <2> HIDE DEF F
  <2>1. GoAlike(F, w, N)
    BY <1>7, <1>8 DEF GoAlike
  <2>2. N \in Nat /\ N >= 1
    BY Geometry
  <2> QED BY <2>1, <2>2, SameWalk
<1>10. w = [i \in 1 .. N |-> w[i]]
  BY <1>5
<1>11. w = F
  BY <1>9, <1>10
<1> QED BY <1>2, <1>6, <1>11

\* The times of the records, and their opposites.
UpTime == [p \in Records |-> Rec(p).time]
DownTime == [p \in Records |-> - Rec(p).time]

\* The walk w comes to every sector once, goes from record to record in the order of tm, and
\* behind an empty sector comes to no other.
Along(w, tm) ==
    /\ w \in [1 .. N -> Sector] /\ \A s \in Sector : \E i \in 1 .. N : w[i] = s
    /\ \A i, j \in 1 .. N : i < j =>
          /\ IsEmpty(w[i]) => IsEmpty(w[j])
          /\ \A k \in 1 .. Len(flash[w[i]].tsls), m \in 1 .. Len(flash[w[j]].tsls) :
                tm[<<w[i], k>>] < tm[<<w[j], m>>]

LEMMA TimeOf ==
  ASSUME Rest, NEW p \in Records
  PROVE  Rec(p).time \in Int
<1>1. PICK s \in Sector : \E j \in 1 .. Len(flash[s].tsls) : p = <<s, j>>
  BY RecordsNow
<1>2. PICK j \in 1 .. Len(flash[s].tsls) : p = <<s, j>>
  BY <1>1
<1>3. PICK n : n = Len(flash[s].tsls)
  OBVIOUS
<1>4. Rec(<<s, j>>) = flash[s].tsls[j] /\ flash[s].tsls[j].time \in Nat
  BY <1>3, SlotNow
<1> QED BY <1>2, <1>4

LEMMA TimesNow ==
  ASSUME Rest
  PROVE  /\ UpTime \in [Records -> Int] /\ DownTime \in [Records -> Int]
         /\ \A s \in Sector : \A j \in 1 .. Len(flash[s].tsls) :
               /\ UpTime[<<s, j>>] = flash[s].tsls[j].time
               /\ DownTime[<<s, j>>] = - flash[s].tsls[j].time
<1>1. \A p \in Records : Rec(p).time \in Int
  BY TimeOf
<1>2. ASSUME NEW s \in Sector, NEW j \in 1 .. Len(flash[s].tsls)
      PROVE  /\ UpTime[<<s, j>>] = flash[s].tsls[j].time
             /\ DownTime[<<s, j>>] = - flash[s].tsls[j].time
  <2>1. <<s, j>> \in Records /\ Rec(<<s, j>>) = flash[s].tsls[j]
    BY SlotNow
  <2> QED BY <2>1 DEF UpTime, DownTime
<1>3. UpTime \in [Records -> Int]
  BY <1>1 DEF UpTime
<1>4. DownTime \in [Records -> Int]
  BY <1>1 DEF DownTime
<1> QED BY <1>2, <1>3, <1>4

\* An empty current sector is the first one that is written.
LEMMA NothingBehind ==
  ASSUME Rest, IsEmpty(cur.sec)
  PROVE  \A s \in Sector : IsEmpty(s)
<1>1. \A s \in Sector : s # cur.sec => flash[s].store \in {"Empty", "Full"}
  BY RingNow DEF Ring
<1>2. \A s \in Sector : flash[s].store # "Using" /\ cur.sec \in Sector /\ flash[cur.sec].store = "Empty"
  BY <1>1, RingNow DEF IsEmpty
<1>3. \A s \in Sector : flash[s].store # "Full"
  BY <1>2, RingNow DEF Settled, AllFull
<1> QED BY <1>2, <1>3, SectorNow

LEMMA ForwardNow ==
  ASSUME Rest
  PROVE  Along(Forward, UpTime)
<1>1. Forward = [i \in 1 .. N |-> UpStep(i)] /\ \A i \in 1 .. N : UpStep(i) \in Sector
  BY ForwardIs
<1>2. oldest \in Sector /\ cur.sec \in Sector
  BY RingNow DEF BeginsAt
<1>3. ASSUME NEW s \in Sector PROVE \E i \in 1 .. N : Forward[i] = s
  <2>1. CASE s >= oldest
    <3>1. s - oldest + 1 \in 1 .. N /\ UpStep(s - oldest + 1) = s
      BY <1>2, <2>1, Geometry DEF Sector, UpStep
    <3> QED BY <1>1, <3>1
  <2>2. CASE s < oldest
    <3>1. s - oldest + 1 + N \in 1 .. N /\ UpStep(s - oldest + 1 + N) = s
      BY <1>2, <2>2, Geometry DEF Sector, UpStep
    <3> QED BY <1>1, <3>1
  <2> QED BY <1>2, <2>1, <2>2 DEF Sector
<1>4. Ordered(flash, oldest)
  BY RingNow, RingTimes, StillIs DEF Rest
<1>5. ASSUME NEW i \in 1 .. N, NEW j \in 1 .. N, i < j
      PROVE  /\ IsEmpty(Forward[i]) => IsEmpty(Forward[j])
             /\ \A k \in 1 .. Len(flash[Forward[i]].tsls), m \in 1 .. Len(flash[Forward[j]].tsls) :
                   UpTime[<<Forward[i], k>>] < UpTime[<<Forward[j], m>>]
  <2>1. PICK s \in Sector, t \in Sector : s = UpStep(i) /\ t = UpStep(j) /\ s = Forward[i] /\ t = Forward[j]
    BY <1>1
  <2>2. Earlier(oldest, s, t)
    BY <1>2, <1>5, <2>1, Geometry DEF UpStep, Sector, Earlier
  <2>3. ASSUME NEW k \in 1 .. Len(flash[s].tsls), NEW m \in 1 .. Len(flash[t].tsls)
        PROVE  UpTime[<<s, k>>] < UpTime[<<t, m>>]
    <3>1. k \in Committed(flash[s]) /\ m \in Committed(flash[t])
      BY SectorNow
    <3>2. flash[s].tsls[k].time < flash[t].tsls[m].time
      BY <1>4, <2>2, <3>1 DEF Ordered
    <3> QED BY <3>2, TimesNow
  <2>4. ASSUME IsEmpty(s) PROVE IsEmpty(t)
    <3>1. flash[s].store = "Empty"
      BY <2>4 DEF IsEmpty
    <3>2. CASE IsEmpty(cur.sec)
      BY <3>2, NothingBehind
    <3>3. CASE ~IsEmpty(cur.sec)
      <4>1. s # cur.sec /\ ~ (s < cur.sec)
        BY <2>4, <3>1, <3>3, RingNow DEF Ring
      <4>2. cur.sec < s
        BY <1>2, <4>1 DEF Sector
      <4>3. ~ (oldest # 0 /\ oldest <= s)
        BY <3>1, <4>2, RingNow DEF BeginsAt
      <4>4. s < t /\ cur.sec < t /\ ~ (oldest # 0 /\ oldest <= t)
        BY <1>2, <2>2, <4>2, <4>3, Geometry DEF Sector, Earlier
      <4>5. flash[t].store # "Full" /\ t # cur.sec
        BY <1>2, <4>4, RingNow DEF BeginsAt, Sector
      <4>6. flash[t].store = "Empty"
        BY <4>5, RingNow DEF Ring
      <4> QED BY <4>6, SectorNow
    <3> QED BY <3>2, <3>3
  <2> QED BY <2>1, <2>3, <2>4
<1> QED BY <1>1, <1>3, <1>5 DEF Along

LEMMA BackwardNow ==
  ASSUME Rest
  PROVE  Along(Backward, DownTime)
<1>1. Backward = [i \in 1 .. N |-> DownStep(i)] /\ \A i \in 1 .. N : DownStep(i) \in Sector
  BY BackwardIs
<1>2. cur.sec \in Sector
  BY RingNow
<1>3. ASSUME NEW s \in Sector PROVE \E i \in 1 .. N : Backward[i] = s
  <2>1. CASE s <= cur.sec
    <3>1. cur.sec - s + 1 \in 1 .. N /\ DownStep(cur.sec - s + 1) = s
      BY <1>2, <2>1, Geometry DEF Sector, DownStep
    <3> QED BY <1>1, <3>1
  <2>2. CASE s > cur.sec
    <3>1. cur.sec - s + 1 + N \in 1 .. N /\ DownStep(cur.sec - s + 1 + N) = s
      BY <1>2, <2>2, Geometry DEF Sector, DownStep
    <3> QED BY <1>1, <3>1
  <2> QED BY <1>2, <2>1, <2>2 DEF Sector
<1>4. Ordered(flash, cur.sec + 1)
  BY RingNow DEF Ring
<1>5. ASSUME NEW i \in 1 .. N, NEW j \in 1 .. N, i < j
      PROVE  /\ IsEmpty(Backward[i]) => IsEmpty(Backward[j])
             /\ \A k \in 1 .. Len(flash[Backward[i]].tsls), m \in 1 .. Len(flash[Backward[j]].tsls) :
                   DownTime[<<Backward[i], k>>] < DownTime[<<Backward[j], m>>]
  <2>1. PICK s \in Sector, t \in Sector : s = DownStep(i) /\ t = DownStep(j) /\ s = Backward[i] /\ t = Backward[j]
    BY <1>1
  <2>2. Earlier(cur.sec + 1, t, s)
    BY <1>2, <1>5, <2>1, Geometry DEF DownStep, Sector, Earlier
  <2>3. ASSUME NEW k \in 1 .. Len(flash[s].tsls), NEW m \in 1 .. Len(flash[t].tsls)
        PROVE  DownTime[<<s, k>>] < DownTime[<<t, m>>]
    <3>1. k \in Committed(flash[s]) /\ m \in Committed(flash[t])
      BY SectorNow
    <3>2. flash[t].tsls[m].time < flash[s].tsls[k].time
      BY <1>4, <2>2, <3>1 DEF Ordered
    <3>3. flash[t].tsls[m].time \in Int /\ flash[s].tsls[k].time \in Int
      BY <3>1, SectorNow, CommittedType
    <3>4. DownTime[<<s, k>>] = - flash[s].tsls[k].time /\ DownTime[<<t, m>>] = - flash[t].tsls[m].time
      BY TimesNow
    <3> QED BY SMTT(20), <3>2, <3>3, <3>4
  <2>4. ASSUME IsEmpty(s) PROVE IsEmpty(t)
    <3>1. flash[s].store = "Empty"
      BY <2>4 DEF IsEmpty
    <3>2. CASE IsEmpty(cur.sec)
      BY <3>2, NothingBehind
    <3>3. CASE ~IsEmpty(cur.sec)
      <4>1. s # cur.sec /\ ~ (s < cur.sec)
        BY <2>4, <3>1, <3>3, RingNow DEF Ring
      <4>2. cur.sec < t /\ t < s
        BY <1>2, <2>2, <4>1 DEF Sector, Earlier
      <4>3. flash[t].store # "Full" /\ t # cur.sec
        BY <1>2, <3>1, <4>2, RingNow DEF Ring, Sector
      <4>4. flash[t].store = "Empty"
        BY <4>3, RingNow DEF Ring
      <4> QED BY <4>4, SectorNow
    <3> QED BY <3>2, <3>3
  <2> QED BY <2>1, <2>3, <2>4
<1> QED BY <1>1, <1>3, <1>5 DEF Along

\* A walk that ends at the first empty sector comes to every record.
CutAt(v, w, m) ==
    /\ DOMAIN v = 1 .. m /\ Len(v) = m
    /\ \A i \in 1 .. m : v[i] = w[i] /\ v[i] \in Sector /\ HasRecords(v[i])
    /\ \A s \in Sector : HasRecords(s) => \E i \in 1 .. m : v[i] = s

EmptySectors == {s \in Sector : IsEmpty(s)}

LEMMA WalkCut ==
  ASSUME Rest, NEW w, NEW tm, Along(w, tm), NEW v, v = Before(w, EmptySectors)
  PROVE  \E m \in 0 .. N : CutAt(v, w, m)
<1> USE DEF CutAt, EmptySectors
<1> DEFINE S == {s \in Sector : IsEmpty(s)}
           I == {i \in DOMAIN w : w[i] \in S}
<1>1. w \in [1 .. N -> Sector] /\ DOMAIN w = 1 .. N /\ w \in Seq(Sector) /\ Len(w) = N /\ N \in Nat
  BY Geometry DEF Along
<1>2. \A s \in Sector : HasRecords(s) <=> ~IsEmpty(s)
  BY SectorNow
<1>3. v = IF I = {} THEN w ELSE SubSeq(w, 1, Least(I) - 1)
  BY DEF Before
<1>4. CASE I = {}
  <2>1. v = w
    BY <1>3, <1>4
  <2>2. \A i \in 1 .. N : w[i] \in Sector /\ HasRecords(w[i])
    BY <1>1, <1>2, <1>4
  <2>3. \A s \in Sector : \E i \in 1 .. N : v[i] = s
    BY <2>1 DEF Along
  <2>4. N \in 0 .. N
    BY <1>1
  <2> HIDE DEF I
  <2> QED BY <1>1, <2>1, <2>2, <2>3, <2>4
<1>5. CASE I # {}
  <2>1. I \subseteq Nat
    BY <1>1
  <2>2. Least(I) \in I /\ \A y \in I : Least(I) <= y
    <3> HIDE DEF I
    <3> QED BY <1>5, <2>1, LeastExists
  <2>3. PICK e : e = Least(I)
    OBVIOUS
  <2>4. e \in 1 .. N /\ IsEmpty(w[e]) /\ v = SubSeq(w, 1, e - 1)
    BY <1>1, <1>3, <1>5, <2>2, <2>3
  <2>5. \A i \in 1 .. e - 1 : i \in 1 .. N /\ i \notin I
    <3> HIDE DEF I
    <3> QED BY <1>1, <2>2, <2>3, <2>4
  <2>6. DOMAIN v = 1 .. e - 1 /\ Len(v) = e - 1 /\ \A i \in 1 .. e - 1 : v[i] = w[i]
    BY <1>1, <2>4
  <2>7. \A i \in 1 .. e - 1 : w[i] \in Sector /\ HasRecords(w[i])
    BY <1>1, <1>2, <2>5
  <2>8. ASSUME NEW s \in Sector, HasRecords(s) PROVE \E i \in 1 .. e - 1 : v[i] = s
    <3>1. PICK i \in 1 .. N : w[i] = s
      BY DEF Along
    <3>2. ~IsEmpty(w[i])
      BY <1>2, <2>8, <3>1
    <3>3. i < e
      BY <2>4, <3>2 DEF Along
    <3>4. i \in 1 .. e - 1
      BY <2>4, <3>3
    <3> QED BY <2>6, <3>1, <3>4
  <2>9. e - 1 \in 0 .. N
    BY <1>1, <2>4
  <2> HIDE DEF I
  <2> QED BY <2>6, <2>7, <2>8, <2>9
<1> QED BY <1>4, <1>5

----------------------------------------------------------------------------
(* What the iterations return *)

LEMMA NumbersAre ==
  ASSUME NEW s, NEW from \in Nat, NEW to \in Nat, from <= to + 1
  PROVE  /\ DOMAIN Numbers(s, from, to) = 1 .. to - from + 1
         /\ Len(Numbers(s, from, to)) = to - from + 1
         /\ \A k \in 1 .. to - from + 1 : Numbers(s, from, to)[k] = <<s, from + k - 1>>
BY DEF Numbers

LEMMA FirstNumbers ==
  ASSUME NEW s, NEW n \in Nat, NEW q, q = Numbers(s, 1, n)
  PROVE  /\ DOMAIN q = 1 .. n /\ Len(q) = n /\ \A k \in 1 .. n : q[k] = <<s, k>>
         /\ q = [k \in 1 .. n |-> q[k]]
<1>1. n - 1 + 1 = n /\ \A k \in 1 .. n : 1 + k - 1 = k
  OBVIOUS
<1>2. q = [k \in 1 .. n |-> <<s, 1 + k - 1>>]
  BY <1>1 DEF Numbers
<1> QED BY <1>1, <1>2

LEMMA ReverseIs ==
  ASSUME NEW s, NEW n \in Nat
  PROVE  /\ DOMAIN Reverse(Numbers(s, 1, n)) = 1 .. n
         /\ Len(Reverse(Numbers(s, 1, n))) = n
         /\ \A k \in 1 .. n : Reverse(Numbers(s, 1, n))[k] = <<s, n - k + 1>>
<1>1. PICK q : q = Numbers(s, 1, n)
  OBVIOUS
<1>2. DOMAIN q = 1 .. n /\ Len(q) = n /\ \A k \in 1 .. n : q[k] = <<s, k>>
  BY <1>1, FirstNumbers
<1>3. Reverse(q) = [i \in 1 .. n |-> q[(n - i) + 1]]
  BY <1>2 DEF Reverse
<1>4. DOMAIN Reverse(q) = 1 .. n /\ Len(Reverse(q)) = n
  BY <1>3
<1>5. ASSUME NEW k \in 1 .. n PROVE Reverse(q)[k] = <<s, n - k + 1>>
  <2>1. (n - k) + 1 \in 1 .. n
    OBVIOUS
  <2> QED BY <1>2, <1>3, <2>1
<1> QED BY <1>1, <1>4, <1>5

LEMMA OfRecords ==
  ASSUME NEW n \in Nat, NEW q, q = [k \in 1 .. n |-> q[k]], \A k \in 1 .. n : q[k] \in Records
  PROVE  q \in Seq(Records)
<1>1. q \in [1 .. n -> Records]
  OBVIOUS
<1> QED BY <1>1

\* A sequence of records in the order of their times lists them so.
LEMMA ListOf ==
  ASSUME Rest, NEW q \in Seq(Records), NEW P, \A x : x \in ToSet(q) <=> x \in P
  PROVE  /\ Listed(q, P)
         /\ SortedBy(UpTime, q) => Ascending(q)
         /\ SortedBy(DownTime, q) => Descending(q)
<1>1. DOMAIN q = 1 .. Len(q) /\ Len(q) \in Nat /\ \A k \in 1 .. Len(q) : q[k] \in Records
  OBVIOUS
<1>2. \A k \in 1 .. Len(q) : q[k] \in P
  BY <1>1 DEF ToSet
<1>3. q \in Seq(P)
  BY <1>1, <1>2
<1>4. ToSet(q) = P
  OBVIOUS
<1>5. \A p \in Records : /\ UpTime[p] = Rec(p).time /\ DownTime[p] = - Rec(p).time
                         /\ Rec(p).time \in Int
  <2>1. \A p \in Records : Rec(p).time \in Int
    BY TimeOf
  <2> QED BY <2>1 DEF UpTime, DownTime
<1>6. SortedBy(UpTime, q) => Ascending(q)
  BY <1>1, <1>5 DEF SortedBy, Ascending
<1>7. SortedBy(DownTime, q) => Descending(q)
  <2> SUFFICES ASSUME SortedBy(DownTime, q), NEW k \in DOMAIN q, NEW m \in DOMAIN q, k < m
               PROVE  Rec(q[k]).time > Rec(q[m]).time
    BY DEF Descending
  <2>1. DownTime[q[k]] < DownTime[q[m]]
    BY DEF SortedBy
  <2>2. q[k] \in Records /\ q[m] \in Records
    BY <1>1
  <2>3. /\ DownTime[q[k]] = - Rec(q[k]).time /\ DownTime[q[m]] = - Rec(q[m]).time
        /\ Rec(q[k]).time \in Int /\ Rec(q[m]).time \in Int
    BY <1>5, <2>2
  <2> QED BY <2>1, <2>3
<1> QED BY <1>3, <1>4, <1>6, <1>7 DEF Listed

\* One piece for each of the first m sectors of the walk w, of its records.
SectorPieces(w, tm, S, m) ==
    /\ Len(S) = m /\ (m = 0 => S = <<>>)
    /\ \A i \in 1 .. m : /\ S[i] \in Seq(Records) /\ SortedBy(tm, S[i])
                         /\ \A x \in ToSet(S[i]) : \E k \in 1 .. Len(flash[w[i]].tsls) : x = <<w[i], k>>

LEMMA PiecesAlong ==
  ASSUME Rest, NEW w, NEW tm \in [Records -> Int], Along(w, tm), NEW m \in 0 .. N,
         NEW S, SectorPieces(w, tm, S, m)
  PROVE  /\ FlattenSeq(S) \in Seq(Records) /\ SortedBy(tm, FlattenSeq(S))
         /\ \A x : x \in ToSet(FlattenSeq(S)) <=> \E i \in 1 .. m : x \in ToSet(S[i])
<1> USE DEF SectorPieces
<1>1. ASSUME NEW i \in 1 .. m, NEW j \in 1 .. m, i < j PROVE InFront(tm, S[i], S[j])
  <2> SUFFICES ASSUME NEW a \in DOMAIN S[i], NEW b \in DOMAIN S[j] PROVE tm[S[i][a]] < tm[S[j][b]]
    BY DEF InFront
  <2>1. S[i][a] \in ToSet(S[i]) /\ S[j][b] \in ToSet(S[j])
    BY DEF ToSet
  <2>2. PICK k \in 1 .. Len(flash[w[i]].tsls) : S[i][a] = <<w[i], k>>
    BY <2>1
  <2>3. PICK l \in 1 .. Len(flash[w[j]].tsls) : S[j][b] = <<w[j], l>>
    BY <2>1
  <2>4. i \in 1 .. N /\ j \in 1 .. N
    BY SMTT(20), Geometry
  <2>5. tm[<<w[i], k>>] < tm[<<w[j], l>>]
    <3> HIDE DEF SectorPieces
    <3> QED BY <1>1, <2>2, <2>3, <2>4 DEF Along
  <2> QED BY <2>2, <2>3, <2>5
<1>2. m \in Nat
  BY Geometry
<1>3. \A i \in 1 .. m : S[i] \in Seq(Records) /\ SortedBy(tm, S[i])
  OBVIOUS
<1>4. \A i, j \in 1 .. m : i < j => InFront(tm, S[i], S[j])
  BY <1>1
<1>5. Pieces(Records, tm, S, m)
  BY <1>2, <1>3, <1>4 DEF Pieces
<1> QED BY <1>2, <1>5, FlattenSorted

\* Up and down the records of one sector.
LEMMA SectorUp ==
  ASSUME Rest, NEW s \in Sector, NEW n, n = Len(flash[s].tsls), NEW q, q = Numbers(s, 1, n)
  PROVE  /\ q \in Seq(Records) /\ SortedBy(UpTime, q)
         /\ \A x : x \in ToSet(q) <=> \E k \in 1 .. n : x = <<s, k>>
<1>1. n \in Nat
  BY SectorNow
<1>2. /\ DOMAIN q = 1 .. n /\ Len(q) = n /\ \A k \in 1 .. n : q[k] = <<s, k>>
      /\ q = [k \in 1 .. n |-> q[k]]
  BY <1>1, FirstNumbers
<1>3. \A k \in 1 .. n : q[k] \in Records
  <2>1. \A k \in 1 .. n : <<s, k>> \in Records
    BY SlotNow
  <2> QED BY <1>2, <2>1
<1>4. q \in Seq(Records)
  BY <1>1, <1>2, <1>3, OfRecords
<1>5. ASSUME NEW k \in 1 .. n, NEW m \in 1 .. n, k < m PROVE UpTime[q[k]] < UpTime[q[m]]
  <2>1. UpTime[q[k]] = flash[s].tsls[k].time /\ UpTime[q[m]] = flash[s].tsls[m].time
    BY <1>2, TimesNow
  <2>2. flash[s].tsls[k].time < flash[s].tsls[m].time
    BY <1>5, SlotNow
  <2> QED BY <2>1, <2>2
<1>6. \A x : x \in ToSet(q) <=> \E k \in 1 .. n : x = <<s, k>>
  BY <1>2 DEF ToSet
<1> QED BY <1>2, <1>4, <1>5, <1>6 DEF SortedBy

LEMMA SectorDown ==
  ASSUME Rest, NEW s \in Sector, NEW n, n = Len(flash[s].tsls), NEW q, q = Reverse(Numbers(s, 1, n))
  PROVE  /\ q \in Seq(Records) /\ SortedBy(DownTime, q)
         /\ \A x : x \in ToSet(q) <=> \E k \in 1 .. n : x = <<s, k>>
<1>1. n \in Nat
  BY SectorNow
<1>2. DOMAIN q = 1 .. n /\ Len(q) = n /\ \A k \in 1 .. n : q[k] = <<s, n - k + 1>>
  BY <1>1, ReverseIs
<1>3. \A k \in 1 .. n : n - k + 1 \in 1 .. n
  BY <1>1
<1>4. \A k \in 1 .. n : q[k] \in Records
  <2>1. \A k \in 1 .. n : <<s, k>> \in Records
    BY SlotNow
  <2> QED BY <1>2, <1>3, <2>1
<1>5. q \in Seq(Records)
  <2>1. q = [k \in 1 .. n |-> q[k]]
    BY <1>2 DEF Reverse
  <2> QED BY <1>1, <1>4, <2>1, OfRecords
<1>6. ASSUME NEW k \in 1 .. n, NEW m \in 1 .. n, k < m PROVE DownTime[q[k]] < DownTime[q[m]]
  <2>1. PICK a \in 1 .. n, b \in 1 .. n : a = n - k + 1 /\ b = n - m + 1 /\ b < a
    <3>1. n - k + 1 \in 1 .. n /\ n - m + 1 \in 1 .. n /\ n - m + 1 < n - k + 1
      BY <1>1, <1>6
    <3> QED BY <3>1
  <2>2. DownTime[q[k]] = - flash[s].tsls[a].time /\ DownTime[q[m]] = - flash[s].tsls[b].time
    BY <1>2, <2>1, TimesNow
  <2>3. flash[s].tsls[b].time < flash[s].tsls[a].time
    BY <2>1, SlotNow
  <2>4. flash[s].tsls[a].time \in Int /\ flash[s].tsls[b].time \in Int
    BY SectorNow, CommittedType
  <2> QED BY <2>2, <2>3, <2>4
<1>7. ASSUME NEW k \in 1 .. n PROVE <<s, k>> \in ToSet(q)
  <2>1. n - k + 1 \in 1 .. n /\ n - (n - k + 1) + 1 = k
    BY <1>1
  <2>2. q[n - k + 1] = <<s, k>>
    BY <1>2, <2>1
  <2> QED BY <1>2, <2>1, <2>2 DEF ToSet
<1>8. \A x \in ToSet(q) : \E k \in 1 .. n : x = <<s, k>>
  BY <1>2, <1>3 DEF ToSet
<1> QED BY <1>2, <1>5, <1>6, <1>7, <1>8 DEF SortedBy

LEMMA CollectNow ==
  ASSUME Rest
  PROVE  Listed(collect, Records) /\ Ascending(collect)
<1> DEFINE S == [i \in 1 .. N |-> LET s == Forward[i]
                                  IN  IF HasRecords(s) THEN Numbers(SecFor(s).sec, 1, AtLeast(SecFor(s).endIdx, 1))
                                      ELSE <<>>]
<1>1. collect = FlattenSeq(S)
  BY RingNow, NoAddrAssumption DEF collect, BeginsAt
<1>2. Along(Forward, UpTime) /\ UpTime \in [Records -> Int]
  BY ForwardNow, TimesNow
<1>3. N \in Nat /\ N > 0 /\ Len(S) = N
  BY Geometry
<1>4. ASSUME NEW i \in 1 .. N, NEW s, s = Forward[i]
      PROVE  /\ S[i] \in Seq(Records) /\ SortedBy(UpTime, S[i])
             /\ \A x : x \in ToSet(S[i]) <=> \E k \in 1 .. Len(flash[s].tsls) : x = <<s, k>>
  <2>1. s \in Sector
    BY <1>2, <1>4 DEF Along
  <2>2. PICK n : n = Len(flash[s].tsls)
    OBVIOUS
  <2>3. n \in Nat /\ (HasRecords(s) <=> n >= 1)
    BY <2>1, <2>2, SectorNow
  <2>4. S[i] = Numbers(s, 1, n)
    <3>1. CASE n >= 1
      <4>1. SecFor(s).sec = s /\ AtLeast(SecFor(s).endIdx, 1) = n
        BY <2>1, <2>2, <2>3, <3>1, InfoNow DEF AtLeast
      <4> QED BY <1>4, <2>3, <3>1, <4>1
    <3>2. CASE n = 0
      <4>1. S[i] = <<>> /\ Numbers(s, 1, n) = <<>>
        BY <1>4, <2>3, <3>2 DEF Numbers
      <4> QED BY <4>1
    <3> QED BY <2>3, <3>1, <3>2
  <2> HIDE DEF S
  <2> QED BY <2>1, <2>2, <2>4, SectorUp
<1> HIDE DEF S
<1>5. /\ FlattenSeq(S) \in Seq(Records) /\ SortedBy(UpTime, FlattenSeq(S))
      /\ \A x : x \in ToSet(FlattenSeq(S)) <=> \E i \in 1 .. N : x \in ToSet(S[i])
  <2>1. N \in 0 .. N /\ (N = 0 => S = <<>>)
    BY <1>3
  <2>2. SectorPieces(Forward, UpTime, S, N)
    BY <1>3, <1>4, <2>1 DEF SectorPieces
  <2> QED BY <1>2, <2>1, <2>2, PiecesAlong
<1>6. \A x : x \in ToSet(FlattenSeq(S)) <=> x \in Records
  <2>1. \A s \in Sector : \E i \in 1 .. N : Forward[i] = s
    BY <1>2 DEF Along
  <2>2. \A i \in 1 .. N : Forward[i] \in Sector
    BY <1>2 DEF Along
  <2>3. \A i \in 1 .. N : \A x : x \in ToSet(S[i]) <=> \E k \in 1 .. Len(flash[Forward[i]].tsls) : x = <<Forward[i], k>>
    BY <1>4
  <2>4. \A p : p \in Records <=> \E s \in Sector : \E j \in 1 .. Len(flash[s].tsls) : p = <<s, j>>
    BY RecordsNow
  <2> TAKE x
  <2>5. ASSUME x \in Records PROVE x \in ToSet(FlattenSeq(S))
    <3>1. PICK s \in Sector : \E j \in 1 .. Len(flash[s].tsls) : x = <<s, j>>
      BY <2>4, <2>5
    <3>2. PICK i \in 1 .. N : Forward[i] = s
      BY <2>1
    <3>3. x \in ToSet(S[i])
      BY <2>3, <3>1, <3>2
    <3> QED BY <1>5, <3>3
  <2>6. ASSUME x \in ToSet(FlattenSeq(S)) PROVE x \in Records
    <3>1. PICK i \in 1 .. N : x \in ToSet(S[i])
      BY <1>5, <2>6
    <3> QED BY <2>2, <2>3, <2>4, <3>1
  <2> QED BY <2>5, <2>6
<1> QED BY <1>1, <1>5, <1>6, ListOf

LEMMA CollectReverseNow ==
  ASSUME Rest
  PROVE  Listed(collect_reverse, Records) /\ Descending(collect_reverse)
<1> DEFINE v == Before(Backward, {s \in Sector : IsEmpty(s)})
           S == [i \in DOMAIN v |-> IF HasRecords(v[i]) THEN Downward(SecFor(v[i]).sec, SecFor(v[i]).endIdx)
                                    ELSE <<>>]
<1>1. collect_reverse = FlattenSeq(S)
  BY RingNow, NoAddrAssumption DEF collect_reverse
<1>2. Along(Backward, DownTime) /\ DownTime \in [Records -> Int]
  BY BackwardNow, TimesNow
<1> HIDE DEF v
<1>3. PICK m \in 0 .. N :
            /\ DOMAIN v = 1 .. m /\ Len(v) = m
            /\ \A i \in 1 .. m : v[i] = Backward[i] /\ v[i] \in Sector /\ HasRecords(v[i])
            /\ \A s \in Sector : HasRecords(s) => \E i \in 1 .. m : v[i] = s
  <2>1. v = Before(Backward, EmptySectors)
    BY DEF v, EmptySectors
  <2>2. \E m \in 0 .. N : CutAt(v, Backward, m)
    BY <1>2, <2>1, WalkCut
  <2> QED BY <2>2 DEF CutAt
<1>4. m \in Nat /\ Len(S) = m /\ (m = 0 => S = <<>>)
  BY <1>3, Geometry
<1>5. ASSUME NEW i \in 1 .. m, NEW s, s = Backward[i]
      PROVE  /\ S[i] \in Seq(Records) /\ SortedBy(DownTime, S[i])
             /\ \A x : x \in ToSet(S[i]) <=> \E k \in 1 .. Len(flash[s].tsls) : x = <<s, k>>
  <2>1. s \in Sector /\ s = v[i] /\ HasRecords(s)
    BY <1>3, <1>5
  <2>2. PICK n : n = Len(flash[s].tsls)
    OBVIOUS
  <2>3. n \in Nat /\ n >= 1
    BY <2>1, <2>2, SectorNow
  <2>4. SecFor(s).sec = s /\ SecFor(s).endIdx = n
    BY <2>1, <2>2, <2>3, InfoNow
  <2>5. S[i] = Reverse(Numbers(s, 1, n))
    BY <1>3, <2>1, <2>3, <2>4 DEF Downward
  <2> HIDE DEF S
  <2> QED BY <2>1, <2>2, <2>5, SectorDown
<1> HIDE DEF S
<1>6. /\ FlattenSeq(S) \in Seq(Records) /\ SortedBy(DownTime, FlattenSeq(S))
      /\ \A x : x \in ToSet(FlattenSeq(S)) <=> \E i \in 1 .. m : x \in ToSet(S[i])
  <2>1. SectorPieces(Backward, DownTime, S, m)
    BY <1>4, <1>5 DEF SectorPieces
  <2> QED BY <1>2, <2>1, PiecesAlong
<1>7. ASSUME NEW x PROVE x \in ToSet(FlattenSeq(S)) <=> x \in Records
  <2>1. ASSUME x \in Records PROVE x \in ToSet(FlattenSeq(S))
    <3>1. PICK s \in Sector : \E j \in 1 .. Len(flash[s].tsls) : x = <<s, j>>
      BY <2>1, RecordsNow
    <3>2. HasRecords(s)
      BY <3>1, SectorNow
    <3>3. PICK i \in 1 .. m : v[i] = s
      BY <1>3, <3>2
    <3>4. x \in ToSet(S[i])
      BY <1>3, <1>5, <3>1, <3>3
    <3> QED BY <1>6, <3>4
  <2>2. ASSUME x \in ToSet(FlattenSeq(S)) PROVE x \in Records
    <3>1. PICK i \in 1 .. m : x \in ToSet(S[i])
      BY <1>6, <2>2
    <3>2. Backward[i] \in Sector /\ \E k \in 1 .. Len(flash[Backward[i]].tsls) : x = <<Backward[i], k>>
      BY <1>3, <1>5, <3>1
    <3> QED BY <3>2, RecordsNow
  <2> QED BY <2>1, <2>2
<1> QED BY <1>1, <1>6, <1>7, ListOf

LEMMA QueryInvAlways == Spec => []QueryInv
BY TsInductive, RingAlways, LogInvariant, HeadersTrue, PTL DEF QueryInv

\* As long as nothing failed an iteration visits every record once, in order.
THEOREM IterationsComplete == Spec => []IterationsAgree
<1>1. QueryInv => IterationsAgree
  <2> SUFFICES ASSUME QueryInv, Ready, Calm
               PROVE  /\ Listed(collect, Records) /\ Ascending(collect)
                      /\ Listed(collect_reverse, Records) /\ Descending(collect_reverse)
    BY DEF IterationsAgree
  <2>1. Rest
    BY DEF Rest, Still, Ready
  <2> QED BY <2>1, CollectNow, CollectReverseNow
<1> QED BY <1>1, QueryInvAlways, PTL

----------------------------------------------------------------------------
(* What a query reads in one sector *)

\* The direction of a query: it begins at low and ends at high, in the order of tm.
Direction(from, to, tm, low, high) ==
    \/ from <= to /\ tm = UpTime /\ low = from /\ high = to
    \/ from > to /\ tm = DownTime /\ low = - from /\ high = - to

\* The places that are read in sector s: the records from low on, in order, and unused slots.
PlacesOK(ps, s, tm, low) ==
    /\ Len(ps) \in Nat /\ DOMAIN ps = 1 .. Len(ps)
    /\ \A k \in 1 .. Len(ps) :
          \/ Slot(ps[k][1], ps[k][2]).status = "Unused"
          \/ \E j \in 1 .. Len(flash[s].tsls) : ps[k] = <<s, j>> /\ tm[<<s, j>>] >= low
    /\ \A k, m \in 1 .. Len(ps) :
          k < m /\ ps[k] \in Records /\ ps[m] \in Records => tm[ps[k]] < tm[ps[m]]
    /\ \A j \in 1 .. Len(flash[s].tsls) :
          tm[<<s, j>>] >= low => \E k \in 1 .. Len(ps) : ps[k] = <<s, j>>

LEMMA InRangeIs ==
  ASSUME Rest, NEW from \in Int, NEW to \in Int, NEW tm, NEW low, NEW high,
         Direction(from, to, tm, low, high), NEW p \in Records
  PROVE  /\ tm \in [Records -> Int] /\ low \in Int /\ high \in Int /\ low <= high
         /\ tm[p] \in Int
         /\ InRange(Rec(p).time, from, to) <=> low <= tm[p] /\ tm[p] <= high
<1>1. Rec(p).time \in Int /\ UpTime[p] = Rec(p).time /\ DownTime[p] = - Rec(p).time
  <2>1. Rec(p).time \in Int
    BY TimeOf
  <2> QED BY <2>1 DEF UpTime, DownTime
<1>2. CASE from <= to /\ tm = UpTime /\ low = from /\ high = to
  BY <1>1, <1>2, TimesNow DEF InRange
<1>3. CASE from > to /\ tm = DownTime /\ low = - from /\ high = - to
  BY <1>1, <1>3, TimesNow DEF InRange
<1> QED BY <1>2, <1>3 DEF Direction

\* Reading ends at a record that is behind the interval.
LEMMA OutsideIs ==
  ASSUME Rest, NEW from \in Int, NEW to \in Int, NEW tm, NEW low, NEW high,
         Direction(from, to, tm, low, high),
         NEW s \in Sector, NEW j \in 1 .. Len(flash[s].tsls), NEW p, p = <<s, j>>, tm[p] >= low
  PROVE  /\ Slot(p[1], p[2]).status # "Unused" /\ p \in Records
         /\ Outside(p, from, to) <=> tm[p] > high
<1>1. /\ p \in Records /\ Rec(p) = flash[s].tsls[j] /\ p[1] = s /\ p[2] = j
      /\ Slot(s, j).status # "Unused" /\ Slot(s, j).time = flash[s].tsls[j].time
  BY SlotNow
<1>2. Outside(p, from, to) <=> ~InRange(Rec(p).time, from, to)
  BY <1>1 DEF Outside
<1>3. InRange(Rec(p).time, from, to) <=> low <= tm[p] /\ tm[p] <= high
  BY <1>1, InRangeIs
<1>4. tm[p] \in Int /\ low \in Int /\ high \in Int
  BY <1>1, InRangeIs
<1> QED BY <1>1, <1>2, <1>3, <1>4

LEMMA ReportedIs ==
  ASSUME Rest, NEW from \in Int, NEW to \in Int, NEW tm, NEW low, NEW high,
         Direction(from, to, tm, low, high), tm \in [Records -> Int],
         NEW s \in Sector, NEW ps, PlacesOK(ps, s, tm, low), NEW q, q = Reported(ps, from, to)
  PROVE  /\ q \in Seq(Records) /\ SortedBy(tm, q)
         /\ \A x : x \in ToSet(q) <=> \E j \in 1 .. Len(flash[s].tsls) :
                                         x = <<s, j>> /\ low <= tm[x] /\ tm[x] <= high
         /\ IsEnd(ps, from, to) => \E j \in 1 .. Len(flash[s].tsls) : tm[<<s, j>>] > high
<1> DEFINE K == {k \in DOMAIN ps : Outside(ps[k], from, to)}
           n == IF K = {} THEN Len(ps) ELSE Least(K) - 1
           Unread(k) == Slot(ps[k][1], ps[k][2]).status = "Unused"
           S == [k \in 1 .. n |-> IF Unread(k) THEN <<>> ELSE <<ps[k]>>]
<1>1. q = FlattenSeq(S)
  BY DEF Reported
<1>2. /\ Len(ps) \in Nat /\ DOMAIN ps = 1 .. Len(ps)
      /\ \A k \in 1 .. Len(ps) : ~Unread(k) =>
            \E j \in 1 .. Len(flash[s].tsls) : ps[k] = <<s, j>> /\ tm[<<s, j>>] >= low
  BY DEF PlacesOK
<1>3. ASSUME NEW k \in 1 .. Len(ps), ~Unread(k)
      PROVE  ps[k] \in Records /\ tm[ps[k]] \in Int /\ (Outside(ps[k], from, to) <=> tm[ps[k]] > high)
  <2>1. PICK j \in 1 .. Len(flash[s].tsls) : ps[k] = <<s, j>> /\ tm[<<s, j>>] >= low
    BY <1>2, <1>3
  <2> QED BY <2>1, OutsideIs
<1>4. \A k \in 1 .. Len(ps) : k \in K <=> ~Unread(k) /\ tm[ps[k]] > high
  <2>1. \A k \in 1 .. Len(ps) : Outside(ps[k], from, to) => ~Unread(k)
    BY DEF Outside
  <2> QED BY <1>2, <1>3, <2>1
<1>5. /\ n \in 0 .. Len(ps) /\ \A k \in 1 .. n : k \notin K
      /\ \A k \in 1 .. Len(ps) : k > n => \E e \in K : e <= k
  <2>1. CASE K = {}
    BY <1>2, <2>1
  <2>2. CASE K # {}
    <3>1. K \subseteq Nat
      BY <1>2
    <3>2. Least(K) \in K /\ \A y \in K : Least(K) <= y
      <4> HIDE DEF K
      <4> QED BY <2>2, <3>1, LeastExists
    <3>3. PICK e : e = Least(K)
      OBVIOUS
    <3>4. e \in 1 .. Len(ps) /\ e \in K /\ n = e - 1
      BY <1>2, <2>2, <3>2, <3>3
    <3>5. \A k \in K : e <= k
      BY <3>2, <3>3
    <3> HIDE DEF K, n
    <3> QED BY <1>2, <3>4, <3>5
  <2> QED BY <2>1, <2>2
<1> HIDE DEF K, n
<1>6. \A k \in 1 .. n : k \in 1 .. Len(ps)
  BY <1>2, <1>5
<1>7. Pieces(Records, tm, S, n)
  <2>1. Len(S) = n /\ (n = 0 => S = <<>>)
    BY <1>2, <1>5
  <2>2. ASSUME NEW k \in 1 .. n PROVE S[k] \in Seq(Records) /\ SortedBy(tm, S[k])
    <3>1. CASE Unread(k)
      BY <3>1 DEF SortedBy
    <3>2. CASE ~Unread(k)
      <4>1. S[k] = <<ps[k]>> /\ ps[k] \in Records
        BY <1>3, <1>6, <3>2
      <4> QED BY <4>1 DEF SortedBy
    <3> QED BY <3>1, <3>2
  <2>3. ASSUME NEW k \in 1 .. n, NEW m \in 1 .. n, k < m PROVE InFront(tm, S[k], S[m])
    <3>1. CASE Unread(k) \/ Unread(m)
      BY <3>1 DEF InFront
    <3>2. CASE ~Unread(k) /\ ~Unread(m)
      <4>1. S[k] = <<ps[k]>> /\ ps[k] \in Records /\ S[m] = <<ps[m]>> /\ ps[m] \in Records
        BY <1>3, <1>6, <3>2
      <4>2. tm[ps[k]] < tm[ps[m]]
        BY <1>6, <2>3, <4>1 DEF PlacesOK
      <4> QED BY <4>1, <4>2 DEF InFront
    <3> QED BY <3>1, <3>2
  <2> QED BY <2>1, <2>2, <2>3 DEF Pieces
<1>8. \A x : (\E k \in 1 .. n : x \in ToSet(S[k])) <=> \E k \in 1 .. n : ~Unread(k) /\ x = ps[k]
  <2>1. ASSUME NEW k \in 1 .. n, NEW x PROVE x \in ToSet(S[k]) <=> ~Unread(k) /\ x = ps[k]
    <3>1. CASE Unread(k)
      BY <3>1 DEF ToSet
    <3>2. CASE ~Unread(k)
      <4>1. S[k] = <<ps[k]>>
        BY <3>2
      <4>2. ToSet(S[k]) = {ps[k]}
        BY <4>1 DEF ToSet
      <4> QED BY <3>2, <4>2
    <3> QED BY <3>1, <3>2
  <2> HIDE DEF S, Unread
  <2> QED BY <2>1
<1> HIDE DEF S, Unread
<1>9. n \in Nat
  BY <1>2, <1>5
<1>10. /\ q \in Seq(Records) /\ SortedBy(tm, q)
       /\ \A x : x \in ToSet(q) <=> \E k \in 1 .. n : ~Unread(k) /\ x = ps[k]
  BY <1>1, <1>7, <1>8, <1>9, FlattenSorted
<1>11. ASSUME NEW x, x \in ToSet(q)
       PROVE  \E j \in 1 .. Len(flash[s].tsls) : x = <<s, j>> /\ low <= tm[x] /\ tm[x] <= high
  <2>1. PICK k \in 1 .. n : ~Unread(k) /\ x = ps[k]
    BY <1>10, <1>11
  <2>2. k \in 1 .. Len(ps) /\ k \notin K
    BY <1>5, <1>6
  <2>3. PICK j \in 1 .. Len(flash[s].tsls) : x = <<s, j>> /\ tm[<<s, j>>] >= low
    BY <1>2, <2>1, <2>2
  <2>4. tm[x] \in Int /\ ~ (tm[x] > high) /\ high \in Int /\ low \in Int
    BY <1>3, <1>4, <2>1, <2>2, InRangeIs
  <2> QED BY <2>3, <2>4
<1>12. ASSUME NEW j \in 1 .. Len(flash[s].tsls), NEW x, x = <<s, j>>, low <= tm[x], tm[x] <= high
       PROVE  x \in ToSet(q)
  <2>1. x \in Records /\ Slot(x[1], x[2]).status # "Unused"
    BY <1>12, SlotNow
  <2>2. tm[x] \in Int /\ low \in Int /\ high \in Int
    BY <2>1, InRangeIs
  <2>3. PICK k \in 1 .. Len(ps) : ps[k] = x
    BY <1>12, <2>2 DEF PlacesOK
  <2>4. ~Unread(k)
    BY <2>1, <2>3 DEF Unread
  <2>5. k <= n
    <3> SUFFICES ASSUME k > n PROVE FALSE
      BY <1>9
    <3>1. PICK e \in K : e <= k
      BY <1>5
    <3>2. e \in 1 .. Len(ps) /\ ~Unread(e) /\ tm[ps[e]] > high
      BY <1>2, <1>4, <3>1 DEF K
    <3>3. ps[e] \in Records /\ tm[ps[e]] \in Int
      BY <1>3, <3>2
    <3>4. e # k
      BY <1>12, <2>2, <2>3, <3>2
    <3>5. tm[ps[e]] < tm[ps[k]]
      BY <1>2, <2>1, <2>3, <3>1, <3>2, <3>3, <3>4 DEF PlacesOK
    <3> QED BY <1>12, <2>2, <2>3, <3>2, <3>3, <3>5
  <2>6. k \in 1 .. n
    BY <1>9, <2>5
  <2> QED BY <1>10, <2>3, <2>4, <2>6
<1>13. ASSUME IsEnd(ps, from, to) PROVE \E j \in 1 .. Len(flash[s].tsls) : tm[<<s, j>>] > high
  <2>1. PICK k \in 1 .. Len(ps) : k \in K
    BY <1>2, <1>13 DEF IsEnd, K
  <2>2. ~Unread(k) /\ tm[ps[k]] > high
    BY <1>4, <2>1
  <2> QED BY <1>2, <2>2
<1> QED BY <1>10, <1>11, <1>12, <1>13

\* Up: from the first record that is not older than the beginning.
LEMMA PlacesUp ==
  ASSUME Rest, NEW from \in Int, NEW to \in Int, from <= to, NEW s \in Sector,
         NEW n, n = Len(flash[s].tsls), n >= 1, from <= flash[s].tsls[n].time
  PROVE  PlacesOK(Places(SecFor(s), from, to), s, UpTime, from)
<1>1. n \in Nat /\ n \in 1 .. n /\ SecFor(s).sec = s /\ SecFor(s).endIdx = n
  BY SectorNow, InfoNow
<1>2. PICK j : j = search_start_tsl_addr(s, n, from, to)
  OBVIOUS
<1>3. Answers(s, 1, n, from, to, j)
  BY <1>1, <1>2, IncreasingNow, SearchIs
<1>4. \A k \in 1 .. n : /\ Slot(s, k).time = UpTime[<<s, k>>] /\ <<s, k>> \in Records
                        /\ UpTime[<<s, k>>] \in Int /\ UpTime[<<s, k>>] = flash[s].tsls[k].time
  <2> TAKE k \in 1 .. n
  <2>1. Slot(s, k).time = flash[s].tsls[k].time /\ <<s, k>> \in Records
    BY SlotNow
  <2>2. UpTime[<<s, k>>] = flash[s].tsls[k].time /\ UpTime[<<s, k>>] \in Int
    BY <2>1, TimesNow
  <2> QED BY <2>1, <2>2
<1>5. \A k, m \in 1 .. n : k < m => UpTime[<<s, k>>] < UpTime[<<s, m>>]
  <2> TAKE k, m \in 1 .. n
  <2>1. k < m => flash[s].tsls[k].time < flash[s].tsls[m].time
    BY SlotNow
  <2> QED BY <1>4, <2>1
<1>6. j \in 1 .. n /\ (\A k \in 1 .. n : UpTime[<<s, k>>] >= from <=> j <= k)
  <2>1. ASSUME NEW k \in 1 .. n, Slot(s, k).time = from, j = k
        PROVE  j \in 1 .. n /\ (\A m \in 1 .. n : UpTime[<<s, m>>] >= from <=> j <= m)
    <3>1. UpTime[<<s, j>>] = from
      BY <1>4, <2>1
    <3>2. ASSUME NEW m \in 1 .. n PROVE UpTime[<<s, m>>] >= from <=> j <= m
      BY <1>4, <1>5, <2>1, <3>1
    <3> QED BY <2>1, <3>2
  <2>2. ASSUME NEW k \in 1 .. n+1, \A m \in 1 .. k-1 : Slot(s, m).time < from,
               \A m \in k .. n : Slot(s, m).time > from, j = SearchEnd(s, k, from, to)
        PROVE  j \in 1 .. n /\ (\A m \in 1 .. n : UpTime[<<s, m>>] >= from <=> j <= m)
    <3>1. j = k
      BY <2>2 DEF SearchEnd
    <3>2. k \in 1 .. n
      <4>1. Slot(s, n).time >= from /\ Slot(s, n).time \in Int
        BY <1>1, <1>4
      <4>2. ~ (n \in 1 .. k-1)
        BY <2>2, <4>1
      <4> QED BY <1>1, <4>2
    <3>3. ASSUME NEW m \in 1 .. n PROVE UpTime[<<s, m>>] >= from <=> j <= m
      <4>1. m \in 1 .. k-1 \/ m \in k .. n
        BY <3>2
      <4> QED BY <1>4, <2>2, <3>1, <3>2, <4>1
    <3> QED BY <3>1, <3>2, <3>3
  <2> QED BY <1>3, <2>1, <2>2 DEF Answers
<1>7. PICK ps : ps = Numbers(s, j, n) /\ ps = Places(SecFor(s), from, to)
  <2>1. Places(SecFor(s), from, to) = Numbers(s, j, n)
    BY <1>1, <1>2, <1>6 DEF Places, AtLeast
  <2> QED BY <2>1
<1>8. /\ DOMAIN ps = 1 .. n - j + 1 /\ Len(ps) = n - j + 1 /\ n - j + 1 \in Nat
      /\ \A k \in 1 .. n - j + 1 : ps[k] = <<s, j + k - 1>> /\ j + k - 1 \in 1 .. n
  <2>1. j \in Nat /\ n \in Nat /\ j <= n + 1 /\ n - j + 1 \in Nat /\ j >= 1
    BY <1>1, <1>6
  <2>2. \A k \in 1 .. n - j + 1 : j + k - 1 \in 1 .. n
    BY SMTT(20), <2>1
  <2>3. /\ DOMAIN ps = 1 .. n - j + 1 /\ Len(ps) = n - j + 1
        /\ \A k \in 1 .. n - j + 1 : ps[k] = <<s, j + k - 1>>
    <3>1. PICK v \in Nat : v = j
      BY <2>1
    <3>2. PICK u \in Nat : u = n
      BY <2>1
    <3>3. v <= u + 1
      BY <2>1, <3>1, <3>2
    <3>4. ps = Numbers(s, v, u)
      BY <1>7, <3>1, <3>2
    <3>5. /\ DOMAIN Numbers(s, v, u) = 1 .. u - v + 1
          /\ Len(Numbers(s, v, u)) = u - v + 1
          /\ \A k \in 1 .. u - v + 1 : Numbers(s, v, u)[k] = <<s, v + k - 1>>
      BY <3>3, NumbersAre
    <3> QED BY <3>1, <3>2, <3>4, <3>5
  <2> QED BY <2>1, <2>2, <2>3
<1>9. ASSUME NEW k \in 1 .. Len(ps)
      PROVE  \E m \in 1 .. n : ps[k] = <<s, m>> /\ UpTime[<<s, m>>] >= from
  <2>1. j + k - 1 \in 1 .. n /\ j <= j + k - 1 /\ ps[k] = <<s, j + k - 1>>
    BY <1>1, <1>6, <1>8
  <2> QED BY <1>6, <2>1
<1>10. ASSUME NEW k \in 1 .. Len(ps), NEW m \in 1 .. Len(ps), k < m PROVE UpTime[ps[k]] < UpTime[ps[m]]
  <2>1. j + k - 1 \in 1 .. n /\ j + m - 1 \in 1 .. n /\ j + k - 1 < j + m - 1
    BY <1>1, <1>6, <1>8, <1>10
  <2> QED BY <1>5, <1>8, <2>1
<1>11. ASSUME NEW m \in 1 .. n, UpTime[<<s, m>>] >= from PROVE \E k \in 1 .. Len(ps) : ps[k] = <<s, m>>
  <2>1. m - j + 1 \in 1 .. n - j + 1 /\ j + (m - j + 1) - 1 = m
    BY <1>1, <1>6, <1>11
  <2> QED BY <1>8, <2>1
<1>12. PlacesOK(ps, s, UpTime, from)
  BY <1>8, <1>9, <1>10, <1>11 DEF PlacesOK
<1> QED BY <1>7, <1>12

\* Down: from the last record that is not newer than the beginning; the slot behind the
\* last record may come first.
LEMMA PlacesDown ==
  ASSUME Rest, NoneExact, NEW from \in Int, NEW to \in Int, from > to, NEW s \in Sector,
         NEW n, n = Len(flash[s].tsls), n >= 1, from >= flash[s].tsls[1].time
  PROVE  PlacesOK(Places(SecFor(s), from, to), s, DownTime, - from)
<1>1. n \in Nat /\ 1 \in 1 .. n /\ SecFor(s).sec = s /\ SecFor(s).endIdx = n
  BY SectorNow, InfoNow
<1>2. PICK j : j = search_start_tsl_addr(s, n, from, to)
  OBVIOUS
<1>3. Answers(s, 1, n, from, to, j)
  BY <1>1, <1>2, IncreasingNow, SearchIs
<1> DEFINE T(k) == flash[s].tsls[k].time
<1>4. \A k \in 1 .. n : /\ Slot(s, k).time = T(k) /\ <<s, k>> \in Records /\ T(k) \in Int /\ T(k) >= 0
                        /\ DownTime[<<s, k>>] = - T(k)
  <2> TAKE k \in 1 .. n
  <2>1. Slot(s, k).time = T(k) /\ <<s, k>> \in Records /\ T(k) \in Int /\ T(k) >= 0
    BY SlotNow
  <2> QED BY <2>1, TimesNow
<1>5. \A k, m \in 1 .. n : k < m => T(k) < T(m)
  BY SlotNow
<1>6. Slot(s, n + 1).time = 0 /\ Slot(s, n + 1).status = "Unused" /\ from >= 0
  <2>1. n + 1 \in Nat /\ n + 1 > n
    BY <1>1
  <2>2. from >= T(1) /\ T(1) \in Int /\ T(1) >= 0
    BY <1>1, <1>4
  <2> QED BY <2>1, <2>2, SlotBehind
<1> HIDE DEF T
<1>7. j \in 1 .. n+1 /\ (\A k \in 1 .. n : T(k) <= from <=> k <= j)
  <2>1. ASSUME NEW k \in 1 .. n, Slot(s, k).time = from, j = k
        PROVE  j \in 1 .. n+1 /\ (\A m \in 1 .. n : T(m) <= from <=> m <= j)
    <3>1. T(j) = from
      BY <1>4, <2>1
    <3>2. ASSUME NEW m \in 1 .. n PROVE T(m) <= from <=> m <= j
      <4>1. m < j => T(m) < from
        BY <1>5, <2>1, <3>1
      <4>2. j < m => from < T(m)
        BY <1>5, <2>1, <3>1
      <4>3. T(m) \in Int
        BY <1>4
      <4>4. j \in Int /\ m \in Int
        BY <1>1, <2>1
      <4>5. m = j => T(m) = from
        BY <3>1
      <4> QED BY <4>1, <4>2, <4>3, <4>4, <4>5
    <3> QED BY <1>1, <2>1, <3>2
  <2>2. ASSUME NEW k \in 1 .. n+1, \A m \in 1 .. k-1 : Slot(s, m).time < from,
               \A m \in k .. n : Slot(s, m).time > from, j = SearchEnd(s, k, from, to)
        PROVE  j \in 1 .. n+1 /\ (\A m \in 1 .. n : T(m) <= from <=> m <= j)
    <3>1. k # 1
      <4>1. ~ (1 \in k .. n)
        <5>1. from >= T(1) /\ T(1) = Slot(s, 1).time /\ T(1) \in Int
          BY <1>1, <1>4 DEF T
        <5> QED BY <2>2, <5>1
      <4> QED BY <1>1, <4>1
    <3>2. CASE k = n + 1
      <4>1. j = k
        BY <1>6, <2>2, <3>2 DEF SearchEnd
      <4>2. ASSUME NEW m \in 1 .. n PROVE T(m) <= from /\ m <= j
        <5>1. m \in 1 .. k-1 /\ m <= j
          BY <1>1, <3>2, <4>1
        <5>2. Slot(s, m).time < from /\ Slot(s, m).time = T(m) /\ T(m) \in Int
          BY <1>4, <2>2, <5>1
        <5> QED BY <5>1, <5>2
      <4> QED BY <2>2, <4>1, <4>2
    <3>3. CASE k # n + 1
      <4>1. k \in k .. n /\ k \in 1 .. n
        BY <1>1, <2>2, <3>3
      <4>2. j = k - 1
        BY <2>2, <4>1 DEF SearchEnd
      <4>3. ASSUME NEW m \in 1 .. n PROVE T(m) <= from <=> m <= j
        <5>1. CASE m \in 1 .. k-1
          <6>1. Slot(s, m).time < from
            BY <2>2, <5>1
          <6>2. Slot(s, m).time = T(m) /\ T(m) \in Int
            BY <1>4
          <6>3. m <= k - 1
            BY <5>1
          <6> QED BY <4>2, <6>1, <6>2, <6>3
        <5>2. CASE m \in k .. n
          <6>1. Slot(s, m).time > from
            BY <2>2, <5>2
          <6>2. Slot(s, m).time = T(m) /\ T(m) \in Int
            BY <1>4
          <6>3. ~ (m <= k - 1)
            BY <4>1, <5>2
          <6> QED BY <4>2, <6>1, <6>2, <6>3
        <5> QED BY <4>1, <5>1, <5>2
      <4> QED BY <1>1, <3>1, <4>1, <4>2, <4>3
    <3> QED BY <3>2, <3>3
  <2> QED BY <1>3, <2>1, <2>2 DEF Answers
<1>8. PICK ps : ps = Reverse(Numbers(s, 1, j)) /\ ps = Places(SecFor(s), from, to)
  <2>1. Places(SecFor(s), from, to) = Reverse(Numbers(s, 1, j))
    BY <1>1, <1>2, <1>7 DEF Places
  <2> QED BY <2>1
<1>9. /\ DOMAIN ps = 1 .. j /\ Len(ps) = j /\ j \in Nat
      /\ \A k \in 1 .. j : ps[k] = <<s, j - k + 1>>
  <2>1. j \in Nat
    BY <1>1, <1>7
  <2> QED BY <1>8, <2>1, ReverseIs
<1>10. ASSUME NEW k \in 1 .. j
       PROVE  \/ Slot(ps[k][1], ps[k][2]).status = "Unused"
              \/ \E m \in 1 .. n : ps[k] = <<s, m>> /\ DownTime[<<s, m>>] >= - from
  <2>1. CASE j - k + 1 = n + 1
    <3>1. ps[k] = <<s, n + 1>>
      BY <1>9, <2>1
    <3> QED BY <1>6, <3>1
  <2>2. CASE j - k + 1 # n + 1
    <3>1. j - k + 1 \in 1 .. n /\ j - k + 1 <= j
      BY <1>1, <1>7, <2>2
    <3>2. T(j - k + 1) <= from /\ T(j - k + 1) \in Int
      BY <1>4, <1>7, <3>1
    <3>3. DownTime[<<s, j - k + 1>>] >= - from
      BY <1>4, <3>1, <3>2
    <3> QED BY <1>9, <3>1, <3>3
  <2> QED BY <2>1, <2>2
<1>11. ASSUME NEW k \in 1 .. j, NEW m \in 1 .. j, k < m, ps[k] \in Records, ps[m] \in Records
       PROVE  DownTime[ps[k]] < DownTime[ps[m]]
  <2>1. ps[k] = <<s, j - k + 1>> /\ ps[m] = <<s, j - m + 1>>
    BY <1>9
  <2>2. j - k + 1 \in 1 .. n /\ j - m + 1 \in 1 .. n
    BY <1>11, <2>1, RecordsNow
  <2>3. j - m + 1 < j - k + 1
    BY <1>9, <1>11
  <2>4. T(j - m + 1) < T(j - k + 1) /\ T(j - m + 1) \in Int /\ T(j - k + 1) \in Int
    BY <1>4, <1>5, <2>2, <2>3
  <2>5. DownTime[ps[k]] = - T(j - k + 1) /\ DownTime[ps[m]] = - T(j - m + 1)
    BY <1>4, <2>1, <2>2
  <2> QED BY <2>4, <2>5
<1>12. ASSUME NEW m \in 1 .. n, DownTime[<<s, m>>] >= - from PROVE \E k \in 1 .. j : ps[k] = <<s, m>>
  <2>1. T(m) <= from
    BY <1>4, <1>12
  <2>2. m <= j
    BY <1>7, <2>1
  <2>3. j - m + 1 \in 1 .. j /\ j - (j - m + 1) + 1 = m
    BY <1>1, <1>9, <2>2
  <2> QED BY <1>9, <2>3
<1>13. PlacesOK(ps, s, DownTime, - from)
  BY <1>9, <1>10, <1>11, <1>12 DEF PlacesOK
<1> QED BY <1>8, <1>13

\* Whether the interval begins in a sector or before it.
LEMMA ReachedIs ==
  ASSUME Rest, NEW from \in Int, NEW to \in Int, NEW tm, NEW low, NEW high,
         Direction(from, to, tm, low, high), NEW s \in Sector, NEW n, n = Len(flash[s].tsls), n >= 1,
         NEW isFirst \in BOOLEAN
  PROVE  Reached(SecFor(s), isFirst, from, to) <=> \E j \in 1 .. n : tm[<<s, j>>] >= low
<1>1. /\ n \in Nat /\ n \in 1 .. n /\ 1 \in 1 .. n /\ SecFor(s).start = flash[s].tsls[1].time
      /\ SecFor(s).endTime = flash[s].tsls[n].time
  BY SectorNow, InfoNow
<1> DEFINE T(k) == flash[s].tsls[k].time
<1>2. \A k \in 1 .. n : T(k) \in Int /\ UpTime[<<s, k>>] = T(k) /\ DownTime[<<s, k>>] = - T(k)
  <2> TAKE k \in 1 .. n
  <2>1. T(k) \in Int
    BY SectorNow, CommittedType
  <2> QED BY <2>1, TimesNow
<1>3. \A k, m \in 1 .. n : k < m => T(k) < T(m)
  BY SlotNow
<1>4. SecFor(s).start = T(1) /\ SecFor(s).endTime = T(n)
  BY <1>1
<1> HIDE DEF T
<1>5. \A k \in 1 .. n : T(1) <= T(k) /\ T(k) <= T(n)
  <2> TAKE k \in 1 .. n
  <2>1. (k = 1 \/ T(1) < T(k)) /\ (k = n \/ T(k) < T(n))
    BY <1>1, <1>3
  <2>2. T(1) \in Int /\ T(k) \in Int /\ T(n) \in Int
    BY <1>1, <1>2
  <2> QED BY <2>1, <2>2
<1>6. CASE from <= to /\ tm = UpTime /\ low = from
  <2>1. Reached(SecFor(s), isFirst, from, to) <=> from <= T(n)
    <3>1. T(1) <= T(n) /\ T(1) \in Int /\ T(n) \in Int
      BY <1>1, <1>2, <1>5
    <3> QED BY <1>4, <1>6, <3>1 DEF Reached
  <2>2. (\E j \in 1 .. n : UpTime[<<s, j>>] >= from) <=> from <= T(n)
    <3>1. ASSUME NEW j \in 1 .. n, UpTime[<<s, j>>] >= from PROVE from <= T(n)
      <4>1. UpTime[<<s, j>>] = T(j) /\ T(j) \in Int /\ T(n) \in Int /\ T(j) <= T(n)
        BY <1>1, <1>2, <1>5
      <4> QED BY <3>1, <4>1
    <3>2. from <= T(n) => UpTime[<<s, n>>] >= from
      BY <1>1, <1>2
    <3> QED BY <1>1, <3>1, <3>2
  <2> QED BY <1>6, <2>1, <2>2
<1>7. CASE from > to /\ tm = DownTime /\ low = - from
  <2>1. Reached(SecFor(s), isFirst, from, to) <=> from >= T(1)
    <3>1. T(1) <= T(n) /\ T(1) \in Int /\ T(n) \in Int
      BY <1>1, <1>2, <1>5
    <3> QED BY <1>4, <1>7, <3>1 DEF Reached
  <2>2. (\E j \in 1 .. n : DownTime[<<s, j>>] >= - from) <=> from >= T(1)
    <3>1. ASSUME NEW j \in 1 .. n, DownTime[<<s, j>>] >= - from PROVE from >= T(1)
      <4>1. DownTime[<<s, j>>] = - T(j) /\ T(j) \in Int /\ T(1) \in Int /\ T(1) <= T(j)
        BY <1>1, <1>2, <1>5
      <4> QED BY <3>1, <4>1
    <3>2. from >= T(1) => DownTime[<<s, 1>>] >= - from
      BY <1>1, <1>2
    <3> QED BY <1>1, <3>1, <3>2
  <2> QED BY <1>7, <2>1, <2>2
<1> QED BY <1>6, <1>7 DEF Direction

\* The places that are read in a sector when the interval begins in it or before it.
LEMMA PlacesAre ==
  ASSUME Rest, NEW from \in Int, NEW to \in Int, NoneExact \/ from <= to, NEW tm, NEW low, NEW high,
         Direction(from, to, tm, low, high), NEW s \in Sector, NEW n, n = Len(flash[s].tsls), n >= 1,
         \E j \in 1 .. n : tm[<<s, j>>] >= low
  PROVE  PlacesOK(Places(SecFor(s), from, to), s, tm, low)
<1>1. Reached(SecFor(s), FALSE, from, to)
  BY ReachedIs
<1>2. SecFor(s).start = flash[s].tsls[1].time /\ SecFor(s).endTime = flash[s].tsls[n].time
  BY SectorNow, InfoNow
<1>3. CASE from <= to /\ tm = UpTime /\ low = from
  <2>1. from <= flash[s].tsls[n].time
    BY <1>1, <1>2, <1>3 DEF Reached
  <2> QED BY <1>3, <2>1, PlacesUp
<1>4. CASE from > to /\ tm = DownTime /\ low = - from
  <2>1. from >= flash[s].tsls[1].time
    BY <1>1, <1>2, <1>4 DEF Reached
  <2>2. NoneExact
    BY <1>4
  <2> QED BY <1>4, <2>1, <2>2, PlacesDown
<1> QED BY <1>3, <1>4 DEF Direction

\* In a sector in which nothing is read there is nothing to read.
LEMMA NoPlaces ==
  ASSUME NEW s, NEW tm, NEW low, \A j \in 1 .. Len(flash[s].tsls) : ~ (tm[<<s, j>>] >= low)
  PROVE  PlacesOK(<<>>, s, tm, low)
BY DEF PlacesOK

\* A query reports the records of its interval, in the order of the walk.
LEMMA QueryAlong ==
  ASSUME Rest, NEW from \in Int, NEW to \in Int, NoneExact \/ from <= to, NEW tm, NEW low, NEW high,
         Direction(from, to, tm, low, high), Along(IF from <= to THEN Forward ELSE Backward, tm)
  PROVE  \E q : /\ q = collect_by_time(from, to) /\ q \in Seq(Records) /\ SortedBy(tm, q)
                /\ \A x : x \in ToSet(q) <=> x \in InInterval(from, to)
<1> DEFINE start == IF from <= to THEN oldest ELSE cur.sec
           W == IF from <= to THEN Forward ELSE Backward
           w == Before(IF from <= to THEN Forward ELSE Backward, {s \in Sector : IsEmpty(s)})
           found == {i \in DOMAIN w : /\ HasRecords(w[i])
                                      /\ Reached(SecFor(w[i]), w[i] = start, from, to)}
           visited == {i \in DOMAIN w : HasRecords(w[i]) /\ \E k \in found : k <= i}
           places == [i \in DOMAIN w |-> IF i \in visited THEN Places(SecFor(w[i]), from, to)
                                         ELSE <<>>]
           ends == {i \in visited : IsEnd(places[i], from, to)}
           last == IF ends = {} THEN Len(w) ELSE Least(ends)
           S == [i \in 1 .. last |-> Reported(places[i], from, to)]
<1>1. collect_by_time(from, to) = FlattenSeq(S)
  <2>1. start # NoAddr
    BY RingNow, NoAddrAssumption DEF BeginsAt
  <2> QED BY <2>1 DEF collect_by_time
<1>2. Along(W, tm) /\ W \in [1 .. N -> Sector] /\ N \in Nat
  BY Geometry DEF Along
<1>3. /\ w = Before(W, EmptySectors)
      /\ \A i \in DOMAIN w : /\ i \in found <=> HasRecords(w[i]) /\ Reached(SecFor(w[i]), w[i] = start, from, to)
                             /\ i \in visited <=> HasRecords(w[i]) /\ \E k \in found : k <= i
                             /\ places[i] = IF i \in visited THEN Places(SecFor(w[i]), from, to) ELSE <<>>
      /\ found \subseteq DOMAIN w /\ visited \subseteq DOMAIN w
      /\ DOMAIN S = 1 .. last /\ \A i \in 1 .. last : S[i] = Reported(places[i], from, to)
      /\ \A i : i \in ends <=> i \in visited /\ IsEnd(places[i], from, to)
      /\ (w[1] = start) \in BOOLEAN
  <2> HIDE DEF last
  <2> QED BY DEF EmptySectors
<1> HIDE DEF W, w, found, visited, places
<1>4. PICK m \in 0 .. N : CutAt(w, W, m)
  BY <1>2, <1>3, WalkCut
<1>5. /\ DOMAIN w = 1 .. m /\ Len(w) = m /\ m \in Nat
      /\ \A i \in 1 .. m : w[i] = W[i] /\ w[i] \in Sector /\ HasRecords(w[i]) /\ i \in 1 .. N
      /\ \A s \in Sector : HasRecords(s) => \E i \in 1 .. m : w[i] = s
  BY <1>2, <1>4 DEF CutAt
<1>6. tm \in [Records -> Int] /\ low \in Int /\ high \in Int /\ low <= high
  BY TimesNow DEF Direction
<1>7. \A i \in 1 .. m : Len(flash[w[i]].tsls) \in Nat /\ Len(flash[w[i]].tsls) >= 1
  BY <1>5, SectorNow
<1>8. \A i \in 1 .. m : \A k \in 1 .. Len(flash[w[i]].tsls) : tm[<<w[i], k>>] \in Int
  BY <1>5, <1>6, SlotNow
<1>9. \A i, j \in 1 .. m : i < j => \A k \in 1 .. Len(flash[w[i]].tsls), l \in 1 .. Len(flash[w[j]].tsls) :
                                       tm[<<w[i], k>>] < tm[<<w[j], l>>]
  <2> TAKE i, j \in 1 .. m
  <2>1. w[i] = W[i] /\ w[j] = W[j] /\ i \in 1 .. N /\ j \in 1 .. N
    BY <1>5
  <2> QED BY <1>2, <2>1 DEF Along
<1>10. ASSUME NEW i \in 1 .. m
       PROVE  i \in found <=> \E j \in 1 .. Len(flash[w[i]].tsls) : tm[<<w[i], j>>] >= low
  <2>1. w[i] \in Sector /\ HasRecords(w[i]) /\ (w[i] = start) \in BOOLEAN /\ i \in DOMAIN w
    BY <1>5
  <2>2. Reached(SecFor(w[i]), w[i] = start, from, to) <=> \E j \in 1 .. Len(flash[w[i]].tsls) : tm[<<w[i], j>>] >= low
    BY <1>7, <2>1, ReachedIs
  <2> QED BY <1>3, <2>1, <2>2
<1>11. ASSUME NEW i \in 1 .. m PROVE PlacesOK(places[i], w[i], tm, low)
  <2>1. w[i] \in Sector /\ HasRecords(w[i]) /\ i \in DOMAIN w
    BY <1>5
  <2>2. CASE i \in visited
    <3>1. PICK k \in found : k <= i
      BY <1>3, <2>1, <2>2
    <3>2. k \in 1 .. m
      BY <1>3, <1>5
    <3>3. PICK j \in 1 .. Len(flash[w[k]].tsls) : tm[<<w[k], j>>] >= low
      BY <1>10, <3>2
    <3>4. \E l \in 1 .. Len(flash[w[i]].tsls) : tm[<<w[i], l>>] >= low
      <4>1. CASE k = i
        BY <3>3, <4>1
      <4>2. CASE k # i
        <5>1. k < i /\ 1 \in 1 .. Len(flash[w[i]].tsls)
          BY <1>5, <1>7, <3>1, <3>2, <4>2
        <5>2. tm[<<w[k], j>>] < tm[<<w[i], 1>>]
          BY <1>9, <3>2, <3>3, <5>1
        <5>3. tm[<<w[k], j>>] \in Int /\ tm[<<w[i], 1>>] \in Int
          BY <1>8, <3>2, <3>3, <5>1
        <5>4. tm[<<w[i], 1>>] >= low
          BY <1>6, <3>3, <5>2, <5>3
        <5> QED BY <5>1, <5>4
      <4> QED BY <4>1, <4>2
    <3>5. places[i] = Places(SecFor(w[i]), from, to)
      BY <1>3, <2>1, <2>2
    <3> QED BY <1>7, <2>1, <3>4, <3>5, PlacesAre
  <2>3. CASE i \notin visited
    <3>1. i \notin found
      BY <1>3, <1>5, <2>1, <2>3
    <3>2. \A j \in 1 .. Len(flash[w[i]].tsls) : ~ (tm[<<w[i], j>>] >= low)
      BY <1>10, <3>1
    <3>3. places[i] = <<>>
      BY <1>3, <2>1, <2>3
    <3> QED BY <3>2, <3>3, NoPlaces
  <2> QED BY <2>2, <2>3
<1>12. ASSUME NEW i \in 1 .. m, NEW r, r = Reported(places[i], from, to)
       PROVE  /\ r \in Seq(Records) /\ SortedBy(tm, r)
              /\ \A x : x \in ToSet(r) <=> \E j \in 1 .. Len(flash[w[i]].tsls) :
                                              x = <<w[i], j>> /\ low <= tm[x] /\ tm[x] <= high
              /\ IsEnd(places[i], from, to) => \E j \in 1 .. Len(flash[w[i]].tsls) : tm[<<w[i], j>>] > high
  <2>0. PICK ps : ps = places[i]
    OBVIOUS
  <2>1. PICK s \in Sector : s = w[i] /\ ps = places[i]
    BY <1>5, <2>0
  <2>2. PlacesOK(ps, s, tm, low)
    BY <1>11, <2>1
  <2>3. r = Reported(ps, from, to)
    BY <1>12, <2>1
  <2>4. /\ r \in Seq(Records) /\ SortedBy(tm, r)
        /\ \A x : x \in ToSet(r) <=> \E j \in 1 .. Len(flash[s].tsls) :
                                        x = <<s, j>> /\ low <= tm[x] /\ tm[x] <= high
        /\ IsEnd(ps, from, to) => \E j \in 1 .. Len(flash[s].tsls) : tm[<<s, j>>] > high
    BY SMTT(20), <1>6, <2>2, <2>3, ReportedIs
  <2> QED BY <2>1, <2>4
<1>13. /\ last \in 0 .. m
       /\ \A i \in 1 .. m : i > last => \E e \in 1 .. m : e < i /\ e \in ends
  <2>1. CASE ends = {}
    BY <1>5, <2>1
  <2>2. CASE ends # {}
    <3>1. ends \subseteq 1 .. m
      BY <1>3, <1>5
    <3> HIDE DEF ends
    <3>2. Least(ends) \in ends
      <4>1. ends \subseteq Nat
        BY <1>5, <3>1
      <4> QED BY <2>2, <4>1, LeastExists
    <3>3. PICK e : e = Least(ends)
      OBVIOUS
    <3>4. last = e /\ e \in 1 .. m /\ e \in ends
      BY <2>2, <3>1, <3>2, <3>3
    <3> HIDE DEF last
    <3> QED BY <1>5, <3>4
  <2> QED BY <2>1, <2>2
<1> HIDE DEF ends, last, S
<1>14. \A i \in 1 .. last : i \in 1 .. m /\ S[i] = Reported(places[i], from, to)
  BY <1>3, <1>5, <1>13
<1>15. Along(W, tm) /\ last \in 0 .. N /\ SectorPieces(W, tm, S, last)
  <2>1. last \in 0 .. N /\ Len(S) = last /\ (last = 0 => S = <<>>)
    BY <1>2, <1>3, <1>13 DEF S
  <2>2. ASSUME NEW i \in 1 .. last
        PROVE  /\ S[i] \in Seq(Records) /\ SortedBy(tm, S[i])
               /\ \A x \in ToSet(S[i]) : \E k \in 1 .. Len(flash[W[i]].tsls) : x = <<W[i], k>>
    <3>1. i \in 1 .. m /\ S[i] = Reported(places[i], from, to) /\ w[i] = W[i]
      BY <1>5, <1>14
    <3> QED BY <1>12, <3>1
  <2> QED BY <1>2, <2>1, <2>2 DEF SectorPieces
<1>16. PICK q : q = FlattenSeq(S)
  OBVIOUS
<1>17. /\ q \in Seq(Records) /\ SortedBy(tm, q)
       /\ \A x : x \in ToSet(q) <=> \E i \in 1 .. last : x \in ToSet(S[i])
  BY <1>6, <1>15, <1>16, PiecesAlong
<1>18. ASSUME NEW x, x \in ToSet(q) PROVE x \in InInterval(from, to)
  <2>1. PICK i \in 1 .. last : x \in ToSet(S[i])
    BY <1>17, <1>18
  <2>2. i \in 1 .. m /\ S[i] = Reported(places[i], from, to) /\ w[i] \in Sector
    BY <1>5, <1>14
  <2>3. PICK j \in 1 .. Len(flash[w[i]].tsls) : x = <<w[i], j>> /\ low <= tm[x] /\ tm[x] <= high
    BY <1>12, <2>1, <2>2
  <2>4. x \in Records
    BY <2>2, <2>3, RecordsNow
  <2>5. InRange(Rec(x).time, from, to)
    BY <2>3, <2>4, InRangeIs
  <2> QED BY <2>4, <2>5 DEF InInterval
<1>19. ASSUME NEW x, x \in InInterval(from, to) PROVE x \in ToSet(q)
  <2>1. x \in Records /\ InRange(Rec(x).time, from, to)
    BY <1>19 DEF InInterval
  <2>2. low <= tm[x] /\ tm[x] <= high /\ tm[x] \in Int
    BY <2>1, InRangeIs
  <2>3. PICK s \in Sector : \E j \in 1 .. Len(flash[s].tsls) : x = <<s, j>>
    BY <2>1, RecordsNow
  <2>4. PICK j \in 1 .. Len(flash[s].tsls) : x = <<s, j>>
    BY <2>3
  <2>5. HasRecords(s)
    BY <2>4, SectorNow
  <2>6. PICK i \in 1 .. m : w[i] = s
    BY <1>5, <2>5
  <2>7. i <= last
    <3> SUFFICES ASSUME i > last PROVE FALSE
      BY <1>5, <1>13
    <3>1. PICK e \in 1 .. m : e < i /\ e \in ends
      BY <1>13
    <3>2. PICK k \in 1 .. Len(flash[w[e]].tsls) : tm[<<w[e], k>>] > high
      BY <1>3, <1>12, <3>1
    <3>3. tm[<<w[e], k>>] < tm[<<w[i], j>>] /\ tm[<<w[e], k>>] \in Int
      BY <1>8, <1>9, <2>4, <2>6, <3>1, <3>2
    <3> QED BY <1>6, <2>2, <2>4, <2>6, <3>2, <3>3
  <2>8. i \in 1 .. last
    BY <1>5, <1>13, <2>7
  <2>9. x \in ToSet(S[i])
    BY <1>12, <1>14, <2>2, <2>4, <2>6, <2>8
  <2> QED BY <1>17, <2>8, <2>9
<1> QED BY <1>1, <1>16, <1>17, <1>18, <1>19

LEMMA QueryNow ==
  ASSUME Rest, NEW from \in Int, NEW to \in Int, NoneExact \/ from <= to
  PROVE  QueryAgrees(from, to)
<1>1. CASE from <= to
  <2>1. Direction(from, to, UpTime, from, to)
    BY <1>1 DEF Direction
  <2>2. Along(IF from <= to THEN Forward ELSE Backward, UpTime)
    BY <1>1, ForwardNow
  <2>3. PICK q : /\ q = collect_by_time(from, to) /\ q \in Seq(Records) /\ SortedBy(UpTime, q)
                 /\ \A x : x \in ToSet(q) <=> x \in InInterval(from, to)
    BY <2>1, <2>2, QueryAlong
  <2>4. Listed(q, InInterval(from, to)) /\ Ascending(q)
    BY <2>3, ListOf
  <2> QED BY <1>1, <2>3, <2>4 DEF QueryAgrees
<1>2. CASE ~ (from <= to)
  <2>1. Direction(from, to, DownTime, - from, - to)
    BY <1>2 DEF Direction
  <2>2. Along(IF from <= to THEN Forward ELSE Backward, DownTime)
    BY <1>2, BackwardNow
  <2>3. PICK q : /\ q = collect_by_time(from, to) /\ q \in Seq(Records) /\ SortedBy(DownTime, q)
                 /\ \A x : x \in ToSet(q) <=> x \in InInterval(from, to)
    BY <2>1, <2>2, QueryAlong
  <2>4. Listed(q, InInterval(from, to)) /\ Descending(q)
    BY <2>3, ListOf
  <2> QED BY <1>2, <2>3, <2>4 DEF QueryAgrees
<1> QED BY <1>1, <1>2

----------------------------------------------------------------------------
(* What a count counts *)

\* The places of A are those of the records in B.
PlacesOf(q, st, A, B) ==
    /\ \A k : k \in A <=> k \in DOMAIN q /\ Slot(q[k][1], q[k][2]).status = st
    /\ \A p : p \in B <=> p \in Records /\ Rec(p).status = st

\* A sequence that lists the records in order has each of them at one place.
LEMMA CountOf ==
  ASSUME Rest, NEW q, Listed(q, Records), Ascending(q) \/ Descending(q), NEW st,
         NEW A, NEW B, PlacesOf(q, st, A, B)
  PROVE  Cardinality(A) = Cardinality(B)
<1> USE DEF PlacesOf
<1> DEFINE F == [k \in A |-> q[k]]
<1>1. DOMAIN q = 1 .. Len(q) /\ Len(q) \in Nat /\ \A k \in 1 .. Len(q) : q[k] \in Records
  BY DEF Listed
<1>2. \A p \in Records : \E k \in 1 .. Len(q) : q[k] = p
  <2> TAKE p \in Records
  <2>1. p \in ToSet(q)
    BY DEF Listed
  <2> QED BY <1>1, <2>1 DEF ToSet
<1>3. \A p \in Records : Slot(p[1], p[2]).status = Rec(p).status /\ Rec(p).time \in Int
  <2> TAKE p \in Records
  <2>1. PICK s \in Sector : \E j \in 1 .. Len(flash[s].tsls) : p = <<s, j>>
    BY RecordsNow
  <2>2. PICK j \in 1 .. Len(flash[s].tsls) : p = <<s, j>>
    BY <2>1
  <2> QED BY <2>2, SlotNow
<1>4. ASSUME NEW k \in 1 .. Len(q), NEW m \in 1 .. Len(q), q[k] = q[m] PROVE k = m
  <2> SUFFICES ASSUME k # m PROVE FALSE
    OBVIOUS
  <2>1. q[k] \in Records /\ Rec(q[k]).time \in Int
    BY <1>1, <1>3
  <2>2. k < m \/ m < k
    BY <1>1
  <2> QED BY <1>1, <1>4, <2>1, <2>2 DEF Ascending, Descending
<1>5. \A k \in A : k \in 1 .. Len(q) /\ q[k] \in B
  BY <1>1, <1>3
<1>6. F \in [A -> B]
  BY <1>5
<1>7. \A a, b \in A : F[a] = F[b] => a = b
  BY <1>4, <1>5
<1>8. \A p \in B : \E k \in A : F[k] = p
  <2> TAKE p \in B
  <2>1. PICK k \in 1 .. Len(q) : q[k] = p
    BY <1>2
  <2>2. k \in A
    BY <1>1, <1>3, <2>1
  <2> QED BY <2>1, <2>2
<1> HIDE DEF F
<1>9. F \in Bijection(A, B)
  <2> HIDE DEF PlacesOf
  <2> QED BY <1>6, <1>7, <1>8 DEF Bijection, Injection, Surjection, IsInjective
<1>10. IsFiniteSet(A)
  <2>1. IsFiniteSet(1 .. Len(q)) /\ A \in SUBSET (1 .. Len(q))
    BY <1>1, <1>5, FS_Interval
  <2> HIDE DEF PlacesOf
  <2> QED BY <2>1, FS_Subset
<1>11. Cardinality(B) = Cardinality(A)
  <2>1. ExistsBijection(A, B)
    BY <1>9 DEF ExistsBijection
  <2> HIDE DEF PlacesOf
  <2> QED BY <1>10, <2>1, FS_Bijection
<1> QED BY <1>11

LEMMA CountNow ==
  ASSUME Rest, NEW st
  PROVE  query_count(0, MaxTime, st) = Cardinality({p \in Records : Rec(p).status = st})
<1>1. MaxTime \in Int /\ 0 <= MaxTime
  BY TimesAssumption
<1>2. InInterval(0, MaxTime) = Records
  <2>1. clock \in Int /\ clock <= MaxTime
    BY <1>1, StillIs, TypeParts DEF Rest, TsIInv, ClientType
  <2>2. ASSUME NEW p \in Records PROVE InRange(Rec(p).time, 0, MaxTime)
    <3>1. PICK s \in Sector : \E j \in 1 .. Len(flash[s].tsls) : p = <<s, j>>
      BY RecordsNow
    <3>2. PICK j \in 1 .. Len(flash[s].tsls) : p = <<s, j>>
      BY <3>1
    <3>3. Rec(p).time \in Nat /\ Rec(p).time <= clock
      BY <3>2, SlotNow
    <3> QED BY <1>1, <2>1, <3>3 DEF InRange
  <2> QED BY <2>2 DEF InInterval
<1>3. PICK q : /\ q = collect_by_time(0, MaxTime) /\ Listed(q, Records)
               /\ Ascending(q) \/ Descending(q)
  <2>1. QueryAgrees(0, MaxTime)
    BY <1>1, QueryNow
  <2> QED BY <1>2, <2>1 DEF QueryAgrees
<1> DEFINE A == {k \in DOMAIN q : Slot(q[k][1], q[k][2]).status = st}
           B == {p \in Records : Rec(p).status = st}
<1>4. query_count(0, MaxTime, st) = Cardinality(A)
  BY <1>3 DEF query_count
<1>5. PlacesOf(q, st, A, B)
  BY DEF PlacesOf
<1>6. Cardinality(A) = Cardinality(B)
  <2> HIDE DEF A, B
  <2> QED BY <1>3, <1>5, CountOf
<1> QED BY <1>4, <1>6

\* As long as nothing failed a query from an earlier to a later time returns the records of
\* its interval, in order, whatever the interval; so does one from a later to an earlier time
\* as long as in no sector the data begin right behind the index.
THEOREM QueriesCorrect ==
  Spec => [](Ready /\ Calm => \A from, to \in Int : from <= to \/ NoneExact => QueryAgrees(from, to))
<1>1. QueryInv => (Ready /\ Calm => \A from, to \in Int : from <= to \/ NoneExact => QueryAgrees(from, to))
  <2> SUFFICES ASSUME QueryInv, Ready, Calm, NEW from \in Int, NEW to \in Int, from <= to \/ NoneExact
               PROVE  QueryAgrees(from, to)
    OBVIOUS
  <2>1. Rest
    BY DEF Rest, Still, Ready
  <2> QED BY <2>1, QueryNow
<1> QED BY <1>1, QueryInvAlways, PTL

\* The same of the intervals that are checked, and a count over all times gives the number
\* of the records with the state, whatever the sectors are like.
THEOREM QueriesExact == Spec => []QueriesAgree
<1>1. QueryInv => QueriesAgree
  <2> SUFFICES ASSUME QueryInv, Ready, Calm
               PROVE  /\ \A i \in Intervals : i[1] <= i[2] \/ NoneExact => QueryAgrees(i[1], i[2])
                      /\ \A st \in {"Write"} \cup Marks :
                            query_count(0, MaxTime, st) = Cardinality({p \in Records : Rec(p).status = st})
    BY DEF QueriesAgree
  <2>1. Rest
    BY DEF Rest, Still, Ready
  <2>2. ASSUME NEW i \in Intervals, i[1] <= i[2] \/ NoneExact PROVE QueryAgrees(i[1], i[2])
    <3>1. i[1] \in Int /\ i[2] \in Int
      BY TimesAssumption DEF Intervals
    <3> QED BY <2>1, <2>2, <3>1, QueryNow
  <2>3. ASSUME NEW st \in {"Write"} \cup Marks
        PROVE  query_count(0, MaxTime, st) = Cardinality({p \in Records : Rec(p).status = st})
    BY <2>1, CountNow
  <2> QED BY <2>2, <2>3
<1> QED BY <1>1, QueryInvAlways, PTL
=============================================================================

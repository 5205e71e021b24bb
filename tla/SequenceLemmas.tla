--------------------------- MODULE SequenceLemmas ---------------------------
(***************************************************************************)
(* Facts about naturals and sequences that the proofs of several           *)
(* components use.  Induction is by the least counterexample: the set of   *)
(* numbers for which a statement fails has a smallest element.             *)
(***************************************************************************)
EXTENDS Subsequences, TLAPS, WellFoundedInduction

\* A set of natural numbers that is not empty has a smallest element.
LEMMA LeastElement ==
    ASSUME NEW T, T \subseteq Nat, T # {}
    PROVE  \E m \in T : \A k \in T : m <= k
<1> DEFINE R == {p \in Nat \X Nat : p[1] < p[2]}
<1>1. IsWellFoundedOn(R, Nat)
  BY NatLessThanWellFounded, Zenon DEF OpToRel
<1>2. PICK m \in T : \A k \in T : ~(<<k, m>> \in R)
  <2> HIDE DEF R
  <2> QED BY <1>1, WFMin
<1>3. ASSUME NEW k \in T PROVE m <= k
  <2>1. k \in Nat /\ m \in Nat
    OBVIOUS
  <2>2. k < m => <<k, m>> \in R
    BY <2>1
  <2> QED BY <1>2, <2>1, <2>2
<1> QED BY <1>3

\* Induction over the natural numbers for a set in place of a predicate.
LEMMA SetInduction ==
    ASSUME NEW T, 0 \in T, \A n \in Nat : n \in T => n + 1 \in T
    PROVE  Nat \subseteq T
<1> DEFINE Bad == Nat \ T
<1> SUFFICES ASSUME Bad # {} PROVE FALSE
  OBVIOUS
<1>1. PICK m \in Bad : \A k \in Bad : m <= k
  BY LeastElement
<1>2. m \in Nat /\ m # 0 /\ m - 1 \in Nat /\ m = (m - 1) + 1
  OBVIOUS
<1>3. m - 1 \in T
  BY <1>1, <1>2
<1> QED BY <1>2, <1>3

---------------------------------------------------------------------------
(* KeepAt *)

\* The recursion of KeepAt up to the n-th element.
KeepStep(f, s, places, n) ==
    IF n = 0 THEN <<>>
    ELSE IF n \in places THEN Append(f[n - 1], s[n]) ELSE f[n - 1]

IsKeep(f, s, places, m) == f = [n \in 0..m |-> KeepStep(f, s, places, n)]

LEMMA KeepExists ==
    ASSUME NEW s, NEW places, NEW m \in Nat
    PROVE  \E f : IsKeep(f, s, places, m)
<1> DEFINE Good == {k \in Nat : \E f : IsKeep(f, s, places, k)}
<1>1. 0 \in Good
  <2> DEFINE f == [n \in 0..0 |-> <<>>]
  <2>1. IsKeep(f, s, places, 0)
    BY DEF IsKeep, KeepStep
  <2> QED BY <2>1
<1>2. ASSUME NEW k \in Nat, k \in Good PROVE k + 1 \in Good
  <2>1. PICK f : IsKeep(f, s, places, k)
    BY <1>2
  <2> DEFINE g == [n \in 0..(k + 1) |-> IF n <= k THEN f[n] ELSE KeepStep(f, s, places, n)]
  <2>2. \A n \in 0..k : g[n] = f[n] /\ f[n] = KeepStep(f, s, places, n)
    BY <2>1 DEF IsKeep
  <2>3. g[k + 1] = KeepStep(f, s, places, k + 1)
    OBVIOUS
  <2>4. g = [n \in 0..(k + 1) |-> g[n]]
    OBVIOUS
  <2> HIDE DEF g
  <2>5. \A n \in 0..(k + 1) : g[n] = KeepStep(g, s, places, n)
    <3> TAKE n \in 0..(k + 1)
    <3>1. n # 0 => n - 1 \in 0..k /\ g[n - 1] = f[n - 1]
      BY <2>2
    <3>2. g[n] = KeepStep(f, s, places, n)
      BY <2>2, <2>3
    <3> QED BY <3>1, <3>2 DEF KeepStep
  <2>6. IsKeep(g, s, places, k + 1)
    BY <2>4, <2>5 DEF IsKeep
  <2> QED BY <2>6
<1>3. Nat \subseteq Good
  <2> HIDE DEF Good
  <2> QED BY <1>1, <1>2, SetInduction
<1> QED BY <1>3

\* KeepAt is the last value of a function that obeys its recursion.
LEMMA KeepAtIsKeep ==
    ASSUME NEW X, NEW s \in Seq(X), NEW places
    PROVE  \E f : IsKeep(f, s, places, Len(s)) /\ KeepAt(s, places) = f[Len(s)]
<1>0. Len(s) \in Nat
  OBVIOUS
<1>1. PICK f : IsKeep(f, s, places, Len(s))
  BY <1>0, KeepExists, Zenon
<1>2. f = [n \in 0..Len(s) |-> IF n = 0 THEN <<>>
             ELSE IF n \in places THEN Append(f[n - 1], s[n]) ELSE f[n - 1]]
  BY <1>1, Zenon DEF IsKeep, KeepStep
<1>3. \E h : /\ h = [n \in 0..Len(s) |-> IF n = 0 THEN <<>>
                        ELSE IF n \in places THEN Append(h[n - 1], s[n]) ELSE h[n - 1]]
             /\ KeepAt(s, places) = h[Len(s)]
  BY <1>2, Zenon DEF KeepAt
<1> QED BY <1>3, Zenon DEF IsKeep, KeepStep

LEMMA KeepSteps ==
    ASSUME NEW f, NEW s, NEW places, NEW m \in Nat, IsKeep(f, s, places, m)
    PROVE  /\ f[0] = <<>>
           /\ \A k \in Nat : k + 1 <= m =>
                f[k + 1] = IF k + 1 \in places THEN Append(f[k], s[k + 1]) ELSE f[k]
<1>1. \A n \in 0..m : f[n] = KeepStep(f, s, places, n)
  BY DEF IsKeep
<1>2. f[0] = KeepStep(f, s, places, 0)
  BY <1>1
<1>3. f[0] = <<>>
  BY <1>2 DEF KeepStep
<1>4. ASSUME NEW k \in Nat, k + 1 <= m
      PROVE  f[k + 1] = IF k + 1 \in places THEN Append(f[k], s[k + 1]) ELSE f[k]
  <2>1. f[k + 1] = KeepStep(f, s, places, k + 1)
    BY <1>1, <1>4
  <2>2. k + 1 # 0 /\ (k + 1) - 1 = k
    OBVIOUS
  <2> QED BY <2>1, <2>2, Zenon DEF KeepStep
<1> QED BY <1>3, <1>4

\* g leads from the places of r to the kept places of s up to m, in order.
Embeds(g, r, s, places, m) ==
    /\ g \in [1..Len(r) -> 1..m]
    /\ \A i \in 1..Len(r) : g[i] \in places /\ r[i] = s[g[i]]
    /\ \A i, j \in 1..Len(r) : i < j => g[i] < g[j]
    /\ \A n \in 1..m : n \in places => \E i \in 1..Len(r) : g[i] = n

LEMMA EmbedsMore ==
    ASSUME NEW X, NEW q \in Seq(X), NEW s, NEW k \in Nat, s[k + 1] \in X,
           NEW places, k + 1 \in places, NEW g, Embeds(g, q, s, places, k)
    PROVE  /\ Append(q, s[k + 1]) \in Seq(X)
           /\ \E h : Embeds(h, Append(q, s[k + 1]), s, places, k + 1)
<1>1. PICK r : r = Append(q, s[k + 1])
  OBVIOUS
<1>2. PICK l \in Nat : l = Len(q)
  OBVIOUS
<1>3. /\ r \in Seq(X) /\ Len(r) = l + 1
      /\ \A i \in 1..l : r[i] = q[i]
      /\ r[l + 1] = s[k + 1]
  BY <1>1, <1>2
<1>4. /\ g \in [1..l -> 1..k]
      /\ \A i \in 1..l : g[i] \in places /\ q[i] = s[g[i]]
      /\ \A i, j \in 1..l : i < j => g[i] < g[j]
      /\ \A n \in 1..k : n \in places => \E i \in 1..l : g[i] = n
  BY <1>2 DEF Embeds
<1>5. PICK h : h = [i \in 1..(l + 1) |-> IF i <= l THEN g[i] ELSE k + 1]
  OBVIOUS
<1>6. (\A i \in 1..l : h[i] = g[i]) /\ h[l + 1] = k + 1
  BY <1>5
<1>7. h \in [1..(l + 1) -> 1..(k + 1)]
  BY <1>4, <1>5
<1>8. ASSUME NEW i \in 1..(l + 1) PROVE h[i] \in places /\ r[i] = s[h[i]]
  <2>1. CASE i = l + 1
    BY <1>3, <1>6, <2>1
  <2>2. CASE i \in 1..l
    <3>1. h[i] = g[i] /\ r[i] = q[i] /\ g[i] \in places /\ q[i] = s[g[i]]
      BY <1>3, <1>4, <1>6, <2>2
    <3> QED BY <3>1
  <2> QED BY <2>1, <2>2
<1>9. ASSUME NEW i \in 1..(l + 1), NEW j \in 1..(l + 1), i < j PROVE h[i] < h[j]
  <2>1. i \in 1..l /\ h[i] = g[i] /\ g[i] \in 1..k
    BY <1>4, <1>6, <1>9
  <2>2. CASE j = l + 1
    BY <1>6, <2>1, <2>2
  <2>3. CASE j \in 1..l
    BY <1>4, <1>6, <1>9, <2>1, <2>3
  <2> QED BY <2>2, <2>3
<1>10. ASSUME NEW n \in 1..(k + 1), n \in places PROVE \E i \in 1..(l + 1) : h[i] = n
  <2>1. CASE n = k + 1
    BY <1>6, <2>1
  <2>2. CASE n \in 1..k
    <3>1. PICK i \in 1..l : g[i] = n
      BY <1>4, <1>10, <2>2
    <3> QED BY <1>6, <3>1
  <2> QED BY <2>1, <2>2
<1>11. Embeds(h, r, s, places, k + 1)
  BY <1>3, <1>7, <1>8, <1>9, <1>10 DEF Embeds
<1> QED BY <1>1, <1>3, <1>11

\* What KeepAt keeps: the elements at these places, each once, in order.
LEMMA KeepAtFacts ==
    ASSUME NEW X, NEW s \in Seq(X), NEW places
    PROVE  /\ KeepAt(s, places) \in Seq(X)
           /\ \E g : Embeds(g, KeepAt(s, places), s, places, Len(s))
<1>1. PICK f : IsKeep(f, s, places, Len(s)) /\ KeepAt(s, places) = f[Len(s)]
  BY KeepAtIsKeep
<1>2. /\ f[0] = <<>>
      /\ \A k \in Nat : k + 1 <= Len(s) =>
           f[k + 1] = IF k + 1 \in places THEN Append(f[k], s[k + 1]) ELSE f[k]
  BY <1>1, KeepSteps
<1> DEFINE Done(n) == f[n] \in Seq(X) /\ \E g : Embeds(g, f[n], s, places, n)
           Good == {n \in Nat : n <= Len(s) => Done(n)}
<1>3. Done(0)
  <2>1. Embeds(<<>>, <<>>, s, places, 0)
    BY DEF Embeds
  <2> QED BY <1>2, <2>1
<1>4. ASSUME NEW k \in Nat, k + 1 <= Len(s), Done(k) PROVE Done(k + 1)
  <2>1. f[k] \in Seq(X) /\ s[k + 1] \in X
    BY <1>4
  <2>2. PICK g : Embeds(g, f[k], s, places, k)
    BY <1>4
  <2>3. CASE k + 1 \in places
    <3>1. f[k + 1] = Append(f[k], s[k + 1])
      BY <1>2, <1>4, <2>3
    <3> QED BY <2>1, <2>2, <2>3, <3>1, EmbedsMore
  <2>4. CASE k + 1 \notin places
    <3>1. f[k + 1] = f[k]
      BY <1>2, <1>4, <2>4
    <3>2. Embeds(g, f[k], s, places, k + 1)
      BY <2>2, <2>4 DEF Embeds
    <3> QED BY <2>1, <3>1, <3>2
  <2> QED BY <2>3, <2>4
<1> HIDE DEF Done
<1>5. 0 \in Good
  BY <1>3
<1>6. ASSUME NEW k \in Nat, k \in Good PROVE k + 1 \in Good
  BY <1>4, <1>6
<1>7. Nat \subseteq Good
  <2> HIDE DEF Good
  <2> QED BY <1>5, <1>6, SetInduction
<1>8. Done(Len(s))
  BY <1>7
<1> QED BY <1>1, <1>8 DEF Done

\* Nothing to keep.
LEMMA KeepAtNothing ==
    ASSUME NEW X, NEW s \in Seq(X), NEW places, \A n \in 1..Len(s) : n \notin places
    PROVE  KeepAt(s, places) = <<>>
<1>1. PICK g : Embeds(g, KeepAt(s, places), s, places, Len(s))
  BY KeepAtFacts
<1>2. KeepAt(s, places) \in Seq(X)
  BY KeepAtFacts
<1>3. ~(1 \in 1..Len(KeepAt(s, places)))
  BY <1>1 DEF Embeds
<1> QED BY <1>2, <1>3
=============================================================================

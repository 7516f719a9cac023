----------------------------- MODULE QueueLemmas -----------------------------
(***************************************************************************)
(* What the operators of Queues return, for every queue.                   *)
(***************************************************************************)
EXTENDS Queues, TLAPS, FiniteSetTheorems, WellFoundedInduction

(* A set of naturals that is not empty has a least member: what induction  *)
(* over a sequence becomes here, by its least counterexample.              *)
LEMMA LeastNat ==
    ASSUME NEW T, T \subseteq Nat, T # {}
    PROVE  \E m \in T : \A n \in T : m <= n
<1> DEFINE Below == {0 .. m : m \in T}
<1>1. Below \subseteq FiniteSubsetsOf(Nat)
  <2>1. \A m \in T : IsFiniteSet(0 .. m) /\ 0 .. m \subseteq Nat
    BY FS_Interval
  <2>2. QED BY <2>1 DEF FiniteSubsetsOf
<1>2. Below # {}
    OBVIOUS
<1>3. PICK X \in Below : \A Y \in Below : ~(<<Y, X>> \in StrictSubsetOrdering(Nat))
    BY <1>1, <1>2, WFMin, FS_StrictSubsetOrderingWellFounded
<1>4. PICK m \in T : X = 0 .. m
    BY <1>3
<1>5. ASSUME NEW n \in T, n < m PROVE FALSE
  <2>1. 0 .. n \in Below
    OBVIOUS
  <2>2. /\ 0 .. n \subseteq 0 .. m /\ 0 .. m \subseteq Nat
        /\ m \in 0 .. m /\ m \notin 0 .. n
    BY <1>5
  <2>3. <<0 .. n, 0 .. m>> \in StrictSubsetOrdering(Nat)
    BY <2>2 DEF StrictSubsetOrdering
  <2>4. QED BY <2>1, <2>3, <1>3, <1>4
<1>6. \A n \in T : m <= n
    BY <1>5
<1>7. QED BY <1>6

(* Induction up to a bound, with the set of the numbers that have the      *)
(* property.                                                               *)
LEMMA Upwards ==
    ASSUME NEW n \in Nat, NEW T, 0 \in T, \A k \in 1 .. n : k - 1 \in T => k \in T
    PROVE  0 .. n \subseteq T
<1> DEFINE Bad == (0 .. n) \ T
<1> SUFFICES ASSUME Bad # {} PROVE FALSE
    OBVIOUS
<1>1. PICK m \in Bad : \A k \in Bad : m <= k
  <2>1. Bad \subseteq Nat
    OBVIOUS
  <2>2. QED BY <2>1, LeastNat
<1>2. m \in 1 .. n /\ m - 1 \notin Bad /\ m - 1 \in 0 .. n
    BY <1>1
<1>3. QED BY <1>2

(* A function that gives the next value gives the values of a recursion.   *)
Repeats(g, S, a, G, n) ==
    g \in [0 .. n -> S] /\ g[0] = a /\ \A k \in 1 .. n : g[k] = G[g[k - 1]]

LEMMA Iterates ==
    ASSUME NEW S, NEW a \in S, NEW G \in [S -> S], NEW n \in Nat
    PROVE  \E g : Repeats(g, S, a, G, n)
<1> DEFINE Has(m) == \E g \in [0 .. m -> S] : g[0] = a /\ \A k \in 1 .. m : g[k] = G[g[k - 1]]
           T == {m \in 0 .. n : Has(m)}
<1>1. 0 \in T
  <2> DEFINE g == [k \in 0 .. 0 |-> a]
  <2>1. g \in [0 .. 0 -> S] /\ g[0] = a /\ \A k \in 1 .. 0 : g[k] = G[g[k - 1]]
    OBVIOUS
  <2>2. Has(0)
    BY <2>1
  <2>3. QED BY <2>2
<1>2. ASSUME NEW m \in 1 .. n, m - 1 \in T PROVE m \in T
  <2>1. PICK g \in [0 .. m - 1 -> S] : g[0] = a /\ \A k \in 1 .. m - 1 : g[k] = G[g[k - 1]]
    BY <1>2
  <2> DEFINE h == [k \in 0 .. m |-> IF k = m THEN G[g[m - 1]] ELSE g[k]]
  <2>2. m - 1 \in 0 .. m - 1 /\ G[g[m - 1]] \in S
    BY <2>1
  <2>3. h \in [0 .. m -> S] /\ h[0] = a
    BY <2>1, <2>2
  <2>4. \A k \in 1 .. m : h[k] = G[h[k - 1]]
    BY <2>1, <2>2
  <2>5. Has(m)
    BY <2>3, <2>4
  <2>6. QED BY <2>5
<1>3. n \in T
  <2> HIDE DEF T
  <2>1. 0 .. n \subseteq T
    BY <1>1, <1>2, Upwards
  <2>2. QED BY <2>1
<1>4. QED BY <1>3 DEF Repeats

(* One step of the recursion that defines Drop, and that the recursion has *)
(* a solution.                                                             *)
DropStep(q, T, g, i) ==
    IF i = 0 THEN << >>
    ELSE IF q[i] \in T THEN g[i - 1] ELSE Append(g[i - 1], q[i])

LEMMA Prefixes ==
    ASSUME NEW q, NEW T, Len(q) \in Nat
    PROVE  \A n \in 0 .. Len(q) : \E g : g = [i \in 0 .. n |-> DropStep(q, T, g, i)]
<1> DEFINE Has(n) == \E g : g = [i \in 0 .. n |-> DropStep(q, T, g, i)]
           Bad == {n \in 0 .. Len(q) : ~Has(n)}
<1> SUFFICES ASSUME Bad # {} PROVE FALSE
    OBVIOUS
<1>0. Bad \subseteq Nat
    OBVIOUS
<1>1. PICK m \in Bad : \A n \in Bad : m <= n
    BY <1>0, LeastNat
<1>2. m # 0
  <2>1. [i \in 0 .. 0 |-> << >>] = [i \in 0 .. 0 |-> DropStep(q, T, [j \in 0 .. 0 |-> << >>], i)]
    BY DEF DropStep
  <2>2. Has(0)
    BY <2>1
  <2>3. QED BY <2>2
<1>3. Has(m - 1)
    BY <1>1, <1>2
<1>4. PICK g : g = [i \in 0 .. m - 1 |-> DropStep(q, T, g, i)]
    BY <1>3
<1> DEFINE h == [i \in 0 .. m |-> IF i = m THEN DropStep(q, T, g, m) ELSE g[i]]
<1>5. \A i \in 0 .. m : h[i] = DropStep(q, T, h, i)
  <2> TAKE i \in 0 .. m
  <2>1. CASE i = m
    <3>1. h[i] = DropStep(q, T, g, m) /\ h[m - 1] = g[m - 1]
        BY <2>1, <1>2
    <3>2. QED BY <3>1, <2>1 DEF DropStep
  <2>2. CASE i # m
    <3>1. h[i] = g[i] /\ g[i] = DropStep(q, T, g, i)
        BY <2>2, <1>4, <1>2
    <3>2. i # 0 => h[i - 1] = g[i - 1]
        BY <2>2
    <3>3. QED BY <3>1, <3>2 DEF DropStep
  <2>3. QED BY <2>1, <2>2
<1>6. h = [i \in 0 .. m |-> DropStep(q, T, h, i)]
    BY <1>5
<1>7. Has(m)
    BY <1>6
<1>8. QED BY <1>7

(* Drop is the last value of such a solution.                              *)
LEMMA DropIs ==
    ASSUME NEW q, NEW T, Len(q) \in Nat
    PROVE  \E g : /\ g = [i \in 0 .. Len(q) |-> DropStep(q, T, g, i)]
                  /\ Drop(q, T) = g[Len(q)]
<1> DEFINE F == CHOOSE g : g = [i \in 0 .. Len(q) |-> DropStep(q, T, g, i)]
<1>1. F = [i \in 0 .. Len(q) |-> DropStep(q, T, F, i)]
    BY Prefixes
<1>2. Drop(q, T) = F[Len(q)]
    BY DEF Drop, DropStep
<1>3. QED BY <1>1, <1>2

(* The queue s is q without the elements of T: a strictly increasing map h *)
(* finds its elements in q, and misses none that is not in T.              *)
Embeds(h, s, q, n, T) ==
    /\ h \in [1 .. Len(s) -> 1 .. n]
    /\ \A k \in 1 .. Len(s) : s[k] = q[h[k]] /\ q[h[k]] \notin T
    /\ \A k, l \in 1 .. Len(s) : k < l => h[k] < h[l]
    /\ \A i \in 1 .. n : q[i] \notin T => \E k \in 1 .. Len(s) : h[k] = i

LEMMA EmbedStep ==
    ASSUME NEW S, NEW q \in Seq(S), NEW T, NEW s \in Seq(S), NEW n \in Nat,
           n + 1 \in 1 .. Len(q), NEW h, Embeds(h, s, q, n, T)
    PROVE  /\ q[n + 1] \in T => Embeds(h, s, q, n + 1, T)
           /\ q[n + 1] \notin T =>
                \E f : Embeds(f, Append(s, q[n + 1]), q, n + 1, T)
<1> USE DEF Embeds
<1>1. q[n + 1] \in T => Embeds(h, s, q, n + 1, T)
    OBVIOUS
<1>2. ASSUME q[n + 1] \notin T
      PROVE  \E f : Embeds(f, Append(s, q[n + 1]), q, n + 1, T)
  <2> DEFINE m == Len(s)
             f == [k \in 1 .. m + 1 |-> IF k = m + 1 THEN n + 1 ELSE h[k]]
             r == Append(s, q[n + 1])
  <2>1. Len(r) = m + 1 /\ m \in Nat
    OBVIOUS
  <2>2. \A k \in 1 .. m + 1 : f[k] = IF k = m + 1 THEN n + 1 ELSE h[k]
    OBVIOUS
  <2>3. \A k \in 1 .. m + 1 : r[k] = IF k = m + 1 THEN q[n + 1] ELSE s[k]
    OBVIOUS
  <2>4. f \in [1 .. m + 1 -> 1 .. n + 1]
    OBVIOUS
  <2>5. \A k \in 1 .. m + 1 : r[k] = q[f[k]] /\ q[f[k]] \notin T
    BY <1>2, <2>2, <2>3
  <2>6. ASSUME NEW k \in 1 .. m + 1, NEW l \in 1 .. m + 1, k < l
        PROVE  f[k] < f[l]
    <3>1. /\ \A j \in 1 .. m : h[j] \in 1 .. n
          /\ \A i, j \in 1 .. m : i < j => h[i] < h[j]
        OBVIOUS
    <3> HIDE DEF f, m
    <3>2. k \in 1 .. m /\ f[k] = h[k]
        BY <2>1, <2>2, <2>6
    <3>3. CASE l = m + 1
        BY <3>1, <3>2, <3>3, <2>2
    <3>4. CASE l # m + 1
      <4>1. l \in 1 .. m /\ f[l] = h[l]
        BY <3>4, <2>1, <2>2
      <4>2. QED BY <4>1, <3>1, <3>2, <2>6
    <3>5. QED BY <3>3, <3>4
  <2>7. ASSUME NEW i \in 1 .. n + 1, q[i] \notin T
        PROVE  \E k \in 1 .. m + 1 : f[k] = i
    <3>1. CASE i = n + 1
      <4>1. m + 1 \in 1 .. m + 1 /\ f[m + 1] = i
        BY <3>1, <2>1, <2>2
      <4>2. QED BY <4>1
    <3>2. CASE i # n + 1
      <4>1. PICK k \in 1 .. m : h[k] = i
        BY <3>2, <2>7
      <4>2. k \in 1 .. m + 1 /\ f[k] = i
        BY <4>1, <2>1, <2>2
      <4>3. QED BY <4>2
    <3>3. QED BY <3>1, <3>2
  <2>8. Embeds(f, r, q, n + 1, T)
    <3> HIDE DEF f, r
    <3> QED BY <2>1, <2>4, <2>5, <2>6, <2>7
  <2>9. QED BY <2>8, ZenonT(60)
<1>3. QED BY <1>1, <1>2

LEMMA DropEmbeds ==
    ASSUME NEW S, NEW q \in Seq(S), NEW T
    PROVE  /\ Drop(q, T) \in Seq(S)
           /\ \E h : Embeds(h, Drop(q, T), q, Len(q), T)
<1>1. PICK g : /\ g = [i \in 0 .. Len(q) |-> DropStep(q, T, g, i)]
               /\ Drop(q, T) = g[Len(q)]
  <2>1. Len(q) \in Nat
    OBVIOUS
  <2>2. QED BY <2>1, DropIs
<1> DEFINE Good(n) == g[n] \in Seq(S) /\ \E h : Embeds(h, g[n], q, n, T)
           Bad == {n \in 0 .. Len(q) : ~Good(n)}
<1>2. SUFFICES Bad = {}
    BY <1>1
<1>3. SUFFICES ASSUME Bad # {} PROVE FALSE
    OBVIOUS
<1>4. PICK m \in Bad : \A n \in Bad : m <= n
  <2>1. Bad \subseteq Nat
    OBVIOUS
  <2>2. QED BY <1>3, <2>1, LeastNat
<1>5. m # 0
  <2>1. g[0] = << >>
    BY <1>1 DEF DropStep
  <2>2. Embeds([k \in 1 .. 0 |-> 0], << >>, q, 0, T)
    BY DEF Embeds
  <2>3. Good(0)
    BY <2>1, <2>2
  <2>4. QED BY <2>3
<1>6. PICK h : Embeds(h, g[m - 1], q, m - 1, T)
    BY <1>4, <1>5
<1>7. g[m - 1] \in Seq(S)
    BY <1>4, <1>5
<1>8. g[m] = IF q[m] \in T THEN g[m - 1] ELSE Append(g[m - 1], q[m])
    BY <1>1, <1>5 DEF DropStep
<1>9. m - 1 \in Nat /\ (m - 1) + 1 = m /\ m \in 1 .. Len(q)
    BY <1>5
<1>10. /\ q[m] \in T => Embeds(h, g[m - 1], q, m, T)
       /\ q[m] \notin T => \E f : Embeds(f, Append(g[m - 1], q[m]), q, m, T)
    BY <1>6, <1>7, <1>9, EmbedStep
<1>11. Good(m)
    BY <1>7, <1>8, <1>9, <1>10
<1>12. QED BY <1>11

(* What the kernel needs of Drop.                                          *)
LEMMA DropProps ==
    ASSUME NEW S, NEW q \in Seq(S), NEW T
    PROVE  /\ Drop(q, T) \in Seq(S)
           /\ Items(Drop(q, T)) = Items(q) \ T
           /\ NoDup(q) => NoDup(Drop(q, T))
<1>1. Drop(q, T) \in Seq(S)
    BY DropEmbeds
<1>2. PICK h : Embeds(h, Drop(q, T), q, Len(q), T)
    BY DropEmbeds
<1> DEFINE d == Drop(q, T)
<1> HIDE DEF d
<1>3. Items(d) = Items(q) \ T
  <2>1. d \in Seq(S) /\ Embeds(h, d, q, Len(q), T)
    BY <1>1, <1>2 DEF d
  <2>2. ASSUME NEW x \in Items(d) PROVE x \in Items(q) \ T
    BY <2>1 DEF Items, Embeds
  <2>3. ASSUME NEW x \in Items(q) \ T PROVE x \in Items(d)
    <3>1. PICK i \in 1 .. Len(q) : x = q[i]
        BY DEF Items
    <3>2. PICK k \in 1 .. Len(d) : h[k] = i
        BY <2>1, <3>1 DEF Embeds
    <3>3. d[k] = x
        BY <2>1, <3>1, <3>2 DEF Embeds
    <3>4. QED BY <3>3 DEF Items
  <2>4. QED BY <2>2, <2>3
<1>4. ASSUME NoDup(q) PROVE NoDup(d)
  <2>1. d \in Seq(S) /\ Embeds(h, d, q, Len(q), T)
    BY <1>1, <1>2 DEF d
  <2>2. SUFFICES ASSUME NEW k \in 1 .. Len(d), NEW l \in 1 .. Len(d), d[k] = d[l], k < l
                 PROVE  FALSE
    BY <2>1 DEF NoDup
  <2>3. h[k] < h[l] /\ q[h[k]] = q[h[l]] /\ h[k] \in 1 .. Len(q) /\ h[l] \in 1 .. Len(q)
    BY <2>1, <2>2 DEF Embeds
  <2>4. QED BY <2>3, <1>4 DEF NoDup
<1>5. QED BY <1>1, <1>3, <1>4 DEF d

-----------------------------------------------------------------------------
(* The other operators.                                                    *)

LEMMA LeastIs ==
    ASSUME NEW T, T \subseteq Nat, T # {}
    PROVE  Least(T) \in T /\ \A j \in T : Least(T) <= j
BY LeastNat DEF Least

LEMMA ConcatIs ==
    ASSUME NEW S, NEW q \in Seq(S), NEW r \in Seq(S)
    PROVE  /\ q \o r \in Seq(S) /\ Len(q \o r) = Len(q) + Len(r)
           /\ \A k \in 1 .. Len(q) : (q \o r)[k] = q[k]
           /\ \A k \in 1 .. Len(r) : (q \o r)[Len(q) + k] = r[k]
OBVIOUS

LEMMA PopAtIs ==
    ASSUME NEW S, NEW q \in Seq(S), NEW i \in 1 .. Len(q)
    PROVE  /\ PopAt(q, i) \in Seq(S)
           /\ Len(PopAt(q, i)) = Len(q) - 1
           /\ \A k \in 1 .. Len(q) - 1 :
                 PopAt(q, i)[k] = IF k < i THEN q[k] ELSE q[k + 1]
<1> DEFINE a == SubSeq(q, 1, i - 1)
           b == SubSeq(q, i + 1, Len(q))
<1>1. /\ a \in Seq(S) /\ Len(a) = i - 1
      /\ \A k \in 1 .. i - 1 : a[k] = q[k]
    OBVIOUS
<1>2. /\ b \in Seq(S) /\ Len(b) = Len(q) - i
      /\ \A k \in 1 .. Len(q) - i : b[k] = q[k + i]
    OBVIOUS
<1> HIDE DEF a, b
<1> DEFINE c == a \o b
<1>3. /\ c \in Seq(S) /\ Len(c) = Len(a) + Len(b)
      /\ \A k \in 1 .. Len(a) : c[k] = a[k]
      /\ \A k \in 1 .. Len(b) : c[Len(a) + k] = b[k]
  <2>1. a \in Seq(S) /\ b \in Seq(S)
    BY <1>1, <1>2
  <2>2. QED BY <2>1, ConcatIs
<1>4. PopAt(q, i) = c
    BY DEF PopAt, a, b
<1> HIDE DEF c
<1>5. ASSUME NEW k \in 1 .. Len(q) - 1
      PROVE  c[k] = IF k < i THEN q[k] ELSE q[k + 1]
  <2>1. CASE k < i
    BY <1>1, <1>3, <2>1
  <2>2. CASE ~(k < i)
    <3>1. k - (i - 1) \in 1 .. Len(b) /\ Len(a) + (k - (i - 1)) = k
        BY <1>1, <1>2, <2>2
    <3>2. c[k] = b[k - (i - 1)] /\ b[k - (i - 1)] = q[k - (i - 1) + i]
        BY <3>1, <1>2, <1>3
    <3>3. k - (i - 1) + i = k + 1
        OBVIOUS
    <3>4. QED BY <3>2, <3>3, <2>2
  <2>3. QED BY <2>1, <2>2
<1>6. Len(c) = Len(q) - 1
    BY <1>1, <1>2, <1>3
<1>7. QED BY <1>3, <1>4, <1>5, <1>6

LEMMA PushAtIs ==
    ASSUME NEW S, NEW q \in Seq(S), NEW i \in 1 .. Len(q) + 1, NEW e \in S,
           NEW r, r = PushAt(q, i, e)
    PROVE  /\ r \in Seq(S)
           /\ Len(r) = Len(q) + 1
           /\ \A k \in 1 .. Len(q) + 1 : /\ k < i => r[k] = q[k]
                                         /\ k = i => r[k] = e
                                         /\ k > i => r[k] = q[k - 1]
<1> DEFINE a == SubSeq(q, 1, i - 1)
           b == SubSeq(q, i, Len(q))
           c == a \o << e >>
<1>1. /\ a \in Seq(S) /\ Len(a) = i - 1
      /\ \A k \in 1 .. i - 1 : a[k] = q[k]
    OBVIOUS
<1>2. /\ b \in Seq(S) /\ Len(b) = Len(q) - i + 1
      /\ \A k \in 1 .. Len(q) - i + 1 : b[k] = q[k + i - 1]
    OBVIOUS
<1> HIDE DEF a, b
<1>3. /\ c \in Seq(S) /\ Len(c) = i
      /\ \A k \in 1 .. i : c[k] = IF k < i THEN q[k] ELSE e
    BY <1>1
<1> HIDE DEF c
<1> DEFINE d == c \o b
<1>4. /\ d \in Seq(S) /\ Len(d) = Len(c) + Len(b)
      /\ \A k \in 1 .. Len(c) : d[k] = c[k]
      /\ \A k \in 1 .. Len(b) : d[Len(c) + k] = b[k]
  <2>1. c \in Seq(S) /\ b \in Seq(S)
    BY <1>2, <1>3
  <2>2. QED BY <2>1, ConcatIs
<1>5. PushAt(q, i, e) = d
    BY DEF PushAt, a, b, c
<1> HIDE DEF d
<1>6. ASSUME NEW k \in 1 .. Len(q) + 1
      PROVE  /\ k < i => d[k] = q[k]
             /\ k = i => d[k] = e
             /\ k > i => d[k] = q[k - 1]
  <2>1. CASE k <= i
    BY <1>3, <1>4, <2>1
  <2>2. CASE ~(k <= i)
    <3>1. k - i \in 1 .. Len(b) /\ Len(c) + (k - i) = k
        BY <1>2, <1>3, <2>2
    <3>2. d[k] = b[k - i] /\ b[k - i] = q[(k - i) + i - 1]
        BY <3>1, <1>2, <1>4
    <3>3. (k - i) + i - 1 = k - 1
        OBVIOUS
    <3>4. QED BY <3>2, <3>3, <2>2
  <2>3. QED BY <2>1, <2>2
<1>7. QED BY <1>2, <1>3, <1>4, <1>5, <1>6

(* What a queue holds after an append, a joining or a pop at the front,    *)
(* and that it still holds nothing twice.                                  *)
LEMMA AppendItems ==
    ASSUME NEW S, NEW q \in Seq(S), NEW e \in S
    PROVE  /\ Append(q, e) \in Seq(S)
           /\ Items(Append(q, e)) = Items(q) \cup {e}
           /\ NoDup(q) /\ e \notin Items(q) => NoDup(Append(q, e))
<1>1. /\ Len(Append(q, e)) = Len(q) + 1 /\ Append(q, e) \in Seq(S)
      /\ \A k \in 1 .. Len(q) + 1 : Append(q, e)[k] = IF k = Len(q) + 1 THEN e ELSE q[k]
    OBVIOUS
<1> DEFINE r == Append(q, e)
<1> HIDE DEF r
<1>2. Items(r) = Items(q) \cup {e}
    BY <1>1 DEF Items, r
<1>3. NoDup(q) /\ e \notin Items(q) => NoDup(r)
    BY <1>1 DEF Items, NoDup, r
<1>4. QED BY <1>1, <1>2, <1>3 DEF r

LEMMA ConcatItems ==
    ASSUME NEW S, NEW q \in Seq(S), NEW r \in Seq(S)
    PROVE  /\ q \o r \in Seq(S)
           /\ Items(q \o r) = Items(q) \cup Items(r)
           /\ NoDup(q) /\ NoDup(r) /\ Items(q) \cap Items(r) = {} => NoDup(q \o r)
<1> DEFINE s == q \o r
<1>1. /\ s \in Seq(S) /\ Len(s) = Len(q) + Len(r)
      /\ \A k \in 1 .. Len(q) : s[k] = q[k]
      /\ \A k \in 1 .. Len(r) : s[Len(q) + k] = r[k]
    BY ConcatIs
<1> HIDE DEF s
<1>2. ASSUME NEW k \in 1 .. Len(s), k \notin 1 .. Len(q)
      PROVE  k - Len(q) \in 1 .. Len(r) /\ s[k] = r[k - Len(q)]
  <2>1. k - Len(q) \in 1 .. Len(r) /\ Len(q) + (k - Len(q)) = k
    BY <1>1, <1>2
  <2>2. QED BY <2>1, <1>1
<1>3. Items(s) = Items(q) \cup Items(r)
  <2>1. ASSUME NEW i \in 1 .. Len(r) PROVE r[i] \in Items(s)
    <3>1. Len(q) + i \in 1 .. Len(s) /\ s[Len(q) + i] = r[i]
        BY <1>1
    <3>2. QED BY <3>1 DEF Items
  <2>2. ASSUME NEW i \in 1 .. Len(q) PROVE q[i] \in Items(s)
    <3>1. i \in 1 .. Len(s) /\ s[i] = q[i]
        BY <1>1
    <3>2. QED BY <3>1 DEF Items
  <2>3. ASSUME NEW i \in 1 .. Len(s) PROVE s[i] \in Items(q) \cup Items(r)
    BY <1>1, <1>2 DEF Items
  <2>4. Items(q) \cup Items(r) \subseteq Items(s)
    BY <2>1, <2>2 DEF Items
  <2>5. Items(s) \subseteq Items(q) \cup Items(r)
    BY <2>3 DEF Items
  <2>6. QED BY <2>4, <2>5
<1>4. ASSUME NoDup(q), NoDup(r), Items(q) \cap Items(r) = {} PROVE NoDup(s)
  <2>1. SUFFICES ASSUME NEW i \in 1 .. Len(s), NEW j \in 1 .. Len(s), s[i] = s[j]
                 PROVE  i = j
    BY DEF NoDup
  <2>2. CASE i \in 1 .. Len(q) /\ j \in 1 .. Len(q)
    BY <2>1, <2>2, <1>1, <1>4 DEF NoDup
  <2>3. CASE i \notin 1 .. Len(q) /\ j \notin 1 .. Len(q)
    <3>1. i - Len(q) = j - Len(q)
        BY <2>1, <2>3, <1>2, <1>4 DEF NoDup
    <3>2. QED BY <3>1, <1>1
  <2>4. ASSUME NEW k \in 1 .. Len(s), NEW l \in 1 .. Len(s),
               k \in 1 .. Len(q), l \notin 1 .. Len(q), s[k] = s[l]
        PROVE  FALSE
    <3>1. s[k] \in Items(q)
        BY <2>4, <1>1 DEF Items
    <3>2. s[l] \in Items(r)
        BY <2>4, <1>2 DEF Items
    <3>3. QED BY <3>1, <3>2, <2>4, <1>4
  <2>5. QED BY <2>1, <2>2, <2>3, <2>4
<1>5. QED BY <1>1, <1>3, <1>4 DEF s

LEMMA TailItems ==
    ASSUME NEW S, NEW q \in Seq(S), q # << >>, NoDup(q)
    PROVE  /\ Tail(q) \in Seq(S) /\ Head(q) \in Items(q)
           /\ Items(Tail(q)) = Items(q) \ {Head(q)} /\ NoDup(Tail(q))
<1> DEFINE r == Tail(q)
<1>1. /\ r \in Seq(S) /\ Len(r) = Len(q) - 1 /\ Len(q) \in Nat \ {0} /\ Head(q) = q[1]
      /\ \A k \in 1 .. Len(q) - 1 : r[k] = q[k + 1]
    OBVIOUS
<1> HIDE DEF r
<1>2. Items(r) = Items(q) \ {q[1]}
  <2>1. ASSUME NEW k \in 1 .. Len(r) PROVE r[k] \in Items(q) \ {q[1]}
    BY <1>1 DEF Items, NoDup
  <2>2. ASSUME NEW k \in 1 .. Len(q), q[k] # q[1] PROVE q[k] \in Items(r)
    <3>1. k - 1 \in 1 .. Len(r) /\ r[k - 1] = q[k]
        BY <1>1, <2>2
    <3>2. QED BY <3>1 DEF Items
  <2>3. QED BY <2>1, <2>2 DEF Items
<1>3. NoDup(r) /\ q[1] \in Items(q)
    BY <1>1 DEF NoDup, Items
<1>4. QED BY <1>1, <1>2, <1>3 DEF r

(* What a part of a queue holds: as many of its elements, each once.       *)
LEMMA SubSeqItems ==
    ASSUME NEW S, NEW q \in Seq(S), NEW a \in 1 .. Len(q) + 1, NEW b \in a - 1 .. Len(q)
    PROVE  /\ SubSeq(q, a, b) \in Seq(S)
           /\ Items(SubSeq(q, a, b)) = {q[i] : i \in a .. b}
           /\ NoDup(q) => NoDup(SubSeq(q, a, b))
<1> DEFINE r == SubSeq(q, a, b)
<1>1. /\ r \in Seq(S) /\ Len(r) = b - a + 1
      /\ \A k \in 1 .. b - a + 1 : r[k] = q[k + a - 1]
    OBVIOUS
<1> HIDE DEF r
<1>2. ASSUME NEW k \in 1 .. Len(r) PROVE k + a - 1 \in a .. b /\ r[k] = q[k + a - 1]
    BY <1>1
<1>3. ASSUME NEW i \in a .. b PROVE q[i] \in Items(r)
  <2>1. i - a + 1 \in 1 .. Len(r) /\ r[i - a + 1] = q[i]
    BY <1>1
  <2>2. QED BY <2>1 DEF Items
<1>4. Items(r) = {q[i] : i \in a .. b}
    BY <1>2, <1>3, SMTT(60) DEF Items
<1>5. NoDup(q) => NoDup(r)
    BY <1>1, <1>2 DEF NoDup
<1>6. QED BY <1>1, <1>4, <1>5 DEF r

(* A queue cut in two after its first n.                                   *)
LEMMA CutItems ==
    ASSUME NEW S, NEW q \in Seq(S), NoDup(q), NEW n \in 0 .. Len(q)
    PROVE  /\ SubSeq(q, n + 1, Len(q)) \in Seq(S) /\ NoDup(SubSeq(q, n + 1, Len(q)))
           /\ Items(SubSeq(q, 1, n)) \subseteq Items(q)
           /\ Items(SubSeq(q, n + 1, Len(q))) = Items(q) \ Items(SubSeq(q, 1, n))
<1>1. /\ 1 \in 1 .. Len(q) + 1 /\ n \in 1 - 1 .. Len(q)
      /\ n + 1 \in 1 .. Len(q) + 1 /\ Len(q) \in n + 1 - 1 .. Len(q)
    OBVIOUS
<1>2. Items(SubSeq(q, 1, n)) = {q[i] : i \in 1 .. n}
    BY <1>1, SubSeqItems
<1>3. /\ SubSeq(q, n + 1, Len(q)) \in Seq(S) /\ NoDup(SubSeq(q, n + 1, Len(q)))
      /\ Items(SubSeq(q, n + 1, Len(q))) = {q[i] : i \in n + 1 .. Len(q)}
    BY <1>1, SubSeqItems
<1>4. ASSUME NEW i \in 1 .. n PROVE i \in 1 .. Len(q)
    OBVIOUS
<1>5. ASSUME NEW i \in n + 1 .. Len(q) PROVE i \in 1 .. Len(q) /\ \A j \in 1 .. n : q[i] # q[j]
    BY DEF NoDup
<1>6. ASSUME NEW i \in 1 .. Len(q), i \notin 1 .. n PROVE i \in n + 1 .. Len(q)
    BY <1>6
<1>7. Items(q) = {q[i] : i \in 1 .. Len(q)}
    BY DEF Items
<1>8. QED BY <1>2, <1>3, <1>4, <1>5, <1>6, <1>7

-----------------------------------------------------------------------------
(* Positions in a ring, and in a file that is cut into pieces of one size. *)

LEMMA DivMod ==
    ASSUME NEW a \in Int, NEW m \in Nat, m > 0
    PROVE  /\ a % m \in 0 .. m - 1 /\ a \div m \in Int
           /\ a = m * (a \div m) + (a % m)
OBVIOUS

LEMMA AtLeastOnce ==
    ASSUME NEW m \in Nat, NEW d \in Int, d >= 1
    PROVE  m * d >= m /\ m * d \in Int
<1>1. m * d = m * (d - 1) + m
    OBVIOUS
<1>2. d - 1 \in Nat
    OBVIOUS
<1>3. \A x, y \in Nat : x * y \in Nat
    OBVIOUS
<1>4. m * (d - 1) \in Nat
    BY <1>2, <1>3
<1>5. QED BY <1>1, <1>4

(* The quotient and the remainder are the only ones.                       *)
LEMMA DivModUnique ==
    ASSUME NEW a \in Int, NEW m \in Nat, m > 0,
           NEW q \in Int, NEW r \in 0 .. m - 1, a = m * q + r
    PROVE  a % m = r /\ a \div m = q
<1> DEFINE p == a \div m
           s == a % m
<1>1. p \in Int /\ s \in 0 .. m - 1 /\ a = m * p + s
    BY DivMod
<1> HIDE DEF p, s
<1>2. ASSUME NEW x \in Int, NEW y \in Int, NEW u \in 0 .. m - 1, NEW v \in 0 .. m - 1,
             m * x + u = m * y + v, x > y
      PROVE  FALSE
  <2>1. m * x = m * y + m * (x - y)
    OBVIOUS
  <2>2. m * (x - y) >= m /\ m * (x - y) \in Int
    BY <1>2, AtLeastOnce
  <2>3. m * x \in Int /\ m * y \in Int
    OBVIOUS
  <2>4. QED BY <1>2, <2>1, <2>2, <2>3
<1>3. p = q
    BY <1>1, <1>2
<1>4. s = r
  <2>1. m * p \in Int
    BY <1>1
  <2>2. QED BY <1>1, <1>3, <2>1
<1>5. QED BY <1>3, <1>4 DEF p, s

LEMMA ModShift ==
    ASSUME NEW a \in Int, NEW m \in Nat, m > 0, NEW k \in Int
    PROVE  (a + m * k) % m = a % m
<1>1. a % m \in 0 .. m - 1 /\ a \div m \in Int /\ a = m * (a \div m) + (a % m)
    BY DivMod
<1>2. a + m * k = m * ((a \div m) + k) + (a % m)
    BY <1>1
<1>3. a + m * k \in Int /\ (a \div m) + k \in Int
    BY <1>1
<1>4. QED BY <1>1, <1>2, <1>3, DivModUnique

LEMMA ModLap ==
    ASSUME NEW a \in Int, NEW m \in Nat, m > 0
    PROVE  (a + m) % m = a % m
<1>1. a % m \in 0 .. m - 1 /\ a \div m \in Int /\ a = m * (a \div m) + (a % m)
    BY DivMod
<1>2. a + m = m * ((a \div m) + 1) + (a % m)
    BY <1>1
<1>3. a + m \in Int /\ (a \div m) + 1 \in Int
    BY <1>1
<1>4. QED BY <1>1, <1>2, <1>3, DivModUnique, ZenonT(60)

(* Counting modulo m may drop what was counted before.                     *)
LEMMA ModPlus ==
    ASSUME NEW a \in Int, NEW b \in Int, NEW m \in Nat, m > 0
    PROVE  ((a % m) + b) % m = (a + b) % m
<1> DEFINE s == a % m
           q == a \div m
<1>1. s \in 0 .. m - 1 /\ q \in Int /\ a = m * q + s
    BY DivMod
<1> HIDE DEF s, q
<1>2. a + b = (s + b) + m * q
    BY <1>1
<1>3. (s + b) \in Int
    BY <1>1
<1>4. ((s + b) + m * q) % m = (s + b) % m
    BY <1>1, <1>3, ModShift
<1>5. QED BY <1>2, <1>4 DEF s

-----------------------------------------------------------------------------
(* A recursion whose k-th value is in S[k] has values. *)
Rounds(g, S, a, G, n) ==
    /\ g = [k \in 0 .. n |-> g[k]] /\ g[0] = a
    /\ \A k \in 1 .. n : g[k] = G[k][g[k - 1]]
    /\ \A k \in 0 .. n : g[k] \in S[k]

LEMMA RoundsExist ==
    ASSUME NEW n \in Nat, NEW S, NEW a, a \in S[0], NEW G,
           \A k \in 1 .. n : \A x \in S[k - 1] : G[k][x] \in S[k]
    PROVE  \E g : Rounds(g, S, a, G, n)
<1> DEFINE Has(m) == \E g : Rounds(g, S, a, G, m)
           T == {m \in 0 .. n : Has(m)}
<1>1. 0 \in T
  <2> DEFINE g == [k \in 0 .. 0 |-> a]
  <2>1. Rounds(g, S, a, G, 0)
    BY DEF Rounds
  <2>2. Has(0)
    BY <2>1
  <2>3. QED BY <2>2
<1>2. ASSUME NEW m \in 1 .. n, m - 1 \in T PROVE m \in T
  <2>1. PICK g : Rounds(g, S, a, G, m - 1)
    BY <1>2
  <2> DEFINE h == [k \in 0 .. m |-> IF k = m THEN G[m][g[m - 1]] ELSE g[k]]
  <2>2. g[m - 1] \in S[m - 1] /\ G[m][g[m - 1]] \in S[m]
    BY <2>1 DEF Rounds
  <2>3. \A k \in 0 .. m : h[k] = IF k = m THEN G[m][g[m - 1]] ELSE g[k]
    OBVIOUS
  <2>4. h = [k \in 0 .. m |-> h[k]]
    OBVIOUS
  <2> HIDE DEF h
  <2>5. /\ m \in Nat /\ m # 0 /\ g[0] = a /\ \A k \in 0 .. m - 1 : g[k] \in S[k]
        /\ \A k \in 1 .. m - 1 : g[k] = G[k][g[k - 1]]
    <3>1. m \in Nat /\ m # 0
        OBVIOUS
    <3>2. QED BY <2>1, <3>1, Zenon DEF Rounds
  <2>6. h[0] = a
    BY <2>3, <2>5
  <2>7. ASSUME NEW k \in 0 .. m PROVE h[k] \in S[k]
    <3>1. CASE k = m
        BY <2>2, <2>3, <3>1
    <3>2. CASE k # m
        BY <2>3, <2>5, <3>2
    <3>3. QED BY <3>1, <3>2
  <2>8. ASSUME NEW k \in 1 .. m PROVE h[k] = G[k][h[k - 1]]
    <3>1. k \in 0 .. m /\ k - 1 \in 0 .. m /\ k - 1 # m
        BY <2>5
    <3>2. h[k - 1] = g[k - 1]
        BY <2>3, <3>1
    <3>3. CASE k = m
        BY <2>3, <3>1, <3>2, <3>3
    <3>4. CASE k # m
        BY <2>3, <2>5, <3>1, <3>2, <3>4
    <3>5. QED BY <3>3, <3>4
  <2>9. Has(m)
    BY <2>4, <2>6, <2>7, <2>8 DEF Rounds
  <2>10. QED BY <2>9
<1>3. n \in T
  <2> HIDE DEF T
  <2>1. 0 .. n \subseteq T
    BY <1>1, <1>2, Upwards
  <2>2. QED BY <2>1
<1>4. QED BY <1>3
=============================================================================

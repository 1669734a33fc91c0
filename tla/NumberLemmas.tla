--------------------------- MODULE NumberLemmas ----------------------------
(***************************************************************************)
(* Least and greatest members of sets of numbers, which the extents of     *)
(* ranges are made of, running sums, which budgets are, sequences put one  *)
(* behind the other, and the rows a sequence of cells is cut into.         *)
(***************************************************************************)
EXTENDS Integers, Sequences, FiniteSetsExt, SequencesExt, TLAPS, SequenceTheorems,
        WellFoundedInduction

LEMMA LeastMember ==
  ASSUME NEW S, S \subseteq Nat, S # {}
  PROVE  \E m \in S : \A x \in S : m <= x
<1>1. PICK m \in S : \A x \in S : ~(<<x, m>> \in OpToRel(<, Nat))
  BY Zenon, NatLessThanWellFounded, WFMin
<1>2. \A x \in S : m <= x
  <2> SUFFICES ASSUME NEW x \in S, ~(m <= x)  PROVE FALSE
    OBVIOUS
  <2>1. x \in Nat /\ m \in Nat /\ x < m  OBVIOUS
  <2>2. <<x, m>> \in OpToRel(<, Nat)  BY <2>1, Zenon DEF OpToRel
  <2> QED  BY <1>1, <2>2, Zenon
<1> QED  BY <1>2

LEMMA Extremes ==
  ASSUME NEW n \in Nat, NEW S, S \subseteq 0..n, S # {}
  PROVE  /\ Min(S) \in S /\ \A x \in S : Min(S) <= x
         /\ Max(S) \in S /\ \A x \in S : x <= Max(S)
<1>0. S \subseteq Nat /\ \A x \in S : x <= n /\ n - x \in Nat  OBVIOUS
<1>1. \E m \in S : \A x \in S : m <= x  BY <1>0, LeastMember, Zenon
<1>2. \E m \in S : \A x \in S : m >= x
  <2> DEFINE T == {n - x : x \in S}
  <2>1. T \subseteq Nat /\ T # {}  BY <1>0
  <2>2. PICK t \in T : \A y \in T : t <= y  BY <2>1, LeastMember
  <2>3. PICK m \in S : t = n - m  OBVIOUS
  <2>4. \A x \in S : n - m <= n - x  BY <2>2, <2>3
  <2>5. \A x \in S : m >= x
    <3> SUFFICES ASSUME NEW x \in S  PROVE m >= x
      OBVIOUS
    <3> HIDE DEF T
    <3>1. n - m <= n - x /\ x \in Nat /\ m \in Nat  BY <2>4
    <3> QED  BY <3>1
  <2> QED  BY <2>5
<1>3. Min(S) \in S /\ \A x \in S : Min(S) <= x  BY <1>1 DEF Min
<1>4. Max(S) \in S /\ \A x \in S : Max(S) >= x  BY <1>2 DEF Max
<1>5. \A x \in S : x <= Max(S)
  <2> SUFFICES ASSUME NEW x \in S  PROVE x <= Max(S)
    OBVIOUS
  <2>1. x \in Nat /\ Max(S) \in Nat /\ Max(S) >= x  BY <1>0, <1>4, Zenon
  <2> QED  BY <2>1
<1> QED  BY <1>3, <1>4, <1>5

(* What is known to be least or greatest. *)
LEMMA ExtremeIs ==
  ASSUME NEW n \in Nat, NEW S, S \subseteq 0..n, NEW m \in S
  PROVE  /\ (\A x \in S : m <= x) => Min(S) = m
         /\ (\A x \in S : x <= m) => Max(S) = m
<1>1. /\ Min(S) \in S /\ \A x \in S : Min(S) <= x
      /\ Max(S) \in S /\ \A x \in S : x <= Max(S)
  BY Extremes
<1>2. S \subseteq Nat  OBVIOUS
<1>3. m \in Nat /\ Min(S) \in Nat /\ Max(S) \in Nat  BY <1>1, <1>2, Zenon
<1> QED  BY <1>1, <1>3

(* What holds at 0 and is handed on by every number up to n. *)
LEMMA Climbs ==
  ASSUME NEW n \in Nat, NEW S, 0 \in S, \A i \in 1..n : i - 1 \in S => i \in S
  PROVE  \A i \in 0..n : i \in S
<1> SUFFICES ASSUME NEW i \in 0..n, i \notin S PROVE FALSE  OBVIOUS
<1> DEFINE T == {k \in 0..n : k \notin S}
<1>1. T \subseteq Nat /\ T # {}  OBVIOUS
<1>2. PICK m \in T : \A k \in T : m <= k  BY <1>1, LeastMember
<1>3. m \in 1..n /\ m - 1 \in 0..n  BY <1>2
<1>4. m - 1 \in S
  <2>1. ~(m <= m - 1)  BY <1>3
  <2> QED  BY <1>2, <1>3, <2>1
<1> QED  BY <1>2, <1>3, <1>4

-----------------------------------------------------------------------------
Numbers(n) == [1..n -> Nat]

(* f gives the sums of the first numbers of t. *)
Sums(f, t, n) == f = [i \in 0..n |-> IF i = 0 THEN 0 ELSE f[i - 1] + t[i]]

LEMMA SumExists ==
  ASSUME NEW n \in Nat, NEW t \in Numbers(n)
  PROVE  \E f : Sums(f, t, n)
<1> DEFINE S == {k \in 0..n : \E f : Sums(f, t, k)}
<1>1. 0 \in S
  <2> DEFINE f == [i \in 0..0 |-> 0]
  <2>1. Sums(f, t, 0)  BY DEF Sums
  <2> QED  BY <2>1
<1>2. ASSUME NEW i \in 1..n, i - 1 \in S  PROVE i \in S
  <2>1. PICK f : Sums(f, t, i - 1)  BY <1>2
  <2> DEFINE g == [j \in 0..i |-> IF j = i THEN f[i - 1] + t[i] ELSE f[j]]
  <2>2. ASSUME NEW j \in 0..i
        PROVE  g[j] = IF j = 0 THEN 0 ELSE g[j - 1] + t[j]
    <3>1. CASE j = i  BY <3>1
    <3>2. CASE j # i
      <4>1. j \in 0..(i - 1) /\ g[j] = f[j]  BY <3>2
      <4>2. f[j] = IF j = 0 THEN 0 ELSE f[j - 1] + t[j]  BY <2>1, <4>1 DEF Sums
      <4>3. j # 0 => g[j - 1] = f[j - 1]  BY <3>2, <4>1
      <4> QED  BY <4>1, <4>2, <4>3
    <3> QED  BY <3>1, <3>2
  <2>3. Sums(g, t, i)  BY <2>2 DEF Sums
  <2> QED  BY <2>3
<1>3. \A i \in 0..n : i \in S
  <2> HIDE DEF S
  <2> QED  BY <1>1, <1>2, Climbs
<1> QED  BY <1>3

LEMMA SumMeans ==
  ASSUME NEW n \in Nat, NEW t \in Numbers(n), NEW f, Sums(f, t, n)
  PROVE  f \in [0..n -> Nat] /\ f[0] = 0 /\ \A i \in 1..n : f[i] = f[i - 1] + t[i]
<1>1. DOMAIN f = 0..n /\ f[0] = 0 /\ \A i \in 1..n : f[i] = f[i - 1] + t[i]
  BY DEF Sums
<1> DEFINE S == {k \in 0..n : f[k] \in Nat}
<1>2. 0 \in S  BY <1>1
<1>3. ASSUME NEW i \in 1..n, i - 1 \in S  PROVE i \in S
  <2>1. f[i] = f[i - 1] + t[i] /\ f[i - 1] \in Nat /\ t[i] \in Nat
    BY <1>1, <1>3 DEF Numbers
  <2> QED  BY <2>1
<1>4. \A i \in 0..n : i \in S
  <2> HIDE DEF S
  <2> QED  BY <1>2, <1>3, Climbs
<1>5. f = [i \in 0..n |-> IF i = 0 THEN 0 ELSE f[i - 1] + t[i]]  BY DEF Sums
<1>6. f = [i \in 0..n |-> f[i]]  BY <1>1, <1>5
<1> QED  BY <1>1, <1>4, <1>6

(* Numbers that differ in one place, where there was none. *)
OneAdded(t, u, n, x) == t[x] = 0 /\ \A i \in 1..n : i # x => u[i] = t[i]

LEMMA SumOneMore ==
  ASSUME NEW n \in Nat, NEW t \in Numbers(n), NEW u \in Numbers(n),
         NEW f, Sums(f, t, n), NEW g, Sums(g, u, n),
         NEW x \in 1..n, OneAdded(t, u, n, x)
  PROVE  g[n] = f[n] + u[x]
<1>0. t[x] = 0 /\ \A i \in 1..n : i # x => u[i] = t[i]  BY DEF OneAdded
<1>1. f \in [0..n -> Nat] /\ f[0] = 0 /\ \A i \in 1..n : f[i] = f[i - 1] + t[i]
  BY SumMeans
<1>2. g \in [0..n -> Nat] /\ g[0] = 0 /\ \A i \in 1..n : g[i] = g[i - 1] + u[i]
  BY SumMeans
<1> DEFINE S == {k \in 0..n : g[k] = f[k] + (IF x <= k THEN u[x] ELSE 0)}
<1>3. 0 \in S  BY <1>1, <1>2
<1>4. ASSUME NEW i \in 1..n, i - 1 \in S  PROVE i \in S
  <2>1. /\ g[i] = g[i - 1] + u[i] /\ f[i] = f[i - 1] + t[i]
        /\ f[i - 1] \in Nat /\ u[i] \in Nat /\ t[i] \in Nat /\ u[x] \in Nat
    <3>1. i \in 1..n /\ x \in 1..n /\ i - 1 \in 0..n  OBVIOUS
    <3>2. u[i] \in Nat /\ t[i] \in Nat /\ u[x] \in Nat
      BY ONLY <3>1, t \in Numbers(n), u \in Numbers(n) DEF Numbers
    <3> QED  BY ONLY <1>1, <1>2, <3>1, <3>2
  <2>2. g[i - 1] = f[i - 1] + (IF x <= i - 1 THEN u[x] ELSE 0)  BY <1>4
  <2>3. CASE i = x  BY <1>0, <2>1, <2>2, <2>3
  <2>4. CASE i # x
    <3>1. u[i] = t[i] /\ (x <= i - 1 <=> x <= i)  BY <1>0, <2>4
    <3> QED  BY <2>1, <2>2, <3>1
  <2> QED  BY <2>3, <2>4
<1>5. \A i \in 0..n : i \in S
  <2> HIDE DEF S
  <2> QED  BY <1>3, <1>4, Climbs
<1>6. n \in S  BY <1>5
<1> QED  BY <1>6

LEMMA SumOfNone ==
  ASSUME NEW n \in Nat, NEW t \in Numbers(n), NEW f, Sums(f, t, n),
         \A i \in 1..n : t[i] = 0
  PROVE  f[n] = 0
<1>1. f \in [0..n -> Nat] /\ f[0] = 0 /\ \A i \in 1..n : f[i] = f[i - 1] + t[i]
  BY SumMeans
<1> DEFINE S == {k \in 0..n : f[k] = 0}
<1>2. 0 \in S /\ \A i \in 1..n : i - 1 \in S => i \in S  BY <1>1 DEF Numbers
<1>3. \A i \in 0..n : i \in S
  <2> HIDE DEF S
  <2> QED  BY <1>2, Climbs
<1> QED  BY <1>3

(* p is t in another order. *)
Distinct(p, n) == \A i, j \in 1..n : i < j => p[i] # p[j]
Moves(t, p, u, n) == \A i \in 1..n : u[i] = t[p[i]]

(* The numbers of t at the places D, and 0 elsewhere. *)
Chosen(t, D, n) == [i \in 1..n |-> IF i \in D THEN t[i] ELSE 0]
FirstOf(p, k) == {p[i] : i \in 1..k}

LEMMA UpToNext == ASSUME NEW i \in Nat, i # 0  PROVE 1..i = (1..(i - 1)) \cup {i}
OBVIOUS

LEMMA SumOfFirst ==
  ASSUME NEW n \in Nat, NEW t \in Numbers(n),
         NEW p \in [1..n -> 1..n], Distinct(p, n),
         NEW u \in Numbers(n), Moves(t, p, u, n),
         NEW g, Sums(g, u, n),
         NEW m \in 0..n, NEW f, Sums(f, Chosen(t, FirstOf(p, m), n), n)
  PROVE  f[n] = g[m]
<1>1. \A k : /\ Chosen(t, FirstOf(p, k), n) \in Numbers(n)
             /\ \A i \in 1..n : Chosen(t, FirstOf(p, k), n)[i] =
                    IF i \in FirstOf(p, k) THEN t[i] ELSE 0
  BY DEF Chosen, Numbers
<1>2. g \in [0..n -> Nat] /\ g[0] = 0 /\ \A i \in 1..n : g[i] = g[i - 1] + u[i]
  BY SumMeans
<1> DEFINE P(k) == \A d : Sums(d, Chosen(t, FirstOf(p, k), n), n) => d[n] = g[k]
           S == {k \in 0..n : P(k)}
<1>3. P(0)
  <2>1. ASSUME NEW d, Sums(d, Chosen(t, FirstOf(p, 0), n), n)  PROVE d[n] = g[0]
    <3>1. \A i \in 1..n : i \notin FirstOf(p, 0)  BY DEF FirstOf
    <3>2. \A i \in 1..n : Chosen(t, FirstOf(p, 0), n)[i] = 0  BY <1>1, <3>1
    <3>3. d[n] = 0  BY <1>1, <2>1, <3>2, SumOfNone
    <3> QED  BY <1>2, <3>3
  <2> QED  BY <2>1, Zenon
<1>4. ASSUME NEW i \in 1..n, P(i - 1)  PROVE P(i)
  <2> DEFINE v == Chosen(t, FirstOf(p, i - 1), n)
             w == Chosen(t, FirstOf(p, i), n)
  <2>1. v \in Numbers(n) /\ w \in Numbers(n) /\ p[i] \in 1..n  BY <1>1
  <2>2. FirstOf(p, i) = FirstOf(p, i - 1) \cup {p[i]} /\ p[i] \notin FirstOf(p, i - 1)
    <3>1. 1..i = (1..(i - 1)) \cup {i}  BY UpToNext, SMTT(60)
    <3>2. \A j \in 1..(i - 1) : j < i /\ j \in 1..n  OBVIOUS
    <3>3. FirstOf(p, i) = FirstOf(p, i - 1) \cup {p[i]}
      <4>1. \A x : x \in FirstOf(p, i) <=> \E j \in 1..i : x = p[j]  BY Zenon DEF FirstOf
      <4>2. \A x : x \in FirstOf(p, i - 1) <=> \E j \in 1..(i - 1) : x = p[j]
        BY Zenon DEF FirstOf
      <4> QED  BY ONLY <3>1, <4>1, <4>2
    <3>4. p[i] \notin FirstOf(p, i - 1)  BY <3>2, Zenon DEF FirstOf, Distinct
    <3> QED  BY <3>3, <3>4
  <2>3. \A j \in 1..n : j # p[i] => w[j] = v[j]
    <3>1. \A j \in 1..n : /\ v[j] = IF j \in FirstOf(p, i - 1) THEN t[j] ELSE 0
                          /\ w[j] = IF j \in FirstOf(p, i) THEN t[j] ELSE 0
      BY <1>1
    <3> HIDE DEF v, w
    <3> QED  BY <2>2, <3>1
  <2>4. v[p[i]] = 0 /\ w[p[i]] = t[p[i]]  BY <1>1, <2>1, <2>2
  <2>5. \A c : Sums(c, v, n) => c[n] = g[i - 1]  BY <1>4, Zenon
  <2>6. ASSUME NEW d, Sums(d, w, n)  PROVE d[n] = g[i]
    <3> HIDE DEF v, w
    <3>1. PICK e : Sums(e, v, n)  BY <2>1, SumExists
    <3>2. e[n] = g[i - 1]  BY <2>5, <3>1
    <3> DEFINE x == p[i]
    <3>3. x \in 1..n /\ v[x] = 0 /\ \A j \in 1..n : j # x => w[j] = v[j]
      BY <2>1, <2>3, <2>4
    <3> HIDE DEF x
    <3>4. x \in 1..n /\ OneAdded(v, w, n, x)  BY <3>3 DEF OneAdded
    <3>5. d[n] = e[n] + w[x]  BY <2>1, <2>6, <3>1, <3>4, SumOneMore
    <3>6. w[x] = u[i]  BY <2>4 DEF x, Moves
    <3> QED  BY <1>2, <3>2, <3>5, <3>6
  <2> QED  BY <2>6, Zenon
<1>5. \A i \in 0..n : i \in S
  <2> HIDE DEF P
  <2>1. 0 \in S  BY <1>3
  <2>2. \A i \in 1..n : i - 1 \in S => i \in S
    <3> SUFFICES ASSUME NEW i \in 1..n, P(i - 1) PROVE i \in S  OBVIOUS
    <3> QED  BY <1>4
  <2> HIDE DEF S
  <2> QED  BY <2>1, <2>2, Climbs
<1> QED  BY <1>5, Zenon

(* A sum does not depend on the order. *)
LEMMA SumPermuted ==
  ASSUME NEW n \in Nat, NEW t \in Numbers(n), NEW f, Sums(f, t, n),
         NEW p \in [1..n -> 1..n], Distinct(p, n),
         \A k \in 1..n : \E i \in 1..n : p[i] = k,
         NEW u \in Numbers(n), Moves(t, p, u, n),
         NEW g, Sums(g, u, n)
  PROVE  g[n] = f[n]
<1>1. \A k \in 1..n : k \in FirstOf(p, n)  BY Zenon DEF FirstOf
<1>2. Chosen(t, FirstOf(p, n), n) = t  BY <1>1 DEF Chosen, Numbers
<1>3. n \in 0..n /\ Sums(f, Chosen(t, FirstOf(p, n), n), n)  BY <1>2
<1>4. /\ n \in Nat /\ t \in Numbers(n) /\ u \in Numbers(n) /\ Sums(g, u, n)
      /\ p \in [1..n -> 1..n] /\ Distinct(p, n) /\ Moves(t, p, u, n)
  OBVIOUS
<1> QED  BY ONLY <1>3, <1>4, SumOfFirst

(* The last of them sum up to no more than all. *)
LEMMA SumOfRest ==
  ASSUME NEW n \in Nat, NEW t \in Numbers(n), NEW f, Sums(f, t, n),
         NEW m \in 0..n, NEW g, Sums(g, [i \in 1..(n - m) |-> t[m + i]], n - m)
  PROVE  g[n - m] <= f[n]
<1>1. f \in [0..n -> Nat] /\ f[0] = 0 /\ \A i \in 1..n : f[i] = f[i - 1] + t[i]
  BY SumMeans
<1> DEFINE u == [i \in 1..(n - m) |-> t[m + i]]
<1>2. n - m \in Nat /\ u \in Numbers(n - m) /\ \A i \in 1..(n - m) : u[i] = t[m + i]
  BY DEF Numbers
<1>3. Sums(g, u, n - m)  OBVIOUS
<1> HIDE DEF u
<1>4. /\ g \in [0..(n - m) -> Nat] /\ g[0] = 0
      /\ \A i \in 1..(n - m) : g[i] = g[i - 1] + u[i]
  BY <1>2, <1>3, SumMeans
<1> DEFINE S == {k \in 0..(n - m) : f[m] + g[k] = f[m + k]}
<1>5. 0 \in S  BY <1>1, <1>4
<1>6. ASSUME NEW i \in 1..(n - m), i - 1 \in S  PROVE i \in S
  <2>1. m + i \in 1..n /\ (m + i) - 1 = m + (i - 1)  OBVIOUS
  <2>2. f[m + i] = f[m + (i - 1)] + t[m + i]  BY <1>1, <2>1
  <2>3. g[i] = g[i - 1] + t[m + i]  BY <1>2, <1>4
  <2>4. /\ f[m] + g[i - 1] = f[m + (i - 1)]
        /\ f[m] \in Nat /\ g[i - 1] \in Nat /\ t[m + i] \in Nat
    BY <1>1, <1>4, <1>6, <2>1 DEF Numbers
  <2>5. f[m] + g[i] = f[m + i]  BY <2>2, <2>3, <2>4
  <2> QED  BY <2>5
<1>7. \A i \in 0..(n - m) : i \in S
  <2> HIDE DEF S
  <2> QED  BY <1>2, <1>5, <1>6, Climbs
<1>8. f[m] + g[n - m] = f[m + (n - m)] /\ m + (n - m) = n  BY <1>2, <1>7
<1> QED  BY <1>1, <1>2, <1>4, <1>8

(* The first of them sum up to the same. *)
LEMMA SumOfFront ==
  ASSUME NEW n \in Nat, NEW t \in Numbers(n), NEW f, Sums(f, t, n),
         NEW m \in Nat, NEW u \in Numbers(m), NEW g, Sums(g, u, m),
         n <= m, \A i \in 1..n : u[i] = t[i]
  PROVE  \A k \in 0..n : g[k] = f[k]
<1>1. f \in [0..n -> Nat] /\ f[0] = 0 /\ \A i \in 1..n : f[i] = f[i - 1] + t[i]
  BY SumMeans
<1>2. g \in [0..m -> Nat] /\ g[0] = 0 /\ \A i \in 1..m : g[i] = g[i - 1] + u[i]
  BY SumMeans
<1> DEFINE S == {k \in 0..n : g[k] = f[k]}
<1>3. 0 \in S  BY <1>1, <1>2
<1>4. ASSUME NEW i \in 1..n, i - 1 \in S  PROVE i \in S
  <2>1. i \in 1..m  OBVIOUS
  <2>2. f[i] = f[i - 1] + t[i] /\ g[i] = g[i - 1] + u[i] /\ u[i] = t[i]  BY <1>1, <1>2, <2>1
  <2> QED  BY <1>4, <2>2
<1>5. \A i \in 0..n : i \in S
  <2> HIDE DEF S
  <2> QED  BY <1>3, <1>4, Climbs
<1> QED  BY <1>5

-----------------------------------------------------------------------------
(* How many places a walk that only goes on comes to: next is 0 where the  *)
(* walk ends, or a later place, which may lie beyond n.                    *)
Onward(next, n) ==
    \A x \in 1..n : next[x] \in Nat /\ (next[x] = 0 \/ next[x] > x)
Hops(f, next, n) ==
    f = [x \in 1..n |-> IF next[x] = 0 THEN 0
                        ELSE 1 + (IF next[x] > n THEN 0 ELSE f[next[x]])]

LEMMA HopsExist ==
  ASSUME NEW n \in Nat, NEW next, Onward(next, n)
  PROVE  \E f : Hops(f, next, n)
<1> DEFINE H(f, k) ==
        f = [x \in (n - k + 1)..n |->
                IF next[x] = 0 THEN 0
                ELSE 1 + (IF next[x] > n THEN 0 ELSE f[next[x]])]
           S == {k \in 0..n : \E f : H(f, k)}
<1>1. 0 \in S
  <2> DEFINE e == [x \in (n - 0 + 1)..n |-> 0]
  <2>1. ~\E x : x \in (n - 0 + 1)..n  OBVIOUS
  <2>2. H(e, 0)  BY <2>1, Zenon
  <2> QED  BY <2>2
<1>2. \A k \in 1..n : k - 1 \in S => k \in S
  <2> SUFFICES ASSUME NEW k \in 1..n, k - 1 \in S  PROVE k \in S
    OBVIOUS
  <2>1. PICK f : H(f, k - 1)  OBVIOUS
  <2> DEFINE a == n - k + 1
             g == [x \in a..n |->
                      IF x # a THEN f[x]
                      ELSE IF next[a] = 0 THEN 0
                      ELSE 1 + (IF next[a] > n THEN 0 ELSE f[next[a]])]
  <2>2. a \in 1..n /\ n - (k - 1) + 1 = a + 1  OBVIOUS
  <2>3. f = [x \in (a + 1)..n |->
                IF next[x] = 0 THEN 0
                ELSE 1 + (IF next[x] > n THEN 0 ELSE f[next[x]])]
    <3> HIDE DEF a
    <3> QED  BY <2>1, <2>2, Zenon
  <2> HIDE DEF a
  <2>4. \A x \in a..n : next[x] # 0 /\ ~(next[x] > n) =>
            next[x] \in (a + 1)..n
    BY <2>2 DEF Onward
  <2>5. \A x \in (a + 1)..n : x \in a..n /\ x # a  BY <2>2
  <2>6. \A x \in (a + 1)..n : g[x] = f[x]  BY <2>5, Zenon
  <2>7. ASSUME NEW x \in a..n
        PROVE  g[x] = IF next[x] = 0 THEN 0
                      ELSE 1 + (IF next[x] > n THEN 0 ELSE g[next[x]])
    <3>1. next[x] # 0 /\ ~(next[x] > n) => g[next[x]] = f[next[x]]
      BY <2>4, <2>6
    <3>2. CASE x = a
      <4>1. g[x] = IF next[x] = 0 THEN 0
                   ELSE 1 + (IF next[x] > n THEN 0 ELSE f[next[x]])
        BY <3>2, Zenon
      <4> HIDE DEF g
      <4> QED  BY <3>1, <4>1
    <3>3. CASE x # a
      <4>1. x \in (a + 1)..n  BY <2>2, <3>3
      <4>2. g[x] = f[x]  BY <2>6, <4>1
      <4>3. f[x] = IF next[x] = 0 THEN 0
                   ELSE 1 + (IF next[x] > n THEN 0 ELSE f[next[x]])
        BY <2>3, <4>1, Zenon
      <4> HIDE DEF g
      <4> QED  BY <3>1, <4>2, <4>3
    <3> QED  BY <3>2, <3>3
  <2>8. g = [x \in a..n |-> g[x]]  OBVIOUS
  <2>9. g = [x \in a..n |->
                IF next[x] = 0 THEN 0
                ELSE 1 + (IF next[x] > n THEN 0 ELSE g[next[x]])]
    <3> HIDE DEF g
    <3> QED  BY <2>7, <2>8, Zenon
  <2>10. H(g, k)  BY <2>9, Zenon DEF a
  <2> HIDE DEF H, g
  <2> QED  BY <2>10
<1> HIDE DEF S
<1>3. n \in S  BY <1>1, <1>2, Climbs
<1>4. PICK f : H(f, n)  BY <1>3 DEF S
<1>5. n - n + 1 = 1  OBVIOUS
<1>6. Hops(f, next, n)  BY <1>4, <1>5, Zenon DEF Hops
<1> QED  BY <1>6

LEMMA HopsCount ==
  ASSUME NEW n \in Nat, NEW next, Onward(next, n), NEW f, Hops(f, next, n),
         NEW p \in 1..n
  PROVE  /\ f[p] \in Nat
         /\ f[p] = IF next[p] = 0 THEN 0
                   ELSE 1 + (IF next[p] > n THEN 0 ELSE f[next[p]])
<1>1. \A x \in 1..n :
        f[x] = IF next[x] = 0 THEN 0
               ELSE 1 + (IF next[x] > n THEN 0 ELSE f[next[x]])
  BY Zenon DEF Hops
<1> DEFINE S == {k \in 0..n : \A x \in (n - k + 1)..n : f[x] \in Nat}
<1>2. 0 \in S  OBVIOUS
<1>3. \A k \in 1..n : k - 1 \in S => k \in S
  <2> SUFFICES ASSUME NEW k \in 1..n, k - 1 \in S  PROVE k \in S
    OBVIOUS
  <2> SUFFICES ASSUME NEW x \in (n - k + 1)..n  PROVE f[x] \in Nat
    <3>1. k \in 0..n  OBVIOUS
    <3> QED  BY <3>1
  <2>1. \A y \in (n - (k - 1) + 1)..n : f[y] \in Nat  OBVIOUS
  <2>2. x \in 1..n  OBVIOUS
  <2>3. next[x] \in Nat /\ (next[x] = 0 \/ next[x] > x)  BY <2>2 DEF Onward
  <2>4. f[x] = IF next[x] = 0 THEN 0
               ELSE 1 + (IF next[x] > n THEN 0 ELSE f[next[x]])
    BY <1>1, <2>2
  <2> HIDE DEF S
  <2>5. next[x] # 0 /\ ~(next[x] > n) => f[next[x]] \in Nat
    BY <2>1, <2>3
  <2> QED  BY <2>3, <2>4, <2>5
<1> HIDE DEF S
<1>4. n \in S  BY <1>2, <1>3, Climbs
<1>5. f[p] \in Nat  BY <1>4 DEF S
<1> QED  BY <1>1, <1>5

-----------------------------------------------------------------------------
(* A value carried through n steps, each a function of its own.            *)
Carried(f, base, G, n) ==
    f = [k \in 0..n |-> IF k = 0 THEN base ELSE G[k][f[k - 1]]]

LEMMA CarriedExists ==
  ASSUME NEW n \in Nat, NEW V, NEW base \in V, NEW G \in [1..n -> [V -> V]]
  PROVE  \E f \in [0..n -> V] : Carried(f, base, G, n)
<1> DEFINE S == {k \in 0..n : \E f \in [0..k -> V] : Carried(f, base, G, k)}
<1>1. 0 \in S
  <2> DEFINE f == [i \in 0..0 |-> base]
  <2>1. f \in [0..0 -> V] /\ Carried(f, base, G, 0)  BY DEF Carried
  <2> QED  BY <2>1
<1>2. ASSUME NEW i \in 1..n, i - 1 \in S  PROVE i \in S
  <2>1. PICK f \in [0..(i - 1) -> V] : Carried(f, base, G, i - 1)  BY <1>2
  <2> DEFINE g == [j \in 0..i |-> IF j = i THEN G[i][f[i - 1]] ELSE f[j]]
  <2>2. ASSUME NEW j \in 0..i
        PROVE  g[j] \in V /\ g[j] = IF j = 0 THEN base ELSE G[j][g[j - 1]]
    <3>1. CASE j = i
      <4>1. j # 0 /\ j - 1 \in 0..(i - 1) /\ j - 1 \in 0..i /\ j - 1 # i
        BY <3>1
      <4>2. f[j - 1] \in V /\ g[j - 1] = f[j - 1]  BY <4>1
      <4>3. G[i] \in [V -> V]  OBVIOUS
      <4> QED  BY <3>1, <4>1, <4>2, <4>3
    <3>2. CASE j # i
      <4>1. j \in 0..(i - 1) /\ g[j] = f[j]  BY <3>2
      <4>2. f[j] = IF j = 0 THEN base ELSE G[j][f[j - 1]]
        BY <2>1, <4>1 DEF Carried
      <4>3. j # 0 => g[j - 1] = f[j - 1]  BY <3>2, <4>1
      <4>4. f[j] \in V  BY <4>1
      <4> QED  BY <4>1, <4>2, <4>3, <4>4
    <3> QED  BY <3>1, <3>2
  <2>3. g \in [0..i -> V] /\ Carried(g, base, G, i)
    <3>1. g = [j \in 0..i |-> g[j]]  OBVIOUS
    <3> HIDE DEF g
    <3>2. g = [j \in 0..i |-> IF j = 0 THEN base ELSE G[j][g[j - 1]]]
      BY <2>2, <3>1, Zenon
    <3>3. g \in [0..i -> V]  BY <2>2, <3>1
    <3> QED  BY <3>2, <3>3, Zenon DEF Carried
  <2> HIDE DEF g
  <2>4. i \in 0..n  OBVIOUS
  <2> QED  BY <2>3, <2>4
<1> HIDE DEF S
<1>3. \A i \in 0..n : i \in S  BY <1>1, <1>2, Climbs
<1>4. n \in 0..n  OBVIOUS
<1> QED  BY <1>3, <1>4 DEF S

(* What the first of n sequences come to, one behind the other. *)
Runs(f, ss, n) ==
    f[0] = <<>> /\ \A k \in 1..n : f[k] = f[k - 1] \o ss[k]

LEMMA FlattenRuns ==
  ASSUME NEW T, NEW n \in Nat, NEW ss \in [1..n -> Seq(T)]
  PROVE  \E f \in [0..n -> Seq(T)] : Runs(f, ss, n) /\ FlattenSeq(ss) = f[n]
<1> DEFINE G == [k \in 1..n |-> [v \in Seq(T) |-> v \o ss[k]]]
<1>1. G \in [1..n -> [Seq(T) -> Seq(T)]]
  <2> SUFFICES ASSUME NEW k \in 1..n, NEW v \in Seq(T)
               PROVE  v \o ss[k] \in Seq(T)
    BY Zenon
  <2>1. ss[k] \in Seq(T)  OBVIOUS
  <2> QED  BY ONLY <2>1, v \in Seq(T)
<1>2. <<>> \in Seq(T)  OBVIOUS
<1>3. \A k \in 1..n, v \in Seq(T) : G[k][v] = v \o ss[k]  OBVIOUS
<1> HIDE DEF G
<1>4. PICK f \in [0..n -> Seq(T)] : Carried(f, <<>>, G, n)
  BY <1>1, <1>2, CarriedExists
<1>5. /\ f[0] = <<>>
      /\ \A k \in 1..n : f[k] = f[k - 1] \o ss[k]
  <2>1. \A k \in 0..n : f[k] = IF k = 0 THEN <<>> ELSE G[k][f[k - 1]]
    BY <1>4, Zenon DEF Carried
  <2>2. 0 \in 0..n /\ \A k \in 1..n : k \in 0..n /\ k # 0 /\ k - 1 \in 0..n
    OBVIOUS
  <2>3. \A k \in 1..n : f[k] = G[k][f[k - 1]] /\ f[k - 1] \in Seq(T)
    BY <1>4, <2>1, <2>2
  <2> QED  BY <1>3, <2>1, <2>2, <2>3
<1>6. FlattenSeq(ss) = f[n]
  <2>0. Len(ss) = n
    <3>1. ss \in Seq(Seq(T)) /\ DOMAIN ss = 1..n  OBVIOUS
    <3> QED  BY ONLY <3>1, n \in Nat
  <2>1. CASE n = 0
    <3>1. ss = <<>>
      <4>1. ss \in Seq(Seq(T))  OBVIOUS
      <4> QED  BY ONLY <2>0, <2>1, <4>1
    <3> QED  BY <1>5, <2>0, <2>1, <3>1 DEF FlattenSeq
  <2>2. CASE n # 0
    <3> DEFINE Flat(g) == g = [i \in 1..n |-> IF i = 1 THEN ss[i]
                                              ELSE g[i - 1] \o ss[i]]
               h == CHOOSE g : Flat(g)
               e == [i \in 1..n |-> f[i]]
    <3>1. FlattenSeq(ss) = h[n]
      BY <2>0, <2>2, Zenon DEF FlattenSeq
    <3>2. Flat(e)
      <4>1. ASSUME NEW i \in 1..n
            PROVE  e[i] = IF i = 1 THEN ss[i] ELSE e[i - 1] \o ss[i]
        <5>1. f[i] = f[i - 1] \o ss[i] /\ e[i] = f[i]  BY <1>5
        <5>2. CASE i = 1
          <6>1. <<>> \o ss[i] = ss[i]
            <7>1. ss[i] \in Seq(T)  OBVIOUS
            <7> QED  BY ONLY <7>1
          <6>2. i - 1 = 0  BY ONLY <5>2
          <6>3. f[i - 1] = <<>>  BY ONLY <1>5, <6>2
          <6> QED  BY ONLY <5>1, <5>2, <6>1, <6>3
        <5>3. CASE i # 1
          <6>1. i - 1 \in 1..n  BY <5>3
          <6>2. e[i - 1] = f[i - 1]  BY <6>1
          <6> QED  BY <5>1, <5>3, <6>2
        <5> QED  BY <5>2, <5>3
      <4>2. e = [i \in 1..n |-> e[i]]  OBVIOUS
      <4> HIDE DEF e
      <4> QED  BY <4>1, <4>2, Zenon
    <3> HIDE DEF e
    <3>3. Flat(h)  BY <3>2
    <3> HIDE DEF h
    <3> DEFINE W == {i \in 0..n : i # 0 => h[i] = f[i]}
    <3>4. \A i \in 1..n : h[i] = IF i = 1 THEN ss[i] ELSE h[i - 1] \o ss[i]
      BY <3>3, Zenon
    <3>5. \A i \in 1..n : i - 1 \in W => i \in W
      <4> SUFFICES ASSUME NEW i \in 1..n, i - 1 \in W  PROVE h[i] = f[i]
        BY n \in Nat
      <4>1. f[i] = f[i - 1] \o ss[i]  BY <1>5
      <4>2. CASE i = 1
        <5>1. <<>> \o ss[i] = ss[i]
          <6>1. ss[i] \in Seq(T)  OBVIOUS
          <6> QED  BY ONLY <6>1
        <5>2. i - 1 = 0  BY ONLY <4>2
        <5>3. f[i - 1] = <<>>  BY ONLY <1>5, <5>2
        <5>4. h[i] = ss[i]  BY <3>4, <4>2
        <5> QED  BY ONLY <4>1, <5>1, <5>3, <5>4
      <4>3. CASE i # 1
        <5>1. i - 1 # 0 /\ h[i - 1] = f[i - 1]  BY <4>3
        <5> QED  BY <3>4, <4>1, <4>3, <5>1
      <4> QED  BY <4>2, <4>3
    <3>6. 0 \in W  OBVIOUS
    <3> HIDE DEF W, Flat
    <3>7. n \in W
      <4>1. n \in 0..n  OBVIOUS
      <4> QED  BY <3>5, <3>6, <4>1, Climbs
    <3> QED  BY <2>2, <3>1, <3>7 DEF W
  <2> QED  BY <2>1, <2>2
<1>7. Runs(f, ss, n)  BY <1>5, Zenon DEF Runs
<1> QED  BY <1>6, <1>7

(* Three sequences behind each other are one, however they are grouped. *)
Grouped(u, v, w) == u \o (v \o w) = (u \o v) \o w

LEMMA GroupedAlike ==
  ASSUME NEW T, NEW u \in Seq(T), NEW v \in Seq(T), NEW w \in Seq(T)
  PROVE  Grouped(u, v, w)
BY SMTT(60) DEF Grouped

(* Some of the sequences behind what comes before them. *)
PartOf(tt, ss, a, m) == \A k \in 1..m : tt[k] = ss[a + k]
Carries(f, a, m, tt) == f[a] \o FlattenSeq(tt) = f[a + m]

LEMMA RunsOn ==
  ASSUME NEW T, NEW n \in Nat, NEW ss \in [1..n -> Seq(T)],
         NEW f \in [0..n -> Seq(T)], Runs(f, ss, n),
         NEW a \in 0..n, NEW m \in Nat, a + m <= n,
         NEW tt \in [1..m -> Seq(T)], PartOf(tt, ss, a, m)
  PROVE  Carries(f, a, m, tt)
<1>1. PICK h \in [0..m -> Seq(T)] : Runs(h, tt, m) /\ FlattenSeq(tt) = h[m]
  BY FlattenRuns
<1>2. /\ h[0] = <<>> /\ \A k \in 1..m : h[k] = h[k - 1] \o tt[k]
      /\ \A k \in 1..n : f[k] = f[k - 1] \o ss[k]
  BY <1>1, Zenon DEF Runs
<1> DEFINE S == {k \in 0..m : f[a] \o h[k] = f[a + k]}
<1>3. f[a] \in Seq(T)  OBVIOUS
<1>4. 0 \in S
  <2>1. f[a] \o <<>> = f[a]  BY ONLY <1>3
  <2>2. a + 0 = a  OBVIOUS
  <2> QED  BY <1>2, <2>1, <2>2, SMTT(60)
<1>5. \A k \in 1..m : k - 1 \in S => k \in S
  <2> SUFFICES ASSUME NEW k \in 1..m, k - 1 \in S  PROVE k \in S
    OBVIOUS
  <2>1. /\ a + k \in 1..n /\ (a + k) - 1 = a + (k - 1) /\ k - 1 \in 0..m
        /\ k \in 1..m
    OBVIOUS
  <2>2. f[a] \o h[k - 1] = f[a + (k - 1)]  OBVIOUS
  <2>3. f[a + k] = f[(a + k) - 1] \o ss[a + k]  BY <1>2, <2>1
  <2>4. h[k] = h[k - 1] \o tt[k] /\ tt[k] = ss[a + k]  BY <1>2, Zenon DEF PartOf
  <2>5. h[k - 1] \in Seq(T) /\ tt[k] \in Seq(T)  BY <2>1
  <2>6. PICK u : u = h[k - 1]  OBVIOUS
  <2>7. PICK v : v = tt[k]  OBVIOUS
  <2>8. PICK w : w = f[a]  OBVIOUS
  <2>9. u \in Seq(T) /\ v \in Seq(T) /\ w \in Seq(T)
    BY <1>3, <2>5, <2>6, <2>7, <2>8
  <2>10. Grouped(w, u, v)  BY ONLY <2>9, GroupedAlike, Zenon
  <2>11. f[a] \o h[k] = f[a + k]
    BY ONLY <2>1, <2>2, <2>3, <2>4, <2>6, <2>7, <2>8, <2>10 DEF Grouped
  <2>12. k \in 0..m  OBVIOUS
  <2> QED  BY <2>11, <2>12
<1> HIDE DEF S
<1>6. m \in S
  <2>1. m \in 0..m  OBVIOUS
  <2> QED  BY <1>4, <1>5, <2>1, Climbs
<1> QED  BY <1>1, <1>6 DEF S, Carries

-----------------------------------------------------------------------------
(* What a sequence grown by one part at a time has in front stays there.   *)
FrontOf(u, v) == Len(u) <= Len(v) /\ \A j \in 1..Len(u) : v[j] = u[j]

LEMMA FrontStays ==
  ASSUME NEW T, NEW u \in Seq(T), NEW v \in Seq(T), NEW w \in Seq(T), FrontOf(u, v)
  PROVE  FrontOf(u, v \o w)
<1>1. Len(u) <= Len(v) /\ \A j \in 1..Len(u) : v[j] = u[j]  BY DEF FrontOf
<1>2. /\ Len(u) \in Nat /\ Len(v) \in Nat /\ Len(w) \in Nat
      /\ Len(v \o w) = Len(v) + Len(w)
      /\ \A j \in 1..Len(v) : (v \o w)[j] = v[j]
  BY ONLY u \in Seq(T), v \in Seq(T), w \in Seq(T)
<1>3. \A j \in 1..Len(u) : j \in 1..Len(v)  BY ONLY <1>1, <1>2
<1>4. Len(u) <= Len(v \o w)  BY ONLY <1>1, <1>2
<1> QED  BY ONLY <1>1, <1>2, <1>3, <1>4 DEF FrontOf

LEMMA RunsFront ==
  ASSUME NEW T, NEW n \in Nat, NEW ss \in [1..n -> Seq(T)],
         NEW f \in [0..n -> Seq(T)], Runs(f, ss, n), NEW a \in 0..n
  PROVE  FrontOf(f[a], f[n])
<1> DEFINE S == {k \in 0..(n - a) : FrontOf(f[a], f[a + k])}
<1>1. f[a] \in Seq(T)  OBVIOUS
<1>2. 0 \in S
  <2>1. a + 0 = a /\ 0 \in 0..(n - a)  OBVIOUS
  <2>2. FrontOf(f[a], f[a])  BY ONLY <1>1 DEF FrontOf
  <2> QED  BY <2>1, <2>2
<1>3. \A k \in 1..(n - a) : k - 1 \in S => k \in S
  <2> SUFFICES ASSUME NEW k \in 1..(n - a), k - 1 \in S  PROVE k \in S
    OBVIOUS
  <2>1. /\ a + k \in 1..n /\ (a + k) - 1 = a + (k - 1) /\ a + (k - 1) \in 0..n
        /\ k \in 0..(n - a)
    OBVIOUS
  <2>2. f[a + k] = f[a + (k - 1)] \o ss[a + k]  BY <2>1, Zenon DEF Runs
  <2>3. f[a + (k - 1)] \in Seq(T) /\ ss[a + k] \in Seq(T)  BY <2>1
  <2>4. FrontOf(f[a], f[a + (k - 1)])  OBVIOUS
  <2>5. FrontOf(f[a], f[a + k])  BY ONLY <1>1, <2>2, <2>3, <2>4, FrontStays
  <2> QED  BY <2>1, <2>5
<1> HIDE DEF S
<1>4. n - a \in S
  <2>1. n - a \in Nat /\ n - a \in 0..(n - a)  OBVIOUS
  <2> QED  BY <1>2, <1>3, <2>1, Climbs
<1>5. a + (n - a) = n  OBVIOUS
<1> QED  BY <1>4, <1>5 DEF S

(* Where a part stands in the whole. *)
StandsAt(v, a, s) ==
    a + Len(s) <= Len(v) /\ \A j \in 1..Len(s) : v[a + j] = s[j]

LEMMA RunsAt ==
  ASSUME NEW T, NEW n \in Nat, NEW ss \in [1..n -> Seq(T)],
         NEW f \in [0..n -> Seq(T)], Runs(f, ss, n), NEW k \in 1..n
  PROVE  /\ StandsAt(f[n], Len(f[k - 1]), ss[k])
         /\ Len(f[k]) = Len(f[k - 1]) + Len(ss[k])
<1>1. k \in 0..n /\ k - 1 \in 0..n  OBVIOUS
<1>2. PICK u : u = f[k - 1]  OBVIOUS
<1>3. PICK s : s = ss[k]  OBVIOUS
<1>4. PICK v : v = f[n]  OBVIOUS
<1>5. u \in Seq(T) /\ s \in Seq(T) /\ f[k] = u \o s
  BY <1>1, <1>2, <1>3 DEF Runs
<1>6. FrontOf(u \o s, v)  BY <1>1, <1>4, <1>5, RunsFront
<1>7. /\ Len(u) \in Nat /\ Len(s) \in Nat /\ Len(u \o s) = Len(u) + Len(s)
      /\ \A j \in 1..Len(s) : (u \o s)[Len(u) + j] = s[j]
  BY ONLY <1>5
<1>8. \A j \in 1..Len(s) : Len(u) + j \in 1..Len(u \o s)  BY ONLY <1>7
<1>9. /\ Len(u \o s) <= Len(v)
      /\ \A j \in 1..Len(u \o s) : v[j] = (u \o s)[j]
  BY <1>6, Zenon DEF FrontOf
<1>10. StandsAt(v, Len(u), s)
  <2>1. Len(u) + Len(s) <= Len(v)  BY ONLY <1>7, <1>9
  <2>2. \A j \in 1..Len(s) : v[Len(u) + j] = s[j]  BY ONLY <1>7, <1>8, <1>9
  <2> QED  BY ONLY <2>1, <2>2 DEF StandsAt
<1> QED  BY ONLY <1>2, <1>3, <1>4, <1>5, <1>7, <1>10

(* The r-th of rows of w cells, and the c-th cell of it. *)
LEMMA Product ==
  ASSUME NEW q \in Nat, NEW w \in Nat
  PROVE  q * w \in Nat /\ (q >= 1 => q * w >= w) /\ (q + 1) * w = q * w + w
<1>1. \A x, y \in Nat : x * y \in Nat /\ (x + 1) * y = x * y + y  OBVIOUS
<1>2. ASSUME q >= 1  PROVE q * w >= w
  <2>1. PICK e \in Nat : q = e + 1  BY <1>2
  <2>2. e * w \in Nat /\ q * w = e * w + w  BY <1>1, <2>1
  <2> QED  BY ONLY <2>2, w \in Nat
<1> QED  BY <1>1, <1>2

LEMMA Divided ==
  ASSUME NEW a \in Nat, NEW w \in Nat \ {0}
  PROVE  a \div w \in Nat /\ a % w \in 0..(w - 1) /\ a = (a \div w) * w + (a % w)
OBVIOUS

LEMMA CellOfRow ==
  ASSUME NEW q \in Nat, NEW w \in Nat \ {0}, NEW c \in 0..(w - 1)
  PROVE  (q * w + c) \div w = q /\ (q * w + c) % w = c
<1>1. PICK a \in Nat : a = q * w + c  BY Product
<1>2. PICK d \in Nat, m \in 0..(w - 1) :
        d = a \div w /\ m = a % w /\ a = d * w + m
  BY ONLY Divided, a \in Nat, w \in Nat \ {0}
<1>3. CASE d = q
  BY <1>1, <1>2, <1>3
<1>4. CASE d >= q + 1
  <2>1. PICK e \in Nat : d = q + 1 + e  BY <1>4
  <2>2. d * w = q * w + w + e * w /\ e * w \in Nat /\ q * w \in Nat
    BY <2>1, Product
  <2> QED  BY ONLY <1>1, <1>2, <2>2, c \in 0..(w - 1), w \in Nat \ {0}, m \in 0..(w - 1)
<1>5. CASE q >= d + 1
  <2>1. PICK e \in Nat : q = d + 1 + e  BY <1>5
  <2>2. q * w = d * w + w + e * w /\ e * w \in Nat /\ d * w \in Nat
    BY <2>1, Product
  <2> QED  BY ONLY <1>1, <1>2, <2>2, c \in 0..(w - 1), w \in Nat \ {0}, m \in 0..(w - 1)
<1> QED  BY <1>3, <1>4, <1>5

LEMMA RowOfCell ==
  ASSUME NEW h \in Nat, NEW w \in Nat \ {0}, NEW k \in 1..(h * w)
  PROVE  \E r \in 1..h, c \in 1..w : k = (r - 1) * w + c
<1>1. h * w \in Nat  BY Product
<1>2. PICK d \in Nat, m \in 0..(w - 1) : k - 1 = d * w + m
  <2>1. k - 1 \in Nat  BY <1>1
  <2>2. PICK a \in Nat : a = k - 1  BY <2>1
  <2>3. a \div w \in Nat /\ a % w \in 0..(w - 1) /\ a = (a \div w) * w + (a % w)
    BY ONLY Divided, a \in Nat, w \in Nat \ {0}
  <2> QED  BY <2>2, <2>3
<1>3. d < h
  <2> SUFFICES ASSUME d >= h  PROVE FALSE  OBVIOUS
  <2>1. PICK e \in Nat : d = h + e  OBVIOUS
  <2>2. d * w = h * w + e * w /\ e * w \in Nat  BY <2>1, Product
  <2> QED  BY ONLY <1>1, <1>2, <2>2, k \in 1..(h * w), m \in 0..(w - 1)
<1>4. d + 1 \in 1..h /\ m + 1 \in 1..w /\ (d + 1) - 1 = d
  BY <1>3
<1>5. k = ((d + 1) - 1) * w + (m + 1)
  <2>1. d * w \in Nat  BY Product
  <2> QED  BY ONLY <1>1, <1>2, <1>4, <2>1, k \in 1..(h * w), m \in 0..(w - 1)
<1> QED  BY <1>4, <1>5

(* There is one such sequence of sequences. *)
LEMMA RunsSame ==
  ASSUME NEW n \in Nat, NEW ss, NEW f, NEW g, Runs(f, ss, n), Runs(g, ss, n)
  PROVE  \A k \in 0..n : f[k] = g[k]
<1> DEFINE S == {k \in 0..n : f[k] = g[k]}
<1>1. 0 \in S
  <2>1. 0 \in 0..n  OBVIOUS
  <2> QED  BY <2>1, Zenon DEF Runs
<1>2. \A k \in 1..n : k - 1 \in S => k \in S
  <2>1. \A k \in 1..n : k \in 0..n  BY ONLY n \in Nat
  <2> QED  BY <2>1, Zenon DEF Runs
<1> HIDE DEF S
<1>3. \A k \in 0..n : k \in S  BY <1>1, <1>2, Climbs
<1> QED  BY <1>3, Zenon DEF S

LEMMA AppendedLast ==
  ASSUME NEW T, NEW o \in Seq(T), NEW m \in Seq(T), NEW t \in T
  PROVE  Append(o \o m, t) = o \o Append(m, t)
<1>1. o \o m \in Seq(T) /\ <<t>> \in Seq(T)  OBVIOUS
<1>2. Append(o \o m, t) = (o \o m) \o <<t>>  BY <1>1, AppendIsConcat, Zenon
<1>3. Append(m, t) = m \o <<t>>  BY AppendIsConcat, Zenon
<1>4. Grouped(o, m, <<t>>)  BY <1>1, GroupedAlike, Zenon
<1> QED  BY <1>2, <1>3, <1>4, Zenon DEF Grouped

(* A part that is one element, and one that is none. *)
LEMMA OneStands ==
  ASSUME NEW v, NEW a \in Nat, NEW x, StandsAt(v, a, <<x>>)
  PROVE  v[a + 1] = x
<1>1. Len(<<x>>) = 1 /\ <<x>>[1] = x  OBVIOUS
<1>2. 1 \in 1..Len(<<x>>)  BY <1>1
<1>3. v[a + 1] = <<x>>[1]  BY <1>2, Zenon DEF StandsAt
<1> QED  BY <1>1, <1>3

(* Each part of a column stands behind those before it. *)
Column(f, ss, n) ==
    /\ f[0] = <<>> /\ FlattenSeq(ss) = f[n]
    /\ \A k \in 1..n : /\ StandsAt(f[n], Len(f[k - 1]), ss[k])
                       /\ Len(f[k]) = Len(f[k - 1]) + Len(ss[k])
LEMMA ColumnExists ==
  ASSUME NEW T, NEW n \in Nat, NEW ss \in [1..n -> Seq(T)]
  PROVE  \E f \in [0..n -> Seq(T)] : Column(f, ss, n)
<1>1. PICK f \in [0..n -> Seq(T)] : Runs(f, ss, n) /\ FlattenSeq(ss) = f[n]
  BY FlattenRuns
<1>2. \A k \in 1..n : /\ StandsAt(f[n], Len(f[k - 1]), ss[k])
                      /\ Len(f[k]) = Len(f[k - 1]) + Len(ss[k])
  BY <1>1, RunsAt, ZenonT(60)
<1>3. f[0] = <<>>  BY <1>1, Zenon DEF Runs
<1>4. Column(f, ss, n)  BY <1>1, <1>2, <1>3, Zenon DEF Column
<1> QED  BY <1>4
=============================================================================

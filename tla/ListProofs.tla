------------------------------ MODULE ListProofs ------------------------------
(***************************************************************************)
(* Facts about circular doubly linked lists, kept as the pointers that     *)
(* list.h keeps, for the proofs about the modules that use ListItems.      *)
(* They speak of functions n and p, the values of next and prev, of a list *)
(* head h and of a set N of nodes.                                         *)
(***************************************************************************)
EXTENDS Integers, FiniteSetTheorems, TLAPS

-----------------------------------------------------------------------------
(* Least numbers *)

\* Every set of natural numbers has a least element.
LEMMA LeastNat ==
  ASSUME NEW T \in SUBSET Nat, T # {}
  PROVE  \E m \in T : \A i \in T : m <= i
<1>. DEFINE R == OpToRel(<, Nat)
<1>1. IsWellFoundedOn(R, Nat) BY NatLessThanWellFounded
<1>2. \A x, y \in Nat : <<x, y>> \in R <=> x < y BY DEF OpToRel
<1>. HIDE DEF R
<1>3. PICK m \in T : \A i \in T : ~(<<i, m>> \in R) BY <1>1, WFMin
<1>4. \A i \in T : ~(i < m) BY <1>2, <1>3
<1>5. \A i \in T : m <= i BY <1>4
<1>. QED BY <1>5

\* The first of the numbers of a set.
First(T) == CHOOSE i \in T : \A j \in T : i <= j

LEMMA FirstIn ==
  ASSUME NEW T \in SUBSET Nat, T # {}
  PROVE  First(T) \in T /\ \A j \in T : First(T) <= j
BY LeastNat DEF First

\* Of finitely many, or any number of, deltas one is the least.
Least(f, m, limit) == {i \in 0 .. m - 1 : f[i] < limit /\ \A j \in 0 .. m - 1 : f[i] <= f[j]}

LEMMA LeastExists ==
  ASSUME NEW m \in Nat, NEW f \in [0 .. m - 1 -> Nat], NEW limit \in Nat,
         NEW i \in 0 .. m - 1, f[i] < limit
  PROVE  Least(f, m, limit) # {}
<1>. DEFINE T == {f[j] : j \in 0 .. m - 1}
<1>1. T \in SUBSET Nat /\ T # {} OBVIOUS
<1>. HIDE DEF T
<1>2. PICK d \in T : \A e \in T : d <= e BY <1>1, LeastNat
<1>. USE DEF T
<1>3. PICK k \in 0 .. m - 1 : d = f[k] BY <1>2
<1>4. \A j \in 0 .. m - 1 : f[k] <= f[j] BY <1>2, <1>3
<1>5. f[k] < limit BY <1>4
<1>. QED BY <1>4, <1>5 DEF Least

-----------------------------------------------------------------------------
(* The counter of a timer *)

\* The difference of two values of a counter that wraps at w.
LEMMA WrapDiff ==
  ASSUME NEW w \in Nat \ {0}, NEW a \in 0 .. w - 1, NEW b \in 0 .. w - 1
  PROVE  (a - b) % w = IF b <= a THEN a - b ELSE a - b + w
OBVIOUS

LEMMA WrapSum ==
  ASSUME NEW w \in Nat \ {0}, NEW a \in 0 .. w - 1, NEW b \in 0 .. w
  PROVE  (a + b) % w = IF a + b < w THEN a + b ELSE a + b - w
OBVIOUS

-----------------------------------------------------------------------------
(* Induction on numbers *)

\* A claim, as the set S of the numbers for which it holds: the least one up to k
\* for which it did not would have a predecessor.
LEMMA Induction ==
  ASSUME NEW k \in Nat, NEW S, 0 \in S,
         \A i \in 0 .. k - 1 : i \in S => i + 1 \in S
  PROVE  \A i \in 0 .. k : i \in S
<1>. DEFINE T == {i \in 0 .. k : i \notin S}
<1>. SUFFICES ASSUME T # {} PROVE FALSE OBVIOUS
<1>0. T \in SUBSET Nat OBVIOUS
<1>. HIDE DEF T
<1>1. PICK m \in T : \A i \in T : m <= i BY <1>0, LeastNat
<1>. USE DEF T
<1>2. m # 0 /\ m - 1 \in 0 .. k - 1 BY <1>1
<1>3. m - 1 \notin T BY <1>1, <1>2
<1>4. m \in S BY <1>2, <1>3
<1>. QED BY <1>1, <1>4

-----------------------------------------------------------------------------
(* The walk along a list *)

\* ListItems on functions: the walk of k rounds from h, its end and what it saw.
WalkOf(n, h, k) ==
  LET at[i \in 0 .. k] == IF i = 0 THEN n[h] ELSE n[at[i - 1]]
  IN  at

EndsOf(n, h, k) == \E i \in DOMAIN WalkOf(n, h, k) : WalkOf(n, h, k)[i] = h
LengthOf(n, h, k) ==
  CHOOSE i \in DOMAIN WalkOf(n, h, k) :
    WalkOf(n, h, k)[i] = h /\ \A j \in 0 .. i - 1 : WalkOf(n, h, k)[j] # h
ListedOf(n, h, k) == {WalkOf(n, h, k)[i] : i \in 0 .. LengthOf(n, h, k) - 1}

IsWalk(w, n, h, k) ==
  w = [i \in 0 .. k |-> IF i = 0 THEN n[h] ELSE n[w[i - 1]]]

\* The recursion defines a walk.
LEMMA WalkExists ==
  ASSUME NEW n, NEW h, NEW k \in Nat
  PROVE  \E w : IsWalk(w, n, h, k)
<1>. DEFINE S == {i \in 0 .. k : \E w : IsWalk(w, n, h, i)}
<1>1. 0 \in S
  <2>1. IsWalk([i \in 0 .. 0 |-> n[h]], n, h, 0) BY DEF IsWalk
  <2>. QED BY <2>1
<1>2. ASSUME NEW i \in 0 .. k - 1, i \in S PROVE i + 1 \in S
  <2>1. PICK w : IsWalk(w, n, h, i) BY <1>2
  <2>. DEFINE v == [j \in 0 .. i + 1 |-> IF j <= i THEN w[j] ELSE n[w[i]]]
  <2>2. \A j \in 0 .. i : w[j] = IF j = 0 THEN n[h] ELSE n[w[j - 1]]
    BY <2>1 DEF IsWalk
  <2>3. ASSUME NEW j \in 0 .. i + 1
        PROVE  v[j] = IF j = 0 THEN n[h] ELSE n[v[j - 1]]
    <3>1. CASE j \in 0 .. i BY <2>2, <3>1
    <3>2. CASE j = i + 1 BY <3>2
    <3>. QED BY <3>1, <3>2
  <2>4. v = [j \in 0 .. i + 1 |-> IF j = 0 THEN n[h] ELSE n[v[j - 1]]]
    BY <2>3
  <2>5. IsWalk(v, n, h, i + 1) BY <2>4 DEF IsWalk
  <2>. QED BY <2>5
<1>. HIDE DEF S
<1>3. \A i \in 0 .. k : i \in S BY <1>1, <1>2, Induction
<1>. QED BY <1>3 DEF S

LEMMA WalkSteps ==
  ASSUME NEW n, NEW h, NEW k \in Nat
  PROVE  LET w == WalkOf(n, h, k)
         IN  /\ DOMAIN w = 0 .. k /\ w[0] = n[h] /\ w = [i \in 0 .. k |-> w[i]]
             /\ \A i \in 0 .. k - 1 : w[i + 1] = n[w[i]]
<1>. DEFINE w == WalkOf(n, h, k)
<1>1. w = CHOOSE v : IsWalk(v, n, h, k) BY DEF WalkOf, IsWalk
<1>2. IsWalk(w, n, h, k) BY <1>1, WalkExists
<1>. HIDE DEF w
<1>3. DOMAIN w = 0 .. k /\ \A i \in 0 .. k : w[i] = IF i = 0 THEN n[h] ELSE n[w[i - 1]]
  BY <1>2 DEF IsWalk
<1>4. w[0] = n[h] BY <1>3
<1>5. ASSUME NEW i \in 0 .. k - 1 PROVE w[i + 1] = n[w[i]]
  <2>1. i + 1 \in 0 .. k /\ i + 1 # 0 /\ i + 1 - 1 = i OBVIOUS
  <2>. QED BY <1>3, <2>1
<1>7. w = [i \in 0 .. k |-> w[i]] BY <1>2 DEF IsWalk
<1>6. DOMAIN w = 0 .. k /\ w[0] = n[h] /\ w = [i \in 0 .. k |-> w[i]] /\ \A i \in 0 .. k - 1 : w[i + 1] = n[w[i]]
  BY <1>3, <1>4, <1>5, <1>7
<1>. QED BY <1>6 DEF w

-----------------------------------------------------------------------------
(* Lists that end *)

\* From h along n only nodes of C are met, each of a lower rank than the one
\* before; t is the highest.
Ordered(n, h, C, r, t) ==
  /\ t \in Nat /\ h \notin C /\ n[h] \in C \cup {h}
  /\ \A i \in C : r[i] \in 0 .. t /\ n[i] \in C \cup {h} /\ (n[i] # h => r[n[i]] < r[i])

\* What list_for_item sees of such a list.
Seen(n, h, C, k) ==
  LET w == WalkOf(n, h, k)
      m == LengthOf(n, h, k)
  IN  /\ DOMAIN w = 0 .. k /\ m \in 0 .. k /\ w[m] = h
      /\ \A i \in 0 .. m - 1 : w[i] \in C /\ w[i + 1] = n[w[i]]
      /\ w[0] = n[h]

LEMMA OrderedEnds ==
  ASSUME NEW N, IsFiniteSet(N), NEW C \in SUBSET N, NEW n, NEW h, NEW r, NEW top,
         Ordered(n, h, C, r, top)
  PROVE  LET k == Cardinality(N)
         IN  /\ EndsOf(n, h, k) /\ Seen(n, h, C, k)
             /\ ListedOf(n, h, k) \subseteq C
             /\ Ordered(n, h, ListedOf(n, h, k), r, top)
<1>. DEFINE k == Cardinality(N)
            w == WalkOf(n, h, k)
<1>0. k \in Nat BY FS_CardinalityType
<1>1. /\ DOMAIN w = 0 .. k /\ w[0] = n[h]
      /\ \A i \in 0 .. k - 1 : w[i + 1] = n[w[i]]
  BY <1>0, WalkSteps
<1>11. w = [i \in 0 .. k |-> w[i]] BY <1>0, WalkSteps
<1>. HIDE DEF w
<1>2. \E i \in 0 .. k : w[i] = h
  <2>. SUFFICES ASSUME \A i \in 0 .. k : w[i] # h PROVE FALSE OBVIOUS
  <2>. DEFINE S == {i \in 0 .. k : w[i] \in C /\ \A j \in 0 .. i - 1 : w[j] \in C /\ r[w[i]] < r[w[j]]}
  <2>1. 0 \in S BY <1>0, <1>1 DEF Ordered
  <2>2. ASSUME NEW i \in 0 .. k - 1, i \in S PROVE i + 1 \in S
    <3>1. i + 1 \in 0 .. k /\ w[i + 1] = n[w[i]] /\ w[i + 1] # h BY <1>0, <1>1
    <3>2. w[i] \in C /\ \A j \in 0 .. i - 1 : w[j] \in C /\ r[w[i]] < r[w[j]] BY <2>2
    <3>3. w[i + 1] \in C /\ r[w[i + 1]] < r[w[i]] BY <3>1, <3>2 DEF Ordered
    <3>4. ASSUME NEW j \in 0 .. i PROVE w[j] \in C /\ r[w[i + 1]] < r[w[j]]
      <4>1. CASE j = i BY <3>2, <3>3, <4>1
      <4>2. CASE j # i
        <5>1. j \in 0 .. i - 1 BY <4>2
        <5>2. w[j] \in C /\ r[w[i]] < r[w[j]] BY <3>2, <5>1
        <5>3. r[w[j]] \in Nat /\ r[w[i]] \in Nat /\ r[w[i + 1]] \in Nat
          BY <3>2, <3>3, <5>2 DEF Ordered
        <5>. QED BY <3>3, <5>2, <5>3
      <4>. QED BY <4>1, <4>2
    <3>. QED BY <3>1, <3>3, <3>4
  <2>. HIDE DEF S
  <2>3. \A i \in 0 .. k : i \in S BY <1>0, <2>1, <2>2, Induction
  <2>. USE DEF S
  <2>4. \A i \in 0 .. k : w[i] \in C BY <2>3
  <2>5. w \in [0 .. k -> N]
    <3>1. \A i \in 0 .. k : w[i] \in N BY <2>4
    <3>. QED BY <1>11, <3>1
  <2>6. IsFiniteSet(0 .. k) /\ Cardinality(0 .. k) = k + 1 BY <1>0, FS_Interval
  <2>7. PICK i, j \in 0 .. k : i # j /\ w[i] = w[j] BY <1>0, <2>5, <2>6, FS_PigeonHole
  <2>8. r[w[i]] \in Nat /\ r[w[j]] \in Nat BY <2>4 DEF Ordered
  <2>9. CASE i < j BY <1>0, <2>3, <2>7, <2>8, <2>9
  <2>10. CASE j < i BY <1>0, <2>3, <2>7, <2>8, <2>10
  <2>. QED BY <1>0, <2>7, <2>9, <2>10
<1>3. PICK m \in 0 .. k : w[m] = h /\ \A j \in 0 .. m - 1 : w[j] # h
  <2>. DEFINE T == {i \in 0 .. k : w[i] = h}
  <2>1. T \in SUBSET Nat /\ T # {} BY <1>0, <1>2
  <2>. HIDE DEF T
  <2>2. PICK m \in T : \A i \in T : m <= i BY <2>1, LeastNat
  <2>. USE DEF T
  <2>. QED BY <1>0, <2>2
<1>4. EndsOf(n, h, k) BY <1>1, <1>3 DEF EndsOf, w
<1>. DEFINE l == LengthOf(n, h, k)
<1>5. l \in 0 .. k /\ w[l] = h /\ \A j \in 0 .. l - 1 : w[j] # h
  <2>1. l = CHOOSE i \in DOMAIN w : w[i] = h /\ \A j \in 0 .. i - 1 : w[j] # h
    BY DEF LengthOf, w
  <2>. HIDE DEF l
  <2>. QED BY <1>1, <1>3, <2>1
<1>. HIDE DEF l
<1>6. \A i \in 0 .. l - 1 : w[i] \in C /\ w[i + 1] = n[w[i]]
  <2>. DEFINE S == {i \in 0 .. l : i < l => w[i] \in C}
  <2>1. 0 \in S BY <1>0, <1>1, <1>5 DEF Ordered
  <2>2. ASSUME NEW i \in 0 .. l - 1, i \in S PROVE i + 1 \in S
    <3>1. i \in 0 .. k - 1 /\ w[i] \in C BY <1>0, <1>5, <2>2
    <3>2. w[i + 1] \in C \cup {h} BY <1>1, <3>1 DEF Ordered
    <3>. QED BY <1>0, <1>5, <3>1, <3>2
  <2>3. l \in Nat BY <1>0, <1>5
  <2>. HIDE DEF S
  <2>4. \A i \in 0 .. l : i \in S BY <2>1, <2>2, <2>3, Induction
  <2>. QED BY <1>0, <1>1, <1>5, <2>4 DEF S
<1>7. Seen(n, h, C, k) BY <1>1, <1>5, <1>6 DEF Seen, w, l
<1>. DEFINE L == ListedOf(n, h, k)
<1>8. L = {w[i] : i \in 0 .. l - 1} BY DEF ListedOf, w, l
<1>. HIDE DEF L
<1>9. L \subseteq C BY <1>6, <1>8
<1>10. Ordered(n, h, L, r, top)
  <2>1. h \notin L BY <1>9 DEF Ordered
  <2>2. n[h] \in L \cup {h}
    <3>1. CASE l = 0 BY <1>1, <1>5, <3>1
    <3>2. CASE l # 0
      <4>1. 0 \in 0 .. l - 1 BY <1>0, <1>5, <3>2
      <4>. QED BY <1>1, <1>8, <4>1
    <3>. QED BY <3>1, <3>2
  <2>3. ASSUME NEW x \in L PROVE n[x] \in L \cup {h}
    <3>1. PICK i \in 0 .. l - 1 : x = w[i] BY <1>8
    <3>2. n[x] = w[i + 1] BY <1>6, <3>1
    <3>3. CASE i + 1 = l BY <1>5, <3>2, <3>3
    <3>4. CASE i + 1 # l
      <4>1. i + 1 \in 0 .. l - 1 BY <1>0, <1>5, <3>4
      <4>. QED BY <1>8, <3>2, <4>1
    <3>. QED BY <3>3, <3>4
  <2>. QED BY <1>9, <2>1, <2>2, <2>3 DEF Ordered
<1>. QED BY <1>4, <1>7, <1>9, <1>10 DEF L

-----------------------------------------------------------------------------
(* Well-formed lists, and what list_item_prepend() and list_item_del() do *)

\* The nodes of S, once each, and both ways.
Linked(n, p, h, S, r, t) ==
  /\ Ordered(n, h, S, r, t)
  /\ \A i \in S \cup {h} : p[i] \in S \cup {h} /\ p[n[i]] = i /\ n[p[i]] = i

\* What an item that is deleted twice leaves of that: a step back leads to a
\* higher rank or out of C.
Loose(n, p, h, C, r, t) ==
  /\ Ordered(n, h, C, r, t)
  /\ \A i \in C : p[i] \in C => r[i] < r[p[i]]

LEMMA LinkedIsLoose ==
  ASSUME NEW n, NEW p, NEW h, NEW S, NEW r, NEW t, Linked(n, p, h, S, r, t)
  PROVE  Loose(n, p, h, S, r, t)
BY DEF Linked, Loose, Ordered

\* A well-formed list is seen whole.
LEMMA LinkedListed ==
  ASSUME NEW N, IsFiniteSet(N), NEW S \in SUBSET N, NEW n, NEW p, NEW h, NEW r, NEW t,
         Linked(n, p, h, S, r, t)
  PROVE  ListedOf(n, h, Cardinality(N)) = S
<1>. DEFINE L == ListedOf(n, h, Cardinality(N))
<1>1. L \subseteq S /\ Ordered(n, h, L, r, t) BY OrderedEnds DEF Linked
<1>. HIDE DEF L
<1>2. ASSUME S \ L # {} PROVE FALSE
  <2>. DEFINE T == {t - r[i] : i \in S \ L}
  <2>1. T \in SUBSET Nat /\ T # {} BY <1>2 DEF Linked, Ordered
  <2>2. PICK m \in T : \A i \in T : m <= i
    <3>. HIDE DEF T
    <3>. QED BY <2>1, LeastNat
  <2>3. PICK x \in S \ L : m = t - r[x] BY <2>2
  <2>4. p[x] \in S \cup {h} /\ n[p[x]] = x BY <2>3 DEF Linked
  <2>5. CASE p[x] \in L \cup {h} BY <1>1, <2>3, <2>4, <2>5 DEF Linked, Ordered
  <2>6. CASE p[x] \in S \ L
    <3>1. t - r[p[x]] \in T BY <2>6
    <3>2. m <= t - r[p[x]] BY <2>2, <3>1
    <3>3. r[x] < r[p[x]] BY <2>3, <2>4, <2>6 DEF Linked, Ordered
    <3>. QED BY <2>3, <2>6, <3>2, <3>3 DEF Linked, Ordered
  <2>. QED BY <2>4, <2>5, <2>6
<1>. QED BY <1>1, <1>2 DEF L

\* Pointers of items and list head lead to items or the list head.
Pointers(n, p, N, h) ==
  /\ h \notin N
  /\ n \in [N \cup {h} -> N \cup {h}] /\ p \in [N \cup {h} -> N \cup {h}]

\* What the operations of ListItems make of pointers n and p: m and q.
Prepended(n, p, h, x, m, q) ==
  /\ m = [n EXCEPT ![x] = n[h], ![h] = x]
  /\ q = [p EXCEPT ![n[h]] = x, ![x] = h]

Deleted(n, p, x, m, q) ==
  /\ q = [p EXCEPT ![n[x]] = p[x]]
  /\ m = [n EXCEPT ![q[x]] = n[x]]

\* Ranks of the items, and those after an item x is put before the highest.
Ranking(r, N) == r \in [N -> Nat]
Raised(r, x, t) == [r EXCEPT ![x] = t + 1]

LEMMA EmptyLinked ==
  ASSUME NEW n, NEW p, NEW h, n[h] = h, p[h] = h, NEW r
  PROVE  Linked(n, p, h, {}, r, 0)
BY DEF Linked, Ordered

\* list_item_prepend() of an item that is not on the list.
LEMMA PrependLinked ==
  ASSUME NEW N, NEW h, NEW n, NEW p, Pointers(n, p, N, h), NEW r, Ranking(r, N),
         NEW t, NEW C \in SUBSET N, NEW x \in N, x \notin C, Ordered(n, h, C, r, t),
         NEW m, NEW q, Prepended(n, p, h, x, m, q), NEW s, s = Raised(r, x, t)
  PROVE  /\ Pointers(m, q, N, h) /\ Ranking(s, N)
         /\ Ordered(m, h, C \cup {x}, s, t + 1)
         /\ Linked(n, p, h, C, r, t) => Linked(m, q, h, C \cup {x}, s, t + 1)
         /\ Loose(n, p, h, C, r, t) => Loose(m, q, h, C \cup {x}, s, t + 1)
<1>0. /\ h \notin N /\ n \in [N \cup {h} -> N \cup {h}] /\ p \in [N \cup {h} -> N \cup {h}]
      /\ m = [n EXCEPT ![x] = n[h], ![h] = x] /\ q = [p EXCEPT ![n[h]] = x, ![x] = h]
      /\ r \in [N -> Nat] /\ s = [r EXCEPT ![x] = t + 1]
  BY DEF Pointers, Prepended, Ranking, Raised
<1>1. n[h] \in C \cup {h} /\ t \in Nat /\ x # h BY <1>0 DEF Ordered
<1>2. Pointers(m, q, N, h) /\ Ranking(s, N) BY <1>0, <1>1 DEF Pointers, Ranking
<1>3. /\ m[h] = x /\ m[x] = n[h] /\ s[x] = t + 1 /\ q[x] = h
      /\ \A i \in C : m[i] = n[i] /\ s[i] = r[i]
  BY <1>0, <1>1 DEF Ordered
<1>4. \A i \in C \cup {h} : q[i] = IF i = n[h] THEN x ELSE p[i] BY <1>0, <1>1
<1>5. Ordered(m, h, C \cup {x}, s, t + 1) BY <1>1, <1>3 DEF Ordered
<1>6. ASSUME Linked(n, p, h, C, r, t) PROVE Linked(m, q, h, C \cup {x}, s, t + 1)
  <2>1. \A i \in C \cup {h} : p[i] \in C \cup {h} /\ p[n[i]] = i /\ n[p[i]] = i
    BY <1>6 DEF Linked
  <2>2. ASSUME NEW i \in C PROVE n[i] \in C \cup {h} /\ n[i] # n[h]
    <3>1. n[i] \in C \cup {h} BY DEF Ordered
    <3>2. p[n[i]] = i /\ p[n[h]] = h /\ i # h BY <2>1 DEF Ordered
    <3>. QED BY <3>1, <3>2
  <2>3. ASSUME NEW i \in C
        PROVE  q[i] \in C \cup {x} \cup {h} /\ q[m[i]] = i /\ m[q[i]] = i
    <3>1. q[m[i]] = i BY <1>3, <1>4, <2>1, <2>2
    <3>2. CASE i = n[h] BY <1>3, <1>4, <3>1, <3>2
    <3>3. CASE i # n[h]
      <4>1. q[i] = p[i] /\ p[i] \in C \cup {h} /\ n[p[i]] = i BY <1>4, <2>1, <3>3
      <4>2. p[i] # h BY <3>3, <4>1
      <4>. QED BY <1>3, <3>1, <4>1, <4>2
    <3>. QED BY <3>2, <3>3
  <2>4. q[h] \in C \cup {x} \cup {h} /\ q[m[h]] = h /\ m[q[h]] = h
    <3>1. CASE n[h] = h BY <1>3, <1>4, <3>1
    <3>2. CASE n[h] # h
      <4>1. q[h] = p[h] /\ p[h] \in C \cup {h} /\ n[p[h]] = h BY <1>4, <2>1, <3>2
      <4>2. p[h] # h BY <3>2, <4>1
      <4>. QED BY <1>3, <4>1, <4>2
    <3>. QED BY <3>1, <3>2
  <2>5. q[x] \in C \cup {x} \cup {h} /\ q[m[x]] = x /\ m[q[x]] = x
    BY <1>1, <1>3, <1>4
  <2>. QED BY <1>5, <2>3, <2>4, <2>5 DEF Linked
<1>7. ASSUME Loose(n, p, h, C, r, t) PROVE Loose(m, q, h, C \cup {x}, s, t + 1)
  <2>1. \A i \in C : (p[i] \in C => r[i] < r[p[i]]) /\ r[i] \in 0 .. t
    BY <1>7 DEF Loose, Ordered
  <2>2. ASSUME NEW i \in C \cup {x}, q[i] \in C \cup {x} PROVE s[i] < s[q[i]]
    <3>1. i # x BY <1>1, <1>3, <2>2 DEF Ordered
    <3>2. CASE q[i] = x BY <1>1, <1>3, <2>1, <3>1, <3>2
    <3>3. CASE q[i] # x BY <1>3, <1>4, <2>1, <2>2, <3>1, <3>3
    <3>. QED BY <3>2, <3>3
  <2>. QED BY <1>5, <2>2 DEF Loose
<1>. QED BY <1>2, <1>5, <1>6, <1>7

\* list_item_del() of an item that is on the list, or was taken from it.
LEMMA DelLinked ==
  ASSUME NEW N, NEW h, NEW n, NEW p, Pointers(n, p, N, h), NEW r, NEW t,
         NEW C \in SUBSET N, NEW x \in C, Loose(n, p, h, C, r, t),
         NEW m, NEW q, Deleted(n, p, x, m, q)
  PROVE  /\ Pointers(m, q, N, h) /\ Loose(m, q, h, C, r, t)
         /\ Linked(n, p, h, C, r, t) => Linked(m, q, h, C \ {x}, r, t)
         /\ m[x] = n[x]
<1>0. /\ h \notin N /\ n \in [N \cup {h} -> N \cup {h}] /\ p \in [N \cup {h} -> N \cup {h}]
      /\ q = [p EXCEPT ![n[x]] = p[x]] /\ m = [n EXCEPT ![q[x]] = n[x]]
  BY DEF Pointers, Deleted
<1>1. /\ n[x] \in C \cup {h} /\ n[x] # x /\ p[x] # x /\ x # h
      /\ n[x] # h => r[n[x]] < r[x]
  BY <1>0 DEF Loose, Ordered
<1>2. q[x] = p[x] BY <1>0, <1>1
<1>3. Pointers(m, q, N, h) /\ m[x] = n[x] BY <1>0, <1>1, <1>2 DEF Pointers
<1>4. /\ \A i \in C \cup {h} : m[i] = IF i = p[x] THEN n[x] ELSE n[i]
      /\ \A i \in C \cup {h} : q[i] = IF i = n[x] THEN p[x] ELSE p[i]
  BY <1>0, <1>2
<1>5. Ordered(m, h, C, r, t)
  <2>1. ASSUME NEW i \in C PROVE m[i] \in C \cup {h} /\ (m[i] # h => r[m[i]] < r[i])
    <3>1. CASE i = p[x]
      <4>1. r[x] < r[i] /\ m[i] = n[x] BY <1>4, <3>1 DEF Loose
      <4>2. r[x] \in Nat /\ r[i] \in Nat /\ (n[x] # h => r[n[x]] \in Nat)
        BY <1>1 DEF Loose, Ordered
      <4>. QED BY <1>1, <4>1, <4>2
    <3>2. CASE i # p[x] BY <1>4, <3>2 DEF Loose, Ordered
    <3>. QED BY <3>1, <3>2
  <2>2. m[h] \in C \cup {h} BY <1>1, <1>4 DEF Loose, Ordered
  <2>. QED BY <2>1, <2>2 DEF Loose, Ordered
<1>6. Loose(m, q, h, C, r, t)
  <2>1. ASSUME NEW i \in C, q[i] \in C PROVE r[i] < r[q[i]]
    <3>1. CASE i = n[x]
      <4>1. r[i] < r[x] /\ r[x] < r[p[x]] /\ q[i] = p[x]
        BY <1>1, <1>4, <2>1, <3>1 DEF Loose, Ordered
      <4>2. r[i] \in Nat /\ r[x] \in Nat /\ r[p[x]] \in Nat
        BY <2>1, <4>1 DEF Loose, Ordered
      <4>. QED BY <4>1, <4>2
    <3>2. CASE i # n[x] BY <1>4, <2>1, <3>2 DEF Loose
    <3>. QED BY <3>1, <3>2
  <2>. QED BY <1>5, <2>1 DEF Loose
<1>7. ASSUME Linked(n, p, h, C, r, t) PROVE Linked(m, q, h, C \ {x}, r, t)
  <2>1. \A i \in C \cup {h} : p[i] \in C \cup {h} /\ p[n[i]] = i /\ n[p[i]] = i
    BY <1>7 DEF Linked
  <2>2. p[x] \in C \cup {h} /\ n[p[x]] = x /\ p[n[x]] = x BY <2>1
  <2>3. \A i \in C \cup {h} : n[i] = x => i = p[x] BY <2>1
  <2>4. \A i \in C \cup {h} : p[i] = x => i = n[x] BY <2>1
  <2>5. Ordered(m, h, C \ {x}, r, t)
    BY <1>1, <1>4, <1>5, <2>3 DEF Ordered
  <2>6. ASSUME NEW i \in (C \ {x}) \cup {h}
        PROVE  q[i] \in (C \ {x}) \cup {h} /\ q[m[i]] = i /\ m[q[i]] = i
    <3>1. q[i] \in (C \ {x}) \cup {h} BY <1>1, <1>4, <2>1, <2>2, <2>4
    <3>2. n[i] \in C \cup {h} BY DEF Loose, Ordered
    <3>3. q[m[i]] = i
      <4>1. CASE i = p[x] BY <1>1, <1>4, <4>1
      <4>2. CASE i # p[x]
        <5>1. m[i] = n[i] /\ p[n[i]] = i BY <1>4, <2>1, <4>2
        <5>2. n[i] # n[x] BY <1>1, <2>1, <2>2, <2>6, <5>1
        <5>. QED BY <1>4, <3>2, <5>1, <5>2
      <4>. QED BY <4>1, <4>2
    <3>4. m[q[i]] = i
      <4>1. CASE i = n[x] BY <1>4, <2>2, <4>1
      <4>2. CASE i # n[x]
        <5>1. q[i] = p[i] /\ n[p[i]] = i /\ p[i] \in C \cup {h} BY <1>4, <2>1, <4>2
        <5>2. p[i] # p[x] BY <1>1, <2>1, <2>2, <2>6, <5>1
        <5>. QED BY <1>4, <5>1, <5>2
      <4>. QED BY <4>1, <4>2
    <3>. QED BY <3>1, <3>3, <3>4
  <2>. QED BY <2>5, <2>6 DEF Linked
<1>. QED BY <1>3, <1>6, <1>7
=============================================================================

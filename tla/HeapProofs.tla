----------------------------- MODULE HeapProofs -----------------------------
(***************************************************************************)
(* Proofs about Heap, for any number of block maps, any block counts and   *)
(* sizes, any clients and any request sizes.                               *)
(***************************************************************************)
EXTENDS Heap, FiniteSetTheorems, WellFoundedInduction, TLAPS

-----------------------------------------------------------------------------
(* Facts about numbers *)

\* A non-empty set of naturals has a least element.
LEMMA LeastElement ==
  ASSUME NEW T \in SUBSET Nat, T # {}
  PROVE  \E x \in T : \A y \in T : x <= y
<1> DEFINE R == OpToRel(<, Nat)
<1>1. IsWellFoundedOn(R, Nat)
  BY NatLessThanWellFounded
<1>2. \A x, y \in T : <<y, x>> \in R <=> y < x
  BY DEF OpToRel
<1> HIDE DEF R
<1>3. PICK x \in T : \A y \in T : ~ (<<y, x>> \in R)
  BY <1>1, WFMin
<1>4. \A y \in T : ~ (y < x)
  BY <1>2, <1>3, Zenon
<1>5. \A y \in T : x <= y
  BY <1>4
<1> QED BY <1>5

\* alloc_cont_blocks() rounds a request up to a positive number of blocks.
LEMMA RoundUp ==
  ASSUME NEW n \in Nat \ {0}, NEW k \in Nat \ {0}
  PROVE  /\ n \div k \in Nat
         /\ n % k = 0 => n \div k >= 1
OBVIOUS

\* Where the search for the next free block ends: on the lowest free block at
\* or after its start, or where first_free was when there is none.
LEMMA NextFreeFacts ==
  ASSUME NEW m \in Maps, NEW u, NEW from \in Nat, NEW keep,
         Blocks(m) \subseteq Nat
  PROVE  LET f == NextFree(m, u, from, keep)
         IN  \/ /\ f = keep
                /\ \A i \in Blocks(m) : i >= from => u[i]
             \/ /\ f \in Blocks(m) /\ f >= from /\ ~u[f]
                /\ \A i \in Blocks(m) : i >= from /\ i < f => u[i]
<1> DEFINE free == {i \in Blocks(m) : i >= from /\ ~u[i]}
           f == NextFree(m, u, from, keep)
<1>1. CASE free = {}
  BY <1>1 DEF NextFree
<1>2. CASE free # {}
  <2>1. free \subseteq Nat
    OBVIOUS
  <2>2. \E i \in free : \A j \in free : i <= j
    BY <1>2, <2>1, LeastElement
  <2>3. f = CHOOSE i \in free : \A j \in free : i <= j
    BY <1>2 DEF NextFree
  <2>4. f \in free /\ \A j \in free : f <= j
    BY <2>2, <2>3
  <2>5. \A i \in Blocks(m) : i >= from /\ i < f => u[i]
    BY <2>1, <2>4
  <2> QED BY <2>4, <2>5
<1> QED BY <1>1, <1>2

-----------------------------------------------------------------------------
(* The inductive invariant *)

Free(m) == {b \in Blocks(m) : ~used[m][b]}
Sound(m) == m \notin exhausted \/ m >= RtLevels - 1

Holds(c, m) == own[c] # NULL /\ own[c].map = m
Span(p) == p.block .. p.block + p.len - 1

\* first_free is the lowest free block whenever there is one, and there is one
\* while the map was never exhausted.
FirstFreeInv(m) ==
  /\ \A b \in Blocks(m) : b < first_free[m] => used[m][b]
  /\ Free(m) # {} => ~used[m][first_free[m]]
  /\ m \notin exhausted => Free(m) # {}

CountInv(m) == free_count[m] = Cardinality(Free(m))

\* What a client holds is in use, carries a header size, and overlaps nobody
\* else's; only single blocks are held in maps that are ever freed.
HeldInv(m) ==
  /\ \A c \in Clients : Holds(c, m) =>
       /\ \A b \in Span(own[c]) : used[m][b]
       /\ size[m][own[c].block] > 0
  /\ \A c, d \in Clients : Holds(c, m) /\ Holds(d, m) /\ c # d =>
       Span(own[c]) \cap Span(own[d]) = {}

BoundsInv ==
  \A c \in Clients : own[c] # NULL =>
    /\ own[c].block + own[c].len <= Count[own[c].map]
    /\ own[c].map < RtLevels - 1 => own[c].len = 1

SoundInv(m) == FirstFreeInv(m) /\ CountInv(m) /\ HeldInv(m)

HeapInv == TypeOK /\ BoundsInv /\ \A m \in Maps : Sound(m) => SoundInv(m)

\* Shapes used throughout.
LEMMA Shapes ==
  /\ RtLevels \in Nat \ {0}
  /\ \A m \in Maps : Count[m] \in Nat \ {0} /\ m \in Nat
                     /\ Blocks(m) \subseteq Nat /\ 0 \in Blocks(m)
  /\ \A p \in Allocations : /\ p.map \in Maps /\ p.block \in Blocks(p.map)
                            /\ p.len \in 1 .. Count[p.map]
BY HeapConstants DEF Maps, Blocks, Allocations, Allocation

\* The free blocks of a map form a finite set.
LEMMA FreeFinite ==
  ASSUME NEW m \in Maps, NEW S \in SUBSET Blocks(m)
  PROVE  IsFiniteSet(S) /\ Cardinality(S) \in Nat
<1>1. Count[m] - 1 \in Int
  BY Shapes
<1>2. IsFiniteSet(Blocks(m))
  BY <1>1, FS_Interval DEF Blocks
<1> QED BY <1>2, FS_Subset, FS_CardinalityType

\* The heap starts out sound.
LEMMA HeapInvInit == Init => HeapInv
<1> SUFFICES ASSUME Init PROVE HeapInv
  OBVIOUS
<1> USE DEF Init
<1>1. TypeOK
  <2>1. DOMAIN used = Maps /\ \A m \in Maps : used[m] \in [Blocks(m) -> BOOLEAN]
    OBVIOUS
  <2>2. DOMAIN size = Maps /\ \A m \in Maps : size[m] \in [Blocks(m) -> Nat]
    OBVIOUS
  <2>3. free_count \in [Maps -> Int]
    BY HeapConstants
  <2>4. DOMAIN first_free = Maps /\ \A m \in Maps : first_free[m] \in Blocks(m)
    BY Shapes
  <2> QED BY <2>1, <2>2, <2>3, <2>4 DEF TypeOK
<1>2. BoundsInv
  BY DEF BoundsInv
<1>3. ASSUME NEW m \in Maps PROVE SoundInv(m)
  <2>1. Free(m) = Blocks(m) /\ 0 \in Blocks(m) /\ Blocks(m) \subseteq Nat
    BY Shapes DEF Free
  <2>2. FirstFreeInv(m)
    BY <2>1 DEF FirstFreeInv
  <2>3. Cardinality(Blocks(m)) = Count[m]
    BY Shapes, FS_Interval DEF Blocks
  <2>4. CountInv(m)
    BY <2>1, <2>3 DEF CountInv
  <2>5. HeldInv(m)
    BY DEF HeldInv, Holds
  <2> QED BY <2>2, <2>4, <2>5 DEF SoundInv
<1> QED BY <1>1, <1>2, <1>3 DEF HeapInv

\* A map none of whose headers, counters or holders change stays sound.
LEMMA MapUntouched ==
  ASSUME NEW l \in Maps, SoundInv(l),
         used'[l] = used[l], size'[l] = size[l],
         free_count'[l] = free_count[l], first_free'[l] = first_free[l],
         l \in exhausted => l \in exhausted',
         \A d \in Clients : Holds(d, l)' => Holds(d, l) /\ own'[d] = own[d]
  PROVE  SoundInv(l)'
<1>1. Free(l)' = Free(l)
  BY DEF Free
<1>2. FirstFreeInv(l)'
  BY <1>1 DEF SoundInv, FirstFreeInv
<1>3. CountInv(l)'
  BY <1>1 DEF SoundInv, CountInv
<1>4. HeldInv(l)'
  BY DEF SoundInv, HeldInv, Span
<1> QED BY <1>2, <1>3, <1>4 DEF SoundInv

\* Giving free blocks at or after first_free to a client keeps every map sound.
LEMMA TakeInv ==
  ASSUME HeapInv,
         NEW c \in Clients, own[c] = NULL,
         NEW m \in Maps, NEW b \in Blocks(m), NEW n \in 1 .. Count[m],
         b + n <= Count[m], first_free[m] <= b,
         m < RtLevels - 1 => n = 1,
         Sound(m) => \A k \in b .. b + n - 1 : ~used[m][k],
         Take(c, m, b, n), UNCHANGED <<sys_heap, panicked>>
  PROVE  HeapInv'
<1> DEFINE I == b .. b + n - 1
           u == [i \in Blocks(m) |-> used[m][i] \/ i \in I]
           p == [map |-> m, block |-> b, len |-> n]
<1>0. /\ Count[m] \in Nat \ {0} /\ Blocks(m) = 0 .. Count[m] - 1
      /\ m \in Nat /\ RtLevels \in Nat /\ b \in Nat /\ n \in Nat /\ n >= 1
      /\ I \subseteq Blocks(m) /\ b \in I
  BY Shapes DEF Blocks
<1>1. /\ DOMAIN used = Maps /\ \A l \in Maps : used[l] \in [Blocks(l) -> BOOLEAN]
      /\ DOMAIN size = Maps /\ \A l \in Maps : size[l] \in [Blocks(l) -> Nat]
      /\ free_count \in [Maps -> Int]
      /\ DOMAIN first_free = Maps
      /\ \A l \in Maps : first_free[l] \in Blocks(l)
      /\ own \in [Clients -> Allocations \cup {NULL}] /\ exhausted \subseteq Maps
      /\ sys_heap \in Nat /\ panicked \in BOOLEAN
  BY DEF HeapInv, TypeOK
<1>2. /\ DOMAIN used' = Maps /\ used'[m] = u
      /\ \A l \in Maps \ {m} : used'[l] = used[l]
  BY <1>1 DEF Take
<1>3. /\ DOMAIN size' = Maps /\ size'[m] = [size[m] EXCEPT ![b] = n]
      /\ \A l \in Maps \ {m} : size'[l] = size[l]
  BY <1>1 DEF Take
<1>4. /\ free_count' \in [Maps -> Int] /\ free_count'[m] = free_count[m] - n
      /\ \A l \in Maps \ {m} : free_count'[l] = free_count[l]
  BY <1>0, <1>1 DEF Take
<1>5. /\ DOMAIN first_free' = Maps
      /\ first_free'[m] = IF b = first_free[m] THEN NextFree(m, u, b, b)
                          ELSE first_free[m]
      /\ \A l \in Maps \ {m} : first_free'[l] = first_free[l]
  BY <1>1 DEF Take
<1>6. /\ own'[c] = p /\ \A d \in Clients \ {c} : own'[d] = own[d]
      /\ p.map = m /\ p.block = b /\ p.len = n
  BY <1>1 DEF Take
<1>7. /\ exhausted \subseteq exhausted' /\ exhausted' \subseteq Maps
      /\ (\A i \in Blocks(m) : u[i]) => m \in exhausted'
  BY <1>1 DEF Take
<1>8. \/ /\ NextFree(m, u, b, b) = b
         /\ \A i \in Blocks(m) : i >= b => u[i]
      \/ /\ NextFree(m, u, b, b) \in Blocks(m) /\ NextFree(m, u, b, b) >= b
         /\ ~u[NextFree(m, u, b, b)]
         /\ \A i \in Blocks(m) : i >= b /\ i < NextFree(m, u, b, b) => u[i]
  <2>1. Blocks(m) \subseteq Nat /\ b \in Nat
    BY <1>0
  <2> HIDE DEF u
  <2> QED BY ONLY <2>1, m \in Maps, NextFreeFacts
<1>9. u \in [Blocks(m) -> BOOLEAN]
  BY <1>1
<1>10. p \in Allocations
  BY <1>0 DEF Allocations, Allocation
<1>11. TypeOK'
  <2>1. \A l \in Maps : used'[l] \in [Blocks(l) -> BOOLEAN]
    BY <1>1, <1>2, <1>9
  <2>2. \A l \in Maps : size'[l] \in [Blocks(l) -> Nat]
    BY <1>0, <1>1, <1>3
  <2>3. \A l \in Maps : first_free'[l] \in Blocks(l)
    BY <1>1, <1>5, <1>8
  <2>4. own' \in [Clients -> Allocations \cup {NULL}]
    BY <1>1, <1>10 DEF Take
  <2>5. sys_heap' \in Nat /\ panicked' \in BOOLEAN
    BY <1>1
  <2> QED BY <1>2, <1>3, <1>4, <1>5, <1>7, <2>1, <2>2, <2>3, <2>4, <2>5
          DEF TypeOK
<1>12. BoundsInv'
  BY <1>0, <1>6 DEF HeapInv, BoundsInv
<1>13. ASSUME NEW l \in Maps, Sound(l)' PROVE SoundInv(l)'
  <2>1. Sound(l) /\ SoundInv(l)
    BY <1>7, <1>13 DEF Sound, HeapInv
  <2>2. CASE l # m
    <3>1. \A d \in Clients : Holds(d, l)' => Holds(d, l) /\ own'[d] = own[d]
      BY <1>6, <2>2 DEF Holds
    <3>2. /\ used'[l] = used[l] /\ size'[l] = size[l]
          /\ free_count'[l] = free_count[l] /\ first_free'[l] = first_free[l]
      BY <1>2, <1>3, <1>4, <1>5, <2>2
    <3>3. l \in exhausted => l \in exhausted'
      BY <1>7
    <3> QED BY <2>1, <3>1, <3>2, <3>3, MapUntouched
  <2>3. CASE l = m
    <3> HIDE DEF p
    <3>1. \A k \in I : ~used[m][k]
      BY <2>1, <2>3
    <3>2. \A i \in Blocks(m) : u[i] <=> (used[m][i] \/ i \in I)
      OBVIOUS
    <3> HIDE DEF I, u
    <3>3. Free(m)' = Free(m) \ I
      BY <1>2, <3>2 DEF Free
    <3>4. I \subseteq Free(m)
      BY <1>0, <3>1 DEF Free
    <3>5. CountInv(m)'
      <4>1. IsFiniteSet(Free(m)) /\ Cardinality(Free(m)) \in Nat
        BY FreeFinite DEF Free
      <4>2. IsFiniteSet(I) /\ Cardinality(I) = n
        <5>1. b \in Int /\ b + n - 1 \in Int /\ ~(b > b + n - 1)
              /\ (b + n - 1) - b + 1 = n
          BY <1>0
        <5>2. /\ IsFiniteSet(b .. b + n - 1)
              /\ Cardinality(b .. b + n - 1) =
                   IF b > b + n - 1 THEN 0 ELSE (b + n - 1) - b + 1
          BY ONLY <5>1, FS_Interval
        <5> QED BY <5>1, <5>2 DEF I
      <4>3. Free(m) \cap I = I
        BY <3>4
      <4>4. Cardinality(Free(m) \ I) = Cardinality(Free(m)) - Cardinality(Free(m) \cap I)
        BY <4>1, FS_Difference
      <4>5. Cardinality(Free(m) \ I) = Cardinality(Free(m)) - n
        BY <4>2, <4>3, <4>4
      <4>6. free_count[m] = Cardinality(Free(m))
        BY <2>1, <2>3 DEF SoundInv, CountInv
      <4> QED BY <1>4, <3>3, <4>5, <4>6 DEF CountInv
    <3>6. FirstFreeInv(m)'
      <4>0. FirstFreeInv(m)
        BY <2>1, <2>3 DEF SoundInv
      <4>1. m \notin exhausted' => Free(m)' # {}
        BY <1>2, <1>7 DEF Free
      <4>2. CASE b = first_free[m]
        <5> DEFINE f == NextFree(m, u, b, b)
        <5>1. first_free'[m] = f
          BY <1>5, <4>2
        <5>2. \A i \in Blocks(m) : i < b => u[i]
          BY <3>2, <4>0, <4>2 DEF FirstFreeInv
        <5>3. CASE /\ f = b
                   /\ \A i \in Blocks(m) : i >= b => u[i]
          <6>1. \A i \in Blocks(m) : u[i]
            BY <1>0, <5>2, <5>3
          <6>2. Free(m)' = {}
            BY <1>2, <6>1 DEF Free
          <6> QED BY <1>2, <4>1, <6>1, <6>2 DEF FirstFreeInv
        <5>4. CASE /\ f \in Blocks(m) /\ f >= b /\ ~u[f]
                   /\ \A i \in Blocks(m) : i >= b /\ i < f => u[i]
          <6> HIDE DEF f
          <6>1. \A i \in Blocks(m) : i < f => u[i]
            BY <1>0, <5>2, <5>4
          <6> QED BY <1>2, <4>1, <5>1, <5>4, <6>1 DEF FirstFreeInv
        <5> HIDE DEF f
        <5> QED BY <1>8, <5>3, <5>4 DEF f
      <4>3. CASE b # first_free[m]
        <5>0. first_free[m] \in Blocks(m) /\ first_free[m] \in Nat
          BY <1>0, <1>1
        <5>1. first_free'[m] = first_free[m]
          BY <1>5, <4>3
        <5>2. first_free[m] \notin I
          BY <1>0, <4>3, <5>0 DEF I
        <5>3. Free(m) # {}
          BY <1>0, <3>4
        <5>4. ~used[m][first_free[m]]
          BY <4>0, <5>3 DEF FirstFreeInv
        <5>5. ~u[first_free[m]]
          BY <3>2, <5>0, <5>2, <5>4
        <5>6. \A i \in Blocks(m) : i < first_free[m] => u[i]
          BY <3>2, <4>0 DEF FirstFreeInv
        <5> QED BY <1>2, <4>1, <5>1, <5>5, <5>6 DEF FirstFreeInv
      <4> QED BY <4>2, <4>3
    <3>7. HeldInv(m)'
      <4>0. HeldInv(m)
        BY <2>1, <2>3 DEF SoundInv
      <4>1. \A d \in Clients \ {c} : /\ Holds(d, m)' <=> Holds(d, m)
                                    /\ own'[d] = own[d]
        BY <1>6 DEF Holds
      <4>2. Span(own'[c]) = I
        BY <1>6 DEF Span, I
      <4>3. ASSUME NEW d \in Clients \ {c}, Holds(d, m)
            PROVE  /\ Span(own[d]) \cap I = {}
                   /\ Span(own[d]) \subseteq Blocks(m)
                   /\ \A k \in Span(own[d]) : used[m][k]
                   /\ own[d].block \in Span(own[d])
                   /\ own[d].block \in Blocks(m)
                   /\ size[m][own[d].block] > 0
        <5>1. own[d] \in Allocations /\ own[d].map = m
          BY <1>1, <4>3 DEF Holds
        <5>2. /\ own[d].block \in Blocks(m) /\ own[d].len \in 1 .. Count[m]
              /\ own[d].block + own[d].len <= Count[m]
          BY <5>1, <4>3, Shapes DEF HeapInv, BoundsInv, Holds
        <5>3. \A k \in Span(own[d]) : used[m][k]
          BY <4>0, <4>3 DEF HeldInv
        <5>4. size[m][own[d].block] > 0
          BY <4>0, <4>3 DEF HeldInv
        <5>5. Span(own[d]) \subseteq Blocks(m) /\ own[d].block \in Span(own[d])
          <6> DEFINE x == own[d].block
                     y == own[d].len
          <6>1. x \in Nat /\ y \in Nat /\ y >= 1 /\ x + y <= Count[m]
            BY <1>0, <5>2
          <6> HIDE DEF x, y
          <6>2. x .. x + y - 1 \subseteq 0 .. Count[m] - 1 /\ x \in x .. x + y - 1
            BY <1>0, <6>1
          <6> QED BY <1>0, <6>2 DEF Span, x, y
        <5>6. Span(own[d]) \cap I = {}
          BY <3>1, <5>3
        <5> QED BY <5>2, <5>3, <5>4, <5>5, <5>6
      <4>4. ASSUME NEW d \in Clients, Holds(d, m)'
            PROVE  /\ \A k \in Span(own'[d]) : u[k]
                   /\ size'[m][own'[d].block] > 0
        <5>1. CASE d = c
          <6>1. \A k \in Span(own'[d]) : u[k]
            BY <1>0, <3>2, <4>2, <5>1
          <6>2. own'[d].block = b
            BY <1>6, <5>1
          <6>3. size'[m][b] = n
            BY <1>1, <1>3
          <6> QED BY <1>0, <6>1, <6>2, <6>3
        <5>2. CASE d # c
          <6>1. Holds(d, m) /\ own'[d] = own[d]
            BY <4>1, <4>4, <5>2
          <6>2. /\ Span(own[d]) \cap I = {} /\ Span(own[d]) \subseteq Blocks(m)
                /\ \A k \in Span(own[d]) : used[m][k]
                /\ own[d].block \in Span(own[d]) /\ own[d].block \in Blocks(m)
                /\ size[m][own[d].block] > 0
            BY <4>3, <5>2, <6>1
          <6>3. \A k \in Span(own'[d]) : u[k]
            BY <3>2, <6>1, <6>2
          <6>4. own[d].block # b
            BY <1>0, <6>2
          <6>5. size'[m][own[d].block] = size[m][own[d].block]
            BY <1>1, <1>3, <6>2, <6>4
          <6> QED BY <6>1, <6>2, <6>3, <6>5
        <5> QED BY <5>1, <5>2
      <4>5. ASSUME NEW d \in Clients, NEW e \in Clients,
                   Holds(d, m)', Holds(e, m)', d # e
            PROVE  Span(own'[d]) \cap Span(own'[e]) = {}
        <5>1. CASE d # c /\ e # c
          BY <4>0, <4>1, <4>5, <5>1 DEF HeldInv
        <5>2. CASE d = c
          BY <4>1, <4>2, <4>3, <4>5, <5>2
        <5>3. CASE e = c
          BY <4>1, <4>2, <4>3, <4>5, <5>3
        <5> QED BY <5>1, <5>2, <5>3
      <4>6. \A d \in Clients : Holds(d, m)' =>
              /\ \A k \in Span(own'[d]) : used'[m][k]
              /\ size'[m][own'[d].block] > 0
        BY <1>2, <4>4
      <4> QED BY <4>5, <4>6 DEF HeldInv, Span
    <3> QED BY <2>3, <3>5, <3>6, <3>7 DEF SoundInv
  <2> QED BY <2>2, <2>3
<1> QED BY <1>11, <1>12, <1>13 DEF HeapInv

\* A request that is refused leaves the heap as it was.
LEMMA FailInv ==
  ASSUME HeapInv, AllocFails, UNCHANGED <<sys_heap, panicked>>
  PROVE  HeapInv'
<1>1. UNCHANGED <<used, size, free_count, first_free, exhausted, own,
                  sys_heap, panicked>>
  BY DEF AllocFails, mapVars
<1>2. TypeOK' /\ BoundsInv'
  BY <1>1 DEF HeapInv, TypeOK, BoundsInv
<1>3. ASSUME NEW m \in Maps, Sound(m)' PROVE SoundInv(m)'
  <2>1. SoundInv(m)
    BY <1>1, <1>3 DEF HeapInv, Sound
  <2>2. \A d \in Clients : Holds(d, m)' => Holds(d, m) /\ own'[d] = own[d]
    BY <1>1 DEF Holds
  <2> QED BY <1>1, <2>1, <2>2, MapUntouched
<1> QED BY <1>2, <1>3 DEF HeapInv

\* The block at first_free is free whenever free_count says there is one.
LEMMA AllocBlockInv ==
  ASSUME HeapInv, NEW c \in Clients, own[c] = NULL,
         NEW m \in Maps, free_count[m] # 0,
         alloc_block(c, m), UNCHANGED <<sys_heap, panicked>>
  PROVE  HeapInv'
<1>1. first_free[m] \in Blocks(m) /\ Count[m] \in Nat \ {0}
  BY Shapes DEF HeapInv, TypeOK
<1>2. /\ 1 \in 1 .. Count[m] /\ first_free[m] + 1 <= Count[m]
      /\ first_free[m] <= first_free[m]
      /\ first_free[m] .. first_free[m] + 1 - 1 = {first_free[m]}
  BY <1>1 DEF Blocks
<1>3. ASSUME Sound(m) PROVE ~used[m][first_free[m]]
  <2>1. FirstFreeInv(m) /\ CountInv(m)
    BY <1>3 DEF HeapInv, SoundInv
  <2>2. Cardinality(Free(m)) # 0
    BY <2>1 DEF CountInv
  <2>3. Free(m) # {}
    BY <2>2, FS_EmptySet
  <2> QED BY <2>1, <2>3 DEF FirstFreeInv
<1>4. Sound(m) => \A k \in first_free[m] .. first_free[m] + 1 - 1 : ~used[m][k]
  BY <1>2, <1>3
<1>5. Take(c, m, first_free[m], 1)
  BY DEF alloc_block
<1> QED BY <1>1, <1>2, <1>4, <1>5, TakeInv

\* rmalloc() of a runtime block.
LEMMA RmallocRuntimeInv ==
  ASSUME HeapInv, NEW c \in Clients, NEW bytes \in Bytes,
         RmallocRuntime(c, bytes)
  PROVE  HeapInv'
<1>1. own[c] = NULL /\ UNCHANGED <<sys_heap, panicked>>
  BY DEF RmallocRuntime
<1>2. CASE AllocFails
  BY <1>1, <1>2, FailInv
<1>3. CASE \E m \in RtMaps : free_count[m] # 0 /\ alloc_block(c, m)
  <2>1. PICK m \in RtMaps : free_count[m] # 0 /\ alloc_block(c, m)
    BY <1>3
  <2>2. m \in Maps
    BY Shapes DEF RtMaps, Maps
  <2> QED BY <1>1, <2>1, <2>2, AllocBlockInv
<1> QED BY <1>2, <1>3 DEF RmallocRuntime, Fits

\* rballoc(): a run of blocks is placed inside the map and over free blocks.
LEMMA RballocInv ==
  ASSUME HeapInv, NEW c \in Clients, NEW bytes \in Bytes, Rballoc(c, bytes)
  PROVE  HeapInv'
<1>1. own[c] = NULL /\ UNCHANGED <<sys_heap, panicked>>
  BY DEF Rballoc
<1>2. BufMap \in Maps /\ BufMap = RtLevels
  BY Shapes DEF BufMap, Maps
<1>3. CASE Fits(BufMap, bytes) /\ alloc_block(c, BufMap)
  BY <1>1, <1>2, <1>3, AllocBlockInv DEF Fits
<1>4. CASE alloc_cont_blocks(c, BufMap, bytes)
  <2> DEFINE m == BufMap
             whole == bytes \div BlockSize[m]
             count == whole + (IF bytes % BlockSize[m] # 0 THEN 1 ELSE 0)
             starts == {s \in first_free[m] .. Count[m] - whole - 1 :
                          \A k \in s .. s + count - 1 : ~used[m][k]}
  <2>1. \/ AllocFails
        \/ \E s \in starts : Take(c, m, s, count)
    BY <1>4 DEF alloc_cont_blocks
  <2>2. CASE AllocFails
    BY <1>1, <2>2, FailInv
  <2>3. CASE \E s \in starts : Take(c, m, s, count)
    <3>1. PICK s \in starts : Take(c, m, s, count)
      BY <2>3
    <3>2. bytes \in Nat \ {0} /\ BlockSize[m] \in Nat \ {0}
      BY <1>2, HeapConstants
    <3>3. whole \in Nat /\ (bytes % BlockSize[m] = 0 => whole >= 1)
      BY <3>2, RoundUp
    <3>4. count \in Nat /\ count >= 1 /\ count <= whole + 1
      BY <3>3
    <3>5. /\ s \in first_free[m] .. Count[m] - whole - 1
          /\ \A k \in s .. s + count - 1 : ~used[m][k]
      BY <3>1
    <3>6. first_free[m] \in Nat /\ Count[m] \in Nat /\ RtLevels \in Nat
      BY <1>2, Shapes DEF HeapInv, TypeOK
    <3> HIDE DEF whole, count, starts
    <3>7. /\ s \in Int /\ s >= 0 /\ s <= Count[m] - whole - 1
          /\ first_free[m] <= s
      BY <3>3, <3>5, <3>6
    <3>8. s + count <= Count[m] /\ count \in 1 .. Count[m] /\ s \in Blocks(m)
      BY <3>3, <3>4, <3>6, <3>7 DEF Blocks
    <3>9. m < RtLevels - 1 => count = 1
      BY <1>2, <3>6
    <3> HIDE DEF m
    <3>10. m \in Maps
      BY <1>2 DEF m
    <3> QED BY <1>1, <3>1, <3>5, <3>7, <3>8, <3>9, <3>10, TakeInv
  <2> QED BY <2>1, <2>2, <2>3
<1> QED BY <1>3, <1>4 DEF Rballoc

\* rmalloc() from the system zone leaves the block maps alone.
LEMMA RmallocSysInv ==
  ASSUME HeapInv, NEW bytes \in Bytes, RmallocSys(bytes)
  PROVE  HeapInv'
<1>1. UNCHANGED <<used, size, free_count, first_free, exhausted, own>>
  BY DEF RmallocSys, mapVars
<1>2. sys_heap' \in Nat /\ panicked' \in BOOLEAN
  BY HeapConstants DEF RmallocSys, HeapInv, TypeOK
<1>3. TypeOK' /\ BoundsInv'
  BY <1>1, <1>2 DEF HeapInv, TypeOK, BoundsInv
<1>4. ASSUME NEW m \in Maps, Sound(m)' PROVE SoundInv(m)'
  <2>1. SoundInv(m)
    BY <1>1, <1>4 DEF HeapInv, Sound
  <2>2. \A d \in Clients : Holds(d, m)' => Holds(d, m) /\ own'[d] = own[d]
    BY <1>1 DEF Holds
  <2> QED BY <1>1, <2>1, <2>2, MapUntouched
<1> QED BY <1>3, <1>4 DEF HeapInv

\* rfree(): in a sound map the freed block was in use and held by nobody else.
LEMMA RfreeInv ==
  ASSUME HeapInv, NEW c \in Clients, Rfree(c)
  PROVE  HeapInv'
<1>1. /\ own[c] # NULL /\ free_block(own[c])
      /\ own' = [own EXCEPT ![c] = NULL] /\ UNCHANGED <<sys_heap, panicked>>
  BY DEF Rfree
<1>2. /\ DOMAIN used = Maps /\ \A l \in Maps : used[l] \in [Blocks(l) -> BOOLEAN]
      /\ DOMAIN size = Maps /\ \A l \in Maps : size[l] \in [Blocks(l) -> Nat]
      /\ free_count \in [Maps -> Int]
      /\ DOMAIN first_free = Maps
      /\ \A l \in Maps : first_free[l] \in Blocks(l)
      /\ own \in [Clients -> Allocations \cup {NULL}] /\ exhausted \subseteq Maps
      /\ sys_heap \in Nat /\ panicked \in BOOLEAN
  BY DEF HeapInv, TypeOK
<1>3. own'[c] = NULL /\ \A d \in Clients \ {c} : own'[d] = own[d]
  BY <1>1, <1>2
<1>4. own' \in [Clients -> Allocations \cup {NULL}]
  BY <1>1, <1>2
<1>5. BoundsInv'
  BY <1>3 DEF HeapInv, BoundsInv
<1>a. own[c] \in Allocations /\ own[c].map \in Maps
      /\ own[c].block \in Blocks(own[c].map) /\ own[c].block \in Nat
  BY <1>1, <1>2, Shapes
<1>m. PICK m \in Maps : m = own[c].map
  BY <1>a
<1>b. PICK b \in Blocks(m) : b = own[c].block
  BY <1>a, <1>m
<1>6. m = own[c].map /\ b = own[c].block /\ b \in Nat
  BY <1>a, <1>m, <1>b
<1>7. \A l \in Maps, d \in Clients : Holds(d, l)' =>
        /\ d # c /\ Holds(d, l) /\ own'[d] = own[d]
  BY <1>3 DEF Holds
<1>8. CASE ~Found(own[c]) /\ UNCHANGED mapVars
  <2>1. UNCHANGED <<used, size, free_count, first_free, exhausted>>
    BY <1>8 DEF mapVars
  <2>2. TypeOK'
    BY <1>1, <1>2, <1>4, <2>1 DEF TypeOK
  <2>3. ASSUME NEW l \in Maps, Sound(l)' PROVE SoundInv(l)'
    <3>1. SoundInv(l)
      BY <2>1, <2>3 DEF HeapInv, Sound
    <3> QED BY <1>7, <2>1, <3>1, MapUntouched
  <2> QED BY <1>5, <2>2, <2>3 DEF HeapInv
<1>9. CASE /\ m < RtLevels - 1 /\ exhausted' = exhausted
           /\ first_free' = [first_free EXCEPT ![m] = IF b < @ THEN b ELSE @]
           /\ \/ size[m][b] = 0 /\ UNCHANGED <<used, size, free_count>>
              \/ /\ size[m][b] > 0
                 /\ used' = [used EXCEPT ![m][b] = FALSE]
                 /\ size' = [size EXCEPT ![m][b] = 0]
                 /\ free_count' = [free_count EXCEPT ![m] = @ + 1]
  <2>1. /\ DOMAIN first_free' = Maps
        /\ first_free'[m] = IF b < first_free[m] THEN b ELSE first_free[m]
        /\ \A l \in Maps \ {m} : first_free'[l] = first_free[l]
    BY <1>2, <1>6, <1>9
  <2>2. /\ DOMAIN used' = Maps /\ \A l \in Maps : used'[l] \in [Blocks(l) -> BOOLEAN]
        /\ \A l \in Maps \ {m} : used'[l] = used[l]
    <3>1. CASE UNCHANGED used
      BY <1>2, <3>1
    <3>2. CASE used' = [used EXCEPT ![m][b] = FALSE]
      BY <1>2, <3>2
    <3> QED BY <1>9, <3>1, <3>2
  <2>3. /\ DOMAIN size' = Maps /\ \A l \in Maps : size'[l] \in [Blocks(l) -> Nat]
        /\ \A l \in Maps \ {m} : size'[l] = size[l]
    <3>1. CASE UNCHANGED size
      BY <1>2, <3>1
    <3>2. CASE size' = [size EXCEPT ![m][b] = 0]
      BY <1>2, <3>2
    <3> QED BY <1>9, <3>1, <3>2
  <2>4. /\ free_count' \in [Maps -> Int]
        /\ \A l \in Maps \ {m} : free_count'[l] = free_count[l]
    BY <1>2, <1>6, <1>9
  <2>5. \A l \in Maps : first_free'[l] \in Blocks(l)
    BY <1>2, <1>6, <2>1
  <2>6. TypeOK'
    BY <1>1, <1>2, <1>4, <1>9, <2>1, <2>2, <2>3, <2>4, <2>5 DEF TypeOK
  <2>7. ASSUME NEW l \in Maps, Sound(l)' PROVE SoundInv(l)'
    <3>1. SoundInv(l)
      BY <1>9, <2>7 DEF HeapInv, Sound
    <3>2. CASE l # m
      <4>1. /\ used'[l] = used[l] /\ size'[l] = size[l]
            /\ free_count'[l] = free_count[l] /\ first_free'[l] = first_free[l]
        BY <2>1, <2>2, <2>3, <2>4, <3>2
      <4>2. l \in exhausted => l \in exhausted'
        BY <1>9
      <4> QED BY <1>7, <3>1, <4>1, <4>2, MapUntouched
    <3>3. CASE l = m
      <4>0. FirstFreeInv(m) /\ CountInv(m) /\ HeldInv(m)
        BY <3>1, <3>3 DEF SoundInv
      <4>1. Holds(c, m)
        BY <1>1, <1>6 DEF Holds
      <4>2. own[c].len = 1
        BY <1>1, <1>6, <1>9 DEF HeapInv, BoundsInv
      <4>3. Span(own[c]) = {b}
        BY <1>6, <4>2 DEF Span
      <4>4. used[m][b] /\ size[m][b] > 0
        BY <1>6, <4>0, <4>1, <4>3 DEF HeldInv
      <4>5. /\ used'[m] = [used[m] EXCEPT ![b] = FALSE]
            /\ size'[m] = [size[m] EXCEPT ![b] = 0]
            /\ free_count'[m] = free_count[m] + 1
        BY <1>2, <1>6, <1>9, <4>4
      <4>6. /\ ~used'[m][b] /\ \A i \in Blocks(m) \ {b} : used'[m][i] = used[m][i]
            /\ \A i \in Blocks(m) \ {b} : size'[m][i] = size[m][i]
        <5>1. used[m] \in [Blocks(m) -> BOOLEAN] /\ size[m] \in [Blocks(m) -> Nat]
          BY <1>2
        <5> QED BY <4>5, <5>1
      <4>7. Free(m)' = Free(m) \cup {b} /\ b \notin Free(m)
        BY <1>6, <4>4, <4>6 DEF Free
      <4>8. CountInv(m)'
        <5>1. IsFiniteSet(Free(m)) /\ Cardinality(Free(m)) \in Nat
          BY <1>6, FreeFinite DEF Free
        <5>2. Cardinality(Free(m) \cup {b}) = Cardinality(Free(m)) + 1
          BY <4>7, <5>1, FS_AddElement
        <5> QED BY <4>0, <4>5, <4>7, <5>2 DEF CountInv
      <4>9. FirstFreeInv(m)'
        <5>0. first_free[m] \in Blocks(m) /\ Blocks(m) \subseteq Nat
          BY <1>2, <1>6, Shapes
        <5>1. \A i \in Blocks(m) : i < first_free'[m] => used'[m][i]
          BY <1>6, <2>1, <4>0, <4>6, <5>0 DEF FirstFreeInv
        <5>2. ~used'[m][first_free'[m]]
          <6>1. CASE b < first_free[m]
            BY <2>1, <4>6, <6>1
          <6>2. CASE b = first_free[m]
            BY <2>1, <4>6, <6>2
          <6>3. CASE first_free[m] < b
            <7>1. m \notin exhausted
              BY <1>9, <2>7, <3>3, Shapes DEF Sound
            <7>2. ~used[m][first_free[m]]
              BY <4>0, <7>1 DEF FirstFreeInv
            <7> QED BY <1>6, <2>1, <4>6, <5>0, <6>3, <7>2
          <6> QED BY <1>6, <5>0, <6>1, <6>2, <6>3
        <5> QED BY <4>7, <5>1, <5>2 DEF FirstFreeInv
      <4>10. HeldInv(m)'
        <5>1. ASSUME NEW d \in Clients, Holds(d, m)'
              PROVE  /\ \A k \in Span(own'[d]) : used'[m][k]
                     /\ size'[m][own'[d].block] > 0
          <6>1. d # c /\ Holds(d, m) /\ own'[d] = own[d]
            BY <1>6, <1>7, <5>1
          <6>2. b \notin Span(own[d])
            BY <4>0, <4>1, <4>3, <6>1 DEF HeldInv
          <6>3. own[d] \in Allocations /\ own[d].map = m
            BY <1>2, <6>1 DEF Holds
          <6>4. /\ own[d].block \in Blocks(m) /\ own[d].len \in 1 .. Count[m]
                /\ own[d].block + own[d].len <= Count[m] /\ Count[m] \in Nat
            BY <6>1, <6>3, Shapes DEF HeapInv, BoundsInv, Holds
          <6>5. Span(own[d]) \subseteq Blocks(m) /\ own[d].block \in Span(own[d])
            <7> DEFINE x == own[d].block
                       y == own[d].len
            <7>1. x \in Nat /\ y \in Nat /\ y >= 1 /\ x + y <= Count[m]
              BY <6>4 DEF Blocks
            <7> HIDE DEF x, y
            <7>2. /\ x .. x + y - 1 \subseteq 0 .. Count[m] - 1
                  /\ x \in x .. x + y - 1
              BY <6>4, <7>1
            <7> QED BY <7>2 DEF Span, Blocks, x, y
          <6>6. /\ \A k \in Span(own[d]) : used[m][k]
                /\ size[m][own[d].block] > 0
            BY <4>0, <6>1 DEF HeldInv
          <6>7. \A k \in Span(own[d]) : used'[m][k]
            BY <4>6, <6>2, <6>5, <6>6
          <6>8. size'[m][own[d].block] = size[m][own[d].block]
            BY <4>6, <6>2, <6>5
          <6> QED BY <6>1, <6>6, <6>7, <6>8
        <5>2. \A d, e \in Clients : Holds(d, m)' /\ Holds(e, m)' /\ d # e =>
                Span(own'[d]) \cap Span(own'[e]) = {}
          BY <1>6, <1>7, <4>0 DEF HeldInv
        <5> QED BY <5>1, <5>2 DEF HeldInv, Span
      <4> QED BY <3>3, <4>8, <4>9, <4>10 DEF SoundInv
    <3> QED BY <3>2, <3>3
  <2> QED BY <1>5, <2>6, <2>7 DEF HeapInv
<1> QED BY <1>1, <1>6, <1>8, <1>9 DEF free_block, Found

-----------------------------------------------------------------------------
(* Theorems *)

\* The inductive invariant holds in every reachable state.
THEOREM HeapInvariant == Spec => []HeapInv
<1>1. Init => HeapInv
  BY HeapInvInit
<1>2. HeapInv /\ [Next]_vars => HeapInv'
  <2> SUFFICES ASSUME HeapInv, [Next]_vars PROVE HeapInv'
    OBVIOUS
  <2>1. ASSUME NEW c \in Clients, NEW n \in Bytes, RmallocRuntime(c, n)
        PROVE  HeapInv'
    BY <2>1, RmallocRuntimeInv
  <2>2. ASSUME NEW c \in Clients, NEW n \in Bytes, Rballoc(c, n)
        PROVE  HeapInv'
    BY <2>2, RballocInv
  <2>3. ASSUME NEW n \in Bytes, RmallocSys(n) PROVE HeapInv'
    BY <2>3, RmallocSysInv
  <2>4. ASSUME NEW c \in Clients, Rfree(c) PROVE HeapInv'
    BY <2>4, RfreeInv
  <2>5. CASE UNCHANGED vars
    BY <2>5, FailInv DEF vars, mapVars, AllocFails
  <2> QED BY <2>1, <2>2, <2>3, <2>4, <2>5 DEF Next
<1> QED BY <1>1, <1>2, PTL DEF Spec

\* Every variable keeps its type; first_free always indexes a block, although
\* the code follows it without a bounds check.
THEOREM HeapTypeCorrect == Spec => []TypeOK
<1>1. HeapInv => TypeOK
  BY DEF HeapInv
<1> QED BY <1>1, HeapInvariant, PTL

\* Until a map is exhausted (and for ever in a map that is never freed) no
\* block of it is handed to two clients.
THEOREM NoDoubleAllocation == Spec => []DisjointUntilExhausted
<1>1. HeapInv => DisjointUntilExhausted
  <2> SUFFICES ASSUME HeapInv, NEW m \in Maps, Sound(m),
                      NEW b \in Blocks(m), NEW c \in Clients, NEW d \in Clients,
                      Covers(own[c], m, b), Covers(own[d], m, b), c # d
               PROVE  FALSE
    BY DEF DisjointUntilExhausted, DisjointIn, Sound
  <2>1. Holds(c, m) /\ Holds(d, m) /\ b \in Span(own[c]) \cap Span(own[d])
    BY DEF Covers, Holds, Span
  <2>2. HeldInv(m)
    BY DEF HeapInv, SoundInv
  <2> QED BY <2>1, <2>2 DEF HeldInv
<1> QED BY <1>1, HeapInvariant, PTL

\* first_free is the lowest free block of every map not exhausted yet.
THEOREM FirstFreeIsLowest == Spec => []FirstFreeExact
<1>1. HeapInv => FirstFreeExact
  BY DEF HeapInv, SoundInv, FirstFreeInv, FirstFreeExact, Sound
<1> QED BY <1>1, HeapInvariant, PTL

\* free_count is the number of blocks not in use.
THEOREM FreeCountCorrect == Spec => []FreeCountExact
<1>1. HeapInv => FreeCountExact
  BY DEF HeapInv, SoundInv, CountInv, Free, FreeCountExact, Sound
<1> QED BY <1>1, HeapInvariant, PTL

\* What a client holds lies inside its map and is marked in use.
THEOREM HeldBlocksStayInUse == Spec => []HeldBlocksInUse
<1>1. HeapInv => HeldBlocksInUse
  <2> SUFFICES ASSUME HeapInv, NEW c \in Clients, own[c] # NULL
               PROVE  /\ own[c].block + own[c].len <= Count[own[c].map]
                      /\ own[c].map \notin exhausted =>
                           \A b \in Span(own[c]) : used[own[c].map][b]
    BY DEF HeldBlocksInUse, Span
  <2>1. own[c].block + own[c].len <= Count[own[c].map]
    BY DEF HeapInv, BoundsInv
  <2>2. own[c].map \in Maps
    BY Shapes DEF HeapInv, TypeOK
  <2>3. own[c].map \notin exhausted => HeldInv(own[c].map)
    BY <2>2 DEF HeapInv, Sound, SoundInv
  <2> QED BY <2>1, <2>3 DEF HeldInv, Holds
<1> QED BY <1>1, HeapInvariant, PTL
=============================================================================

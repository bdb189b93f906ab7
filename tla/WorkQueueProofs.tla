--------------------------- MODULE WorkQueueProofs ---------------------------
(***************************************************************************)
(* Proofs about WorkQueue, for any number of works, any width of the timer *)
(* and any window, delays and lateness that WorkConstants admits: the list *)
(* is exact, no callback runs early, no work is missed and a wait returns  *)
(* success only for what has happened.                                     *)
(***************************************************************************)
EXTENDS WorkQueue, ListProofs

-----------------------------------------------------------------------------
(* The counter *)

\* Ticks from b to a.
Gap(a, b) == (a - b) % Wrap

LEMMA Numbers ==
  /\ Wrap \in Nat \ {0} /\ Time = 0 .. Wrap - 1 /\ MAX_INT = Wrap - 1
  /\ Window \in Nat /\ MaxLate \in Nat /\ MaxLate <= Window /\ Window + MaxLate < Wrap
  /\ \A d \in Delays \cup {Period, WaitTicks} : d \in Nat /\ d > MaxLate /\ d < Wrap
BY WorkConstants DEF Time, MAX_INT

LEMMA GapIs ==
  ASSUME NEW a \in Time, NEW b \in Time
  PROVE  /\ Gap(a, b) = IF b <= a THEN a - b ELSE a - b + Wrap
         /\ Gap(a, b) \in Time
<1>1. Wrap \in Nat \ {0} /\ a \in 0 .. Wrap - 1 /\ b \in 0 .. Wrap - 1 BY Numbers
<1>2. Gap(a, b) = IF b <= a THEN a - b ELSE a - b + Wrap BY <1>1, WrapDiff DEF Gap
<1>. QED BY <1>1, <1>2, Numbers

\* A tick: what is late gets later, what is ahead comes nearer.
LEMMA GapTick ==
  ASSUME NEW a \in Time, NEW b \in Time, NEW c, c = (a + 1) % Wrap
  PROVE  /\ c \in Time /\ Gap(c, b) <= Gap(a, b) + 1
         /\ a # b => Gap(b, c) = Gap(b, a) - 1
         /\ (Gap(b, c) = 0 <=> b = c) /\ (Gap(c, b) = 0 <=> b = c)
<1>1. Wrap \in Nat \ {0} /\ a \in 0 .. Wrap - 1 /\ b \in 0 .. Wrap - 1 BY Numbers
<1>2. c = IF a + 1 < Wrap THEN a + 1 ELSE a + 1 - Wrap
  <2>1. 1 \in 0 .. Wrap BY <1>1
  <2>. QED BY <1>1, <2>1, WrapSum
<1>3. c \in 0 .. Wrap - 1 BY <1>1, <1>2
<1>4. c \in Time BY <1>3, Numbers
<1>5. /\ Gap(c, b) = IF b <= c THEN c - b ELSE c - b + Wrap
      /\ Gap(b, c) = IF c <= b THEN b - c ELSE b - c + Wrap
      /\ Gap(a, b) = IF b <= a THEN a - b ELSE a - b + Wrap
      /\ Gap(b, a) = IF a <= b THEN b - a ELSE b - a + Wrap
  BY <1>4, GapIs
<1>6. Gap(c, b) <= Gap(a, b) + 1 BY <1>1, <1>2, <1>3, <1>5
<1>7. a # b => Gap(b, c) = Gap(b, a) - 1 BY <1>1, <1>2, <1>3, <1>5
<1>8. (Gap(b, c) = 0 <=> b = c) /\ (Gap(c, b) = 0 <=> b = c) BY <1>1, <1>3, <1>5
<1>. QED BY <1>4, <1>6, <1>7, <1>8

LEMMA GapZero ==
  ASSUME NEW a \in Time, NEW b \in Time
  PROVE  Gap(a, b) = 0 <=> a = b
<1>1. Gap(a, b) = IF b <= a THEN a - b ELSE a - b + Wrap BY GapIs
<1>. QED BY <1>1, Numbers

\* A timeout of d ticks, computed from a counter read g ticks ago.
LEMMA GapAdd ==
  ASSUME NEW a \in Time, NEW b \in Time, NEW d \in Nat, d < Wrap, Gap(b, a) <= d
  PROVE  (a + d) % Wrap \in Time /\ Gap((a + d) % Wrap, b) = d - Gap(b, a)
<1>1. Wrap \in Nat \ {0} /\ a \in 0 .. Wrap - 1 /\ b \in 0 .. Wrap - 1 BY Numbers
<1>. DEFINE c == (a + d) % Wrap
<1>2. c = IF a + d < Wrap THEN a + d ELSE a + d - Wrap
  <2>1. d \in 0 .. Wrap BY <1>1
  <2>. QED BY <1>1, <2>1, WrapSum
<1>. HIDE DEF c
<1>3. c \in 0 .. Wrap - 1 BY <1>1, <1>2
<1>4. c \in Time BY <1>3, Numbers
<1>5. /\ Gap(c, b) = IF b <= c THEN c - b ELSE c - b + Wrap
      /\ Gap(b, a) = IF a <= b THEN b - a ELSE b - a + Wrap
  BY <1>4, GapIs
<1>6. Gap(c, b) = d - Gap(b, a) BY <1>1, <1>2, <1>3, <1>5
<1>. QED BY <1>4, <1>6 DEF c

LEMMA GapNat ==
  ASSUME NEW a \in Time, NEW b \in Time
  PROVE  Gap(a, b) \in Nat
<1>1. Gap(a, b) \in Time BY GapIs
<1>. QED BY <1>1, Numbers

LEMMA LongestIs ==
  /\ Longest \in Nat /\ Longest > 0 /\ Longest < Wrap
  /\ \A d \in Delays \cup {Period, WaitTicks} : d <= Longest
<1>. DEFINE S == Delays \cup {Period, WaitTicks}
            T == {Wrap - d : d \in S}
<1>1. T \in SUBSET Nat /\ T # {} BY Numbers
<1>. HIDE DEF T
<1>2. PICK m \in T : \A i \in T : m <= i BY <1>1, LeastNat
<1>3. PICK d \in S : m = Wrap - d BY <1>2 DEF T
<1>4. ASSUME NEW e \in S PROVE e <= d
  <2>1. m <= Wrap - e BY <1>2 DEF T
  <2>2. d \in Nat /\ e \in Nat /\ Wrap \in Nat BY Numbers
  <2>. QED BY <1>3, <2>1, <2>2
<1>5. Longest \in S /\ \A e \in S : e <= Longest
  <2>1. Longest = CHOOSE x \in S : \A e \in S : e <= x BY DEF Longest
  <2>. HIDE DEF S
  <2>. QED BY <1>3, <1>4, <2>1
<1>. QED BY <1>5, Numbers

\* What the window test of is_work_pending() says of a timeout.
LEMMA PendingMeans ==
  ASSUME now \in Time, NEW x \in Time
  PROVE  /\ IsPending(x) => Gap(now, x) <= Window
         /\ x # MAX_INT /\ ~IsPending(x) => Gap(now, x) > Window
<1>1. /\ Wrap \in Nat \ {0} /\ now \in 0 .. Wrap - 1 /\ x \in 0 .. Wrap - 1
      /\ Window \in Nat /\ Window < Wrap /\ MAX_INT = Wrap - 1 /\ Window # 0
  BY Numbers, WorkConstants
<1>. DEFINE s == (now - Window) % Wrap
<1>2. s = IF Window <= now THEN now - Window ELSE now - Window + Wrap
  <2>1. Window \in 0 .. Wrap - 1 BY <1>1
  <2>. QED BY <1>1, <2>1, WrapDiff
<1>3. Gap(now, x) = IF x <= now THEN now - x ELSE now - x + Wrap BY GapIs
<1>4. IsPending(x) <=> \/ now > s /\ x >= s /\ x <= now
                       \/ now <= s /\ (x <= now \/ (x >= s /\ x < MAX_INT))
  BY DEF IsPending
<1>. HIDE DEF s
<1>. QED BY <1>1, <1>2, <1>3, <1>4

-----------------------------------------------------------------------------
(* The list and its next timeout *)

Count == Cardinality(Nodes)

LEMMA NodeFacts ==
  /\ IsFiniteSet(Nodes) /\ Count \in Nat /\ List \notin Nodes
  /\ Comp \in Nodes /\ Works \subseteq Nodes /\ Comp \notin Works
BY WorkConstants, FS_AddElement, FS_CardinalityType DEF Nodes, Count

\* The operators of ListItems, before and after a step, as those of ListProofs.
LEMMA SameWalk ==
  /\ Walk = WalkOf(next, List, Count)
  /\ Length = LengthOf(next, List, Count) /\ Listed = ListedOf(next, List, Count)
  /\ Ends <=> EndsOf(next, List, Count)
<1>1. Walk = WalkOf(next, List, Count) BY DEF Walk, WalkOf, Count
<1>2. Length = LengthOf(next, List, Count) BY <1>1 DEF Length, LengthOf
<1>3. Listed = ListedOf(next, List, Count) BY <1>1, <1>2 DEF Listed, Rounds, ListedOf
<1>4. Ends <=> EndsOf(next, List, Count) BY <1>1 DEF Ends, EndsOf
<1>. QED BY <1>1, <1>2, <1>3, <1>4

LEMMA SameWalkAfter ==
  /\ Walk' = WalkOf(next', List, Count)
  /\ Length' = LengthOf(next', List, Count) /\ Listed' = ListedOf(next', List, Count)
<1>1. Walk' = WalkOf(next', List, Count) BY DEF Walk, WalkOf, Count
<1>2. Length' = LengthOf(next', List, Count) BY <1>1 DEF Length, LengthOf
<1>3. Listed' = ListedOf(next', List, Count) BY <1>1, <1>2 DEF Listed, Rounds, ListedOf
<1>. QED BY <1>1, <1>2, <1>3

\* queue_get_next_timeout() of pointers n, timeouts x and the time c.
Nearest(n, x, c) ==
  LET w == WalkOf(n, List, Count)
      m == LengthOf(n, List, Count)
      delta(i) == calc_delta_ticks(c, x[w[i]])
      best == {i \in 0 .. m - 1 : /\ delta(i) < MAX_INT
                                  /\ \A j \in 0 .. m - 1 : delta(i) <= delta(j)}
  IN  IF ListedOf(n, List, Count) = {} THEN 0
      ELSE IF best = {} THEN c ELSE x[w[First(best)]]

LEMMA SameNearest == queue_get_next_timeout' = Nearest(next', timeout', now')
BY SameWalkAfter DEF queue_get_next_timeout, Nearest, First, Rounds

LEMMA DeltaIs ==
  ASSUME NEW c \in Time, NEW b \in Time
  PROVE  /\ calc_delta_ticks(c, b) \in Nat /\ calc_delta_ticks(c, b) <= Gap(b, c)
         /\ b # MAX_INT => calc_delta_ticks(c, b) < MAX_INT
         /\ b < c => Gap(b, c) = calc_delta_ticks(c, b) + 1
         /\ b >= c => Gap(b, c) = calc_delta_ticks(c, b)
<1>1. Wrap \in Nat \ {0} /\ c \in 0 .. Wrap - 1 /\ b \in 0 .. Wrap - 1 /\ MAX_INT = Wrap - 1
  BY Numbers
<1>2. calc_delta_ticks(c, b) = IF b < c THEN MAX_INT - c + b ELSE b - c
  BY DEF calc_delta_ticks
<1>3. Gap(b, c) = IF c <= b THEN b - c ELSE b - c + Wrap BY GapIs
<1>. QED BY <1>1, <1>2, <1>3

\* It is a time, and the one that comes first if no timeout is 0 or MAX_INT.
LEMMA NearestIs ==
  ASSUME NEW C \in SUBSET Nodes, NEW n, NEW r, NEW t, Ordered(n, List, C, r, t),
         NEW x \in [Nodes -> Time], NEW c \in Time
  PROVE  LET S == ListedOf(n, List, Count)
         IN  /\ Nearest(n, x, c) \in Time
             /\ S = {} => Nearest(n, x, c) = 0
             /\ S # {} /\ (\A i \in S : x[i] \notin {0, MAX_INT}) =>
                  \E v \in S : /\ Nearest(n, x, c) = x[v]
                               /\ \A i \in S : Gap(x[v], c) <= Gap(x[i], c)
<1>. DEFINE w == WalkOf(n, List, Count)
            m == LengthOf(n, List, Count)
            S == ListedOf(n, List, Count)
            f == [i \in 0 .. m - 1 |-> calc_delta_ticks(c, x[w[i]])]
            best == {i \in 0 .. m - 1 :
                       /\ calc_delta_ticks(c, x[w[i]]) < MAX_INT
                       /\ \A j \in 0 .. m - 1 : calc_delta_ticks(c, x[w[i]])
                                                  <= calc_delta_ticks(c, x[w[j]])}
<1>1. Seen(n, List, C, Count) BY NodeFacts, OrderedEnds DEF Count
<1>2. m \in Nat /\ \A i \in 0 .. m - 1 : w[i] \in C
  BY <1>1, NodeFacts DEF Seen
<1>3. S = {w[i] : i \in 0 .. m - 1} BY DEF ListedOf
<1>4. Nearest(n, x, c) = IF S = {} THEN 0 ELSE IF best = {} THEN c ELSE x[w[First(best)]]
  BY DEF Nearest
<1>5. best \in SUBSET Nat /\ best \subseteq 0 .. m - 1 BY <1>2
<1>6. best # {} => First(best) \in best
  <2>. HIDE DEF best
  <2>. QED BY <1>5, FirstIn
<1>7. 0 \in Time BY Numbers
<1>. HIDE DEF w, m, S
<1>8. Nearest(n, x, c) \in Time
  <2>. HIDE DEF best
  <2>1. best # {} => First(best) \in 0 .. m - 1 BY <1>5, <1>6
  <2>2. best # {} => w[First(best)] \in Nodes BY <1>2, <2>1
  <2>3. best # {} => x[w[First(best)]] \in Time BY <2>2
  <2>. QED BY <1>4, <1>7, <2>3
<1>9. S = {} => Nearest(n, x, c) = 0 BY <1>4
<1>10. ASSUME S # {}, \A i \in S : x[i] \notin {0, MAX_INT}
       PROVE  \E v \in S : /\ Nearest(n, x, c) = x[v]
                           /\ \A i \in S : Gap(x[v], c) <= Gap(x[i], c)
  <2>1. PICK k \in 0 .. m - 1 : TRUE BY <1>3, <1>10
  <2>2. \A i \in 0 .. m - 1 : w[i] \in S /\ x[w[i]] \in Time /\ x[w[i]] \notin {0, MAX_INT}
    BY <1>2, <1>3, <1>10
  <2>3. \A i \in 0 .. m - 1 :
          calc_delta_ticks(c, x[w[i]]) \in Nat /\ calc_delta_ticks(c, x[w[i]]) < MAX_INT
    BY <2>2, DeltaIs
  <2>4. f \in [0 .. m - 1 -> Nat] /\ f[k] < MAX_INT /\ MAX_INT \in Nat
    BY <2>3, Numbers
  <2>5. best = Least(f, m, MAX_INT) BY DEF Least
  <2>6. best # {}
    <3>. HIDE DEF f, best
    <3>. QED BY <1>2, <2>4, <2>5, LeastExists
  <2>7. PICK l \in best : l = First(best) BY <1>6, <2>6
  <2>8. /\ l \in 0 .. m - 1 /\ Nearest(n, x, c) = x[w[l]]
        /\ \A j \in 0 .. m - 1 : calc_delta_ticks(c, x[w[l]]) <= calc_delta_ticks(c, x[w[j]])
    <3>1. S # {} BY <1>10
    <3>. QED BY <1>4, <2>6, <2>7, <3>1
  <2>. HIDE DEF f, best
  <2>9. ASSUME NEW i \in S PROVE Gap(x[w[l]], c) <= Gap(x[i], c)
    <3>1. PICK j \in 0 .. m - 1 : i = w[j] BY <1>3
    <3>. DEFINE a == x[w[l]]
                b == x[w[j]]
    <3>2. a \in Time /\ b \in Time /\ b # MAX_INT /\ a # 0 BY <2>2, <2>8
    <3>. HIDE DEF a, b
    <3>3. calc_delta_ticks(c, a) <= calc_delta_ticks(c, b) BY <2>8 DEF a, b
    <3>4. /\ Gap(a, c) = IF c <= a THEN a - c ELSE a - c + Wrap
          /\ Gap(b, c) = IF c <= b THEN b - c ELSE b - c + Wrap
      BY <3>2, GapIs
    <3>5. /\ calc_delta_ticks(c, a) = IF a < c THEN MAX_INT - c + a ELSE a - c
          /\ calc_delta_ticks(c, b) = IF b < c THEN MAX_INT - c + b ELSE b - c
      BY DEF calc_delta_ticks
    <3>6. Gap(a, c) <= Gap(b, c) BY <3>2, <3>3, <3>4, <3>5, Numbers
    <3>. QED BY <3>1, <3>6 DEF a, b
  <2>10. w[l] \in S BY <2>2, <2>8
  <2>. QED BY <2>8, <2>9, <2>10
<1>. QED BY <1>8, <1>9, <1>10 DEF S

-----------------------------------------------------------------------------
(* The first inductive invariant: types, the list, the waits *)

\* While the main loop may still cancel the completion's work.
Waiting == {"zero", "loop", "waiti", "check", "cancel"}

\* What the loop of run_work() has yet to come to was due when is_work_pending()
\* looked, and is late by no more than the ticks since.
OnList(C, r, t) ==
  /\ Loose(next, prev, List, C, r, t)
  /\ pc \in Waiting => Comp \in C
  /\ l5 = "run" => /\ at \in C
                   /\ \A w \in pending \cap C :
                        r[w] <= r[at] => Gap(now, timeout[w]) <= Window + late

\* The works the pointers may still lead to.
LooseInv == \E C \in SUBSET Nodes : \E r, t : Ranking(r, Nodes) /\ OnList(C, r, t)

\* The list holds the queued works, unless one was cancelled twice.
ExactInv ==
  edge # "recancel" =>
    /\ \E r, t : Ranking(r, Nodes) /\ Linked(next, prev, List, queued, r, t)
    /\ l5 = "run" => at \in queued

WaitInv ==
  /\ pc \in {"idle", "schedule"} => Comp \notin queued
  /\ pc \in {"loop", "waiti", "check"} /\ comp_timeout # 0 => Comp \notin queued
  /\ pc = "check" => complete \/ comp_timeout # 0
  /\ pc = "cancel" => complete

BaseInv == TypeOK /\ LooseInv /\ ExactInv /\ WaitInv

LEMMA BaseInit == Init => BaseInv
<1>. SUFFICES ASSUME Init PROVE BaseInv OBVIOUS
<1>1. TypeOK
  <2>1. 0 \in Time /\ 0 \in 0 .. MaxLate /\ 0 \in 0 .. WaitTicks BY Numbers
  <2>2. /\ next \in [Nodes \cup {List} -> Nodes \cup {List}]
        /\ prev \in [Nodes \cup {List} -> Nodes \cup {List}]
    BY DEF Init, list_init
  <2>3. timeout \in [Nodes -> Time] BY <2>1 DEF Init
  <2>. QED BY <2>1, <2>2, <2>3 DEF Init, TypeOK, Edges
<1>2. next[List] = List /\ prev[List] = List /\ queued = {} /\ pc = "idle" /\ l5 = "idle"
  BY DEF Init, list_init
<1>3. PICK r : Ranking(r, Nodes)
  <2>1. Ranking([w \in Nodes |-> 0], Nodes) BY DEF Ranking
  <2>. QED BY <2>1
<1>4. Linked(next, prev, List, {}, r, 0) BY <1>2, EmptyLinked
<1>5. Loose(next, prev, List, {}, r, 0) BY <1>4, LinkedIsLoose
<1>6. OnList({}, r, 0) BY <1>2, <1>5 DEF OnList, Waiting
<1>7. LooseInv BY <1>3, <1>6 DEF LooseInv
<1>8. ExactInv BY <1>2, <1>3, <1>4 DEF ExactInv
<1>9. WaitInv BY <1>2 DEF WaitInv
<1>. QED BY <1>1, <1>7, <1>8, <1>9 DEF BaseInv

\* What the list shows, whatever was cancelled twice.
LEMMA ListSeen ==
  ASSUME LooseInv
  PROVE  Listed \subseteq Nodes /\ (Listed # {} => next[List] \in Listed)
<1>1. PICK C, r, t : C \in SUBSET Nodes /\ OnList(C, r, t)
  BY DEF LooseInv
<1>2. Ordered(next, List, C, r, t) BY <1>1 DEF OnList, Loose
<1>3. ListedOf(next, List, Count) \subseteq C /\ Seen(next, List, C, Count)
  BY <1>1, <1>2, NodeFacts, OrderedEnds DEF Count
<1>4. Listed \subseteq Nodes BY <1>1, <1>3, SameWalk
<1>5. Listed # {} => next[List] \in Listed
  <2>. SUFFICES ASSUME Listed # {} PROVE next[List] \in Listed OBVIOUS
  <2>. DEFINE m == LengthOf(next, List, Count)
              w == WalkOf(next, List, Count)
  <2>1. Listed = {w[i] : i \in 0 .. m - 1} BY SameWalk DEF ListedOf
  <2>2. m \in Nat /\ w[0] = next[List] BY <1>3, NodeFacts DEF Seen
  <2>. HIDE DEF m, w
  <2>3. 0 \in 0 .. m - 1 BY <2>1, <2>2
  <2>. QED BY <2>1, <2>2, <2>3
<1>. QED BY <1>4, <1>5

LEMMA ExactSeen ==
  ASSUME ExactInv, edge # "recancel", queued \subseteq Nodes
  PROVE  Ends /\ Listed = queued
<1>1. PICK r, t : Linked(next, prev, List, queued, r, t) BY DEF ExactInv
<1>2. Ordered(next, List, queued, r, t) BY <1>1 DEF Linked
<1>3. queued \in SUBSET Nodes OBVIOUS
<1>4. ListedOf(next, List, Count) = queued
  BY <1>1, <1>3, NodeFacts, LinkedListed DEF Count
<1>5. EndsOf(next, List, Count) BY <1>2, <1>3, NodeFacts, OrderedEnds DEF Count
<1>. QED BY <1>4, <1>5, SameWalk

-----------------------------------------------------------------------------
(* Steps of the list, in terms of that invariant *)

\* A step that leaves list and times alone.
LEMMA ListKept ==
  ASSUME LooseInv, ExactInv, UNCHANGED <<next, prev, timeout, now, late>>,
         UNCHANGED <<pending, at, queued, edge>>,
         l5' = "run" => l5 = "run", pc' \in Waiting => pc \in Waiting
  PROVE  LooseInv' /\ ExactInv'
<1>1. LooseInv'
  <2>1. PICK C, r, t : C \in SUBSET Nodes /\ Ranking(r, Nodes) /\ OnList(C, r, t)
    BY DEF LooseInv
  <2>2. OnList(C, r, t)' BY <2>1 DEF OnList
  <2>. QED BY <2>1, <2>2 DEF LooseInv
<1>2. ExactInv' BY DEF ExactInv
<1>. QED BY <1>1, <1>2

\* work_schedule() of a work that is not listed.
LEMMA ListPrepended ==
  ASSUME BaseInv, NEW x \in Nodes, x \notin Listed, list_item_prepend(x),
         queued' = queued \cup {x}, edge' # "recancel" => edge # "recancel",
         l5 = "idle", l5' = "idle", pc' \in Waiting => x = Comp
  PROVE  /\ LooseInv' /\ ExactInv'
         /\ next' \in [Nodes \cup {List} -> Nodes \cup {List}]
         /\ prev' \in [Nodes \cup {List} -> Nodes \cup {List}]
<1>1. Pointers(next, prev, Nodes, List) /\ Prepended(next, prev, List, x, next', prev')
  BY NodeFacts DEF BaseInv, TypeOK, Pointers, list_item_prepend, Prepended
<1>2. PICK C, r, t : C \in SUBSET Nodes /\ Ranking(r, Nodes) /\ OnList(C, r, t)
  BY DEF BaseInv, LooseInv
<1>3. Loose(next, prev, List, C, r, t) BY <1>2 DEF OnList
<1>4. Listed \subseteq C /\ Ordered(next, List, Listed, r, t)
  <2>1. Ordered(next, List, C, r, t) BY <1>3 DEF Loose
  <2>2. /\ ListedOf(next, List, Count) \subseteq C
        /\ Ordered(next, List, ListedOf(next, List, Count), r, t)
    BY <1>2, <2>1, NodeFacts, OrderedEnds DEF Count
  <2>. QED BY <2>2, SameWalk
<1>5. Loose(next, prev, List, Listed, r, t) BY <1>3, <1>4 DEF Loose
<1>6. Listed \in SUBSET Nodes BY <1>2, <1>4
<1>7. /\ Pointers(next', prev', Nodes, List) /\ Ranking(Raised(r, x, t), Nodes)
      /\ Loose(next', prev', List, Listed \cup {x}, Raised(r, x, t), t + 1)
  BY <1>1, <1>2, <1>4, <1>5, <1>6, PrependLinked
<1>8. LooseInv'
  <2>1. PICK D, s, u :
          /\ D \in SUBSET Nodes /\ Ranking(s, Nodes)
          /\ Loose(next', prev', List, D, s, u) /\ x \in D
    <3>1. Listed \cup {x} \in SUBSET Nodes /\ x \in Listed \cup {x} BY <1>6
    <3>. QED BY <1>7, <3>1
  <2>2. OnList(D, s, u)' BY <2>1 DEF OnList
  <2>. QED BY <2>1, <2>2 DEF LooseInv
<1>9. ExactInv'
  <2>. SUFFICES ASSUME edge' # "recancel"
                PROVE  \E s, u : Ranking(s, Nodes) /\ Linked(next', prev', List, queued', s, u)
    BY DEF ExactInv
  <2>1. PICK s, u : Ranking(s, Nodes) /\ Linked(next, prev, List, queued, s, u)
    BY DEF BaseInv, ExactInv
  <2>2. queued \in SUBSET Nodes BY DEF BaseInv, TypeOK
  <2>3. x \notin queued BY <2>2, ExactSeen DEF BaseInv
  <2>4. Ordered(next, List, queued, s, u) BY <2>1 DEF Linked
  <2>5. /\ Ranking(Raised(s, x, u), Nodes)
        /\ Linked(next', prev', List, queued \cup {x}, Raised(s, x, u), u + 1)
    BY <1>1, <2>1, <2>2, <2>3, <2>4, PrependLinked
  <2>. QED BY <2>5
<1>. QED BY <1>7, <1>8, <1>9 DEF Pointers

\* list_item_del() of a work that is listed, or was cancelled before.
LEMMA ListDeleted ==
  ASSUME BaseInv, NEW C \in SUBSET Nodes, NEW r, NEW t, OnList(C, r, t),
         NEW x \in C, list_item_del(x), queued' = queued \ {x},
         edge' # "recancel" => edge # "recancel" /\ x \in queued
  PROVE  /\ Loose(next', prev', List, C, r, t) /\ next'[x] = next[x]
         /\ edge' # "recancel" =>
              \E s, u : Ranking(s, Nodes) /\ Linked(next', prev', List, queued', s, u)
         /\ next' \in [Nodes \cup {List} -> Nodes \cup {List}]
         /\ prev' \in [Nodes \cup {List} -> Nodes \cup {List}]
<1>1. Pointers(next, prev, Nodes, List) /\ Deleted(next, prev, x, next', prev')
  BY NodeFacts DEF BaseInv, TypeOK, Pointers, list_item_del, Deleted
<1>2. Loose(next, prev, List, C, r, t) /\ C \in SUBSET Nodes /\ x \in C BY DEF OnList
<1>3. Pointers(next', prev', Nodes, List) /\ Loose(next', prev', List, C, r, t)
  BY <1>1, <1>2, DelLinked
<1>5. next'[x] = next[x]
  <2>1. next[x] # x /\ prev[x] # x /\ x # List
    BY <1>2, NodeFacts DEF Loose, Ordered
  <2>. QED BY <1>1, <2>1 DEF Deleted, Pointers
<1>4. ASSUME edge' # "recancel"
      PROVE  \E s, u : Ranking(s, Nodes) /\ Linked(next', prev', List, queued', s, u)
  <2>1. PICK s, u : Ranking(s, Nodes) /\ Linked(next, prev, List, queued, s, u)
    BY <1>4 DEF BaseInv, ExactInv
  <2>2. queued \in SUBSET Nodes /\ x \in queued BY <1>4 DEF BaseInv, TypeOK
  <2>3. Loose(next, prev, List, queued, s, u) BY <2>1, LinkedIsLoose
  <2>4. Linked(next', prev', List, queued \ {x}, s, u)
    BY <1>1, <2>1, <2>2, <2>3, DelLinked
  <2>. QED BY <2>1, <2>4
<1>. QED BY <1>3, <1>4, <1>5 DEF Pointers

\* queue_reschedule() after any of them.
LEMMA TimerType ==
  ASSUME queue_reschedule, LooseInv', timeout' \in [Nodes -> Time], now' \in Time,
         cmp \in Time, enabled \in BOOLEAN
  PROVE  cmp' \in Time /\ enabled' \in BOOLEAN
<1>1. PICK C, r, t : C \in SUBSET Nodes /\ Loose(next', prev', List, C, r, t)
  BY DEF LooseInv, OnList
<1>2. Ordered(next', List, C, r, t) BY <1>1 DEF Loose
<1>3. C \in SUBSET Nodes BY <1>1
<1>4. Nearest(next', timeout', now') \in Time BY <1>2, <1>3, NearestIs
<1>. QED BY <1>4, SameNearest DEF queue_reschedule, timerVars

-----------------------------------------------------------------------------
(* The steps of queue_run() and of time *)

LEMMA QuietStep ==
  ASSUME BaseInv,
         \/ EnterRun \/ DmaTick \/ Completed
         \/ WaitInit \/ WaitZero \/ WaitLoop \/ WaitCheck
  PROVE  BaseInv'
<1>. USE DEF BaseInv
<1>1. /\ UNCHANGED <<next, prev, timeout, now, late>>
      /\ UNCHANGED <<pending, at, queued, edge>>
      /\ l5' = "run" => l5 = "run"
      /\ pc' \in Waiting => pc \in Waiting
  BY DEF EnterRun, DmaTick, Completed, WaitInit, WaitZero, WaitLoop, WaitCheck,
         MainStep, Wake, Waiting, listVars, runVars
<1>2. LooseInv' /\ ExactInv' BY <1>1, ListKept
<1>3. TypeOK'
  <2>1. WaitTicks \in Nat BY Numbers
  <2>2. WaitTicks \in 0 .. WaitTicks /\ 0 \in 0 .. WaitTicks BY <2>1
  <2>. QED BY <1>1, <2>2
         DEF TypeOK, EnterRun, DmaTick, Completed, WaitInit, WaitZero, WaitLoop,
             WaitCheck, MainStep, Wake, timerVars, runVars, waitVars
<1>4. WaitInv'
  BY <1>1 DEF WaitInv, EnterRun, DmaTick, Completed, WaitInit, WaitZero, WaitLoop,
              WaitCheck, MainStep, Wake, waitVars
<1>. QED BY <1>2, <1>3, <1>4

LEMMA CheckStep ==
  ASSUME BaseInv, is_work_pending
  PROVE  BaseInv'
<1>. USE DEF BaseInv
<1>1. /\ UNCHANGED <<next, prev, timeout, now, cmp, enabled, irq, run_ticks, late>>
      /\ UNCHANGED <<pc, complete, comp_timeout, queued, edge>>
      /\ l5 = "check" /\ pending' = {w \in Listed : IsPending(timeout[w])}
      /\ IF pending' # {} THEN l5' = "run" /\ at' = next[List]
         ELSE l5' = "rearm" /\ at' = List
  BY DEF is_work_pending, listVars, timerVars, waitVars
<1>2. Listed \subseteq Nodes /\ (Listed # {} => next[List] \in Listed) BY ListSeen
<1>3. TypeOK' BY <1>1, <1>2 DEF TypeOK
<1>4. LooseInv'
  <2>1. PICK C, r, t : C \in SUBSET Nodes /\ Ranking(r, Nodes) /\ OnList(C, r, t)
    BY DEF LooseInv
  <2>2. Ordered(next, List, C, r, t) BY <2>1 DEF OnList, Loose
  <2>3. ListedOf(next, List, Count) \subseteq C BY <2>1, <2>2, NodeFacts, OrderedEnds DEF Count
  <2>4. Listed \subseteq C BY <2>3, SameWalk
  <2>5. ASSUME NEW w \in pending' PROVE Gap(now, timeout[w]) <= Window + late
    <3>1. timeout[w] \in Time /\ now \in Time /\ IsPending(timeout[w]) /\ late \in 0 .. MaxLate
      BY <1>1, <1>2 DEF TypeOK
    <3>2. Gap(now, timeout[w]) <= Window BY <3>1, PendingMeans
    <3>3. Gap(now, timeout[w]) \in 0 .. Wrap - 1 BY <3>1, GapIs, Numbers
    <3>. QED BY <3>1, <3>2, <3>3, Numbers
  <2>6. l5' = "run" => at' \in C BY <1>1, <1>2, <2>4
  <2>7. OnList(C, r, t)' BY <1>1, <2>1, <2>5, <2>6 DEF OnList
  <2>. QED BY <2>1, <2>7 DEF LooseInv
<1>5. ExactInv'
  <2>1. edge # "recancel" => Listed = queued BY ExactSeen DEF TypeOK
  <2>. QED BY <1>1, <1>2, <2>1 DEF ExactInv
<1>6. WaitInv' BY <1>1 DEF WaitInv
<1>. QED BY <1>3, <1>4, <1>5, <1>6

\* What run_work() does to the work it is at.
LEMMA RunCases ==
  ASSUME BaseInv, run_work
  PROVE  /\ l5 = "run" /\ at' = next[at] /\ l5' = IF at' = List THEN "check" ELSE "run"
         /\ UNCHANGED <<now, cmp, enabled, irq, run_ticks, pending, late, pc, complete>>
         /\ \/ UNCHANGED <<next, prev, timeout, comp_timeout, queued, edge>> /\ at \notin pending
            \/ /\ at \in pending /\ list_item_del(at) /\ queued' = queued \ {at}
               /\ timeout' = timeout
               /\ \/ at \in Works /\ edge' = edge /\ comp_timeout' = comp_timeout
                  \/ at = Comp /\ comp_timeout' = 1 /\ TimingEdge(pc = "zero")
            \/ /\ at \in pending /\ at \in Works /\ SetTimeout(at, run_ticks, Period)
               /\ WrapEdge(at)
               /\ UNCHANGED <<next, prev, queued, comp_timeout>>
<1>1. CASE at \notin pending
  BY <1>1 DEF run_work, listVars, timerVars
<1>2. CASE at \in pending /\ WorkCallback(at)
  BY <1>2 DEF run_work, WorkCallback, Finish, Again, listVars, timerVars
<1>3. CASE at \in pending /\ _wait_cb(at)
  BY <1>3 DEF run_work, _wait_cb, Finish, listVars, timerVars
<1>. QED BY <1>1, <1>2, <1>3 DEF run_work

\* run_work() never goes back: a work it has been at has a lower rank after it.
LEMMA RunStep ==
  ASSUME BaseInv, run_work
  PROVE  BaseInv'
<1>. USE DEF BaseInv
<1>. DEFINE finished == /\ at \in pending /\ list_item_del(at) /\ queued' = queued \ {at}
                        /\ timeout' = timeout
            again == /\ at \in pending /\ SetTimeout(at, run_ticks, Period)
                     /\ UNCHANGED <<next, prev, queued, comp_timeout>>
            idle == UNCHANGED <<next, prev, timeout, queued, comp_timeout>>
<1>1. /\ l5 = "run" /\ at' = next[at] /\ l5' = IF at' = List THEN "check" ELSE "run"
      /\ UNCHANGED <<now, cmp, enabled, irq, run_ticks, pending, late, pc, complete>>
      /\ finished \/ again \/ idle
  BY RunCases
<1>2. edge' \in Edges /\ (edge' # "recancel" => edge # "recancel")
  BY RunCases DEF TypeOK, Edges, WrapEdge, TimingEdge
<1>3. PICK C, r, t : C \in SUBSET Nodes /\ Ranking(r, Nodes) /\ OnList(C, r, t)
  BY DEF LooseInv
<1>4. /\ C \in SUBSET Nodes /\ at \in C /\ at \in Nodes
      /\ \A w \in pending \cap C : r[w] <= r[at] => Gap(now, timeout[w]) <= Window + late
  BY <1>1, <1>3 DEF OnList
<1>5. edge # "recancel" => at \in queued BY <1>1 DEF ExactInv
<1>6. at' # List => at' \in C /\ r[at'] < r[at] /\ r[at'] \in Nat /\ r[at] \in Nat
  BY <1>1, <1>3, <1>4 DEF OnList, Loose, Ordered
<1>7. /\ Loose(next', prev', List, C, r, t)
      /\ next' \in [Nodes \cup {List} -> Nodes \cup {List}]
      /\ prev' \in [Nodes \cup {List} -> Nodes \cup {List}]
      /\ edge' # "recancel" =>
           \E s, u : Ranking(s, Nodes) /\ Linked(next', prev', List, queued', s, u)
  <2>1. CASE finished
    <3>1. edge' # "recancel" => edge # "recancel" /\ at \in queued BY <1>2, <1>5
    <3>. QED BY <1>3, <1>4, <2>1, <3>1, ListDeleted
  <2>2. CASE again \/ idle
    BY <1>2, <1>3, <2>2 DEF OnList, ExactInv, TypeOK
  <2>. HIDE DEF finished, again, idle
  <2>. QED BY <1>1, <2>1, <2>2
<1>8. timeout' \in [Nodes -> Time] /\ \A w \in Nodes : w # at => timeout'[w] = timeout[w]
  <2>1. CASE again
    <3>1. (run_ticks + Period) % Wrap \in Time
      <4>1. run_ticks \in Nat /\ Period \in Nat /\ Wrap \in Nat \ {0}
        BY Numbers DEF TypeOK
      <4>. QED BY <4>1, Numbers
    <3>. QED BY <2>1, <3>1 DEF TypeOK, SetTimeout
  <2>2. CASE finished \/ idle BY <2>2 DEF TypeOK
  <2>. HIDE DEF finished, again, idle
  <2>. QED BY <1>1, <2>1, <2>2
<1>9. LooseInv'
  <2>1. ASSUME l5' = "run"
        PROVE  /\ at' \in C
               /\ \A w \in pending' \cap C :
                    r[w] <= r[at'] => Gap(now', timeout'[w]) <= Window + late'
    <3>1. at' # List BY <1>1, <2>1
    <3>2. ASSUME NEW w \in pending' \cap C, r[w] <= r[at']
          PROVE  Gap(now', timeout'[w]) <= Window + late'
      <4>1. r[w] \in Nat BY <1>3 DEF OnList, Loose, Ordered
      <4>2. r[w] < r[at] BY <1>6, <3>1, <3>2, <4>1
      <4>3. w # at /\ w \in Nodes /\ w \in pending \cap C BY <1>1, <1>4, <4>1, <4>2
      <4>. QED BY <1>1, <1>4, <1>6, <1>8, <3>1, <4>1, <4>2, <4>3
    <3>. QED BY <1>6, <3>1, <3>2
  <2>2. pc' \in Waiting => Comp \in C BY <1>1, <1>3 DEF OnList
  <2>3. OnList(C, r, t)' BY <1>7, <2>1, <2>2 DEF OnList
  <2>. QED BY <1>3, <2>3 DEF LooseInv
<1>10. ExactInv'
  <2>1. ASSUME edge' # "recancel", l5' = "run" PROVE at' \in queued'
    <3>1. PICK s, u : Linked(next, prev, List, queued, s, u) BY <1>2, <2>1 DEF ExactInv
    <3>2. at \in queued /\ at' # List BY <1>1, <1>2, <1>5, <2>1
    <3>3. at' \in queued /\ at' # at
      <4>1. next[at] \in queued \cup {List} /\ (next[at] # List => s[next[at]] < s[at])
            /\ s[at] \in Nat
        BY <3>1, <3>2 DEF Linked, Ordered
      <4>. QED BY <1>1, <3>2, <4>1
    <3>4. queued' = queued \ {at} \/ queued' = queued BY <1>1
    <3>. QED BY <3>3, <3>4
  <2>. QED BY <1>7, <2>1 DEF ExactInv
<1>11. TypeOK'
  <2>1. at' \in Nodes \cup {List} BY <1>1, <1>4 DEF TypeOK
  <2>2. comp_timeout' \in 0 .. WaitTicks
    <3>1. 1 \in 0 .. WaitTicks BY Numbers
    <3>. QED BY <3>1, RunCases DEF TypeOK
  <2>3. queued' \subseteq Nodes BY <1>1 DEF TypeOK
  <2>. QED BY <1>1, <1>2, <1>7, <1>8, <2>1, <2>2, <2>3 DEF TypeOK
<1>12. WaitInv'
  <2>1. queued' \subseteq queued BY <1>1
  <2>2. comp_timeout' = comp_timeout \/ (comp_timeout' = 1 /\ Comp \notin queued')
    BY RunCases
  <2>. QED BY <1>1, <2>1, <2>2 DEF WaitInv
<1>. QED BY <1>9, <1>10, <1>11, <1>12

LEMMA TickStep ==
  ASSUME BaseInv, Tick
  PROVE  BaseInv'
<1>. USE DEF BaseInv
<1>1. /\ UNCHANGED <<next, prev, timeout, cmp, enabled, l5, at, run_ticks, pending>>
      /\ UNCHANGED <<pc, complete, comp_timeout, queued>>
      /\ now' = (now + 1) % Wrap /\ irq' = (irq \/ (cmp # 0 /\ now' = cmp))
      /\ (Due => late < MaxLate) /\ late' = IF Due THEN late + 1 ELSE 0
      /\ edge' \in {edge, "timing"} /\ (edge = "recancel" => edge' = "recancel")
  BY DEF Tick, TimingEdge, listVars, timerVars, runVars, waitVars
<1>2. late \in 0 .. MaxLate /\ MaxLate \in Nat /\ now \in Time BY Numbers DEF TypeOK
<1>3. now' \in Time /\ late' \in 0 .. MaxLate
  <2>1. now' \in Time BY <1>1, <1>2, Numbers
  <2>. QED BY <1>1, <1>2, <2>1
<1>4. TypeOK'
  <2>1. irq' \in BOOLEAN /\ edge' \in Edges BY <1>1 DEF TypeOK, Edges
  <2>. QED BY <1>1, <1>3, <2>1 DEF TypeOK
<1>5. LooseInv'
  <2>1. PICK C, r, t : C \in SUBSET Nodes /\ Ranking(r, Nodes) /\ OnList(C, r, t)
    BY DEF LooseInv
  <2>2. ASSUME l5 = "run", NEW w \in pending \cap C, r[w] <= r[at]
        PROVE  Gap(now', timeout[w]) <= Window + late'
    <3>1. timeout[w] \in Time BY DEF TypeOK
    <3>2. Gap(now, timeout[w]) <= Window + late BY <2>1, <2>2 DEF OnList
    <3>3. Gap(now', timeout[w]) <= Gap(now, timeout[w]) + 1 BY <1>1, <1>2, <3>1, GapTick
    <3>4. late' = late + 1 BY <1>1, <2>2 DEF Due
    <3>5. /\ Gap(now, timeout[w]) \in 0 .. Wrap - 1 /\ Gap(now', timeout[w]) \in 0 .. Wrap - 1
      BY <1>2, <1>3, <3>1, GapIs, Numbers
    <3>. QED BY <1>2, <3>2, <3>3, <3>4, <3>5, Numbers
  <2>3. OnList(C, r, t)' BY <1>1, <2>1, <2>2 DEF OnList
  <2>. QED BY <2>1, <2>3 DEF LooseInv
<1>6. ExactInv' BY <1>1 DEF ExactInv
<1>7. WaitInv' BY <1>1 DEF WaitInv
<1>. QED BY <1>4, <1>5, <1>6, <1>7

LEMMA RearmStep ==
  ASSUME BaseInv, RearmTimer
  PROVE  BaseInv'
<1>. USE DEF BaseInv
<1>1. /\ UNCHANGED <<next, prev, timeout, now, irq, at, pending, queued, edge>>
      /\ UNCHANGED <<pc, complete, comp_timeout>>
      /\ l5' = "idle" /\ late' = 0 /\ run_ticks' = 0 /\ queue_reschedule
  BY DEF RearmTimer, listVars, waitVars
<1>2. LooseInv'
  <2>1. PICK C, r, t : C \in SUBSET Nodes /\ Ranking(r, Nodes) /\ OnList(C, r, t)
    BY DEF LooseInv
  <2>2. OnList(C, r, t)' BY <1>1, <2>1 DEF OnList
  <2>. QED BY <2>1, <2>2 DEF LooseInv
<1>3. cmp' \in Time /\ enabled' \in BOOLEAN BY <1>1, <1>2, TimerType DEF TypeOK
<1>4. TypeOK'
  <2>1. 0 \in Time /\ 0 \in 0 .. MaxLate BY Numbers
  <2>. QED BY <1>1, <1>3, <2>1 DEF TypeOK
<1>5. ExactInv' BY <1>1 DEF ExactInv
<1>6. WaitInv' BY <1>1 DEF WaitInv
<1>. QED BY <1>2, <1>4, <1>5, <1>6

-----------------------------------------------------------------------------
(* The steps of the main loop *)

\* work_schedule_default() of a work or of the completion's.
LEMMA ScheduleKeeps ==
  ASSUME BaseInv, NEW x \in Nodes, NEW d \in Nat, work_schedule(x, d),
         UNCHANGED <<irq, late, l5, at, run_ticks, pending>>, l5 = "idle",
         pc' \in Waiting => x = Comp
  PROVE  /\ LooseInv' /\ ExactInv' /\ now' = now /\ edge' \in Edges
         /\ queued \subseteq queued' /\ queued' \subseteq queued \cup {x}
         /\ next' \in [Nodes \cup {List} -> Nodes \cup {List}]
         /\ prev' \in [Nodes \cup {List} -> Nodes \cup {List}]
         /\ timeout' \in [Nodes -> Time] /\ cmp' \in Time /\ enabled' \in BOOLEAN
<1>. USE DEF BaseInv
<1>1. now' = now BY DEF work_schedule
<1>2. CASE x \in Listed /\ UNCHANGED <<listVars, timeout, timerVars, queued, edge>>
  <2>1. UNCHANGED <<next, prev, timeout, cmp, enabled, queued, edge>>
    BY <1>2 DEF listVars, timerVars
  <2>2. LooseInv'
    <3>1. PICK C, r, t : C \in SUBSET Nodes /\ Ranking(r, Nodes) /\ OnList(C, r, t)
      BY DEF LooseInv
    <3>2. Ordered(next, List, C, r, t) BY <3>1 DEF OnList, Loose
    <3>3. ListedOf(next, List, Count) \subseteq C BY <3>1, <3>2, NodeFacts, OrderedEnds DEF Count
    <3>4. x \in C BY <1>2, <3>3, SameWalk
    <3>5. OnList(C, r, t)' BY <1>1, <2>1, <3>1, <3>4 DEF OnList
    <3>. QED BY <3>1, <3>5 DEF LooseInv
  <2>3. ExactInv' BY <2>1 DEF ExactInv
  <2>. QED BY <1>1, <2>1, <2>2, <2>3 DEF TypeOK
<1>3. CASE /\ x \notin Listed /\ SetTimeout(x, now, d) /\ list_item_prepend(x)
           /\ queue_reschedule /\ queued' = queued \cup {x} /\ WrapEdge(x)
  <2>1. edge' \in Edges /\ (edge' # "recancel" => edge # "recancel")
    BY <1>3 DEF TypeOK, Edges, WrapEdge, TimingEdge
  <2>2. /\ LooseInv' /\ ExactInv'
        /\ next' \in [Nodes \cup {List} -> Nodes \cup {List}]
        /\ prev' \in [Nodes \cup {List} -> Nodes \cup {List}]
    BY <1>3, <2>1, ListPrepended
  <2>3. timeout' \in [Nodes -> Time]
    <3>1. (now + d) % Wrap \in Time
      <4>1. now \in Nat /\ Wrap \in Nat \ {0} BY Numbers DEF TypeOK
      <4>. QED BY <4>1, Numbers
    <3>. QED BY <1>3, <3>1 DEF SetTimeout, TypeOK
  <2>4. cmp' \in Time /\ enabled' \in BOOLEAN
    BY <1>1, <1>3, <2>2, <2>3, TimerType DEF TypeOK
  <2>. QED BY <1>1, <1>3, <2>1, <2>2, <2>3, <2>4
<1>. QED BY <1>2, <1>3 DEF work_schedule

LEMMA ScheduleStep ==
  ASSUME BaseInv, NEW x \in Works, NEW d \in Delays, Schedule(x, d)
  PROVE  BaseInv'
<1>. USE DEF BaseInv
<1>1. /\ l5 = "idle" /\ pc = "idle" /\ work_schedule(x, d)
      /\ UNCHANGED <<irq, late, l5, at, run_ticks, pending, pc, complete, comp_timeout>>
  BY DEF Schedule, runVars, waitVars
<1>2. d \in Nat /\ x \in Nodes /\ x # Comp BY Numbers, NodeFacts
<1>3. pc' \notin Waiting BY <1>1 DEF Waiting
<1>4. /\ LooseInv' /\ ExactInv' /\ now' = now /\ edge' \in Edges
      /\ queued' \subseteq queued \cup {x}
      /\ next' \in [Nodes \cup {List} -> Nodes \cup {List}]
      /\ prev' \in [Nodes \cup {List} -> Nodes \cup {List}]
      /\ timeout' \in [Nodes -> Time] /\ cmp' \in Time /\ enabled' \in BOOLEAN
  BY <1>1, <1>2, <1>3, ScheduleKeeps
<1>5. TypeOK' BY <1>1, <1>2, <1>4 DEF TypeOK
<1>6. WaitInv' BY <1>1, <1>2, <1>4 DEF WaitInv
<1>. QED BY <1>4, <1>5, <1>6

LEMMA WaitScheduleStep ==
  ASSUME BaseInv, WaitSchedule
  PROVE  BaseInv'
<1>. USE DEF BaseInv
<1>1. /\ l5 = "idle" /\ pc' = "zero" /\ work_schedule(Comp, comp_timeout)
      /\ UNCHANGED <<irq, late, l5, at, run_ticks, pending, complete, comp_timeout>>
  BY DEF WaitSchedule, MainStep, runVars
<1>2. comp_timeout \in Nat /\ Comp \in Nodes BY Numbers, NodeFacts DEF TypeOK
<1>3. /\ LooseInv' /\ ExactInv' /\ now' = now /\ edge' \in Edges
      /\ queued' \subseteq queued \cup {Comp}
      /\ next' \in [Nodes \cup {List} -> Nodes \cup {List}]
      /\ prev' \in [Nodes \cup {List} -> Nodes \cup {List}]
      /\ timeout' \in [Nodes -> Time] /\ cmp' \in Time /\ enabled' \in BOOLEAN
  BY <1>1, <1>2, ScheduleKeeps
<1>4. TypeOK' BY <1>1, <1>2, <1>3 DEF TypeOK
<1>5. WaitInv' BY <1>1 DEF WaitInv
<1>. QED BY <1>3, <1>4, <1>5

LEMMA CancelStep ==
  ASSUME BaseInv, WaitCancel
  PROVE  BaseInv'
<1>. USE DEF BaseInv
<1>1. /\ l5 = "idle" /\ pc = "cancel" /\ pc' = "idle"
      /\ UNCHANGED <<now, timeout, irq, late, l5, at, run_ticks, pending, complete>>
      /\ comp_timeout' = comp_timeout
      /\ list_item_del(Comp) /\ queue_reschedule /\ queued' = queued \ {Comp}
      /\ edge' = IF Comp \in queued THEN edge ELSE "recancel"
  BY DEF WaitCancel, MainStep, work_cancel, runVars
<1>2. PICK C, r, t : C \in SUBSET Nodes /\ Ranking(r, Nodes) /\ OnList(C, r, t)
  BY DEF LooseInv
<1>3. Comp \in C /\ C \in SUBSET Nodes BY <1>1, <1>2 DEF OnList, Waiting
<1>4. edge' # "recancel" => edge # "recancel" /\ Comp \in queued BY <1>1
<1>5. /\ Loose(next', prev', List, C, r, t)
      /\ edge' # "recancel" =>
           \E s, u : Ranking(s, Nodes) /\ Linked(next', prev', List, queued', s, u)
      /\ next' \in [Nodes \cup {List} -> Nodes \cup {List}]
      /\ prev' \in [Nodes \cup {List} -> Nodes \cup {List}]
  BY <1>1, <1>2, <1>3, <1>4, ListDeleted
<1>6. LooseInv'
  <2>1. OnList(C, r, t)' BY <1>1, <1>5 DEF OnList, Waiting
  <2>. QED BY <1>2, <2>1 DEF LooseInv
<1>7. ExactInv' BY <1>1, <1>5 DEF ExactInv
<1>8. cmp' \in Time /\ enabled' \in BOOLEAN BY <1>1, <1>6, TimerType DEF TypeOK
<1>9. TypeOK' BY <1>1, <1>5, <1>8 DEF TypeOK, Edges
<1>10. WaitInv' BY <1>1 DEF WaitInv
<1>. QED BY <1>6, <1>7, <1>9, <1>10

LEMMA BaseNext == BaseInv /\ [Next]_vars => BaseInv'
<1>. SUFFICES ASSUME BaseInv, [Next]_vars PROVE BaseInv' OBVIOUS
<1>1. CASE Level5
  BY <1>1, QuietStep, CheckStep, RunStep, RearmStep DEF Level5
<1>2. CASE DmaTick \/ Completed \/ WaitInit BY <1>2, QuietStep
<1>3. CASE Tick BY <1>3, TickStep
<1>4. CASE \E w \in Works, d \in Delays : Schedule(w, d) BY <1>4, ScheduleStep
<1>5. CASE Wait
  BY <1>5, QuietStep, WaitScheduleStep, CancelStep DEF Wait
<1>6. CASE UNCHANGED vars
  <2>1. /\ UNCHANGED <<next, prev, timeout, now, late, cmp, enabled, irq, run_ticks>>
        /\ UNCHANGED <<pending, at, queued, edge, l5, pc, complete, comp_timeout>>
    BY <1>6 DEF vars, listVars, timerVars, runVars, waitVars
  <2>2. LooseInv' /\ ExactInv' BY <2>1, ListKept DEF BaseInv
  <2>. QED BY <2>1, <2>2 DEF BaseInv, TypeOK, WaitInv
<1>. QED BY <1>1, <1>2, <1>3, <1>4, <1>5, <1>6 DEF Next

-----------------------------------------------------------------------------
(* Theorems about the list and the waits *)

\* The first inductive invariant.
THEOREM BaseInvariant == Spec => []BaseInv
<1>. QED BY BaseInit, BaseNext, PTL DEF Spec

\* Types: every pointer of the queue leads to a work or the list head, also
\* after a work was cancelled twice.
THEOREM TypeCorrect == Spec => []TypeOK
<1>1. BaseInv => TypeOK BY DEF BaseInv
<1>. QED BY <1>1, BaseInvariant, PTL

\* The list holds exactly the works scheduled and not finished, for as long as
\* work_cancel() is not called for a work that queue_run() has removed.
THEOREM ListIsExact == Spec => []ListExact
<1>1. BaseInv => ListExact
  <2>. SUFFICES ASSUME BaseInv, edge # "recancel" PROVE ListHolds(queued)
    BY DEF ListExact
  <2>1. Ends /\ Listed = queued BY ExactSeen DEF BaseInv, TypeOK
  <2>2. \A i \in queued \cup {List} : prev[next[i]] = i /\ next[prev[i]] = i
    BY DEF BaseInv, ExactInv, Linked
  <2>. QED BY <2>1, <2>2 DEF ListHolds
<1>. QED BY <1>1, BaseInvariant, PTL

\* queue_run() calls a work back only when it is due, although the counter runs
\* on between the look for pending work and the callback, and whatever it adds,
\* removes or runs again in between.
THEOREM NoneRunsEarly == Spec => []NeverEarly
<1>1. BaseInv => NeverEarly
  <2>. SUFFICES ASSUME BaseInv, l5 = "run", at \in pending
                PROVE  Overdue(at) <= Window + MaxLate
    BY DEF NeverEarly
  <2>1. PICK C, r, t : Ranking(r, Nodes) /\ C \in SUBSET Nodes /\ OnList(C, r, t)
    BY DEF BaseInv, LooseInv
  <2>2. at \in C /\ at \in Nodes /\ r[at] \in Nat
    BY <2>1 DEF OnList, Loose, Ordered
  <2>3. Gap(now, timeout[at]) <= Window + late BY <2>1, <2>2 DEF OnList
  <2>4. /\ Gap(now, timeout[at]) \in 0 .. Wrap - 1 /\ late \in 0 .. MaxLate
    BY <2>2, GapIs, Numbers DEF BaseInv, TypeOK
  <2>. QED BY <2>3, <2>4, Numbers DEF Overdue, Gap
<1>. QED BY <1>1, BaseInvariant, PTL

\* A wait starts without a timeout of an earlier wait on the queue, and returns
\* success only if what it waited for has happened.
THEOREM WaitIsHonest == Spec => []WaitHonest
<1>1. BaseInv => WaitHonest BY DEF BaseInv, WaitInv, WaitHonest
<1>. QED BY <1>1, BaseInvariant, PTL

-----------------------------------------------------------------------------
(* The second inductive invariant: nothing is missed *)

\* A work is ahead by no more than the longest delay, or late by no more than
\* the interrupt of the timer is.
Fine(w) == Gap(now, timeout[w]) <= late \/ Gap(timeout[w], now) \in 1 .. Longest

\* While nothing is due and queue_run() is not at work the timer is set, and for
\* no later than the first of the queued works.
ArmedInv ==
  l5 = "idle" /\ ~(irq /\ enabled) /\ queued # {} =>
    /\ enabled /\ cmp # 0 /\ cmp # now
    /\ \A w \in queued : /\ Gap(timeout[w], now) \in 1 .. Longest
                         /\ Gap(cmp, now) <= Gap(timeout[w], now)

AheadInv == l5 = "rearm" => \A w \in queued : Gap(timeout[w], now) \in 1 .. Longest

DueInv ==
  edge = "none" =>
    /\ \A w \in queued : timeout[w] \notin {0, MAX_INT} /\ Fine(w)
    /\ ArmedInv /\ AheadInv
    /\ l5 \in {"check", "run"} => Gap(now, run_ticks) <= late
    /\ pc = "schedule" => comp_timeout = WaitTicks

LEMMA DueInit == Init => DueInv
BY DEF Init, DueInv, ArmedInv, AheadInv

\* Steps that leave the works, the times and the timer alone.
LEMMA DueKept ==
  ASSUME DueInv, UNCHANGED <<timeout, now, late, queued, edge, cmp, irq, enabled>>,
         l5' = l5, run_ticks' = run_ticks,
         pc' = "schedule" => comp_timeout' = WaitTicks
  PROVE  DueInv'
BY DEF DueInv, ArmedInv, AheadInv, Fine

LEMMA DueQuietStep ==
  ASSUME BaseInv, DueInv,
         DmaTick \/ Completed \/ WaitInit \/ WaitZero \/ WaitLoop \/ WaitCheck
  PROVE  DueInv'
<1>1. CASE edge # "none"
  <2>1. edge' = edge BY DEF DmaTick, Completed, WaitInit, WaitZero, WaitLoop, WaitCheck
  <2>. QED BY <1>1, <2>1 DEF DueInv
<1>2. CASE edge = "none"
  <2>1. /\ UNCHANGED <<timeout, now, late, queued, edge, cmp, irq, enabled>>
        /\ l5' = l5 /\ run_ticks' = run_ticks
    BY DEF DmaTick, Completed, WaitInit, WaitZero, WaitLoop, WaitCheck, runVars, timerVars
  <2>2. pc' = "schedule" => comp_timeout' = WaitTicks
    BY <1>2 DEF DueInv, DmaTick, Completed, WaitInit, WaitZero, WaitLoop, WaitCheck,
                MainStep, Wake
  <2>. QED BY <2>1, <2>2, DueKept
<1>. QED BY <1>1, <1>2

LEMMA DueEnterStep ==
  ASSUME BaseInv, DueInv, EnterRun
  PROVE  DueInv'
<1>. SUFFICES ASSUME edge' = "none" PROVE DueInv' BY DEF DueInv
<1>1. /\ UNCHANGED <<timeout, now, late, queued, edge, comp_timeout>>
      /\ run_ticks' = now /\ l5' = "check" /\ (pc' = "schedule" => pc = "schedule")
  BY DEF EnterRun, Wake
<1>2. Gap(now, now) = 0 /\ late \in Nat /\ now \in Time
  BY GapZero, Numbers DEF BaseInv, TypeOK
<1>3. Gap(now', run_ticks') <= late' BY <1>1, <1>2
<1>4. \A w \in queued' : timeout'[w] \notin {0, MAX_INT} /\ Fine(w)'
  BY <1>1 DEF DueInv, Fine
<1>5. ArmedInv' /\ AheadInv' BY <1>1 DEF ArmedInv, AheadInv
<1>6. pc' = "schedule" => comp_timeout' = WaitTicks BY <1>1 DEF DueInv
<1>. QED BY <1>3, <1>4, <1>5, <1>6 DEF DueInv

\* Whatever is late enough is pending, so that what is not is ahead.
LEMMA DueCheckStep ==
  ASSUME BaseInv, DueInv, is_work_pending
  PROVE  DueInv'
<1>. SUFFICES ASSUME edge' = "none" PROVE DueInv' BY DEF DueInv
<1>1. /\ UNCHANGED <<timeout, now, late, queued, edge, comp_timeout, pc, run_ticks>>
      /\ l5 = "check" /\ pending' = {w \in Listed : IsPending(timeout[w])}
      /\ l5' = IF pending' # {} THEN "run" ELSE "rearm"
  BY DEF is_work_pending, waitVars
<1>2. \A w \in queued : timeout[w] \notin {0, MAX_INT} /\ Fine(w) BY <1>1 DEF DueInv
<1>3. Listed = queued /\ queued \subseteq Nodes BY <1>1, ExactSeen DEF BaseInv, TypeOK
<1>4. AheadInv'
  <2>. SUFFICES ASSUME l5' = "rearm", NEW w \in queued
                PROVE  Gap(timeout[w], now) \in 1 .. Longest
    BY <1>1 DEF AheadInv
  <2>1. /\ timeout[w] \in Time /\ now \in Time /\ late \in 0 .. MaxLate
        /\ timeout[w] # MAX_INT /\ Fine(w) /\ ~IsPending(timeout[w])
    BY <1>1, <1>2, <1>3 DEF BaseInv, TypeOK
  <2>2. Gap(now, timeout[w]) > Window /\ Gap(now, timeout[w]) \in 0 .. Wrap - 1
    BY <2>1, PendingMeans, GapIs, Numbers
  <2>3. ~(Gap(now, timeout[w]) <= late) BY <2>1, <2>2, Numbers
  <2>. QED BY <2>1, <2>3 DEF Fine
<1>5. \A w \in queued' : timeout'[w] \notin {0, MAX_INT} /\ Fine(w)'
  BY <1>1, <1>2 DEF Fine
<1>6. ArmedInv' BY <1>1 DEF ArmedInv
<1>7. (l5' \in {"check", "run"} => Gap(now', run_ticks') <= late')
      /\ (pc' = "schedule" => comp_timeout' = WaitTicks)
  BY <1>1 DEF DueInv
<1>. QED BY <1>4, <1>5, <1>6, <1>7 DEF DueInv

\* A work that is to run again is ahead: its period is longer than the time the
\* interrupt takes.
LEMMA DueRunStep ==
  ASSUME BaseInv, DueInv, run_work
  PROVE  DueInv'
<1>1. /\ l5 = "run" /\ l5' \in {"check", "run"}
      /\ UNCHANGED <<now, run_ticks, late, pc>>
      /\ edge' = "none" => edge = "none"
  BY RunCases DEF WrapEdge, TimingEdge
<1>. SUFFICES ASSUME edge' = "none" PROVE DueInv' BY DEF DueInv
<1>2. /\ \A w \in queued : timeout[w] \notin {0, MAX_INT} /\ Fine(w)
      /\ Gap(now, run_ticks) <= late
  BY <1>1 DEF DueInv
<1>3. at \in queued /\ queued \subseteq Nodes BY <1>1 DEF BaseInv, ExactInv, TypeOK
<1>4. \A w \in queued' : timeout'[w] \notin {0, MAX_INT} /\ Fine(w)'
  <2>1. CASE timeout' = timeout /\ queued' \subseteq queued
    BY <1>1, <1>2, <2>1 DEF Fine
  <2>2. CASE SetTimeout(at, run_ticks, Period) /\ WrapEdge(at) /\ queued' = queued
    <3>1. /\ now \in Time /\ run_ticks \in Time /\ late \in 0 .. MaxLate
          /\ timeout \in [Nodes -> Time]
      BY DEF BaseInv, TypeOK
    <3>2. Period \in Nat /\ Period > MaxLate /\ Period < Wrap /\ Period <= Longest
          /\ MaxLate \in Nat /\ Longest \in Nat
      <4>1. Period \in Delays \cup {Period, WaitTicks} OBVIOUS
      <4>. QED BY <4>1, Numbers, LongestIs
    <3>3. Gap(now, run_ticks) \in Nat BY <3>1, GapNat
    <3>4. Gap(now, run_ticks) <= Period BY <1>2, <3>1, <3>2, <3>3
    <3>5. Gap((run_ticks + Period) % Wrap, now) = Period - Gap(now, run_ticks)
      BY <3>1, <3>2, <3>4, GapAdd
    <3>6. Gap((run_ticks + Period) % Wrap, now) \in 1 .. Longest
      BY <1>2, <3>1, <3>2, <3>3, <3>5
    <3>7. PICK x : x = at OBVIOUS
    <3>8. timeout'[x] = (run_ticks + Period) % Wrap /\ timeout'[x] \notin {0, MAX_INT}
          /\ \A w \in queued : w # x => timeout'[w] = timeout[w]
      <4>1. x \in Nodes BY <1>3, <3>7
      <4>2. edge = "none" BY <1>1
      <4>. QED BY <2>2, <3>1, <3>7, <4>1, <4>2 DEF SetTimeout, WrapEdge, TimingEdge
    <3>9. Fine(x)' BY <1>1, <3>6, <3>8 DEF Fine
    <3>10. ASSUME NEW w \in queued, w # x PROVE timeout'[w] \notin {0, MAX_INT} /\ Fine(w)'
      BY <1>1, <1>2, <3>8, <3>10 DEF Fine
    <3>. QED BY <2>2, <3>8, <3>9, <3>10
  <2>. QED BY <2>1, <2>2, RunCases
<1>5. ArmedInv' /\ AheadInv' BY <1>1 DEF ArmedInv, AheadInv
<1>6. pc' = "schedule" => comp_timeout' = WaitTicks
  <2>. SUFFICES ASSUME pc' = "schedule" PROVE comp_timeout' = WaitTicks OBVIOUS
  <2>1. pc = "schedule" /\ comp_timeout = WaitTicks BY <1>1 DEF DueInv
  <2>2. Comp \notin queued BY <2>1 DEF BaseInv, WaitInv
  <2>3. at # Comp BY <1>3, <2>2
  <2>. QED BY <2>1, <2>3, RunCases
<1>. QED BY <1>1, <1>2, <1>4, <1>5, <1>6 DEF DueInv

LEMMA DueTickStep ==
  ASSUME BaseInv, DueInv, Tick
  PROVE  DueInv'
<1>1. /\ UNCHANGED <<next, timeout, cmp, enabled, l5, run_ticks, pc, comp_timeout, queued>>
      /\ now' = (now + 1) % Wrap /\ irq' = (irq \/ (cmp # 0 /\ now' = cmp))
      /\ late' = IF Due THEN late + 1 ELSE 0
      /\ edge' = "none" => /\ edge = "none"
                           /\ l5 = "rearm" => \A w \in Listed : timeout[w] # now'
  BY DEF Tick, TimingEdge, listVars, timerVars, runVars, waitVars
<1>. SUFFICES ASSUME edge' = "none" PROVE DueInv' BY DEF DueInv
<1>2. /\ edge = "none" /\ Listed = queued /\ queued \subseteq Nodes
  BY <1>1, ExactSeen DEF BaseInv, TypeOK
<1>3. /\ now \in Time /\ late \in Nat /\ cmp \in Time /\ run_ticks \in Time
      /\ \A w \in queued : timeout[w] \in Time
  BY <1>2, Numbers DEF BaseInv, TypeOK
<1>4. \A w \in queued : timeout[w] \notin {0, MAX_INT} /\ Fine(w) BY <1>2 DEF DueInv
<1>5. now' \in Time BY <1>1, <1>3, GapTick
<1>6. Longest \in Nat BY LongestIs
\* What is ahead comes nearer; when it is due it is not late.
<1>7. ASSUME NEW w \in queued, Gap(timeout[w], now) \in 1 .. Longest
      PROVE  \/ Gap(timeout[w], now') \in 1 .. Longest
             \/ timeout[w] = now' /\ Gap(now', timeout[w]) = 0
  <2>1. timeout[w] # now
    <3>1. timeout[w] = now => Gap(timeout[w], now) = 0 BY <1>3, GapZero
    <3>. QED BY <1>7, <3>1
  <2>2. /\ Gap(timeout[w], now') = Gap(timeout[w], now) - 1
        /\ Gap(timeout[w], now') = 0 <=> timeout[w] = now'
        /\ Gap(now', timeout[w]) = 0 <=> timeout[w] = now'
    BY <1>1, <1>3, <2>1, GapTick
  <2>. QED BY <1>6, <1>7, <2>2
<1>8. ~Due /\ queued # {} =>
        /\ enabled /\ cmp # 0 /\ cmp # now
        /\ \A w \in queued : /\ Gap(timeout[w], now) \in 1 .. Longest
                             /\ Gap(cmp, now) <= Gap(timeout[w], now)
  BY <1>2 DEF DueInv, ArmedInv, Due
<1>9. ASSUME NEW w \in queued PROVE timeout'[w] \notin {0, MAX_INT} /\ Fine(w)'
  <2>1. /\ Gap(now', timeout[w]) <= Gap(now, timeout[w]) + 1
        /\ Gap(now', timeout[w]) \in Nat /\ Gap(now, timeout[w]) \in Nat
    BY <1>1, <1>3, <1>5, GapTick, GapNat
  <2>2. CASE Gap(timeout[w], now) \in 1 .. Longest
    <3>1. 0 <= late' BY <1>1, <1>3
    <3>. QED BY <1>1, <1>4, <1>7, <2>2, <3>1 DEF Fine
  <2>3. CASE Gap(timeout[w], now) \notin 1 .. Longest
    <3>1. Due BY <1>8, <2>3
    <3>2. Gap(now, timeout[w]) <= late BY <1>4, <2>3 DEF Fine
    <3>3. Gap(now', timeout[w]) <= late' BY <1>1, <1>3, <2>1, <3>1, <3>2
    <3>. QED BY <1>1, <1>4, <3>3 DEF Fine
  <2>. QED BY <2>2, <2>3
\* The timer comes no later than the first work.
<1>10. ArmedInv'
  <2>. SUFFICES ASSUME l5 = "idle", ~(irq' /\ enabled), queued # {}
                PROVE  /\ enabled /\ cmp # 0 /\ cmp # now'
                       /\ \A w \in queued : /\ Gap(timeout[w], now') \in 1 .. Longest
                                            /\ Gap(cmp, now') <= Gap(timeout[w], now')
    BY <1>1 DEF ArmedInv
  <2>1. ~Due BY <1>1 DEF Due
  <2>2. /\ enabled /\ cmp # 0 /\ cmp # now /\ cmp # now'
    BY <1>1, <1>8, <2>1
  <2>3. Gap(cmp, now') = Gap(cmp, now) - 1 /\ Gap(cmp, now') # 0 /\ Gap(cmp, now) \in Nat
        /\ Gap(cmp, now') \in Nat
    <3>1. Gap(cmp, now') = Gap(cmp, now) - 1 BY <1>1, <1>3, <2>2, GapTick
    <3>. QED BY <1>3, <1>5, <2>2, <3>1, GapZero, GapNat
  <2>4. ASSUME NEW w \in queued
        PROVE  /\ Gap(timeout[w], now') \in 1 .. Longest
               /\ Gap(cmp, now') <= Gap(timeout[w], now')
    <3>1. Gap(timeout[w], now) \in 1 .. Longest /\ Gap(cmp, now) <= Gap(timeout[w], now)
      BY <1>8, <2>1
    <3>2. timeout[w] # now
      <4>1. timeout[w] = now => Gap(timeout[w], now) = 0 BY <1>3, GapZero
      <4>. QED BY <3>1, <4>1
    <3>3. Gap(timeout[w], now') = Gap(timeout[w], now) - 1 BY <1>1, <1>3, <3>2, GapTick
    <3>. QED BY <1>6, <2>3, <3>1, <3>3
  <2>. QED BY <2>2, <2>4
<1>11. AheadInv'
  <2>. SUFFICES ASSUME l5 = "rearm", NEW w \in queued
                PROVE  Gap(timeout[w], now') \in 1 .. Longest
    BY <1>1 DEF AheadInv
  <2>1. Gap(timeout[w], now) \in 1 .. Longest BY <1>2 DEF DueInv, AheadInv
  <2>2. timeout[w] # now' BY <1>1, <1>2
  <2>. QED BY <1>7, <2>1, <2>2
<1>12. l5' \in {"check", "run"} => Gap(now', run_ticks') <= late'
  <2>. SUFFICES ASSUME l5 \in {"check", "run"} PROVE Gap(now', run_ticks) <= late'
    BY <1>1
  <2>1. Gap(now, run_ticks) <= late BY <1>2 DEF DueInv
  <2>2. late' = late + 1 BY <1>1 DEF Due
  <2>3. /\ Gap(now', run_ticks) <= Gap(now, run_ticks) + 1
        /\ Gap(now', run_ticks) \in Nat /\ Gap(now, run_ticks) \in Nat
    BY <1>1, <1>3, <1>5, GapTick, GapNat
  <2>. QED BY <1>3, <2>1, <2>2, <2>3
<1>13. pc' = "schedule" => comp_timeout' = WaitTicks BY <1>1, <1>2 DEF DueInv
<1>. QED BY <1>1, <1>9, <1>10, <1>11, <1>12, <1>13 DEF DueInv

\* queue_reschedule() sets the timer for the first of the queued works.
LEMMA TimerSet ==
  ASSUME queue_reschedule, BaseInv', edge' = "none",
         \A w \in queued' : timeout'[w] \notin {0, MAX_INT},
         irq' = FALSE => \A w \in queued' : Gap(timeout'[w], now') \in 1 .. Longest
  PROVE  ArmedInv'
<1>. SUFFICES ASSUME ~(irq' /\ enabled'), queued' # {}
              PROVE  /\ enabled' /\ cmp' # 0 /\ cmp' # now'
                     /\ \A w \in queued' : /\ Gap(timeout'[w], now') \in 1 .. Longest
                                           /\ Gap(cmp', now') <= Gap(timeout'[w], now')
  BY DEF ArmedInv
<1>1. /\ queued' \in SUBSET Nodes /\ timeout' \in [Nodes -> Time] /\ now' \in Time
      /\ irq' \in BOOLEAN
  BY DEF BaseInv, TypeOK
<1>2. PICK r, t : Linked(next', prev', List, queued', r, t) BY DEF BaseInv, ExactInv
<1>3. Ordered(next', List, queued', r, t) BY <1>2 DEF Linked
<1>4. ListedOf(next', List, Count) = queued'
  BY <1>1, <1>2, NodeFacts, LinkedListed DEF Count
<1>5. PICK v \in queued' : /\ Nearest(next', timeout', now') = timeout'[v]
                           /\ \A w \in queued' : Gap(timeout'[v], now') <= Gap(timeout'[w], now')
  BY <1>1, <1>3, <1>4, NearestIs
<1>6. cmp' = timeout'[v] /\ enabled' = TRUE /\ cmp' # 0
  BY <1>5, SameNearest DEF queue_reschedule
<1>7. irq' = FALSE BY <1>1, <1>6
<1>8. \A w \in queued' : Gap(timeout'[w], now') \in 1 .. Longest BY <1>7
<1>9. cmp' # now'
  <2>1. timeout'[v] \in Time /\ Gap(timeout'[v], now') # 0 BY <1>1, <1>8
  <2>. QED BY <1>1, <1>6, <2>1, GapZero
<1>. QED BY <1>5, <1>6, <1>8, <1>9

LEMMA DueRearmStep ==
  ASSUME BaseInv, BaseInv', DueInv, RearmTimer
  PROVE  DueInv'
<1>. SUFFICES ASSUME edge' = "none" PROVE DueInv' BY DEF DueInv
<1>1. /\ UNCHANGED <<timeout, now, queued, edge, pc, comp_timeout>>
      /\ l5 = "rearm" /\ l5' = "idle" /\ queue_reschedule
  BY DEF RearmTimer, waitVars
<1>2. \A w \in queued : /\ timeout[w] \notin {0, MAX_INT}
                        /\ Gap(timeout[w], now) \in 1 .. Longest
  BY <1>1 DEF DueInv, AheadInv
<1>3. ArmedInv' BY <1>1, <1>2, TimerSet
<1>4. \A w \in queued' : timeout'[w] \notin {0, MAX_INT} /\ Fine(w)'
  BY <1>1, <1>2 DEF Fine
<1>5. AheadInv' BY <1>1 DEF AheadInv
<1>6. pc' = "schedule" => comp_timeout' = WaitTicks BY <1>1 DEF DueInv
<1>. QED BY <1>1, <1>3, <1>4, <1>5, <1>6 DEF DueInv

\* A work that is scheduled is ahead by its delay.
LEMMA DueScheduleKeeps ==
  ASSUME BaseInv, BaseInv', DueInv, NEW x \in Nodes, NEW d \in Delays \cup {Period, WaitTicks},
         work_schedule(x, d), UNCHANGED <<irq, late, l5, run_ticks>>, l5 = "idle",
         pc' = "schedule" => comp_timeout' = WaitTicks
  PROVE  DueInv'
<1>. SUFFICES ASSUME edge' = "none" PROVE DueInv' BY DEF DueInv
<1>1. CASE UNCHANGED <<listVars, timeout, timerVars, queued, edge>>
  <2>1. UNCHANGED <<timeout, now, late, queued, edge, cmp, irq, enabled>>
    BY <1>1 DEF timerVars, work_schedule
  <2>. QED BY <2>1, DueKept
<1>2. CASE /\ SetTimeout(x, now, d) /\ queue_reschedule /\ queued' = queued \cup {x}
           /\ WrapEdge(x)
  <2>1. now' = now /\ edge = "none" BY <1>2 DEF work_schedule, WrapEdge, TimingEdge
  <2>2. /\ timeout \in [Nodes -> Time] /\ now \in Time /\ queued \subseteq Nodes
        /\ late \in Nat /\ irq \in BOOLEAN
    BY Numbers DEF BaseInv, TypeOK
  <2>3. /\ timeout'[x] = (now + d) % Wrap /\ timeout'[x] \notin {0, MAX_INT}
        /\ \A w \in Nodes : w # x => timeout'[w] = timeout[w]
    BY <1>2, <2>1, <2>2 DEF SetTimeout, WrapEdge, TimingEdge
  <2>4. Gap(timeout'[x], now') \in 1 .. Longest
    <3>1. /\ d \in Nat /\ d > 0 /\ d < Wrap /\ d <= Longest /\ Longest \in Nat
      BY Numbers, LongestIs
    <3>2. Gap(now, now) = 0 BY <2>2, GapZero
    <3>3. Gap((now + d) % Wrap, now) = d - Gap(now, now) BY <2>2, <3>1, <3>2, GapAdd
    <3>. QED BY <2>1, <2>3, <3>1, <3>2, <3>3
  <2>5. \A w \in queued : timeout[w] \notin {0, MAX_INT} /\ Fine(w) BY <2>1 DEF DueInv
  <2>6. ASSUME NEW w \in queued' PROVE timeout'[w] \notin {0, MAX_INT} /\ Fine(w)'
    <3>1. CASE w = x BY <2>3, <2>4, <3>1 DEF Fine
    <3>2. CASE w # x
      <4>1. w \in queued /\ timeout'[w] = timeout[w] BY <1>2, <2>2, <2>3, <3>2
      <4>. QED BY <2>1, <2>5, <4>1 DEF Fine
    <3>. QED BY <3>1, <3>2
  <2>7. ASSUME irq' = FALSE, NEW w \in queued'
        PROVE  Gap(timeout'[w], now') \in 1 .. Longest
    <3>1. CASE w = x BY <2>4, <3>1
    <3>2. CASE w # x
      <4>1. w \in queued /\ timeout'[w] = timeout[w] BY <1>2, <2>2, <2>3, <3>2
      <4>2. Gap(timeout[w], now) \in 1 .. Longest BY <2>1, <2>7, <4>1 DEF DueInv, ArmedInv
      <4>. QED BY <2>1, <4>1, <4>2
    <3>. QED BY <3>1, <3>2
  <2>8. ArmedInv' BY <1>2, <2>6, <2>7, TimerSet
  <2>9. AheadInv' BY DEF AheadInv
  <2>. QED BY <2>6, <2>8, <2>9 DEF DueInv
<1>. QED BY <1>1, <1>2 DEF work_schedule

LEMMA DueCancelStep ==
  ASSUME BaseInv, BaseInv', DueInv, WaitCancel
  PROVE  DueInv'
<1>. SUFFICES ASSUME edge' = "none" PROVE DueInv' BY DEF DueInv
<1>1. /\ l5 = "idle" /\ l5' = "idle" /\ pc' = "idle"
      /\ UNCHANGED <<now, timeout, irq, late>> /\ queued' = queued \ {Comp}
      /\ queue_reschedule /\ edge = "none"
  BY DEF WaitCancel, MainStep, work_cancel, runVars
<1>2. \A w \in queued' : timeout'[w] \notin {0, MAX_INT} /\ Fine(w)'
  BY <1>1 DEF DueInv, Fine
<1>3. irq' = FALSE => \A w \in queued' : Gap(timeout'[w], now') \in 1 .. Longest
  BY <1>1 DEF DueInv, ArmedInv
<1>4. ArmedInv' BY <1>1, <1>2, <1>3, TimerSet
<1>5. AheadInv' BY <1>1 DEF AheadInv
<1>. QED BY <1>1, <1>2, <1>4, <1>5 DEF DueInv

LEMMA DueNext == BaseInv /\ DueInv /\ BaseInv' /\ [Next]_vars => DueInv'
<1>. SUFFICES ASSUME BaseInv, DueInv, BaseInv', [Next]_vars PROVE DueInv' OBVIOUS
<1>1. CASE Level5
  BY <1>1, DueEnterStep, DueCheckStep, DueRunStep, DueRearmStep DEF Level5
<1>2. CASE DmaTick \/ Completed \/ WaitInit BY <1>2, DueQuietStep
<1>3. CASE Tick BY <1>3, DueTickStep
<1>4. ASSUME NEW x \in Works, NEW d \in Delays, Schedule(x, d) PROVE DueInv'
  <2>1. /\ l5 = "idle" /\ work_schedule(x, d) /\ pc' = "idle"
        /\ UNCHANGED <<irq, late, l5, run_ticks>>
    BY <1>4 DEF Schedule, runVars, waitVars
  <2>2. x \in Nodes /\ d \in Delays \cup {Period, WaitTicks} BY NodeFacts
  <2>. QED BY <2>1, <2>2, DueScheduleKeeps
<1>5. CASE Wait
  <2>1. CASE WaitSchedule
    <3>. SUFFICES ASSUME edge' = "none" PROVE DueInv' BY DEF DueInv
    <3>1. /\ l5 = "idle" /\ pc = "schedule" /\ work_schedule(Comp, comp_timeout)
          /\ pc' = "zero" /\ UNCHANGED <<irq, late, l5, run_ticks>>
      BY <2>1 DEF WaitSchedule, MainStep, runVars
    <3>2. edge = "none" BY <3>1 DEF work_schedule, WrapEdge, TimingEdge
    <3>3. comp_timeout = WaitTicks BY <3>1, <3>2 DEF DueInv
    <3>4. comp_timeout \in Delays \cup {Period, WaitTicks} BY <3>3
    <3>. QED BY <3>1, <3>4, NodeFacts, DueScheduleKeeps
  <2>2. CASE WaitCancel BY <2>2, DueCancelStep
  <2>3. CASE WaitZero \/ WaitLoop \/ WaitCheck BY <2>3, DueQuietStep
  <2>. QED BY <1>5, <2>1, <2>2, <2>3 DEF Wait
<1>6. CASE UNCHANGED vars
  <2>1. /\ UNCHANGED <<timeout, now, late, queued, edge, cmp, irq, enabled>>
        /\ l5' = l5 /\ run_ticks' = run_ticks /\ pc' = pc /\ comp_timeout' = comp_timeout
    BY <1>6 DEF vars, timerVars, runVars, waitVars
  <2>2. CASE edge # "none" BY <2>1, <2>2 DEF DueInv
  <2>3. CASE edge = "none"
    <3>1. pc' = "schedule" => comp_timeout' = WaitTicks BY <2>1, <2>3 DEF DueInv
    <3>. QED BY <2>1, <3>1, DueKept
  <2>. QED BY <2>2, <2>3
<1>. QED BY <1>1, <1>2, <1>3, <1>4, <1>5, <1>6 DEF Next

-----------------------------------------------------------------------------
(* Theorems about time *)

\* The second inductive invariant.
THEOREM DueInvariant == Spec => []DueInv
<1>. QED BY BaseInvariant, DueInit, DueNext, PTL DEF Spec

\* No work is ever missed: for as long as none of the rare events is met, every
\* queued work is ahead or late by no more than the interrupt of the timer is.
\* One that fell behind would wait for the counter to wrap.
THEOREM NoneIsMissed == Spec => []NoneMissed
<1>1. BaseInv /\ DueInv => NoneMissed
  <2>. SUFFICES ASSUME BaseInv, DueInv, edge = "none", NEW w \in queued
                PROVE  Overdue(w) <= MaxLate \/ Ahead(w) <= Longest
    BY DEF NoneMissed
  <2>1. Fine(w) /\ w \in Nodes BY DEF DueInv, BaseInv, TypeOK
  <2>2. /\ timeout[w] \in Time /\ now \in Time /\ late \in 0 .. MaxLate
    BY <2>1 DEF BaseInv, TypeOK
  <2>3. Gap(now, timeout[w]) \in Nat /\ Longest \in Nat /\ MaxLate \in Nat
    BY <2>2, GapNat, LongestIs, Numbers
  <2>. QED BY <2>1, <2>2, <2>3 DEF Fine, Overdue, Ahead, Gap
<1>. QED BY <1>1, BaseInvariant, DueInvariant, PTL
=============================================================================

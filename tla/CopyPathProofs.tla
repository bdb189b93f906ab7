--------------------------- MODULE CopyPathProofs ---------------------------
(***************************************************************************)
(* Proofs about CopyPath, for every size of period, page and ring.         *)
(***************************************************************************)
EXTENDS CopyPath, TLAPS

-----------------------------------------------------------------------------
(* Arithmetic *)

\* The ends of the elements that make up a buffer: n elements of z bytes.
Ends(n, z) == {k * z : k \in 1 .. n}

\* Multiples grow with their factor.
LEMMA Monotone ==
  ASSUME NEW z \in Nat \ {0}, NEW j \in Nat, NEW k \in Nat
  PROVE  /\ j * z \in Nat
         /\ j < k => j * z + z <= k * z
         /\ j * z < k * z => j < k
<1>1. j * z \in Nat OBVIOUS
<1>2. j < k => j * z + z <= k * z
  <2>. SUFFICES ASSUME j < k PROVE j * z + z <= k * z OBVIOUS
  <2>1. PICK m \in Nat : k = j + 1 + m
    <3>1. k - j - 1 \in Nat OBVIOUS
    <3>. QED BY <3>1
  <2>2. k * z = j * z + z + m * z BY <2>1
  <2>3. m * z >= 0 OBVIOUS
  <2>. QED BY <1>1, <2>2, <2>3
<1>3. j * z < k * z => j < k
  <2>. SUFFICES ASSUME j >= k PROVE j * z >= k * z OBVIOUS
  <2>1. PICK m \in Nat : j = k + m
    <3>1. j - k \in Nat OBVIOUS
    <3>. QED BY <3>1
  <2>2. j * z = k * z + m * z BY <2>1
  <2>3. m * z >= 0 OBVIOUS
  <2>. QED BY <2>2, <2>3
<1>. QED BY <1>1, <1>2, <1>3

\* Elements lie within the buffer; after one that ends within it comes another
\* whole one, after the last comes the first.
LEMMA EndsFacts ==
  ASSUME NEW n \in Nat \ {0}, NEW z \in Nat \ {0}
  PROVE  /\ n * z \in Nat /\ z <= n * z
         /\ z \in Ends(n, z) /\ n * z \in Ends(n, z)
         /\ \A e \in Ends(n, z) :
              /\ e \in Nat /\ z <= e /\ e <= n * z
              /\ e < n * z => e + z <= n * z
              /\ WrapPtr(e, n * z) + z \in Ends(n, z)
              /\ e # z => e - z \in Ends(n, z)
<1>0. n * z \in Nat /\ z <= n * z BY Monotone
<1>1. z \in Ends(n, z)
  <2>1. z = 1 * z OBVIOUS
  <2>. QED BY <2>1 DEF Ends
<1>3. n * z \in Ends(n, z) BY DEF Ends
<1>2. ASSUME NEW e \in Ends(n, z)
      PROVE  /\ e \in Nat /\ z <= e /\ e <= n * z
             /\ e < n * z => e + z <= n * z
             /\ WrapPtr(e, n * z) + z \in Ends(n, z)
             /\ e # z => e - z \in Ends(n, z)
  <2>1. PICK k \in 1 .. n : e = k * z BY <1>2 DEF Ends
  <2>2. e \in Nat /\ z <= e
    <3>1. 0 * z + z <= k * z BY Monotone
    <3>. QED BY <2>1, <3>1, Monotone
  <2>3. e <= n * z
    <3>1. CASE k = n BY <2>1, <3>1, <1>0
    <3>2. CASE k < n BY <2>1, <2>2, <3>2, <1>0, Monotone
    <3>. QED BY <3>1, <3>2
  <2>4. e < n * z => k < n BY <2>1, Monotone
  <2>5. k < n => e + z <= n * z BY <2>1, Monotone
  <2>6. k < n => e + z \in Ends(n, z)
    <3>. SUFFICES ASSUME k < n PROVE e + z \in Ends(n, z) OBVIOUS
    <3>1. PICK j \in 1 .. n : j = k + 1 OBVIOUS
    <3>2. e + z = j * z BY <2>1, <3>1
    <3>. QED BY <3>2 DEF Ends
  <2>7. WrapPtr(e, n * z) + z \in Ends(n, z)
    <3>1. CASE e < n * z BY <2>2, <1>0, <2>4, <2>6, <3>1 DEF WrapPtr
    <3>2. CASE e >= n * z BY <1>0, <1>1, <2>2, <3>2 DEF WrapPtr
    <3>. QED BY <3>1, <3>2, <1>0, <2>2
  <2>8. e # z => e - z \in Ends(n, z)
    <3>. SUFFICES ASSUME e # z PROVE e - z \in Ends(n, z) OBVIOUS
    <3>1. k # 1 BY <2>1
    <3>2. PICK j \in 1 .. n : k = j + 1
      <4>1. k - 1 \in 1 .. n BY <3>1
      <4>. QED BY <4>1
    <3>3. e - z = j * z
      <4>1. k * z = j * z + z BY <3>2
      <4>2. j * z \in Nat BY Monotone
      <4>. QED BY <2>1, <4>1, <4>2
    <3>. QED BY <3>3 DEF Ends
  <2>. QED BY <2>2, <2>3, <2>4, <2>5, <2>7, <2>8
<1>. QED BY <1>0, <1>1, <1>2, <1>3

\* Remainders of the values the proofs meet.
LEMMA ModFacts ==
  ASSUME NEW n \in Nat \ {0}
  PROVE  /\ 0 % n = 0 /\ (-n) % n = 0
         /\ \A k \in Int : (k * n) % n = 0
<1>1. \A k \in Int : (k * n) % n = 0
  OBVIOUS
<1>. QED BY <1>1

PageEnds == Ends(Pages, PageSize)
HostEnds == Ends(HostPeriods, Period)
DaiEnds  == Ends(DaiPeriods, Period)

\* Whole periods.
Multiple(x) == \E k \in Int : x = k * Period

LEMMA Multiples ==
  ASSUME NEW x \in Int, NEW y \in Int, Multiple(x), Multiple(y)
  PROVE  Multiple(x + y) /\ Multiple(x - y)
<1>0. Period \in Nat \ {0} BY CopyConstants
<1>1. PICK j \in Int : x = j * Period BY DEF Multiple
<1>2. PICK k \in Int : y = k * Period BY DEF Multiple
<1>3. x + y = (j + k) * Period /\ x - y = (j - k) * Period BY <1>0, <1>1, <1>2
<1>4. j + k \in Int /\ j - k \in Int OBVIOUS
<1>. QED BY <1>3, <1>4 DEF Multiple

\* Multiples as the properties state them.
LEMMA MultipleMod ==
  ASSUME NEW x \in Int
  PROVE  Multiple(x) <=> x % Period = 0
<1>0. Period \in Nat \ {0} BY CopyConstants
<1>1. Multiple(x) => x % Period = 0 BY <1>0, ModFacts DEF Multiple
<1>2. x % Period = 0 => Multiple(x)
  <2>. SUFFICES ASSUME x % Period = 0 PROVE Multiple(x) OBVIOUS
  <2>1. x = (x \div Period) * Period /\ x \div Period \in Int BY <1>0
  <2>. QED BY <2>1 DEF Multiple
<1>. QED BY <1>1, <1>2

\* What the proofs need of the sizes.
LEMMA Sizes ==
  /\ Period \in Nat \ {0} /\ PageSize \in Nat \ {0} /\ Period <= PageSize
  /\ HostSize \in Nat /\ LocalSize \in Nat /\ DaiSize \in Nat
  /\ PageSize <= HostSize /\ 2 * Period <= LocalSize
  /\ DaiSize = 2 * Period \/ DaiSize >= 3 * Period
  /\ Multiple(HostSize) /\ Multiple(LocalSize)
<1>1. /\ Period \in Nat \ {0} /\ PageSize \in Nat \ {0} /\ Period <= PageSize
      /\ Pages \in Nat \ {0} /\ HostPeriods \in Nat \ {0, 1}
      /\ DaiPeriods \in Nat \ {0, 1}
  BY CopyConstants DEF CopyConstants
<1>2. HostSize \in Nat /\ LocalSize \in Nat /\ DaiSize \in Nat
  BY <1>1, EndsFacts DEF HostSize, LocalSize, DaiSize
<1>3. PageSize <= HostSize BY <1>1, EndsFacts DEF HostSize
<1>4. 2 * Period <= LocalSize
  <2>1. 1 * Period + Period <= HostPeriods * Period BY <1>1, Monotone
  <2>. QED BY <1>1, <1>2, <2>1 DEF LocalSize
<1>5. DaiSize = 2 * Period \/ DaiSize >= 3 * Period
  <2>1. CASE DaiPeriods = 2 BY <2>1 DEF DaiSize
  <2>2. CASE DaiPeriods > 2
    <3>1. 2 * Period + Period <= DaiPeriods * Period BY <1>1, <2>2, Monotone
    <3>. QED BY <1>1, <1>2, <3>1 DEF DaiSize
  <2>. QED BY <1>1, <2>1, <2>2
<1>6. Multiple(HostSize)
  BY <1>2, CopyConstants, MultipleMod DEF CopyConstants
<1>7. Multiple(LocalSize) BY <1>1 DEF Multiple, LocalSize
<1>. QED BY <1>1, <1>2, <1>3, <1>4, <1>5, <1>6, <1>7

\* Where elements end.
LEMMA Ended ==
  /\ \A e \in PageEnds : /\ e \in Nat /\ PageSize <= e /\ e <= HostSize
                         /\ e < HostSize => e + PageSize <= HostSize
                         /\ WrapPtr(e, HostSize) + PageSize \in PageEnds
  /\ \A e \in HostEnds : /\ e \in Nat /\ Period <= e /\ e <= LocalSize
                         /\ e < LocalSize => e + Period <= LocalSize
                         /\ WrapPtr(e, LocalSize) + Period \in HostEnds
  /\ \A e \in DaiEnds : /\ e \in Nat /\ Period <= e /\ e <= DaiSize
                        /\ e < DaiSize => e + Period <= DaiSize
                        /\ WrapPtr(e, DaiSize) + Period \in DaiEnds
                        /\ e # Period => e - Period \in DaiEnds
  /\ PageSize \in PageEnds /\ Period \in HostEnds /\ Period \in DaiEnds
  /\ DaiSize \in DaiEnds
<1>1. /\ Period \in Nat \ {0} /\ PageSize \in Nat \ {0}
      /\ Pages \in Nat \ {0} /\ HostPeriods \in Nat \ {0}
      /\ DaiPeriods \in Nat \ {0}
  BY CopyConstants DEF CopyConstants
<1>2. /\ PageSize \in PageEnds
      /\ \A e \in PageEnds : /\ e \in Nat /\ PageSize <= e /\ e <= HostSize
                             /\ e < HostSize => e + PageSize <= HostSize
                             /\ WrapPtr(e, HostSize) + PageSize \in PageEnds
  BY <1>1, EndsFacts DEF PageEnds, HostSize
<1>3. /\ Period \in HostEnds
      /\ \A e \in HostEnds : /\ e \in Nat /\ Period <= e /\ e <= LocalSize
                             /\ e < LocalSize => e + Period <= LocalSize
                             /\ WrapPtr(e, LocalSize) + Period \in HostEnds
  BY <1>1, EndsFacts DEF HostEnds, LocalSize
<1>4. /\ Period \in DaiEnds /\ DaiSize \in DaiEnds
      /\ \A e \in DaiEnds : /\ e \in Nat /\ Period <= e /\ e <= DaiSize
                            /\ e < DaiSize => e + Period <= DaiSize
                            /\ WrapPtr(e, DaiSize) + Period \in DaiEnds
                            /\ e # Period => e - Period \in DaiEnds
  BY <1>1, EndsFacts DEF DaiEnds, DaiSize
<1>. QED BY <1>2, <1>3, <1>4

\* The target of a transfer is a whole number of periods when it is at the
\* start of an element.
LEMMA EndsMultiple == \A e \in HostEnds : Multiple(e)
BY CopyConstants DEF CopyConstants, HostEnds, Ends, Multiple

-----------------------------------------------------------------------------
(* Rings *)

Buffers == [w_ptr : Nat, r_ptr : Nat, avail : Int, free : Int]

\* A pointer that is put back at the end of its ring stays in it.
LEMMA WrapFacts ==
  ASSUME NEW p \in Nat, NEW n \in Nat \ {0}
  PROVE  WrapPtr(p, n) \in Nat /\ WrapPtr(p, n) < n
BY DEF WrapPtr

\* The updates move no pointer; what they find is not negative as long as
\* the read pointer is in the ring.
LEMMA Updates ==
  ASSUME NEW b \in Buffers, NEW n \in Nat \ {0}
  PROVE  /\ \A c \in {comp_update_buffer_produce(b, n),
                      comp_update_buffer_consume(b, n)} :
              /\ c \in Buffers /\ c.w_ptr = b.w_ptr /\ c.r_ptr = b.r_ptr
              /\ b.r_ptr < n => c.avail >= 0
              /\ b.r_ptr # b.w_ptr => c.avail = Between(b, n)
         /\ b.r_ptr = b.w_ptr => /\ comp_update_buffer_produce(b, n).avail = n
                                 /\ comp_update_buffer_consume(b, n).avail = 0
         /\ \A a \in Int : /\ SetAvail(b, a, n) \in Buffers
                           /\ SetAvail(b, a, n).w_ptr = b.w_ptr
                           /\ SetAvail(b, a, n).r_ptr = b.r_ptr
                           /\ SetAvail(b, a, n).avail = a
<1>1. ASSUME NEW a \in Int
      PROVE  /\ SetAvail(b, a, n) \in Buffers
             /\ SetAvail(b, a, n).w_ptr = b.w_ptr
             /\ SetAvail(b, a, n).r_ptr = b.r_ptr
             /\ SetAvail(b, a, n).avail = a
  <2>1. n - a \in Int OBVIOUS
  <2>2. \A m \in Int : /\ [b EXCEPT !.avail = a, !.free = m] \in Buffers
                       /\ [b EXCEPT !.avail = a, !.free = m].w_ptr = b.w_ptr
                       /\ [b EXCEPT !.avail = a, !.free = m].r_ptr = b.r_ptr
                       /\ [b EXCEPT !.avail = a, !.free = m].avail = a
    BY DEF Buffers
  <2>. QED BY <2>1, <2>2 DEF SetAvail
<1>2. /\ Between(b, n) \in Int
      /\ (b.r_ptr < n /\ b.r_ptr # b.w_ptr) => Between(b, n) >= 0
  BY DEF Between, Buffers
<1>3. \A m \in {0, n} :
        /\ (IF b.r_ptr = b.w_ptr THEN m ELSE Between(b, n)) \in Int
        /\ b.r_ptr < n => (IF b.r_ptr = b.w_ptr THEN m ELSE Between(b, n)) >= 0
  BY <1>2
<1>4. /\ comp_update_buffer_produce(b, n) =
           SetAvail(b, IF b.r_ptr = b.w_ptr THEN n ELSE Between(b, n), n)
      /\ comp_update_buffer_consume(b, n) =
           SetAvail(b, IF b.r_ptr = b.w_ptr THEN 0 ELSE Between(b, n), n)
  BY DEF comp_update_buffer_produce, comp_update_buffer_consume
<1>. QED BY <1>1, <1>3, <1>4

\* Setting a pointer.
LEMMA SetPtr ==
  ASSUME NEW b \in Buffers, NEW p \in Nat
  PROVE  /\ [b EXCEPT !.w_ptr = p] \in Buffers
         /\ [b EXCEPT !.w_ptr = p].w_ptr = p
         /\ [b EXCEPT !.w_ptr = p].r_ptr = b.r_ptr
         /\ [b EXCEPT !.w_ptr = p].avail = b.avail
         /\ [b EXCEPT !.r_ptr = p] \in Buffers
         /\ [b EXCEPT !.r_ptr = p].r_ptr = p
         /\ [b EXCEPT !.r_ptr = p].w_ptr = b.w_ptr
         /\ [b EXCEPT !.r_ptr = p].avail = b.avail
         /\ [b EXCEPT !.w_ptr = p, !.r_ptr = p] \in Buffers
         /\ [b EXCEPT !.w_ptr = p, !.r_ptr = p].w_ptr = p
         /\ [b EXCEPT !.w_ptr = p, !.r_ptr = p].r_ptr = p
         /\ [b EXCEPT !.w_ptr = p, !.r_ptr = p].avail = b.avail
BY DEF Buffers

LEMMA Empty ==
  ASSUME NEW n \in Nat
  PROVE  /\ EmptyBuffer(n) \in Buffers /\ EmptyBuffer(n).w_ptr = 0
         /\ EmptyBuffer(n).r_ptr = 0 /\ EmptyBuffer(n).avail = 0
BY DEF EmptyBuffer, Buffers

-----------------------------------------------------------------------------
(* The inductive invariant *)

Whole  == "cut" \notin upset
Timely == upset \cap {"late", "cut", "stale"} = {}

\* The stream was started and not stopped.
On == state \in {"RUNNING", "PAUSED"}

\* The commands, the state of the components and of the channel, and the task.
Control ==
  /\ state = "INIT" <=> dai = "INIT"
  /\ state # "INIT" => linked
  /\ ipc = "stopping" => state = "SETUP"
  /\ ipc \in {"pause_volume", "pause_dai"} => state = "PAUSED"
  /\ ipc \in {"release_volume", "release_dai"} => state = "RUNNING"
  /\ task \notin {"none", "queued"} => VolState = "RUNNING"
  /\ task = "wait" => state = "RUNNING"
  /\ chan # "idle" <=> dai \in {"RUNNING", "PAUSED"}
  /\ chan # "idle" => On \/ ipc = "stopping"

\* A transfer never passes the end of an element, whatever happened.
ElemInv ==
  linked =>
    /\ src_end \in PageEnds /\ src_end - PageSize <= src
    /\ dest_end \in HostEnds /\ dest_end - Period <= dest
    /\ size >= 1 /\ src + size <= src_end /\ dest + size <= dest_end

\* Pointers are in their rings, but for those that volume_scale moved.
RingInv ==
  /\ hbuf.w_ptr < LocalSize /\ dbuf.r_ptr < DaiSize
  /\ task # "wrap" => hbuf.r_ptr < LocalSize
  /\ task \notin {"wrap", "produce", "store"} => hbuf.avail >= 0

\* The host component of a stream that is not on.
HostAtRest ==
  (linked /\ ~On /\ Whole) =>
    /\ ~xfer /\ src = 0 /\ src_end = PageSize /\ dest = 0 /\ dest_end = Period
    /\ size = Period
    /\ state = "PREPARE" => /\ split_remaining = 0 /\ local_pos = 0
                            /\ hbuf.w_ptr = 0 /\ hbuf.r_ptr = 0

\* The host component of a stream that is on: what is left of the period is
\* this transfer and the rest of the split.
HostRuns ==
  (On /\ Whole) =>
    /\ dest_end - dest = size + split_remaining
    /\ Multiple(src - dest)
    /\ src = local_pos /\ dest = hbuf.w_ptr
    /\ xfer => ~complete
    /\ ~xfer => dest_end - dest = Period

\* Its ring, while no wait timed out: it holds a period from the end of the
\* host's transfer to the end of the volume component's copy.  The copy that a
\* pause lets the volume component begin alone finds nothing to read.
HostRing ==
  (On /\ Timely) =>
    /\ xfer <=> (task = "wait" /\ ~complete)
    /\ task \in {"none", "queued", "produce", "store"} => hbuf.r_ptr = dest
    /\ (task = "volume" /\ state = "PAUSED") => hbuf.r_ptr = dest
    /\ xfer => hbuf.r_ptr = dest_end - Period
    /\ ((task = "volume" /\ state = "RUNNING") \/ (task = "wait" /\ complete)) =>
         /\ hbuf.r_ptr + Period \in HostEnds
         /\ dest = WrapPtr(hbuf.r_ptr + Period, LocalSize)
         /\ hbuf.avail = Period
    /\ task = "wrap" => /\ hbuf.r_ptr \in HostEnds
                        /\ dest = WrapPtr(hbuf.r_ptr, LocalSize)

\* The volume component writes whole periods.
DaiWrites ==
  /\ ~On => dbuf.w_ptr = 0
  /\ (On /\ Timely) =>
       /\ task = "wrap" => dbuf.w_ptr \in DaiEnds
       /\ task # "wrap" => dbuf.w_ptr + Period \in DaiEnds

\* The DAI reads whole periods, where its channel does or, once it is released,
\* will.
DaiReads ==
  /\ (state = "INIT" \/ upset = {}) => last_bytes = 0
  /\ (upset = {} /\ linked /\ ~On) => dbuf.r_ptr = 0
  /\ (upset = {} /\ On /\ chan # "idle") =>
       /\ dbuf.r_ptr + Period \in DaiEnds
       /\ dbuf.r_ptr = IF chan = "paused" THEN WrapPtr(hw + Period, DaiSize) ELSE hw

\* The DAI's ring holds whole periods, as many as the pointers say, and there
\* is room for the period that the task is bringing.
DaiRing ==
  (upset = {} /\ On /\ chan # "idle" /\ fault = "none") =>
    /\ lead \in DaiEnds
    /\ dbuf.r_ptr + lead \in {dbuf.w_ptr, dbuf.w_ptr + DaiSize}
    /\ (task = "none" /\ lead < DaiSize) => dbuf.avail = lead
    /\ task \in {"queued", "wait", "volume"} =>
         lead + Period <= DaiSize /\ dbuf.avail = lead
    /\ task \in {"wrap", "produce", "store"} => lead >= 2 * Period
    /\ task = "store" => avail = lead

CopyInv ==
  /\ TypeOK /\ Control /\ ElemInv /\ RingInv /\ HostAtRest /\ HostRuns
  /\ HostRing /\ DaiWrites /\ DaiReads /\ DaiRing

\* The rings have the type of the lemmas.
LEMMA BufferTypes ==
  TypeOK <=>
    /\ hbuf \in Buffers /\ dbuf \in Buffers
    /\ state \in States /\ dai \in States /\ ipc \in Stages
    /\ chan \in {"idle", "running", "pausing", "paused"}
    /\ linked \in BOOLEAN /\ xfer \in BOOLEAN /\ complete \in BOOLEAN
    /\ src \in 0 .. HostSize /\ src_end \in 0 .. HostSize
    /\ dest \in 0 .. LocalSize /\ dest_end \in 0 .. LocalSize
    /\ size \in 0 .. Period /\ split_remaining \in 0 .. Period
    /\ local_pos \in 0 .. HostSize /\ last_bytes \in 0 .. Period
    /\ hw \in 0 .. DaiSize
    /\ task \in {"none", "queued", "wait", "volume", "wrap", "produce", "store"}
    /\ cframes \in Nat /\ avail \in Int /\ lead \in Int
    /\ upset \subseteq Events /\ fault \in {"none", "overrun", "null"}
BY DEF TypeOK, Buffers

-----------------------------------------------------------------------------
(* Commands *)

\* An empty ring, nothing under way.
LEMMA InitInv == Init => CopyInv
<1>. SUFFICES ASSUME Init PROVE CopyInv OBVIOUS
<1>. USE Sizes DEF Init
<1>1. /\ hbuf \in Buffers /\ hbuf.w_ptr = 0 /\ hbuf.r_ptr = 0 /\ hbuf.avail = 0
      /\ dbuf \in Buffers /\ dbuf.w_ptr = 0 /\ dbuf.r_ptr = 0
  BY Empty
<1>2. TypeOK
  <2>1. \A n \in Nat : 0 \in 0 .. n OBVIOUS
  <2>. QED BY <1>1, <2>1 DEF TypeOK, Buffers, States, Stages
<1>3. RingInv BY <1>1 DEF RingInv
<1>4. DaiWrites BY <1>1 DEF DaiWrites, On
<1>5. Control /\ ElemInv /\ HostAtRest /\ HostRuns /\ HostRing /\ DaiReads /\ DaiRing
  BY DEF Control, ElemInv, HostAtRest, HostRuns, HostRing, DaiReads, DaiRing,
         VolState, On
<1>. QED BY <1>2, <1>3, <1>4, <1>5 DEF CopyInv

\* pipeline_params() preserves the invariant.
LEMMA ParamsStep == CopyInv /\ params => CopyInv'
<1>. SUFFICES ASSUME CopyInv, params PROVE CopyInv' OBVIOUS
<1>. USE Sizes DEF CopyInv, On, VolState, params, MainLoop, host_elements_reset, taskVars
<1>1. hbuf \in Buffers /\ dbuf \in Buffers BY BufferTypes
<1>2. /\ hbuf' \in Buffers /\ hbuf'.w_ptr = 0 /\ hbuf'.r_ptr = 0
      /\ hbuf'.avail = hbuf.avail
      /\ dbuf' \in Buffers /\ dbuf'.w_ptr = 0 /\ dbuf'.r_ptr = 0
  <2>1. 0 \in Nat OBVIOUS
  <2>. QED BY <1>1, <2>1, SetPtr
<1>3. TypeOK'
  <2>1. upset' \subseteq Events BY DEF Events
  <2>. QED BY <1>2, <2>1 DEF TypeOK, Buffers
<1>4. Control' BY DEF Control
<1>5. ElemInv' BY Ended DEF ElemInv
<1>6. RingInv' BY <1>2 DEF RingInv
<1>7. HostAtRest' BY DEF HostAtRest, Whole
<1>8. HostRuns' /\ HostRing' /\ DaiRing' BY DEF HostRuns, HostRing, DaiRing
<1>9. DaiWrites' BY <1>2 DEF DaiWrites
<1>10. DaiReads' BY <1>2 DEF DaiReads
<1>. QED BY <1>3, <1>4, <1>5, <1>6, <1>7, <1>8, <1>9, <1>10

\* So does pipeline_prepare().
LEMMA PrepareStep == CopyInv /\ prepare => CopyInv'
<1>. SUFFICES ASSUME CopyInv, prepare PROVE CopyInv' OBVIOUS
<1>. USE Sizes DEF CopyInv, On, VolState, prepare, MainLoop, host_prepare, taskVars
<1>1. hbuf \in Buffers BY BufferTypes
<1>2. /\ hbuf' \in Buffers /\ hbuf'.w_ptr = 0 /\ hbuf'.r_ptr = 0
      /\ hbuf'.avail = hbuf.avail
  BY <1>1, SetPtr
<1>3. TypeOK' BY <1>2 DEF TypeOK, Buffers, States
<1>4. Control' BY DEF Control
<1>5. ElemInv' BY DEF ElemInv
<1>6. RingInv' BY <1>2 DEF RingInv
<1>7. HostAtRest' BY <1>2 DEF HostAtRest, Whole
<1>8. HostRuns' /\ HostRing' /\ DaiRing' BY DEF HostRuns, HostRing, DaiRing
<1>9. DaiWrites' BY DEF DaiWrites
<1>10. DaiReads' BY DEF DaiReads
<1>. QED BY <1>3, <1>4, <1>5, <1>6, <1>7, <1>8, <1>9, <1>10

\* A start finds the host component at its first transfer and both rings at
\* their first byte.
LEMMA StartStep == CopyInv /\ start => CopyInv'
<1>. SUFFICES ASSUME CopyInv, start PROVE CopyInv' OBVIOUS
<1>. USE Sizes, Ended DEF CopyInv, On, VolState, start, MainLoop, hostVars, taskVars
<1>1. /\ hbuf \in Buffers /\ dbuf \in Buffers /\ dbuf.w_ptr = 0 /\ linked
      /\ Between(dbuf, DaiSize) \in Int
  BY BufferTypes DEF Control, DaiWrites, Between, Buffers
<1>2. TypeOK' BY <1>1 DEF TypeOK, States
<1>3. Control' /\ ElemInv' /\ RingInv' BY DEF Control, ElemInv, RingInv
<1>4. HostAtRest' BY DEF HostAtRest
<1>5. HostRuns'
  <2>1. Whole => /\ src = 0 /\ dest = 0 /\ dest_end = Period /\ size = Period
                 /\ split_remaining = 0 /\ local_pos = 0 /\ hbuf.w_ptr = 0
                 /\ ~xfer
    BY <1>1 DEF HostAtRest
  <2>2. Multiple(0) BY DEF Multiple
  <2>. QED BY <2>1, <2>2 DEF HostRuns, Whole
<1>6. HostRing' BY <1>1 DEF HostRing, HostAtRest, Timely, Whole
<1>7. DaiWrites' BY <1>1 DEF DaiWrites
<1>8. DaiReads' BY <1>1 DEF DaiReads
<1>9. DaiRing' BY <1>1 DEF DaiRing, DaiReads
<1>. QED BY <1>2, <1>3, <1>4, <1>5, <1>6, <1>7, <1>8, <1>9

\* host_stop() resets the elements and empties both rings.
LEMMA StopHostStep == CopyInv /\ stop_host => CopyInv'
<1>. SUFFICES ASSUME CopyInv, stop_host PROVE CopyInv' OBVIOUS
<1>. USE Sizes DEF CopyInv, On, VolState, stop_host, MainLoop, host_elements_reset,
               ResetRings, taskVars
<1>1. /\ hbuf' \in Buffers /\ hbuf'.w_ptr = 0 /\ hbuf'.r_ptr = 0
      /\ hbuf'.avail = 0
      /\ dbuf' \in Buffers /\ dbuf'.w_ptr = 0 /\ dbuf'.r_ptr = 0
  BY Empty
<1>2. TypeOK'
  <2>1. upset' \subseteq Events BY DEF Events, TypeOK
  <2>. QED BY <1>1, <2>1 DEF TypeOK, Buffers, States, Stages
<1>3. Control' BY DEF Control
<1>4. ElemInv' BY Ended DEF ElemInv
<1>5. RingInv' BY <1>1 DEF RingInv
<1>6. HostAtRest' BY DEF HostAtRest, Whole
<1>7. HostRuns' /\ HostRing' /\ DaiRing' BY DEF HostRuns, HostRing, DaiRing
<1>8. DaiWrites' BY <1>1 DEF DaiWrites
<1>9. DaiReads' BY <1>1 DEF DaiReads
<1>. QED BY <1>2, <1>3, <1>4, <1>5, <1>6, <1>7, <1>8, <1>9

\* The end of a stop, and pipeline_reset().
LEMMA StopDaiStep == CopyInv /\ (stop_dai \/ reset) => CopyInv'
<1>. SUFFICES ASSUME CopyInv, stop_dai \/ reset PROVE CopyInv' OBVIOUS
<1>. USE DEF CopyInv, On, VolState, stop_dai, reset, MainLoop, hostVars, taskVars
<1>1. TypeOK'
  <2>0. 0 \in 0 .. Period /\ 0 \in 0 .. HostSize BY Sizes
  <2>1. /\ last_bytes' \in 0 .. Period /\ local_pos' \in 0 .. HostSize
        /\ linked' \in BOOLEAN
    BY <2>0 DEF TypeOK
  <2>2. /\ state' \in States /\ dai' \in States /\ ipc' \in Stages
        /\ chan' \in {"idle", "running", "pausing", "paused"}
    BY DEF TypeOK, States, Stages
  <2>3. UNCHANGED <<hbuf, dbuf, src, src_end, dest, dest_end, size,
                    split_remaining, xfer, complete, hw, task, cframes, avail,
                    lead, upset, fault>>
    OBVIOUS
  <2>. QED BY <2>1, <2>2, <2>3 DEF TypeOK
<1>2. Control' BY DEF Control
<1>3. ElemInv' /\ RingInv' BY DEF ElemInv, RingInv
<1>4. HostAtRest' BY DEF HostAtRest, Whole, Control
<1>5. HostRuns' /\ HostRing' /\ DaiRing' BY DEF HostRuns, HostRing, DaiRing, Control
<1>6. DaiWrites' BY DEF DaiWrites, Control
<1>7. DaiReads' BY DEF DaiReads, Control
<1>. QED BY <1>1, <1>2, <1>3, <1>4, <1>5, <1>6, <1>7

\* PAUSE and RELEASE pass the components one by one.
LEMMA PauseStep ==
  CopyInv /\ (pause_host \/ pause_volume \/ release_host \/ release_volume)
    => CopyInv'
<1>. SUFFICES ASSUME CopyInv,
                     pause_host \/ pause_volume \/ release_host \/ release_volume
              PROVE  CopyInv'
  OBVIOUS
<1>. USE DEF CopyInv, On, VolState, pause_host, pause_volume, release_host,
             release_volume, MainLoop, dataVars, hostVars, taskVars
<1>0. /\ task = "none" /\ On <=> On'
      /\ state' \in States /\ ipc' \in Stages /\ ipc # "stopping"
      /\ state # "INIT" /\ state' # "INIT"
      /\ UNCHANGED <<dai, chan, hw, dataVars>>
  BY DEF TypeOK, States, Stages, Control
<1>1. TypeOK' BY <1>0 DEF TypeOK
<1>2. Control' BY <1>0 DEF Control
<1>3. ElemInv' /\ RingInv' BY <1>0 DEF ElemInv, RingInv
<1>4. HostAtRest' /\ HostRuns' BY <1>0 DEF HostAtRest, HostRuns, Whole, Control
<1>5. HostRing' BY <1>0 DEF HostRing, Timely, Control
<1>6. DaiWrites' BY <1>0 DEF DaiWrites, Timely, Control
<1>7. DaiReads' /\ DaiRing' BY <1>0 DEF DaiReads, DaiRing, Control
<1>. QED BY <1>1, <1>2, <1>3, <1>4, <1>5, <1>6, <1>7

\* The DAI's channel pauses at the end of its element, and goes on from the
\* next one.
LEMMA PauseDaiStep == CopyInv /\ (pause_dai \/ release_dai) => CopyInv'
<1>. SUFFICES ASSUME CopyInv, pause_dai \/ release_dai PROVE CopyInv' OBVIOUS
<1>. USE DEF CopyInv, On, VolState, pause_dai, release_dai, dw_dma_release,
             MainLoop, dataVars, hostVars, taskVars
<1>0. /\ task = "none" /\ On /\ UNCHANGED <<state, dataVars>>
      /\ ipc' = "idle" /\ ipc \in {"pause_dai", "release_dai"}
  BY DEF Control
<1>1. /\ dai' \in {"RUNNING", "PAUSED"} <=> dai \in {"RUNNING", "PAUSED"}
      /\ chan' # "idle" <=> chan # "idle"
      /\ dai' = "INIT" <=> dai = "INIT"
      /\ dai' \in States /\ chan' \in {"idle", "running", "pausing", "paused"}
  BY DEF Control, TypeOK, States
<1>2. TypeOK'
  <2>1. hw' \in 0 .. DaiSize
    <3>1. hw + Period \in Nat /\ DaiSize \in Nat \ {0} BY Sizes DEF TypeOK
    <3>2. WrapPtr(hw + Period, DaiSize) \in 0 .. DaiSize BY <3>1, WrapFacts
    <3>. QED BY <3>2 DEF TypeOK
  <2>. QED BY <1>0, <1>1, <2>1 DEF TypeOK, Stages
<1>3. Control' BY <1>0, <1>1 DEF Control
<1>4. ElemInv' /\ RingInv' BY <1>0 DEF ElemInv, RingInv
<1>5. HostAtRest' /\ HostRuns' BY <1>0 DEF HostAtRest, HostRuns, Whole
<1>6. HostRing' /\ DaiWrites' BY <1>0 DEF HostRing, DaiWrites, Timely
<1>7. DaiReads' BY <1>0, <1>1 DEF DaiReads, Control
<1>8. DaiRing' BY <1>0, <1>1 DEF DaiRing
<1>. QED BY <1>2, <1>3, <1>4, <1>5, <1>6, <1>7, <1>8

-----------------------------------------------------------------------------
(* The pipeline task *)

\* The start of the task preserves the invariant...
LEMMA HostCopyStep == CopyInv /\ host_copy => CopyInv'
<1>. SUFFICES ASSUME CopyInv, host_copy PROVE CopyInv' OBVIOUS
<1>. USE DEF CopyInv, On, VolState, host_copy, hostVars
<1>1. TypeOK' BY DEF TypeOK
<1>2. Control' /\ ElemInv' /\ RingInv' BY DEF Control, ElemInv, RingInv
<1>3. HostAtRest' BY DEF HostAtRest, Whole
<1>4. HostRuns' BY DEF HostRuns, Whole
<1>5. HostRing'
  <2>. SUFFICES ASSUME On, Timely PROVE HostRing'
    BY DEF HostRing, Timely
  <2>1. Whole BY DEF Timely, Whole
  <2>3. hbuf.r_ptr = dest /\ ~xfer BY DEF HostRing
  <2>4. hbuf.r_ptr = dest_end - Period
    BY Sizes, <2>1, <2>3 DEF HostRuns, TypeOK
  <2>5. CASE task' = "wait" BY <2>4, <2>5 DEF HostRing
  <2>6. CASE task' # "wait" BY <2>3, <2>6 DEF HostRing, Control
  <2>. QED BY <2>5, <2>6
<1>6. DaiWrites' BY DEF DaiWrites, Timely
<1>7. DaiReads' BY DEF DaiReads
<1>8. DaiRing' BY DEF DaiRing
<1>. QED BY <1>1, <1>2, <1>3, <1>4, <1>5, <1>6, <1>7, <1>8

\* ...and so does the end of its wait.
LEMMA CopyDoneStep == CopyInv /\ copy_done => CopyInv'
<1>. SUFFICES ASSUME CopyInv, copy_done PROVE CopyInv' OBVIOUS
<1>. USE DEF CopyInv, On, VolState, copy_done, hostVars
<1>0. upset \subseteq upset' /\ (~complete => "late" \in upset') OBVIOUS
<1>1. TypeOK'
  <2>1. upset' \subseteq Events BY DEF TypeOK, Events
  <2>. QED BY <2>1 DEF TypeOK
<1>2. Control' /\ ElemInv' /\ RingInv' BY DEF Control, ElemInv, RingInv
<1>3. HostAtRest' BY <1>0 DEF HostAtRest, Whole
<1>4. HostRuns' BY <1>0 DEF HostRuns, Whole
<1>5. HostRing' BY <1>0 DEF HostRing, Timely, Control
<1>6. DaiWrites' BY <1>0 DEF DaiWrites, Timely
<1>7. DaiReads' BY <1>0 DEF DaiReads
<1>8. DaiRing' BY <1>0 DEF DaiRing
<1>. QED BY <1>1, <1>2, <1>3, <1>4, <1>5, <1>6, <1>7, <1>8

\* volume_copy(): a period when the waits of the host component were kept.
LEMMA ScaleStep == CopyInv /\ volume_scale => CopyInv'
<1>. SUFFICES ASSUME CopyInv, volume_scale PROVE CopyInv' OBVIOUS
<1>. USE Sizes, Ended DEF CopyInv, On, VolState, volume_scale, hostVars
<1>0. /\ UNCHANGED <<state, dai, chan, ipc, hostVars, xfer, complete, last_bytes, hw,
                  avail, fault>>
      /\ upset \subseteq upset' /\ upset' \subseteq Events
      /\ (CopyFrames # 0 /\ state = "PAUSED") => "stale" \in upset'
      /\ CopyFrames = 0 => upset' = upset
  BY DEF TypeOK, Events
<1>1. /\ hbuf \in Buffers /\ dbuf \in Buffers /\ hbuf.r_ptr \in Nat
      /\ dbuf.w_ptr \in Nat /\ CopyFrames \in Nat /\ task = "volume"
  <2>1. hbuf \in Buffers /\ dbuf \in Buffers BY BufferTypes
  <2>2. hbuf.avail \in Nat BY <2>1 DEF RingInv, Buffers
  <2>. QED BY <2>1, <2>2 DEF Buffers, CopyFrames
<1>9. state \in {"RUNNING", "PAUSED"} BY <1>1 DEF Control
<1>2. CASE CopyFrames = 0
  <2>0. task' = "none" /\ UNCHANGED <<hbuf, dbuf, lead>> /\ cframes' = 0 BY <1>2
  <2>1. TypeOK' BY <1>0, <2>0 DEF TypeOK
  <2>2. Control' /\ ElemInv' /\ RingInv'
    BY <1>0, <1>1, <2>0 DEF Control, ElemInv, RingInv
  <2>3. HostAtRest' /\ HostRuns' BY <1>0, <2>0 DEF HostAtRest, HostRuns, Whole
  <2>4. state = "RUNNING" => ~Timely
    BY <1>1, <1>2 DEF HostRing, CopyFrames
  <2>5. HostRing' /\ DaiWrites' /\ DaiRing'
    BY <1>0, <1>1, <1>9, <1>2, <2>0, <2>4 DEF HostRing, DaiWrites, DaiRing, Timely
  <2>6. DaiReads' BY <1>0, <2>0 DEF DaiReads
  <2>. QED BY <2>1, <2>2, <2>3, <2>5, <2>6
<1>3. CASE CopyFrames # 0
  <2>0. /\ task' = "wrap" /\ cframes' = CopyFrames
        /\ lead' = Track(lead + CopyFrames)
    BY <1>3
  <2>1. /\ hbuf' \in Buffers /\ hbuf'.r_ptr = hbuf.r_ptr + CopyFrames
        /\ hbuf'.w_ptr = hbuf.w_ptr /\ hbuf'.avail = hbuf.avail
    <3>1. PICK p \in Nat : p = hbuf.r_ptr + CopyFrames BY <1>1
    <3>2. hbuf' = [hbuf EXCEPT !.r_ptr = p] BY <1>1, <1>3, <3>1
    <3>. QED BY <1>1, <3>1, <3>2 DEF Buffers
  <2>2. /\ dbuf' \in Buffers /\ dbuf'.w_ptr = dbuf.w_ptr + CopyFrames
        /\ dbuf'.r_ptr = dbuf.r_ptr
    <3>1. PICK p \in Nat : p = dbuf.w_ptr + CopyFrames BY <1>1
    <3>2. dbuf' = [dbuf EXCEPT !.w_ptr = p] BY <1>1, <1>3, <3>1
    <3>. QED BY <1>1, <3>1, <3>2 DEF Buffers
  <2>3. TypeOK'
    <3>1. lead' \in Int BY <1>1, <2>0 DEF Track, TypeOK
    <3>. QED BY <1>0, <1>1, <2>0, <2>1, <2>2, <3>1 DEF TypeOK, Buffers
  <2>4. Control' /\ ElemInv' BY <1>0, <1>1, <2>0 DEF Control, ElemInv
  <2>5. RingInv' BY <2>0, <2>1, <2>2 DEF RingInv
  <2>6. HostAtRest' BY <1>0, <1>9 DEF HostAtRest, Whole
  <2>7. HostRuns' BY <1>0, <2>1 DEF HostRuns, Whole
  <2>8. Timely' => state = "RUNNING" /\ Timely /\ CopyFrames = Period
    BY <1>0, <1>1, <1>3, <1>9 DEF HostRing, CopyFrames, Timely
  <2>9. HostRing'
    <3>. SUFFICES ASSUME Timely' PROVE HostRing' BY DEF HostRing
    <3>1. Timely /\ state = "RUNNING" /\ CopyFrames = Period BY <2>8
    <3>2. /\ ~xfer /\ hbuf.r_ptr + Period \in HostEnds
          /\ dest = WrapPtr(hbuf.r_ptr + Period, LocalSize)
      BY <1>1, <3>1 DEF HostRing
    <3>. QED BY <1>0, <2>0, <2>1, <3>1, <3>2 DEF HostRing
  <2>10. DaiWrites' BY <1>0, <1>1, <1>9, <2>0, <2>2, <2>8 DEF DaiWrites, Timely
  <2>11. DaiReads' BY <1>0, <2>2 DEF DaiReads
  <2>12. DaiRing'
    <3>. SUFFICES ASSUME upset' = {}, chan # "idle", fault = "none"
                  PROVE  DaiRing'
      BY <1>0 DEF DaiRing
    <3>1. upset = {} /\ CopyFrames = Period BY <1>0, <2>8 DEF Timely
    <3>2. /\ lead \in DaiEnds /\ lead + Period <= DaiSize
          /\ dbuf.r_ptr + lead \in {dbuf.w_ptr, dbuf.w_ptr + DaiSize}
      BY <1>1, <1>9, <3>1 DEF DaiRing
    <3>3. lead' = lead + Period BY <2>0, <3>1 DEF Track
    <3>4. lead' \in DaiEnds /\ lead' >= 2 * Period
      BY <3>2, <3>3 DEF WrapPtr
    <3>5. dbuf.r_ptr \in Nat /\ lead \in Nat BY <1>1, <3>2 DEF Buffers
    <3>6. dbuf'.r_ptr + lead' \in {dbuf'.w_ptr, dbuf'.w_ptr + DaiSize}
      <4>1. dbuf.r_ptr + lead = dbuf.w_ptr \/ dbuf.r_ptr + lead = dbuf.w_ptr + DaiSize
        BY <3>2
      <4>. QED BY <1>1, <2>2, <3>1, <3>3, <3>5, <4>1
    <3>. QED BY <2>0, <3>4, <3>6 DEF DaiRing
  <2>. QED BY <2>3, <2>4, <2>5, <2>6, <2>7, <2>9, <2>10, <2>11, <2>12
<1>. QED BY <1>2, <1>3

\* The pointers that the copy moved are put back into their rings.
LEMMA WrapStep == CopyInv /\ volume_wrap => CopyInv'
<1>. SUFFICES ASSUME CopyInv, volume_wrap PROVE CopyInv' OBVIOUS
<1>. USE Sizes, Ended DEF CopyInv, On, VolState, volume_wrap, hostVars
<1>0. /\ task = "wrap" /\ task' = "produce"
      /\ UNCHANGED <<state, dai, chan, ipc, hostVars, xfer, complete, last_bytes, hw,
                     cframes, avail, lead, upset, fault>>
  OBVIOUS
<1>1. /\ hbuf \in Buffers /\ dbuf \in Buffers /\ hbuf.r_ptr \in Nat
      /\ dbuf.w_ptr \in Nat
  BY BufferTypes DEF Buffers
<1>2. /\ hbuf' \in Buffers /\ hbuf'.r_ptr = WrapPtr(hbuf.r_ptr, LocalSize)
      /\ hbuf'.w_ptr = hbuf.w_ptr /\ hbuf'.r_ptr < LocalSize
  <2>1. PICK p \in Nat : p = WrapPtr(hbuf.r_ptr, LocalSize) /\ p < LocalSize
    <3>1. LocalSize \in Nat \ {0} OBVIOUS
    <3>. QED BY <1>1, <3>1, WrapFacts
  <2>2. hbuf' = [hbuf EXCEPT !.r_ptr = p] BY <1>1, <2>1
  <2>. QED BY <1>1, <2>1, <2>2 DEF Buffers
<1>3. /\ dbuf' \in Buffers /\ dbuf'.w_ptr = WrapPtr(dbuf.w_ptr, DaiSize)
      /\ dbuf'.r_ptr = dbuf.r_ptr
  <2>1. PICK p \in Nat : p = WrapPtr(dbuf.w_ptr, DaiSize) /\ p < DaiSize
    <3>1. DaiSize \in Nat \ {0} OBVIOUS
    <3>. QED BY <1>1, <3>1, WrapFacts
  <2>2. dbuf' = [dbuf EXCEPT !.w_ptr = p] BY <1>1, <2>1
  <2>. QED BY <1>1, <2>1, <2>2 DEF Buffers
<1>4. TypeOK' BY <1>0, <1>2, <1>3 DEF TypeOK, Buffers
<1>5. Control' /\ ElemInv' BY <1>0 DEF Control, ElemInv
<1>6. RingInv' BY <1>0, <1>2, <1>3 DEF RingInv
<1>7. HostAtRest' /\ HostRuns'
  BY <1>0, <1>2 DEF HostAtRest, HostRuns, Whole, Control
<1>8. HostRing' BY <1>0, <1>2 DEF HostRing, Timely
<1>9. DaiWrites' BY <1>0, <1>3 DEF DaiWrites, Timely, Control
<1>10. DaiReads' BY <1>0, <1>3 DEF DaiReads
<1>11. DaiRing'
  <2>. SUFFICES ASSUME upset = {}, On, chan # "idle", fault = "none"
                PROVE  DaiRing'
    BY <1>0 DEF DaiRing
  <2>1. /\ lead \in DaiEnds /\ lead >= 2 * Period
        /\ dbuf.r_ptr + lead \in {dbuf.w_ptr, dbuf.w_ptr + DaiSize}
    BY <1>0 DEF DaiRing
  <2>2. dbuf.w_ptr \in DaiEnds BY <1>0 DEF DaiWrites, Timely
  <2>3. dbuf.r_ptr \in Nat /\ dbuf.r_ptr < DaiSize
    BY <1>1 DEF RingInv, Buffers
  <2>4. dbuf'.r_ptr + lead' \in {dbuf'.w_ptr, dbuf'.w_ptr + DaiSize}
    BY <1>0, <1>1, <1>3, <2>1, <2>2, <2>3 DEF WrapPtr
  <2>. QED BY <1>0, <2>1, <2>4 DEF DaiRing
<1>. QED BY <1>4, <1>5, <1>6, <1>7, <1>8, <1>9, <1>10, <1>11

\* What is available is worked out...
LEMMA ProduceStep == CopyInv /\ volume_produce => CopyInv'
<1>. SUFFICES ASSUME CopyInv, volume_produce PROVE CopyInv' OBVIOUS
<1>. USE Sizes DEF CopyInv, On, VolState, volume_produce, hostVars
<1>0. /\ task = "produce" /\ task' = "store"
      /\ avail' = comp_update_buffer_produce(dbuf, DaiSize).avail
      /\ UNCHANGED <<state, dai, chan, ipc, hbuf, dbuf, hostVars, xfer, complete,
                     last_bytes, hw, cframes, lead, upset, fault>>
  OBVIOUS
<1>1. dbuf \in Buffers BY BufferTypes
<1>2. /\ avail' \in Int
      /\ dbuf.r_ptr = dbuf.w_ptr => avail' = DaiSize
      /\ dbuf.r_ptr # dbuf.w_ptr => avail' = Between(dbuf, DaiSize)
  <2>1. DaiSize \in Nat \ {0} OBVIOUS
  <2>2. comp_update_buffer_produce(dbuf, DaiSize) \in Buffers BY <1>1, <2>1, Updates
  <2>3. dbuf.r_ptr = dbuf.w_ptr =>
          comp_update_buffer_produce(dbuf, DaiSize).avail = DaiSize
    BY <1>1, <2>1, Updates
  <2>4. dbuf.r_ptr # dbuf.w_ptr =>
          comp_update_buffer_produce(dbuf, DaiSize).avail = Between(dbuf, DaiSize)
    BY <1>1, <2>1, Updates
  <2>. QED BY <1>0, <2>2, <2>3, <2>4 DEF Buffers
<1>3. TypeOK' BY <1>0, <1>2 DEF TypeOK
<1>4. Control' /\ ElemInv' /\ RingInv' BY <1>0 DEF Control, ElemInv, RingInv
<1>5. HostAtRest' /\ HostRuns' BY <1>0 DEF HostAtRest, HostRuns, Whole
<1>6. HostRing' BY <1>0 DEF HostRing, Timely
<1>7. DaiWrites' BY <1>0 DEF DaiWrites, Timely
<1>8. DaiReads' BY <1>0 DEF DaiReads
<1>9. DaiRing'
  <2>. SUFFICES ASSUME upset = {}, On, chan # "idle", fault = "none"
                PROVE  DaiRing'
    BY <1>0 DEF DaiRing
  <2>1. /\ lead \in DaiEnds /\ lead >= 2 * Period
        /\ dbuf.r_ptr + lead \in {dbuf.w_ptr, dbuf.w_ptr + DaiSize}
    BY <1>0 DEF DaiRing
  <2>2. lead \in Nat /\ lead > 0 /\ lead <= DaiSize BY <2>1, Ended
  <2>3. /\ dbuf.r_ptr \in Nat /\ dbuf.r_ptr < DaiSize
        /\ dbuf.w_ptr \in Nat /\ dbuf.w_ptr + Period <= DaiSize
    <3>1. dbuf.w_ptr + Period \in DaiEnds BY <1>0 DEF DaiWrites, Timely
    <3>. QED BY <1>1, <3>1, Ended DEF RingInv, Buffers
  <2>4. avail' = lead
    BY <1>2, <2>1, <2>2, <2>3 DEF Between
  <2>. QED BY <1>0, <2>1, <2>4 DEF DaiRing
<1>. QED BY <1>3, <1>4, <1>5, <1>6, <1>7, <1>8, <1>9

\* ...and stored.
LEMMA StoreStep == CopyInv /\ volume_store => CopyInv'
<1>. SUFFICES ASSUME CopyInv, volume_store PROVE CopyInv' OBVIOUS
<1>. USE Sizes DEF CopyInv, On, VolState, volume_store, hostVars
<1>0. /\ task = "store" /\ task' = "none"
      /\ UNCHANGED <<state, dai, chan, ipc, hostVars, xfer, complete, last_bytes, hw,
                     cframes, avail, lead, upset, fault>>
  OBVIOUS
<1>1. /\ hbuf \in Buffers /\ dbuf \in Buffers /\ avail \in Int
      /\ DaiSize \in Nat \ {0} /\ LocalSize \in Nat \ {0}
  BY BufferTypes
<1>2. /\ dbuf' \in Buffers /\ dbuf'.w_ptr = dbuf.w_ptr /\ dbuf'.r_ptr = dbuf.r_ptr
      /\ dbuf'.avail = avail
  BY <1>1, Updates
<1>3. /\ hbuf' \in Buffers /\ hbuf'.w_ptr = hbuf.w_ptr /\ hbuf'.r_ptr = hbuf.r_ptr
      /\ hbuf'.avail >= 0
  BY <1>0, <1>1, Updates DEF RingInv
<1>4. TypeOK' BY <1>0, <1>2, <1>3 DEF TypeOK, Buffers
<1>5. Control' /\ ElemInv' BY <1>0 DEF Control, ElemInv
<1>6. RingInv' BY <1>0, <1>2, <1>3 DEF RingInv
<1>7. HostAtRest' /\ HostRuns'
  BY <1>0, <1>3 DEF HostAtRest, HostRuns, Whole
<1>8. HostRing' BY <1>0, <1>3 DEF HostRing, Timely
<1>9. DaiWrites' BY <1>0, <1>2 DEF DaiWrites, Timely
<1>10. DaiReads' BY <1>0, <1>2 DEF DaiReads
<1>11. DaiRing' BY <1>0, <1>2 DEF DaiRing
<1>. QED BY <1>4, <1>5, <1>6, <1>7, <1>8, <1>9, <1>10, <1>11

-----------------------------------------------------------------------------
(* Interrupt of the host's channel *)

\* The next transfer fits into both elements, and is what is left of a period
\* that was split, or the start of a new one.
LEMMA NextTransfer ==
  ASSUME NEW s \in Int, NEW s_end \in Int, NEW d \in Int, NEW d_end \in Int,
         s < s_end, d < d_end, split_remaining \in 0 .. Period,
         NEW n, n = SplitSize(NextSize(s, s_end, d, d_end))
  PROVE  /\ n.size \in 1 .. Period /\ n.rest \in 0 .. Period
         /\ s + n.size <= s_end /\ d + n.size <= d_end
         /\ split_remaining = 0 => n.size + n.rest = Period
         /\ split_remaining # 0 => n.size + n.rest = split_remaining
<1>0. Period \in Nat \ {0} BY Sizes
<1>. DEFINE z == NextSize(s, s_end, d, d_end)
<1>1. z \in 1 .. Period /\ s + z <= s_end /\ d + z <= d_end
  BY <1>0 DEF NextSize, Least
<1>2. n = SplitSize(z) OBVIOUS
<1>. HIDE DEF z
<1>3. CASE split_remaining = 0
  <2>1. n.size = z /\ n.rest = Period - z
    BY <1>2, <1>3 DEF SplitSize
  <2>. QED BY <1>0, <1>1, <1>3, <2>1
<1>4. CASE split_remaining # 0
  <2>1. /\ n.size = Least(z, split_remaining)
        /\ n.rest = split_remaining - Least(z, split_remaining)
    BY <1>2, <1>4 DEF SplitSize
  <2>. QED BY <1>0, <1>1, <1>4, <2>1 DEF Least
<1>. QED BY <1>3, <1>4

\* host_dma_cb() preserves the invariant.
LEMMA HostCbStep == CopyInv /\ host_dma_cb => CopyInv'
<1>. SUFFICES ASSUME CopyInv, host_dma_cb PROVE CopyInv' OBVIOUS
<1>. USE DEF CopyInv, On, VolState
<1>. DEFINE s == src + size
            d == dest + size
            s0 == IF s = src_end THEN NextElem(src_end, HostSize) ELSE s
            d0 == IF d = dest_end THEN NextElem(dest_end, LocalSize) ELSE d
            s_end == IF s = src_end THEN s0 + PageSize ELSE src_end
            d_end == IF d = dest_end THEN d0 + Period ELSE dest_end
            next == SplitSize(NextSize(s0, s_end, d0, d_end))
            b == [hbuf EXCEPT !.w_ptr = WrapPtr(@ + size, LocalSize)]
<1>0. /\ linked /\ xfer
      /\ UNCHANGED <<state, dai, chan, ipc, dbuf, linked, last_bytes, hw, task, cframes,
                     avail, lead, upset, fault>>
      /\ hbuf' = comp_update_buffer_produce(b, LocalSize)
      /\ local_pos' = WrapPtr(local_pos + size, HostSize)
      /\ src' = s0 /\ src_end' = s_end /\ dest' = d0 /\ dest_end' = d_end
      /\ size' = next.size /\ split_remaining' = next.rest
      /\ split_remaining # 0 => UNCHANGED <<xfer, complete>>
      /\ split_remaining = 0 => xfer' = FALSE /\ complete' = TRUE
  BY DEF host_dma_cb, taskVars, LocalPos
<1>1. /\ src \in Nat /\ dest \in Nat /\ size \in 1 .. Period
      /\ src_end \in PageEnds /\ src_end \in Nat /\ src_end <= HostSize
      /\ dest_end \in HostEnds /\ dest_end \in Nat /\ dest_end <= LocalSize
      /\ src_end - PageSize <= src /\ s <= src_end
      /\ dest_end - Period <= dest /\ d <= dest_end
      /\ split_remaining \in 0 .. Period /\ local_pos \in Nat
  BY <1>0, Sizes, Ended DEF TypeOK, ElemInv
<1>2. /\ s0 = WrapPtr(s, HostSize) /\ s0 \in Nat /\ s0 < s_end
      /\ s_end \in PageEnds /\ s_end - PageSize <= s0
      /\ s_end \in Nat /\ s_end <= HostSize
  <2>1. CASE s = src_end
    <3>1. s0 = WrapPtr(s, HostSize) /\ s_end = s0 + PageSize
      BY <2>1 DEF NextElem
    <3>2. s_end \in PageEnds BY <1>1, <2>1, <3>1, Ended
    <3>3. s0 \in Nat BY <1>1, <3>1 DEF WrapPtr
    <3>. QED BY <3>1, <3>2, <3>3, Sizes, Ended
  <2>2. CASE s # src_end
    <3>1. s0 = s /\ s_end = src_end BY <2>2
    <3>. QED BY <1>1, <2>2, <3>1, Sizes DEF WrapPtr
  <2>. QED BY <2>1, <2>2
<1>3. /\ d0 = WrapPtr(d, LocalSize) /\ d0 \in Nat /\ d0 < d_end
      /\ d_end \in HostEnds /\ d_end - Period <= d0
      /\ d_end \in Nat /\ d_end <= LocalSize
  <2>1. CASE d = dest_end
    <3>1. d0 = WrapPtr(d, LocalSize) /\ d_end = d0 + Period
      BY <2>1 DEF NextElem
    <3>2. d_end \in HostEnds BY <1>1, <2>1, <3>1, Ended
    <3>3. d0 \in Nat BY <1>1, <3>1 DEF WrapPtr
    <3>. QED BY <3>1, <3>2, <3>3, Sizes, Ended
  <2>2. CASE d # dest_end
    <3>1. d0 = d /\ d_end = dest_end BY <2>2
    <3>. QED BY <1>1, <2>2, <3>1, Sizes DEF WrapPtr
  <2>. QED BY <2>1, <2>2
<1>4. /\ next.size \in 1 .. Period /\ next.rest \in 0 .. Period
      /\ s0 + next.size <= s_end /\ d0 + next.size <= d_end
      /\ split_remaining = 0 => next.size + next.rest = Period
      /\ split_remaining # 0 => next.size + next.rest = split_remaining
  <2>1. next = SplitSize(NextSize(s0, s_end, d0, d_end)) OBVIOUS
  <2>2. /\ s0 \in Int /\ s_end \in Int /\ s0 < s_end
        /\ d0 \in Int /\ d_end \in Int /\ d0 < d_end
        /\ split_remaining \in 0 .. Period
    BY <1>1, <1>2, <1>3
  <2>. HIDE DEF s0, s_end, d0, d_end, next, CopyInv
  <2>. QED BY <2>1, <2>2, NextTransfer
<1>5. /\ (split_remaining # 0 /\ dest_end - dest = size + split_remaining) =>
           d_end = dest_end /\ d0 = d
      /\ d = dest_end => d_end = d0 + Period
  BY <1>1
<1>6. hbuf \in Buffers /\ LocalSize \in Nat \ {0} BY Sizes, BufferTypes
<1>7. /\ b \in Buffers /\ b.r_ptr = hbuf.r_ptr
      /\ b.w_ptr = WrapPtr(hbuf.w_ptr + size, LocalSize) /\ b.w_ptr < LocalSize
  <2>1. PICK p \in Nat : p = WrapPtr(hbuf.w_ptr + size, LocalSize) /\ p < LocalSize
    <3>1. hbuf.w_ptr + size \in Nat BY <1>1, <1>6, Sizes DEF Buffers
    <3>. QED BY <1>6, <3>1, WrapFacts
  <2>2. b = [hbuf EXCEPT !.w_ptr = p] BY <1>6, <2>1
  <2>. HIDE DEF b
  <2>. QED BY <1>6, <2>1, <2>2 DEF Buffers
<1>. HIDE DEF s0, s_end, d0, d_end, next, b
<1>8. /\ hbuf' \in Buffers /\ hbuf'.r_ptr = hbuf.r_ptr
      /\ hbuf'.w_ptr = WrapPtr(hbuf.w_ptr + size, LocalSize)
      /\ hbuf'.w_ptr < LocalSize
      /\ hbuf.r_ptr < LocalSize => hbuf'.avail >= 0
      /\ hbuf'.r_ptr # hbuf'.w_ptr => hbuf'.avail = Between(b, LocalSize)
  BY <1>0, <1>6, <1>7, Updates
<1>9. TypeOK'
  <2>1. local_pos' \in 0 .. HostSize
    <3>1. local_pos + size \in Nat /\ HostSize \in Nat \ {0} BY <1>1, Sizes
    <3>. QED BY <1>0, <3>1, WrapFacts
  <2>2. /\ src' \in 0 .. HostSize /\ src_end' \in 0 .. HostSize
        /\ dest' \in 0 .. LocalSize /\ dest_end' \in 0 .. LocalSize
        /\ size' \in 0 .. Period /\ split_remaining' \in 0 .. Period
    BY <1>0, <1>2, <1>3, <1>4, Sizes
  <2>3. xfer' \in BOOLEAN /\ complete' \in BOOLEAN BY <1>0 DEF TypeOK
  <2>. QED BY <1>0, <1>8, <2>1, <2>2, <2>3 DEF TypeOK, Buffers
<1>10. Control' BY <1>0 DEF Control
<1>11. ElemInv' BY <1>0, <1>2, <1>3, <1>4, Sizes DEF ElemInv
<1>12. RingInv' BY <1>0, <1>8 DEF RingInv
<1>13. HostAtRest' BY <1>0 DEF HostAtRest, Whole
<1>14. HostRuns'
  <2>. SUFFICES ASSUME On, Whole PROVE HostRuns'
    BY <1>0 DEF HostRuns, Whole
  <2>1. /\ dest_end - dest = size + split_remaining /\ Multiple(src - dest)
        /\ src = local_pos /\ dest = hbuf.w_ptr /\ ~complete
    BY <1>0 DEF HostRuns
  <2>2. src' = local_pos' BY <1>0, <1>2, <2>1
  <2>3. dest' = hbuf'.w_ptr BY <1>0, <1>3, <1>8, <2>1
  <2>4. Multiple(src' - dest')
    <3>1. s0 \in {s, s - HostSize} /\ d0 \in {d, d - LocalSize}
      BY <1>1, <1>2, <1>3, Sizes DEF WrapPtr
    <3>2. src' - dest' \in {src - dest, src - dest - HostSize, src - dest + LocalSize,
                            src - dest - HostSize + LocalSize}
      BY <1>0, <1>1, <3>1, Sizes
    <3>3. PICK x \in Int : x = src - dest BY <1>1
    <3>4. /\ HostSize \in Int /\ Multiple(HostSize)
          /\ LocalSize \in Int /\ Multiple(LocalSize) /\ Multiple(x)
      BY <2>1, <3>3, Sizes
    <3>. HIDE DEF CopyInv
    <3>5. Multiple(x - HostSize) BY <3>4, Multiples
    <3>6. Multiple(x + LocalSize) BY <3>4, Multiples
    <3>7. PICK y \in Int : y = x - HostSize BY <3>4
    <3>8. Multiple(y) BY <3>5, <3>7
    <3>9. Multiple(y + LocalSize) BY <3>4, <3>8, Multiples
    <3>. QED BY <3>2, <3>3, <3>4, <3>5, <3>6, <3>7, <3>9
  <2>5. /\ dest_end' - dest' = size' + split_remaining'
        /\ xfer' => ~complete'
        /\ ~xfer' => dest_end' - dest' = Period
    <3>1. CASE split_remaining = 0
      <4>1. d = dest_end BY <1>1, <2>1, <3>1
      <4>. QED BY <1>0, <1>3, <1>4, <1>5, <3>1, <4>1, Sizes
    <3>2. CASE split_remaining # 0
      <4>1. dest_end' = dest_end /\ dest' = d BY <1>0, <1>5, <2>1, <3>2
      <4>. QED BY <1>0, <1>1, <1>4, <2>1, <3>2, <4>1
    <3>. QED BY <3>1, <3>2
  <2>. QED BY <2>2, <2>3, <2>4, <2>5 DEF HostRuns
<1>15. HostRing'
  <2>. SUFFICES ASSUME On, Timely PROVE HostRing'
    BY <1>0 DEF HostRing, Timely
  <2>1. /\ dest_end - dest = size + split_remaining /\ dest = hbuf.w_ptr
    BY <1>0 DEF HostRuns, Timely, Whole
  <2>2. task = "wait" /\ ~complete /\ hbuf.r_ptr = dest_end - Period
    BY <1>0 DEF HostRing
  <2>3. CASE split_remaining = 0
    <3>1. d = dest_end BY <1>1, <2>1, <2>3
    <3>2. hbuf'.w_ptr = WrapPtr(dest_end, LocalSize) BY <1>8, <2>1, <3>1
    <3>3. hbuf.r_ptr + Period = dest_end BY <1>1, <2>2, Sizes
    <3>4. hbuf'.avail = Period
      <4>1. CASE dest_end < LocalSize
        <5>1. b.w_ptr = dest_end BY <1>7, <2>1, <3>1, <4>1, <1>1, Sizes DEF WrapPtr
        <5>2. b.r_ptr < b.w_ptr BY <1>1, <1>7, <2>2, <5>1, Sizes
        <5>3. Between(b, LocalSize) = Period
          BY <1>1, <1>7, <2>2, <5>1, <5>2, Sizes DEF Between
        <5>. QED BY <1>7, <1>8, <5>1, <5>2, <5>3, <1>1, <2>2, Sizes
      <4>2. CASE dest_end = LocalSize
        <5>1. b.w_ptr = 0 BY <1>7, <2>1, <3>1, <4>2, <1>1, Sizes DEF WrapPtr
        <5>2. b.r_ptr = LocalSize - Period BY <1>7, <2>2, <4>2
        <5>3. Between(b, LocalSize) = Period /\ b.r_ptr # b.w_ptr
          BY <5>1, <5>2, Sizes DEF Between
        <5>. QED BY <1>7, <1>8, <5>3
      <4>. QED BY <1>1, <4>1, <4>2, Sizes
    <3>. QED BY <1>0, <1>1, <1>3, <1>8, <2>2, <2>3, <3>1, <3>3, <3>4 DEF HostRing
  <2>4. CASE split_remaining # 0
    <3>1. dest_end' = dest_end BY <1>0, <1>5, <2>1, <2>4
    <3>. QED BY <1>0, <1>8, <2>2, <2>4, <3>1 DEF HostRing
  <2>. QED BY <2>3, <2>4
<1>16. DaiWrites' BY <1>0 DEF DaiWrites, Timely
<1>17. DaiReads' BY <1>0 DEF DaiReads
<1>18. DaiRing' BY <1>0 DEF DaiRing
<1>. QED BY <1>9, <1>10, <1>11, <1>12, <1>13, <1>14, <1>15, <1>16, <1>17, <1>18

\* A transfer that outlives its stream stops the DSP.
LEMMA NullStep == CopyInv /\ host_dma_cb_null => CopyInv'
<1>. SUFFICES ASSUME CopyInv, host_dma_cb_null PROVE CopyInv' OBVIOUS
<1>. USE DEF CopyInv, On, VolState, host_dma_cb_null, hostVars, taskVars
<1>1. TypeOK' BY DEF TypeOK
<1>2. Control' /\ ElemInv' /\ RingInv' BY DEF Control, ElemInv, RingInv
<1>3. HostAtRest' /\ HostRuns' BY DEF HostAtRest, HostRuns, Whole
<1>4. HostRing' /\ DaiWrites' BY DEF HostRing, DaiWrites, Timely
<1>5. DaiReads' /\ DaiRing' BY DEF DaiReads, DaiRing
<1>. QED BY <1>1, <1>2, <1>3, <1>4, <1>5

-----------------------------------------------------------------------------
(* Interrupt of the DAI's channel *)

\* The ring of the DAI after n bytes were played.
Played(n) == comp_update_buffer_consume(
               [dbuf EXCEPT !.r_ptr = WrapPtr(@ + n, DaiSize)], DaiSize)

LEMMA PlayedFacts ==
  ASSUME dbuf \in Buffers, NEW n \in Nat
  PROVE  /\ Played(n) \in Buffers /\ Played(n).w_ptr = dbuf.w_ptr
         /\ Played(n).r_ptr = WrapPtr(dbuf.r_ptr + n, DaiSize)
         /\ Played(n).r_ptr < DaiSize /\ Played(n).avail >= 0
         /\ Played(n).r_ptr = dbuf.w_ptr => Played(n).avail = 0
         /\ Played(n).r_ptr < dbuf.w_ptr =>
              Played(n).avail = dbuf.w_ptr - Played(n).r_ptr
         /\ Played(n).r_ptr > dbuf.w_ptr =>
              Played(n).avail = DaiSize - Played(n).r_ptr + dbuf.w_ptr
<1>. DEFINE b == [dbuf EXCEPT !.r_ptr = WrapPtr(@ + n, DaiSize)]
<1>0. DaiSize \in Nat \ {0} BY Sizes
<1>1. PICK p \in Nat : p = WrapPtr(dbuf.r_ptr + n, DaiSize) /\ p < DaiSize
  <2>1. dbuf.r_ptr + n \in Nat BY DEF Buffers
  <2>. QED BY <1>0, <2>1, WrapFacts
<1>2. b = [dbuf EXCEPT !.r_ptr = p] BY <1>1
<1>3. Played(n) = comp_update_buffer_consume(b, DaiSize) BY DEF Played
<1>. HIDE DEF b
<1>4. b \in Buffers /\ b.r_ptr = p /\ b.w_ptr = dbuf.w_ptr /\ dbuf.w_ptr \in Nat
  BY <1>2 DEF Buffers
<1>5. /\ Played(n) \in Buffers /\ Played(n).w_ptr = dbuf.w_ptr
      /\ Played(n).r_ptr = p /\ Played(n).avail >= 0
      /\ p # dbuf.w_ptr => Played(n).avail = Between(b, DaiSize)
      /\ p = dbuf.w_ptr => Played(n).avail = 0
  <2>. DEFINE c == comp_update_buffer_consume(b, DaiSize)
  <2>1. /\ c \in Buffers /\ c.w_ptr = b.w_ptr /\ c.r_ptr = b.r_ptr
        /\ b.r_ptr < DaiSize => c.avail >= 0
        /\ b.r_ptr # b.w_ptr => c.avail = Between(b, DaiSize)
        /\ b.r_ptr = b.w_ptr => c.avail = 0
    <3>1. b \in Buffers BY <1>4
    <3>. QED BY <1>0, <3>1, Updates
  <2>2. Played(n) = c BY <1>3
  <2>. HIDE DEF c
  <2>. QED BY <1>1, <1>4, <2>1, <2>2
<1>. QED BY <1>1, <1>4, <1>5 DEF Between

\* As long as nothing rare happened, what the DAI finds available after it
\* played a period is what the volume component wrote and the DAI has not
\* played: no bytes, or a whole period at least.
LEMMA DaiConsume ==
  ASSUME CopyInv, upset = {}, On, chan # "idle", fault = "none"
  PROVE  /\ Played(Period).avail = lead - Period
         /\ Played(Period).avail = 0 \/ lead - Period \in DaiEnds
         /\ Played(Period).r_ptr + (lead - Period)
              \in {dbuf.w_ptr, dbuf.w_ptr + DaiSize}
<1>. USE DEF CopyInv
<1>1. dbuf \in Buffers /\ Period \in Nat BY BufferTypes, Sizes
<1>2. /\ dbuf.w_ptr \in Nat /\ dbuf.r_ptr \in Nat /\ dbuf.r_ptr < DaiSize
      /\ task = "wrap" => dbuf.w_ptr \in DaiEnds
      /\ task # "wrap" => dbuf.w_ptr + Period \in DaiEnds
      /\ dbuf.r_ptr + Period \in DaiEnds
  BY <1>1 DEF DaiWrites, DaiReads, RingInv, Timely, Buffers
<1>3. /\ lead \in DaiEnds
      /\ dbuf.r_ptr + lead \in {dbuf.w_ptr, dbuf.w_ptr + DaiSize}
      /\ task = "wrap" => lead >= 2 * Period
  BY DEF DaiRing
<1>. DEFINE r == Played(Period).r_ptr
            w == dbuf.w_ptr
<1>4. /\ r = WrapPtr(dbuf.r_ptr + Period, DaiSize) /\ r \in Nat /\ r < DaiSize
      /\ r = w => Played(Period).avail = 0
      /\ r < w => Played(Period).avail = w - r
      /\ r > w => Played(Period).avail = DaiSize - r + w
  BY <1>1, PlayedFacts DEF Buffers
<1>. HIDE DEF r
<1>5. lead = Period \/ lead - Period \in DaiEnds BY <1>3, Ended
<1>6. /\ lead \in Nat /\ Period <= lead /\ lead <= DaiSize
      /\ dbuf.r_ptr + Period <= DaiSize
      /\ task # "wrap" => w + Period <= DaiSize
      /\ task = "wrap" => w <= DaiSize /\ Period <= w
  BY <1>2, <1>3, Ended
<1>7. r + (lead - Period) \in {w, w + DaiSize}
  <2>1. CASE dbuf.r_ptr + Period < DaiSize
    <3>1. r = dbuf.r_ptr + Period BY <1>2, <1>4, <2>1, Sizes DEF WrapPtr
    <3>. QED BY <1>2, <1>3, <1>6, <3>1, Sizes
  <2>2. CASE dbuf.r_ptr + Period = DaiSize
    <3>1. r = 0 BY <1>4, <2>2, Sizes DEF WrapPtr
    <3>. QED BY <1>2, <1>3, <1>6, <2>2, <3>1, Sizes
  <2>. QED BY <1>2, <1>6, <2>1, <2>2, Sizes
<1>8. Played(Period).avail = lead - Period
  <2>0. DaiSize \in Nat /\ Period \in Nat \ {0} BY Sizes
  <2>1. CASE r + (lead - Period) = w
    <3>1. r = w => lead = Period BY <1>2, <1>4, <1>6, <2>0, <2>1
    <3>2. r <= w BY <1>2, <1>4, <1>6, <2>0, <2>1
    <3>3. w - r = lead - Period BY <1>2, <1>4, <1>6, <2>0, <2>1
    <3>. QED BY <1>2, <1>4, <1>6, <2>0, <3>1, <3>2, <3>3
  <2>2. CASE r + (lead - Period) = w + DaiSize
    <3>1. r > w BY <1>2, <1>4, <1>6, <2>0, <2>2
    <3>2. DaiSize - r + w = lead - Period BY <1>2, <1>4, <1>6, <2>0, <2>2
    <3>. QED BY <1>4, <3>1, <3>2
  <2>. QED BY <1>7, <2>1, <2>2
<1>9. lead = Period => lead - Period = 0 BY <1>6
<1>. QED BY <1>5, <1>7, <1>8, <1>9 DEF r

\* dai_dma_cb() preserves the invariant.
LEMMA DaiCbStep == CopyInv /\ dai_dma_cb => CopyInv'
<1>. SUFFICES ASSUME CopyInv, dai_dma_cb PROVE CopyInv' OBVIOUS
<1>. USE DEF CopyInv, On, VolState
<1>. DEFINE copied == IF last_bytes # 0 THEN last_bytes ELSE Period
            b == Played(copied)
            ended == b.avail = 0
            short == b.avail # 0 /\ b.avail < Period
<1>0. /\ fault = "none" /\ chan \in {"running", "pausing"} /\ dbuf' = b
      /\ lead' = Track(lead - copied)
      /\ dai' = IF ended THEN "SETUP" ELSE dai
      /\ ended => chan' = "idle"
      /\ ~ended => chan' \in {chan, "paused"}
      /\ (~ended /\ ~short) => chan' = IF chan = "pausing" THEN "paused" ELSE chan
      /\ last_bytes' = IF ended THEN 0 ELSE IF short THEN b.avail ELSE last_bytes
      /\ hw' = IF ended \/ short \/ chan = "pausing" THEN hw
               ELSE WrapPtr(hw + Period, DaiSize)
      /\ upset' = IF ipc = "stopping" THEN upset \cup {"raced"} ELSE upset
      /\ \/ (ended \/ short) /\ UNCHANGED <<task, fault>>
         \/ ~(ended \/ short) /\ task = "none" /\ task' = "queued" /\ UNCHANGED fault
         \/ ~(ended \/ short) /\ task # "none" /\ fault' = "overrun" /\ UNCHANGED task
      /\ UNCHANGED <<state, ipc, hbuf, hostVars, xfer, complete, cframes, avail>>
  BY DEF dai_dma_cb, Played
<1>1. /\ dbuf \in Buffers /\ copied \in 1 .. Period /\ hw \in Nat
      /\ last_bytes \in 0 .. Period /\ lead \in Int
  BY BufferTypes, Sizes
<1>. HIDE DEF copied
<1>2. /\ dbuf' \in Buffers /\ dbuf'.w_ptr = dbuf.w_ptr /\ dbuf'.r_ptr < DaiSize
      /\ dbuf'.r_ptr = WrapPtr(dbuf.r_ptr + copied, DaiSize)
      /\ b.avail \in Nat /\ dbuf'.avail = b.avail
  BY <1>0, <1>1, Sizes, PlayedFacts DEF Buffers
<1>. HIDE DEF b
<1>3. /\ state # "INIT" /\ (~On => ipc = "stopping")
      /\ dai \in {"RUNNING", "PAUSED"} /\ dai' # "INIT"
      /\ chan' # "idle" <=> ~ended
  BY <1>0 DEF Control, TypeOK, States
<1>4. TypeOK'
  <2>1. last_bytes' \in 0 .. Period BY <1>0, <1>1, <1>2, Sizes
  <2>2. hw' \in 0 .. DaiSize
    <3>1. hw + Period \in Nat /\ DaiSize \in Nat \ {0} BY <1>1, Sizes
    <3>2. WrapPtr(hw + Period, DaiSize) \in 0 .. DaiSize BY <3>1, WrapFacts
    <3>. QED BY <1>0, <3>2 DEF TypeOK
  <2>3. lead' \in Int BY <1>0, <1>1, Sizes DEF Track
  <2>4. upset' \subseteq Events BY <1>0 DEF TypeOK, Events
  <2>5. dai' \in States /\ chan' \in {"idle", "running", "pausing", "paused"}
    BY <1>0, <1>3 DEF States
  <2>6. /\ task' \in {"none", "queued", "wait", "volume", "wrap", "produce", "store"}
        /\ fault' \in {"none", "overrun", "null"}
    BY <1>0 DEF TypeOK
  <2>. QED BY <1>0, <1>2, <2>1, <2>2, <2>3, <2>4, <2>5, <2>6
           DEF TypeOK, Buffers, hostVars
<1>5. Control' BY <1>0, <1>3 DEF Control, hostVars
<1>6. ElemInv' BY <1>0 DEF ElemInv, hostVars
<1>7. RingInv' BY <1>0, <1>2 DEF RingInv
<1>8. HostAtRest' /\ HostRuns'
  BY <1>0 DEF HostAtRest, HostRuns, Whole, hostVars
<1>9. HostRing' BY <1>0 DEF HostRing, Timely, hostVars
<1>10. DaiWrites' BY <1>0, <1>2 DEF DaiWrites, Timely
<1>11. ASSUME upset' = {}
       PROVE  /\ upset = {} /\ On /\ copied = Period
              /\ last_bytes' = 0 /\ ~short /\ b.avail = lead - Period
              /\ ~ended => /\ lead - Period \in DaiEnds
                           /\ b.r_ptr + (lead - Period)
                                \in {dbuf.w_ptr, dbuf.w_ptr + DaiSize}
  <2>1. upset = {} /\ On BY <1>0, <1>3, <1>11
  <2>2. copied = Period /\ last_bytes = 0 BY <2>1 DEF DaiReads, copied
  <2>3. /\ b.avail = lead - Period /\ (b.avail = 0 \/ lead - Period \in DaiEnds)
        /\ b.r_ptr + (lead - Period) \in {dbuf.w_ptr, dbuf.w_ptr + DaiSize}
    BY <1>0, <2>1, <2>2, DaiConsume DEF b
  <2>. QED BY <1>0, <1>2, <2>1, <2>2, <2>3, Sizes, Ended
<1>12. DaiReads'
  <2>1. (upset' = {} /\ On' /\ chan' # "idle") =>
          /\ dbuf'.r_ptr + Period \in DaiEnds
          /\ dbuf'.r_ptr = IF chan' = "paused" THEN WrapPtr(hw' + Period, DaiSize)
                           ELSE hw'
    <3>. SUFFICES ASSUME upset' = {}, chan' # "idle"
                  PROVE  /\ dbuf'.r_ptr + Period \in DaiEnds
                         /\ dbuf'.r_ptr = IF chan' = "paused"
                                          THEN WrapPtr(hw' + Period, DaiSize)
                                          ELSE hw'
      OBVIOUS
    <3>1. ~ended /\ ~short /\ copied = Period BY <1>3, <1>11
    <3>2. hw = dbuf.r_ptr /\ dbuf.r_ptr + Period \in DaiEnds
      BY <1>0, <1>11 DEF DaiReads
    <3>3. dbuf'.r_ptr + Period \in DaiEnds BY <1>2, <3>1, <3>2, Ended
    <3>. QED BY <1>0, <1>2, <3>1, <3>2, <3>3
  <2>. QED BY <1>0, <1>3, <1>11, <2>1 DEF DaiReads
<1>13. DaiRing'
  <2>. SUFFICES ASSUME upset' = {}, chan' # "idle", fault' = "none"
                PROVE  DaiRing'
    BY DEF DaiRing
  <2>1. /\ upset = {} /\ On /\ ~ended /\ ~short /\ b.avail = lead - Period
        /\ copied = Period /\ lead - Period \in DaiEnds
        /\ b.r_ptr + (lead - Period) \in {dbuf.w_ptr, dbuf.w_ptr + DaiSize}
    BY <1>3, <1>11
  <2>2. task = "none" /\ task' = "queued" BY <1>0, <2>1
  <2>3. lead' = lead - Period BY <2>1, <1>0 DEF Track
  <2>4. lead \in DaiEnds BY <1>0, <2>1 DEF DaiRing
  <2>5. lead' + Period <= DaiSize BY <2>3, <2>4, Sizes, Ended
  <2>6. dbuf' = b BY <1>0
  <2>. QED BY <1>2, <2>1, <2>2, <2>3, <2>5, <2>6 DEF DaiRing
<1>. QED BY <1>4, <1>5, <1>6, <1>7, <1>8, <1>9, <1>10, <1>12, <1>13

-----------------------------------------------------------------------------
(* Theorems *)

\* Every step preserves the invariant.
LEMMA NextInv == CopyInv /\ [Next]_vars => CopyInv'
<1>. SUFFICES ASSUME CopyInv, [Next]_vars PROVE CopyInv' OBVIOUS
<1>1. CASE UNCHANGED vars
  BY <1>1 DEF vars, hostVars, taskVars, CopyInv, TypeOK, Control, ElemInv,
              RingInv, HostAtRest, HostRuns, HostRing, DaiWrites, DaiReads,
              DaiRing, Whole, Timely, On, VolState
<1>2. Halted => UNCHANGED vars BY DEF Halted
<1>. QED
  BY <1>1, <1>2, ParamsStep, PrepareStep, StartStep, StopHostStep, StopDaiStep,
     PauseStep, PauseDaiStep,
     DaiCbStep, HostCbStep, NullStep, HostCopyStep, CopyDoneStep, ScaleStep,
     WrapStep, ProduceStep, StoreStep
     DEF Next

\* The inductive invariant.
THEOREM CopyInvariant == Spec => []CopyInv
BY InitInv, NextInv, PTL DEF Spec

\* Types: neither a transfer's size nor the rest of a split leaves a period,
\* and no position leaves its buffer, however pages, periods and late or cut
\* transfers fall.
THEOREM TypeCorrect == Spec => []TypeOK
<1>1. CopyInv => TypeOK BY DEF CopyInv
<1>. QED BY <1>1, CopyInvariant, PTL

\* host_dma_cb() keeps the DMA source, the position reported to the host, the
\* DMA target and the ring's write pointer in step, for every size of page,
\* period and ring: a stop that finds a transfer in flight alone parts them.
THEOREM HostStaysInStep == Spec => []HostInStep
<1>1. CopyInv => HostInStep
  BY DEF CopyInv, HostInStep, HostAtRest, HostRuns, Whole, On, Control
<1>. QED BY <1>1, CopyInvariant, PTL

\* Waiters are told of whole periods only, wherever page ends split them.
THEOREM PeriodsWhole == Spec => []PeriodWhole
<1>1. CopyInv => PeriodWhole
  <2>. SUFFICES ASSUME CopyInv, On, complete, "cut" \notin upset
                PROVE  src % Period = 0 /\ dest % Period = 0 /\ dest_end - dest = Period
    BY DEF PeriodWhole, On
  <2>1. dest_end - dest = Period /\ Multiple(src - dest) /\ dest_end \in HostEnds
    BY DEF CopyInv, HostRuns, ElemInv, Control, Whole, On
  <2>2. src \in Int /\ dest \in Int /\ dest_end \in Int
    BY <2>1, Sizes, Ended DEF CopyInv, TypeOK
  <2>3. Multiple(Period) /\ Multiple(dest_end)
    <3>1. Period = 1 * Period BY Sizes
    <3>. QED BY <2>1, <3>1, EndsMultiple DEF Multiple
  <2>4. Multiple(dest)
    <3>1. dest = dest_end - Period BY <2>1, <2>2, Sizes
    <3>. QED BY <2>2, <2>3, <3>1, Sizes, Multiples
  <2>5. Multiple(src)
    <3>1. PICK x \in Int : x = src - dest BY <2>2
    <3>2. src = x + dest BY <2>2, <3>1
    <3>. QED BY <2>1, <2>2, <2>4, <3>1, <3>2, Multiples
  <2>. QED BY <2>1, <2>2, <2>4, <2>5, MultipleMod
<1>. QED BY <1>1, CopyInvariant, PTL

\* volume_copy() never passes the end of a ring, for every number of periods
\* in it, provided each host transfer ended within its wait.
THEOREM CopyInBounds == Spec => []InBounds
<1>1. CopyInv => InBounds
  BY Sizes, Ended DEF CopyInv, InBounds, HostRing, DaiWrites, Control,
                       VolState, On, Timely
<1>. QED BY <1>1, CopyInvariant, PTL

\* What the pointers and avail of the DAI's ring say is what was written and
\* not yet played, for every size of the ring.
THEOREM LeadStaysExact == Spec => []LeadExact
<1>1. CopyInv => LeadExact
  <2>. SUFFICES ASSUME CopyInv, Streaming, fault = "none"
                PROVE  /\ lead \in 1 .. DaiSize
                       /\ (dbuf.w_ptr - dbuf.r_ptr - lead) % DaiSize = 0
                       /\ (task \in {"none", "queued"} /\ lead < DaiSize) =>
                            dbuf.avail = lead
                       /\ task = "store" => avail = lead
    BY DEF LeadExact
  <2>1. dbuf.w_ptr \in Nat /\ dbuf.r_ptr \in Nat /\ DaiSize \in Nat \ {0}
    BY Sizes, BufferTypes DEF CopyInv, Buffers
  <2>2. upset = {} /\ On /\ chan # "idle" BY DEF Streaming, CopyInv, Control
  <2>3. /\ lead \in DaiEnds
        /\ dbuf.r_ptr + lead \in {dbuf.w_ptr, dbuf.w_ptr + DaiSize}
        /\ (task \in {"none", "queued"} /\ lead < DaiSize) => dbuf.avail = lead
        /\ task = "store" => avail = lead
    BY <2>2 DEF CopyInv, DaiRing
  <2>4. lead \in Nat /\ Period <= lead /\ lead <= DaiSize BY <2>3, Ended
  <2>5. dbuf.w_ptr - dbuf.r_ptr - lead \in {0, -DaiSize} BY <2>1, <2>3, <2>4
  <2>6. (dbuf.w_ptr - dbuf.r_ptr - lead) % DaiSize = 0 BY <2>1, <2>5, ModFacts
  <2>. QED BY <2>3, <2>4, <2>6, Sizes
<1>. QED BY <1>1, CopyInvariant, PTL

\* The DAI's channel reads where the ring says it does.
THEOREM HwStaysInStep == Spec => []HwInStep
<1>1. CopyInv => HwInStep
  BY DEF CopyInv, HwInStep, Streaming, Control, DaiReads
<1>. QED BY <1>1, CopyInvariant, PTL

\* A DAI that takes an empty ring for the end of its stream has played every
\* byte that was written.
THEOREM EosIsHonest == Spec => EosHonest
<1>1. CopyInv /\ [Next]_vars =>
        [(dai_dma_cb /\ Streaming /\ dai' = "SETUP") => lead' = 0]_vars
  <2>. SUFFICES ASSUME CopyInv, dai_dma_cb, Streaming, dai' = "SETUP"
                PROVE  lead' = 0
    OBVIOUS
  <2>1. /\ fault = "none" /\ chan # "idle" /\ On /\ upset = {} /\ last_bytes = 0
        /\ dai # "SETUP"
    BY DEF dai_dma_cb, Streaming, CopyInv, Control, DaiReads
  <2>2. Played(Period).avail = 0 BY <2>1 DEF dai_dma_cb, Played
  <2>3. lead - Period = 0 BY <2>1, <2>2, DaiConsume
  <2>. QED BY <2>1, <2>3 DEF dai_dma_cb, Track
<1>. QED BY <1>1, CopyInvariant, PTL DEF Spec, EosHonest
=============================================================================

-------------------------------- MODULE Heap --------------------------------
(***************************************************************************)
(* The memory pools of src/lib/alloc.c: the bump allocator of the system   *)
(* zone, the runtime heap (one block map per block size) and the buffer    *)
(* heap (one block map, continuous allocations).  Every operation runs     *)
(* under memmap.lock with interrupts off and is one step.                  *)
(*                                                                         *)
(* A block map is named by its index: 0 .. RtLevels - 1 are rt_heap_map,   *)
(* smallest blocks first, and BufMap is buf_heap_map[0].  A pointer is the *)
(* map and the block it points to: the maps occupy disjoint memory, the    *)
(* buffer heap above the runtime heap.  Clients are the components and     *)
(* drivers that allocate; each holds at most one allocation and frees what *)
(* it holds at most once.                                                  *)
(***************************************************************************)
EXTENDS Integers, FiniteSets

CONSTANTS RtLevels,      \* number of runtime block maps
          Count,         \* [Maps -> number of blocks]
          BlockSize,     \* [Maps -> bytes of a block]
          SysSize,       \* HEAP_SYSTEM_SIZE
          BufSize,       \* HEAP_BUFFER_SIZE, need not be a multiple of a block
          Bytes,         \* request sizes
          Clients,
          NULL

BufMap == RtLevels
Maps == 0 .. RtLevels
Blocks(m) == 0 .. Count[m] - 1
RtMaps == 0 .. RtLevels - 1

ASSUME HeapConstants ==
  /\ RtLevels \in Nat \ {0}
  /\ Count \in [Maps -> Nat \ {0}]
  /\ BlockSize \in [Maps -> Nat \ {0}]
  /\ SysSize \in Nat
  /\ BufSize \in Nat /\ Count[BufMap] = BufSize \div BlockSize[BufMap]
  /\ Bytes \subseteq Nat \ {0}

VARIABLES
  used,          \* [Maps -> [block -> BOOLEAN]]: hdr->flags != 0
  size,          \* [Maps -> [block -> Nat]]: hdr->size
  free_count,    \* [Maps -> Int]
  first_free,    \* [Maps -> block index]
  sys_heap,      \* bytes taken from the system zone
  panicked,      \* panic(PANIC_MEM) has halted the DSP
  own,           \* [Clients -> allocation held or NULL]
  exhausted      \* history: maps all of whose blocks were in use at some time

mapVars == <<used, size, free_count, first_free, exhausted>>
vars == <<mapVars, sys_heap, panicked, own>>

Allocation(m) == [map : {m}, block : Blocks(m), len : 1 .. Count[m]]
Allocations == UNION {Allocation(m) : m \in Maps}

TypeOK ==
  /\ DOMAIN used = Maps /\ \A m \in Maps : used[m] \in [Blocks(m) -> BOOLEAN]
  /\ DOMAIN size = Maps /\ \A m \in Maps : size[m] \in [Blocks(m) -> Nat]
  /\ free_count \in [Maps -> Int]
  /\ DOMAIN first_free = Maps /\ \A m \in Maps : first_free[m] \in Blocks(m)
  /\ sys_heap \in Nat /\ panicked \in BOOLEAN
  /\ own \in [Clients -> Allocations \cup {NULL}]
  /\ exhausted \subseteq Maps

\* BLOCK_DEF and init_heap().
Init ==
  /\ used = [m \in Maps |-> [b \in Blocks(m) |-> FALSE]]
  /\ size = [m \in Maps |-> [b \in Blocks(m) |-> 0]]
  /\ free_count = Count
  /\ first_free = [m \in Maps |-> 0]
  /\ sys_heap = 0 /\ panicked = FALSE
  /\ own = [c \in Clients |-> NULL]
  /\ exhausted = {}

-----------------------------------------------------------------------------

\* Mutants of NextFree: no bound on the search, no search at all.
NextFreeUnbounded(m, u, from, keep) ==
  LET free == {i \in Blocks(m) : i >= from /\ ~u[i]}
  IN  IF free = {} THEN Count[m]
      ELSE CHOOSE i \in free : \A j \in free : i <= j

NextFreeStuck(m, u, from, keep) == keep

\* "find next free": the first free block at or after from, else keep.
NextFree(m, u, from, keep) ==
  LET free == {i \in Blocks(m) : i >= from /\ ~u[i]}
  IN  IF free = {} THEN keep
      ELSE CHOOSE i \in free : \A j \in free : i <= j

\* Blocks b .. b + n - 1 of map m are given to client c.
Take(c, m, b, n) ==
  LET u == [i \in Blocks(m) |-> used[m][i] \/ i \in b .. b + n - 1]
  IN  /\ used' = [used EXCEPT ![m] = u]
      /\ size' = [size EXCEPT ![m][b] = n]
      /\ free_count' = [free_count EXCEPT ![m] = @ - n]
      /\ first_free' = [first_free EXCEPT ![m] =
                          IF b = @ THEN NextFree(m, u, b, b) ELSE @]
      /\ own' = [own EXCEPT ![c] = [map |-> m, block |-> b, len |-> n]]
      /\ exhausted' = IF \A i \in Blocks(m) : u[i] THEN exhausted \cup {m}
                      ELSE exhausted

AllocFails == UNCHANGED <<mapVars, own>>

\* The block at first_free is taken without looking at its header.
alloc_block(c, m) == Take(c, m, first_free[m], 1)

\* Mutant of alloc_cont_blocks: remaining is off by one, so a run may start
\* where its last block lies past the end of the map.
ContPastEnd(c, m, bytes) ==
  LET whole == bytes \div BlockSize[m]
      count == whole + (IF bytes % BlockSize[m] # 0 THEN 1 ELSE 0)
      starts == {s \in first_free[m] .. Count[m] - whole :
                   \A k \in s .. s + count - 1 : k \in Blocks(m) => ~used[m][k]}
  IN  \/ starts = {} /\ AllocFails
      \/ \E s \in starts : s \in Blocks(m) /\ Take(c, m, s, count)

\* remaining is computed before count is rounded up, so an allocation of whole
\* blocks is never placed at the very end of the map.
alloc_cont_blocks(c, m, bytes) ==
  LET whole == bytes \div BlockSize[m]
      count == whole + (IF bytes % BlockSize[m] # 0 THEN 1 ELSE 0)
      remaining == Count[m] - whole
      starts == {s \in first_free[m] .. remaining - 1 :
                   \A k \in s .. s + count - 1 : ~used[m][k]}
  IN  \/ starts = {} /\ AllocFails
      \/ \E s \in starts : /\ \A t \in starts : s <= t
                           /\ Take(c, m, s, count)

Fits(m, bytes) == BlockSize[m] >= bytes /\ free_count[m] # 0

\* rmalloc(RZONE_RUNTIME): the smallest block size that fits and has a block.
RmallocRuntime(c, bytes) ==
  /\ own[c] = NULL /\ ~panicked
  /\ \/ /\ \A m \in RtMaps : ~Fits(m, bytes)
        /\ AllocFails
     \/ \E m \in RtMaps : /\ Fits(m, bytes)
                          /\ \A l \in 0 .. m - 1 : ~Fits(l, bytes)
                          /\ alloc_block(c, m)
  /\ UNCHANGED <<sys_heap, panicked>>

\* rballoc(): a single block when the request fits one, else a continuous run.
\* buffer_new() has checked the size against the buffer heap.
Rballoc(c, bytes) ==
  /\ own[c] = NULL /\ ~panicked
  /\ bytes <= BufSize
  /\ \/ Fits(BufMap, bytes) /\ alloc_block(c, BufMap)
     \/ ~Fits(BufMap, bytes) /\ alloc_cont_blocks(c, BufMap, bytes)
  /\ UNCHANGED <<sys_heap, panicked>>

\* rmalloc(RZONE_SYS): "always succeeds or panics".
RmallocSys(bytes) ==
  /\ ~panicked
  /\ sys_heap' = sys_heap + bytes
  /\ panicked' = (sys_heap' >= SysSize)
  /\ UNCHANGED <<mapVars, own>>

\* The search of free_block() for the pointer's map compares it with the bases
\* of neighbouring runtime maps, so it never finds the last runtime map or the
\* buffer map.
Found(p) == p.map < RtLevels - 1

\* Mutants of free_block: first_free is moved up as well as down; the freed
\* block is not counted.
FreeMovesUp(p) ==
  \/ ~Found(p) /\ UNCHANGED mapVars
  \/ /\ Found(p)
     /\ first_free' = [first_free EXCEPT ![p.map] = p.block]
     /\ exhausted' = exhausted
     /\ used' = [used EXCEPT ![p.map][p.block] = FALSE]
     /\ size' = [size EXCEPT ![p.map][p.block] = 0]
     /\ free_count' = [free_count EXCEPT ![p.map] = @ + 1]

FreeUncounted(p) ==
  \/ ~Found(p) /\ UNCHANGED mapVars
  \/ /\ Found(p)
     /\ first_free' = [first_free EXCEPT ![p.map] =
                         IF p.block < @ THEN p.block ELSE @]
     /\ used' = [used EXCEPT ![p.map][p.block] = FALSE]
     /\ size' = [size EXCEPT ![p.map][p.block] = 0]
     /\ UNCHANGED <<free_count, exhausted>>

\* The loop over the run reads hdr->size again after clearing it: it frees one
\* block, or none when the header's size was already 0.
free_block(p) ==
  \/ ~Found(p) /\ UNCHANGED mapVars
  \/ /\ Found(p)
     /\ first_free' = [first_free EXCEPT ![p.map] =
                         IF p.block < @ THEN p.block ELSE @]
     /\ exhausted' = exhausted
     /\ \/ /\ size[p.map][p.block] = 0
           /\ UNCHANGED <<used, size, free_count>>
        \/ /\ size[p.map][p.block] > 0
           /\ used' = [used EXCEPT ![p.map][p.block] = FALSE]
           /\ size' = [size EXCEPT ![p.map][p.block] = 0]
           /\ free_count' = [free_count EXCEPT ![p.map] = @ + 1]

\* rfree() and rbfree()
Rfree(c) ==
  /\ own[c] # NULL /\ ~panicked
  /\ free_block(own[c])
  /\ own' = [own EXCEPT ![c] = NULL]
  /\ UNCHANGED <<sys_heap, panicked>>

Next ==
  \/ \E c \in Clients, n \in Bytes : RmallocRuntime(c, n) \/ Rballoc(c, n)
  \/ \E n \in Bytes : RmallocSys(n)
  \/ \E c \in Clients : Rfree(c)

Spec == Init /\ [][Next]_vars

-----------------------------------------------------------------------------
(* Properties *)

Covers(p, m, b) == p # NULL /\ p.map = m /\ b \in p.block .. p.block + p.len - 1

DisjointIn(m) ==
  \A b \in Blocks(m) : \A c, d \in Clients :
    Covers(own[c], m, b) /\ Covers(own[d], m, b) => c = d

\* As long as a map has never been completely in use, no block of it is handed
\* out twice; a map whose blocks free_block() never finds keeps this for good.
DisjointUntilExhausted ==
  \A m \in Maps : m \notin exhausted \/ m >= RtLevels - 1 => DisjointIn(m)

\* first_free is "index of first free block": exactly the lowest free block
\* while the map has never been exhausted, whatever was allocated and freed.
FirstFreeExact ==
  \A m \in Maps \ exhausted :
    /\ ~used[m][first_free[m]]
    /\ \A b \in Blocks(m) : b < first_free[m] => used[m][b]

\* free_count counts the blocks that are not in use, so a request is refused
\* only when no block is left and never granted from a full map.
FreeCountExact ==
  \A m \in Maps : m \notin exhausted \/ m >= RtLevels - 1 =>
    free_count[m] = Cardinality({b \in Blocks(m) : ~used[m][b]})

\* What a client holds lies inside its map and is marked in use there, until
\* the map has been exhausted: nobody else's rfree() released it.
HeldBlocksInUse ==
  \A c \in Clients : own[c] # NULL =>
    /\ own[c].block + own[c].len <= Count[own[c].map]
    /\ own[c].map \notin exhausted =>
         \A b \in own[c].block .. own[c].block + own[c].len - 1 :
           used[own[c].map][b]

\* No block is handed out twice, exhausted or not.
Disjoint == \A m \in Maps : DisjointIn(m)

\* "memory is freed on calls to rfree()": a block in use is held by a client.
NoLeak == \A m \in Maps : \A b \in Blocks(m) :
            used[m][b] => \E c \in Clients : Covers(own[c], m, b)
=============================================================================

----------------------------- MODULE CompBuffer -----------------------------
(***************************************************************************)
(* The ring buffer between two components (src/include/reef/audio/         *)
(* buffer.h).  Pointers are offsets from buffer->addr; size is the         *)
(* distance from addr to end_addr, which is ipc_buffer.size.               *)
(***************************************************************************)
EXTENDS Integers

\* buffer_new(), comp_buffer_reset(): an empty ring.
EmptyBuffer(size) == [w_ptr |-> 0, r_ptr |-> 0, avail |-> 0, free |-> size]

\* Mutant of WrapPtr: the end itself is taken for an offset of the ring.
WrapLate(p, size) == IF p > size THEN 0 ELSE p

\* The end-of-buffer test of every client: back to addr, whatever the excess.
WrapPtr(p, size) == IF p >= size THEN 0 ELSE p

\* Bytes from the read pointer to the write pointer when these differ.
Between(b, size) ==
  IF b.r_ptr < b.w_ptr THEN b.w_ptr - b.r_ptr ELSE size - b.r_ptr + b.w_ptr

SetAvail(b, avail, size) == [b EXCEPT !.avail = avail, !.free = size - avail]

\* Mutant of comp_update_buffer_produce: equal pointers mean empty here too.
ProduceEqualIsEmpty(b, size) ==
  SetAvail(b, IF b.r_ptr = b.w_ptr THEN 0 ELSE Between(b, size), size)

\* Equal pointers mean full after a write...
comp_update_buffer_produce(b, size) ==
  SetAvail(b, IF b.r_ptr = b.w_ptr THEN size ELSE Between(b, size), size)

\* ...and empty after a read.
comp_update_buffer_consume(b, size) ==
  SetAvail(b, IF b.r_ptr = b.w_ptr THEN 0 ELSE Between(b, size), size)
=============================================================================

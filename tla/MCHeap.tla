------------------------------- MODULE MCHeap -------------------------------
(* Instance of Heap for TLC: two runtime maps of three and two blocks of one *)
(* and two bytes, and a buffer map of four two-byte blocks.                  *)
EXTENDS Heap, TLC

MCCount == (0 :> 3) @@ (1 :> 2) @@ (2 :> 4)
MCBlockSize == (0 :> 1) @@ (1 :> 2) @@ (2 :> 2)

ClientSymmetry == Permutations(Clients)
=============================================================================

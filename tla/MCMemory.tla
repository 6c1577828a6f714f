------------------------------- MODULE MCMemory -------------------------------
(***************************************************************************)
(* Both allocators with two threads: pools of two blocks, an object pool   *)
(* of two nodes, and other memory of a size next to the boundary of a      *)
(* pool.  The buffer of the object pool (80 bytes) is a block of the pool  *)
(* of 128; a node made when the object pool is used up (40 bytes) and the  *)
(* other memory (64 bytes) are blocks of the pool of 64.                   *)
(***************************************************************************)
EXTENDS CELLObjectPool, TLC

Symmetry == Permutations(Threads) \cup Permutations(Heap)
===============================================================================

----------------------------- MODULE MCAllocator -----------------------------
(* Instances of PlasmaAllocator for TLC.                                   *)
EXTENDS PlasmaAllocator, TLC

(* A zero-byte request, and sizes that split the pool and fill it.         *)
MCSizes == {0, 1, 2, 3}

(* With IntMax = 4 an int holds -4 .. 3: the pool stands for one larger   *)
(* than 2 GiB, and some regions for ones of that size.                     *)
LargePoolSizes == {1, 2, 3, 5}

(* Owners only name blocks, so they may be permuted.                       *)
Symmetry == Permutations(Owner)
=============================================================================

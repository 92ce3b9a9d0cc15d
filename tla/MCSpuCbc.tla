------------------------------ MODULE MCSpuCbc ------------------------------
(* Instance of SpuCbc for TLC: requests of up to three blocks, chunks of    *)
(* two, so that a request spans chunks of different lengths.  Threads and   *)
(* keys are interchangeable.                                                *)
EXTENDS SpuCbc, TLC
CONSTANTS c1, c2, k1, k2

Symmetry == Permutations(Callers) \cup Permutations(Keys)
=============================================================================

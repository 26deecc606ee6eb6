----------------------------- MODULE MCPagedKv ------------------------------
(* A small instance of PagedKv: decode steps of one position and a prefill   *)
(* of three, which from a tail of one fills two blocks at once.              *)
EXTENDS PagedKv

CONSTANTS c1, c2, x, y, z

MCCaches == {c1, c2}
MCContent == {x, y, z}
MCChunks == {<<x>>, <<y, z, x>>}
Symmetry == Permutations(MCCaches)
=============================================================================

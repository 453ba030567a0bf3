--------------------------- MODULE MCDynamicIndex ---------------------------
(* Instances of DynamicIndex for TLC: as many threads as tags and a slot      *)
(* fewer, so that the index fills up and a released slot is used again by    *)
(* another tag.                                                              *)
EXTENDS DynamicIndex, TLC

Symmetry == Permutations(Tags) \cup Permutations(Threads)
=============================================================================

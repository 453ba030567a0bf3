---------------------------- MODULE MCIndexSave ----------------------------
(* Instances of IndexSave for TLC.  Tags are interchangeable.                *)
EXTENDS IndexSave, TLC

Symmetry == Permutations(Tags)
MCSetups == {[capacities |-> {1, 3}, faults |-> {}, saves |-> 1],
             [capacities |-> {1, 2}, faults |-> {"throw", "crash"}, saves |-> 2]}
=============================================================================

---------------------------- MODULE MCIndexGraph ----------------------------
(* Instances of IndexGraph for TLC.  No graph property reads outcome or       *)
(* data_store and no action's guard does, so states that differ only there   *)
(* are one.                                                                  *)
EXTENDS IndexGraph, TLC

Symmetry == Permutations(Tags) \cup Permutations(Threads)

GraphView ==
    <<conc_consolidate, setup, slotVars, lockVars, pc, localVars, graphVars>>

\* Two calls race over lists so short that every back-link needs pruning; and one
\* call at a time over lists that are never pruned, with deletions in between.
MCSetups == {[degree |-> 1, slack |-> 1, modes |-> {FALSE}, callers |-> 2],
             [degree |-> 4, slack |-> 5, modes |-> {FALSE, TRUE}, callers |-> 1]}
=============================================================================

---------------------------- MODULE MCDiskSearch ----------------------------
(* Instances of DiskSearch for TLC: four points on a line that must be       *)
(* sharded, and three labelled points of which one is broken up.             *)
EXTENDS DiskSearch

Line == [coord |-> <<<<0, 0>>, <<1, 0>>, <<3, 0>>, <<4, 0>>>>, labels |-> <<<<>>, <<>>, <<>>, <<>>>>,
         density |-> 0, budget |-> 3, sample |-> {0, 1, 3}, share |-> <<3, 4>>, calls |-> 1, warm |-> <<>>]
Small == [Line EXCEPT !.budget = 4, !.calls = 2, !.warm = <<<<1, 0>>, <<4, 0>>>>]
Crowded == [Line EXCEPT !.budget = 2, !.sample = {0, 1, 2}, !.share = <<1, 1>>]
Labelled == [coord |-> <<<<0, 0>>, <<2, 0>>, <<3, 0>>>>, labels |-> <<<<1, 2, 3>>, <<2>>, <<0>>>>,
             density |-> 2, budget |-> 3, sample |-> {0, 2}, share |-> <<2, 4>>, calls |-> 1, warm |-> <<<<3, 0>>, <<0, 0>>>>]
MCSetups == {Line, Small, Crowded, Labelled}

Others(n, i) == SelectSeq([j \in 1 .. n |-> j - 1], LAMBDA j : j # i)
Ring(n) == [i \in 0 .. n - 1 |-> IF n = 1 THEN <<>> ELSE <<(i + 1) % n>>]
Full(n) == [i \in 0 .. n - 1 |-> Others(n, i)]
MCGraphs(n) == {[lists |-> Ring(n), entry |-> 0], [lists |-> Full(n), entry |-> n - 1]}
Spread(n, ps) == [r \in 0 .. n - 1 |-> {r % ps, (r + 1) % ps}]
(* With three centres, which are alike, the first row is near the first two. *)
MCNearest(rws, ps) ==
    IF ps = 3 THEN {f \in [DOMAIN rws -> kSubset(2, 0 .. 2)] : f[0] = {0, 1}}
    ELSE {Spread(Cardinality(DOMAIN rws), ps)}
MCQuantized(p) == <<2 * (p[1] \div 2), p[2]>>
MCSearches ==
    {[place |-> p, label |-> {}, k |-> 2, l |-> 2, beam |-> b, limit |-> 9, reorder |-> FALSE] : p \in {<<1, 0>>, <<4, 0>>}, b \in {1, 2}}
      \cup {[place |-> <<1, 0>>, label |-> {}, k |-> 2, l |-> 3, beam |-> 2, limit |-> 1, reorder |-> FALSE]}
      \cup {[place |-> <<3, 0>>, label |-> {}, k |-> 1, l |-> 4, beam |-> 1, limit |-> 9, reorder |-> TRUE]}
      \cup {[place |-> <<3, 0>>, label |-> {lb}, k |-> 3, l |-> 3, beam |-> 2, limit |-> 9, reorder |-> FALSE] : lb \in {1, 2}}
=============================================================================

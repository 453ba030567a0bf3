---------------------------- MODULE MCGraphBuild ----------------------------
(* Instances of GraphBuild for TLC: a line with a duplicate, a square with a *)
(* centre, and a labelled layout with a point of the universal label.        *)
EXTENDS GraphBuild

At(places) == [r \in 0 .. Len(places) - 1 |-> places[r + 1]]
NoLabels == [r \in 0 .. 5 |-> <<>>]
Line == [coord |-> At(<<<<0, 0>>, <<2, 0>>, <<2, 0>>, <<3, 1>>, <<5, 0>>>>), labels |-> NoLabels,
         filtered |-> FALSE, saturate |-> FALSE, nd |-> 5, capacity |-> 5, frozen |-> 0]
Frozen == [Line EXCEPT !.frozen = 1, !.saturate = TRUE, !.nd = 4,
                       !.coord = At(<<<<1, 0>>, <<3, 1>>, <<3, 0>>, <<2, 2>>, <<0, 0>>, <<0, 0>>>>)]
Labelled == [Line EXCEPT !.filtered = TRUE, !.nd = 4, !.capacity = 4,
                         !.coord = At(<<<<0, 0>>, <<4, 0>>, <<5, 0>>, <<1, 3>>>>),
                         !.labels = At(<<<<1>>, <<1>>, <<1, 2>>, <<0>>>>)]
MCLayouts == {Line, Frozen, Labelled}
MCLidFiles == {<<>>, <<1, 3, 2, 1, 2>>}
MCRounds == <<100, 120, 144>>
MCQueries == {<<1, 1>>, <<4, 2>>}
=============================================================================

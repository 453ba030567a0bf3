-------------------------- MODULE MCFilteredIndex --------------------------
(* Instances of FilteredIndex for TLC.                                       *)
EXTENDS FilteredIndex, TLC

MCOffers == {<<1>>, <<2>>, <<1, 2>>, <<0>>}

Callers(points, frozen, conc, universal, offers) ==
    [user |-> "callers", max_points |-> points, num_frozen |-> frozen, conc |-> conc,
     universal |-> universal, tags |-> 1 .. points, offers |-> offers, call |-> None]

Stitching == [Callers(2, 2, FALSE, FALSE, {}) EXCEPT !.user = "stitching"]

\* The window, with the whole file and with four of its points.
Stream(max, fields) ==
    [Callers(Capacity, 2, FALSE, FALSE, {}) EXCEPT !.user = "streaming",
     !.call = fields @@ [max_points |-> max, complete |-> TRUE, start_point_norm |-> TRUE,
               label_type |-> "uint", data_type |-> "float", dist_fn |-> "l2"]]
Streams ==
    {Stream(0, <<>>), Stream(4, <<>>), Stream(7, <<>>), Stream(1, <<>>),
     Stream(0, [complete |-> FALSE]), Stream(0, [dist_fn |-> "cosine"])}

\* Of the six rows, with one skipped or none: batches of two, three rows or four or
\* more than there are, none, two or three deleted, at once or later.  Snapshots of
\* labelled indexes that are full, and of others before the last batch.
Driver(max, fields) ==
    LET call == fields @@ [max_points |-> max, skip |-> 1, beginning |-> 0, per |-> 2,
                  per_snapshot |-> 0, delete |-> 2, delete_after |-> 0, do_concurrent |-> FALSE,
                  labels |-> FALSE, complete |-> TRUE, start_point_norm |-> TRUE, data_type |-> "float"]
    IN  [Callers(IF max = 0 THEN 1 ELSE max, 2, call.do_concurrent, FALSE, {})
            EXCEPT !.user = "insert_deletes", !.call = call]
Drivers ==
    {Driver(max, [do_concurrent |-> conc, delete |-> del, labels |-> labels, delete_after |-> after]) :
        max \in {3, 4}, conc \in BOOLEAN, del \in {0, 3}, labels \in BOOLEAN, after \in {0, 4, 9}}
    \cup {Driver(max, [do_concurrent |-> conc, delete |-> del]) :
              max \in {0, 6}, conc \in BOOLEAN, del \in {0, 2}}
    \cup {Driver(3, [do_concurrent |-> conc, beginning |-> n, delete |-> del]) :
              conc \in BOOLEAN, n \in {1, 3}, del \in {0, 2}}
    \cup {Driver(4, [per_snapshot |-> 1, beginning |-> 3]), Driver(4, [per_snapshot |-> 2, labels |-> TRUE]),
          Driver(4, [per_snapshot |-> 1, labels |-> TRUE, per |-> 3]),
          Driver(4, [per_snapshot |-> 1, labels |-> TRUE]),
          Driver(3, [skip |-> 7]), Driver(3, [complete |-> FALSE]), Driver(3, [data_type |-> "int16"]),
          Driver(3, [start_point_norm |-> FALSE])}

\* Two labels over both frozen points in either mode; frozen points that run out
\* half-way through a point's labels; the universal label; three slots, so that
\* compaction moves more than one point.
MCConfigs ==
    {Callers(2, 2, conc, FALSE, {<<1>>, <<2>>, <<1, 2>>}) : conc \in BOOLEAN}
    \cup {Callers(2, 1, FALSE, FALSE, {<<1>>, <<1, 2>>}),
          Callers(2, 2, FALSE, TRUE, {<<1>>, <<0>>}),
          Callers(3, 2, FALSE, FALSE, {<<1>>, <<2>>}),
          Stitching}
    \cup Streams \cup Drivers

\* The labels of six points: five batches of one after a window of one, so that
\* there are more points than slots.
MCFileTwoLabels == <<<<1>>, <<2>>, <<1, 2>>, <<1>>, <<2>>, <<1>>>>

\* Three points, with a point of two labels, a universal one or both.
MCLabelled == {<<{1}, {1, 2}, {0}>>, <<{2}, {0}, {1, 2}>>, <<{1}, {1, 2}, {2}>>}
=============================================================================

--------------------------- MODULE MCSearchTools ---------------------------
(* Instances of SearchTools for TLC.  Evaluation: points and queries on a    *)
(* line with equal distances, parts of two points, a last part of one.       *)
(* Ranges: lists of up to four among two to five points.  Servers: two       *)
(* clients, one to three indexes with and without tags.                      *)
EXTENDS SearchTools

Plain == [complete |-> TRUE, points |-> <<0>>, queries |-> <<1>>, metric |-> "l2", tool |-> "plain", k |-> 2,
          labels |-> <<>>, filters |-> <<>>, universal |-> 0, tags |-> <<>>]
MCLines == {[Plain EXCEPT !.points = <<1>> \o ps] : ps \in [1 .. 3 -> 0 .. 2]}
MCOdd == {[Plain EXCEPT !.points = ps, !.metric = m, !.k = 3] : ps \in [1 .. 3 -> 0 .. 2], m \in {"l2", "mips"}}
MCTagged == {[Plain EXCEPT !.points = ps, !.tags = ts, !.k = k] :
                ps \in [1 .. 2 -> {0, 2}], ts \in {<<7, 0>>, <<0, 7>>, <<5, 6>>}, k \in {1, 2}}
            \cup {[Plain EXCEPT !.points = <<0, 2, 1, 1>>, !.tags = ts, !.k = k] :
                     ts \in {<<0, 7, 5, 6>>, <<5, 7, 0, 6>>}, k \in {1, 2}}
MCFilters == {[Plain EXCEPT !.points = <<0, 2, 1, 0, 2>>, !.queries = <<1, 0>>, !.tool = "filters", !.filters = fs,
                            !.labels = ls] :
                 fs \in {<<>>, <<1>>, <<1, 2>>, <<2, 1>>, <<2, 2>>},
                 ls \in {<<{1}, {1, 2}, {1}, {2}, {2}>>, <<{1}, {2}, {1}, {1}, {1}>>, <<{0}, {1}, {2}, {1, 2}, {2}>>}}
MCTagsShort == {[Plain EXCEPT !.points = <<0, 2, 1>>, !.queries = <<1, 0>>, !.tags = <<4, 5, 6>>]}
MCTagsParts == {[Plain EXCEPT !.points = <<0, 2, 1, p>>, !.queries = qs, !.tags = <<4, 5, 6, 3>>] :
                    p \in {1, 2}, qs \in {<<1>>, <<1, 0>>}}
MCRefused == {[Plain EXCEPT !.complete = FALSE], [Plain EXCEPT !.metric = "fast_l2"]}
MCCommands == MCRefused \cup MCTagsParts \cup MCLines \cup MCOdd \cup MCTagged \cup MCFilters \cup MCTagsShort

Usual == [complete |-> TRUE, driver |-> "memory", data_type |-> "float", dist_fn |-> "l2", recall_at |-> 2, lvec |-> <<2>>,
          all |-> TRUE, below |-> 50, dynamic |-> FALSE, filters |-> 0, gt |-> TRUE]
MCEvaluations(c) ==
    LET one == [Usual EXCEPT !.recall_at = c.k]
    IN  {[Usual EXCEPT !.driver = d, !.recall_at = IF Len(c.queries) = 1 /\ c.k > 1 THEN 2 ELSE 1, !.lvec = lv,
                       !.all = d = "memory"] :
            d \in IF c.tags = <<>> THEN {"memory", "disk"} ELSE {"memory"},
            lv \in IF c.k = 2 /\ (Len(c.queries) = 1 \/ c.tags # <<>>) THEN {<<3, 1, 2>>, <<1, 2>>} ELSE {<<2>>}}
        \cup IF Len(c.points) # 2 THEN {}
             ELSE {[one EXCEPT !.driver = d, !.dist_fn = f, !.data_type = "int8"] :
                       d \in {"memory", "disk"}, f \in {"mips", "fast_l2"}}
                  \cup {[one EXCEPT !.complete = FALSE], [one EXCEPT !.dynamic = TRUE],
                        [one EXCEPT !.filters = 5], [one EXCEPT !.gt = FALSE]}

Distances(d) == [p \in 0 .. Len(d) - 1 |-> d[p + 1]]
Search0 == [complete |-> TRUE, data_type |-> "float", dist_fn |-> "l2", range |-> 2, lvec |-> <<1, 2>>, truth |-> Absent,
            exact |-> TRUE, rangeDist |-> <<>>]
MCRangeCommands ==
    {[Search0 EXCEPT !.rangeDist = <<Distances(d)>>, !.lvec = lv] : d \in [1 .. 5 -> {1, 3}], lv \in {<<1>>, <<2>>}}
    \cup {[Search0 EXCEPT !.rangeDist = <<Distances(<<1, 1, 1, 1, 3>>), Distances(<<1, 3, 3, 1, 1>>)>>, !.lvec = <<2>>]}
    \cup {[Search0 EXCEPT !.rangeDist = <<Distances(<<1, 3, 1>>), Distances(<<1, 2, 3>>)>>, !.exact = FALSE,
                          !.truth = <<{0, 2}, {1}>>, !.dist_fn = f, !.data_type = t] :
              f \in {"l2", "mips", "fast_l2"}, t \in {"float", "int8"}}
    \cup {[Search0 EXCEPT !.rangeDist = <<Distances(<<1, 3>>)>>, !.truth = t, !.complete = b] :
              t \in {<<{0}>>, <<{0}, {1}>>}, b \in BOOLEAN}

Part(d, n) == [dist |-> Distances(d), tags |-> n]
Service(p, parts) == [complete |-> TRUE, program |-> p, data_type |-> "float", dist_fn |-> "l2", parts |-> parts]
Multi(parts) == Service("multiple_ssdindex_server", parts)
One == <<Part(<<2, 1, 2>>, 3)>>
MCServices ==
    {Service("inmem_server", One), Service("ssd_server", <<Part(<<1, 2, 2>>, 1)>>),
     Multi(<<Part(<<1, 3>>, 2), Part(<<2, 2>>, 2), Part(<<1, 4>>, 2)>>), Service("inmem_server", <<Part(<<1, 2>>, Null)>>),
     Multi(<<Part(<<1, 2>>, 2), Part(<<2, 1>>, 2)>>), Multi(<<Part(<<2, 3>>, 2), Part(<<1>>, 1)>>),
     Multi(<<Part(<<1, 2>>, 2), Part(<<2, 1>>, Missing)>>), Multi(<<Part(<<1, 2>>, 2), Part(<<2, 1>>, Null)>>),
     Multi(<<Part(<<1, 2>>, Null), Part(<<2, 1>>, 2)>>),
     [Multi(<<Part(<<1, 2>>, 2), Part(<<3, 4>>, 2)>>) EXCEPT !.dist_fn = "mips"]}
    \cup {[Service(p, One) EXCEPT !.data_type = t] : p \in {"inmem_server", "ssd_server"}, t \in {"int8", "int8_t", "double"}}
    \cup {[Service("ssd_server", One) EXCEPT !.dist_fn = "cosine"], [Service("ssd_server", One) EXCEPT !.complete = FALSE]}

Ask0 == [query |-> 1, id |-> 7, Ls |-> 3, k |-> 2]
MCBodies(c) ==
    IF c = 1 THEN <<Ask0, [Ask0 EXCEPT !.k = 3, !.Ls = 2]>>
    ELSE <<[Ask0 EXCEPT !.k = 1, !.id = Missing, !.Ls = Missing], [Ask0 EXCEPT !.query = Missing], [Ask0 EXCEPT !.query = 0],
           [Ask0 EXCEPT !.k = Missing], [Ask0 EXCEPT !.k = -1]>>
=============================================================================

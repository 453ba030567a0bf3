-------------------------- MODULE MCDiskIndexFiles --------------------------
(* Instances of DiskIndexFiles for TLC: data of two or three rows and two    *)
(* dimensions, every option in some request, any of them over any other.     *)
EXTENDS DiskIndexFiles

Plain == [form |-> "standard", float |-> TRUE, rows |-> 2, dim |-> 2, metric |-> "l2", B |-> 4, M |-> TRUE, shards |-> 0,
          disk_PQ |-> 0, reorder |-> FALSE, QD |-> 0, opq |-> FALSE, lid_path |-> TRUE, labels |-> FALSE,
          universal |-> FALSE, dummies |-> -1]
MCStandard ==
    {Plain, [Plain EXCEPT !.rows = 3, !.shards = 2], [Plain EXCEPT !.shards = 3],
     [Plain EXCEPT !.rows = 3, !.metric = "mips", !.opq = TRUE],
     [Plain EXCEPT !.metric = "cosine", !.B = 1],
     [Plain EXCEPT !.disk_PQ = 1, !.reorder = TRUE, !.rows = 3],
     [Plain EXCEPT !.labels = TRUE, !.universal = TRUE],
     [Plain EXCEPT !.labels = TRUE, !.dummies = 1, !.shards = 2],
     [Plain EXCEPT !.labels = TRUE, !.rows = 3]}
MCRefused ==
    {[Plain EXCEPT !.metric = "mips", !.float = FALSE], [Plain EXCEPT !.metric = "cosine", !.M = FALSE],
     [Plain EXCEPT !.reorder = TRUE], [Plain EXCEPT !.QD = 3], [Plain EXCEPT !.disk_PQ = 3]}
MCForms ==
    {[Plain EXCEPT !.form = "amcgi", !.shards = 2], [Plain EXCEPT !.form = "amcgi", !.rows = 3, !.disk_PQ = 1],
     [Plain EXCEPT !.form = "mcgi", !.disk_PQ = 1], [Plain EXCEPT !.form = "mcgi", !.rows = 3],
     [Plain EXCEPT !.form = "mcgi", !.labels = TRUE]}
MCRequests(i) == MCStandard \cup MCForms \cup (IF i < 3 THEN MCRefused ELSE {})
=============================================================================

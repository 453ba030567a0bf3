--------------------------- MODULE MCQuantization ---------------------------
(* Instances of Quantization for TLC: four points of three dimensions, two   *)
(* centres; in one base the parts of a chunk take one value or two.          *)
EXTENDS Quantization

Wide == << <<0, 0, 48>>, <<48, 96, 0>>, <<144, 0, 0>>, <<48, 0, 96>> >>
Few == << <<0, 48, 96>>, <<48, 0, 96>>, <<0, 48, 96>> >>
Ask(kind, base, k, opq, mips) == [kind |-> kind, base |-> base, k |-> k, opq |-> opq, mips |-> mips]
MCRequests(n) ==
    CASE n = 1 -> {Ask("index", base, k, FALSE, FALSE) : base \in {Wide, Few}, k \in {1, 2, 4}}
                  \cup {Ask(kind, Few, 2, TRUE, FALSE) : kind \in {"index", "store"}}
                  \cup {Ask("index", Few, 2, FALSE, TRUE), Ask("store", Wide, 2, FALSE, FALSE)}
                  \cup {Ask("buffer", base, k, FALSE, FALSE) : base \in {Wide, Few}, k \in {1, 3}}
                  \cup {Ask("disk", base, 5, FALSE, FALSE) : base \in {Wide, Few}}
      [] n = 2 -> {Ask("index", Few, 2, TRUE, FALSE), Ask("index", Few, 1, FALSE, FALSE), Ask("index", Few, 2, FALSE, FALSE)}
      [] OTHER -> {}
MCQueries == {<<24, 7, 100>>}
MCSamples(base) == DOMAIN base
MCRotations == {<< <<1, 0, 0>>, <<0, 1, 0>>, <<0, 0, 1>> >>, << <<0, 0, 1>>, <<0, -1, 0>>, <<1, 0, 0>> >>}
=============================================================================

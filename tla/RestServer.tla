---------------------------- MODULE RestServer ----------------------------
(* The HTTP servers over an index in memory, one on disk, or one for each    *)
(* part of the data (src/apps/restapi, src/src/restapi): a program that      *)
(* loads its searchers and starts a Server, whose handlers take the requests *)
(* of several clients at a time apart, ask one searcher after the other, and *)
(* put the answers of several together.                                      *)
EXTENDS Integers, Sequences, FiniteSets, SequencesExt, Functions

CONSTANTS
    Clients,        \* programs that send one request after the other
    Services,       \* command lines: program, complete (no argument is missing), data_type,
                    \* dist_fn, and per searcher its points'
                    \* distances to the queries and its tags (their number, Null without
                    \* a file, Missing without a line for one)
    Bodies(_),      \* what a client sends, one after the other
    DefaultL,       \* DEFAULT_L, list size of a request that names none
    MaxSetups,      \* bound: how often setup is called
    Missing,        \* a key that a request lacks
    Null            \* no server, a searcher moved away, nothing yet

\* A disk index that is searched by itself has all the points; a part has some.
ASSUME ServiceAssumption ==
    /\ \A s \in Services :
          /\ s.parts = [i \in 1 .. Len(s.parts) |-> s.parts[i]] /\ Len(s.parts) \in Nat
          /\ s.program = "multiple_ssdindex_server" \/ Len(s.parts) = 1
          /\ \A i \in DOMAIN s.parts :
                /\ IsFiniteSet(DOMAIN s.parts[i].dist)
                /\ \A p \in DOMAIN s.parts[i].dist : s.parts[i].dist[p] \in Int
    /\ \A c \in Clients :
          /\ Len(Bodies(c)) \in Nat
          /\ \A n \in 1 .. Len(Bodies(c)) : Bodies(c)[n].k = Missing \/ Bodies(c)[n].k \in Int

VARIABLES
    service,        \* the command line
    phase,          \* of the program's main
    global,         \* g_inMemorySearch or g_ssdSearch: numbers of searchers, Null where moved from
    server,         \* g_httpServer
    setups,         \* how often setup was called
    answered,       \* per client: how many of its requests are over
    request         \* per client: the request under way

restVars == <<service, phase, global, server, setups, answered, request>>

Partitions == DOMAIN service.parts
PointsOf(i) == DOMAIN service.parts[i].dist
TagsOf(i) == service.parts[i].tags

NoRequest == [step |-> "none"]

RestInit ==
    /\ service \in Services
    /\ phase = "load" /\ global = <<>> /\ server = Null /\ setups = 0
    /\ answered = [c \in Clients |-> 0]
    /\ request = [c \in Clients |-> NoRequest]

(***************************************************************************)
(* The program.  Metrics besides l2 and mips are refused.  A type that is   *)
(* none of float, int8 and uint8 ends the disk servers and leaves the one   *)
(* over an index in memory without a searcher.                              *)
(***************************************************************************)
Die == phase' = "ended"
ServedMetric == service.complete /\ service.dist_fn \in {"l2", "mips"}
KnownType == service.data_type \in {"float", "int8", "uint8"}

RefuseMetric ==
    /\ phase = "load" /\ ~ServedMetric /\ Die
    /\ UNCHANGED <<service, global, server, setups, answered, request>>

LoadInMemory ==
    /\ phase = "load" /\ ServedMetric /\ service.program = "inmem_server"
    /\ global' = IF KnownType THEN <<1>> ELSE <<>>
    /\ phase' = "setup"
    /\ UNCHANGED <<service, server, setups, answered, request>>

LoadDisk ==
    /\ phase = "load" /\ ServedMetric /\ service.program = "ssd_server"
    /\ IF KnownType THEN global' = <<1>> /\ phase' = "setup" ELSE Die /\ UNCHANGED global
    /\ UNCHANGED <<service, server, setups, answered, request>>

\* Every line of the file of prefixes needs one, if an empty one, in the file of tag
\* files.
LoadDisks ==
    /\ phase = "load" /\ ServedMetric /\ service.program = "multiple_ssdindex_server"
    /\ IF KnownType /\ \A i \in Partitions : TagsOf(i) # Missing
       THEN global' = [i \in Partitions |-> i] /\ phase' = "setup"
       ELSE Die /\ UNCHANGED global
    /\ UNCHANGED <<service, server, setups, answered, request>>

(***************************************************************************)
(* setup moves the searchers into a new Server and drops the old one.  The  *)
(* Server knows the types by other names than main; its throw finds no      *)
(* server to tear down.                                                     *)
(***************************************************************************)
MovedFrom == [i \in DOMAIN global |-> Null]
ServerType == service.data_type \in {"float", "int8_t", "uint8_t"}

Setup ==
    /\ phase = "setup" /\ setups < MaxSetups
    /\ setups' = setups + 1
    /\ global' = MovedFrom
    /\ IF ServerType
       THEN /\ server' = [number |-> setups', open |-> FALSE, searchers |-> global, multi |-> Len(global) > 1]
            /\ phase' = "open"
       ELSE Die /\ UNCHANGED server
    /\ UNCHANGED <<service, answered, request>>

\* When the address cannot be had the server is torn down and set up anew.
Open ==
    /\ phase = "open"
    /\ \E had \in BOOLEAN :
          /\ phase' = IF had THEN "listening" ELSE "setup"
          /\ server' = [server EXCEPT !.open = had]
    /\ UNCHANGED <<service, global, setups, answered, request>>

(* Any line but exit, and the end of the input, sets up another server.      *)
ReadLine ==
    /\ phase = "listening"
    /\ phase' \in {"setup", "ended"}
    /\ UNCHANGED <<service, global, server, setups, answered, request>>

(***************************************************************************)
(* A client sends its next request once the last is over: answered, or      *)
(* failed for want of a server, which it reports.                           *)
(***************************************************************************)
Body(c) == Bodies(c)[answered[c] + 1]
Accepting == phase # "ended" /\ server # Null /\ server.open

Send(c) ==
    /\ request[c].step = "none" /\ answered[c] < Len(Bodies(c))
    /\ IF Accepting
       THEN /\ request' = [request EXCEPT ![c] =
                  [step |-> "parse", server |-> server.number, id |-> -1, k |-> 0, Ls |-> 0,
                   next |-> 1, results |-> <<>>, status |-> Null, answer |-> Null]]
            /\ UNCHANGED answered
       ELSE answered' = [answered EXCEPT ![c] = @ + 1] /\ UNCHANGED request
    /\ UNCHANGED <<service, phase, global, server, setups>>

(***************************************************************************)
(* handle_post.  parseJson reads the vector, the id, Ls and k in this order *)
(* and stops at the first that is missing; what it read stands in the       *)
(* error's response.  Its own two refusals are thrown as pointers, which    *)
(* only catch (...) takes.                                                  *)
(***************************************************************************)
Becomes(c, r) == request' = [request EXCEPT ![c] = r]
Failed(r, message) == [r EXCEPT !.step = "reply", !.status = "InternalError", !.answer = message]
Served(r, entries) == [r EXCEPT !.step = "reply", !.status = "OK", !.answer = entries]

IdOf(b) == IF b.id = Missing THEN -1 ELSE b.id
ListSizeOf(b) == IF b.Ls = Missing THEN DefaultL ELSE b.Ls
\* A negative k is a number above every list size when it has lost its sign.
Refused(b) == b.k <= 0 \/ b.k > ListSizeOf(b) \/ b.query = 0

Parse(c, refusal(_)) ==
    LET b == Body(c)
        read == [request[c] EXCEPT !.id = IdOf(b)]
    IN  /\ request[c].step = "parse"
        /\ IF b.query = Missing THEN Becomes(c, Failed(request[c], "what"))
           ELSE IF b.k = Missing THEN Becomes(c, Failed(read, "what"))
           ELSE IF Refused(b) THEN Becomes(c, refusal([read EXCEPT !.k = b.k]))
           ELSE Becomes(c, [read EXCEPT !.step = "search", !.k = b.k, !.Ls = ListSizeOf(b)])
        /\ UNCHANGED <<service, phase, global, server, setups, answered>>

(* A wrong variant: without catch (...) the task ends and nobody replies.    *)
ParseJsonUncaught(c) == LET thrown(r) == [r EXCEPT !.step = "thrown"] IN Parse(c, thrown)
ParseJson(c) == LET unknown(r) == Failed(r, "unknown_error") IN Parse(c, unknown)

(***************************************************************************)
(* The searchers in turn.  A searcher gives K entries; where it found fewer *)
(* points the rest is whatever the arrays held.  Inner products come back   *)
(* with their sign, larger when nearer.                                     *)
(***************************************************************************)
MyServer(c) == server # Null /\ server.number = request[c].server
Sign == IF service.dist_fn = "mips" THEN -1 ELSE 1

Found(i, k) ==
    LET d == service.parts[i].dist
        n == IF Cardinality(PointsOf(i)) < k THEN Cardinality(PointsOf(i)) ELSE k
    IN  {list \in [1 .. n -> PointsOf(i)] :
            /\ IsInjective(list)
            /\ \A a, b \in 1 .. n : a < b => d[list[a]] <= d[list[b]]
            /\ \A p \in PointsOf(i) \ Range(list) : \A a \in 1 .. n : d[list[a]] <= d[p]}

Entry(i, p) == [index |-> p, distance |-> Sign * service.parts[i].dist[p]]
LeftOver(i) == {Entry(i, p) : p \in PointsOf(i)}
SearcherAnswers(i, k) ==
    {[j \in 1 .. k |-> IF j <= Len(list) THEN Entry(i, list[j]) ELSE left] :
        list \in Found(i, k), left \in LeftOver(i)}

(* lookup_tags: an index above the number of tags throws.  One equal to it   *)
(* reads past the array, which yields anything.                              *)
HasTags(i) == TagsOf(i) # Null
TagOf(i, p) == IF HasTags(i) /\ p < TagsOf(i) THEN <<i, p>> ELSE Null
Tagged(i, list) ==
    [tags |-> HasTags(i),
     entries |-> [j \in DOMAIN list |->
                    LET e == list[j]
                    IN  [tag |-> TagOf(i, e.index), index |-> e.index, distance |-> e.distance]]]

Search(c) ==
    LET r == request[c]
    IN  /\ r.step = "search" /\ MyServer(c) /\ r.next \in DOMAIN server.searchers
        /\ LET i == server.searchers[r.next]
           IN  IF i = Null THEN Die /\ UNCHANGED request
               ELSE /\ UNCHANGED phase
                    /\ \E list \in SearcherAnswers(i, r.k) :
                         IF HasTags(i) /\ \E j \in DOMAIN list : list[j].index > TagsOf(i)
                         THEN Becomes(c, Failed(r, "what"))
                         ELSE Becomes(c, [r EXCEPT !.results = Append(@, Tagged(i, list)), !.next = @ + 1])
        /\ UNCHANGED <<service, global, server, setups, answered>>

(* aggregate_results.  A single index answers alone; without a searcher      *)
(* there is no result to take.                                               *)
NextOf(results, pos, i) == results[i].entries[pos[i]]
Taken(i, e) == [partition |-> i, tag |-> e.tag, index |-> e.index, distance |-> e.distance]
BestPartition(results, pos) ==
    LET d(i) == NextOf(results, pos, i).distance
    IN  CHOOSE i \in DOMAIN results :
            /\ \A j \in DOMAIN results : d(i) <= d(j)
            /\ \A j \in 1 .. i - 1 : d(i) < d(j)

MergeAdvancing(results, k, advance(_, _)) ==
    LET upTo[n \in 0 .. k] ==
            IF n = 0 THEN [pos |-> [i \in DOMAIN results |-> 1], out |-> <<>>]
            ELSE LET s == upTo[n - 1]
                     i == BestPartition(results, s.pos)
                 IN  [pos |-> advance(s.pos, i),
                      out |-> Append(s.out, Taken(i, NextOf(results, s.pos, i)))]
    IN  upTo[k].out

(* A wrong variant: every searcher advances, not only the one that won.      *)
MergeAll(results, k) ==
    LET all(pos, i) == [j \in DOMAIN pos |-> pos[j] + 1] IN MergeAdvancing(results, k, all)
Merge(results, k) ==
    LET winner(pos, i) == [pos EXCEPT ![i] = @ + 1] IN MergeAdvancing(results, k, winner)

\* best_tags is allocated as the first result has tags, and written as the best has.
TagsWithoutArray(results, merged) ==
    ~results[1].tags /\ \E j \in DOMAIN merged : results[merged[j].partition].tags

Aggregate(c) ==
    LET r == request[c]
    IN  /\ r.step = "search" /\ MyServer(c) /\ r.next = Len(server.searchers) + 1
        /\ IF ~server.multi
           THEN IF r.results = <<>> THEN Die /\ UNCHANGED request
                ELSE UNCHANGED phase /\ Becomes(c, Served(r, r.results[1].entries))
           ELSE LET merged == Merge(r.results, r.k)
                IN  IF TagsWithoutArray(r.results, merged) THEN Die /\ UNCHANGED request
                    ELSE UNCHANGED phase /\ Becomes(c, Served(r, merged))
        /\ UNCHANGED <<service, global, server, setups, answered>>

(* A request that outlives its server reads what is no longer there.         *)
ServerGone(c) ==
    /\ request[c].step = "search" /\ ~MyServer(c)
    /\ Die
    /\ UNCHANGED <<service, global, server, setups, answered, request>>

(* The second continuation.  A reply that cannot be delivered is reported    *)
(* and forgotten; the client sees the end of its connection.                 *)
Reply(c) ==
    /\ request[c].step = "reply"
    /\ answered' = [answered EXCEPT ![c] = @ + 1]
    /\ request' = [request EXCEPT ![c] = NoRequest]
    /\ UNCHANGED <<service, phase, global, server, setups>>

Lost(c) ==
    /\ request[c].step # "none" /\ phase = "ended"
    /\ answered' = [answered EXCEPT ![c] = @ + 1]
    /\ request' = [request EXCEPT ![c] = NoRequest]
    /\ UNCHANGED <<service, phase, global, server, setups>>

Running == phase # "ended"
Handle(c) == Running /\ (ParseJson(c) \/ Search(c) \/ Aggregate(c) \/ ServerGone(c) \/ Reply(c))
Client(c) == Send(c) \/ Handle(c) \/ Lost(c)
Main == RefuseMetric \/ LoadInMemory \/ LoadDisk \/ LoadDisks \/ Setup \/ Open \/ ReadLine

RestNext == Main \/ \E c \in Clients : Client(c)

(***************************************************************************)
(* Correctness                                                              *)
(***************************************************************************)
(* The answer of several indexes is that of one over all their points: the   *)
(* K nearest, in order, each under the index, the partition and the tag of   *)
(* one point, none twice (aggregate_results, as the partition array of       *)
(* workflows/rest_api.md is documented), provided every index has K points   *)
(* and distances are small when near.                                        *)
HavePoints(k) == \A i \in Partitions : Cardinality(PointsOf(i)) >= k
AnswersAreMerged ==
    \A c \in Clients :
        request[c].step = "reply" /\ request[c].status = "OK" /\ HavePoints(request[c].k)
            /\ Sign = 1 /\ Len(service.parts) > 1 =>
        LET a == request[c].answer
            at(j) == <<a[j].partition, a[j].index>>
            real == UNION {{<<i, p>> : p \in PointsOf(i)} : i \in Partitions}
            d(s) == service.parts[s[1]].dist[s[2]]
        IN  /\ Len(a) = request[c].k
            /\ \A j \in DOMAIN a : at(j) \in real /\ a[j].distance = d(at(j))
            /\ \A j, l \in DOMAIN a : j < l => at(j) # at(l) /\ a[j].distance <= a[l].distance
            /\ \A s \in real \ {at(j) : j \in DOMAIN a} : \A j \in DOMAIN a : a[j].distance <= d(s)
            /\ \A j \in DOMAIN a : a[j].tag # Null => a[j].tag = at(j)

(* No request of a client is forgotten: each is answered, be it with an      *)
(* error, or ends with the program (handle_post's three catch clauses).      *)
RequestsEnd == \A c \in Clients : request[c].step # "none" ~> request[c].step = "none"
=============================================================================

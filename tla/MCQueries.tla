----------------------------- MODULE MCQueries ------------------------------
EXTENDS Queries, MCChanges, MCStatements, MCFiles, MCDiscovery, MCPeriods, MCBundles

\* Three rows of two types.  Field x is indexed for one or both types, or not
\* at all; two integers share a key; one row may hold a string or nothing.
Num(n) == [kind |-> "num", of |-> n]
Str(n) == [kind |-> "str", of |-> n]
Null   == [kind |-> "null", of |-> 0]
Data ==
  {[type |-> <<"A", "B", "A">>, props |-> [n \in 1 .. 3 |-> [x |-> xs[n], y |-> rest[1][n]]], place |-> rest[2]] :
     xs \in [1 .. 3 -> {Num(2), Num(3), Str(2), Null}],
     rest \in {<<<<Num(1), Num(1), Null>>, <<9, 2, 2>>>>, <<<<Num(4), Null, Num(1)>>, <<4, 3, 0 - 1>>>>}}
Is(field, cmp, value) == [op |-> "test", field |-> field, cmp |-> cmp, value |-> value]
And(terms) == [op |-> "and", terms |-> terms]
Or(terms)  == [op |-> "or", terms |-> terms]
Wheres ==
  { <<>>, <<Is("x", "<", Num(3))>>, <<Is("x", "=", Null)>>,
    <<And(<<Is("x", ">", Num(2)), Is("y", ">=", Num(1)), Is("x", "<=", Num(3))>>)>>,
    <<Or(<<Is("x", ">", Num(2)), Is("y", "=", Num(1))>>)>>,
    <<Or(<<Is("x", "=", Str(2)), And(<<Is("x", "<", Num(3)), Is("x", "!=", Num(9))>>)>>)>>,
    <<And(<<Is("x", ">", Num(1)), Is("x", "<", Str(3))>>)>> }
By(field, desc) == [by |-> field, desc |-> desc]
Orders == { <<>>, <<By("y", TRUE)>>, <<By("x", FALSE), By("y", FALSE)>>,
            <<By("distance", FALSE), By("x", TRUE)>> }
MCSelections ==
  [data : Data, index : {{}, {<<"A", "x">>}, {<<"A", "x">>, <<"B", "x">>}},
   of : [types : {{"A", "B"}}, where : Wheres, order : Orders, limit : {0, 2, 1000}]]

\* Three nodes of one type and one of another; one kind is stored under three
\* fields.  No field leads from one type to another and back: a repeat of such a
\* one is known to fail.
Field1(type, field, dir, targets) == [type |-> type, field |-> field, kind |-> "k", dir |-> dir, targets |-> targets]
MCFields ==
  { Field1("A", "next", "out", {"A"}), Field1("B", "next", "out", {"A"}), Field1("A", "also", "out", {"B"}),
    Field1("B", "also", "out", {"B"}), Field1("A", "prev", "in", {"A"}) }
K(a, b) == [kind |-> "k", from |-> a, to |-> b]
Graphs ==
  [type : {<<"A", "A", "A", "B">>},
   rels : {r \cup {K(1, 2)} : r \in SUBSET {K(2, 1), K(1, 3), K(3, 2), K(3, 4), K(4, 2), K(1, 1)}},
   marked : {{1, 4}, {2, 3}, {1, 2, 3}}]
Hop(field, test) == [field |-> field, min |-> 0, max |-> 0, test |-> test, same |-> FALSE]
Hops(field, min, max, test) == [field |-> field, min |-> min, max |-> max, test |-> test, same |-> FALSE]
Same(field) == [field |-> field, min |-> 0, max |-> 0, test |-> FALSE, same |-> TRUE]
Chain(from, hops) == [not |-> FALSE, from |-> from, hops |-> hops]
None1 == [name |-> "", test |-> FALSE]
Plain(hops) == Chain(None1, hops)
FromSame(name, test, hops) == Chain([name |-> name, test |-> test], hops)
Not(chain) == [chain EXCEPT !.not = TRUE]
Groups ==
  { <<Plain(<<Hops("next", 1, 3, TRUE)>>)>>,
    <<Plain(<<Hops("next", 2, 3, TRUE)>>)>>,
    <<Plain(<<Hops("next", 1, 2, FALSE), Hop("next", TRUE)>>)>>,
    <<Plain(<<Hop("next", FALSE), Hops("next", 2, 2, TRUE)>>)>>,
    <<Plain(<<Hop("next", FALSE), Hop("also", TRUE)>>)>>,
    <<Plain(<<Hops("next", 1, 2, FALSE), Hop("prev", TRUE)>>), FromSame("next", TRUE, <<Hop("also", FALSE)>>)>>,
    <<Plain(<<Hop("next", FALSE), Hop("prev", TRUE)>>), FromSame("prev", TRUE, <<Same("next")>>)>>,
    <<Plain(<<Hop("next", FALSE), Hop("prev", TRUE)>>), Plain(<<Hop("prev", FALSE), Same("next")>>)>> }
\* Every group of two chains of one or two of these hops.
Loose == {Hop("next", TRUE), Hop("next", FALSE), Hop("prev", TRUE), Hops("prev", 2, 2, FALSE)}
LooseChains ==
  {Plain(<<a>>) : a \in Loose} \cup {Plain(<<a, b>>) : a \in Loose, b \in Loose \cup {Same("next"), Same("prev")}}
  \cup {FromSame(n, FALSE, <<a>>) : n \in {"next", "prev"}, a \in {Hop("next", TRUE), Hops("prev", 1, 2, FALSE)}}
LooseGroups ==
  {<<a, b>> : a \in LooseChains, b \in LooseChains} \cup {<<a, Not(b)>> : a \in {Plain(<<Hop("next", TRUE)>>)}, b \in LooseChains}
    \cup {<<Not(b), a>> : a \in {Plain(<<Hop("prev", FALSE), Same("next")>>)}, b \in LooseChains}
FewGraphs ==
  [type : {<<"A", "A", "B">>}, rels : SUBSET {K(1, 2), K(2, 1), K(3, 1)}, marked : {{1, 2}}]
MCChains ==
  [graph : Graphs, index : BOOLEAN, types : {{"A"}, {"A", "B"}}, of : Groups]
  \cup [graph : FewGraphs, index : {TRUE}, types : {{"A", "B"}}, of : LooseGroups]

\* Two nodes over five instants: changes at 1 and 3, a lifetime, and a
\* relationship that ends, that begins, or that comes and goes.
At(t, v) == [at |-> t, value |-> v]
Whole(n) == [kind |-> "int", of |-> n]
None     == [kind |-> "null", of |-> 0]
ValueChanges ==
  {<<>>} \cup {<<At(t, v)>> : t \in {1, 3}, v \in {Whole(1), Whole(2)}}
  \cup {<<At(1, v), At(3, w)>> : v \in {Whole(1), Whole(2), None}, w \in {Whole(1), Whole(2)}}
Rel(since, until) == [from |-> 1, to |-> 2, since |-> since, until |-> until]
Histories ==
  [changes : ValueChanges \X {<<>>, <<At(1, Whole(2)), At(3, Whole(1))>>},
   plain : {<<Whole(2), Whole(2)>>},
   born : {<<1000, 1000>>, <<2, 1000>>, <<1000, 2>>}, died : {<<1000, 1000>>, <<3, 1000>>, <<1000, 4>>},
   rels : {{}, {Rel(0 - 1, 2)}, {Rel(2, 1000)}, {Rel(0, 1), Rel(3, 4)}}]
Comparisons == [by : {"cmp"}, op : {">", "<="}, of : {0, 1}] \cup [by : {"eq"}, op : {"="}, of : {2}]
                 \cup [by : {"has"}, op : {">"}, of : {0, 1}]
MCTimeTests  == [history : Histories, node : {1, 2}, of : Comparisons]
MCWindows == [history : Histories, of : Comparisons, from : {0, 1}, to : {2, 4}]

\* Up to five nodes and seven edges, two of them parallel; zero weights, ties,
\* a cycle, roads without a weight, and a road shorter than its line.
Edge(from, to, rel, weight) == [from |-> from, to |-> to, rel |-> rel, weight |-> weight]
Roads(w) == { Edge(1, 2, 1, w[1]), Edge(1, 3, 2, w[2]), Edge(2, 4, 3, w[3]), Edge(3, 4, 4, w[4]),
              Edge(3, 2, 5, w[5]), Edge(2, 1, 6, 0), Edge(1, 2, 7, 1) }
Nets == {{e \in Roads(w) : e.weight < 5} : w \in {w \in [1 .. 5 -> {0, 1, 5}] : w[5] # 1}}
          \cup {Roads(w) : w \in {w \in [1 .. 5 -> {0 - 1, 1, 3}] : w[5] = 1}}
NoBound == [kind |-> "none", at |-> 0, inclusive |-> TRUE]
Cost(at, inclusive) == [kind |-> "cost", at |-> at, inclusive |-> inclusive]
Places == {<<0, 1, 2, 2>>, <<1, 0, 0 - 1, 2>>}
MCPaths ==
  [edges : Nets, start : {1}, goals : {{4}, {2, 4}, {}}, by : {"edges"}, place : {<<0, 0, 0, 0>>},
   bound : {NoBound, [kind |-> "hops", at |-> 1, inclusive |-> TRUE], Cost(4, FALSE), Cost(3, FALSE), Cost(0, FALSE)}]
  \cup
  [edges : Nets, start : {1}, goals : {{4}, {2, 4}, {1}}, by : {"weight"}, place : {<<0, 0, 0, 0>>},
   bound : {NoBound, Cost(4, TRUE), Cost(4, FALSE), Cost(0, FALSE)}]
  \cup
  [edges : Nets, start : {1}, goals : {{4}, {2, 4}}, by : {"toward"}, place : Places,
   bound : {NoBound, Cost(4, TRUE), Cost(4, FALSE)}]
\* A full chunk, others in part, far from each other and the last.
MCStoredIds == {0, 1, 2, 3, 9, 14, 17, 20, 23}
\* None yet, or what waits in the overflow map until a chunk is allocated.
MCFills == {<<>>, <<0, 9, 14, 1>>}
=============================================================================

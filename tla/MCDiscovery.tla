---------------------------- MODULE MCDiscovery -----------------------------
(***************************************************************************)
(* The `then` stages of the runs: up to four nodes of two types, what they *)
(* held then and hold now, and pipelines of one or two stages.             *)
(***************************************************************************)
EXTENDS Integers, FiniteSets, Sequences

Plainly(base) == [base |-> base, dims |-> 0, metric |-> "none", kept |-> FALSE]
DiscoverySchema ==
  [A |-> [s |-> Plainly("String"), r |-> Plainly("String"), n |-> Plainly("Float"), p |-> Plainly("Point"),
          v |-> [base |-> "Vector", dims |-> 1, metric |-> "dot", kept |-> FALSE]],
   B |-> [s |-> Plainly("String"), m |-> Plainly("Float"), p |-> Plainly("Point"), n |-> Plainly("Int"),
          h |-> [Plainly("String") EXCEPT !.kept = TRUE]],
   C |-> [h |-> [Plainly("String") EXCEPT !.kept = TRUE],
          v |-> [base |-> "Vector", dims |-> 1, metric |-> "cosine", kept |-> FALSE]]]
Word(w) == [word |-> w]
Num1(n) == [num |-> n]
Point(n) == [point |-> n]
Vec(n) == [vector |-> n, dims |-> 1, metric |-> "dot"]
Texts == {<<"a", "b">>, <<"b", "A", "b">>}
N1 == {[s |-> Word(w), n |-> Num1(0), p |-> Point(0), v |-> Vec(2)] : w \in Texts} \cup {[r |-> Word(<<"a", "b">>), p |-> Point(3)]}
N2 == {[s |-> Word(w), n |-> [minusZero |-> 0], p |-> Point(2), v |-> Vec(3)] : w \in Texts} \cup {[n |-> Num1(2), v |-> Vec(1)]}
N3 == {[m |-> Num1(0), s |-> Word(<<"b", "A", "b">>)], [m |-> Num1(2), p |-> Point(5), h |-> Word(<<"a", "b">>)]}
Nodes4 == {<<a, b, c, [n |-> Num1(2), p |-> Point(1), v |-> Vec(5), s |-> Word(<<"a">>)]>> : a \in N1, b \in N2, c \in N3}
Then1(of, skip) == [of |-> of, skip |-> skip]

Text(how, text, fields) == [op |-> "text", how |-> how, text |-> text, fields |-> fields]
Like2 == [op |-> "similar", field |-> "v", bound |-> 0 - 2, inclusive |-> TRUE]
Near2 == [op |-> "near", field |-> "p", bound |-> 2, inclusive |-> FALSE]
Common1 == [op |-> "common", types |-> [A |-> <<"n">>, B |-> <<"m">>]]
Primitives1 ==
  {Text(h, t, {}) : h \in {"findExact", "findWithout", "startsExact", "endsExact", "findLike", "startsLike", "endsLike"},
                    t \in {<<>>, <<"b">>, <<"a", "b">>}}
  \cup {Text("findExact", <<"b">>, {"s"}), Text("endsExact", <<"b">>, {"r"}), Text("findLike", <<"a", "b">>, {"h"}),
        Text("findExact", <<"b">>, {"p"}), Common1, Like2, Near2,
        [Like2 EXCEPT !.inclusive = FALSE], [Near2 EXCEPT !.bound = 3, !.inclusive = TRUE],
        [op |-> "common", types |-> [A |-> <<"n">>]], [op |-> "common", types |-> [A |-> <<"s", "n">>, B |-> <<"s", "m">>]],
        [op |-> "common", types |-> [A |-> <<"n">>, B |-> <<"n">>]]}
Few == {Text("findExact", <<"b">>, {}), Text("findWithout", <<"a", "b">>, {}), Common1, Like2, Near2}
Both1(a, b)   == [op |-> "and", terms |-> <<a, b>>]
Either1(a, b) == [op |-> "or", terms |-> <<a, b>>]
Pairs1 == {Both1(a, b) : a \in Few, b \in Few} \cup {Either1(a, b) : a \in Few, b \in Few}
Pipelines ==
  {<<Then1(a, FALSE)>> : a \in Primitives1 \cup Pairs1}
  \cup {<<Then1(a, a = Near2), Then1(b, FALSE)>> : a \in Few, b \in Few}
  \cup {<<Then1(Either1(Both1(a, b), Text("findExact", <<"b">>, {})), FALSE)>> : a \in {Common1, Like2}, b \in {Near2, Common1}}
Answers1(now) ==
  [schema |-> DiscoverySchema, labels |-> <<{"A"}, {"A"}, {"B"}, {"A", "B"}>>, now |-> now,
   past |-> <<now[2], now[1], now[3], [n |-> Num1(0), v |-> Vec(2)]>>,
   rels |-> {[id |-> 1, from |-> 1, to |-> 2, lives |-> TRUE], [id |-> 2, from |-> 3, to |-> 1, lives |-> FALSE]}]
MCDiscoveries ==
  {[schema |-> a.schema, labels |-> a.labels, now |-> a.now, past |-> a.past, at |-> at, rels |-> a.rels, index |-> i,
    missed |-> {2, 4}, types |-> t, found |-> f, then |-> p, skip |-> (at = TRUE)] :
     a \in {Answers1(now) : now \in Nodes4}, at \in BOOLEAN, i \in {{}, {<<"A", "s">>, <<"B", "s">>}},
     t \in {{"A", "B"}}, f \in {1 .. 4, {1, 2, 4}}, p \in Pipelines}
  \cup
  {[schema |-> DiscoverySchema, labels |-> <<{"C"}, {"A"}>>, now |-> <<[h |-> Word(<<"b">>)], [s |-> Word(<<"b">>)]>>,
    past |-> <<<<>>, <<>>>>, at |-> FALSE, rels |-> {}, index |-> {}, missed |-> {}, types |-> t, found |-> {1, 2}, skip |-> FALSE,
    then |-> p] : t \in {{"C"}, {"A", "C"}}, p \in Pipelines}
=============================================================================

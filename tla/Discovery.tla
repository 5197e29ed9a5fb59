----------------------------- MODULE Discovery ------------------------------
(***************************************************************************)
(* The `then` stages of a query (zega/src/v2/discovery.rs, lang/discovery. *)
(* rs): each looks among the nodes of the stage before it for those that   *)
(* hold a text, share a value, or lie near or are similar to another, and  *)
(* proposes edges between them.                                            *)
(*                                                                         *)
(* A question q is [schema, labels, now, past, at, rels, index, missed,    *)
(* types, found, then]: the values of every node by field, now and at the  *)
(* instant a query reads (at tells which); the relationships and nodes the *)
(* query read, and the types it names; the text indexes; the nodes an      *)
(* approximate vector search misses.  A value is a record of one field,    *)
(* word, num, point, vector or minusZero.  Words are in letters, two of    *)
(* which fold to one; points and vectors are on a line.                    *)
(***************************************************************************)
EXTENDS Integers, FiniteSets, Sequences, SequencesExt

CONSTANT Gram   \* letters of a gram of the text index: three in the code

FieldsOf(schema, t, base) == {f \in DOMAIN schema[t] : schema[t][f].base = base}

\* property: what a node's field holds, now or then
HasValue(q, id, f, kind) ==
  LET p == IF q.at THEN q.past[id] ELSE q.now[id] IN f \in DOMAIN p /\ kind \in DOMAIN p[f]
Property(q, id, f) == IF q.at THEN q.past[id][f] ELSE q.now[id][f]

Present(q, id, f) == HasValue(q, id, f, "word") \/ HasValue(q, id, f, "num") \/ HasValue(q, id, f, "minusZero")
Canonical(value) == IF "minusZero" \in DOMAIN value THEN [num |-> 0] ELSE value

-----------------------------------------------------------------------------
(* Texts.                                                                  *)

Fold(word) == [i \in DOMAIN word |-> IF word[i] = "A" THEN "a" ELSE word[i]]
Occurs(text, word) == \E i \in 0 .. Len(word) - Len(text) : SubSeq(word, i + 1, i + Len(text)) = text
Matches(of, word) ==
  CASE of.how \in {"findExact", "findWithout"} -> Occurs(of.text, word)
    [] of.how = "startsExact" -> IsPrefix(of.text, word)
    [] of.how = "endsExact"   -> IsSuffix(of.text, word)
    [] of.how = "findLike"    -> Occurs(Fold(of.text), Fold(word))
    [] of.how = "startsLike"  -> IsPrefix(Fold(of.text), Fold(word))
    [] of.how = "endsLike"    -> IsSuffix(Fold(of.text), Fold(word))
Exact == {"findExact", "findWithout", "startsExact", "endsExact"}

\* TextIndex: every gram of a padded word leads to the nodes that hold it
Start == "^"
End   == "$"
Grams(word) == {SubSeq(word, i, i + Gram - 1) : i \in 1 .. Len(word) - Gram + 1}
Candidates(q, t, f, of) ==
  LET probe == CASE of.how = "startsExact" -> <<Start>> \o of.text
                 [] of.how = "endsExact"   -> of.text \o <<End>>
                 [] OTHER -> of.text
      all   == {id \in DOMAIN q.labels : t \in q.labels[id] /\ f \in DOMAIN q.now[id] /\ "word" \in DOMAIN q.now[id][f]}
  IN IF Len(probe) < Gram THEN all
     ELSE {id \in all : Grams(probe) \subseteq Grams(<<Start>> \o q.now[id][f].word \o <<End>>)}

Verified(q, t, f, of, candidates) ==
  {id \in candidates : t \in q.labels[id] /\ HasValue(q, id, f, "word") /\ Matches(of, Property(q, id, f).word)}
Scoped(q, t, of) == {f \in FieldsOf(q.schema, t, "String") : of.fields = {} \/ f \in of.fields}
\* primitive_matches, if it asked the index of today for another day
MatchedByIndex(q, input, of) ==
  UNION {UNION {Verified(q, t, f, of, IF of.how \in Exact /\ <<t, f>> \in q.index
                                      THEN Candidates(q, t, f, of) \cap input ELSE input) :
                f \in Scoped(q, t, of)} : t \in DOMAIN q.schema}
\* primitive_matches (text)
Matched(q, input, of) ==
  UNION {UNION {Verified(q, t, f, of, IF of.how \in Exact /\ ~q.at /\ <<t, f>> \in q.index
                                      THEN Candidates(q, t, f, of) \cap input ELSE input) :
                f \in Scoped(q, t, of)} : t \in DOMAIN q.schema}

-----------------------------------------------------------------------------
(* Pairs.                                                                  *)

Apart(a, b) == IF a < b THEN b - a ELSE a - b
Beyond(of, n) == n > of.bound \/ (of.inclusive /\ n = of.bound)
Within(of, n) == n < of.bound \/ (of.inclusive /\ n = of.bound)
Proposal(a, b, via) == [from |-> a, to |-> b, via |-> via]

\* primitive_matches (common): a star from the least of each group
Tuples(q, id, of) ==
  {[i \in DOMAIN of.types[t] |-> Canonical(Property(q, id, of.types[t][i]))] :
     t \in {t \in DOMAIN of.types : t \in q.labels[id] /\ \A i \in DOMAIN of.types[t] : Present(q, id, of.types[t][i])}}
Shared(q, input, of) ==
  LET tuples == [id \in input |-> Tuples(q, id, of)]
      members(v) == {id \in input : v \in tuples[id]}
  IN UNION {{Proposal(Min(members(v)), id, [common |-> v]) : id \in members(v) \ {Min(members(v))}} :
            v \in UNION {tuples[id] : id \in input}}

\* primitive_matches (similar): what the index gives, and the rest by itself
Comparable(v, w) == v.dims = w.dims /\ v.metric = w.metric
Score(v, w) == 0 - Apart(v.vector, w.vector)
Nearest(q, input, id, of) ==
  LET v == q.now[id][of.field]
  IN {o \in input \ q.missed : o > id /\ of.field \in DOMAIN q.now[o] /\ "vector" \in DOMAIN q.now[o][of.field]
                               /\ Comparable(q.now[o][of.field], v)}
Similar(q, input, of) ==
  LET of1(id) == {o \in input : o > id /\ HasValue(q, o, of.field, "vector")}
      scores(id) ==
        LET v       == Property(q, id, of.field)
            indexed == IF q.at THEN {} ELSE Nearest(q, input, id, of)
            rest    == {o \in of1(id) \ indexed : Comparable(Property(q, o, of.field), v)}
        IN [o \in indexed \cup rest |-> IF o \in indexed THEN Score(v, q.now[o][of.field]) ELSE Score(v, Property(q, o, of.field))]
  IN UNION {LET s == scores(id) IN {Proposal(id, o, [score |-> s[o]]) : o \in {o \in DOMAIN s : Beyond(of, s[o])}} :
            id \in {id \in input : HasValue(q, id, of.field, "vector")}}

\* primitive_matches (near): a box holds at least what is within the distance
InBox(q, id, of) ==
  {o \in DOMAIN q.labels : of.field \in DOMAIN q.now[o] /\ "point" \in DOMAIN q.now[o][of.field]
                           /\ Apart(q.now[o][of.field].point, q.now[id][of.field].point) <= of.bound + 1}
Near(q, input, of) ==
  LET from(id) ==
        LET near == IF q.at THEN input ELSE InBox(q, id, of) \cap input
            far(o) == Apart(Property(q, id, of.field).point, Property(q, o, of.field).point)
        IN {Proposal(id, o, [distance |-> far(o)]) : o \in {o \in near : o > id /\ HasValue(q, o, of.field, "point") /\ Within(of, far(o))}}
  IN UNION {from(id) : id \in {id \in input : HasValue(q, id, of.field, "point")}}

-----------------------------------------------------------------------------
(* Stages.                                                                 *)

Found(nodes)  == [nodes |-> nodes, edges |-> {}]
Paired(edges) == [nodes |-> UNION {{e.from, e.to} : e \in edges}, edges |-> edges]
\* normalize
Normalize(m) == [m EXCEPT !.edges = {e \in @ : {e.from, e.to} \subseteq m.nodes}]
\* evaluate, primitive_matches
RECURSIVE Evaluate(_, _, _)
Evaluate(q, input, expr) ==
  CASE expr.op \in {"and", "or"} ->
         LET each == [i \in DOMAIN expr.terms |-> Evaluate(q, input, expr.terms[i])]
             join(l, r) == Normalize([nodes |-> IF expr.op = "and" THEN l.nodes \cap r.nodes ELSE l.nodes \cup r.nodes,
                                      edges |-> l.edges \cup r.edges])
         IN FoldLeft(join, Head(each), Tail(each))
    [] expr.op = "text"    -> Found(IF expr.how = "findWithout" THEN input \ Matched(q, input, expr) ELSE Matched(q, input, expr))
    [] expr.op = "common"  -> Paired(Shared(q, input, expr))
    [] expr.op = "similar" -> Paired(Similar(q, input, expr))
    [] expr.op = "near"    -> Paired(Near(q, input, expr))

\* stage
Stage(q, index, selected) ==
  [index |-> index, nodes |-> selected.nodes, couldBe |-> selected.edges,
   edges |-> {r \in q.rels : (q.at => r.lives) /\ {r.from, r.to} \subseteq selected.nodes}]
\* pipeline
Pipeline(q) ==
  LET next(run, then) ==
        LET selected == Normalize(Evaluate(q, run.nodes, then.of))
            index    == run.index + 1
        IN [nodes |-> selected.nodes, index |-> index,
            stages |-> run.stages \o IF then.skip THEN <<>> ELSE <<Stage(q, index, selected)>>]
      first == [nodes |-> q.found, index |-> 0, stages |-> IF q.skip THEN <<>> ELSE <<Stage(q, 0, Found(q.found))>>]
  IN FoldLeft(next, first, q.then).stages

-----------------------------------------------------------------------------
(* What is refused before it runs.                                         *)

\* check_field
ChecksField(q, f, base) ==
  LET having == {t \in q.types : f \in DOMAIN q.schema[t]}
  IN /\ having # {}
     /\ \A t \in having : q.schema[t][f].base = base
     /\ \A s, t \in having : base = "Vector" => q.schema[s][f].dims = q.schema[t][f].dims /\ q.schema[s][f].metric = q.schema[t][f].metric
\* check_expr
RECURSIVE ChecksExpr(_, _)
ChecksExpr(q, expr) ==
  CASE expr.op \in {"and", "or"} -> \A i \in DOMAIN expr.terms : ChecksExpr(q, expr.terms[i])
    [] expr.op = "text" ->
         IF expr.fields = {} THEN \E t \in q.types : \E f \in FieldsOf(q.schema, t, "String") : ~q.schema[t][f].kept
         ELSE \A f \in expr.fields : ChecksField(q, f, "String")
    [] expr.op = "similar" -> ChecksField(q, expr.field, "Vector")
    [] expr.op = "near"    -> ChecksField(q, expr.field, "Point")
    [] expr.op = "common" ->
         /\ \A t \in DOMAIN expr.types :
              t \in q.types /\ \A i \in DOMAIN expr.types[t] : expr.types[t][i] \in DOMAIN q.schema[t]
         /\ \A s, t \in DOMAIN expr.types :
              Len(expr.types[s]) = Len(expr.types[t])
                /\ \A i \in DOMAIN expr.types[s] : q.schema[s][expr.types[s][i]] = q.schema[t][expr.types[t][i]]
\* check_pipeline, pipeline
Discover(q) ==
  IF \A i \in DOMAIN q.then : ChecksExpr(q, q.then[i].of)
  THEN [refused |-> FALSE, stages |-> Pipeline(q)] ELSE [refused |-> TRUE, stages |-> <<>>]

-----------------------------------------------------------------------------
(* What a stage promises.                                                  *)

SharesTuple(q, of, a, b) ==
  \E s, t \in DOMAIN of.types :
    /\ s \in q.labels[a] /\ t \in q.labels[b]
    /\ \A i \in DOMAIN of.types[s] :
         /\ Present(q, a, of.types[s][i]) /\ Present(q, b, of.types[t][i])
         /\ Canonical(Property(q, a, of.types[s][i])) = Canonical(Property(q, b, of.types[t][i]))
\* Two nodes are evidence for each other, whatever their types.
Relates(q, of, a, b) ==
  CASE of.op = "text"    -> FALSE
    [] of.op = "common"  -> SharesTuple(q, of, a, b)
    [] of.op = "similar" ->
         HasValue(q, a, of.field, "vector") /\ HasValue(q, b, of.field, "vector")
           /\ Beyond(of, Score(Property(q, a, of.field), Property(q, b, of.field)))
    [] of.op = "near"    ->
         HasValue(q, a, of.field, "point") /\ HasValue(q, b, of.field, "point")
           /\ Within(of, Apart(Property(q, a, of.field).point, Property(q, b, of.field).point))
HoldsText(q, of, id) ==
  \E t \in q.labels[id], f \in DOMAIN q.now[id] \cup DOMAIN q.past[id] :
    /\ f \in DOMAIN q.schema[t] /\ q.schema[t][f].base = "String" /\ (of.fields = {} \/ f \in of.fields)
    /\ HasValue(q, id, f, "word") /\ Matches(of, Property(q, id, f).word)
RECURSIVE Selected(_, _, _, _)
Selected(q, input, expr, id) ==
  CASE expr.op = "and"  -> \A i \in DOMAIN expr.terms : Selected(q, input, expr.terms[i], id)
    [] expr.op = "or"   -> \E i \in DOMAIN expr.terms : Selected(q, input, expr.terms[i], id)
    [] expr.op = "text" -> HoldsText(q, expr, id) = (expr.how # "findWithout")
    [] OTHER            -> \E o \in input \ {id} : Relates(q, expr, id, o)
RECURSIVE Primitives(_)
Primitives(expr) ==
  IF expr.op \in {"and", "or"} THEN UNION {Primitives(expr.terms[i]) : i \in DOMAIN expr.terms} ELSE {expr}
\* The nodes after n stages.
RECURSIVE NodesAfter(_, _)
NodesAfter(q, n) ==
  IF n = 0 THEN q.found
  ELSE {id \in NodesAfter(q, n - 1) : Selected(q, NodesAfter(q, n - 1), q.then[n].of, id)}

\* A stage holds the nodes of the one before for which its condition holds, as
\* if every node and word were looked at; it proposes edges among them that have
\* evidence, and all there are, but a star's that lost its centre; and the
\* stages that are not skipped keep their numbers.
FindsAllOf(q, stages) ==
  /\ [i \in DOMAIN stages |-> stages[i].index] =
       SelectSeq([i \in 1 .. Len(q.then) + 1 |-> i - 1], LAMBDA n : ~(IF n = 0 THEN q.skip ELSE q.then[n].skip))
  /\ \A i \in DOMAIN stages :
       LET n == stages[i].index
           s == stages[i]
           input == IF n = 0 THEN {} ELSE NodesAfter(q, n - 1)
           by == IF n = 0 THEN {} ELSE Primitives(q.then[n].of)
           flat == n = 0 \/ q.then[n].of.op \notin {"and", "or"}
                     \/ \A j \in DOMAIN q.then[n].of.terms : q.then[n].of.terms[j].op \notin {"and", "or"}
           proposed(a, b) == \E e \in s.couldBe : e.from = a /\ e.to = b
       IN /\ s.nodes = NodesAfter(q, n)
          /\ s.edges = {r \in q.rels : r.from \in s.nodes /\ r.to \in s.nodes /\ (q.at => r.lives)}
          /\ \A e \in s.couldBe : e.from < e.to /\ e.from \in s.nodes /\ e.to \in s.nodes /\ \E p \in by : Relates(q, p, e.from, e.to)
          /\ \A p \in by, a, b \in s.nodes :
               flat /\ a < b /\ Relates(q, p, a, b) =>
                 \/ proposed(a, b)
                 \/ p.op = "common" /\ \E o \in input : o < a /\ Relates(q, p, o, a) /\ Relates(q, p, o, b)
=============================================================================

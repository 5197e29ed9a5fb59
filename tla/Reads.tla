------------------------------- MODULE Reads -------------------------------
(***************************************************************************)
(* How a selection finds its rows (zega/src/v2.rs: index_filter,           *)
(* candidates, retain_first_matches, order_limit, read; and Interval in    *)
(* zega/src/index.rs).  Range indexes answer comparisons with too many     *)
(* rows, bounds on a field join into one scan, an && or an || combines     *)
(* what its terms found, a limit stops the test of rows, and an order by   *)
(* distance widens a circle until it holds enough rows.                    *)
(*                                                                         *)
(* Data d: d.type, d.props[node][field], a value of kind "num", "str" or   *)
(* "null", and d.place, a node's Point on a line, or Nowhere.  A condition *)
(* is [op: "test", field, cmp, value], or [op: "and" or "or", terms].  A   *)
(* selection is [types, where, order, limit]: where is a sequence of at    *)
(* most one condition, order of keys [by, desc], by a field or "distance". *)
(***************************************************************************)
EXTENDS Integers, Sequences, FiniteSetsExt, SequencesExt

CONSTANTS
  Grain,      \* integers to a key: an Int is keyed by its nearest f64
  Origin,     \* the point distances are measured from
  FirstRadius, Farthest

Nowhere == -1
NoLimit == 1000
Unbounded == -1000
Doublings == 4     \* FirstRadius doubled this often is Farthest, or more

-----------------------------------------------------------------------------
(* Conditions.                                                             *)

Compared(value, cmp, with) ==
  IF cmp = "!=" THEN value # with
  ELSE /\ value.kind = with.kind /\ (value.kind # "null" \/ cmp = "=")
       /\ CASE cmp = "=" -> value = with
            [] cmp = ">" -> value.of > with.of [] cmp = ">=" -> value.of >= with.of
            [] cmp = "<" -> value.of < with.of [] cmp = "<=" -> value.of <= with.of

RECURSIVE Accepts(_, _, _)
Accepts(d, n, expr) ==
  CASE expr.op = "test" -> Compared(d.props[n][expr.field], expr.cmp, expr.value)
    [] expr.op = "and"  -> \A i \in DOMAIN expr.terms : Accepts(d, n, expr.terms[i])
    [] expr.op = "or"   -> \E i \in DOMAIN expr.terms : Accepts(d, n, expr.terms[i])
AcceptsRow(d, n, s) == s.where = <<>> \/ Accepts(d, n, s.where[1])

-----------------------------------------------------------------------------
(* Range indexes.  A set of at most one set stands for an index's answer:  *)
(* {} is no index.                                                         *)

KeyOf(value) == value.of \div Grain
Indexed(index, types, field) == \A t \in types : <<t, field>> \in index

\* Mutant: a strict comparison is a strict bound.
StrictInterval(test) ==
  LET k == KeyOf(test.value)
  IN [kind |-> test.value.kind,
      low  |-> CASE test.cmp = ">" -> k + 1 [] test.cmp \in {"=", ">="} -> k [] OTHER -> Unbounded,
      high |-> CASE test.cmp = "<" -> k - 1 [] test.cmp \in {"=", "<="} -> k [] OTHER -> NoLimit]

\* range_interval: bounds are inclusive, in the value's kind.
IntervalOf(test) ==
  [kind |-> test.value.kind,
   low  |-> IF test.cmp \in {"=", ">", ">="} THEN KeyOf(test.value) ELSE Unbounded,
   high |-> IF test.cmp \in {"=", "<", "<="} THEN KeyOf(test.value) ELSE NoLimit]
HasInterval(test) == test.cmp # "!=" /\ test.value.kind # "null"

\* Interval::intersect
Joined(a, b) ==
  [kind |-> IF a.kind = b.kind THEN a.kind ELSE "empty",
   low  |-> Max({a.low, b.low}), high |-> Min({a.high, b.high})]

RangeCandidates(d, types, field, i) ==
  {n \in DOMAIN d.type : /\ d.type[n] \in types /\ d.props[n][field].kind = i.kind
                         /\ i.kind # "empty" /\ KeyOf(d.props[n][field]) \in i.low .. i.high}

RECURSIVE AndTerms(_)
AndTerms(expr) ==
  IF expr.op = "and" THEN FoldLeft(LAMBDA terms, t : terms \o AndTerms(t), <<>>, expr.terms) ELSE <<expr>>

Ranged(index, types, expr) ==
  expr.op = "test" /\ HasInterval(expr) /\ Indexed(index, types, expr.field)

Intersection(found) ==
  IF found = {} THEN {} ELSE {{n \in UNION found : \A set \in found : n \in set}}

\* index_filter
RECURSIVE IndexFilter(_, _, _, _)
IndexFilter(d, index, types, expr) ==
  CASE expr.op = "test" ->
         IF Ranged(index, types, expr)
         THEN {RangeCandidates(d, types, expr.field, IntervalOf(expr))} ELSE {}
    [] expr.op = "and" ->
         LET terms  == AndTerms(expr)
             ranged == SelectSeq(terms, LAMBDA t : Ranged(index, types, t))
             Scan(field) ==
               LET bounds == SelectSeq(ranged, LAMBDA t : t.field = field)
               IN RangeCandidates(d, types, field,
                    FoldLeft(LAMBDA i, t : Joined(i, IntervalOf(t)), IntervalOf(bounds[1]), Tail(bounds)))
         IN Intersection(
              {Scan(f) : f \in {ranged[i].field : i \in DOMAIN ranged}} \cup
              UNION {IndexFilter(d, index, types, terms[i]) :
                       i \in {i \in DOMAIN terms : ~Ranged(index, types, terms[i])}})
    [] expr.op = "or" ->
         LET found == [i \in DOMAIN expr.terms |-> IndexFilter(d, index, types, expr.terms[i])]
         IN IF \E i \in DOMAIN found : found[i] = {} THEN {}
            ELSE {UNION UNION {found[i] : i \in DOMAIN found}}

-----------------------------------------------------------------------------
(* Rows.                                                                   *)

RowsOf(d, s) == {n \in DOMAIN d.type : d.type[n] \in s.types}
InOrder(nodes) == SetToSortSeq(nodes, LAMBDA a, b : a < b)
First(seq, n)  == SubSeq(seq, 1, Min({n, Len(seq)}))

Away(d, n) == IF d.place[n] > Origin THEN d.place[n] - Origin ELSE Origin - d.place[n]
ByDistance(s) == s.order # <<>> /\ s.order[1] = [by |-> "distance", desc |-> FALSE]

\* candidates, nearest first: the rows that match within the least radius that
\* holds enough of them.
Circle(d, s, from) ==
  LET inside(r) == {n \in from : d.place[n] # Nowhere /\ Away(d, n) <= r /\ AcceptsRow(d, n, s)}
      radius[i \in 0 .. Doublings] ==
        IF i = 0 THEN IF s.limit = NoLimit THEN Farthest ELSE FirstRadius
        ELSE LET r == radius[i - 1]
             IN IF Cardinality(inside(r)) >= s.limit THEN r ELSE Min({2 * r, Farthest})
  IN inside(radius[Doublings])

Candidates(d, index, s) ==
  LET indexed == IF s.where = <<>> THEN {} ELSE IndexFilter(d, index, s.types, s.where[1])
      from    == IF indexed = {} THEN RowsOf(d, s) ELSE RowsOf(d, s) \cap UNION indexed
  IN CASE ByDistance(s) /\ s.limit = 0 -> {}
       [] ByDistance(s) -> Circle(d, s, from)
       [] OTHER -> from

\* SortValue::of, compare_keys: a row without a value is last, whatever the
\* direction; kinds sort numbers before strings.
KeyValue(d, n, key) ==
  IF key.by = "distance" THEN [kind |-> "num", of |-> Away(d, n)] ELSE d.props[n][key.by]
Rank(value) == CASE value.kind = "num" -> 1 [] value.kind = "str" -> 2 [] OTHER -> 3
Lower(a, b) == Rank(a) < Rank(b) \/ (Rank(a) = Rank(b) /\ Rank(a) < 3 /\ a.of < b.of)
KeyBefore(d, key, a, b) ==
  LET x == KeyValue(d, a, key)  y == KeyValue(d, b, key)
  IN IF Rank(x) = 3 \/ Rank(y) = 3 THEN Rank(x) < 3 /\ Rank(y) = 3
     ELSE IF key.desc THEN Lower(y, x) ELSE Lower(x, y)
RowBefore(d, s, a, b) ==
  \/ \E i \in DOMAIN s.order :
       /\ KeyBefore(d, s.order[i], a, b)
       /\ \A j \in 1 .. i - 1 : ~KeyBefore(d, s.order[j], a, b) /\ ~KeyBefore(d, s.order[j], b, a)
  \/ a < b /\ \A i \in DOMAIN s.order : ~KeyBefore(d, s.order[i], a, b) /\ ~KeyBefore(d, s.order[i], b, a)

\* order_limit: a row without a Point is in no order by distance.
OrderLimit(d, s, rows) ==
  LET kept == {rows[i] : i \in {i \in DOMAIN rows :
                 d.place[rows[i]] = Nowhere => \A j \in DOMAIN s.order : s.order[j].by # "distance"}}
  IN First(SetToSortSeq(kept, LAMBDA a, b : RowBefore(d, s, a, b)), s.limit)

\* Without an order the first matches are the answer.
Enough(s) == IF s.order = <<>> THEN s.limit ELSE NoLimit

\* read
Read(d, index, s) ==
  LET rows == SelectSeq(InOrder(Candidates(d, index, s)), LAMBDA n : AcceptsRow(d, n, s))
  IN OrderLimit(d, s, First(rows, Enough(s)))

-----------------------------------------------------------------------------
(* An answer does not depend on the plan: it is every row of the types,    *)
(* tested, sorted and cut.                                                 *)

Scan(d, s) ==
  LET rows == {n \in RowsOf(d, s) :
                 /\ AcceptsRow(d, n, s)
                 /\ d.place[n] = Nowhere => \A j \in DOMAIN s.order : s.order[j].by # "distance"}
      RowAt(i) == CHOOSE n \in rows :
                   Cardinality({m \in rows : m # n /\ RowBefore(d, s, m, n)}) = i - 1
  IN [i \in 1 .. Min({s.limit, Cardinality(rows)}) |-> RowAt(i)]

\* An index, a limit or a circle never changes which rows a selection reads or
\* their order ("Every row the condition accepts is in the set", v2.rs:2151;
\* "so early stopping is exact", v2.rs:2279).
IsScan(d, s, rows) == rows = Scan(d, s)
=============================================================================

------------------------------ MODULE Routes -------------------------------
(***************************************************************************)
(* The route a `*path` selection finds (zega/src/path.rs, and route in     *)
(* v2.rs): by fewest edges, breadth first a level at a time; or cheapest   *)
(* by an edge weight, from a heap of entries of which some are stale, with *)
(* or without a guess toward the goals.                                    *)
(*                                                                         *)
(* A question q is a net and what is asked of it:                          *)
(*   edges    a set of [from, to, rel, weight]                             *)
(*   start, goals                                                          *)
(*   by       "edges", "weight" or "toward"                                *)
(*   bound    [kind: "none", "hops" or "cost", at, inclusive], a cost at   *)
(*            half units                                                   *)
(*   place    where each node is, on a line, for "toward"                  *)
(* Estimates count hundredths of a unit, for a guess is 99% of a line.     *)
(***************************************************************************)
EXTENDS Integers, Sequences, FiniteSetsExt, SequencesExt, TLC

Missing   == -1       \* no weight, or a negative one
Nowhere   == -1       \* no Point
Share     == 99       \* STRAIGHT_LINE_SHARE, in hundredths
Searching == 0
NoRoute   == -1
Refused   == -2      \* with an error that names the edge or the node

Line(q, a, b) ==
  LET d == q.place[a] - q.place[b] IN IF d < 0 THEN -d ELSE d

\* Limit::allows, of an estimate.
Allows(q, estimate) ==
  CASE q.bound.kind # "cost" -> TRUE
    [] q.bound.inclusive -> estimate <= 50 * q.bound.at
    [] OTHER -> estimate < 50 * q.bound.at

\* The most edges a route may have; a route of n edges costs n.
MaxHops(q) ==
  LET whole == q.bound.at \div 2
  IN CASE q.bound.kind = "hops" -> q.bound.at
       [] q.bound.kind = "none" -> 1000
       [] q.bound.inclusive \/ 2 * whole < q.bound.at -> whole
       [] OTHER -> whole - 1

Edges(q, n) == {e \in q.edges : e.from = n}
\* The caller hands over a node's edges sorted by node and relationship.
EdgesOf(q, n) ==
  SetToSortSeq(Edges(q, n), LAMBDA a, b : a.to < b.to \/ (a.to = b.to /\ a.rel < b.rel))

-----------------------------------------------------------------------------
(* A search: what has been reached, and from where.                        *)

Ends(s, with) == [s EXCEPT !.found = with]
Blank(q) ==
  [found |-> Searching, parent |-> <<>>, expanded |-> 0, depth |-> 0,
   level |-> {q.start}, open |-> {}, best |-> (q.start :> 0)]

\* One level of fewest_edges: its nodes in order, each one's edges in order.
ExpandLevel(q, s) ==
  LET reached == {e.to : e \in UNION {Edges(q, n) : n \in s.level}}
                   \ ({q.start} \cup DOMAIN s.parent)
      First(to) == Head(SetToSortSeq({e \in q.edges : e.to = to /\ e.from \in s.level},
                          LAMBDA a, b : a.from < b.from \/ (a.from = b.from /\ a.rel < b.rel)))
      met == reached \cap q.goals
  IN [s EXCEPT !.parent   = [to \in reached |-> First(to)] @@ @,
               !.expanded = @ + Cardinality(s.level),
               !.depth    = @ + 1,
               !.level    = reached,
               !.found    = IF met = {} THEN @ ELSE Min(met)]

FewestStep(q, s) ==
  IF s.level = {} \/ s.depth >= MaxHops(q) THEN Ends(s, NoRoute) ELSE ExpandLevel(q, s)

Guess(q, n) ==
  IF q.by = "toward" /\ q.goals # {} THEN Share * Min({Line(q, n, g) : g \in q.goals}) ELSE 0

\* Reading a node's edges: a road without a weight, a node without a Point, a
\* road shorter than its line.
Faulty(q, e) ==
  \/ e.weight = Missing
  \/ q.by = "toward" /\ (\/ Nowhere \in {q.place[e.from], q.place[e.to]}
                         \/ 100 * e.weight < Share * Line(q, e.from, e.to))

\* Mutant: the first entry for a node is kept, whatever comes later.
RelaxOnce(q, cost, s, e) ==
  IF e.to \in DOMAIN s.best \/ ~Allows(q, 100 * (cost + e.weight) + Guess(q, e.to)) THEN s
  ELSE [s EXCEPT !.best   = (e.to :> cost + e.weight) @@ @,
                 !.parent = (e.to :> e) @@ @,
                 !.open   = @ \cup {[node |-> e.to, cost |-> cost + e.weight,
                                     estimate |-> 100 * (cost + e.weight) + Guess(q, e.to)]}]

Relax(q, cost, s, e) ==
  LET reached  == cost + e.weight
      estimate == 100 * reached + Guess(q, e.to)
  IN IF (e.to \in DOMAIN s.best /\ reached >= s.best[e.to]) \/ ~Allows(q, estimate) THEN s
     ELSE [s EXCEPT !.best   = (e.to :> reached) @@ @,
                    !.parent = (e.to :> e) @@ @,
                    !.open   = @ \cup {[node |-> e.to, cost |-> reached, estimate |-> estimate]}]

\* Entry::cmp.
Sooner(a, b) ==
  \/ a.estimate < b.estimate
  \/ a.estimate = b.estimate /\ (a.node < b.node \/ (a.node = b.node /\ a.cost < b.cost))

Stale(s, top) == top.cost > s.best[top.node]

Expand(q, s, top) ==
  FoldLeft(LAMBDA t, e : Relax(q, top.cost, t, e), [s EXCEPT !.expanded = @ + 1], EdgesOf(q, top.node))

\* Mutant: a stale entry is left where it is.
PopUnlessStale(s, top) == IF Stale(s, top) THEN s ELSE [s EXCEPT !.open = @ \ {top}]
Pop(s, top) == [s EXCEPT !.open = @ \ {top}]

CheapestStep(q, s) ==
  IF s.open = {} THEN Ends(s, NoRoute)
  ELSE LET top    == CHOOSE e \in s.open : \A o \in s.open \ {e} : Sooner(e, o)
           popped == Pop(s, top)
       IN CASE Stale(s, top) -> popped
            [] top.node \in q.goals -> Ends(popped, top.node)
            [] \E e \in Edges(q, top.node) : Faulty(q, e) -> Ends(popped, Refused)
            [] OTHER -> Expand(q, popped, top)

\* What route and the searches look at before they expand a node.
SearchStart(q) ==
  LET s == Blank(q)
  IN CASE q.by = "edges" -> IF q.bound.kind = "cost" /\ MaxHops(q) < 0 THEN Ends(s, NoRoute)
                            ELSE IF q.start \in q.goals THEN Ends(s, q.start) ELSE s
       [] q.by = "toward" /\ (\E g \in q.goals : Nowhere \in {q.place[g], q.place[q.start]}) ->
            Ends(s, Refused)
       [] ~Allows(q, Guess(q, q.start)) -> Ends(s, NoRoute)
       [] OTHER -> [s EXCEPT !.open = {[node |-> q.start, cost |-> 0, estimate |-> Guess(q, q.start)]}]

SearchStep(q, s) == IF q.by = "edges" THEN FewestStep(q, s) ELSE CheapestStep(q, s)
SearchEnded(s) == s.found # Searching
Found(s) == s.found \notin {Searching, NoRoute, Refused}

\* walk_back: the edges of the route, from the goal.
WalkBack(q, s) ==
  LET edges[n \in DOMAIN s.parent \cup {q.start}] ==
        IF n = q.start THEN <<>> ELSE Append(edges[s.parent[n].from], s.parent[n])
  IN edges[s.found]
CostOf(q, s) == IF q.by = "edges" THEN s.depth ELSE s.best[s.found]

-----------------------------------------------------------------------------
(* What the search is for.                                                 *)

Unreachable == 1000
Weigh(q, e) == IF q.by = "edges" THEN 1 ELSE e.weight

\* The cost of the cheapest route to each node, over the roads that have a
\* weight, a round of all roads at a time.
Least(q) ==
  LET nodes  == {q.start} \cup {e.to : e \in q.edges} \cup q.goals
      roads  == {e \in q.edges : Weigh(q, e) # Missing}
      zero   == [n \in nodes |-> IF n = q.start THEN 0 ELSE Unreachable]
      Round(d) == [n \in nodes |->
        Min({d[n]} \cup {d[e.from] + Weigh(q, e) : e \in {r \in roads : r.to = n /\ r.from \in nodes}})]
      rounds[i \in 0 .. Cardinality(nodes)] == IF i = 0 THEN zero ELSE Round(rounds[i - 1])
  IN rounds[Cardinality(nodes)]

WithinBound(q, cost) ==
  /\ cost < Unreachable
  /\ CASE q.bound.kind = "none" -> TRUE
       [] q.bound.kind = "hops" -> cost <= q.bound.at
       [] q.bound.inclusive -> 2 * cost <= q.bound.at
       [] OTHER -> 2 * cost < q.bound.at

\* `toward` asks of every road to be at least its line (docs/path.md), but the
\* search sees only the roads it reads.
Sound(q) == q.by = "toward" => \A e \in q.edges : ~Faulty(q, e)

\* The route found is a walk from the start to a goal over roads that join up,
\* it costs what it says, and no route within the bound is cheaper; there is
\* one if any route is within the bound.  A tie between goals of a breadth-first
\* search goes to the lowest id.
BestRoute(q, s) ==
  LET least == Least(q)
      cost  == Min({Unreachable} \cup {least[g] : g \in q.goals})
  IN /\ s.found # Refused /\ Sound(q) => (Found(s) <=> WithinBound(q, cost))
     /\ Found(s) =>
          LET walk == WalkBack(q, s)
          IN /\ s.found \in q.goals
             /\ \A i \in DOMAIN walk :
                  walk[i].from = (IF i = 1 THEN q.start ELSE walk[i - 1].to)
             /\ (IF walk = <<>> THEN q.start ELSE Last(walk).to) = s.found
             /\ CostOf(q, s) = FoldLeft(LAMBDA sum, e : sum + Weigh(q, e), 0, walk)
             /\ Sound(q) => CostOf(q, s) = cost
             /\ q.by = "edges" => s.found = Min({g \in q.goals : least[g] = cost})

\* A search reads a node's roads at most once, so it ends: in a net of zero
\* weights, and with a guess.
ReadsOnce(q, s) ==
  s.expanded <= Cardinality({q.start} \cup {e.to : e \in q.edges})
=============================================================================

------------------------------- MODULE Walks -------------------------------
(***************************************************************************)
(* Chains in a condition (zega/src/v2/chain.rs): `has f(test)`, `f within  *)
(* N hops`, and `same`, which makes two chains of an && group meet at one  *)
(* node.  A chain is walked forward a frontier at a time; from its indexed *)
(* end backward, when an index answers the end's test; and, for a repeated *)
(* hop, from both ends at once.                                            *)
(*                                                                         *)
(* A graph g has nodes of one type each, g.type, relationships             *)
(* [kind, from, to], g.rels, and the nodes g.marked that a test accepts.   *)
(* A chain is [not, from, hops]: not for `!have`; from is [name, test], or *)
(* NoName for a chain from the row itself; a hop is [field, min, max,      *)
(* test, same], with max = 0 for a single hop, and same, a join, only on   *)
(* the last one.                                                           *)
(***************************************************************************)
EXTENDS Naturals, Sequences, FiniteSets, FiniteSetsExt, TLC

CONSTANTS
  Fields,   \* the schema: [type, field, kind, dir, targets], dir "out" or "in"
  EachEnd   \* EACH_END

NoName   == [name |-> "", test |-> FALSE]
NotFound == 1000

FieldOf(type, field) == {f \in Fields : f.type = type /\ f.field = field}
Flip(dir)     == IF dir = "out" THEN "in" ELSE "out"
Repeated(hop) == hop.max > 0
Passes(g, n, test) == test => n \in g.marked

Adjoining(g, n, kind, dir) ==
  IF dir = "out" THEN {r.to   : r \in {r \in g.rels : r.kind = kind /\ r.from = n}}
                 ELSE {r.from : r \in {r \in g.rels : r.kind = kind /\ r.to = n}}

\* step_edges: one hop, to the types the field reaches.
Forward(g, n, field) ==
  UNION {{m \in Adjoining(g, n, f.kind, f.dir) : g.type[m] \in f.targets} :
           f \in FieldOf(g.type[n], field)}

\* step_back: the nodes whose own field reaches n.
Backward(g, n, field) ==
  UNION {{m \in Adjoining(g, n, f.kind, Flip(f.dir)) : g.type[m] = f.type} :
           f \in {f \in Fields : f.field = field /\ g.type[n] \in f.targets}}

\* repeat: the nodes whose shortest distance is in the band, never the start.
Band(g, from, field, min, max) ==
  LET layers[d \in 0 .. max] ==
        IF d = 0 THEN [seen |-> {from}, layer |-> {from}]
        ELSE LET last == layers[d - 1]
                 next == UNION {Forward(g, n, field) : n \in last.layer} \ last.seen
             IN [seen |-> last.seen \cup next, layer |-> next]
  IN UNION {layers[d].layer : d \in min .. max}

Advance(g, frontier, hop) ==
  {m \in UNION {IF Repeated(hop) THEN Band(g, n, hop.field, hop.min, hop.max)
                                 ELSE Forward(g, n, hop.field) : n \in frontier} :
     Passes(g, m, hop.test)}

-----------------------------------------------------------------------------
(* The check of an && group of chains (chain in zega/src/lang/mod.rs).     *)

\* same_hops: the hops a `same` may name, as pairs of a chain and a hop.
SameHops(chains, i, name) ==
  {p \in (1 .. i - 1) \X (1 .. Max({0} \cup {Len(chains[k].hops) : k \in DOMAIN chains})) :
     p[2] <= Len(chains[p[1]].hops) /\ LET hop == chains[p[1]].hops[p[2]] IN hop.field = name /\ ~hop.same}

\* edge_targets
EdgeTargets(types, field) == UNION {f.targets : f \in {f \in Fields : f.type \in types /\ f.field = field}}

Joins(chain) == chain.hops # <<>> /\ chain.hops[Len(chain.hops)].same

\* reached, hop_types: the types each hop of each chain lands on.
TypesAt(types, chains) ==
  LET at[i \in DOMAIN chains] ==
        LET hops == chains[i].hops
            named == SameHops(chains, i, chains[i].from.name)
            start == IF chains[i].from = NoName \/ Cardinality(named) # 1 THEN types
                     ELSE LET p == CHOOSE p \in named : TRUE IN at[p[1]][p[2]]
            here[k \in 0 .. Len(hops)] == IF k = 0 THEN start ELSE EdgeTargets(here[k - 1], hops[k].field)
        IN here
  IN at

\* hop_types: the field exists, and a repeated one leads from its types to
\* themselves, by the same relationship.
Follows(here, hop) ==
  LET fields == {f \in Fields : f.type \in here /\ f.field = hop.field}
      next   == EdgeTargets(here, hop.field)
  IN /\ fields # {}
     /\ Repeated(hop) =>
          /\ next \subseteq here
          /\ \A t \in next : \E f \in FieldOf(t, hop.field), h \in fields : f.kind = h.kind /\ f.dir = h.dir

\* same_target: the name is that of one earlier hop.
SameNames(chains, i, name) == Cardinality(SameHops(chains, i, name)) = 1

\* same_target, chain: what a chain's `same` refers to, and where it joins.
ChecksSame(types, chains, i) ==
  LET chain == chains[i]
      name  == IF chain.from # NoName THEN chain.from.name ELSE chain.hops[Len(chain.hops)].field
  IN chain.from # NoName \/ Joins(chain) =>
       /\ ~chain.not
       /\ SameNames(chains, i, name)
       /\ \A p \in SameHops(chains, i, name) :
            /\ ~chains[p[1]].not
            /\ Joins(chain) =>
                 TypesAt(types, chains)[i][Len(chain.hops)] \cap TypesAt(types, chains)[p[1]][p[2]] # {}

ChecksGroup(types, chains) ==
  \A i \in DOMAIN chains :
    /\ ChecksSame(types, chains, i)
    /\ \A k \in DOMAIN chains[i].hops : Follows(TypesAt(types, chains)[i][k - 1], chains[i].hops[k])

-----------------------------------------------------------------------------
(* From both ends.                                                         *)

\* One layer of distance: the smaller frontier, and the nearest meeting in it.
MeetStep(g, field, most, s) ==
  IF s.met # NotFound \/ s.there + s.here >= most \/ s.front = {} \/ s.rear = {} THEN s
  ELSE LET forward == Cardinality(s.front) <= Cardinality(s.rear)
           depth   == 1 + (IF forward THEN s.here ELSE s.there)
           mine    == IF forward THEN s.ahead ELSE s.behind
           theirs  == IF forward THEN s.behind ELSE s.ahead
           reached == IF forward THEN UNION {Forward(g, n, field) : n \in s.front}
                                 ELSE UNION {Backward(g, n, field) : n \in s.rear}
           next    == reached \ DOMAIN mine
           grown   == [n \in next |-> depth] @@ mine
           met     == Min({NotFound} \cup {depth + theirs[n] : n \in reached \cap DOMAIN theirs})
       IN IF forward
          THEN [s EXCEPT !.front = next, !.ahead = grown, !.here = depth, !.met = met]
          ELSE [s EXCEPT !.rear = next, !.behind = grown, !.there = depth, !.met = met]

\* distance: to the nearest of ends other than from, at most `most`.
Distance(g, from, field, most, ends) ==
  LET targets == ends \ {from}
      start   == [ahead |-> (from :> 0), behind |-> [n \in targets |-> 0],
                  front |-> {from}, rear |-> targets, here |-> 0, there |-> 0, met |-> NotFound]
      search[i \in 0 .. most] ==
        IF i = 0 THEN start ELSE MeetStep(g, field, most, search[i - 1])
  IN search[most].met

\* Mutant: a band is as good as the nearest end, whatever its least distance.
ReachesNearest(g, frontier, hop, ends) ==
  \E n \in frontier : Distance(g, n, hop.field, hop.max, ends) \in hop.min .. hop.max

\* reaches: for "at most N" the nearest end is enough, for a band each end's
\* own distance is needed.
Reaches(g, frontier, hop, ends) ==
  \E n \in frontier :
    IF hop.min = 1 THEN Distance(g, n, hop.field, hop.max, ends) # NotFound
    ELSE \E m \in ends : Distance(g, n, hop.field, hop.max, {m}) \in hop.min .. hop.max
AsksEachEnd(hop, ends) == hop.min > 1 /\ Cardinality(ends) > EachEnd

-----------------------------------------------------------------------------
(* From the indexed end.                                                   *)

\* landings: the types each hop lands on.
Landings(start, hops) ==
  LET types[i \in 0 .. Len(hops)] ==
        IF i = 0 THEN start
        ELSE UNION {f.targets : f \in {f \in Fields : f.type \in types[i - 1] /\ f.field = hops[i].field}}
  IN types
Lands(types, hops) == \A i \in 1 .. Len(hops) : types[i] # {}

OfTypes(g, nodes, types) == {n \in nodes : g.type[n] \in types}

\* back: the nodes of the types whose hop reaches an end; for a repeated hop
\* all of them within its most hops.
Back(g, ends, types, hop) ==
  LET depth == IF Repeated(hop) THEN hop.max ELSE 1
      layers[d \in 0 .. depth] ==
        IF d = 0 THEN [seen |-> ends, layer |-> ends, out |-> {}]
        ELSE LET last   == layers[d - 1]
                 before == UNION {Backward(g, n, hop.field) : n \in last.layer}
             IN [seen  |-> last.seen \cup before,
                 layer |-> before \ last.seen,
                 out   |-> last.out \cup OfTypes(g, before, types)]
  IN layers[depth].out

\* Backward from the indexed end to what hop k must land on.
LandsOn(g, types, hops, k) ==
  LET n == Len(hops)
      set[j \in k .. n] ==
        IF j = n THEN OfTypes(g, {m \in DOMAIN g.type : Passes(g, m, hops[n].test)}, types[n])
        ELSE {m \in Back(g, set[j + 1], types[j], hops[j + 1]) : Passes(g, m, hops[j].test)}
  IN set[k]

\* pinned: hop k is repeated, nothing from it on is named, and an index, of the
\* types the chain lands on, answers the last hop's test.
Pinned(g, index, id, chain, k, wanted) ==
  LET hops == chain.hops
  IN /\ Repeated(hops[k]) /\ chain.from = NoName
     /\ \A i \in k .. Len(hops) : ~hops[i].same /\ hops[i].field \notin wanted
     /\ \A i \in k + 1 .. Len(hops) : ~Repeated(hops[i])
     /\ Lands(Landings({g.type[id]}, hops), hops)
     /\ index /\ hops[Len(hops)].test

\* candidates: the rows a plain chain can hold for, a superset.
ChainCandidates(g, types, chain) ==
  Back(g, LandsOn(g, Landings(types, chain.hops), chain.hops, 1), types, chain.hops[1])

-----------------------------------------------------------------------------
(* A chain, and an && group.  A binding is a function from the names that  *)
(* later chains use to the node of the walk.                               *)

RECURSIVE WalksFrom(_, _, _, _, _, _, _, _)
WalksFrom(g, index, id, chain, bound, wanted, k, here) ==
  LET hop == chain.hops[k]
      reached == Advance(g, here.frontier, hop)
      next == IF hop.same THEN {n \in reached : hop.field \in DOMAIN bound /\ n = bound[hop.field]}
                          ELSE reached
      ends == LandsOn(g, Landings({g.type[id]}, chain.hops), chain.hops, k)
  IN CASE here.frontier = {} -> {}
       [] k > Len(chain.hops) -> {here.binding}
       [] k <= Len(chain.hops) /\ here.frontier # {} ->
            IF Pinned(g, index, id, chain, k, wanted) /\ ~AsksEachEnd(hop, ends)
            THEN IF Reaches(g, here.frontier, hop, ends) THEN {here.binding} ELSE {}
            ELSE IF ~hop.same /\ hop.field \in wanted
            THEN UNION {WalksFrom(g, index, id, chain, bound, wanted, k + 1,
                          [frontier |-> {n}, binding |-> (hop.field :> n) @@ here.binding]) : n \in next}
            ELSE WalksFrom(g, index, id, chain, bound, wanted, k + 1,
                   [frontier |-> next, binding |-> here.binding])

NoBinding == [x \in {} |-> 0]
ChainWalks(g, index, id, chain, bound, wanted) ==
  IF chain.from = NoName
  THEN WalksFrom(g, index, id, chain, bound, wanted, 1, [frontier |-> {id}, binding |-> NoBinding])
  ELSE IF chain.from.name \in DOMAIN bound /\ Passes(g, bound[chain.from.name], chain.from.test)
  THEN WalksFrom(g, index, id, chain, bound, wanted, 1,
         [frontier |-> {bound[chain.from.name]}, binding |-> NoBinding])
  ELSE {}

\* What the later chains of a group name with `same`.
Names(chains) ==
  UNION {{chains[i].from.name} \cup {chains[i].hops[j].field : j \in {j \in DOMAIN chains[i].hops : chains[i].hops[j].same}} :
           i \in DOMAIN chains}

Wanted(chain, later) ==
  Names(later) \cap {chain.hops[j].field : j \in {j \in DOMAIN chain.hops : ~chain.hops[j].same}}

RECURSIVE Solve(_, _, _, _, _)
Solve(g, index, id, chains, bound) ==
  chains = <<>> \/
  \E b \in ChainWalks(g, index, id, Head(chains), bound, Wanted(Head(chains), Tail(chains))) :
    Solve(g, index, id, Tail(chains), b @@ bound)

\* holds: a chain on its own.
HoldsAlone(g, index, id, chain) ==
  (ChainWalks(g, index, id, chain, NoBinding, {}) # {}) # chain.not

\* and_group, eval_expr: the chains that are `has` all at once.
Holds(g, index, id, chains) ==
  /\ \A i \in DOMAIN chains : chains[i].not => HoldsAlone(g, index, id, chains[i])
  /\ Solve(g, index, id, SelectSeq(chains, LAMBDA c : ~c.not), NoBinding)

UsesSame(chain) == chain.from # NoName \/ Joins(chain)
Narrows(index, types, chain) ==
  /\ index /\ ~chain.not /\ ~UsesSame(chain)
  /\ chain.hops[Len(chain.hops)].test /\ Lands(Landings(types, chain.hops), chain.hops)

\* The rows the group holds for: from the index for the first chain it answers,
\* else all of the types, and each one is tested.
Rows(g, index, types, chains) ==
  LET answered == {i \in DOMAIN chains : Narrows(index, types, chains[i])}
      from == IF answered = {} THEN DOMAIN g.type ELSE ChainCandidates(g, types, chains[Min(answered)])
  IN {n \in OfTypes(g, from, types) : Holds(g, index, n, chains)}

-----------------------------------------------------------------------------
(* What chains mean: there is a walk for each chain, all agreeing on the   *)
(* nodes `same` names.                                                     *)

Steps(g, field, from, n) ==
  LET reach[d \in 0 .. n] ==
        IF d = 0 THEN {from} ELSE UNION {Forward(g, m, field) : m \in reach[d - 1]}
  IN reach
OneHop(g, from, hop) ==
  IF ~Repeated(hop) THEN Forward(g, from, hop.field)
  ELSE LET reach == Steps(g, hop.field, from, hop.max)
           first(n) == Min({NotFound} \cup {d \in 0 .. hop.max : n \in reach[d]})
       IN {n \in DOMAIN g.type : first(n) \in hop.min .. hop.max}

\* The ways along the hops, as the nodes of their hops by name; a join ends at
\* what an earlier chain named.
RECURSIVE Ways(_, _, _, _, _)
Ways(g, from, hops, earlier, named) ==
  IF hops = <<>> THEN {named}
  ELSE LET hop == Head(hops)
       IN UNION {Ways(g, n, Tail(hops), earlier, IF hop.same THEN named ELSE (hop.field :> n) @@ named) :
                  n \in {n \in OneHop(g, from, hop) : Passes(g, n, hop.test) /\ (hop.same => n = earlier[hop.field])}}

RECURSIVE Agree(_, _, _, _)
Agree(g, id, chains, named) ==
  chains = <<>> \/
  LET chain == Head(chains)
      start == IF chain.from = NoName THEN id ELSE named[chain.from.name]
  IN Passes(g, start, chain.from.test) /\
     \E found \in Ways(g, start, chain.hops, named, NoBinding) : Agree(g, id, Tail(chains), found @@ named)

\* Every hop of a checked chain lands on the types the check gave it.
LandsOnTypes(g, types, chains) ==
  \A i \in DOMAIN chains : \A k \in DOMAIN chains[i].hops :
    LET at == TypesAt(types, chains)[i]
        reached == UNION {OneHop(g, n, chains[i].hops[k]) : n \in OfTypes(g, DOMAIN g.type, at[k - 1])}
    IN reached = OfTypes(g, reached, at[k])

\* "an index never changes which nodes a walk reaches" (chain.rs:26-27), nor do
\* pinned ends, a search from both ends, or a walk split at a `same`; and what
\* the check lets through names one walk's node each time it says `same`.
AreWalks(g, types, chains, rows) ==
  rows = {n \in OfTypes(g, DOMAIN g.type, types) :
            /\ Agree(g, n, SelectSeq(chains, LAMBDA c : ~c.not), NoBinding)
            /\ \A i \in DOMAIN chains : chains[i].not => Ways(g, n, chains[i].hops, NoBinding, NoBinding) = {}}
=============================================================================

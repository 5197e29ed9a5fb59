----------------------------- MODULE Statements -----------------------------
(***************************************************************************)
(* A statement, checked against the schema (Check in zega/src/lang/mod.rs) *)
(* and run (mutate, apply_node and project in zega/src/v2.rs).             *)
(*                                                                         *)
(* A selection is [types, where, sets, order, delete, items]: types is a   *)
(* sequence, the first the one its walks start from; where holds at most   *)
(* one condition, [op: "test", field, cmp, value] or [op: "and" or "or",   *)
(* terms]; sets are values by field, order a sequence of fields.  An item  *)
(* is [is: "prop" or "edgeProp" or "series", name], [is: "edgeSet", name,  *)
(* value], [is: "detach"], or [is: "walk", field, dir, how, target], where *)
(* how is "follow", "range" (one or two hops), "path", "link" or "unlink"  *)
(* and target a selection; a path also has weight, toward and bound, "" or *)
(* a field, a field, and "hops" or "cost".  No statement has a series      *)
(* clause, `from .. to .. by`.                                             *)
(***************************************************************************)
EXTENDS Schemas, FiniteSetsExt, SequencesExt

Types(sel)     == {sel.types[i] : i \in DOMAIN sel.types}
Items(sel, is) == {sel.items[i] : i \in {i \in DOMAIN sel.items : sel.items[i].is = is}}
Links(sel)     == \E w \in Items(sel, "walk") : w.how \in {"link", "unlink"}

\* creates
Creates(sel, linked) == ~linked /\ ~sel.delete /\ sel.sets = <<>> /\ ~Links(sel)

RECURSIVE Tests(_)
Tests(expr) == IF expr.op = "test" THEN {expr} ELSE UNION {Tests(expr.terms[i]) : i \in DOMAIN expr.terms}
RECURSIVE IsEqualityAnd(_)
IsEqualityAnd(expr) ==
  CASE expr.op = "test" -> expr.cmp = "="
    [] expr.op = "and"  -> \A i \in DOMAIN expr.terms : IsEqualityAnd(expr.terms[i])
    [] expr.op = "or"   -> FALSE

\* and_eqs: what a create writes
Written(sel) ==
  LET eqs == IF sel.where = <<>> THEN {} ELSE {t \in Tests(sel.where[1]) : t.cmp = "="}
  IN [f \in {t.field : t \in eqs} |-> (CHOOSE t \in eqs : t.field = f).value]

\* Mutant: a null is as good as a value.
MissingUnlessNamed(schema, sel) ==
  IF sel.where # <<>> /\ ~IsEqualityAnd(sel.where[1]) THEN {}
  ELSE {f \in UNION {DOMAIN schema[t] : t \in Types(sel)} :
          /\ \E t \in Types(sel) : Has(schema, t, f, "prop") /\ ~schema[t][f].optional
          /\ f \notin DOMAIN Written(sel)}

\* missing_fields
MissingFields(schema, sel) ==
  IF sel.where # <<>> /\ ~IsEqualityAnd(sel.where[1]) THEN {}
  ELSE {f \in UNION {DOMAIN schema[t] : t \in Types(sel)} :
          /\ \E t \in Types(sel) : Has(schema, t, f, "prop") /\ ~schema[t][f].optional
          /\ f \notin DOMAIN Written(sel) \/ IsNull(Written(sel)[f])}

-----------------------------------------------------------------------------
(* The check.                                                              *)

\* ensure_prop, relationship_in_filter
HasProp(schema, sel, f) == \E t \in Types(sel) : Has(schema, t, f, "prop")

\* check_point_value
ValueFits(schema, sel, f, value) ==
  \A t \in Types(sel) : Has(schema, t, f, "prop") =>
    LET declared == schema[t][f]
    IN IF declared.type.base = "Vector"
       THEN value.type = declared.type \/ (IsNull(value) /\ declared.optional)
       ELSE value.type.base # "Vector"

CheckWhere(schema, sel) ==
  sel.where # <<>> =>
    \A t \in Tests(sel.where[1]) : HasProp(schema, sel, t.field) /\ ValueFits(schema, sel, t.field, t.value)

\* ensure_orderable
Orderable(schema, sel, f) ==
  LET typed == {i \in DOMAIN sel.types : Has(schema, sel.types[i], f, "prop")}
  IN typed # {} /\ schema[sel.types[Min(typed)]][f].type.base # "Vector"

\* edge_field, json_matches: arrived is <<type, field>> of the walk here, or <<>>
CheckEdgeField(schema, arrived, item) ==
  /\ arrived # <<>>
  /\ LET props == schema[arrived[1]][arrived[2]].props
     IN /\ item.name \in DOMAIN props
        /\ item.is = "edgeSet" => SameValues(item.value.type, props[item.name].type)

\* Mutant: what a relationship requires is not asked for.
NoEdgeFieldsRequired(schema, type, walk) == TRUE

\* require_edge_fields
EdgeFieldsGiven(schema, type, walk) ==
  LET props == schema[type][walk.field].props
  IN \A p \in DOMAIN props : props[p].optional \/ \E e \in Items(walk.target, "edgeSet") : e.name = p

\* walk
CheckWalk(schema, type, walk) ==
  /\ Has(schema, type, walk.field, "edge")
  /\ walk.dir = schema[type][walk.field].dir
  /\ Types(walk.target) \subseteq schema[type][walk.field].targets

\* path
CheckPath(schema, mutation, sel, walk) ==
  LET edge  == schema[sel.types[1]][walk.field]
      found == walk.weight \in DOMAIN edge.props
      continues(t) == /\ Has(schema, t, walk.field, "edge")
                      /\ schema[t][walk.field].rel = edge.rel /\ schema[t][walk.field].dir = walk.dir
  IN /\ ~mutation /\ walk.target.order = <<>>
     /\ Has(schema, sel.types[1], walk.field, "edge") =>
          /\ \A t \in Types(walk.target) \cap DOMAIN schema : continues(t)
          /\ walk.weight # "" => found /\ edge.props[walk.weight].type.base \in {"Int", "Float"}
          /\ walk.bound = "hops" => walk.weight = ""
          /\ walk.toward # "" =>
               /\ walk.weight # "" /\ (found => edge.props[walk.weight].unit)
               /\ \A t \in Types(sel) \cup Types(walk.target) :
                    Has(schema, t, walk.toward, "prop") /\ schema[t][walk.toward].type.base = "Point"

\* delete
CheckDelete(mutation, sel, arrived) ==
  /\ mutation /\ arrived = <<>> /\ sel.where # <<>> /\ Len(sel.types) = 1 /\ sel.sets = <<>>
  /\ \A i \in DOMAIN sel.items : sel.items[i].is \in {"prop", "detach"}

\* visit
RECURSIVE CheckSelection(_, _, _, _, _)
CheckSelection(schema, mutation, sel, arrived, linked) ==
  /\ Types(sel) \subseteq DOMAIN schema
  /\ CheckWhere(schema, sel)
  /\ \A i \in DOMAIN sel.order : Orderable(schema, sel, sel.order[i])
  /\ sel.delete => CheckDelete(mutation, sel, arrived)
  /\ mutation => sel.order = <<>>
  /\ \A f \in DOMAIN sel.sets :
       mutation /\ HasProp(schema, sel, f) /\ ValueFits(schema, sel, f, sel.sets[f])
  /\ \A i \in DOMAIN sel.items :
       LET item == sel.items[i]  type == sel.types[1]
       IN CASE item.is = "prop"     -> HasProp(schema, sel, item.name)
            [] item.is = "series"   -> Has(schema, type, item.name, "prop") /\ schema[type][item.name].temporal
            [] item.is = "detach"   -> sel.delete
            [] item.is = "edgeProp" -> CheckEdgeField(schema, arrived, item)
            [] item.is = "edgeSet"  -> mutation /\ CheckEdgeField(schema, arrived, item)
            [] item.is = "walk" ->
                 /\ mutation => item.how # "range"
                 /\ item.how = "path" => CheckPath(schema, mutation, sel, item)
                 /\ ~mutation => item.how # "unlink"
                 /\ CheckWalk(schema, type, item)
                 /\ (mutation /\ item.how # "unlink") => EdgeFieldsGiven(schema, type, item)
                 /\ CheckSelection(schema, mutation, item.target, <<type, item.field>>, item.how \in {"link", "unlink"})
  /\ (mutation /\ Creates(sel, linked)) => MissingFields(schema, sel) = {}

Check(schema, mutation, sel) == CheckSelection(schema, mutation, sel, <<>>, FALSE)

-----------------------------------------------------------------------------
(* Running it.  A run is [d, failed]: failed is the first reason, "none",  *)
(* "data" (what is stored), "form" (a create that is not a list of fields, *)
(* a series without its clause) or "schema" (what the schema says, which a *)
(* check could see).                                                       *)

Holds(d, n, test) ==
  LET v == IF test.field \in DOMAIN d.props[n] THEN d.props[n][test.field] ELSE [type |-> Type("Null"), reads |-> {}, of |-> 0]
  IN CASE test.cmp = "=" -> v.type = test.value.type /\ v.of = test.value.of
       [] test.cmp = ">" -> v.type.base = "Int" /\ test.value.type.base = "Int" /\ v.of > test.value.of
RECURSIVE Accepts(_, _, _)
Accepts(d, n, expr) ==
  CASE expr.op = "test" -> Holds(d, n, expr)
    [] expr.op = "and"  -> \A i \in DOMAIN expr.terms : Accepts(d, n, expr.terms[i])
    [] expr.op = "or"   -> \E i \in DOMAIN expr.terms : Accepts(d, n, expr.terms[i])
Matches(d, sel) ==
  {n \in DOMAIN d.labels : d.labels[n] \cap Types(sel) # {} /\ (sel.where = <<>> \/ Accepts(d, n, sel.where[1]))}

Neighbours(d, n, rel, dir) == {r \in d.rels : r.kind = rel /\ Near(dir, r) = n}

\* find_duplicate
Duplicate(d, uniques, labels, props, except) ==
  \E u \in uniques : /\ u[1] \in labels /\ u[2] \in DOMAIN props /\ ~IsNull(props[u[2]])
                     /\ \E n \in DOMAIN d.labels \ except :
                          u[1] \in d.labels[n] /\ u[2] \in DOMAIN d.props[n] /\ d.props[n][u[2]] = props[u[2]]

\* json_to_prop: only the first type's vectors are looked at
Stored(schema, sel, f, value) ==
  Has(schema, sel.types[1], f, "prop") /\ schema[sel.types[1]][f].type.base = "Vector" /\ ~IsNull(value)
    => value.type = schema[sel.types[1]][f].type

Run(d) == [d |-> d, failed |-> "none"]
Fails(run, why) == IF run.failed = "none" THEN [run EXCEPT !.failed = why] ELSE run
Goes(run) == run.failed = "none"
Next1(set) == IF set = {} THEN 1 ELSE Max(set) + 1
Puts(f, g) == [x \in DOMAIN f \cup DOMAIN g |-> IF x \in DOMAIN g THEN g[x] ELSE f[x]]

\* insert_node, assign_props
Insert(schema, uniques, d, sel) ==
  LET props == Written(sel)  id == Next1(DOMAIN d.labels)
  IN CASE sel.where # <<>> /\ ~IsEqualityAnd(sel.where[1]) -> Fails(Run(d), "form")
       [] \E f \in DOMAIN props : ~Stored(schema, sel, f, props[f]) -> Fails(Run(d), "schema")
       [] MissingFields(schema, sel) # {} -> Fails(Run(d), "schema")
       [] Duplicate(d, uniques, Types(sel), props, {}) -> Fails(Run(d), "data")
       [] OTHER -> Run([d EXCEPT !.labels = Puts(@, id :> Types(sel)), !.props = Puts(@, id :> props)])

\* lookup_one
LookedUp(d, sel) == IF Cardinality(Matches(d, sel)) = 1 THEN Run(d) ELSE Fails(Run(d), "data")
TheOne(d, sel) == CHOOSE n \in Matches(d, sel) : TRUE

\* update_node, after find_duplicate
Sets(schema, uniques, run, sel, id) ==
  IF ~Goes(run) \/ sel.sets = <<>> THEN run
  ELSE IF \E f \in DOMAIN sel.sets : ~Stored(schema, sel, f, sel.sets[f]) THEN Fails(run, "schema")
  ELSE IF Duplicate(run.d, uniques, run.d.labels[id], sel.sets, {id}) THEN Fails(run, "data")
  ELSE [run EXCEPT !.d.props[id] = Puts(@, sel.sets)]

\* require_edge_props, edge_sets
EdgeSets(sel) == [p \in {e.name : e \in Items(sel, "edgeSet")} |-> (CHOOSE e \in Items(sel, "edgeSet") : e.name = p).value]
EdgePropsFit(schema, rel, props) ==
  \A t \in DOMAIN schema : \A f \in DOMAIN schema[t] :
    schema[t][f].is = "edge" /\ schema[t][f].rel = rel =>
      /\ DOMAIN props \subseteq DOMAIN schema[t][f].props
      /\ \A p \in DOMAIN schema[t][f].props :
           IF p \in DOMAIN props THEN SameBase(props[p].type, schema[t][f].props[p].type)
           ELSE schema[t][f].props[p].optional

\* connect
Connect(schema, run, parent, child, edge, sel) ==
  IF ~Goes(run) THEN run
  ELSE IF ~EdgePropsFit(schema, edge.rel, EdgeSets(sel)) THEN Fails(run, "schema")
  ELSE IF ~edge.many /\ Neighbours(run.d, parent, edge.rel, edge.dir) # {} THEN Fails(run, "data")
  ELSE [run EXCEPT !.d.rels = @ \cup
          {[id |-> Next1({r.id : r \in run.d.rels}), kind |-> edge.rel, props |-> EdgeSets(sel),
            from |-> IF edge.dir = "out" THEN parent ELSE child,
            to   |-> IF edge.dir = "out" THEN child ELSE parent]}]

\* step_edges: what a node's own field leads to
Steps(schema, d, n, field) ==
  LET types == {t \in d.labels[n] : Has(schema, t, field, "edge")}
      edge  == schema[CHOOSE t \in types : TRUE][field]
  IN IF types = {} THEN {}
     ELSE {m \in {Far(edge.dir, r) : r \in Neighbours(d, n, edge.rel, edge.dir)} : d.labels[m] \cap edge.targets # {}}

Roads(d, edge, n) == {r \in Neighbours(d, n, edge.rel, edge.dir) : d.labels[Far(edge.dir, r)] \cap edge.targets # {}}

\* The nodes a path from n can read.
OnTheWay(d, edge, n) ==
  LET near[i \in 0 .. Cardinality(DOMAIN d.labels)] ==
        IF i = 0 THEN {n} ELSE near[i - 1] \cup UNION {{Far(edge.dir, r) : r \in Roads(d, edge, m)} : m \in near[i - 1]}
  IN near[Cardinality(DOMAIN d.labels)]

\* route: why a search that reads every node and road it can reach fails.  (What
\* it finds, and negative weights and roads shorter than a line, is in Routes.)
RouteFails(schema, d, edge, n, walk) ==
  LET nodes == OnTheWay(d, edge, n) \cup Matches(d, walk.target)
      roads == UNION {Roads(d, edge, m) : m \in OnTheWay(d, edge, n)}
      weightOf(r) == IF walk.weight \in DOMAIN r.props THEN r.props[walk.weight].type.base ELSE "Null"
      pointOf(m)  == IF walk.toward \in DOMAIN d.props[m] THEN d.props[m][walk.toward].type.base ELSE "Null"
      declared    == walk.weight \in DOMAIN edge.props
  IN IF walk.weight = "" THEN {}
     ELSE (IF walk.bound = "hops" \/ ~declared THEN {"schema"} ELSE {})
          \cup {IF weightOf(r) = "Null" THEN "data" ELSE "schema" : r \in {r \in roads : weightOf(r) \notin {"Int", "Float"}}}
          \cup IF walk.toward = "" THEN {}
               ELSE (IF declared /\ edge.props[walk.weight].unit THEN {} ELSE {"schema"})
                    \cup {IF \E t \in d.labels[m] : Has(schema, t, walk.toward, "prop") THEN "data" ELSE "schema" :
                            m \in {m \in nodes : pointOf(m) # "Point"}}

\* project: why reading a row fails; arrived: whether a relationship led here
RECURSIVE ReadFails(_, _, _, _, _)
ReadFails(schema, d, sel, n, arrived) ==
  LET types == {i \in DOMAIN sel.types : sel.types[i] \in d.labels[n]}
      type  == sel.types[Min(types)]
      walked(item, edge) ==
        LET near   == {Far(edge.dir, r) : r \in Roads(d, edge, n)}
            second == UNION {Steps(schema, d, m, item.field) : m \in Steps(schema, d, n, item.field)}
            far == CASE item.how = "path"  -> OnTheWay(d, edge, n)
                     [] item.how = "range" ->
                          {m \in (Steps(schema, d, n, item.field) \cup second) \ {n} : d.labels[m] \cap edge.targets # {}}
                     [] OTHER -> near
            alone == {n} \cup IF item.how = "range" THEN far ELSE {}
            kept  == {m \in far : item.how = "path" \/ item.target.where = <<>> \/ Accepts(d, m, item.target.where[1])}
        IN IF edge.dir # item.dir \/ ~(Types(item.target) \subseteq edge.targets) THEN {"schema"}
           ELSE IF item.how = "path" /\ RouteFails(schema, d, edge, n, item) # {} THEN RouteFails(schema, d, edge, n, item)
           ELSE IF item.how = "path" /\ far \cap Matches(d, item.target) = {} THEN {}
           ELSE IF item.how # "path" /\ ~edge.many /\ \E m \in alone : Cardinality(Neighbours(d, m, edge.rel, edge.dir)) > 1
           THEN {"data"}
           ELSE UNION {ReadFails(schema, d, item.target, m, TRUE) : m \in kept}
      of(item) ==
        CASE item.is = "prop" -> IF HasProp(schema, sel, item.name) THEN {} ELSE {"schema"}
          [] item.is = "series" -> {"form"}
          [] item.is = "edgeProp" -> IF arrived THEN {} ELSE {"schema"}
          [] item.is = "edgeSet" -> {"schema"}
          [] item.is = "walk" ->
               IF types = {} \/ ~Has(schema, type, item.field, "edge") THEN {"schema"}
               ELSE walked(item, schema[type][item.field])
          [] OTHER -> {}
  IN UNION {of(sel.items[i]) : i \in DOMAIN sel.items}

First(run, why) ==
  IF "schema" \in why THEN Fails(run, "schema") ELSE IF "data" \in why THEN Fails(run, "data")
  ELSE IF why # {} THEN Fails(run, "form") ELSE run

\* apply_node, of an unlink: what is left of the other node is read.
Unlink(schema, run, parent, child, edge, sel) ==
  LET cut == [run EXCEPT !.d.rels = {r \in @ : ~(r \in Neighbours(run.d, parent, edge.rel, edge.dir) /\ Far(edge.dir, r) = child)}]
  IN First(cut, ReadFails(schema, cut.d, sel, child, FALSE))

\* apply_node: parent is <<node, edge>>, or <<>>
RECURSIVE ApplyNode(_, _, _, _, _)
ApplyNode(schema, uniques, d, sel, parent) ==
  LET looks == sel.sets # <<>> \/ Links(sel)
      found == IF looks THEN LookedUp(d, sel) ELSE Insert(schema, uniques, d, sel)
      id    == IF looks THEN TheOne(d, sel) ELSE Next1(DOMAIN d.labels)
      set   == Sets(schema, uniques, found, sel, id)
      here  == IF parent = <<>> THEN set ELSE Connect(schema, set, parent[1], id, parent[2], sel)
      walk(run, item) ==
        LET type == sel.types[1]  edge == schema[type][item.field]
        IN IF Goes(run) /\ item.is = "series" THEN Fails(run, "form")
           ELSE IF ~Goes(run) \/ item.is # "walk" THEN run
           ELSE IF item.how \in {"range", "path"} \/ ~Has(schema, type, item.field, "edge") THEN Fails(run, "schema")
           ELSE IF item.dir # edge.dir \/ item.target.types[1] \notin edge.targets THEN Fails(run, "schema")
           ELSE IF item.how = "follow" THEN ApplyNode(schema, uniques, run.d, item.target, <<id, edge>>)
           ELSE IF ~Goes(LookedUp(run.d, item.target)) THEN LookedUp(run.d, item.target)
           ELSE IF item.how = "unlink" THEN Unlink(schema, run, id, TheOne(run.d, item.target), edge, item.target)
           ELSE Connect(schema, run, id, TheOne(run.d, item.target), edge, item.target)
  IN IF Goes(here) THEN FoldLeft(walk, here, sel.items) ELSE here

\* delete_nodes
Delete(d, sel) ==
  LET gone == Matches(d, sel)
      attached == {r \in d.rels : r.from \in gone \/ r.to \in gone}
  IN IF attached # {} /\ Items(sel, "detach") = {} THEN Fails(Run(d), "data")
     ELSE Run([d EXCEPT !.labels = [n \in DOMAIN d.labels \ gone |-> d.labels[n]],
                        !.props  = [n \in DOMAIN d.labels \ gone |-> d.props[n]],
                        !.rels   = @ \ attached])

\* mutate
Mutate(schema, uniques, d, sel) ==
  IF sel.delete THEN Delete(d, sel) ELSE ApplyNode(schema, uniques, d, sel, <<>>)

\* read
ReadRun(schema, d, sel) == First(Run(d), UNION {ReadFails(schema, d, sel, n, FALSE) : n \in Matches(d, sel)})

\* prepare, then run_statement; a failed mutation is rolled back whole.
Execute(schema, uniques, d, mutation, sel) ==
  LET run == IF mutation THEN Mutate(schema, uniques, d, sel) ELSE ReadRun(schema, d, sel)
  IN IF ~Check(schema, mutation, sel) THEN Fails(Run(d), "refused")
     ELSE IF Goes(run) THEN run ELSE [run EXCEPT !.d = d]

-----------------------------------------------------------------------------
(* What a statement does.                                                  *)

RECURSIVE Creations(_), Connections(_)
Creations(sel) ==
  (IF Creates(sel, FALSE) THEN 1 ELSE 0)
    + FoldLeft(LAMBDA n, w : n + IF w.is = "walk" /\ w.how = "follow" THEN Creations(w.target) ELSE 0, 0, sel.items)
Connections(sel) ==
  FoldLeft(LAMBDA n, w : n + CASE w.is # "walk" \/ w.how = "unlink" -> 0
                               [] w.is = "walk" /\ w.how = "link" -> 1
                               [] OTHER -> 1 + Connections(w.target), 0, sel.items)

\* A mutation that succeeds made every node and every relationship it names,
\* deleted every row it matched, and left data that fits the schema.
DoesAll(schema, d, sel, run) ==
  LET links == ~\E w \in Items(sel, "walk") : w.how = "unlink"
  IN /\ Fits(run.d, schema)
     /\ sel.delete => DOMAIN run.d.labels = DOMAIN d.labels \ Matches(d, sel)
     /\ ~sel.delete => Cardinality(DOMAIN run.d.labels) = Cardinality(DOMAIN d.labels) + Creations(sel)
     /\ (~sel.delete /\ links) => Cardinality(run.d.rels) = Cardinality(d.rels) + Connections(sel)

\* What the check lets through never fails for what the schema says.
RunsOrClashes(run) == run.failed # "schema"
=============================================================================

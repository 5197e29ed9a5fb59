--------------------------- MODULE JournalProofs ----------------------------
(***************************************************************************)
(* Proofs about Journal: a statement that fails leaves no trace, and every *)
(* lookup finds what a scan finds.  The undo list is a path (Traced): undo *)
(* its last note and the database is one step nearer to the one that the   *)
(* statement found.  Every step of every call makes that path one longer   *)
(* (Kept), and roll_back walks it (UndoAllIs).  The path holds the facts   *)
(* only; the indexes follow from them, since whatever the graph does it    *)
(* stays indexed.  The way back exists because ids are not used again      *)
(* within a statement and edges run between live nodes (Grounded).         *)
(***************************************************************************)
EXTENDS JournalStepProofs

-----------------------------------------------------------------------------
(* The facts of a database, and the way back.                               *)
\* What a database holds, its indexes and counters apart.
Facts(nodes, rels, us, rs, history) ==
  [nodes |-> nodes, rels |-> rels, us |-> us, rs |-> rs, history |-> history]

FactsOf(d) ==
  Facts(d.graph.nodes, d.graph.rels, DOMAIN d.graph.uniques, DOMAIN d.graph.ranges, d.history)

\* What one step back makes of it.
WithHistory(q, history) == Facts(q.nodes, q.rels, q.us, q.rs, history)
WithNodes(q, nodes) == Facts(nodes, q.rels, q.us, q.rs, q.history)
WithRels(q, rels) == Facts(q.nodes, rels, q.us, q.rs, q.history)
Sectioned(fields, rels, appears, ends) ==
  [fields |-> fields, rels |-> rels, appears |-> appears, ends |-> ends]

FieldsBack(h, id, fields) == Over(Drop(h.fields, FieldsOf(h, id)), fields)
Undone(u, q) ==
  CASE u.undo = "edge_history" ->
         WithHistory(q, Sectioned(q.history.fields, PutOptional(q.history.rels, u.id, u.edge),
                                  q.history.appears, q.history.ends))
    [] u.undo = "lifetime" ->
         WithHistory(q, Sectioned(q.history.fields, q.history.rels,
                                  PutOptional(q.history.appears, u.id, u.appears),
                                  PutOptional(q.history.ends, u.id, u.ends)))
    [] u.undo = "history" ->
         WithHistory(q, Sectioned(FieldsBack(q.history, u.id, u.fields), q.history.rels,
                                  q.history.appears, q.history.ends))
    [] u.undo = "created" ->
         IF u.id \in DOMAIN q.nodes
         THEN Facts(Without(q.nodes, u.id), RelsWithout(q.rels, u.id), q.us, q.rs, q.history)
         ELSE q
    [] u.undo = "replaced"    -> WithNodes(q, Put(q.nodes, u.id, u.node))
    [] u.undo = "created_rel" -> WithRels(q, Without(q.rels, u.id))
    [] u.undo = "deleted_rel" -> WithRels(q, Put(q.rels, u.id, u.rel))

\* The undo list leads from q back to start, by way of f.
Leads(f, q, undo, start) ==
  /\ f[0] = start /\ f[Len(undo)] = q
  /\ \A i \in 1 .. Len(undo) : f[i - 1] = Undone(undo[i], f[i])
Traced(q, undo, start) == \E f : Leads(f, q, undo, start)

\* One more note leads back one more step.
LEMMA TracedGrows ==
  ASSUME NEW undo, IsSeq(undo), NEW q, NEW start, Traced(q, undo, start), NEW u, NEW new,
         q = Undone(u, new)
  PROVE  Traced(new, Noted(undo, u), start)
<1> DEFINE more == Append(undo, u)
           last == Len(undo)
<1>1. PICK f : Leads(f, q, undo, start)
  BY DEF Traced
<1>2. /\ last \in Nat /\ Len(more) = last + 1 /\ more[last + 1] = u
      /\ \A i \in 1 .. last : more[i] = undo[i]
  BY SeqGrows
<1>3. /\ f[0] = start /\ f[last] = q
      /\ \A i \in 1 .. last : f[i - 1] = Undone(undo[i], f[i])
  BY <1>1 DEF Leads
<1> HIDE DEF more, last
<1> DEFINE g == [i \in 0 .. last + 1 |-> IF i <= last THEN f[i] ELSE new]
<1>4. g[last + 1] = new /\ \A i \in 0 .. last : g[i] = f[i]
  BY <1>2
<1> HIDE DEF g
<1>5. g[0] = start
  BY <1>2, <1>3, <1>4
<1>6. ASSUME NEW i \in 1 .. last + 1 PROVE g[i - 1] = Undone(more[i], g[i])
  <2>1. CASE i \in 1 .. last
    <3>1. g[i] = f[i] /\ g[i - 1] = f[i - 1] /\ more[i] = undo[i]
      BY <1>2, <1>4, <2>1
    <3> QED BY <1>3, <2>1, <3>1
  <2>2. CASE i = last + 1
    <3>1. g[i] = new /\ g[i - 1] = q /\ more[i] = u
      BY <1>2, <1>3, <1>4, <2>2
    <3> QED BY <3>1
  <2> QED BY <1>2, <2>1, <2>2
<1>7. Leads(g, new, more, start)
  BY <1>2, <1>4, <1>5, <1>6 DEF Leads
<1> QED BY <1>7 DEF Traced, Noted, more

\* Nodes and edges have ids that were handed out, an edge's ends are there,
\* and a mirrored edge is there and runs between mirrors.
Grounded(d) ==
  /\ ~EarlyDeletes
  /\ \A id \in DOMAIN d.graph.nodes : id < d.graph.next.node
  /\ \A r \in DOMAIN d.graph.rels :
       /\ r < d.graph.next.rel
       /\ d.graph.rels[r].from \in DOMAIN d.graph.nodes
       /\ d.graph.rels[r].to \in DOMAIN d.graph.nodes
  /\ \A m \in DOMAIN d.mirrors : \A r \in d.mirrors[m] :
       /\ r \in DOMAIN d.graph.rels
       /\ d.graph.rels[r].from \in DOMAIN d.mirrors
       /\ d.graph.rels[r].to \in DOMAIN d.mirrors

\* The step from x to y keeps the types and the ground, and its notes lead
\* back from y to wherever those of x lead.
Kept(y, x) ==
  /\ GoodX(y) /\ SameRest(y, x)
  /\ Grounded(x.d) => Grounded(y.d)
  /\ \A start : Grounded(x.d) /\ Traced(FactsOf(x.d), x.j.undo, start)
      => Traced(FactsOf(y.d), y.j.undo, start)

\* What two steps keep, both together keep.
LEMMA KeptTrans == ASSUME NEW x, NEW y, NEW z, Kept(y, x), Kept(z, y) PROVE Kept(z, x)
BY SMTT(30) DEF Kept, SameRest

\* What the facts are.
LEMMA FactsAre ==
  ASSUME NEW n, NEW r, NEW us, NEW rs, NEW h
  PROVE  /\ Facts(n, r, us, rs, h).nodes = n
         /\ Facts(n, r, us, rs, h).rels = r
         /\ Facts(n, r, us, rs, h).us = us
         /\ Facts(n, r, us, rs, h).rs = rs /\ Facts(n, r, us, rs, h).history = h
BY DEF Facts

\* A step that one note undoes.
LEMMA StepKept ==
  ASSUME NEW x, GoodX(x), NEW y, NEW g, NEW h, NEW u, Becomes(y, x, g, h, Noted(x.j.undo, u)),
         GoodX(y),
         Grounded(x.d) => Grounded(y.d) /\ FactsOf(x.d) = Undone(u, FactsOf(y.d))
  PROVE  Kept(y, x)
<1>1. SameRest(y, x) /\ y.j.undo = Noted(x.j.undo, u)
  BY BecomesIs
<1>2. IsSeq(x.j.undo)
  BY GoodXIs DEF GoodUndos
<1> QED BY <1>1, <1>2, TracedGrows DEF Kept

-----------------------------------------------------------------------------
(* Every step can be taken back.                                            *)
\* Taking a new key back.
LEMMA PutBack == ASSUME NEW f, IsFcn(f), NEW k, k \notin DOMAIN f, NEW v
    PROVE Without(Put(f, k, v), k) = f
<1> DEFINE g == Put(f, k, v)
<1>1. /\ \A x : x \in DOMAIN g <=> x \in DOMAIN f \/ x = k
      /\ \A x \in DOMAIN f : x # k => g[x] = f[x]
  BY PutIs
<1> HIDE DEF g
<1> DEFINE w == Without(g, k)
<1>2. IsFcn(w) /\ (\A x : x \in DOMAIN w <=> x \in DOMAIN g /\ x # k) /\ \A x \in DOMAIN w : w[x]
      = g[x]
  BY LessIs, LessFcn
<1> HIDE DEF w
<1>3. DOMAIN w = DOMAIN f /\ \A x \in DOMAIN w : w[x] = f[x]
  BY <1>1, <1>2
<1>4. w = f
  BY <1>2, <1>3, SameFcn
<1> QED BY <1>4 DEF w, g

\* Giving a key its old value back.
LEMMA PutOver ==
  ASSUME NEW f, IsFcn(f), NEW k \in DOMAIN f, NEW v
  PROVE  Put(Put(f, k, v), k, f[k]) = f
<1> DEFINE g == Put(f, k, v)
<1>1. /\ \A x : x \in DOMAIN g <=> x \in DOMAIN f
      /\ \A x \in DOMAIN f : x # k => g[x] = f[x]
  BY PutIs
<1> HIDE DEF g
<1> DEFINE w == Put(g, k, f[k])
<1>2. IsFcn(w) /\ (\A x : x \in DOMAIN w <=> x \in DOMAIN g \/ x = k)
      /\ w[k] = f[k] /\ \A x \in DOMAIN g : x # k => w[x] = g[x]
  BY PutIs, PutFcn
<1> HIDE DEF w
<1>3. DOMAIN w = DOMAIN f /\ \A x \in DOMAIN w : w[x] = f[x]
  BY <1>1, <1>2
<1>4. w = f
  BY <1>2, <1>3, SameFcn
<1> QED BY <1>4 DEF w, g

\* Giving back a key that was dropped.
LEMMA WithoutBack ==
  ASSUME NEW f, IsFcn(f), NEW k \in DOMAIN f
  PROVE  Put(Without(f, k), k, f[k]) = f
<1> DEFINE g == Without(f, k)
<1>1. /\ \A x : x \in DOMAIN g <=> x \in DOMAIN f /\ x # k
      /\ \A x \in DOMAIN g : g[x] = f[x]
  BY LessIs
<1> HIDE DEF g
<1> DEFINE w == Put(g, k, f[k])
<1>2. IsFcn(w) /\ (\A x : x \in DOMAIN w <=> x \in DOMAIN g \/ x = k)
      /\ w[k] = f[k] /\ \A x \in DOMAIN g : x # k => w[x] = g[x]
  BY PutIs, PutFcn
<1> HIDE DEF w
<1>3. DOMAIN w = DOMAIN f /\ \A x \in DOMAIN w : w[x] = f[x]
  BY <1>1, <1>2
<1>4. w = f
  BY <1>2, <1>3, SameFcn
<1> QED BY <1>4 DEF w, g

\* A node without relationships takes none with it.
LEMMA NoneTouching ==
  ASSUME NEW rels, IsFcn(rels), NEW id, \A r \in DOMAIN rels : ~Touches(rels[r], id)
  PROVE  RelsWithout(rels, id) = rels
<1> DEFINE w == RelsWithout(rels, id)
<1>1. IsFcn(w) /\ (\A r : r \in DOMAIN w <=> r \in DOMAIN rels) /\ \A r \in DOMAIN w : w[r]
      = rels[r]
  BY RelsWithoutIs
<1> HIDE DEF w
<1>2. w = rels
  BY <1>1, SameFcn
<1> QED BY <1>2 DEF w

\* What undoing a created node does.
LEMMA UndoneCreated ==
  ASSUME NEW q, NEW id
  PROVE  Undone([undo |-> "created", id |-> id], q) =
           IF id \in DOMAIN q.nodes
           THEN Facts(Without(q.nodes, id), RelsWithout(q.rels, id), q.us, q.rs, q.history)
           ELSE q
BY DEF Undone

\* What undoing a changed or deleted node does.
LEMMA UndoneReplaced ==
  ASSUME NEW q, NEW id, NEW node
  PROVE  Undone([undo |-> "replaced", id |-> id, node |-> node], q)
         = WithNodes(q, Put(q.nodes, id, node))
BY DEF Undone

\* What undoing a created relationship does.
LEMMA UndoneCreatedRel ==
  ASSUME NEW q, NEW id
  PROVE  Undone([undo |-> "created_rel", id |-> id], q) = WithRels(q, Without(q.rels, id))
BY DEF Undone

\* What undoing a deleted relationship does.
LEMMA UndoneDeletedRel ==
  ASSUME NEW q, NEW id, NEW rel
  PROVE  Undone([undo |-> "deleted_rel", id |-> id, rel |-> rel], q)
         = WithRels(q, Put(q.rels, id, rel))
BY DEF Undone

\* What undoing an edge's history does.
LEMMA UndoneEdge ==
  ASSUME NEW q, NEW id, NEW edge
  PROVE  Undone([undo |-> "edge_history", id |-> id, edge |-> edge], q) =
           WithHistory(q, Sectioned(q.history.fields, PutOptional(q.history.rels, id, edge),
                                    q.history.appears, q.history.ends))
BY DEF Undone

\* What undoing a lifetime does.
LEMMA UndoneLifetime ==
  ASSUME NEW q, NEW id, NEW a, NEW e
  PROVE  Undone([undo |-> "lifetime", id |-> id, appears |-> a, ends |-> e], q) =
           WithHistory(q, Sectioned(q.history.fields, q.history.rels,
                                    PutOptional(q.history.appears, id, a),
                                        PutOptional(q.history.ends, id, e)))
BY DEF Undone

\* What undoing a node's field histories does.
LEMMA UndoneHistory ==
  ASSUME NEW q, NEW id, NEW fields
  PROVE  Undone([undo |-> "history", id |-> id, fields |-> fields], q) =
           WithHistory(q, Sectioned(FieldsBack(q.history, id, fields), q.history.rels,
                                    q.history.appears, q.history.ends))
BY DEF Undone

\* What the graph of a step says of its facts.
LEMMA FactsStep ==
  ASSUME NEW d, NEW e, NEW n, NEW r, e.graph.nodes = n, e.graph.rels = r,
         SameSlots(e.graph, d.graph),
         NEW h, e.history = h
  PROVE  FactsOf(e) = Facts(n, r, DOMAIN d.graph.uniques, DOMAIN d.graph.ranges, h)
BY DEF FactsOf, SameSlots

\* A created node can be taken back: its id was new, so no relationship touches it.
LEMMA NodeCreatedKept ==
  ASSUME NEW x, GoodX(x), NEW node, GoodNode(node), NEW y, NodeCreated(y, x, node)
  PROVE  Kept(y, x)
<1> DEFINE g == x.d.graph
           id == x.d.graph.next.node
           n == Put(g.nodes, id, node)
           u == [undo |-> "created", id |-> id]
           us == DOMAIN g.uniques
           rs == DOMAIN g.ranges
<1>1. Becomes(y, x, CreateNode(g, node), x.d.history, Noted(x.j.undo, u))
  BY DEF NodeCreated
<1>2. y.d.graph = RestoreNode(g, id, node) /\ y.d.history = x.d.history /\ SameRest(y, x)
  BY <1>1, BecomesIs DEF CreateNode
<1>3. Indexed(g) /\ id \in Nat /\ g.next.rel \in Nat
  BY GoodXIs, GoodGraphIs
<1>4. GoodNode(node) /\ IsNode(node)
  BY DEF GoodNode
<1>5. /\ y.d.graph.nodes = n /\ y.d.graph.rels = g.rels /\ SameSlots(y.d.graph, g)
      /\ y.d.graph.next = Counters(Later(id, id), g.next.rel)
  BY <1>2, <1>3, <1>4, RestoreNodeIs
<1>6. y.d.graph.next.node > id /\ y.d.graph.next.rel = g.next.rel /\ y.d.graph.next.node \in Nat
  <2> HIDE DEF id
  <2>1. Later(id, id) \in Nat /\ Later(id, id) > id
    BY <1>3, LaterIs
  <2> QED BY <1>5, <2>1, CountersAre
<1>7. ASSUME Grounded(x.d) PROVE Grounded(y.d) /\ FactsOf(x.d) = Undone(u, FactsOf(y.d))
  <2>1. /\ \A k \in DOMAIN g.nodes : k \in Nat /\ k < id
        /\ \A r \in DOMAIN g.rels : r < g.next.rel /\ g.rels[r].from \in DOMAIN g.nodes
                                          /\ g.rels[r].to \in DOMAIN g.nodes
    BY <1>7, GoodXIs, GoodGraphIs DEF Grounded
  <2>2. id \notin DOMAIN g.nodes /\ \A r \in DOMAIN g.rels : ~Touches(g.rels[r], id)
    BY <1>3, <2>1 DEF Touches
  <2>3. \A k : k \in DOMAIN n <=> k \in DOMAIN g.nodes \/ k = id
    BY PutIs
  <2>4. Without(n, id) = g.nodes /\ RelsWithout(g.rels, id) = g.rels
    BY <1>3, <2>2, IndexedIs, PutBack, NoneTouching
  <2> HIDE DEF n, us, rs, id
  <2>5. FactsOf(y.d) = Facts(n, g.rels, us, rs, x.d.history)
    <3>1. y.d.graph.nodes = n /\ y.d.graph.rels = g.rels /\ SameSlots(y.d.graph, g)
      BY <1>5
    <3> QED BY <1>2, <3>1, FactsStep DEF us, rs
  <2>6. FactsOf(x.d) = Facts(g.nodes, g.rels, us, rs, x.d.history)
    BY DEF FactsOf, us, rs
  <2>7. FactsOf(x.d) = Undone(u, FactsOf(y.d))
    BY <2>3, <2>4, <2>5, <2>6, UndoneCreated, FactsAre
  <2>8. Grounded(y.d)
    <3>1. y.d.mirrors = x.d.mirrors
      BY <1>2 DEF SameRest
    <3>2. \A k \in DOMAIN n : k < y.d.graph.next.node
      BY <1>3, <1>6, <2>1, <2>3 DEF id
    <3> HIDE DEF g
    <3> QED BY <1>5, <1>6, <1>7, <2>1, <2>3, <3>1, <3>2 DEF Grounded, g
  <2> QED BY <2>7, <2>8
<1>8. GoodX(y)
  BY NodeCreatedGood
<1> HIDE DEF u
<1> QED BY <1>1, <1>7, <1>8, StepKept

\* What a grounded database is.
LEMMA GroundedIs ==
  ASSUME NEW d, Grounded(d)
  PROVE  /\ ~EarlyDeletes
         /\ \A id \in DOMAIN d.graph.nodes : id < d.graph.next.node
         /\ \A r \in DOMAIN d.graph.rels : r < d.graph.next.rel
             /\ d.graph.rels[r].from \in DOMAIN d.graph.nodes
                                           /\ d.graph.rels[r].to \in DOMAIN d.graph.nodes
         /\ \A m \in DOMAIN d.mirrors : \A r \in d.mirrors[m] :
              r \in DOMAIN d.graph.rels /\ d.graph.rels[r].from \in DOMAIN d.mirrors
                  /\ d.graph.rels[r].to \in DOMAIN d.mirrors
BY DEF Grounded

\* Groundedness is about the graph and the mirrors.
LEMMA GroundedGraph ==
  ASSUME NEW d, NEW e, Grounded(d), e.graph = d.graph, e.mirrors = d.mirrors
  PROVE  Grounded(e)
BY DEF Grounded

\* A quiet step has nothing to take back.
LEMMA QuietKept == ASSUME NEW x, GoodX(x), NEW y, Quiet(y, x) PROVE Kept(y, x)
<1>1. GoodX(y)
  BY QuietGood
<1>2. SameRest(y, x) /\ y.d.graph = x.d.graph /\ y.d.history = x.d.history /\ y.j.undo = x.j.undo
  BY BecomesIs DEF Quiet
<1>3. FactsOf(y.d) = FactsOf(x.d)
  BY <1>2 DEF FactsOf
<1>4. Grounded(x.d) => Grounded(y.d)
  BY <1>2, GroundedGraph DEF SameRest
<1> QED BY <1>1, <1>2, <1>3, <1>4 DEF Kept

\* A changed node can be put back.
LEMMA NodeChangedKept ==
  ASSUME NEW x, GoodX(x), NEW id \in DOMAIN x.d.graph.nodes, NEW props, GoodProps(props),
         NEW y, NodeChanged(y, x, id, props)
  PROVE  Kept(y, x)
<1> DEFINE g == x.d.graph
           old == x.d.graph.nodes[id]
           n == Put(g.nodes, id, Changed(old, props))
           u == [undo |-> "replaced", id |-> id, node |-> old]
           us == DOMAIN g.uniques
           rs == DOMAIN g.ranges
<1>1. Becomes(y, x, UpdateNode(g, id, props), x.d.history, Noted(x.j.undo, u))
  BY DEF NodeChanged, NodeUndo
<1>2. y.d.graph = UpdateNode(g, id, props) /\ y.d.history = x.d.history /\ SameRest(y, x)
  BY <1>1, BecomesIs
<1>3. Indexed(g) /\ IsNode(old)
  BY GoodXIs, GoodGraphIs DEF GoodNode
<1>5. /\ y.d.graph.nodes = n /\ y.d.graph.rels = g.rels /\ SameSlots(y.d.graph, g)
      /\ y.d.graph.next = Counters(g.next.node, g.next.rel)
  BY <1>2, <1>3, UpdateNodeIs
<1>6. y.d.graph.next.node = g.next.node /\ y.d.graph.next.rel = g.next.rel
  BY <1>5, CountersAre
<1>7. FactsOf(x.d) = Undone(u, FactsOf(y.d))
  <2>1. Put(n, id, old) = g.nodes
    BY <1>3, IndexedIs, PutOver
  <2>4. y.d.graph.nodes = n /\ y.d.graph.rels = g.rels /\ SameSlots(y.d.graph, g) /\ y.d.history
        = x.d.history
    BY <1>2, <1>5
  <2> HIDE DEF n, us, rs, old
  <2>2. FactsOf(y.d) = Facts(n, g.rels, us, rs, x.d.history)
    BY <2>4, Zenon DEF FactsOf, SameSlots, us, rs
  <2>3. FactsOf(x.d) = Facts(g.nodes, g.rels, us, rs, x.d.history)
    BY DEF FactsOf, us, rs
  <2> QED BY <2>1, <2>2, <2>3, UndoneReplaced, FactsAre DEF WithNodes
<1>8. ASSUME Grounded(x.d) PROVE Grounded(y.d)
  <2>1. \A k : k \in DOMAIN n <=> k \in DOMAIN g.nodes
    BY PutIs
  <2>2. y.d.mirrors = x.d.mirrors
    BY <1>2 DEF SameRest
  <2> HIDE DEF n
  <2> QED BY <1>5, <1>6, <1>8, <2>1, <2>2 DEF Grounded
<1>9. GoodX(y)
  BY NodeChangedGood
<1> HIDE DEF u
<1> QED BY <1>1, <1>7, <1>8, <1>9, StepKept

\* A created relationship can be taken back.
LEMMA EdgeCreatedKept ==
  ASSUME NEW x, GoodX(x), NEW rel, rel.from \in DOMAIN x.d.graph.nodes,
         rel.to \in DOMAIN x.d.graph.nodes,
         NEW y, EdgeCreated(y, x, rel)
  PROVE  Kept(y, x)
<1> DEFINE g == x.d.graph
           id == x.d.graph.next.rel
           r == Put(g.rels, id, rel)
           u == [undo |-> "created_rel", id |-> id]
           us == DOMAIN g.uniques
           rs == DOMAIN g.ranges
<1>1. Becomes(y, x, CreateRelationship(g, rel), x.d.history, Noted(x.j.undo, u))
  BY DEF EdgeCreated
<1>2. y.d.graph = RestoreRelationship(g, id, rel) /\ y.d.history = x.d.history /\ SameRest(y, x)
  BY <1>1, BecomesIs DEF CreateRelationship
<1>3. Indexed(g) /\ id \in Nat
  BY GoodXIs, GoodGraphIs
<1>5. /\ y.d.graph.rels = r /\ y.d.graph.nodes = g.nodes /\ SameSlots(y.d.graph, g)
      /\ y.d.graph.next = Counters(g.next.node, Later(id, id))
  BY <1>2, <1>3, RestoreRelationshipIs
<1>6. y.d.graph.next.rel > id /\ y.d.graph.next.node = g.next.node /\ y.d.graph.next.rel \in Nat
  <2> HIDE DEF id
  <2>1. Later(id, id) \in Nat /\ Later(id, id) > id
    BY <1>3, LaterIs
  <2> QED BY <1>5, <2>1, CountersAre
<1>7. ASSUME Grounded(x.d) PROVE Grounded(y.d) /\ FactsOf(x.d) = Undone(u, FactsOf(y.d))
  <2>1. \A k \in DOMAIN g.rels : k \in Nat /\ k < id
    BY <1>7, GoodXIs, GoodGraphIs DEF Grounded
  <2>2. id \notin DOMAIN g.rels
    BY <1>3, <2>1
  <2>3. /\ \A k : k \in DOMAIN r <=> k \in DOMAIN g.rels \/ k = id
        /\ r[id] = rel /\ \A k \in DOMAIN g.rels : k # id => r[k] = g.rels[k]
    BY PutIs
  <2>4. Without(r, id) = g.rels
    BY <1>3, <2>2, IndexedIs, PutBack
  <2> HIDE DEF r, us, rs, id
  <2>5. FactsOf(y.d) = Facts(g.nodes, r, us, rs, x.d.history)
    BY <1>2, <1>5, FactsStep DEF us, rs
  <2>6. FactsOf(x.d) = Facts(g.nodes, g.rels, us, rs, x.d.history)
    BY DEF FactsOf, us, rs
  <2>7. FactsOf(x.d) = Undone(u, FactsOf(y.d))
    BY <2>4, <2>5, <2>6, UndoneCreatedRel, FactsAre DEF WithRels
  <2>8. Grounded(y.d)
    <3>1. y.d.mirrors = x.d.mirrors
      BY <1>2 DEF SameRest
    <3>2. \A k \in DOMAIN r : k < y.d.graph.next.rel
      BY <1>3, <1>6, <2>1, <2>3 DEF id
    <3>3. \A k \in DOMAIN r : r[k].from \in DOMAIN g.nodes /\ r[k].to \in DOMAIN g.nodes
      BY <1>7, <2>2, <2>3 DEF Grounded
    <3>4. \A k \in DOMAIN g.rels : r[k] = g.rels[k]
      BY <2>2, <2>3
    <3> QED BY <1>5, <1>6, <1>7, <2>3, <3>1, <3>2, <3>3, <3>4 DEF Grounded
  <2> QED BY <2>7, <2>8
<1>8. GoodX(y)
  BY EdgeCreatedGood
<1> HIDE DEF u
<1> QED BY <1>1, <1>7, <1>8, StepKept

\* A deleted relationship can be put back.
LEMMA EdgeCutKept ==
  ASSUME NEW x, GoodX(x), NEW id \in DOMAIN x.d.graph.rels, ~OfMirror(x, id), NEW y,
         EdgeCut(y, x, id)
  PROVE  Kept(y, x)
<1> DEFINE g == x.d.graph
           old == x.d.graph.rels[id]
           r == Without(g.rels, id)
           u == [undo |-> "deleted_rel", id |-> id, rel |-> old]
           us == DOMAIN g.uniques
           rs == DOMAIN g.ranges
<1>1. Becomes(y, x, DeleteRelationship(g, id), x.d.history, Noted(x.j.undo, u))
  BY DEF EdgeCut
<1>2. y.d.graph = DeleteRelationship(g, id) /\ y.d.history = x.d.history /\ SameRest(y, x)
  BY <1>1, BecomesIs
<1>3. Indexed(g)
  BY GoodXIs, GoodGraphIs
<1>5. /\ y.d.graph.nodes = g.nodes /\ y.d.graph.rels = r /\ SameSlots(y.d.graph, g)
      /\ y.d.graph.next = Counters(g.next.node, g.next.rel)
  BY <1>2, <1>3, DeleteRelationshipIs
<1>6. y.d.graph.next.node = g.next.node /\ y.d.graph.next.rel = g.next.rel
  BY <1>5, CountersAre
<1>7. FactsOf(x.d) = Undone(u, FactsOf(y.d))
  <2>1. Put(r, id, old) = g.rels
    BY <1>3, IndexedIs, WithoutBack
  <2> HIDE DEF r, us, rs, old
  <2>2. FactsOf(y.d) = Facts(g.nodes, r, us, rs, x.d.history)
    BY <1>2, <1>5, FactsStep DEF us, rs
  <2>3. FactsOf(x.d) = Facts(g.nodes, g.rels, us, rs, x.d.history)
    BY DEF FactsOf, us, rs
  <2> QED BY <2>1, <2>2, <2>3, UndoneDeletedRel, FactsAre DEF WithRels
<1>8. ASSUME Grounded(x.d) PROVE Grounded(y.d)
  <2>1. /\ \A k : k \in DOMAIN r <=> k \in DOMAIN g.rels /\ k # id
        /\ \A k \in DOMAIN r : r[k] = g.rels[k]
    BY LessIs
  <2>2. y.d.mirrors = x.d.mirrors
    BY <1>2 DEF SameRest
  <2>3. \A m \in DOMAIN x.d.mirrors : \A k \in x.d.mirrors[m] : k # id
    BY DEF OfMirror
  <2> HIDE DEF r
  <2> QED BY <1>5, <1>6, <1>8, <2>1, <2>2, <2>3 DEF Grounded
<1>9. GoodX(y)
  BY EdgeCutGood
<1> HIDE DEF u
<1> QED BY <1>1, <1>7, <1>8, <1>9, StepKept

\* A deleted node can be put back, if it had no relationship left to lose.
LEMMA NodeCutKept ==
  ASSUME NEW x, GoodX(x), NEW id \in DOMAIN x.d.graph.nodes, NEW y, NodeCut(y, x, id),
         Grounded(x.d) => \A r \in DOMAIN x.d.graph.rels : ~Touches(x.d.graph.rels[r], id)
  PROVE  Kept(y, x)
<1> DEFINE g == x.d.graph
           old == x.d.graph.nodes[id]
           n == Without(g.nodes, id)
           r == RelsWithout(g.rels, id)
           u == [undo |-> "replaced", id |-> id, node |-> old]
           us == DOMAIN g.uniques
           rs == DOMAIN g.ranges
<1>1. Becomes(y, x, DeleteNode(g, id), x.d.history, Noted(x.j.undo, u))
  BY DEF NodeCut, NodeUndo
<1>2. y.d.graph = DeleteNode(g, id) /\ y.d.history = x.d.history /\ SameRest(y, x)
  BY <1>1, BecomesIs
<1>3. Indexed(g) /\ \E top \in Nat : DOMAIN g.rels \subseteq 1 .. top
  BY GoodXIs, GoodGraphIs
<1>5. /\ y.d.graph.nodes = n /\ y.d.graph.rels = r /\ SameSlots(y.d.graph, g)
      /\ y.d.graph.next = Counters(g.next.node, g.next.rel)
  BY <1>2, <1>3, DeleteNodeIs
<1>6. y.d.graph.next.node = g.next.node /\ y.d.graph.next.rel = g.next.rel
  BY <1>5, CountersAre
<1>7. ASSUME Grounded(x.d) PROVE Grounded(y.d) /\ FactsOf(x.d) = Undone(u, FactsOf(y.d))
  <2>0. r = g.rels
    BY <1>3, <1>7, IndexedIs, NoneTouching
  <2>1. Put(n, id, old) = g.nodes
    BY <1>3, IndexedIs, WithoutBack
  <2>4. \A k : k \in DOMAIN n <=> k \in DOMAIN g.nodes /\ k # id
    BY LessIs
  <2> HIDE DEF n, us, rs, old, r
  <2>2. FactsOf(y.d) = Facts(n, g.rels, us, rs, x.d.history)
    BY <1>2, <1>5, <2>0, FactsStep DEF us, rs
  <2>3. FactsOf(x.d) = Facts(g.nodes, g.rels, us, rs, x.d.history)
    BY DEF FactsOf, us, rs
  <2>5. FactsOf(x.d) = Undone(u, FactsOf(y.d))
    BY <2>1, <2>2, <2>3, UndoneReplaced, FactsAre DEF WithNodes
  <2>6. Grounded(y.d)
    <3>1. y.d.mirrors = x.d.mirrors
      BY <1>2 DEF SameRest
    <3>2. \A k \in DOMAIN g.rels : g.rels[k].from \in DOMAIN n /\ g.rels[k].to \in DOMAIN n
      BY <1>7, <2>4 DEF Grounded, Touches
    <3> QED BY <1>5, <1>6, <1>7, <2>0, <2>4, <3>1, <3>2 DEF Grounded
  <2> QED BY <2>5, <2>6
<1>9. GoodX(y)
  BY NodeCutGood
<1> HIDE DEF u
<1> QED BY <1>1, <1>7, <1>9, StepKept

\* A write of the history that its note undoes.
LEMMA HistoryKept ==
  ASSUME NEW x, GoodX(x), NEW y, NEW h, NEW u, Becomes(y, x, x.d.graph, h, Noted(x.j.undo, u)),
         GoodX(y),
         Undone(u, WithHistory(FactsOf(x.d), h)) = WithHistory(FactsOf(x.d), x.d.history)
  PROVE  Kept(y, x)
<1>1. y.d.graph = x.d.graph /\ y.d.history = h /\ SameRest(y, x)
  BY BecomesIs
<1>2. FactsOf(y.d) = WithHistory(FactsOf(x.d), h)
      /\ FactsOf(x.d) = WithHistory(FactsOf(x.d), x.d.history)
  <2>1. PICK g : g = x.d.graph
    OBVIOUS
  <2>2. PICK q : q = FactsOf(x.d)
    OBVIOUS
  <2>3. q = Facts(g.nodes, g.rels, DOMAIN g.uniques, DOMAIN g.ranges, x.d.history)
    BY <2>1, <2>2 DEF FactsOf
  <2>4. q.nodes = g.nodes /\ q.rels = g.rels /\ q.us = DOMAIN g.uniques
        /\ q.rs = DOMAIN g.ranges
    BY <2>3, FactsAre
  <2>5. FactsOf(y.d) = Facts(g.nodes, g.rels, DOMAIN g.uniques, DOMAIN g.ranges, h)
    BY <1>1, <2>1 DEF FactsOf
  <2> QED BY <2>2, <2>3, <2>4, <2>5 DEF WithHistory
<1>3. Grounded(x.d) => Grounded(y.d)
  BY <1>1, GroundedGraph DEF SameRest
<1> QED BY <1>2, <1>3, StepKept

\* What was known of one key, put back.
LEMMA OptionalBack ==
  ASSUME NEW f, IsFcn(f), NEW g, NEW k, \A x : x # k => (x \in DOMAIN g <=> x \in DOMAIN f),
         \A x \in DOMAIN g : x # k => g[x] = f[x]
  PROVE  PutOptional(g, k, Optional(f, k)) = f
<1> DEFINE w == PutOptional(g, k, Optional(f, k))
<1>1. CASE k \in DOMAIN f
  <2>1. w = Put(g, k, f[k])
    BY <1>1 DEF PutOptional, Optional
  <2>2. IsFcn(w) /\ (\A x : x \in DOMAIN w <=> x \in DOMAIN g \/ x = k)
        /\ w[k] = f[k] /\ \A x \in DOMAIN g : x # k => w[x] = g[x]
    BY <2>1, PutIs, PutFcn
  <2> HIDE DEF w
  <2>3. \A x : x \in DOMAIN w <=> x \in DOMAIN f
    BY <1>1, <2>2
  <2>4. \A x \in DOMAIN f : w[x] = f[x]
    BY <1>1, <2>2
  <2>5. w = f
    BY <2>2, <2>3, <2>4, SameFcn
  <2> QED BY <2>5 DEF w
<1>2. CASE k \notin DOMAIN f
  <2>1. w = Without(g, k)
    BY <1>2 DEF PutOptional, Optional, Without
  <2>2. IsFcn(w) /\ (\A x : x \in DOMAIN w <=> x \in DOMAIN g /\ x # k) /\ \A x \in DOMAIN w : w[x]
        = g[x]
    BY <2>1, LessIs, LessFcn
  <2> HIDE DEF w
  <2>3. \A x : x \in DOMAIN w <=> x \in DOMAIN f
    BY <1>2, <2>2
  <2>4. \A x \in DOMAIN f : w[x] = f[x]
    BY <1>2, <2>2
  <2>5. w = f
    BY <2>2, <2>3, <2>4, SameFcn
  <2> QED BY <2>5 DEF w
<1> QED BY <1>1, <1>2

\* PutOptional touches one key.
LEMMA OptionalIs ==
  ASSUME NEW f, NEW k, NEW v
  PROVE  /\ \A x : x # k => (x \in DOMAIN PutOptional(f, k, v) <=> x \in DOMAIN f)
         /\ \A x \in DOMAIN PutOptional(f, k, v) : x # k => PutOptional(f, k, v)[x] = f[x]
<1>1. CASE v = {}
  <2>1. PutOptional(f, k, v) = Without(f, k)
    BY <1>1 DEF PutOptional, Without
  <2> QED BY <2>1, LessIs
<1>2. CASE v # {}
  <2>1. \E w : PutOptional(f, k, v) = Put(f, k, w)
    BY <1>2 DEF PutOptional
  <2> QED BY <2>1, PutIs
<1> QED BY <1>1, <1>2

\* A history is its sections.
LEMMA SectionedIs ==
  ASSUME NEW h, NEW fields, NEW rels, NEW appears, NEW ends,
         Sections(h, fields, rels, appears, ends)
  PROVE  h = Sectioned(fields, rels, appears, ends)
BY DEF Sections, Sectioned

\* The later of two histories counts.
LEMMA WithHistoryIs ==
  ASSUME NEW q, NEW h, NEW k
  PROVE  WithHistory(q, h).history = h /\ WithHistory(WithHistory(q, h), k) = WithHistory(q, k)
BY FactsAre DEF WithHistory

\* An edge's history can be put back.
LEMMA EdgeDatedKept ==
  ASSUME NEW x, GoodX(x), NEW id \in Nat, id > 0, NEW edge, NEW y, EdgeDated(y, x, id, edge)
  PROVE  Kept(y, x)
<1> DEFINE old == x.d.history
           new == [x.d.history EXCEPT !.rels = Put(@, id, edge)]
           rels == Put(x.d.history.rels, id, edge)
           u == [undo |-> "edge_history", id |-> id, edge |-> Optional(x.d.history.rels, id)]
           q == FactsOf(x.d)
<1>1. Becomes(y, x, x.d.graph, new, Noted(x.j.undo, u)) /\ GoodX(y)
  BY EdgeDatedGood DEF EdgeDated, EdgeUndo
<1>2. IsHistory(old)
  BY GoodXIs
<1>3. Sections(new, old.fields, rels, old.appears, old.ends)
  <2>1. IsFcn(rels)
    BY PutFcn
  <2>2. new = [old EXCEPT !.rels = rels]
    BY Zenon
  <2> HIDE DEF new, rels
  <2> QED BY <1>2, <2>1, <2>2, EdgesSection
<1>4. PutOptional(rels, id, Optional(old.rels, id)) = old.rels
  <2>1. IsFcn(old.rels)
    BY <1>2 DEF IsHistory
  <2>2. /\ \A k : k \in DOMAIN rels <=> k \in DOMAIN old.rels \/ k = id
        /\ \A k \in DOMAIN old.rels : k # id => rels[k] = old.rels[k]
    BY PutIs
  <2> HIDE DEF rels
  <2> QED BY <2>1, <2>2, OptionalBack
<1>5. Sectioned(old.fields, old.rels, old.appears, old.ends) = old
  BY <1>2, SectionedIs DEF IsHistory
<1> HIDE DEF new, rels, q, old
<1>6. Undone(u, WithHistory(q, new)) = WithHistory(q, old)
  BY <1>3, <1>4, <1>5, SectionsAre, UndoneEdge, WithHistoryIs DEF old
<1> HIDE DEF u
<1> QED BY <1>1, <1>6, HistoryKept DEF q, old

\* A lifetime can be put back.
LEMMA LifetimeSetKept ==
  ASSUME NEW x, GoodX(x), NEW id, NEW appears, NEW ends, NEW y, LifetimeSet(y, x, id, appears, ends)
  PROVE  Kept(y, x)
<1> DEFINE old == x.d.history
           new == SetLifetime(x.d.history, id, appears, ends)
           a == PutOptional(x.d.history.appears, id, appears)
           e == PutOptional(x.d.history.ends, id, ends)
           oa == Optional(x.d.history.appears, id)
           oe == Optional(x.d.history.ends, id)
           u == [undo |-> "lifetime", id |-> id, appears |-> oa, ends |-> oe]
           q == FactsOf(x.d)
<1>1. Becomes(y, x, x.d.graph, new, Noted(x.j.undo, u)) /\ GoodX(y)
  BY LifetimeSetGood DEF LifetimeSet, LifetimeUndo
<1>2. IsHistory(old)
  BY GoodXIs
<1>3. Sections(new, old.fields, old.rels, a, e)
  BY <1>2, LifetimeShape
<1>4. PutOptional(a, id, oa) = old.appears /\ PutOptional(e, id, oe) = old.ends
  <2>1. IsFcn(old.appears) /\ IsFcn(old.ends)
    BY <1>2 DEF IsHistory
  <2> QED BY <2>1, OptionalIs, OptionalBack
<1>5. Sectioned(old.fields, old.rels, old.appears, old.ends) = old
  BY <1>2, SectionedIs DEF IsHistory
<1> HIDE DEF new, a, e, oa, oe, q, old
<1>6. Undone(u, WithHistory(q, new)) = WithHistory(q, old)
  BY <1>3, <1>4, <1>5, SectionsAre, UndoneLifetime, WithHistoryIs
<1> HIDE DEF u
<1> QED BY <1>1, <1>6, HistoryKept DEF q, old

\* A node's field histories, put back: writing changed only that node's.
LEMMA FieldsUndone ==
  ASSUME NEW h, IsHistory(h), NEW id, NEW f, IsFcn(f),
         \A key : key[1] # id => (key \in DOMAIN f <=> key \in DOMAIN h.fields),
         \A key \in DOMAIN f : key[1] # id => f[key] = h.fields[key]
  PROVE  Over(Drop(f, {key \in DOMAIN f : key[1] = id}), Restrict(h.fields, FieldsOf(h, id)))
         = h.fields
<1> DEFINE mine == Restrict(h.fields, FieldsOf(h, id))
           rest == Drop(f, {key \in DOMAIN f : key[1] = id})
           w == Over(rest, mine)
<1>1. /\ \A key : key \in DOMAIN mine <=> key \in DOMAIN h.fields /\ key[1] = id
      /\ \A key \in DOMAIN mine : mine[key] = h.fields[key]
  BY DEF Restrict, FieldsOf
<1>2. /\ \A key : key \in DOMAIN rest <=> key \in DOMAIN f /\ key[1] # id
      /\ \A key \in DOMAIN rest : rest[key] = f[key]
  BY DEF Drop, Restrict
<1>3. /\ IsFcn(w) /\ \A key : key \in DOMAIN w <=> key \in DOMAIN rest \/ key \in DOMAIN mine
      /\ \A key \in DOMAIN w : w[key] = IF key \in DOMAIN mine THEN mine[key] ELSE rest[key]
  BY OverFcn DEF Over
<1> HIDE DEF mine, rest, w
<1>4. \A key : key \in DOMAIN w <=> key \in DOMAIN h.fields
  BY <1>1, <1>2, <1>3
<1>5. \A key \in DOMAIN w : w[key] = h.fields[key]
  BY <1>1, <1>2, <1>3, <1>4
<1>6. w = h.fields
  BY <1>3, <1>4, <1>5, SameFcn DEF IsHistory
<1> QED BY <1>6 DEF w, rest, mine

\* RecordHistory writes histories of one node's fields, and nothing else.
LEMMA FieldsOnly ==
  ASSUME NEW h, IsHistory(h), NEW id, NEW at, NEW props, NEW fields,
         NEW new, new = RecordHistory(h, id, at, props, fields)
  PROVE  /\ IsFcn(new.fields) /\ Sections(new, new.fields, h.rels, h.appears, h.ends)
         /\ \A key : key[1] # id => (key \in DOMAIN new.fields <=> key \in DOMAIN h.fields)
         /\ \A key \in DOMAIN new.fields : key[1] # id => new.fields[key] = h.fields[key]
<1> DEFINE changed == {<<id, f>> : f \in fields \cap DOMAIN props}
           write(key) == InsertChange((IF key \in DOMAIN h.fields THEN h.fields[key]
               ELSE <<>>), at, props[key[2]])
           more == [key \in changed |-> write(key)]
           all == Over(h.fields, more)
<1>1. new = [h EXCEPT !.fields = all]
  BY Zenon DEF RecordHistory
<1>2. IsFcn(all)
  BY OverFcn
<1>3. Sections(new, all, h.rels, h.appears, h.ends)
  <2> HIDE DEF all
  <2> QED BY <1>1, <1>2, FieldsSection
<1>4. \A key \in DOMAIN more : key[1] = id
  OBVIOUS
<1> HIDE DEF more
<1>5. /\ \A key : key \in DOMAIN all <=> key \in DOMAIN h.fields \/ key \in DOMAIN more
      /\ \A key \in DOMAIN all : key \notin DOMAIN more => all[key] = h.fields[key]
  BY DEF Over
<1> HIDE DEF all
<1> QED BY <1>2, <1>3, <1>4, <1>5, SectionsAre

\* A node's field histories can be put back.
LEMMA FieldsWrittenKept ==
  ASSUME NEW x, GoodX(x), NEW id, NEW props, GoodProps(props), NEW fields,
         NEW y, FieldsWritten(y, x, id, props, fields)
  PROVE  Kept(y, x)
<1> DEFINE old == x.d.history
           new == RecordHistory(x.d.history, id, x.j.at, props, fields)
           mine == Restrict(old.fields, FieldsOf(old, id))
           u == [undo |-> "history", id |-> id, fields |-> mine]
           q == FactsOf(x.d)
<1>1. Becomes(y, x, x.d.graph, new, Noted(x.j.undo, u)) /\ GoodX(y)
  BY FieldsWrittenGood DEF FieldsWritten, HistoryUndo
<1>2. IsHistory(old)
  BY GoodXIs
<1>3. /\ IsFcn(new.fields) /\ Sections(new, new.fields, old.rels, old.appears, old.ends)
      /\ \A key : key[1] # id => (key \in DOMAIN new.fields <=> key \in DOMAIN old.fields)
      /\ \A key \in DOMAIN new.fields : key[1] # id => new.fields[key] = old.fields[key]
  <2> SUFFICES ASSUME NEW n, n = new
               PROVE  /\ IsFcn(n.fields) /\ Sections(n, n.fields, old.rels, old.appears, old.ends)
                      /\ \A key : key[1] # id
                          => (key \in DOMAIN n.fields <=> key \in DOMAIN old.fields)
                      /\ \A key \in DOMAIN n.fields : key[1] # id => n.fields[key] = old.fields[key]
    OBVIOUS
  <2>1. n = RecordHistory(old, id, x.j.at, props, fields)
    OBVIOUS
  <2> HIDE DEF new, old
  <2> QED BY <1>2, <2>1, FieldsOnly
<1> HIDE DEF new, old
<1>4. FieldsBack(new, id, mine) = old.fields
  BY <1>2, <1>3, FieldsUndone, Zenon DEF FieldsBack, FieldsOf
<1>5. Sectioned(old.fields, old.rels, old.appears, old.ends) = old
  BY <1>2, SectionedIs DEF IsHistory
<1> HIDE DEF mine, q
<1>6. Undone(u, WithHistory(q, new)) = WithHistory(q, old)
  <2>1. new.rels = old.rels /\ new.appears = old.appears /\ new.ends = old.ends
    BY <1>3, SectionsAre
  <2> QED BY <1>4, <1>5, <2>1, UndoneHistory, WithHistoryIs
<1> HIDE DEF u
<1> QED BY <1>1, <1>6, HistoryKept DEF q, old

-----------------------------------------------------------------------------
(* Every call can be taken back.                                            *)
\* What a kept step is.
LEMMA KeptIs ==
  ASSUME NEW x, NEW y, Kept(y, x)
  PROVE  GoodX(y) /\ SameRest(y, x) /\ (Grounded(x.d) => Grounded(y.d))
BY DEF Kept

\* Nothing done is kept.
LEMMA KeptSelf == ASSUME NEW x, GoodX(x) PROVE Kept(x, x)
BY DEF Kept, SameRest

\* record_lifetime can be taken back.
LEMMA LifetimeKept ==
  ASSUME NEW x, GoodX(x), NEW id, NEW y, Lifetime(y, x, id)
  PROVE  Kept(y, x)
BY QuietKept, LifetimeSetKept DEF Lifetime

\* create_node can be taken back.
LEMMA JournalCreateNodeKept ==
  ASSUME NEW x, GoodX(x), NEW node, GoodNode(node), NEW y, y = JournalCreateNode(x, node)
  PROVE  Kept(y, x)
<1> DEFINE id     == x.d.graph.next.node
           fields == TemporalFields(x, node.labels, node.props)
<1>1. PICK s, t : /\ NodeCreated(s, x, node)
                  /\ Quiet(t, s) \/ FieldsWritten(t, s, id, node.props, fields)
                  /\ Lifetime(y, t, id)
  BY GoodXIs, JournalCreateNodeIs
<1> HIDE DEF id, fields
<1>2. Kept(s, x)
  BY <1>1, NodeCreatedKept
<1>3. Kept(t, s)
  <2>1. GoodX(s) /\ GoodProps(node.props)
    BY <1>2, KeptIs DEF GoodNode
  <2> QED BY <1>1, <2>1, QuietKept, FieldsWrittenKept
<1>4. Kept(y, t)
  BY <1>1, <1>3, KeptIs, LifetimeKept
<1> QED BY <1>2, <1>3, <1>4, KeptTrans

\* create_relationship can be taken back.
LEMMA JournalCreateRelationshipKept ==
  ASSUME NEW x, GoodX(x), NEW rel, rel.from \in DOMAIN x.d.graph.nodes,
         rel.to \in DOMAIN x.d.graph.nodes,
         NEW y, y = JournalCreateRelationship(x, rel)
  PROVE  Kept(y, x)
<1> DEFINE id == x.d.graph.next.rel
           edge == Began(rel, x.j.at)
<1>1. PICK s : EdgeCreated(s, x, rel) /\ (Quiet(y, s) \/ EdgeDated(y, s, id, edge))
  BY GoodXIs, JournalCreateRelationshipIs
<1>2. id \in Nat /\ id > 0
  BY GoodXIs, GoodGraphIs
<1> HIDE DEF id, edge
<1>3. Kept(s, x)
  BY <1>1, EdgeCreatedKept
<1>4. Kept(y, s)
  BY <1>1, <1>2, <1>3, KeptIs, QuietKept, EdgeDatedKept
<1> QED BY <1>3, <1>4, KeptTrans

\* update_node can be taken back.
LEMMA JournalUpdateNodeKept ==
  ASSUME NEW x, GoodX(x), NEW id, NEW props, GoodProps(props), NEW y,
         y = JournalUpdateNode(x, id, props)
  PROVE  Kept(y, x)
<1> DEFINE fields  == TemporalFields(x, x.d.graph.nodes[id].labels, props)
           history == RecordHistory(x.d.history, id, x.j.at, props, fields)
           current == CurrentProps(history, id, props, fields)
<1>0. \/ Quiet(y, x)
      \/ /\ id \in DOMAIN x.d.graph.nodes
         /\ \E s, t : /\ \/ s = x /\ NodeChanged(t, s, id, props)
                         \/ FieldsWritten(s, x, id, props, fields) /\ NodeChanged(t, s, id, current)
                      /\ Lifetime(y, t, id)
  BY GoodXIs, JournalUpdateNodeIs, Zenon
<1>1. GoodProps(current)
  <2>1. fields \subseteq DOMAIN props
    BY DEF TemporalFields
  <2> HIDE DEF fields
  <2>2. IsHistory(x.d.history) /\ GoodFields(x.d.history.fields) /\ x.j.at \in Nat
    BY GoodXIs
  <2>3. history = RecordHistory(x.d.history, id, x.j.at, props, fields)
    OBVIOUS
  <2> HIDE DEF history
  <2>4. GoodFields(history.fields)
    BY <2>2, <2>3, RecordHistoryTyped
  <2>5. \A f \in fields : <<id, f>> \in DOMAIN history.fields
    <3>1. \A f \in fields \cap DOMAIN props : <<id, f>> \in DOMAIN history.fields
      BY <2>2, <2>3, RecordedFields
    <3> QED BY <2>1, <3>1
  <2> QED BY <2>4, <2>5, CurrentPropsGood
<1> HIDE DEF fields, history, current
<1>2. CASE Quiet(y, x)
  BY <1>2, QuietKept
<1>3. CASE /\ id \in DOMAIN x.d.graph.nodes
           /\ \E s, t : /\ \/ s = x /\ NodeChanged(t, s, id, props)
                           \/ FieldsWritten(s, x, id, props, fields)
                               /\ NodeChanged(t, s, id, current)
                        /\ Lifetime(y, t, id)
  <2>1. PICK s, t : /\ \/ s = x /\ NodeChanged(t, s, id, props)
                       \/ FieldsWritten(s, x, id, props, fields) /\ NodeChanged(t, s, id, current)
                    /\ Lifetime(y, t, id)
    BY <1>3
  <2>2. Kept(s, x) /\ s.d.graph = x.d.graph
    <3>1. CASE s = x
      BY <3>1, KeptSelf
    <3>2. CASE FieldsWritten(s, x, id, props, fields)
      BY <3>2, FieldsWrittenKept, BecomesIs DEF FieldsWritten
    <3> QED BY <2>1, <3>1, <3>2
  <2>3. Kept(t, s)
    <3>1. PICK q : GoodProps(q) /\ NodeChanged(t, s, id, q)
      BY <1>1, <2>1
    <3>2. id \in DOMAIN s.d.graph.nodes
      BY <1>3, <2>2
    <3> QED BY <2>2, <3>1, <3>2, KeptIs, NodeChangedKept
  <2>4. Kept(y, t)
    BY <2>1, <2>3, KeptIs, LifetimeKept
  <2> QED BY <2>2, <2>3, <2>4, KeptTrans
<1> QED BY <1>0, <1>2, <1>3

\* delete_relationship can be taken back; and what it does to the edges of the
\* graph and of the history.
LEMMA JournalDeleteRelationshipKept ==
  ASSUME NEW x, GoodX(x), NEW id, NEW y, y = JournalDeleteRelationship(x, id)
  PROVE  /\ Kept(y, x)
         /\ y.d.graph.nodes = x.d.graph.nodes
         /\ y.d.graph.rels = IF OfMirror(x, id) \/ Early(x, id) THEN x.d.graph.rels
                             ELSE Without(x.d.graph.rels, id)
         /\ \A r : r # id => (r \in DOMAIN y.d.history.rels <=> r \in DOMAIN x.d.history.rels)
         /\ \A r \in DOMAIN y.d.history.rels : r # id => y.d.history.rels[r] = x.d.history.rels[r]
<1> DEFINE g == x.d.graph
           h == x.d.history
<1>a. GoodGraph(g) /\ IsX(x) /\ GoodEdges(h.rels) /\ Indexed(g) /\ IsFcn(g.rels) /\ IsHistory(h)
  BY GoodXIs, GoodGraphIs, IndexedIs
<1>0. \/ /\ Quiet(y, x)
         /\ OfMirror(x, id) \/ id \notin DOMAIN g.rels \/ Early(x, id)
      \/ /\ ~OfMirror(x, id) /\ ~Early(x, id)
         /\ id \in DOMAIN g.rels \/ id \in DOMAIN h.rels
         /\ \E s : /\ (Quiet(s, x) /\ id \notin DOMAIN h.rels) \/ EdgeEnded(s, x, id)
                   /\ IF id \in DOMAIN g.rels THEN EdgeCut(y, s, id) ELSE Quiet(y, s)
  BY <1>a, JournalDeleteRelationshipIs
<1>1. CASE Quiet(y, x) /\ (OfMirror(x, id) \/ id \notin DOMAIN g.rels \/ Early(x, id))
  <2>1. y.d.graph = g /\ y.d.history = h
    BY <1>1, BecomesIs DEF Quiet
  <2>2. id \notin DOMAIN g.rels => Without(g.rels, id) = g.rels
    BY <1>a, NothingDropped
  <2> QED BY <1>1, <2>1, <2>2, QuietKept
<1>2. CASE /\ ~OfMirror(x, id) /\ ~Early(x, id)
           /\ id \in DOMAIN g.rels \/ id \in DOMAIN h.rels
           /\ \E s : /\ (Quiet(s, x) /\ id \notin DOMAIN h.rels) \/ EdgeEnded(s, x, id)
                     /\ IF id \in DOMAIN g.rels THEN EdgeCut(y, s, id) ELSE Quiet(y, s)
  <2>1. PICK s : /\ Quiet(s, x) \/ EdgeEnded(s, x, id)
                 /\ IF id \in DOMAIN g.rels THEN EdgeCut(y, s, id) ELSE Quiet(y, s)
    BY <1>2
  <2>2. id \in Nat /\ id > 0
    BY <1>2, <1>a, GoodGraphIs DEF GoodEdges
  <2>3. /\ Kept(s, x) /\ s.d.graph = g
        /\ \A r : r # id => (r \in DOMAIN s.d.history.rels <=> r \in DOMAIN h.rels)
        /\ \A r \in DOMAIN s.d.history.rels : r # id => s.d.history.rels[r] = h.rels[r]
    <3>1. CASE Quiet(s, x)
      BY <3>1, QuietKept, BecomesIs DEF Quiet
    <3>2. CASE EdgeEnded(s, x, id)
      <4>1. PICK edge : EdgeDated(s, x, id, edge)
        BY <3>2 DEF EdgeEnded
      <4> DEFINE rels == Put(h.rels, id, edge)
                 new == [x.d.history EXCEPT !.rels = Put(@, id, edge)]
      <4>2. s.d.graph = g /\ s.d.history = new
        BY <4>1, BecomesIs DEF EdgeDated
      <4>3. new.rels = rels
        <5>1. IsFcn(rels)
          BY PutFcn
        <5>2. new = [h EXCEPT !.rels = rels]
          BY Zenon
        <5> HIDE DEF new, rels
        <5> QED BY <1>a, <5>1, <5>2, EdgesSection, SectionsAre
      <4>4. /\ \A r : r \in DOMAIN rels <=> r \in DOMAIN h.rels \/ r = id
            /\ \A r \in DOMAIN h.rels : r # id => rels[r] = h.rels[r]
        BY PutIs
      <4>5. Kept(s, x)
        BY <2>2, <4>1, EdgeDatedKept
      <4> HIDE DEF rels, new
      <4> QED BY <4>2, <4>3, <4>4, <4>5
    <3> QED BY <2>1, <3>1, <3>2
  <2>4. GoodX(s) /\ SameRest(s, x)
    BY <2>3, KeptIs
  <2>5. ~OfMirror(s, id)
    BY <1>2, <2>4 DEF OfMirror, SameRest
  <2>6. Kept(y, s) /\ y.d.history = s.d.history /\ y.d.graph.nodes = g.nodes /\ y.d.graph.rels
        = Without(g.rels, id)
    <3>1. CASE id \in DOMAIN g.rels
      <4>1. EdgeCut(y, s, id)
        BY <2>1, <3>1
      <4>2. Kept(y, s)
        BY <2>3, <2>4, <2>5, <3>1, <4>1, EdgeCutKept
      <4>3. y.d.history = s.d.history /\ y.d.graph = DeleteRelationship(g, id)
        BY <2>3, <4>1, BecomesIs DEF EdgeCut
      <4> QED BY <1>a, <4>2, <4>3, DeleteRelationshipIs
    <3>2. CASE id \notin DOMAIN g.rels
      <4>1. Quiet(y, s)
        BY <2>1, <3>2
      <4>2. Kept(y, s) /\ y.d.history = s.d.history /\ y.d.graph = g
        BY <2>3, <2>4, <4>1, QuietKept, BecomesIs DEF Quiet
      <4> QED BY <1>a, <3>2, <4>2, NothingDropped
    <3> QED BY <3>1, <3>2
  <2>7. Kept(y, x)
    BY <2>3, <2>6, KeptTrans
  <2> QED BY <1>2, <2>3, <2>6, <2>7
<1> QED BY <1>0, <1>1, <1>2

-----------------------------------------------------------------------------
(* delete_node, first part: the edges, one by one.                         *)

\* What the relationships up to the nth have lost, and the others not yet.
Cleared(c, n, y) ==
  /\ \A r \in DOMAIN y.d.graph.rels : Touches(y.d.graph.rels[r], c.id) => r \in c.ids /\ r > n
  /\ \A r \in c.ids : /\ r \in DOMAIN y.d.graph.rels => Touches(y.d.graph.rels[r], c.id)
                      /\ r > n => ~Early(y, r)

\* The passes of the loop, and what holds after each.
DropOp(c, y, n)  == JournalDeleteRelationship(y, n)
DropInv(c, n, y) ==
  /\ Kept(y, c.x) /\ y.d.graph.nodes = c.x.d.graph.nodes
  /\ Grounded(c.x.d) => Cleared(c, n, y)
Drops == INSTANCE Loop WITH Op <- DropOp, P <- DropInv

\* A relationship of a node that is no mirror is not a mirror's.
LEMMA NotMirrored ==
  ASSUME NEW d, Grounded(d), NEW x, x.d = d, NEW r, OfMirror(x, r), NEW id,
         id \notin DOMAIN d.mirrors,
         r \in DOMAIN d.graph.rels => Touches(d.graph.rels[r], id)
  PROVE  FALSE
BY GroundedIs DEF OfMirror, Touches

\* One pass of delete_node's loop over the relationships.
LEMMA DropNext ==
  ASSUME NEW c, NEW n \in Nat, n > 0, \A r \in c.ids : r \in Nat, c.id \notin DOMAIN c.x.d.mirrors,
         NEW y, DropInv(c, n - 1, y), GoodX(c.x)
  PROVE  DropInv(c, n, IF n \in c.ids THEN DropOp(c, y, n) ELSE y)
<1>1. /\ Kept(y, c.x) /\ y.d.graph.nodes = c.x.d.graph.nodes
      /\ Grounded(c.x.d) => Cleared(c, n - 1, y)
  BY DEF DropInv
<1>2. GoodX(y) /\ SameRest(y, c.x) /\ (Grounded(c.x.d) => Grounded(y.d))
  BY <1>1, KeptIs
<1>3. CASE n \notin c.ids
  <2>1. ASSUME Cleared(c, n - 1, y) PROVE Cleared(c, n, y)
    <3>1. \A r \in c.ids : r > n - 1 <=> r > n
      BY <1>3
    <3> QED BY <2>1, <3>1 DEF Cleared
  <2> QED BY <1>1, <1>3, <2>1 DEF DropInv
<1>4. CASE n \in c.ids
  <2> DEFINE z == JournalDeleteRelationship(y, n)
             mirrored == OfMirror(y, n)
  <2>1. /\ Kept(z, y)
        /\ z.d.graph.nodes = y.d.graph.nodes
        /\ z.d.graph.rels = IF OfMirror(y, n) \/ Early(y, n) THEN y.d.graph.rels
                            ELSE Without(y.d.graph.rels, n)
        /\ \A r : r # n => (r \in DOMAIN z.d.history.rels <=> r \in DOMAIN y.d.history.rels)
        /\ \A r \in DOMAIN z.d.history.rels : r # n => z.d.history.rels[r] = y.d.history.rels[r]
    BY <1>2, JournalDeleteRelationshipKept
  <2> HIDE DEF z
  <2>2. Kept(z, c.x) /\ SameRest(z, y)
    BY <1>1, <2>1, KeptTrans, KeptIs
  <2>3. ASSUME Grounded(c.x.d) PROVE Cleared(c, n, z)
    <3>1. Grounded(y.d) /\ Cleared(c, n - 1, y) /\ y.d.mirrors = c.x.d.mirrors
      BY <1>1, <1>2, <2>3 DEF SameRest
    <3>2. ~Early(y, n)
      BY <1>4, <3>1 DEF Cleared
    <3>3. ~OfMirror(y, n)
      <4>1. n \in DOMAIN y.d.graph.rels => Touches(y.d.graph.rels[n], c.id)
        BY <1>4, <3>1 DEF Cleared
      <4> QED BY <3>1, <4>1, NotMirrored
    <3>4. z.d.graph.rels = Without(y.d.graph.rels, n)
      BY <2>1, <3>2, <3>3
    <3>5. /\ \A r : r \in DOMAIN z.d.graph.rels <=> r \in DOMAIN y.d.graph.rels /\ r # n
          /\ \A r \in DOMAIN z.d.graph.rels : z.d.graph.rels[r] = y.d.graph.rels[r]
      BY <3>4, LessIs
    <3>6. \A r \in c.ids : r > n => r # n /\ r > n - 1
      OBVIOUS
    <3>7. \A r : r # n => (Early(z, r) <=> Early(y, r))
      BY <2>1, <2>2 DEF Early, SameRest
    <3>8. \A r \in c.ids : r > n - 1 /\ r # n => r > n
      OBVIOUS
    <3> QED BY <3>1, <3>5, <3>6, <3>7, <3>8 DEF Cleared
  <2>4. DropInv(c, n, z)
    BY <1>1, <2>1, <2>2, <2>3 DEF DropInv
  <2> QED BY <1>4, <2>4 DEF DropOp, z
<1> QED BY <1>3, <1>4

\* The loop leaves the node no relationship, and can be taken back.
LEMMA EdgesDropped ==
  ASSUME NEW x, GoodX(x), NEW id, id \notin DOMAIN x.d.mirrors,
         Grounded(x.d) => \A r \in NodeRelationships(x.d.graph, id) : ~Early(x, r),
         NEW y, y = Each(JournalDeleteRelationship, x, NodeRelationships(x.d.graph, id))
  PROVE  /\ Kept(y, x) /\ y.d.graph.nodes = x.d.graph.nodes
         /\ Grounded(x.d) => \A r \in DOMAIN y.d.graph.rels : ~Touches(y.d.graph.rels[r], id)
<1> DEFINE ids == NodeRelationships(x.d.graph, id)
           last == Max({0} \cup ids)
           c == [x |-> x, id |-> id, ids |-> ids]
<1>1. \A r : r \in ids <=> r \in DOMAIN x.d.graph.rels /\ Touches(x.d.graph.rels[r], id)
  BY GoodXIs, GoodGraphIs, NodeRelationshipsIs
<1>2. last \in Nat /\ (\A n \in ids : n \in 1 .. last) /\ \A n \in ids : n \in Nat
  <2>1. PICK top \in Nat : DOMAIN x.d.graph.rels \subseteq 1 .. top
    BY GoodXIs, GoodGraphIs
  <2>2. ids \in SUBSET (1 .. top)
    BY <1>1, <2>1
  <2> HIDE DEF ids
  <2>3. \A n \in ids : n \in Nat
    BY <2>2
  <2>4. last \in Nat /\ \A n \in ids : n \in 1 .. last
    BY <2>2, LastId
  <2> QED BY <2>3, <2>4
<1>3. y = Drops!Run(c, x, ids, last)
  BY DEF Each, Drops!Run, DropOp
<1>4. c.x = x /\ c.id = id /\ c.ids = ids
  OBVIOUS
<1> HIDE DEF ids, last, c
<1>5. DropInv(c, 0, x)
  <2>1. ASSUME Grounded(x.d) PROVE Cleared(c, 0, x)
    BY <1>1, <1>2, <1>4, <2>1 DEF Cleared, ids
  <2> QED BY <1>4, <2>1, KeptSelf DEF DropInv
<1>6. ASSUME NEW n \in 1 .. last, NEW z, DropInv(c, n - 1, z)
      PROVE  DropInv(c, n, IF n \in ids THEN DropOp(c, z, n) ELSE z)
  BY <1>2, <1>4, <1>6, DropNext
<1>7. DropInv(c, last, y)
  BY <1>2, <1>3, <1>5, <1>6, Drops!LoopKeeps
<1>8. ASSUME Cleared(c, last, y)
      PROVE \A r \in DOMAIN y.d.graph.rels : ~Touches(y.d.graph.rels[r], id)
  BY <1>2, <1>4, <1>8 DEF Cleared
<1> QED BY <1>4, <1>7, <1>8 DEF DropInv

-----------------------------------------------------------------------------
(* delete_node, second part: the histories.                                *)

\* The edges of a node up to the nth, and the histories without them.
IncidentUpTo(h, id, n) == {r \in IncidentTo(h, id) : r <= n}
FieldsLeft(h, id) == Drop(h.fields, FieldsOf(h, id))
EdgesLeft(h, id, n) == Drop(h.rels, IncidentUpTo(h, id, n))
\* The history with the edges up to n forgotten.
Bared(h, id, n) ==
  Sectioned(FieldsLeft(h, id), EdgesLeft(h, id, n), Without(h.appears, id), Without(h.ends, id))

\* The passes of the loop that notes edges, and what holds after each.
SaveOp(c, y, n)  == SaveEdgeHistory(y, n)
SaveInv(c, n, y) ==
  /\ IsX(y) /\ SameRest(y, c.x) /\ y.d.graph = c.x.d.graph /\ y.d.history = c.x.d.history
  /\ GoodUndos(y.j.undo)
  /\ \A start : Traced(FactsOf(c.x.d), c.x.j.undo, start) =>
       Traced(WithHistory(FactsOf(c.x.d), Bared(c.x.d.history, c.id, n)), y.j.undo, start)

Saves == INSTANCE Loop WITH Op <- SaveOp, P <- SaveInv

\* The sections of a history made of sections.
LEMMA SectionedAre ==
  ASSUME NEW f, NEW r, NEW a, NEW e
  PROVE  Sections(Sectioned(f, r, a, e), f, r, a, e)
BY DEF Sections, Sectioned

\* The edges' histories with those of a node up to the nth forgotten.
LEMMA EdgesLeftIs ==
  ASSUME NEW h, NEW id, NEW n
  PROVE  /\ \A r : r \in DOMAIN EdgesLeft(h, id, n) <=> r \in DOMAIN h.rels
            /\ ~(r \in IncidentTo(h, id) /\ r <= n)
         /\ \A r \in DOMAIN EdgesLeft(h, id, n) : EdgesLeft(h, id, n)[r] = h.rels[r]
         /\ IsFcn(EdgesLeft(h, id, n))
BY DropIs, DropFcn DEF EdgesLeft, IncidentUpTo

\* One more edge's history noted, and forgotten.
LEMMA EdgeForgotten ==
  ASSUME NEW h, NEW id, NEW n \in Nat, n > 0, n \in IncidentTo(h, id),
         \A r \in DOMAIN h.rels : r \in Nat
  PROVE  PutOptional(EdgesLeft(h, id, n), n, Optional(h.rels, n)) = EdgesLeft(h, id, n - 1)
<1> DEFINE f == EdgesLeft(h, id, n - 1)
           g == EdgesLeft(h, id, n)
<1>1. /\ \A r : r \in DOMAIN f <=> r \in DOMAIN h.rels /\ ~(r \in IncidentTo(h, id) /\ r <= n - 1)
      /\ \A r \in DOMAIN f : f[r] = h.rels[r]
      /\ IsFcn(f)
  BY EdgesLeftIs
<1>2. /\ \A r : r \in DOMAIN g <=> r \in DOMAIN h.rels /\ ~(r \in IncidentTo(h, id) /\ r <= n)
      /\ \A r \in DOMAIN g : g[r] = h.rels[r]
  BY EdgesLeftIs
<1> HIDE DEF f, g
<1>3. n \in DOMAIN f /\ f[n] = h.rels[n] /\ n \in DOMAIN h.rels
  BY <1>1 DEF IncidentTo
<1>4. Optional(f, n) = Optional(h.rels, n)
  BY <1>3 DEF Optional
<1>5. \A r : r # n => (r \in DOMAIN g <=> r \in DOMAIN f)
  BY <1>1, <1>2
<1>6. \A r \in DOMAIN g : r # n => g[r] = f[r]
  BY <1>1, <1>2, <1>5
<1>7. PutOptional(g, n, Optional(f, n)) = f
  BY <1>1, <1>5, <1>6, OptionalBack
<1> QED BY <1>4, <1>7 DEF f, g

\* One pass of the loop that notes the edges' histories.
LEMMA SaveNext ==
  ASSUME NEW c, GoodX(c.x), NEW n \in Nat, n > 0, NEW ids, ids = IncidentTo(c.x.d.history, c.id),
         NEW y, SaveInv(c, n - 1, y)
  PROVE  SaveInv(c, n, IF n \in ids THEN SaveOp(c, y, n) ELSE y)
<1> DEFINE h == c.x.d.history
           id == c.id
           q == FactsOf(c.x.d)
           f == FieldsLeft(h, id)
           a == Without(h.appears, id)
           e == Without(h.ends, id)
<1>1. /\ IsX(y) /\ SameRest(y, c.x) /\ y.d.graph = c.x.d.graph /\ y.d.history = h
      /\ GoodUndos(y.j.undo)
      /\ \A start : Traced(q, c.x.j.undo, start)
          => Traced(WithHistory(q, Bared(h, id, n - 1)), y.j.undo, start)
  BY DEF SaveInv
<1>2. \A r \in DOMAIN h.rels : r \in Nat
  BY GoodXIs DEF GoodEdges
<1>3. CASE n \notin ids
  <2>1. EdgesLeft(h, id, n - 1) = EdgesLeft(h, id, n)
    <3>1. IncidentUpTo(h, id, n - 1) = IncidentUpTo(h, id, n)
      <4>1. \A r \in IncidentTo(h, id) : r \in Nat /\ r # n
        BY <1>2, <1>3 DEF IncidentTo
      <4>2. \A r \in IncidentTo(h, id) : r <= n - 1 <=> r <= n
        BY <4>1
      <4> QED BY <4>2 DEF IncidentUpTo
    <3> QED BY <3>1 DEF EdgesLeft
  <2>2. Bared(h, id, n - 1) = Bared(h, id, n)
    BY <2>1 DEF Bared
  <2>3. SaveInv(c, n, y)
    BY <1>1, <2>2 DEF SaveInv
  <2> QED BY <1>3, <2>3
<1>4. CASE n \in ids
  <2> DEFINE edge == Optional(h.rels, n)
             u == [undo |-> "edge_history", id |-> n, edge |-> edge]
             z == SaveEdgeHistory(y, n)
  <2>1. Becomes(z, y, y.d.graph, y.d.history, Noted(y.j.undo, u))
    BY <1>1, UndoingIs DEF SaveEdgeHistory
  <2>2. GoodUndo(u)
    BY DEF GoodUndo, UndoKinds
  <2>3. Undone(u, WithHistory(q, Bared(h, id, n))) = WithHistory(q, Bared(h, id, n - 1))
    <3> DEFINE r == EdgesLeft(h, id, n)
               more == EdgesLeft(h, id, n - 1)
               b == Bared(h, id, n)
    <3>1. PutOptional(r, n, edge) = more
      BY <1>2, <1>4, EdgeForgotten
    <3>2. b.fields = f /\ b.rels = r /\ b.appears = a /\ b.ends = e
      <4> HIDE DEF f, r, a, e
      <4> QED BY SectionedAre, SectionsAre DEF Bared, f, r, a, e
    <3>3. Bared(h, id, n - 1) = Sectioned(f, more, a, e)
      BY DEF Bared
    <3> HIDE DEF f, r, a, e, more, b, edge, q
    <3>4. Undone(u, WithHistory(q, b)) = WithHistory(q, Sectioned(f, more, a, e))
      BY <3>1, <3>2, UndoneEdge, WithHistoryIs
    <3> QED BY <3>3, <3>4 DEF b
  <2> HIDE DEF u, z, q
  <2>4. \A start : Traced(q, c.x.j.undo, start)
        => Traced(WithHistory(q, Bared(h, id, n)), Noted(y.j.undo, u), start)
    <3>1. IsSeq(y.j.undo)
      BY <1>1 DEF GoodUndos
    <3> QED BY <1>1, <2>3, <3>1, TracedGrows DEF q
  <2>5. GoodUndos(Noted(y.j.undo, u))
    BY <1>1, <2>2, UndosGrow DEF Noted
  <2>6. /\ IsX(z) /\ SameRest(z, y) /\ z.d.graph = y.d.graph /\ z.d.history = y.d.history
        /\ z.j.undo = Noted(y.j.undo, u)
    BY <2>1, BecomesIs
  <2>7. SameRest(z, c.x)
    BY <1>1, <2>6 DEF SameRest
  <2>8. SaveInv(c, n, z)
    BY <1>1, <2>4, <2>5, <2>6, <2>7 DEF SaveInv, q
  <2> QED BY <1>4, <2>8 DEF SaveOp, z
<1> QED BY <1>3, <1>4

\* The two notes before the edges': the node's fields and its lifetime.
LEMMA HistorySaved ==
  ASSUME NEW x, GoodX(x), NEW id, NEW y, y = SaveLifetime(SaveHistory(x, id), id), NEW c, c.x = x,
         c.id = id
  PROVE  SaveInv(c, 0, y)
<1> DEFINE h == x.d.history
           q == FactsOf(x.d)
           s == SaveHistory(x, id)
           f == FieldsLeft(h, id)
           a == Without(h.appears, id)
           e == Without(h.ends, id)
           mine == Restrict(h.fields, FieldsOf(h, id))
           oa == Optional(h.appears, id)
           oe == Optional(h.ends, id)
           u == [undo |-> "history", id |-> id, fields |-> mine]
           v == [undo |-> "lifetime", id |-> id, appears |-> oa, ends |-> oe]
           b1 == Sectioned(f, h.rels, h.appears, h.ends)
           b2 == Sectioned(f, h.rels, a, e)
<1>1. IsX(x) /\ IsHistory(h) /\ GoodUndos(x.j.undo)
  BY GoodXIs
<1>2. Becomes(s, x, x.d.graph, h, Noted(x.j.undo, u))
  BY <1>1, UndoingIs DEF SaveHistory
<1>3. GoodUndo(u)
  BY HistoryUndoGood DEF HistoryUndo
<1>4. GoodUndo(v)
  BY DEF GoodUndo, UndoKinds
<1> HIDE DEF s
<1>5. IsX(s) /\ SameRest(s, x) /\ s.d.graph = x.d.graph /\ s.d.history = h /\ s.j.undo
      = Noted(x.j.undo, u)
  BY <1>2, BecomesIs
<1>6. Becomes(y, s, s.d.graph, s.d.history, Noted(s.j.undo, v))
  BY <1>5, UndoingIs DEF SaveLifetime, s
<1>7. IsX(y) /\ SameRest(y, s) /\ y.d.graph = s.d.graph /\ y.d.history = s.d.history /\ y.j.undo
      = Noted(s.j.undo, v)
  BY <1>6, BecomesIs
<1>8. Sectioned(h.fields, h.rels, h.appears, h.ends) = h /\ WithHistory(q, h) = q
  <2>1. WithHistory(q, h) = q
    BY FactsAre DEF WithHistory, FactsOf
  <2> QED BY <1>1, <2>1, SectionedIs DEF IsHistory
<1>9. FieldsBack(b1, id, mine) = h.fields
  <2>1. IsFcn(f) /\ (\A key : key[1] # id => (key \in DOMAIN f <=> key \in DOMAIN h.fields))
        /\ \A key \in DOMAIN f : key[1] # id => f[key] = h.fields[key]
    BY DropIs, DropFcn DEF FieldsLeft, FieldsOf
  <2> HIDE DEF f, h
  <2>2. b1.fields = f
    BY SectionedAre, SectionsAre
  <2>3. Over(Drop(f, {key \in DOMAIN f : key[1] = id}), mine) = h.fields
    BY <1>1, <2>1, FieldsUndone
  <2> HIDE DEF mine, b1
  <2> QED BY <2>2, <2>3 DEF FieldsBack, FieldsOf
<1>10. PutOptional(a, id, oa) = h.appears /\ PutOptional(e, id, oe) = h.ends
  <2>1. IsFcn(h.appears) /\ IsFcn(h.ends)
    BY <1>1 DEF IsHistory
  <2> QED BY <2>1, LessIs, OptionalBack
<1>11. Bared(h, id, 0) = b2
  <2>1. EdgesLeft(h, id, 0) = h.rels
    <3> DEFINE w == EdgesLeft(h, id, 0)
    <3>1. /\ \A r : r \in DOMAIN w <=> r \in DOMAIN h.rels /\ ~(r \in IncidentTo(h, id) /\ r <= 0)
          /\ \A r \in DOMAIN w : w[r] = h.rels[r]
          /\ IsFcn(w)
      BY EdgesLeftIs
    <3>2. \A r \in DOMAIN h.rels : r \in Nat /\ r > 0
      BY GoodXIs DEF GoodEdges
    <3> HIDE DEF w
    <3>3. \A r : r \in DOMAIN w <=> r \in DOMAIN h.rels
      BY <3>1, <3>2
    <3>4. w = h.rels
      BY <1>1, <3>1, <3>3, SameFcn DEF IsHistory
    <3> QED BY <3>4 DEF w
  <2> QED BY <2>1 DEF Bared
<1>12. Undone(u, WithHistory(q, b1)) = q
  <2>1. b1.rels = h.rels /\ b1.appears = h.appears /\ b1.ends = h.ends
    BY SectionedAre, SectionsAre
  <2> HIDE DEF b1, h, q, mine
  <2> QED BY <1>8, <1>9, <2>1, UndoneHistory, WithHistoryIs
<1>13. Undone(v, WithHistory(q, b2)) = WithHistory(q, b1)
  <2>1. b2.fields = f /\ b2.rels = h.rels /\ b2.appears = a /\ b2.ends = e
    BY SectionedAre, SectionsAre
  <2> HIDE DEF b2, h, q, oa, oe, f, a, e
  <2> QED BY <1>10, <2>1, UndoneLifetime, WithHistoryIs
<1> HIDE DEF u, v, b1, b2, q
<1>14. GoodUndos(s.j.undo) /\ GoodUndos(y.j.undo)
  BY <1>1, <1>3, <1>4, <1>5, <1>7, UndosGrow DEF Noted
<1>15. ASSUME NEW start, Traced(q, x.j.undo, start)
       PROVE Traced(WithHistory(q, b2), y.j.undo, start)
  <2>1. Traced(WithHistory(q, b1), s.j.undo, start)
    BY <1>1, <1>5, <1>12, <1>15, TracedGrows DEF GoodUndos
  <2> QED BY <1>7, <1>13, <1>14, <2>1, TracedGrows DEF GoodUndos
<1>16. SameRest(y, x)
  BY <1>5, <1>7 DEF SameRest
<1> QED BY <1>5, <1>7, <1>11, <1>14, <1>15, <1>16 DEF SaveInv, q

\* Forget is forgetting every edge's history.
LEMMA ForgetIs ==
  ASSUME NEW h, NEW id, NEW last, \A r \in IncidentTo(h, id) : r <= last
  PROVE  Forget(h, id) = Bared(h, id, last)
<1>1. IncidentUpTo(h, id, last) = IncidentTo(h, id)
  BY DEF IncidentUpTo
<1> QED BY <1>1, Zenon DEF Forget, Bared, Sectioned, EdgesLeft, FieldsLeft, Without

\* A history with a node forgotten is good.
LEMMA BaredGood ==
  ASSUME NEW h, GoodFields(h.fields), GoodEdges(h.rels), NEW id, NEW last, NEW b,
         b = Bared(h, id, last)
  PROVE  IsHistory(b) /\ GoodFields(b.fields) /\ GoodEdges(b.rels)
<1> DEFINE f == FieldsLeft(h, id)
           r == EdgesLeft(h, id, last)
           a == Without(h.appears, id)
           e == Without(h.ends, id)
<1>1. IsFcn(f) /\ GoodFields(f)
  BY DropIs, DropFcn DEF FieldsLeft, GoodFields
<1>2. IsFcn(r) /\ GoodEdges(r)
  BY EdgesLeftIs DEF GoodEdges
<1>3. IsFcn(a) /\ IsFcn(e)
  BY LessFcn
<1>4. b = Sectioned(f, r, a, e)
  BY DEF Bared
<1> HIDE DEF f, r, a, e
<1>5. Sections(b, f, r, a, e)
  BY <1>4, SectionedAre
<1> QED BY <1>1, <1>2, <1>3, <1>5, SectionsAre DEF IsHistory

\* The notes and the histories gone.
AllNoted(x, id) == Each(SaveEdgeHistory, SaveLifetime(SaveHistory(x, id), id),
    IncidentTo(x.d.history, id))
Forgotten(s, id) == [s EXCEPT !.d.history = Forget(@, id)]

\* All the notes, then one write of the history.
LEMMA HistoryReplaced ==
  ASSUME NEW x, GoodX(x), NEW s, NEW b, NEW q, q = FactsOf(x.d),
         IsX(s) /\ SameRest(s, x) /\ s.d.graph = x.d.graph /\ GoodUndos(s.j.undo),
         \A start : Traced(q, x.j.undo, start) => Traced(WithHistory(q, b), s.j.undo, start),
         IsHistory(b) /\ GoodFields(b.fields) /\ GoodEdges(b.rels),
         NEW y, Becomes(y, s, s.d.graph, b, s.j.undo)
  PROVE  Kept(y, x) /\ y.d.graph = x.d.graph /\ y.d.history = b
<1>1. IsX(y) /\ SameRest(y, s) /\ y.d.graph = s.d.graph /\ y.d.history = b /\ y.j.undo = s.j.undo
  BY BecomesIs
<1>2. SameRest(y, x)
  BY <1>1 DEF SameRest
<1>3. GoodX(y)
  BY <1>1, <1>2, GoodXIs DEF GoodX, SameRest
<1>4. FactsOf(y.d) = WithHistory(q, b)
  BY <1>1, FactsAre DEF FactsOf, WithHistory
<1>5. Grounded(x.d) => Grounded(y.d)
  BY <1>1, <1>2, GroundedGraph DEF SameRest
<1> QED BY <1>1, <1>2, <1>3, <1>4, <1>5 DEF Kept

\* A node's histories and its edges' can be put back.
LEMMA ForgottenKept ==
  ASSUME NEW x, GoodX(x), NEW id, NEW y, y = Forgotten(AllNoted(x, id), id)
  PROVE  Kept(y, x) /\ y.d.graph = x.d.graph /\ y.d.history = Forget(x.d.history, id)
<1> DEFINE saved == SaveLifetime(SaveHistory(x, id), id)
           s == AllNoted(x, id)
           h == x.d.history
           ids == IncidentTo(x.d.history, id)
           last == Max({0} \cup ids)
           c == [x |-> x, id |-> id]
           b == Bared(h, id, last)
           q == FactsOf(x.d)
<1>0. PICK top \in Nat : DOMAIN h.rels \subseteq 1 .. top
  BY GoodXIs DEF GoodEdges
<1>1. last \in Nat /\ \A n \in ids : n \in 1 .. last
  <2>1. ids \in SUBSET (1 .. top)
    BY <1>0 DEF IncidentTo
  <2> HIDE DEF ids
  <2> QED BY <2>1, LastId
<1>2. s = Saves!Run(c, saved, ids, last)
  BY DEF AllNoted, Each, Saves!Run, SaveOp
<1>3. c.x = x /\ c.id = id
  OBVIOUS
<1>4. \A r \in IncidentTo(h, id) : r <= last
  BY <1>1
<1>11. ids = IncidentTo(c.x.d.history, c.id)
  BY <1>3
<1>14. y = [s EXCEPT !.d.history = Forget(@, id)]
  BY Zenon DEF Forgotten
<1> HIDE DEF ids, last, c, s
<1>5. SaveInv(c, 0, saved)
  BY <1>3, HistorySaved
<1>6. ASSUME NEW n \in 1 .. last, NEW z, SaveInv(c, n - 1, z)
      PROVE  SaveInv(c, n, IF n \in ids THEN SaveOp(c, z, n) ELSE z)
  BY <1>1, <1>3, <1>6, <1>11, SaveNext
<1>7. SaveInv(c, last, s)
  BY <1>1, <1>2, <1>5, <1>6, Saves!LoopKeeps
<1>8. /\ IsX(s) /\ SameRest(s, x) /\ s.d.graph = x.d.graph /\ s.d.history = h /\ GoodUndos(s.j.undo)
      /\ \A start : Traced(q, x.j.undo, start) => Traced(WithHistory(q, b), s.j.undo, start)
  BY <1>3, <1>7 DEF SaveInv
<1>9. Forget(s.d.history, id) = b
  BY <1>4, <1>8, ForgetIs
<1>10. IsHistory(b) /\ GoodFields(b.fields) /\ GoodEdges(b.rels)
  BY GoodXIs, BaredGood
<1>13. Forget(x.d.history, id) = b
  BY <1>4, ForgetIs
<1> HIDE DEF b, q
<1>12. Becomes(y, s, s.d.graph, b, s.j.undo)
  <2>1. y = [s EXCEPT !.d.history = b]
    BY <1>9, <1>14, Zenon
  <2> QED BY <1>8, <1>10, <2>1, HistorySet
<1> QED BY <1>8, <1>10, <1>12, <1>13, HistoryReplaced DEF q

\* delete_node's steps: its relationships, its histories, the node; or nothing.
Cut(x, id) == Each(JournalDeleteRelationship, x, NodeRelationships(x.d.graph, id))
Bare(y, x, id) ==
  /\ Kept(y, x) /\ y.d.graph = x.d.graph
  /\ y.d.history = IF HasData(x.d.history) THEN Forget(x.d.history, id) ELSE x.d.history

LEMMA JournalDeleteNodeIs ==
  ASSUME NEW x, GoodX(x), NEW id,
         Grounded(x.d) => \A r \in NodeRelationships(x.d.graph, id) : ~Early(x, r),
         NEW y, y = JournalDeleteNode(x, id), NEW cut, cut = Cut(x, id)
  PROVE  \/ Quiet(y, x)
         \/ /\ id \notin DOMAIN x.d.mirrors /\ id \in DOMAIN x.d.graph.nodes
            /\ \E bare, gone : Bare(bare, cut, id) /\ NodeCut(gone, bare, id) /\ Quiet(y, gone)
<1> DEFINE saved   == SaveLifetime(SaveHistory(cut, id), id)
           noted   == Each(SaveEdgeHistory, saved, IncidentTo(cut.d.history, id))
           forgot  == [noted EXCEPT !.d.history = Forget(@, id)]
           bare    == IF HasData(cut.d.history) THEN forgot ELSE cut
           gone    == [SaveNode(bare, id) EXCEPT !.d.graph = DeleteNode(@, id)]
<1>1. y = IF id \in DOMAIN x.d.mirrors THEN Refusing(x)
          ELSE IF id \notin DOMAIN x.d.graph.nodes THEN x
          ELSE Logging(gone, [op |-> "DeleteNode", id |-> id])
  BY DEF JournalDeleteNode, Cut
<1>2. CASE id \in DOMAIN x.d.mirrors \/ id \notin DOMAIN x.d.graph.nodes
  BY <1>1, <1>2, GoodXIs, SelfQuiet, RefusingQuiet
<1>3. CASE id \notin DOMAIN x.d.mirrors /\ id \in DOMAIN x.d.graph.nodes
  <2>1. Kept(cut, x)
    BY <1>3, EdgesDropped DEF Cut
  <2>2. GoodX(cut)
    BY <2>1, KeptIs
  <2>3. Kept(forgot, cut) /\ forgot.d.graph = cut.d.graph
        /\ forgot.d.history = Forget(cut.d.history, id)
    <3>1. forgot = Forgotten(AllNoted(cut, id), id)
      BY DEF Forgotten, AllNoted
    <3> HIDE DEF forgot
    <3> QED BY <2>2, <3>1, ForgottenKept
  <2> HIDE DEF forgot
  <2>4. Bare(bare, cut, id)
    BY <2>2, <2>3, KeptSelf DEF Bare
  <2> HIDE DEF bare
  <2>5. IsX(bare)
    BY <2>4, KeptIs, GoodXIs DEF Bare
  <2>6. NodeCut(gone, bare, id)
    <3> DEFINE u == NodeUndo(bare, id)
               g == DeleteNode(bare.d.graph, id)
    <3>2. SaveNode(bare, id) = Undoing(bare, u)
      BY Zenon DEF SaveNode, NodeUndo
    <3>3. Undoing(bare, u).d.graph = bare.d.graph
      BY <2>5, UndoingIs, BecomesIs
    <3>4. gone = [Undoing(bare, u) EXCEPT !.d.graph = g]
      BY <3>2, <3>3, Zenon
    <3> HIDE DEF u, g, gone
    <3>5. Becomes(gone, bare, g, bare.d.history, Noted(bare.j.undo, u))
      BY <2>5, <3>4, NotedGraph
    <3> QED BY <3>5 DEF NodeCut, u, g
  <2> HIDE DEF gone
  <2>7. Quiet(y, gone)
    <3>1. y = Logging(gone, [op |-> "DeleteNode", id |-> id])
      BY <1>1, <1>3
    <3>2. IsX(gone)
      BY <2>6, BecomesIs DEF NodeCut
    <3> QED BY <3>1, <3>2, LoggingQuiet
  <2> QED BY <1>3, <2>4, <2>6, <2>7
<1> QED BY <1>2, <1>3

\* delete_node can be taken back, if none of its relationships refuses to go.
LEMMA JournalDeleteNodeKept ==
  ASSUME NEW x, GoodX(x), NEW id,
         Grounded(x.d) => \A r \in NodeRelationships(x.d.graph, id) : ~Early(x, r),
         NEW y, y = JournalDeleteNode(x, id)
  PROVE  Kept(y, x)
<1>0. PICK cut : cut = Cut(x, id)
  OBVIOUS
<1>1. \/ Quiet(y, x)
      \/ /\ id \notin DOMAIN x.d.mirrors /\ id \in DOMAIN x.d.graph.nodes
         /\ \E bare, gone : Bare(bare, cut, id) /\ NodeCut(gone, bare, id) /\ Quiet(y, gone)
  BY <1>0, JournalDeleteNodeIs
<1>2. CASE Quiet(y, x)
  BY <1>2, QuietKept
<1>3. CASE /\ id \notin DOMAIN x.d.mirrors /\ id \in DOMAIN x.d.graph.nodes
           /\ \E bare, gone : Bare(bare, cut, id) /\ NodeCut(gone, bare, id) /\ Quiet(y, gone)
  <2>1. /\ Kept(cut, x) /\ cut.d.graph.nodes = x.d.graph.nodes
        /\ Grounded(x.d) => \A r \in DOMAIN cut.d.graph.rels : ~Touches(cut.d.graph.rels[r], id)
    BY <1>0, <1>3, EdgesDropped DEF Cut
  <2>2. PICK bare, gone : Bare(bare, cut, id) /\ NodeCut(gone, bare, id) /\ Quiet(y, gone)
    BY <1>3
  <2>3. Kept(bare, cut) /\ bare.d.graph = cut.d.graph
    BY <2>2 DEF Bare
  <2>4. GoodX(bare) /\ Kept(bare, x)
    BY <2>1, <2>3, KeptIs, KeptTrans
  <2>5. id \in DOMAIN bare.d.graph.nodes
    BY <1>3, <2>1, <2>3
  <2>6. Kept(gone, x)
    <3>1. CASE Grounded(x.d)
      <4>1. \A r \in DOMAIN bare.d.graph.rels : ~Touches(bare.d.graph.rels[r], id)
        BY <2>1, <2>3, <3>1
      <4>2. Kept(gone, bare)
        BY <2>2, <2>4, <2>5, <4>1, NodeCutKept
      <4> QED BY <2>4, <4>2, KeptTrans
    <3>2. CASE ~Grounded(x.d)
      <4>1. GoodX(gone)
        BY <2>2, <2>4, <2>5, NodeCutGood
      <4>2. SameRest(gone, bare) /\ SameRest(bare, x)
        BY <2>2, <2>4, KeptIs, BecomesIs DEF NodeCut
      <4> QED BY <3>2, <4>1, <4>2 DEF Kept, SameRest
    <3> QED BY <3>1, <3>2
  <2>7. Kept(y, gone)
    BY <2>2, <2>6, KeptIs, QuietKept
  <2> QED BY <2>6, <2>7, KeptTrans
<1> QED BY <1>1, <1>2, <1>3

-----------------------------------------------------------------------------
(* roll_back.                                                              *)

\* A good database, whether a statement is open or not.
GoodDb(d) ==
  /\ IsDb(d) /\ IsHistory(d.history) /\ GoodGraph(d.graph)
  /\ GoodFields(d.history.fields) /\ GoodEdges(d.history.rels)

\* What neither a statement nor roll_back touches.
SameNames(e, d) ==
  e.mirrors = d.mirrors /\ e.identities = d.identities /\ e.external = d.external /\ e.version
      = d.version

\* A database with another graph.
LEMMA DbGraph ==
  ASSUME NEW d, IsDb(d), NEW g, NEW e, e = [d EXCEPT !.graph = g]
  PROVE  IsDb(e) /\ SameNames(e, d) /\ e.graph = g /\ e.history = d.history
BY DEF IsDb, SameNames

\* A database with another history.
LEMMA DbHistory ==
  ASSUME NEW d, IsDb(d), NEW h, NEW e, e = [d EXCEPT !.history = h]
  PROVE  IsDb(e) /\ SameNames(e, d) /\ e.graph = d.graph /\ e.history = h
BY DEF IsDb, SameNames

\* A step of roll_back that writes the graph.
LEMMA GraphUndone ==
  ASSUME NEW d, GoodDb(d), NEW g, GoodGraph(g), SameSlots(g, d.graph), NEW e,
         e = [d EXCEPT !.graph = g]
  PROVE  /\ GoodDb(e) /\ SameNames(e, d)
         /\ FactsOf(e) = Facts(g.nodes, g.rels, DOMAIN d.graph.uniques, DOMAIN d.graph.ranges,
             d.history)
<1>1. IsDb(e) /\ SameNames(e, d) /\ e.graph = g /\ e.history = d.history
  BY DbGraph DEF GoodDb
<1>2. FactsOf(e) = Facts(g.nodes, g.rels, DOMAIN d.graph.uniques, DOMAIN d.graph.ranges, d.history)
  BY <1>1, Zenon DEF FactsOf, SameSlots
<1>3. GoodDb(e)
  BY <1>1 DEF GoodDb
<1> QED BY <1>1, <1>2, <1>3

\* A step of roll_back that writes the history.
LEMMA HistoryUndone ==
  ASSUME NEW d, GoodDb(d), NEW h, IsHistory(h), GoodFields(h.fields), GoodEdges(h.rels),
         NEW e, e = [d EXCEPT !.history = h]
  PROVE  GoodDb(e) /\ SameNames(e, d) /\ FactsOf(e) = WithHistory(FactsOf(d), h)
<1>1. IsDb(e) /\ SameNames(e, d) /\ e.graph = d.graph /\ e.history = h
  BY DbHistory DEF GoodDb
<1>2. FactsOf(e) = WithHistory(FactsOf(d), h)
  BY <1>1, FactsAre DEF FactsOf, WithHistory
<1> QED BY <1>1, <1>2 DEF GoodDb

\* The facts of a database.
LEMMA FactsOfAre ==
  ASSUME NEW d
  PROVE  /\ FactsOf(d).nodes = d.graph.nodes /\ FactsOf(d).rels = d.graph.rels
         /\ FactsOf(d).us = DOMAIN d.graph.uniques /\ FactsOf(d).rs = DOMAIN d.graph.ranges
         /\ FactsOf(d).history = d.history
BY FactsAre DEF FactsOf

\* One step of roll_back does what Undone says.
Back(u, d, e) == GoodDb(e) /\ SameNames(e, d) /\ FactsOf(e) = Undone(u, FactsOf(d))

\* roll_back of an edge's history is what Undone says.
LEMMA UndoEdgeHistory ==
  ASSUME NEW d, GoodDb(d), NEW u, GoodUndo(u), u.undo = "edge_history"
  PROVE  Back(u, d, UndoOne(u, d))
<1> DEFINE h == d.history
           r == PutOptional(h.rels, u.id, u.edge)
           new == [h EXCEPT !.rels = r]
           e == UndoOne(u, d)
<1>1. e = [d EXCEPT !.history = new]
  BY DEF UndoOne, GoodDb, IsDb
<1>2. IsHistory(h) /\ IsFcn(r) /\ GoodFields(h.fields) /\ GoodEdges(h.rels)
  BY OptionalFcn DEF GoodDb
<1>3. GoodEdges(r)
  <2>1. PICK top \in Nat : DOMAIN h.rels \subseteq 1 .. top
    BY <1>2 DEF GoodEdges
  <2>2. u.id \in Nat /\ u.id > 0
    BY DEF GoodUndo
  <2>3. \A x : x # u.id => (x \in DOMAIN r <=> x \in DOMAIN h.rels)
    BY OptionalIs
  <2> HIDE DEF r, h
  <2>4. \A x \in DOMAIN r : x \in 1 .. top + u.id
    BY <2>1, <2>2, <2>3
  <2> QED BY <2>2, <2>4 DEF GoodEdges
<1> HIDE DEF e, r
<1>4. IsHistory(new) /\ Sections(new, h.fields, r, h.appears, h.ends)
  BY <1>2, EdgesSection
<1>5. new = Sectioned(h.fields, r, h.appears, h.ends)
  BY <1>4, SectionedIs
<1>6. GoodFields(new.fields) /\ GoodEdges(new.rels)
  BY <1>2, <1>3, <1>4, SectionsAre
<1> HIDE DEF new
<1>7. GoodDb(e) /\ SameNames(e, d) /\ FactsOf(e) = WithHistory(FactsOf(d), new)
  BY <1>1, <1>4, <1>6, HistoryUndone
<1>8. Undone(u, FactsOf(d)) = WithHistory(FactsOf(d), new)
  BY <1>5, FactsOfAre DEF Undone, r
<1> QED BY <1>7, <1>8 DEF Back, e

\* roll_back of a lifetime.
LEMMA UndoLifetime ==
  ASSUME NEW d, GoodDb(d), NEW u, GoodUndo(u), u.undo = "lifetime"
  PROVE  Back(u, d, UndoOne(u, d))
<1> DEFINE h == d.history
           a == PutOptional(h.appears, u.id, u.appears)
           x == PutOptional(h.ends, u.id, u.ends)
           new == SetLifetime(h, u.id, u.appears, u.ends)
           e == UndoOne(u, d)
<1>1. e = [d EXCEPT !.history = new]
  BY DEF UndoOne
<1>2. IsHistory(h) /\ GoodFields(h.fields) /\ GoodEdges(h.rels)
  BY DEF GoodDb
<1> HIDE DEF e
<1>4. IsHistory(new) /\ Sections(new, h.fields, h.rels, a, x)
  BY <1>2, LifetimeShape
<1> HIDE DEF new, a, x
<1>5. new = Sectioned(h.fields, h.rels, a, x)
  BY <1>4, SectionedIs
<1>6. GoodFields(new.fields) /\ GoodEdges(new.rels)
  BY <1>2, <1>4, SectionsAre
<1>7. GoodDb(e) /\ SameNames(e, d) /\ FactsOf(e) = WithHistory(FactsOf(d), new)
  BY <1>1, <1>4, <1>6, HistoryUndone
<1>8. Undone(u, FactsOf(d)) = WithHistory(FactsOf(d), new)
  BY <1>5, FactsOfAre DEF Undone, a, x
<1> QED BY <1>7, <1>8 DEF Back, e

\* roll_back of a node's field histories.
LEMMA UndoHistory ==
  ASSUME NEW d, GoodDb(d), NEW u, GoodUndo(u), u.undo = "history"
  PROVE  Back(u, d, UndoOne(u, d))
<1> DEFINE h == d.history
           f == FieldsBack(h, u.id, u.fields)
           new == [h EXCEPT !.fields = f]
           e == UndoOne(u, d)
<1>1. e = [d EXCEPT !.history = new]
  <2>1. e = [d EXCEPT !.history.fields = Over(Drop(@, FieldsOf(d.history, u.id)), u.fields)]
    BY DEF UndoOne
  <2> QED BY <2>1 DEF FieldsBack, GoodDb, IsDb
<1>2. IsHistory(h) /\ IsFcn(f) /\ GoodFields(h.fields) /\ GoodEdges(h.rels)
  BY OverFcn DEF GoodDb, FieldsBack
<1>3. GoodFields(f)
  <2>1. GoodFields(u.fields)
    BY DEF GoodUndo
  <2>2. GoodFields(Drop(h.fields, FieldsOf(h, u.id)))
    BY <1>2, DropIs DEF GoodFields
  <2>3. ASSUME NEW p, NEW q, GoodFields(p), GoodFields(q) PROVE GoodFields(Over(p, q))
    BY <2>3 DEF Over, GoodFields
  <2> QED BY <2>1, <2>2, <2>3 DEF FieldsBack
<1> HIDE DEF e, f
<1>4. IsHistory(new) /\ Sections(new, f, h.rels, h.appears, h.ends)
  BY <1>2, FieldsSection
<1>5. new = Sectioned(f, h.rels, h.appears, h.ends)
  BY <1>4, SectionedIs
<1>6. GoodFields(new.fields) /\ GoodEdges(new.rels)
  BY <1>2, <1>3, <1>4, SectionsAre
<1> HIDE DEF new
<1>7. GoodDb(e) /\ SameNames(e, d) /\ FactsOf(e) = WithHistory(FactsOf(d), new)
  BY <1>1, <1>4, <1>6, HistoryUndone
<1>8. Undone(u, FactsOf(d)) = WithHistory(FactsOf(d), new)
  BY <1>5, FactsOfAre DEF Undone, f
<1> QED BY <1>7, <1>8 DEF Back, e

\* roll_back of a created node.
LEMMA UndoCreated ==
  ASSUME NEW d, GoodDb(d), NEW u, GoodUndo(u), u.undo = "created"
  PROVE  Back(u, d, UndoOne(u, d))
<1> DEFINE g == d.graph
           id == u.id
           new == DeleteNode(g, id)
           e == UndoOne(u, d)
<1>1. e = [d EXCEPT !.graph = new]
  BY DEF UndoOne
<1>2. GoodGraph(g) /\ Indexed(g) /\ \E top \in Nat : DOMAIN g.rels \subseteq 1 .. top
  BY GoodGraphIs DEF GoodDb
<1>3. GoodGraph(new)
  BY <1>2, DeleteNodeGood
<1> HIDE DEF e
<1>4. CASE id \in DOMAIN g.nodes
  <2>1. new.nodes = Without(g.nodes, id) /\ new.rels = RelsWithout(g.rels, id) /\ SameSlots(new, g)
    BY <1>2, <1>4, DeleteNodeIs
  <2> HIDE DEF new
  <2>2. /\ GoodDb(e) /\ SameNames(e, d)
        /\ FactsOf(e) = Facts(new.nodes, new.rels, DOMAIN d.graph.uniques, DOMAIN d.graph.ranges,
            d.history)
    BY <1>1, <1>3, <2>1, GraphUndone
  <2>3. Undone(u, FactsOf(d))
        = Facts(Without(g.nodes, id), RelsWithout(g.rels, id), DOMAIN d.graph.uniques,
            DOMAIN d.graph.ranges, d.history)
    BY <1>4, FactsOfAre DEF Undone
  <2> QED BY <2>1, <2>2, <2>3 DEF Back, e
<1>5. CASE id \notin DOMAIN g.nodes
  <2>1. new = g
    BY <1>5, Zenon DEF DeleteNode
  <2>2. SameSlots(g, g)
    BY DEF SameSlots
  <2>3. e = [d EXCEPT !.graph = g]
    BY <1>1, <2>1
  <2> HIDE DEF new
  <2>4. /\ GoodDb(e) /\ SameNames(e, d)
        /\ FactsOf(e) = Facts(g.nodes, g.rels, DOMAIN d.graph.uniques, DOMAIN d.graph.ranges,
            d.history)
    BY <1>2, <2>2, <2>3, GraphUndone
  <2>5. FactsOf(e) = FactsOf(d)
    BY <2>4 DEF FactsOf
  <2>6. Undone(u, FactsOf(d)) = FactsOf(d)
    BY <1>5, FactsOfAre DEF Undone
  <2> QED BY <2>4, <2>5, <2>6 DEF Back, e
<1> QED BY <1>4, <1>5

\* roll_back of a changed or deleted node.
LEMMA UndoReplaced ==
  ASSUME NEW d, GoodDb(d), NEW u, GoodUndo(u), u.undo = "replaced"
  PROVE  Back(u, d, UndoOne(u, d))
<1> DEFINE g == d.graph
           id == u.id
           node == u.node
           new == RestoreNode(g, id, node)
           n == Put(g.nodes, id, node)
           e == UndoOne(u, d)
<1>1. e = [d EXCEPT !.graph = new]
  BY DEF UndoOne
<1>2. GoodGraph(g) /\ Indexed(g) /\ id \in Nat /\ GoodNode(node)
  BY GoodGraphIs DEF GoodDb, GoodUndo
<1> HIDE DEF e
<1>3. GoodGraph(new) /\ new.nodes = n /\ new.rels = g.rels /\ SameSlots(new, g)
  BY <1>2, RestoreNodeGood, RestoreNodeIs
<1> HIDE DEF new, n
<1>4. /\ GoodDb(e) /\ SameNames(e, d)
      /\ FactsOf(e) = Facts(new.nodes, new.rels, DOMAIN d.graph.uniques, DOMAIN d.graph.ranges,
          d.history)
  BY <1>1, <1>3, GraphUndone
<1>5. Undone(u, FactsOf(d))
      = Facts(n, g.rels, DOMAIN d.graph.uniques, DOMAIN d.graph.ranges, d.history)
  BY FactsOfAre DEF Undone, WithNodes, n
<1> QED BY <1>3, <1>4, <1>5 DEF Back, e

\* roll_back of a created relationship.
LEMMA UndoCreatedRel ==
  ASSUME NEW d, GoodDb(d), NEW u, GoodUndo(u), u.undo = "created_rel"
  PROVE  Back(u, d, UndoOne(u, d))
<1> DEFINE g == d.graph
           id == u.id
           new == DeleteRelationship(g, id)
           r == Without(g.rels, id)
           e == UndoOne(u, d)
<1>1. e = [d EXCEPT !.graph = new]
  BY DEF UndoOne
<1>2. GoodGraph(g) /\ Indexed(g)
  BY GoodGraphIs DEF GoodDb
<1> HIDE DEF e
<1>3. GoodGraph(new) /\ new.nodes = g.nodes /\ new.rels = r /\ SameSlots(new, g)
  BY <1>2, DeleteRelationshipGood, DeleteRelationshipIs
<1> HIDE DEF new, r
<1>4. /\ GoodDb(e) /\ SameNames(e, d)
      /\ FactsOf(e) = Facts(new.nodes, new.rels, DOMAIN d.graph.uniques, DOMAIN d.graph.ranges,
          d.history)
  BY <1>1, <1>3, GraphUndone
<1>5. Undone(u, FactsOf(d))
      = Facts(g.nodes, r, DOMAIN d.graph.uniques, DOMAIN d.graph.ranges, d.history)
  BY FactsOfAre DEF Undone, WithRels, r
<1> QED BY <1>3, <1>4, <1>5 DEF Back, e

\* roll_back of a deleted relationship.
LEMMA UndoDeletedRel ==
  ASSUME NEW d, GoodDb(d), NEW u, GoodUndo(u), u.undo = "deleted_rel"
  PROVE  Back(u, d, UndoOne(u, d))
<1> DEFINE g == d.graph
           id == u.id
           rel == u.rel
           new == RestoreRelationship(g, id, rel)
           r == Put(g.rels, id, rel)
           e == UndoOne(u, d)
<1>1. e = [d EXCEPT !.graph = new]
  BY DEF UndoOne
<1>2. GoodGraph(g) /\ Indexed(g) /\ id \in Nat /\ id > 0
  BY GoodGraphIs DEF GoodDb, GoodUndo
<1> HIDE DEF e
<1>3. GoodGraph(new) /\ new.nodes = g.nodes /\ new.rels = r /\ SameSlots(new, g)
  BY <1>2, RestoreRelationshipGood, RestoreRelationshipIs
<1> HIDE DEF new, r
<1>4. /\ GoodDb(e) /\ SameNames(e, d)
      /\ FactsOf(e) = Facts(new.nodes, new.rels, DOMAIN d.graph.uniques, DOMAIN d.graph.ranges,
          d.history)
  BY <1>1, <1>3, GraphUndone
<1>5. Undone(u, FactsOf(d))
      = Facts(g.nodes, r, DOMAIN d.graph.uniques, DOMAIN d.graph.ranges, d.history)
  BY FactsOfAre DEF Undone, WithRels, r
<1> QED BY <1>3, <1>4, <1>5 DEF Back, e

\* Every step of roll_back is what Undone says.
LEMMA UndoOneIs ==
  ASSUME NEW d, GoodDb(d), NEW u, GoodUndo(u)
  PROVE  Back(u, d, UndoOne(u, d))
<1>1. u.undo \in UndoKinds
  BY DEF GoodUndo
<1> QED BY <1>1, UndoEdgeHistory, UndoLifetime, UndoHistory, UndoCreated, UndoReplaced,
        UndoCreatedRel,
        UndoDeletedRel DEF UndoKinds

\* The loop of roll_back.
BackOp(c, y, n)  == UndoOne(c.undo[Len(c.undo) + 1 - n], y)
BackInv(c, n, y) ==
  /\ GoodDb(y) /\ SameNames(y, c.d)
  /\ Leads(c.f, FactsOf(c.d), c.undo, c.start) => FactsOf(y) = c.f[Len(c.undo) - n]
Backs == INSTANCE Loop WITH Op <- BackOp, P <- BackInv

\* roll_back's loop leads to where the notes lead.
LEMMA UndoAllIs ==
  ASSUME NEW d, GoodDb(d), NEW undo, GoodUndos(undo), NEW y, y = UndoAll(undo, d)
  PROVE  /\ GoodDb(y) /\ SameNames(y, d)
         /\ \A start : Traced(FactsOf(d), undo, start) => FactsOf(y) = start
<1> DEFINE last == Max({0} \cup DOMAIN undo)
           ids == DOMAIN undo
           len == Len(undo)
<1>1. len \in Nat /\ ids = 1 .. len /\ \A i \in ids : GoodUndo(undo[i])
  BY SeqGrows DEF GoodUndos
<1>2. last = len
  <2>1. ids \in SUBSET (1 .. len)
    BY <1>1
  <2> HIDE DEF ids
  <2>2. last \in Nat /\ (\A n \in ids : n \in 1 .. last) /\ last \in {0} \cup ids
    BY <1>1, <2>1, LastId DEF ids
  <2> HIDE DEF last
  <2> QED BY <1>1, <2>2
<1>3. ASSUME NEW f, NEW start
      PROVE  /\ GoodDb(y) /\ SameNames(y, d)
             /\ Leads(f, FactsOf(d), undo, start) => FactsOf(y) = start
  <2> DEFINE c == [undo |-> undo, d |-> d, f |-> f, start |-> start]
  <2>1. y = Backs!Run(c, d, ids, last)
    BY DEF UndoAll, Each, Backs!Run, BackOp
  <2>2. c.undo = undo /\ c.d = d /\ c.f = f /\ c.start = start
    OBVIOUS
  <2> HIDE DEF c, last, ids, len
  <2>3. BackInv(c, 0, d)
    BY <1>1, <2>2 DEF BackInv, Leads, SameNames, len
  <2>4. ASSUME NEW n \in 1 .. len, NEW z, BackInv(c, n - 1, z)
        PROVE  BackInv(c, n, IF n \in ids THEN BackOp(c, z, n) ELSE z)
    <3> DEFINE u == undo[len + 1 - n]
               w == UndoOne(u, z)
    <3>1. n \in ids /\ len + 1 - n \in ids /\ GoodUndo(u)
      BY <1>1
    <3>2. /\ GoodDb(z) /\ SameNames(z, d)
          /\ Leads(f, FactsOf(d), undo, start) => FactsOf(z) = f[len - (n - 1)]
      BY <2>2, <2>4 DEF BackInv, len
    <3>3. Back(u, z, w)
      BY <3>1, <3>2, UndoOneIs
    <3> HIDE DEF w
    <3>4. GoodDb(w) /\ SameNames(w, d)
      BY <3>2, <3>3 DEF Back, SameNames
    <3>5. ASSUME Leads(f, FactsOf(d), undo, start) PROVE FactsOf(w) = f[len - n]
      <4>1. FactsOf(w) = Undone(u, f[len - (n - 1)])
        BY <3>2, <3>3, <3>5 DEF Back
      <4>2. len - (n - 1) = len + 1 - n /\ len - n = (len + 1 - n) - 1 /\ len + 1 - n \in 1 .. len
        BY <1>1
      <4>3. f[(len + 1 - n) - 1] = Undone(undo[len + 1 - n], f[len + 1 - n])
        BY <3>5, <4>2 DEF Leads, len
      <4> QED BY <4>1, <4>2, <4>3
    <3>6. BackInv(c, n, w)
      BY <2>2, <3>4, <3>5 DEF BackInv, len
    <3> QED BY <2>2, <3>1, <3>6 DEF BackOp, w, len
  <2>5. BackInv(c, last, y)
    BY <1>1, <1>2, <2>1, <2>3, <2>4, Backs!LoopKeeps
  <2>6. len - last = 0
    BY <1>1, <1>2
  <2> QED BY <2>2, <2>5, <2>6 DEF BackInv, Leads, len
<1> QED BY <1>3 DEF Traced

-----------------------------------------------------------------------------
(* What readers see.                                                        *)
\* The database as its readers see it is what its facts, counters and names say.
SeenLabels(nodes) == [l \in UNION {nodes[id].labels : id \in DOMAIN nodes} |-> LabelOf(nodes, l)]

\* The graph as its readers see it, by its nodes and relationships.
LEMMA SeenIs ==
  ASSUME NEW g, Indexed(g)
  PROVE  Parts(Seen(g), g.nodes, g.rels, Counters(g.next.node, g.next.rel), EdgesIn(g.rels),
         SeenLabels(g.nodes),
               UniquesIn(g.nodes, DOMAIN g.uniques), RangesIn(g.nodes, DOMAIN g.ranges))
<1> DEFINE S == DOMAIN g.labels
           ls == LabelsIn(g.nodes, S)
           some == {l \in DOMAIN ls : ls[l] # {}}
           seen == Restrict(ls, some)
           next == Counters(g.next.node, g.next.rel)
           es == EdgesIn(g.rels)
           us == UniquesIn(g.nodes, DOMAIN g.uniques)
           rs == RangesIn(g.nodes, DOMAIN g.ranges)
<1>1. Parts(g, g.nodes, g.rels, next, es, ls, us, rs) /\ LabelsKnown(g.nodes, S)
  BY IndexedIs
<1>2. DOMAIN ls = S /\ \A l \in S : ls[l] = LabelOf(g.nodes, l)
  BY DEF LabelsIn
<1>3. seen = SeenLabels(g.nodes)
  <2> DEFINE w == SeenLabels(g.nodes)
  <2>1. \A l : l \in DOMAIN w <=> \E id \in DOMAIN g.nodes : l \in g.nodes[id].labels
    BY DEF SeenLabels
  <2>2. \A l \in DOMAIN w : w[l] = LabelOf(g.nodes, l)
    BY DEF SeenLabels
  <2>3. IsFcn(w) /\ IsFcn(seen)
    BY DEF IsFcn, SeenLabels, Restrict
  <2> HIDE DEF w, ls
  <2>4. DOMAIN seen = some /\ \A l \in some : seen[l] = ls[l]
    BY DEF Restrict
  <2>5. \A l : l \in some <=> l \in S /\ LabelOf(g.nodes, l) # {}
    BY <1>2
  <2>6. \A l : LabelOf(g.nodes, l) # {} <=> \E id \in DOMAIN g.nodes : l \in g.nodes[id].labels
    BY DEF LabelOf
  <2>7. \A l : l \in some <=> l \in DOMAIN w
    BY <1>1, <2>1, <2>5, <2>6 DEF LabelsKnown
  <2> HIDE DEF some, seen
  <2>8. \A l \in DOMAIN seen : seen[l] = w[l]
    BY <1>2, <2>2, <2>4, <2>5, <2>7
  <2>9. seen = w
    BY <2>3, <2>4, <2>7, <2>8, SameFcn
  <2> QED BY <2>9 DEF w
<1>4. g.labels = ls
  BY <1>1, PartsAre
<1>5. Seen(g) = [g EXCEPT !.labels = seen]
  <2>1. Seen(g) = [g EXCEPT !.labels
        = Restrict(g.labels, {l \in DOMAIN g.labels : g.labels[l] # {}})]
    BY Zenon DEF Seen
  <2> QED BY <1>4, <2>1
<1> HIDE DEF seen, ls, next, es, us, rs
<1>6. Parts(Seen(g), g.nodes, g.rels, next, es, seen, us, rs)
  BY <1>1, <1>5 DEF Parts
<1> QED BY <1>3, <1>6 DEF next, es, us, rs

\* The database as its readers see it is what its facts, counters and names say.
LEMMA WholeIs ==
  ASSUME NEW d, GoodDb(d), NEW e, GoodDb(e), FactsOf(d) = FactsOf(e), d.graph.next = e.graph.next,
         SameNames(d, e)
  PROVE  Whole(d) = Whole(e)
<1> DEFINE g == d.graph
           k == e.graph
<1>1. /\ g.nodes = k.nodes /\ g.rels = k.rels /\ DOMAIN g.uniques = DOMAIN k.uniques
      /\ DOMAIN g.ranges = DOMAIN k.ranges /\ d.history = e.history
  BY FactsOfAre
<1>2. Indexed(g) /\ Indexed(k)
  BY GoodGraphIs DEF GoodDb
<1>3. Seen(g) = Seen(k)
  BY <1>1, <1>2, SeenIs DEF Parts
<1>4. ASSUME NEW c, GoodDb(c)
      PROVE  Whole(c) = [graph |-> Seen(c.graph), history |-> c.history, mirrors |-> c.mirrors,
                         identities |-> c.identities, external |-> c.external,
                             version |-> c.version]
  <2> DEFINE s == Seen(c.graph)
  <2>1. Whole(c) = [c EXCEPT !.graph = s]
    BY Zenon DEF Whole
  <2>2. IsDb(c)
    BY <1>4 DEF GoodDb
  <2> HIDE DEF s
  <2>3. Whole(c) = [graph |-> s, history |-> c.history, mirrors |-> c.mirrors,
                    identities |-> c.identities, external |-> c.external, version |-> c.version]
    BY <2>1, <2>2 DEF IsDb
  <2> QED BY <2>3 DEF s
<1> QED BY <1>1, <1>3, <1>4 DEF SameNames

\* A statement's indexes change no node, relationship or counter.
LEMMA SyncedIs ==
  ASSUME NEW g, GoodGraph(g), NEW us, NEW rs, \A slot \in rs : slot = <<slot[1], slot[2]>>,
         NEW new, new = SyncUniques(SyncIndexes(g, rs), us)
  PROVE  GoodGraph(new) /\ new.nodes = g.nodes /\ new.rels = g.rels /\ new.next = g.next
<1> DEFINE mid == SyncIndexes(g, rs)
<1>1. Indexed(mid) /\ mid.nodes = g.nodes /\ mid.rels = g.rels /\ mid.next = g.next
  BY GoodGraphIs, SyncIndexesIs
<1>2. GoodGraph(new)
  BY SyncGood
<1> HIDE DEF mid
<1>3. new.nodes = g.nodes /\ new.rels = g.rels /\ new.next = g.next
  BY <1>1, SyncUniquesIs DEF mid
<1> QED BY <1>2, <1>3

-----------------------------------------------------------------------------
(* The invariant.                                                          *)

\* Of an open statement: its journal is typed, it knows the counters of before,
\* and its undo list leads from the database to the one it found.
Open ==
  /\ IsJournal(journal) /\ GoodUndos(journal.undo) /\ journal.at \in Nat
  /\ journal.next = before.graph.next /\ SameNames(db, before)
  /\ ~EarlyDeletes => Traced(FactsOf(db), journal.undo, FactsOf(before))

\* The inductive invariant.  Only FailureLeavesNoTrace and what it rests on need
\* ~EarlyDeletes.
JournalInv ==
  /\ GoodDb(db) /\ GoodDb(before)
  /\ ~EarlyDeletes => Grounded(db) /\ Grounded(before)
  /\ journal.open => Open
  /\ ~EarlyDeletes => FailureLeavesNoTrace

\* An open statement's database and journal are good.
LEMMA NowGood ==
  ASSUME JournalInv, journal.open
  PROVE  /\ GoodX(Now) /\ Now.d = db /\ Now.j = journal
BY DEF JournalInv, Open, GoodDb, GoodX, IsX, Now

\* Counting a call changes nothing else of a journal.
LEMMA CountedCall ==
  ASSUME NEW j, IsJournal(j), NEW v
  PROVE  /\ IsJournal([j EXCEPT !.calls = v]) /\ [j EXCEPT !.calls = v].undo = j.undo
         /\ [j EXCEPT !.calls = v].at = j.at /\ [j EXCEPT !.calls = v].next = j.next
         /\ [j EXCEPT !.calls = v].open = j.open
BY DEF IsJournal

\* A call that can be taken back keeps the invariant.
LEMMA CallKeeps ==
  ASSUME JournalInv, NEW y, Calls(y), Kept(y, Now)
  PROVE  JournalInv'
<1> DEFINE calls == y.j.calls + 1
           j == [y.j EXCEPT !.calls = calls]
<1>1. /\ journal.open /\ db' = y.d /\ before' = before /\ result' = result
      /\ journal' = j
  BY Zenon DEF Calls
<1>2. GoodX(Now) /\ Now.d = db /\ Now.j = journal
  BY <1>1, NowGood
<1>3. GoodX(y) /\ SameRest(y, Now) /\ (Grounded(db) => Grounded(y.d))
      /\ (Grounded(db) /\ Traced(FactsOf(db), journal.undo, FactsOf(before)) =>
            Traced(FactsOf(y.d), y.j.undo, FactsOf(before)))
  BY <1>2 DEF Kept
<1>4. IsX(y) /\ IsJournal(y.j)
  BY <1>3, GoodXIs DEF IsX
<1> HIDE DEF calls
<1>5. IsJournal(j) /\ j.undo = y.j.undo /\ j.at = y.j.at /\ j.next = y.j.next /\ j.open = y.j.open
  BY <1>4, CountedCall
<1> HIDE DEF j
<1>6. Open
  BY <1>1 DEF JournalInv
<1>7. GoodDb(y.d)
  BY <1>3 DEF GoodX, IsX, GoodDb
<1>8. journal'.open
  BY <1>1, <1>2, <1>3, <1>5 DEF SameRest
<1>9. IsJournal(j) /\ GoodUndos(j.undo) /\ j.at \in Nat /\ j.next = before.graph.next
  BY <1>2, <1>3, <1>5, <1>6, GoodXIs DEF SameRest, Open
<1>10. SameNames(y.d, before)
  BY <1>2, <1>3, <1>6 DEF SameRest, SameNames, Open
<1>11. ~EarlyDeletes => Grounded(y.d) /\ Traced(FactsOf(y.d), j.undo, FactsOf(before))
  BY <1>3, <1>5, <1>6 DEF JournalInv, Open
<1>12. GoodDb(db') /\ GoodDb(before')
  BY <1>1, <1>7 DEF JournalInv
<1>13. Open'
  BY <1>1, <1>9, <1>10, <1>11 DEF Open
<1>14. ~EarlyDeletes => Grounded(db)' /\ Grounded(before)'
  BY <1>1, <1>11 DEF JournalInv
<1>15. FailureLeavesNoTrace'
  BY <1>8 DEF FailureLeavesNoTrace
<1> QED BY <1>12, <1>13, <1>14, <1>15 DEF JournalInv

-----------------------------------------------------------------------------
(* Every action keeps the invariant.                                        *)
\* What statements write is typed.
LEMMA InputsGood ==
  /\ \A node \in NodeInputs : GoodNode(node)
  /\ \A props \in PropInputs : GoodProps(props)
<1>1. \A props \in {n.props : n \in NodeInputs} \cup PropInputs : GoodProps(props)
  BY InputsAssumption DEF GoodProps, IsFcn
<1>2. \A node \in NodeInputs : GoodProps(node.props) /\ IsNode(node)
  BY <1>1, InputsAssumption DEF IsNode
<1> QED BY <1>1, <1>2 DEF GoodNode

\* insert_node keeps the invariant.
LEMMA InsertKeeps == ASSUME JournalInv, NEW node \in NodeInputs, Insert(node) PROVE JournalInv'
<1> DEFINE y == JournalCreateNode(Now, node)
<1>1. Calls(y) /\ journal.open
  BY DEF Insert
<1>2. GoodX(Now) /\ GoodNode(node)
  BY <1>1, NowGood, InputsGood
<1>3. Kept(y, Now)
  BY <1>2, JournalCreateNodeKept
<1> HIDE DEF y
<1> QED BY <1>1, <1>3, CallKeeps

\* A set keeps it.
LEMMA SetKeeps == ASSUME JournalInv, NEW id, NEW props \in PropInputs, Set(id, props)
    PROVE JournalInv'
<1> DEFINE y == JournalUpdateNode(Now, id, props)
<1>1. Calls(y) /\ journal.open
  BY DEF Set
<1>2. GoodX(Now) /\ GoodProps(props)
  BY <1>1, NowGood, InputsGood
<1>3. Kept(y, Now)
  BY <1>2, JournalUpdateNodeKept
<1> HIDE DEF y
<1> QED BY <1>1, <1>3, CallKeeps

\* connect keeps it.
LEMMA ConnectKeeps ==
  ASSUME JournalInv, NEW parent, NEW child, NEW kind, NEW direction,
         Connect(parent, child, kind, direction)
  PROVE  JournalInv'
<1> DEFINE from == IF direction = "out" THEN parent ELSE child
           to == IF direction = "out" THEN child ELSE parent
           rel == [kind |-> kind, from |-> from, to |-> to]
           y == JournalCreateRelationship(Now, rel)
<1>1. Calls(y) /\ journal.open /\ parent \in DOMAIN db.graph.nodes
      /\ child \in DOMAIN db.graph.nodes
  BY DEF Connect
<1>2. GoodX(Now) /\ Now.d = db
  BY <1>1, NowGood
<1>3. rel.from \in DOMAIN Now.d.graph.nodes /\ rel.to \in DOMAIN Now.d.graph.nodes
  BY <1>1, <1>2
<1> HIDE DEF rel
<1>4. Kept(y, Now)
  BY <1>2, <1>3, JournalCreateRelationshipKept
<1> HIDE DEF y
<1> QED BY <1>1, <1>4, CallKeeps

\* Deleting a relationship keeps it.
LEMMA DisconnectKeeps == ASSUME JournalInv, NEW id, Disconnect(id) PROVE JournalInv'
<1> DEFINE y == JournalDeleteRelationship(Now, id)
<1>1. Calls(y) /\ journal.open
  BY DEF Disconnect
<1>2. GoodX(Now)
  BY <1>1, NowGood
<1>3. Kept(y, Now)
  BY <1>2, JournalDeleteRelationshipKept
<1> HIDE DEF y
<1> QED BY <1>1, <1>3, CallKeeps

\* Deleting a node keeps it.
LEMMA DeleteKeeps == ASSUME JournalInv, NEW id, Delete(id) PROVE JournalInv'
<1> DEFINE y == JournalDeleteNode(Now, id)
<1>1. /\ Calls(y) /\ journal.open
      /\ EarlyDeletes \/ ~ \E r \in NodeRelationships(db.graph, id) \cap DOMAIN db.history.rels :
                             journal.at < db.history.rels[r].from
  BY DEF Delete
<1>2. GoodX(Now) /\ Now.d = db /\ Now.j = journal
  BY <1>1, NowGood
<1>3. Grounded(Now.d) => \A r \in NodeRelationships(Now.d.graph, id) : ~Early(Now, r)
  BY <1>1, <1>2, GroundedIs DEF Early
<1>4. Kept(y, Now)
  BY <1>2, <1>3, JournalDeleteNodeKept
<1> HIDE DEF y
<1> QED BY <1>1, <1>4, CallKeeps

-----------------------------------------------------------------------------
(* A statement begins with nothing to undo.                                *)
\* An empty undo list leads from a state to itself.
LEMMA NothingTraced == ASSUME NEW q PROVE Traced(q, <<>>, q) /\ GoodUndos(<<>>)
<1> DEFINE f == [i \in 0 .. 0 |-> q]
<1>1. f[0] = q
  OBVIOUS
<1> HIDE DEF f
<1>2. Leads(f, q, <<>>, q)
  <2>1. Len(<<>>) = 0 /\ 1 .. 0 = {}
    OBVIOUS
  <2> QED BY <1>1, <2>1 DEF Leads
<1>3. <<>> \in Seq({}) /\ DOMAIN <<>> = {}
  OBVIOUS
<1> QED BY <1>2, <1>3 DEF Traced, GoodUndos, IsSeq

\* What a new journal is.
LEMMA NewJournalIs ==
  ASSUME NEW d, NEW schema, NEW at, NEW api, NEW j, j = NewJournal(d, schema, at, api)
  PROVE  IsJournal(j) /\ j.undo = <<>> /\ j.at = at /\ j.next = d.graph.next /\ j.open
BY DEF NewJournal, IsJournal

\* A statement begins with nothing to undo.
LEMMA StartKeeps ==
  ASSUME NEW d, GoodDb(d), ~EarlyDeletes => Grounded(d), db' = d, before' = d,
         NEW schema, NEW at \in Nat, NEW api, journal' = NewJournal(d, schema, at, api)
  PROVE  JournalInv'
<1>1. /\ IsJournal(journal') /\ journal'.undo = <<>> /\ journal'.at = at /\ journal'.next
         = d.graph.next
      /\ journal'.open
  BY NewJournalIs
<1>2. Open'
  BY <1>1, NothingTraced DEF Open, SameNames
<1>3. FailureLeavesNoTrace'
  BY <1>1 DEF FailureLeavesNoTrace
<1> QED BY <1>2, <1>3 DEF JournalInv

\* Groundedness is about nodes, relationships, counters and mirrors.
LEMMA GroundedSame ==
  ASSUME NEW d, Grounded(d), NEW e, e.graph.nodes = d.graph.nodes, e.graph.rels = d.graph.rels,
         e.graph.next = d.graph.next, e.mirrors = d.mirrors
  PROVE  Grounded(e)
BY DEF Grounded

\* execute begins with the indexes of its schema.
LEMMA BeginKeeps == ASSUME JournalInv, NEW schema \in Schemas, NEW at \in Times, Begin(schema, at)
    PROVE JournalInv'
<1> DEFINE g == db.graph
           new == SyncUniques(SyncIndexes(g, schema.ranges), schema.uniques)
           d == [db EXCEPT !.graph = new]
<1>1. db' = d /\ before' = d /\ journal' = NewJournal(d, schema, at, FALSE)
  BY DEF Begin
<1>2. GoodDb(db) /\ IsDb(db) /\ GoodGraph(g)
  BY DEF JournalInv, GoodDb
<1>3. \A slot \in schema.ranges : slot = <<slot[1], slot[2]>>
  BY SchemasAssumption
<1>4. GoodGraph(new) /\ new.nodes = g.nodes /\ new.rels = g.rels /\ new.next = g.next
  BY <1>2, <1>3, SyncedIs
<1>5. at \in Nat
  BY TimesAssumption
<1> HIDE DEF new
<1>6. IsDb(d) /\ SameNames(d, db) /\ d.graph = new /\ d.history = db.history
  BY <1>2, DbGraph
<1> HIDE DEF d
<1>7. GoodDb(d)
  BY <1>2, <1>4, <1>6 DEF GoodDb
<1>8. ~EarlyDeletes => Grounded(d)
  BY <1>4, <1>6, GroundedSame DEF JournalInv, SameNames
<1> QED BY <1>1, <1>5, <1>7, <1>8, StartKeeps

\* delete_node and delete_relationship begin with what is there.
LEMMA BeginCallKeeps == ASSUME JournalInv, NEW now \in Times, BeginCall(now) PROVE JournalInv'
<1>1. db' = db /\ before' = db /\ journal' = NewJournal(db, NoSchema, now, TRUE)
  BY DEF BeginCall
<1>2. now \in Nat
  BY TimesAssumption
<1> QED BY <1>1, <1>2, StartKeeps DEF JournalInv

-----------------------------------------------------------------------------
(* A statement ends.                                                       *)
\* roll_back leads to the facts, the counters and the names of before.
LEMMA RolledBack ==
  ASSUME JournalInv, journal.open, NEW d, d = RollBack(db, journal)
  PROVE  /\ GoodDb(d) /\ SameNames(d, before) /\ d.graph.next = before.graph.next
         /\ ~EarlyDeletes => FactsOf(d) = FactsOf(before)
<1> DEFINE y == UndoAll(journal.undo, db)
           next == journal.next
           g == ResetNextIds(y.graph, next)
<1>1. /\ GoodDb(db) /\ GoodDb(before) /\ GoodUndos(journal.undo) /\ next = before.graph.next
      /\ SameNames(db, before)
      /\ ~EarlyDeletes => Traced(FactsOf(db), journal.undo, FactsOf(before))
  BY DEF JournalInv, Open
<1>2. /\ GoodDb(y) /\ SameNames(y, db)
      /\ ~EarlyDeletes => FactsOf(y) = FactsOf(before)
  BY <1>1, UndoAllIs
<1>3. d = [y EXCEPT !.graph = g]
  BY Zenon DEF RollBack
<1> HIDE DEF y
<1>4. GoodGraph(y.graph) /\ Indexed(y.graph)
  BY <1>2, GoodGraphIs DEF GoodDb
<1>5. next = Counters(next.node, next.rel) /\ next.node \in Nat /\ next.rel \in Nat /\ next.rel > 0
  <2>1. GoodGraph(before.graph)
    BY <1>1 DEF GoodDb
  <2>2. Indexed(before.graph) /\ next.node \in Nat /\ next.rel \in Nat /\ next.rel > 0
    BY <1>1, <2>1, GoodGraphIs
  <2>3. next = Counters(next.node, next.rel)
    BY <1>1, <2>2, IndexedIs, PartsAre
  <2> QED BY <2>2, <2>3
<1>6. GoodGraph(g)
  BY <1>4, <1>5, ResetGood
<1>7. g = [y.graph EXCEPT !.next = next]
  BY DEF ResetNextIds
<1> HIDE DEF g, next
<1>8. g.next = next /\ g.nodes = y.graph.nodes /\ g.rels = y.graph.rels /\ SameSlots(g, y.graph)
  BY <1>4, <1>7, IndexedIs DEF Parts, SameSlots
<1>9. /\ GoodDb(d) /\ SameNames(d, y)
      /\ FactsOf(d) = Facts(g.nodes, g.rels, DOMAIN y.graph.uniques, DOMAIN y.graph.ranges,
          y.history)
  BY <1>2, <1>3, <1>6, <1>8, GraphUndone
<1>10. FactsOf(d) = FactsOf(y)
  BY <1>8, <1>9 DEF FactsOf
<1>11. d.graph = g
  BY <1>2, <1>3, DbGraph DEF GoodDb
<1> QED BY <1>1, <1>2, <1>8, <1>9, <1>10, <1>11 DEF SameNames

\* A failure leaves what the statement found.
LEMMA FailKeeps == ASSUME JournalInv, Fail PROVE JournalInv'
<1> DEFINE d == RollBack(db, journal)
<1>1. journal.open /\ db' = d /\ journal' = NoJournal /\ before' = before
  BY DEF Fail
<1>2. /\ GoodDb(d) /\ SameNames(d, before) /\ d.graph.next = before.graph.next
      /\ ~EarlyDeletes => FactsOf(d) = FactsOf(before)
  BY <1>1, RolledBack
<1> HIDE DEF d
<1>3. GoodDb(before) /\ (~EarlyDeletes => Grounded(before))
  BY DEF JournalInv
<1>4. ASSUME ~EarlyDeletes PROVE Grounded(d) /\ Whole(d) = Whole(before)
  <2>1. FactsOf(d) = FactsOf(before)
    BY <1>2, <1>4
  <2>2. d.graph.nodes = before.graph.nodes /\ d.graph.rels = before.graph.rels
    BY <2>1, FactsOfAre
  <2>3. d.mirrors = before.mirrors
    BY <1>2 DEF SameNames
  <2>4. Grounded(d)
    BY <1>2, <1>3, <1>4, <2>2, <2>3, GroundedSame
  <2>5. Whole(d) = Whole(before)
    BY <1>2, <1>3, <2>1, WholeIs
  <2> QED BY <2>4, <2>5
<1>5. ~EarlyDeletes => FailureLeavesNoTrace'
  BY <1>1, <1>4 DEF FailureLeavesNoTrace, Whole, Seen
<1>6. ~journal'.open
  BY <1>1 DEF NoJournal
<1>7. GoodDb(db') /\ GoodDb(before')
  BY <1>1, <1>2, <1>3
<1>8. ~EarlyDeletes => Grounded(db)' /\ Grounded(before)'
  BY <1>1, <1>3, <1>4
<1> QED BY <1>5, <1>6, <1>7, <1>8 DEF JournalInv

\* A statement that ends well keeps the invariant.
LEMMA ClosedKeeps ==
  ASSUME JournalInv, GoodDb(db'), ~EarlyDeletes => Grounded(db'), before' = before,
         journal' = NoJournal, result' = "ok"
  PROVE  JournalInv'
<1>1. ~journal'.open
  BY DEF NoJournal
<1>2. FailureLeavesNoTrace'
  BY DEF FailureLeavesNoTrace
<1>3. GoodDb(before') /\ (~EarlyDeletes => Grounded(before)')
  BY DEF JournalInv
<1> QED BY <1>1, <1>2, <1>3 DEF JournalInv

\* A commit publishes identities and a version, and changes nothing else.
LEMMA PublishIs ==
  ASSUME NEW d, IsDb(d), NEW op, NEW e, e = Publish(d, op)
  PROVE  IsDb(e) /\ e.graph = d.graph /\ e.history = d.history /\ e.mirrors = d.mirrors
BY DEF Publish, IsDb

\* An accepted statement keeps the invariant.
LEMMA AcceptedKeeps == ASSUME JournalInv, Accepted PROVE JournalInv'
<1> DEFINE op == Record(db, journal.ops)
           e == Publish(db, op)
<1>1. db' = e /\ before' = before /\ journal' = NoJournal /\ result' = "ok"
  BY DEF Accepted
<1>2. GoodDb(db) /\ (~EarlyDeletes => Grounded(db))
  BY DEF JournalInv
<1> HIDE DEF op
<1>3. IsDb(e) /\ e.graph = db.graph /\ e.history = db.history /\ e.mirrors = db.mirrors
  BY <1>2, PublishIs DEF GoodDb
<1> HIDE DEF e
<1>4. GoodDb(e)
  BY <1>2, <1>3 DEF GoodDb
<1>5. ~EarlyDeletes => Grounded(e)
  BY <1>2, <1>3, GroundedGraph
<1> QED BY <1>1, <1>4, <1>5, ClosedKeeps

\* So does one that wrote nothing.
LEMMA ReadOnlyKeeps == ASSUME JournalInv, ReadOnly PROVE JournalInv'
<1>1. db' = db /\ before' = before /\ journal' = NoJournal /\ result' = "ok"
  BY DEF ReadOnly
<1>2. GoodDb(db) /\ (~EarlyDeletes => Grounded(db))
  BY DEF JournalInv
<1> QED BY <1>1, <1>2, ClosedKeeps

\* And a step that changes nothing.
LEMMA StutterKeeps == ASSUME JournalInv, UNCHANGED vars PROVE JournalInv'
BY DEF JournalInv, vars, Open, FailureLeavesNoTrace, Whole, Seen

-----------------------------------------------------------------------------
(* The first database.                                                      *)
\* The empty function.
LEMMA EmptyFcn ==
  /\ IsFcn(<<>>) /\ DOMAIN <<>> = {} /\ GoodProps(<<>>)
<1>1. <<>> = [i \in {} |-> <<>>[i]] /\ DOMAIN <<>> = {}
  OBVIOUS
<1> QED BY <1>1 DEF IsFcn, GoodProps

\* There is one function without keys.
LEMMA NoKeys == ASSUME NEW f, IsFcn(f), DOMAIN f = {} PROVE f = <<>>
BY EmptyFcn, SameFcn

\* An empty graph is indexed.
LEMMA EmptyGraphGood ==
  /\ GoodGraph(EmptyGraph) /\ EmptyGraph.nodes = <<>> /\ EmptyGraph.rels = <<>> /\ EmptyGraph.next
      = Counters(1, 1)
<1> DEFINE g == EmptyGraph
<1>1. /\ g.nodes = <<>> /\ g.rels = <<>> /\ g.adjacency = <<>> /\ g.labels = <<>> /\ g.uniques
         = <<>>
      /\ g.ranges = <<>> /\ g.next = Counters(1, 1)
      /\ Parts(g, g.nodes, g.rels, g.next, g.adjacency, g.labels, g.uniques, g.ranges)
  BY DEF EmptyGraph, NoNodes, Parts, Counters
<1> HIDE DEF g
<1>2. EdgesIn(<<>>) = <<>>
  <2>1. IsFcn(EdgesIn(<<>>)) /\ DOMAIN EdgesIn(<<>>) = {}
    BY EmptyFcn DEF EdgesIn, Touched, IsFcn
  <2> QED BY <2>1, NoKeys
<1>3. LabelsIn(<<>>, {}) = <<>>
  <2>1. IsFcn(LabelsIn(<<>>, {})) /\ DOMAIN LabelsIn(<<>>, {}) = {}
    BY DEF LabelsIn, IsFcn
  <2> QED BY <2>1, NoKeys
<1>4. UniquesIn(<<>>, {}) = <<>>
  <2>1. IsFcn(UniquesIn(<<>>, {})) /\ DOMAIN UniquesIn(<<>>, {}) = {}
    BY DEF UniquesIn, IsFcn
  <2> QED BY <2>1, NoKeys
<1>5. RangesIn(<<>>, {}) = <<>>
  <2>1. IsFcn(RangesIn(<<>>, {})) /\ DOMAIN RangesIn(<<>>, {}) = {}
    BY DEF RangesIn, IsFcn
  <2> QED BY <2>1, NoKeys
<1>6. Parts(g, g.nodes, g.rels, Counters(1, 1), EdgesIn(g.rels), LabelsIn(g.nodes, DOMAIN g.labels),
            UniquesIn(g.nodes, DOMAIN g.uniques), RangesIn(g.nodes, DOMAIN g.ranges))
  BY <1>1, <1>2, <1>3, <1>4, <1>5, EmptyFcn
<1>7. g.next.node = 1 /\ g.next.rel = 1
  BY <1>1, CountersAre
<1>8. Indexed(g)
  BY <1>1, <1>6, <1>7, EmptyFcn DEF Indexed, LabelsKnown
<1>9. DOMAIN g.rels \subseteq 1 .. 0
  BY <1>1, EmptyFcn
<1>10. GoodGraph(g)
  BY <1>1, <1>7, <1>8, <1>9, EmptyFcn DEF GoodGraph
<1> QED BY <1>1, <1>10 DEF g

\* An empty database is good.
LEMMA EmptyGood ==
  /\ GoodDb(Empty) /\ Empty.graph = EmptyGraph /\ Empty.mirrors = <<>>
<1>1. IsDb(Empty) /\ Empty.graph = EmptyGraph /\ Empty.mirrors = <<>> /\ Empty.history = NoHistories
  BY DEF Empty, IsDb
<1>2. /\ NoHistories.fields = <<>> /\ NoHistories.rels = <<>>
      /\ NoHistories.appears = <<>> /\ NoHistories.ends = <<>>
      /\ Sections(NoHistories, <<>>, <<>>, <<>>, <<>>)
  BY DEF NoHistories, Sections
<1>3. IsHistory(NoHistories)
  BY <1>2, EmptyFcn DEF IsHistory
<1>4. DOMAIN NoHistories.rels \subseteq 1 .. 0
  BY <1>2, EmptyFcn
<1>5. GoodFields(NoHistories.fields) /\ GoodEdges(NoHistories.rels)
  BY <1>2, <1>4, EmptyFcn DEF GoodFields, GoodEdges
<1> QED BY <1>1, <1>3, <1>5, EmptyGraphGood DEF GoodDb

\* And grounded.
LEMMA EmptyGrounded == ~EarlyDeletes => Grounded(Empty)
<1>1. /\ Empty.graph.nodes = <<>> /\ Empty.graph.rels = <<>> /\ Empty.mirrors = <<>>
  BY EmptyGood, EmptyGraphGood
<1> HIDE DEF Empty
<1> QED BY <1>1, EmptyFcn DEF Grounded

-----------------------------------------------------------------------------
\* The graph a link leaves is indexed, and its ids were handed out.
LEMMA MirrorGraph ==
  ASSUME NEW edge, edge.from = 1, edge.to = 2, NEW new,
         new = RestoreRelationship(RestoreNode(RestoreNode(EmptyGraph, 1, MirrorNode), 2,
             MirrorNode), 1, edge)
  PROVE  /\ GoodGraph(new) /\ new.rels = Put(<<>>, 1, edge)
         /\ new.nodes = Put(Put(<<>>, 1, MirrorNode), 2, MirrorNode)
         /\ new.next.node \in Nat /\ new.next.rel \in Nat /\ new.next.node > 2 /\ new.next.rel > 1
<1> DEFINE a == RestoreNode(EmptyGraph, 1, MirrorNode)
           b == RestoreNode(a, 2, MirrorNode)
<1>1. GoodNode(MirrorNode)
  BY EmptyFcn DEF MirrorNode, GoodNode, IsNode
<1>2. GoodGraph(EmptyGraph) /\ EmptyGraph.nodes = <<>> /\ EmptyGraph.rels = <<>> /\ EmptyGraph.next
      = Counters(1, 1)
  BY EmptyGraphGood
<1>3. GoodGraph(a) /\ a.nodes = Put(<<>>, 1, MirrorNode) /\ a.rels = <<>> /\ a.next
      = Counters(Later(1, 1), 1)
  BY <1>1, <1>2, RestoreNodeGood, RestoreNodeIs, GoodGraphIs, CountersAre
<1> HIDE DEF a
<1>4. GoodGraph(b) /\ b.nodes = Put(a.nodes, 2, MirrorNode) /\ b.rels = <<>>
      /\ b.next = Counters(Later(a.next.node, 2), 1)
  <2>1. Indexed(a) /\ a.next.rel = 1
    BY <1>3, GoodGraphIs, CountersAre
  <2>2. GoodGraph(b)
    BY <1>1, <1>3, RestoreNodeGood
  <2> QED BY <1>3, <2>1, <2>2, RestoreNodeIs
<1>5. new = RestoreRelationship(b, 1, edge)
  BY DEF a
<1> HIDE DEF b
<1>6. GoodGraph(new) /\ new.rels = Put(<<>>, 1, edge) /\ new.nodes = b.nodes
      /\ new.next = Counters(b.next.node, Later(1, 1))
  BY <1>4, <1>5, RestoreRelationshipGood, RestoreRelationshipIs, GoodGraphIs, CountersAre
<1>7. Later(1, 1) \in Nat /\ Later(1, 1) > 1 /\ a.next.node \in Nat
  BY <1>3, LaterIs, GoodGraphIs
<1>8. Later(a.next.node, 2) \in Nat /\ Later(a.next.node, 2) > 2
  BY <1>7, LaterIs
<1> QED BY <1>3, <1>4, <1>6, <1>7, <1>8, CountersAre

\* The database a link leaves is good and grounded.
LEMMA WithMirrorGood == GoodDb(WithMirror) /\ (~EarlyDeletes => Grounded(WithMirror))
<1> DEFINE edge == [kind |-> CHOOSE k \in Kinds : TRUE, from |-> 1, to |-> 2]
           new == RestoreRelationship(RestoreNode(RestoreNode(EmptyGraph, 1, MirrorNode), 2,
               MirrorNode), 1, edge)
           mirrors == [m \in {1, 2} |-> IF m = 1 THEN {1} ELSE {}]
           d == WithMirror
<1>1. d = [Empty EXCEPT !.graph = new, !.mirrors = mirrors]
  BY DEF WithMirror
<1>2. edge.from = 1 /\ edge.to = 2
  OBVIOUS
<1>3. DOMAIN mirrors = {1, 2} /\ mirrors[1] = {1} /\ mirrors[2] = {}
  OBVIOUS
<1> HIDE DEF edge, mirrors
<1>4. /\ GoodGraph(new) /\ new.rels = Put(<<>>, 1, edge)
      /\ new.nodes = Put(Put(<<>>, 1, MirrorNode), 2, MirrorNode)
      /\ new.next.node \in Nat /\ new.next.rel \in Nat /\ new.next.node > 2 /\ new.next.rel > 1
  BY <1>2, MirrorGraph
<1> HIDE DEF new, d
<1>5. IsDb(d) /\ d.graph = new /\ d.history = Empty.history /\ d.mirrors = mirrors
  BY <1>1, EmptyGood DEF GoodDb, IsDb
<1>6. GoodDb(d)
  BY <1>4, <1>5, EmptyGood DEF GoodDb
<1>7. DOMAIN new.nodes = {1, 2}
  BY <1>4, EmptyFcn DEF Put
<1>8. DOMAIN new.rels = {1} /\ new.rels[1] = edge
  BY <1>4, EmptyFcn DEF Put
<1>9. ~EarlyDeletes => Grounded(d)
  BY <1>2, <1>3, <1>4, <1>5, <1>7, <1>8 DEF Grounded
<1> QED BY <1>6, <1>9 DEF d

\* A first statement finds a database the invariant holds for.
LEMMA InitKeeps == ASSUME Init PROVE JournalInv
<1>1. GoodDb(db) /\ (~EarlyDeletes => Grounded(db)) /\ before = db
  BY EmptyGood, EmptyGrounded, WithMirrorGood DEF Init
<1>2. ~journal.open
  BY DEF Init, NoJournal
<1>3. FailureLeavesNoTrace
  BY DEF Init, FailureLeavesNoTrace
<1> QED BY <1>1, <1>2, <1>3 DEF JournalInv

\* Every step keeps the invariant.
LEMMA NextKeeps == ASSUME JournalInv, [Next]_vars PROVE JournalInv'
BY BeginKeeps, BeginCallKeeps, InsertKeeps, SetKeeps, ConnectKeeps, DisconnectKeeps, DeleteKeeps,
    FailKeeps,
   AcceptedKeeps, ReadOnlyKeeps, StutterKeeps DEF Next

\* The invariant holds: an open statement's undo list leads back, note by note,
\* from the database to what the statement found (journal.rs:55-56), and every
\* index and adjacency entry says what the nodes and relationships say.
THEOREM JournalInvariant == Spec => []JournalInv
<1>1. Init => JournalInv
  BY InitKeeps
<1>2. JournalInv /\ [Next]_vars => JournalInv'
  BY NextKeeps
<1> QED BY <1>1, <1>2, PTL DEF Spec

\* On any error the database is exactly what it was before the call
\* (journal.rs:55-56), if no node is deleted before one of its edges began: then
\* delete_relationship refuses the edge, delete_node deletes it with the node
\* all the same, and roll_back does not bring it back (journal_early_delete).
THEOREM FailuresLeaveNoTrace == ~EarlyDeletes => (Spec => []FailureLeavesNoTrace)
<1>1. ~EarlyDeletes /\ JournalInv => FailureLeavesNoTrace
  BY DEF JournalInv
<1> SUFFICES ASSUME ~EarlyDeletes PROVE Spec => []FailureLeavesNoTrace
  OBVIOUS
<1>2. JournalInv => FailureLeavesNoTrace
  BY <1>1
<1> QED BY <1>2, JournalInvariant, PTL

-----------------------------------------------------------------------------
\* unique_matches finds the nodes that a scan finds.
LEMMA UniqueFinds ==
  ASSUME NEW g, GoodGraph(g), NEW slot \in DOMAIN g.uniques, NEW v
  PROVE  UniqueMatches(g, slot, v) = {id \in Filed(g.nodes, slot) : g.nodes[id].props[slot[2]] = v}
<1>1. g.uniques = UniquesIn(g.nodes, DOMAIN g.uniques)
  BY GoodGraphIs, IndexedIs, PartsAre
<1>2. g.uniques[slot] = UniqueOf(g.nodes, slot)
  BY <1>1 DEF UniquesIn
<1> DEFINE among == {entry[2] : entry \in {e \in g.uniques[slot] : e[1] = Hash(v)}}
<1>3. \A id \in Filed(g.nodes, slot) : g.nodes[id].props[slot[2]] = v => id \in among
  <2> SUFFICES ASSUME NEW id \in Filed(g.nodes, slot), g.nodes[id].props[slot[2]] = v
               PROVE  id \in among
    OBVIOUS
  <2>1. <<Hash(v), id>> \in g.uniques[slot]
    BY <1>2 DEF UniqueOf, Key
  <2> QED BY <2>1
<1> HIDE DEF among
<1>4. UniqueMatches(g, slot, v)
        = {id \in among \cap DOMAIN g.nodes : Files(slot, g.nodes[id])
            /\ g.nodes[id].props[slot[2]] = v}
  BY DEF UniqueMatches, among
<1> QED BY <1>3, <1>4 DEF Filed

\* range_candidates finds the nodes that a scan finds.
LEMMA RangeFinds ==
  ASSUME NEW g, GoodGraph(g), NEW slot \in DOMAIN g.ranges, NEW low, NEW high
  PROVE  RangeCandidates(g, {slot[1]}, slot[2], low, high)
           = {id \in Filed(g.nodes, slot) : low <= Key(g.nodes, slot, id)
               /\ Key(g.nodes, slot, id) <= high}
<1>1. g.ranges = RangesIn(g.nodes, DOMAIN g.ranges) /\ slot = <<slot[1], slot[2]>>
  BY GoodGraphIs, IndexedIs, PartsAre
<1>2. g.ranges[slot] = RangeOf(g.nodes, slot)
  BY <1>1 DEF RangesIn
<1> DEFINE tree == g.ranges[slot]
           keys == {k \in DOMAIN tree : low <= k /\ k <= high}
           found == UNION {tree[k] : k \in keys}
<1>3. RangeCandidates(g, {slot[1]}, slot[2], low, high) = found
  <2> DEFINE of(type) == UNION {g.ranges[<<type, slot[2]>>][key] :
                           key \in {k \in DOMAIN g.ranges[<<type, slot[2]>>] : low <= k
                               /\ k <= high}}
  <2>1. RangeCandidates(g, {slot[1]}, slot[2], low, high) =
          UNION {of(type) : type \in {slot[1]}}
    BY DEF RangeCandidates
  <2>2. of(slot[1]) = found
    BY <1>1
  <2> HIDE DEF of, found
  <2>3. UNION {of(type) : type \in {slot[1]}} = of(slot[1])
    OBVIOUS
  <2> QED BY <2>1, <2>2, <2>3
<1>4. \A k : k \in DOMAIN tree <=> \E id \in Filed(g.nodes, slot) : Key(g.nodes, slot, id) = k
  BY <1>2 DEF RangeOf
<1>5. \A k \in DOMAIN tree : tree[k] = {id \in Filed(g.nodes, slot) : Key(g.nodes, slot, id) = k}
  BY <1>2 DEF RangeOf
<1> HIDE DEF tree
<1>6. found = {id \in Filed(g.nodes, slot) : low <= Key(g.nodes, slot, id)
      /\ Key(g.nodes, slot, id) <= high}
  BY <1>4, <1>5
<1> QED BY <1>3, <1>6

\* The adjacency of a node is what a scan of the relationships finds.
LEMMA AdjacencyFinds ==
  ASSUME NEW g, GoodGraph(g), NEW id
  PROVE  Adjacent(g, id) = [out |-> {r \in DOMAIN g.rels : g.rels[r].from = id},
                            inc |-> {r \in DOMAIN g.rels : g.rels[r].to = id}]
<1>1. g.adjacency = EdgesIn(g.rels)
  BY GoodGraphIs, IndexedIs, PartsAre
<1>2. g.adjacency = EdgesBy(FromOf(g.rels), ToOf(g.rels))
  BY <1>1, EdgesInIs
<1>3. Adjacent(g, id) = Edges(Side(FromOf(g.rels), id), Side(ToOf(g.rels), id))
  BY <1>2, AdjacentIs
<1>4. /\ Side(FromOf(g.rels), id) = {r \in DOMAIN g.rels : g.rels[r].from = id}
      /\ Side(ToOf(g.rels), id) = {r \in DOMAIN g.rels : g.rels[r].to = id}
  BY DEF Side, FromOf, ToOf
<1> QED BY <1>3, <1>4 DEF Edges

\* In a good graph every lookup finds what a scan finds.
LEMMA LookupsFind == ASSUME GoodGraph(db.graph) PROVE LookupsMatchScan
<1> DEFINE g == db.graph
           having(slot, values) ==
             {id \in DOMAIN g.nodes : /\ slot[1] \in g.nodes[id].labels
                                      /\ slot[2] \in DOMAIN g.nodes[id].props
                                      /\ g.nodes[id].props[slot[2]] \in values}
<1>1. \A slot, values : having(slot, values)
      = {id \in Filed(g.nodes, slot) : Key(g.nodes, slot, id) \in values}
  BY DEF Filed, Files, Key
<1>2. ASSUME NEW slot \in DOMAIN g.uniques, NEW v \in Values
      PROVE  UniqueMatches(g, slot, v) = having(slot, {v})
  BY <1>1, UniqueFinds DEF Key
<1>3. \A id \in DOMAIN g.nodes : \A slot : id \in Filed(g.nodes, slot)
      => Key(g.nodes, slot, id) \in Nat
  BY GoodGraphIs DEF GoodNode, GoodProps, Filed, Files, Key
<1>4. Values \subseteq Nat
  BY InputsGood DEF Values, GoodNode, GoodProps
<1>5. ASSUME NEW slot \in DOMAIN g.ranges, NEW low \in Values, NEW high \in Values
      PROVE  RangeCandidates(g, {slot[1]}, slot[2], low, high) = having(slot, low .. high)
  <2>1. low \in Nat /\ high \in Nat
    BY <1>4
  <2>2. RangeCandidates(g, {slot[1]}, slot[2], low, high)
          = {id \in Filed(g.nodes, slot) : low <= Key(g.nodes, slot, id)
              /\ Key(g.nodes, slot, id) <= high}
    BY RangeFinds
  <2>3. \A id \in Filed(g.nodes, slot) :
          Key(g.nodes, slot, id) \in low .. high <=> low <= Key(g.nodes, slot, id)
              /\ Key(g.nodes, slot, id) <= high
    <3>1. \A id \in Filed(g.nodes, slot) : Key(g.nodes, slot, id) \in Nat
      BY <1>3 DEF Filed
    <3> QED BY <2>1, <3>1
  <2>4. having(slot, low .. high)
        = {id \in Filed(g.nodes, slot) : Key(g.nodes, slot, id) \in low .. high}
    <3>1. PICK values : values = low .. high
      OBVIOUS
    <3>2. having(slot, values) = {id \in Filed(g.nodes, slot) : Key(g.nodes, slot, id) \in values}
      BY <1>1
    <3> QED BY <3>1, <3>2
  <2> QED BY <2>2, <2>3, <2>4
<1>6. ASSUME NEW l \in DOMAIN g.labels
      PROVE g.labels[l] = {id \in DOMAIN g.nodes : l \in g.nodes[id].labels}
  <2>1. g.labels = LabelsIn(g.nodes, DOMAIN g.labels)
    BY GoodGraphIs, IndexedIs, PartsAre
  <2> QED BY <2>1 DEF LabelsIn, LabelOf
<1>7. \A id : Adjacent(g, id) = [out |-> {r \in DOMAIN g.rels : g.rels[r].from = id},
                                 inc |-> {r \in DOMAIN g.rels : g.rels[r].to = id}]
  BY AdjacencyFinds
<1> QED BY <1>2, <1>5, <1>6, <1>7, Zenon DEF LookupsMatchScan

\* In the middle of any statement, and after one was rolled back, lookups through
\* an index and through adjacency find what a scan of the nodes and relationships
\* finds (graph/mod.rs).
THEOREM LookupsMatch == Spec => []LookupsMatchScan
<1>1. JournalInv => LookupsMatchScan
  BY LookupsFind DEF JournalInv, GoodDb
<1> QED BY <1>1, JournalInvariant, PTL
=============================================================================

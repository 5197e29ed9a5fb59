-------------------------------- MODULE Graph -------------------------------
(***************************************************************************)
(* The graph in memory (zega/src/graph/mod.rs): nodes and relationships by *)
(* id, the adjacency of each node, the indexes (labels, `unique` fields,   *)
(* `range` fields) and the id counters.  A graph is a record; every        *)
(* operation of the code is an operator from a graph to a graph.           *)
(*                                                                         *)
(* Interned names and shapes are the names themselves.  Of the property    *)
(* indexes, the spatial and the vector index follow the same two calls     *)
(* (add_prop_indexes, remove_prop_indexes) and are left out.  A unique     *)
(* index holds no value: it files an id under the hash of the value.       *)
(***************************************************************************)
EXTENDS Naturals, FiniteSets, FiniteSetsExt, Functions

CONSTANT Buckets    \* hashes a value may have in a unique index
ASSUME BucketsAssumption == Buckets \in Nat \ {0}

Put(f, key, value) == [k \in DOMAIN f \cup {key} |-> IF k = key THEN value ELSE f[k]]
Over(f, more) ==
  [k \in DOMAIN f \cup DOMAIN more |-> IF k \in DOMAIN more THEN more[k] ELSE f[k]]
Drop(f, keys) == Restrict(f, DOMAIN f \ keys)

\* A loop over ids, in their order.
Each(Op(_, _), x, ids) ==
  LET done[n \in 0 .. Max({0} \cup ids)] ==
        IF n = 0 THEN x ELSE IF n \in ids THEN Op(done[n - 1], n) ELSE done[n - 1]
  IN done[Max({0} \cup ids)]

NoNodes == <<>>
NoEdges == [out |-> {}, inc |-> {}]
EmptyGraph == [nodes |-> NoNodes, rels |-> NoNodes, adjacency |-> NoNodes,
               labels |-> NoNodes, uniques |-> NoNodes, ranges |-> NoNodes,
               next |-> [node |-> 1, rel |-> 1]]

-----------------------------------------------------------------------------
(* The property indexes.  A slot is a <<type, field>>.                     *)

Hash(value) == value % Buckets

Files(slot, node) == slot[1] \in node.labels /\ slot[2] \in DOMAIN node.props

UniqueInsert(slots, id, node) ==
  [s \in DOMAIN slots |->
     slots[s] \cup IF Files(s, node) THEN {<<Hash(node.props[s[2]]), id>>} ELSE {}]

UniqueRemove(slots, id, node) ==
  [s \in DOMAIN slots |->
     slots[s] \ IF Files(s, node) THEN {<<Hash(node.props[s[2]]), id>>} ELSE {}]

IdsUnder(tree, key) == IF key \in DOMAIN tree THEN tree[key] ELSE {}

RangeInsert(slots, id, node) ==
  [s \in DOMAIN slots |->
     IF ~Files(s, node) THEN slots[s]
     ELSE LET key == node.props[s[2]]
          IN Put(slots[s], key, IdsUnder(slots[s], key) \cup {id})]

\* A key whose last id goes is removed from the tree.
RangeRemove(slots, id, node) ==
  [s \in DOMAIN slots |->
     IF ~Files(s, node) THEN slots[s]
     ELSE LET key  == node.props[s[2]]
              left == IdsUnder(slots[s], key) \ {id}
          IN IF left = {} THEN Drop(slots[s], {key}) ELSE Put(slots[s], key, left)]

AddPropIndexes(g, id) ==
  [g EXCEPT !.uniques = UniqueInsert(@, id, g.nodes[id]),
            !.ranges  = RangeInsert(@, id, g.nodes[id])]

RemovePropIndexes(g, id, node) ==
  [g EXCEPT !.uniques = UniqueRemove(@, id, node), !.ranges = RangeRemove(@, id, node)]

Labelled(g, label) == IdsUnder(g.labels, label)

\* The set of a label stays when its last id goes.
RemoveNodeIndexes(g, id, node) ==
  [RemovePropIndexes(g, id, node) EXCEPT
     !.labels = [l \in DOMAIN @ |-> IF l \in node.labels THEN @[l] \ {id} ELSE @[l]]]

AddLabels(g, id, labels) ==
  [g EXCEPT !.labels = [l \in DOMAIN @ \cup labels |->
     Labelled(g, l) \cup IF l \in labels THEN {id} ELSE {}]]

\* A new index is filled from the nodes that carry its type; one the schema
\* no longer declares is dropped.
FilledUnique(g, slot) ==
  {<<Hash(g.nodes[id].props[slot[2]]), id>> :
     id \in {n \in Labelled(g, slot[1]) \cap DOMAIN g.nodes : Files(slot, g.nodes[n])}}
FilledRange(g, slot) ==
  LET filed  == {id \in Labelled(g, slot[1]) \cap DOMAIN g.nodes : Files(slot, g.nodes[id])}
      key(id) == g.nodes[id].props[slot[2]]
  IN [k \in {key(id) : id \in filed} |-> {id \in filed : key(id) = k}]

SyncUniques(g, slots) ==
  [g EXCEPT !.uniques = [s \in slots |->
     IF s \in DOMAIN @ THEN @[s] ELSE FilledUnique(g, s)]]
SyncIndexes(g, slots) ==
  [g EXCEPT !.ranges = [s \in slots |->
     IF s \in DOMAIN @ THEN @[s] ELSE FilledRange(g, s)]]

-----------------------------------------------------------------------------
(* Relationships.  A node has an adjacency entry while it has one.         *)

Adjacent(g, id) == IF id \in DOMAIN g.adjacency THEN g.adjacency[id] ELSE NoEdges
NodeRelationships(g, id) == Adjacent(g, id).out \cup Adjacent(g, id).inc

WithoutEdge(adjacency, node, side, id) ==
  IF node \notin DOMAIN adjacency THEN adjacency
  ELSE LET left == [adjacency[node] EXCEPT ![side] = @ \ {id}]
       IN IF left = NoEdges THEN Drop(adjacency, {node}) ELSE Put(adjacency, node, left)

RemoveRelationshipIndexes(g, id, rel) ==
  [g EXCEPT !.adjacency =
     WithoutEdge(WithoutEdge(@, rel.from, "out", id), rel.to, "inc", id)]

DeleteRelationship(g, id) ==
  IF id \notin DOMAIN g.rels THEN g
  ELSE RemoveRelationshipIndexes([g EXCEPT !.rels = Drop(@, {id})], id, g.rels[id])

WithEdge(g, node, side, id) ==
  [g EXCEPT !.adjacency = Put(@, node, [Adjacent(g, node) EXCEPT ![side] = @ \cup {id}])]

RestoreRelationship(g, id, rel) ==
  LET known  == IF id \in DOMAIN g.rels THEN RemoveRelationshipIndexes(g, id, g.rels[id]) ELSE g
      stored == [known EXCEPT !.rels = Put(@, id, rel)]
      joined == WithEdge(WithEdge(stored, rel.from, "out", id), rel.to, "inc", id)
  IN [joined EXCEPT !.next.rel = Max({@, id + 1})]

CreateRelationship(g, rel) == RestoreRelationship(g, g.next.rel, rel)

-----------------------------------------------------------------------------
(* Nodes.                                                                  *)

RestoreNode(g, id, node) ==
  LET known  == IF id \in DOMAIN g.nodes THEN RemoveNodeIndexes(g, id, g.nodes[id]) ELSE g
      stored == [known EXCEPT !.nodes = Put(@, id, node)]
  IN [AddPropIndexes(AddLabels(stored, id, node.labels), id) EXCEPT
        !.next.node = Max({@, id + 1})]

CreateNode(g, node) == RestoreNode(g, g.next.node, node)

\* Mutant: the node is not taken out from under its old values.
UpdateNodeFiledTwice(g, id, props) ==
  IF id \notin DOMAIN g.nodes THEN g
  ELSE AddPropIndexes([g EXCEPT !.nodes[id].props = Over(@, props)], id)

\* Properties are merged into the stored ones.
UpdateNode(g, id, props) ==
  IF id \notin DOMAIN g.nodes THEN g
  ELSE LET bare == RemovePropIndexes(g, id, g.nodes[id])
       IN AddPropIndexes([bare EXCEPT !.nodes[id].props = Over(@, props)], id)

\* The relationships a node still has go with it.
DeleteNode(g, id) ==
  IF id \notin DOMAIN g.nodes THEN g
  ELSE LET bare == [RemoveNodeIndexes(g, id, g.nodes[id]) EXCEPT
                      !.nodes = Drop(@, {id}), !.adjacency = Drop(@, {id})]
       IN Each(DeleteRelationship, bare, NodeRelationships(g, id))

ResetNextIds(g, next) == [g EXCEPT !.next = next]

-----------------------------------------------------------------------------
(* Lookups.                                                                *)

\* unique_matches: a declared pair answers from the index and checks each
\* candidate's stored value; any other pair scans the nodes of the type.
UniqueMatches(g, slot, value) ==
  LET among == IF slot \in DOMAIN g.uniques
               THEN {entry[2] : entry \in {e \in g.uniques[slot] : e[1] = Hash(value)}}
               ELSE Labelled(g, slot[1])
  IN {id \in among \cap DOMAIN g.nodes :
        Files(slot, g.nodes[id]) /\ g.nodes[id].props[slot[2]] = value}

\* range_candidates, when every type has an index on the field.
RangeCandidates(g, types, field, low, high) ==
  UNION {UNION {g.ranges[<<type, field>>][key] :
                  key \in {k \in DOMAIN g.ranges[<<type, field>>] : low <= k /\ k <= high}} :
           type \in types}
=============================================================================

------------------------- MODULE JournalStepProofs --------------------------
(***************************************************************************)
(* What the operations of Graph do, and what each journal call is made of. *)
(* Every operation of the graph leaves an indexed graph indexed (Indexed): *)
(* its label, unique and range indexes and its adjacency are what a scan   *)
(* of the nodes and relationships finds, loops included (Loop).  Every     *)
(* call of the journal is a chain of steps that each change one thing and  *)
(* note what they replaced (Becomes).                                      *)
(***************************************************************************)
EXTENDS Journal, WellFoundedInduction, TLAPS

-----------------------------------------------------------------------------
(* Functions, and the indexes of a node more or less.                       *)

\* A function, of whatever keys.
IsFcn(f) == f = [x \in DOMAIN f |-> f[x]]

\* What an index holds, by the nodes.
Filed(nodes, slot) == {id \in DOMAIN nodes : Files(slot, nodes[id])}
Key(nodes, slot, id) == nodes[id].props[slot[2]]
UniqueOf(nodes, slot) == {<<Hash(Key(nodes, slot, id)), id>> : id \in Filed(nodes, slot)}
RangeOf(nodes, slot) ==
  [k \in {Key(nodes, slot, id) : id \in Filed(nodes, slot)} |->
     {id \in Filed(nodes, slot) : Key(nodes, slot, id) = k}]

LabelOf(nodes, l) == {id \in DOMAIN nodes : l \in nodes[id].labels}
EdgesOf(rels, n) ==
  [out |-> {r \in DOMAIN rels : rels[r].from = n}, inc |-> {r \in DOMAIN rels : rels[r].to = n}]

Touched(rels) == {rels[r].from : r \in DOMAIN rels} \cup {rels[r].to : r \in DOMAIN rels}

\* All the indexes of one kind.
EdgesIn(rels)        == [n \in Touched(rels) |-> EdgesOf(rels, n)]
LabelsIn(nodes, ls)  == [l \in ls |-> LabelOf(nodes, l)]
UniquesIn(nodes, ss) == [s \in ss |-> UniqueOf(nodes, s)]
RangesIn(nodes, ss)  == [s \in ss |-> RangeOf(nodes, s)]

\* The parts of a graph.
Parts(g, nodes, rels, next, adjacency, labels, uniques, ranges) ==
  g = [nodes |-> nodes, rels |-> rels, next |-> next, adjacency |-> adjacency, labels |-> labels,
       uniques |-> uniques, ranges |-> ranges]

\* The two id counters.
Counters(node, rel) == [node |-> node, rel |-> rel]

\* Every label a node has is an index's.
LabelsKnown(nodes, ls) == \A id \in DOMAIN nodes : \A l \in nodes[id].labels : l \in ls

\* Every index says what a scan does.
Indexed(g) ==
  /\ Parts(g, g.nodes, g.rels, Counters(g.next.node, g.next.rel), EdgesIn(g.rels),
           LabelsIn(g.nodes, DOMAIN g.labels), UniquesIn(g.nodes, DOMAIN g.uniques),
           RangesIn(g.nodes, DOMAIN g.ranges))
  /\ IsFcn(g.nodes) /\ IsFcn(g.rels)
  /\ LabelsKnown(g.nodes, DOMAIN g.labels)

\* Without one key.
Without(f, k) == Drop(f, {k})

\* Put gives one key a value and leaves the others theirs.
LEMMA PutIs ==
  ASSUME NEW f, NEW k, NEW v
  PROVE  /\ \A x : x \in DOMAIN Put(f, k, v) <=> x \in DOMAIN f \/ x = k
         /\ Put(f, k, v)[k] = v /\ \A x \in DOMAIN f : x # k => Put(f, k, v)[x] = f[x]
BY DEF Put

\* Put makes a function.
LEMMA PutFcn == ASSUME NEW f, NEW k, NEW v PROVE IsFcn(Put(f, k, v))
BY DEF Put, IsFcn

\* Drop takes keys away and leaves the others their values.
LEMMA DropIs ==
  ASSUME NEW f, NEW S
  PROVE  /\ \A x : x \in DOMAIN Drop(f, S) <=> x \in DOMAIN f /\ x \notin S
         /\ \A x \in DOMAIN Drop(f, S) : Drop(f, S)[x] = f[x]
BY DEF Drop, Restrict

\* Drop makes a function.
LEMMA DropFcn == ASSUME NEW f, NEW S PROVE IsFcn(Drop(f, S))
BY DEF Drop, Restrict, IsFcn

\* Without takes one key away and leaves the others their values.
LEMMA LessIs ==
  ASSUME NEW f, NEW k
  PROVE  /\ \A x : x \in DOMAIN Without(f, k) <=> x \in DOMAIN f /\ x # k
         /\ \A x \in DOMAIN Without(f, k) : Without(f, k)[x] = f[x]
BY DEF Without, Drop, Restrict

\* Without makes a function.
LEMMA LessFcn == ASSUME NEW f, NEW k PROVE IsFcn(Without(f, k))
BY DEF Without, Drop, Restrict, IsFcn

\* Functions with the same keys and the same values are the same.
LEMMA SameFcn ==
  ASSUME NEW f, NEW h, IsFcn(f), IsFcn(h), DOMAIN f = DOMAIN h, \A x \in DOMAIN f : f[x] = h[x]
  PROVE  f = h
BY DEF IsFcn

\* Putting a key that was just dropped is putting it.
LEMMA PutDropped ==
  ASSUME NEW f, NEW k, NEW v
  PROVE  Put(Without(f, k), k, v) = Put(f, k, v)
<1>1. DOMAIN Put(Without(f, k), k, v) = DOMAIN Put(f, k, v)
  BY PutIs, LessIs
<1>2. ASSUME NEW x \in DOMAIN Put(f, k, v) PROVE Put(Without(f, k), k, v)[x] = Put(f, k, v)[x]
  BY PutIs, LessIs
<1> QED BY <1>1, <1>2, PutFcn, SameFcn

-----------------------------------------------------------------------------
\* unique index, insert: one node more, as a scan finds it.
LEMMA UniqueInserted ==
  ASSUME NEW nodes, NEW id, id \notin DOMAIN nodes, NEW node, NEW s
  PROVE  UniqueOf(Put(nodes, id, node), s)
           = UniqueOf(nodes, s) \cup IF Files(s, node) THEN {<<Hash(node.props[s[2]]), id>>} ELSE {}
<1> DEFINE more == Put(nodes, id, node)
<1>1. DOMAIN more = DOMAIN nodes \cup {id} /\ more[id] = node /\ \A x \in DOMAIN nodes : more[x]
      = nodes[x]
  BY DEF Put
<1> HIDE DEF more
<1>2. Filed(more, s) = Filed(nodes, s) \cup IF Files(s, node) THEN {id} ELSE {}
  BY <1>1 DEF Filed
<1>3. \A x \in Filed(nodes, s) : Key(more, s, x) = Key(nodes, s, x)
  BY <1>1 DEF Key, Filed
<1>4. Key(more, s, id) = node.props[s[2]]
  BY <1>1 DEF Key
<1>5. UniqueOf(more, s)
      = UniqueOf(nodes, s) \cup IF Files(s, node) THEN {<<Hash(node.props[s[2]]), id>>} ELSE {}
  BY <1>2, <1>3, <1>4 DEF UniqueOf
<1> QED BY <1>5 DEF more

\* unique index, remove: one node less.
LEMMA UniqueRemoved ==
  ASSUME NEW nodes, NEW id \in DOMAIN nodes, NEW s
  PROVE  UniqueOf(Without(nodes, id), s)
           = UniqueOf(nodes, s) \ IF Files(s, nodes[id]) THEN {<<Hash(nodes[id].props[s[2]]), id>>}
               ELSE {}
<1> DEFINE less == Without(nodes, id)
<1>1. DOMAIN less = DOMAIN nodes \ {id} /\ \A x \in DOMAIN less : less[x] = nodes[x]
  BY LessIs
<1> HIDE DEF less
<1>2. Filed(less, s) = Filed(nodes, s) \ {id}
  BY <1>1 DEF Filed
<1>3. \A x \in Filed(less, s) : Key(less, s, x) = Key(nodes, s, x)
  BY <1>1 DEF Key, Filed
<1>4. id \in Filed(nodes, s) <=> Files(s, nodes[id])
  BY DEF Filed
<1>5. UniqueOf(less, s)
      = UniqueOf(nodes, s) \ IF Files(s, nodes[id]) THEN {<<Hash(nodes[id].props[s[2]]), id>>}
          ELSE {}
  BY <1>2, <1>3, <1>4 DEF UniqueOf, Key
<1> QED BY <1>5 DEF less

\* A range tree with one id more.
FiledUnder(tree, key, id) == Put(tree, key, IdsUnder(tree, key) \cup {id})

\* range index, insert: one node more.
LEMMA RangeInserted ==
  ASSUME NEW nodes, NEW id, id \notin DOMAIN nodes, NEW node, NEW s
  PROVE  RangeOf(Put(nodes, id, node), s)
           = IF ~Files(s, node) THEN RangeOf(nodes, s)
             ELSE FiledUnder(RangeOf(nodes, s), node.props[s[2]], id)
<1> DEFINE more == Put(nodes, id, node)
           key == node.props[s[2]]
<1>1. DOMAIN more = DOMAIN nodes \cup {id} /\ more[id] = node /\ \A x \in DOMAIN nodes : more[x]
      = nodes[x]
  BY DEF Put
<1> HIDE DEF more
<1>2. Filed(more, s) = Filed(nodes, s) \cup IF Files(s, node) THEN {id} ELSE {}
  BY <1>1 DEF Filed
<1>3. \A x \in Filed(nodes, s) : Key(more, s, x) = Key(nodes, s, x)
  BY <1>1 DEF Key, Filed
<1>4. Key(more, s, id) = key
  BY <1>1 DEF Key
<1>5. CASE ~Files(s, node)
  <2>1. RangeOf(more, s) = RangeOf(nodes, s)
    BY <1>2, <1>3, <1>5 DEF RangeOf
  <2> QED BY <1>5, <2>1 DEF more
<1>6. CASE Files(s, node)
  <2> DEFINE old == RangeOf(nodes, s)
             put == Put(old, key, IdsUnder(old, key) \cup {id})
  <2> HIDE DEF key
  <2>1. Filed(more, s) = Filed(nodes, s) \cup {id} /\ id \notin Filed(nodes, s)
    BY <1>2, <1>6 DEF Filed
  <2>2. /\ DOMAIN old = {Key(nodes, s, x) : x \in Filed(nodes, s)}
        /\ \A k \in DOMAIN old : old[k] = {x \in Filed(nodes, s) : Key(nodes, s, x) = k}
    BY DEF RangeOf
  <2>3. /\ DOMAIN RangeOf(more, s) = {Key(more, s, x) : x \in Filed(more, s)}
        /\ \A k \in DOMAIN RangeOf(more, s) :
             RangeOf(more, s)[k] = {x \in Filed(more, s) : Key(more, s, x) = k}
    BY DEF RangeOf
  <2>4. DOMAIN RangeOf(more, s) = DOMAIN old \cup {key}
    BY <1>3, <1>4, <2>1, <2>2, <2>3
  <2> HIDE DEF old
  <2>5. IdsUnder(old, key) = {x \in Filed(nodes, s) : Key(nodes, s, x) = key}
    BY <2>2 DEF IdsUnder
  <2>6. DOMAIN put = DOMAIN old \cup {key} /\ put[key] = IdsUnder(old, key) \cup {id}
        /\ \A k \in DOMAIN old \ {key} : put[k] = old[k]
    BY DEF Put
  <2>7. ASSUME NEW k \in DOMAIN put PROVE RangeOf(more, s)[k] = put[k]
    <3>1. RangeOf(more, s)[k] = {x \in Filed(more, s) : Key(more, s, x) = k}
      BY <2>3, <2>4, <2>6, <2>7
    <3>2. CASE k = key
      BY <1>3, <1>4, <2>1, <2>5, <2>6, <3>1, <3>2
    <3>3. CASE k # key
      <4>1. k \in DOMAIN old /\ put[k] = old[k]
        BY <2>6, <2>7, <3>3
      <4> QED BY <1>3, <1>4, <2>1, <2>2, <3>1, <3>3, <4>1
    <3> QED BY <3>2, <3>3
  <2>8. RangeOf(more, s) = put
    <3>1. IsFcn(put) /\ IsFcn(RangeOf(more, s))
      BY DEF Put, IsFcn, RangeOf
    <3> HIDE DEF put
    <3> QED BY <2>4, <2>6, <2>7, <3>1, SameFcn
  <2> QED BY <1>6, <2>8 DEF more, key, old, FiledUnder
<1> QED BY <1>5, <1>6

\* range index, remove: one node less, and no empty key stays.
LEMMA RangeRemoved ==
  ASSUME NEW nodes, NEW id \in DOMAIN nodes, NEW s
  PROVE  RangeOf(Without(nodes, id), s)
           = IF ~Files(s, nodes[id]) THEN RangeOf(nodes, s)
             ELSE LET key  == nodes[id].props[s[2]]
                      left == IdsUnder(RangeOf(nodes, s), key) \ {id}
                  IN IF left = {} THEN Drop(RangeOf(nodes, s), {key})
                      ELSE Put(RangeOf(nodes, s), key, left)
<1> DEFINE less == Without(nodes, id)
           key == nodes[id].props[s[2]]
           old == RangeOf(nodes, s)
           left == IdsUnder(old, key) \ {id}
           new == IF left = {} THEN Drop(old, {key}) ELSE Put(old, key, left)
<1>1. DOMAIN less = DOMAIN nodes \ {id} /\ \A x \in DOMAIN less : less[x] = nodes[x]
  BY LessIs
<1> HIDE DEF less
<1>2. Filed(less, s) = Filed(nodes, s) \ {id}
  BY <1>1 DEF Filed
<1>3. \A x \in Filed(less, s) : Key(less, s, x) = Key(nodes, s, x)
  BY <1>1 DEF Key, Filed
<1>4. Key(nodes, s, id) = key
  BY DEF Key
<1>5. CASE ~Files(s, nodes[id])
  <2>1. Filed(less, s) = Filed(nodes, s)
    BY <1>2, <1>5 DEF Filed
  <2>2. RangeOf(less, s) = RangeOf(nodes, s)
    BY <1>3, <2>1 DEF RangeOf
  <2> QED BY <1>5, <2>2 DEF less
<1>6. CASE Files(s, nodes[id])
  <2> HIDE DEF key
  <2>1. id \in Filed(nodes, s)
    BY <1>6 DEF Filed
  <2>2. /\ DOMAIN old = {Key(nodes, s, x) : x \in Filed(nodes, s)}
        /\ \A k \in DOMAIN old : old[k] = {x \in Filed(nodes, s) : Key(nodes, s, x) = k}
    BY DEF RangeOf
  <2>3. /\ DOMAIN RangeOf(less, s) = {Key(less, s, x) : x \in Filed(less, s)}
        /\ \A k \in DOMAIN RangeOf(less, s) :
             RangeOf(less, s)[k] = {x \in Filed(less, s) : Key(less, s, x) = k}
    BY DEF RangeOf
  <2>4. key \in DOMAIN old
    BY <1>4, <2>1, <2>2
  <2> HIDE DEF old
  <2>5. left = {x \in Filed(less, s) : Key(nodes, s, x) = key}
    BY <1>2, <2>2, <2>4 DEF IdsUnder
  <2>6. DOMAIN RangeOf(less, s) = {Key(nodes, s, x) : x \in Filed(less, s)}
    BY <1>3, <2>3
  <2> HIDE DEF left
  <2>7. DOMAIN RangeOf(less, s) = IF left = {} THEN DOMAIN old \ {key} ELSE DOMAIN old
    BY <1>2, <1>4, <2>2, <2>5, <2>6
  <2>8. /\ DOMAIN new = IF left = {} THEN DOMAIN old \ {key} ELSE DOMAIN old
        /\ \A k \in DOMAIN old \ {key} : new[k] = old[k]
        /\ left # {} => new[key] = left
    <3>1. CASE left = {}
      BY <3>1 DEF Drop, Restrict
    <3>2. CASE left # {}
      BY <2>4, <3>2 DEF Put
    <3> QED BY <3>1, <3>2
  <2>9. IsFcn(new) /\ IsFcn(RangeOf(less, s))
    <3>1. IsFcn(new)
      BY PutFcn, DropFcn
    <3>2. IsFcn(RangeOf(less, s))
      BY DEF IsFcn, RangeOf
    <3> QED BY <3>1, <3>2
  <2> HIDE DEF new
  <2>10. ASSUME NEW k \in DOMAIN new PROVE RangeOf(less, s)[k] = new[k]
    <3>1. RangeOf(less, s)[k] = {x \in Filed(less, s) : Key(nodes, s, x) = k}
      BY <1>3, <2>3, <2>7, <2>8, <2>10
    <3>2. CASE k = key
      BY <2>5, <2>8, <3>1, <3>2
    <3>3. CASE k # key
      <4>1. k \in DOMAIN old /\ new[k] = old[k]
        BY <2>8, <2>10, <3>3
      <4> QED BY <1>2, <1>4, <2>2, <3>1, <3>3, <4>1
    <3> QED BY <3>2, <3>3
  <2>11. RangeOf(less, s) = new
    BY <2>7, <2>8, <2>9, <2>10, SameFcn
  <2> QED BY <1>6, <2>11 DEF less, key, old, left, new
<1> QED BY <1>5, <1>6

\* Inserting in all the unique indexes is scanning with the node.
LEMMA UniquesInserted ==
  ASSUME NEW nodes, NEW id, id \notin DOMAIN nodes, NEW node, NEW ss
  PROVE  UniqueInsert(UniquesIn(nodes, ss), id, node) = UniquesIn(Put(nodes, id, node), ss)
BY UniqueInserted DEF UniqueInsert, UniquesIn

\* Removing from all the unique indexes is scanning without the node.
LEMMA UniquesRemoved ==
  ASSUME NEW nodes, NEW id \in DOMAIN nodes, NEW ss
  PROVE  UniqueRemove(UniquesIn(nodes, ss), id, nodes[id]) = UniquesIn(Without(nodes, id), ss)
BY UniqueRemoved DEF UniqueRemove, UniquesIn

\* Inserting in all the range indexes is scanning with the node.
LEMMA RangesInserted ==
  ASSUME NEW nodes, NEW id, id \notin DOMAIN nodes, NEW node, NEW ss
  PROVE  RangeInsert(RangesIn(nodes, ss), id, node) = RangesIn(Put(nodes, id, node), ss)
<1>1. ASSUME NEW s \in ss
      PROVE  RangeInsert(RangesIn(nodes, ss), id, node)[s] = RangeOf(Put(nodes, id, node), s)
  <2>1. RangesIn(nodes, ss)[s] = RangeOf(nodes, s) /\ DOMAIN RangesIn(nodes, ss) = ss
    BY DEF RangesIn
  <2>2. RangeInsert(RangesIn(nodes, ss), id, node)[s]
          = IF ~Files(s, node) THEN RangeOf(nodes, s)
            ELSE FiledUnder(RangeOf(nodes, s), node.props[s[2]], id)
    BY <2>1 DEF RangeInsert, FiledUnder
  <2> QED BY <2>2, RangeInserted
<1>2. DOMAIN RangesIn(nodes, ss) = ss
  BY DEF RangesIn
<1> QED BY <1>1, <1>2 DEF RangeInsert, RangesIn

\* Removing from all the range indexes is scanning without the node.
LEMMA RangesRemoved ==
  ASSUME NEW nodes, NEW id \in DOMAIN nodes, NEW ss
  PROVE  RangeRemove(RangesIn(nodes, ss), id, nodes[id]) = RangesIn(Without(nodes, id), ss)
BY RangeRemoved DEF RangeRemove, RangesIn

\* An opaque union.
Both(S, T) == S \cup T

\* The label index, with the labels of one more node.
LabelsWith(g, id, labels) ==
  [l \in DOMAIN g.labels \cup labels |-> Labelled(g, l) \cup IF l \in labels THEN {id} ELSE {}]

\* The label index with a new node's labels.
LEMMA LabelsAdded ==
  ASSUME NEW g, NEW nodes, NEW id, id \notin DOMAIN nodes, NEW node, NEW ls,
         g.labels = LabelsIn(nodes, ls), LabelsKnown(nodes, ls)
  PROVE  LabelsWith(g, id, node.labels) = LabelsIn(Put(nodes, id, node), Both(ls, node.labels))
<1> DEFINE more == Put(nodes, id, node)
<1>1. DOMAIN more = DOMAIN nodes \cup {id} /\ more[id] = node /\ \A x \in DOMAIN nodes : more[x]
      = nodes[x]
  BY DEF Put
<1> HIDE DEF more
<1>2. \A l : LabelOf(more, l) = LabelOf(nodes, l) \cup IF l \in node.labels THEN {id} ELSE {}
  BY <1>1 DEF LabelOf
<1>3. \A l : Labelled(g, l) = LabelOf(nodes, l)
  BY DEF Labelled, IdsUnder, LabelOf, LabelsIn, LabelsKnown
<1>4. DOMAIN g.labels = ls
  BY DEF LabelsIn
<1> QED BY <1>2, <1>3, <1>4 DEF more, LabelsIn, LabelsWith, Both

\* The label index without a node: the sets of its labels stay, empty or not.
LEMMA LabelsRemoved ==
  ASSUME NEW nodes, NEW id \in DOMAIN nodes, NEW ls, NEW labels, labels = LabelsIn(nodes, ls)
  PROVE  [l \in DOMAIN labels |-> IF l \in nodes[id].labels THEN labels[l] \ {id} ELSE labels[l]]
           = LabelsIn(Without(nodes, id), ls)
<1> DEFINE less == Without(nodes, id)
<1>1. DOMAIN less = DOMAIN nodes \ {id} /\ \A x \in DOMAIN less : less[x] = nodes[x]
  BY LessIs
<1> HIDE DEF less
<1>2. \A l : LabelOf(less, l) = IF l \in nodes[id].labels THEN LabelOf(nodes, l) \ {id}
      ELSE LabelOf(nodes, l)
  BY <1>1 DEF LabelOf
<1> QED BY <1>2 DEF less, LabelsIn

-----------------------------------------------------------------------------
\* A graph whose parts are what a scan says is indexed.
LEMMA Intro ==
  ASSUME NEW g, NEW nodes, NEW rels, NEW node, NEW rel, NEW ls, NEW us, NEW rs,
         Parts(g, nodes, rels, Counters(node, rel), EdgesIn(rels), LabelsIn(nodes, ls),
               UniquesIn(nodes, us), RangesIn(nodes, rs)),
         IsFcn(nodes), IsFcn(rels), LabelsKnown(nodes, ls)
  PROVE  /\ Indexed(g) /\ g.nodes = nodes /\ g.rels = rels /\ g.next = Counters(node, rel)
         /\ DOMAIN g.labels = ls /\ DOMAIN g.uniques = us /\ DOMAIN g.ranges = rs
<1>1. /\ g.nodes = nodes /\ g.rels = rels /\ g.next = Counters(node, rel)
      /\ DOMAIN g.labels = ls /\ DOMAIN g.uniques = us /\ DOMAIN g.ranges = rs
  BY DEF Parts, LabelsIn, UniquesIn, RangesIn
<1>2. g.next.node = node /\ g.next.rel = rel
  BY <1>1 DEF Counters
<1> QED BY <1>1, <1>2 DEF Indexed

\* What the parts of a graph are.
LEMMA PartsAre ==
  ASSUME NEW g, NEW nodes, NEW rels, NEW next, NEW adjacency, NEW labels, NEW uniques, NEW ranges,
         Parts(g, nodes, rels, next, adjacency, labels, uniques, ranges)
  PROVE  /\ g.nodes = nodes /\ g.rels = rels /\ g.next = next /\ g.adjacency = adjacency
         /\ g.labels = labels /\ g.uniques = uniques /\ g.ranges = ranges
BY DEF Parts

-----------------------------------------------------------------------------
(* The indexes of a whole graph, when a node comes, changes or goes.        *)
\* remove_node_indexes
LEMMA RemoveNodeIndexesIs ==
  ASSUME NEW g, NEW nodes, NEW rels, NEW next, NEW adjacency, NEW ls, NEW us, NEW rs,
         NEW id \in DOMAIN nodes,
         Parts(g, nodes, rels, next, adjacency, LabelsIn(nodes, ls), UniquesIn(nodes, us),
             RangesIn(nodes, rs))
  PROVE  Parts(RemoveNodeIndexes(g, id, nodes[id]), nodes, rels, next, adjacency,
               LabelsIn(Without(nodes, id), ls), UniquesIn(Without(nodes, id), us),
                   RangesIn(Without(nodes, id), rs))
<1> DEFINE bare == RemovePropIndexes(g, id, nodes[id])
           left == Without(nodes, id)
<1>1. g.uniques = UniquesIn(nodes, us) /\ g.ranges = RangesIn(nodes, rs)
  BY PartsAre
<1>2. UniqueRemove(g.uniques, id, nodes[id]) = UniquesIn(left, us)
      /\ RangeRemove(g.ranges, id, nodes[id]) = RangesIn(left, rs)
  BY <1>1, UniquesRemoved, RangesRemoved
<1>3. bare = [g EXCEPT !.uniques = UniquesIn(left, us), !.ranges = RangesIn(left, rs)]
  BY <1>2, Zenon DEF RemovePropIndexes
<1>4. Parts(bare, nodes, rels, next, adjacency, LabelsIn(nodes, ls), UniquesIn(left, us),
      RangesIn(left, rs))
  BY <1>3 DEF Parts
<1> HIDE DEF bare
<1>5. bare.labels = LabelsIn(nodes, ls)
  BY <1>4, PartsAre
<1>6. RemoveNodeIndexes(g, id, nodes[id]) = [bare EXCEPT !.labels = LabelsIn(left, ls)]
  <2>1. [l \in DOMAIN bare.labels |-> IF l \in nodes[id].labels THEN bare.labels[l] \ {id}
        ELSE bare.labels[l]]
          = LabelsIn(left, ls)
    BY <1>5, LabelsRemoved
  <2> QED BY <2>1, Zenon DEF RemoveNodeIndexes, bare
<1> QED BY <1>4, <1>6 DEF Parts

\* add_prop_indexes
LEMMA AddPropIndexesIs ==
  ASSUME NEW g, NEW nodes, NEW rels, NEW next, NEW adjacency, NEW labels, NEW us, NEW rs,
         NEW id, id \notin DOMAIN nodes, NEW node,
         Parts(g, Put(nodes, id, node), rels, next, adjacency, labels, UniquesIn(nodes, us),
             RangesIn(nodes, rs))
  PROVE  Parts(AddPropIndexes(g, id), Put(nodes, id, node), rels, next, adjacency, labels,
               UniquesIn(Put(nodes, id, node), us), RangesIn(Put(nodes, id, node), rs))
<1>1. g.nodes = Put(nodes, id, node) /\ g.uniques = UniquesIn(nodes, us) /\ g.ranges
      = RangesIn(nodes, rs)
  BY PartsAre
<1>2. g.nodes[id] = node
  BY <1>1, PutIs
<1>3. UniqueInsert(g.uniques, id, node) = UniquesIn(Put(nodes, id, node), us)
      /\ RangeInsert(g.ranges, id, node) = RangesIn(Put(nodes, id, node), rs)
  BY <1>1, UniquesInserted, RangesInserted
<1>4. AddPropIndexes(g, id) = [g EXCEPT !.uniques = UniquesIn(Put(nodes, id, node), us),
                                        !.ranges = RangesIn(Put(nodes, id, node), rs)]
  BY <1>2, <1>3, Zenon DEF AddPropIndexes
<1> QED BY <1>4 DEF Parts

\* What a graph operation leaves of the indexes: which there are.
SameSlots(new, g) == DOMAIN new.uniques = DOMAIN g.uniques /\ DOMAIN new.ranges = DOMAIN g.ranges

\* What an indexed graph is.
LEMMA IndexedIs ==
  ASSUME NEW g, Indexed(g)
  PROVE  /\ Parts(g, g.nodes, g.rels, Counters(g.next.node, g.next.rel), EdgesIn(g.rels),
                  LabelsIn(g.nodes, DOMAIN g.labels), UniquesIn(g.nodes, DOMAIN g.uniques),
                  RangesIn(g.nodes, DOMAIN g.ranges))
         /\ IsFcn(g.nodes) /\ IsFcn(g.rels) /\ LabelsKnown(g.nodes, DOMAIN g.labels)
BY DEF Indexed

\* Dropping a key that is not there changes nothing.
LEMMA NothingDropped ==
  ASSUME NEW f, IsFcn(f), NEW k, k \notin DOMAIN f
  PROVE  Without(f, k) = f
<1>1. DOMAIN Without(f, k) = DOMAIN f /\ \A x \in DOMAIN f : Without(f, k)[x] = f[x]
  BY LessIs
<1> QED BY <1>1, LessFcn, SameFcn

\* A counter after an id was used.
Later(next, id) == Max({next, id + 1})

\* add_labels, then add_prop_indexes
LEMMA FiledNodeIs ==
  ASSUME NEW g, NEW nodes, NEW rels, NEW next, NEW adjacency, NEW ls, NEW us, NEW rs,
         NEW id, id \notin DOMAIN nodes, NEW node, LabelsKnown(nodes, ls),
         Parts(g, Put(nodes, id, node), rels, next, adjacency, LabelsIn(nodes, ls),
               UniquesIn(nodes, us), RangesIn(nodes, rs))
  PROVE  Parts(AddPropIndexes(AddLabels(g, id, node.labels), id), Put(nodes, id, node), rels, next,
               adjacency, LabelsIn(Put(nodes, id, node), Both(ls, node.labels)),
               UniquesIn(Put(nodes, id, node), us), RangesIn(Put(nodes, id, node), rs))
<1> DEFINE more == Put(nodes, id, node)
           labelled == AddLabels(g, id, node.labels)
<1>1. g.labels = LabelsIn(nodes, ls)
  BY PartsAre
<1>2. LabelsWith(g, id, node.labels) = LabelsIn(more, Both(ls, node.labels))
  BY <1>1, LabelsAdded
<1>3. labelled = [g EXCEPT !.labels = LabelsIn(more, Both(ls, node.labels))]
  BY <1>2, Zenon DEF AddLabels, LabelsWith
<1>4. Parts(labelled, more, rels, next, adjacency, LabelsIn(more, Both(ls, node.labels)),
            UniquesIn(nodes, us), RangesIn(nodes, rs))
  <2> HIDE DEF labelled, more
  <2>1. Parts(g, more, rels, next, adjacency, LabelsIn(nodes, ls),
               UniquesIn(nodes, us), RangesIn(nodes, rs))
    BY DEF more
  <2> QED BY <1>3, <2>1 DEF Parts
<1> QED BY <1>4, AddPropIndexesIs

\* restore_node, over a node with the same id, too
LEMMA RestoreNodeIs ==
  ASSUME NEW g, Indexed(g), NEW id, NEW node, NEW new, new = RestoreNode(g, id, node)
  PROVE  /\ Indexed(new) /\ new.nodes = Put(g.nodes, id, node) /\ new.rels = g.rels
         /\ DOMAIN new.labels = Both(DOMAIN g.labels, node.labels) /\ SameSlots(new, g)
         /\ new.next = Counters(Later(g.next.node, id), g.next.rel)
<1> DEFINE known == IF id \in DOMAIN g.nodes THEN RemoveNodeIndexes(g, id, g.nodes[id]) ELSE g
           left == Without(g.nodes, id)
           more == Put(g.nodes, id, node)
           stored == [known EXCEPT !.nodes = more]
           filed == AddPropIndexes(AddLabels(stored, id, node.labels), id)
           us == DOMAIN g.uniques
           rs == DOMAIN g.ranges
           ls == DOMAIN g.labels
           all == Both(ls, node.labels)
           edges == EdgesIn(g.rels)
           next == Counters(g.next.node, g.next.rel)
<1>0. /\ known.nodes = g.nodes /\ known.next = next
      /\ Parts(known, g.nodes, g.rels, next, edges, LabelsIn(left, ls), UniquesIn(left, us),
          RangesIn(left, rs))
  <2>1. CASE id \in DOMAIN g.nodes
    <3>1. known = RemoveNodeIndexes(g, id, g.nodes[id])
      BY <2>1
    <3> HIDE DEF known
    <3> QED BY <2>1, <3>1, IndexedIs, RemoveNodeIndexesIs, PartsAre
  <2>2. CASE id \notin DOMAIN g.nodes
    <3>1. left = g.nodes
      BY <2>2, NothingDropped, IndexedIs
    <3>2. known = g
      BY <2>2
    <3> HIDE DEF known
    <3> QED BY <3>1, <3>2, IndexedIs, PartsAre
  <2> QED BY <2>1, <2>2
<1>1. new = [filed EXCEPT !.next.node = Later(@, id)]
  BY <1>0, Zenon DEF RestoreNode, Later
<1>2. id \notin DOMAIN left /\ more = Put(left, id, node) /\ LabelsKnown(left, ls)
  <2>1. id \notin DOMAIN left /\ \A n \in DOMAIN left : n \in DOMAIN g.nodes /\ left[n] = g.nodes[n]
      BY LessIs
  <2>2. LabelsKnown(left, ls)
    BY <2>1, IndexedIs DEF LabelsKnown
  <2> QED BY <2>1, <2>2, PutDropped
<1> HIDE DEF known
<1>3. Parts(stored, more, g.rels, next, edges, LabelsIn(left, ls), UniquesIn(left, us),
      RangesIn(left, rs))
  BY <1>0 DEF Parts
<1> HIDE DEF stored
<1>5. Parts(filed, more, g.rels, next, edges, LabelsIn(more, all), UniquesIn(more, us),
      RangesIn(more, rs))
  <2> HIDE DEF left, more
  <2>1. Parts(stored, Put(left, id, node), g.rels, next, edges, LabelsIn(left, ls),
        UniquesIn(left, us), RangesIn(left, rs))
    BY <1>2, <1>3
  <2>2. Parts(filed, Put(left, id, node), g.rels, next, edges, LabelsIn(Put(left, id, node), all),
              UniquesIn(Put(left, id, node), us), RangesIn(Put(left, id, node), rs))
    BY <1>2, <2>1, FiledNodeIs
  <2> QED BY <1>2, <2>2
<1> HIDE DEF filed
<1>6. Parts(new, more, g.rels, Counters(Later(g.next.node, id), g.next.rel), edges,
            LabelsIn(more, all), UniquesIn(more, us), RangesIn(more, rs))
  <2>2. filed.next = next
    BY <1>5, PartsAre
  <2>3. new = [filed EXCEPT !.next = Counters(Later(g.next.node, id), g.next.rel)]
    BY <1>1, <2>2 DEF Counters
  <2> HIDE DEF all, edges, more
  <2> QED BY <1>5, <2>3 DEF Parts
<1>7. IsFcn(more) /\ IsFcn(g.rels)
  BY PutFcn, IndexedIs
<1>8. LabelsKnown(more, all)
  <2>1. LabelsKnown(g.nodes, ls)
    BY IndexedIs
  <2> QED BY <2>1 DEF Put, LabelsKnown, Both
<1> HIDE DEF more, all
<1>9. /\ Indexed(new) /\ new.nodes = more /\ new.rels = g.rels
      /\ new.next = Counters(Later(g.next.node, id), g.next.rel)
      /\ DOMAIN new.labels = all /\ DOMAIN new.uniques = us /\ DOMAIN new.ranges = rs
  BY <1>6, <1>7, <1>8, Intro
<1> QED BY <1>9 DEF SameSlots, more, all

\* A node with some properties changed.
Changed(node, props) == [labels |-> node.labels, props |-> Over(node.props, props)]
IsNode(node) == node = [labels |-> node.labels, props |-> node.props]

\* remove_prop_indexes
LEMMA RemovePropIndexesIs ==
  ASSUME NEW g, NEW nodes, NEW rels, NEW next, NEW adjacency, NEW labels, NEW us, NEW rs,
         NEW id \in DOMAIN nodes,
         Parts(g, nodes, rels, next, adjacency, labels, UniquesIn(nodes, us), RangesIn(nodes, rs))
  PROVE  Parts(RemovePropIndexes(g, id, nodes[id]), nodes, rels, next, adjacency, labels,
               UniquesIn(Without(nodes, id), us), RangesIn(Without(nodes, id), rs))
<1> DEFINE bare == RemovePropIndexes(g, id, nodes[id])
           left == Without(nodes, id)
<1>1. g.uniques = UniquesIn(nodes, us) /\ g.ranges = RangesIn(nodes, rs)
  BY PartsAre
<1>2. UniqueRemove(g.uniques, id, nodes[id]) = UniquesIn(left, us)
      /\ RangeRemove(g.ranges, id, nodes[id]) = RangesIn(left, rs)
  BY <1>1, UniquesRemoved, RangesRemoved
<1>3. bare = [g EXCEPT !.uniques = UniquesIn(left, us), !.ranges = RangesIn(left, rs)]
  BY <1>2, Zenon DEF RemovePropIndexes
<1> QED BY <1>3 DEF Parts

\* update_node
LEMMA UpdateNodeIs ==
  ASSUME NEW g, Indexed(g), NEW id \in DOMAIN g.nodes, IsNode(g.nodes[id]), NEW props,
         NEW new, new = UpdateNode(g, id, props)
  PROVE  /\ Indexed(new) /\ new.nodes = Put(g.nodes, id, Changed(g.nodes[id], props))
         /\ new.rels = g.rels /\ DOMAIN new.labels = DOMAIN g.labels /\ SameSlots(new, g)
         /\ new.next = Counters(g.next.node, g.next.rel)
<1> DEFINE bare == RemovePropIndexes(g, id, g.nodes[id])
           node == Changed(g.nodes[id], props)
           stored == [bare EXCEPT !.nodes[id].props = Over(@, props)]
           left == Without(g.nodes, id)
           more == Put(g.nodes, id, node)
           us == DOMAIN g.uniques
           rs == DOMAIN g.ranges
           ls == DOMAIN g.labels
           edges == EdgesIn(g.rels)
           next == Counters(g.next.node, g.next.rel)
<1>1. Parts(bare, g.nodes, g.rels, next, edges, LabelsIn(g.nodes, ls), UniquesIn(left, us),
      RangesIn(left, rs))
  BY IndexedIs, RemovePropIndexesIs
<1>2. new = AddPropIndexes(stored, id)
  BY Zenon DEF UpdateNode
<1> HIDE DEF bare
<1>3. IsFcn(g.nodes) /\ LabelsKnown(g.nodes, ls)
  BY IndexedIs
<1>4. [g.nodes EXCEPT ![id].props = Over(@, props)] = more
  <2>1. [g.nodes[id] EXCEPT !.props = Over(@, props)] = node
    BY DEF IsNode, Changed
  <2>2. [g.nodes EXCEPT ![id] = node] = more
    BY <1>3 DEF IsFcn, Put
  <2>3. [g.nodes EXCEPT ![id].props = Over(@, props)]
        = [g.nodes EXCEPT ![id] = [g.nodes[id] EXCEPT !.props = Over(@, props)]]
    OBVIOUS
  <2> QED BY <2>1, <2>2, <2>3
<1>5. stored = [bare EXCEPT !.nodes = more]
  <2>1. bare.nodes = g.nodes
    BY <1>1, PartsAre
  <2> HIDE DEF more
  <2>2. [bare EXCEPT !.nodes = [bare.nodes EXCEPT ![id].props = Over(@, props)]]
        = [bare EXCEPT !.nodes = more]
    BY <1>4, <2>1, Zenon
  <2>3. stored = [bare EXCEPT !.nodes = [bare.nodes EXCEPT ![id].props = Over(@, props)]]
    OBVIOUS
  <2> QED BY <2>2, <2>3, Zenon
<1>6. id \notin DOMAIN left /\ more = Put(left, id, node)
  BY LessIs, PutDropped
<1>7. LabelsIn(g.nodes, ls) = LabelsIn(more, ls) /\ LabelsKnown(more, ls)
  <2>1. \A n : n \in DOMAIN more <=> n \in DOMAIN g.nodes
    BY PutIs
  <2>2. \A n \in DOMAIN more : more[n].labels = g.nodes[n].labels
    BY PutIs DEF Changed
  <2> HIDE DEF more
  <2>3. \A l : LabelOf(g.nodes, l) = LabelOf(more, l)
    BY <2>1, <2>2 DEF LabelOf
  <2> QED BY <2>1, <2>2, <2>3, <1>3 DEF LabelsKnown, LabelsIn
<1> HIDE DEF stored, node
<1>8. Parts(stored, more, g.rels, next, edges, LabelsIn(more, ls), UniquesIn(left, us),
      RangesIn(left, rs))
  <2> HIDE DEF more, left, edges, next
  <2> QED BY <1>1, <1>5, <1>7 DEF Parts
<1>9. Parts(new, more, g.rels, next, edges, LabelsIn(more, ls), UniquesIn(more, us),
      RangesIn(more, rs))
  <2> HIDE DEF left, more
  <2>1. Parts(stored, Put(left, id, node), g.rels, next, edges, LabelsIn(more, ls),
        UniquesIn(left, us), RangesIn(left, rs))
    BY <1>6, <1>8
  <2>2. Parts(new, Put(left, id, node), g.rels, next, edges, LabelsIn(more, ls),
              UniquesIn(Put(left, id, node), us), RangesIn(Put(left, id, node), rs))
    BY <1>2, <1>6, <2>1, AddPropIndexesIs
  <2> QED BY <1>6, <2>2
<1>10. IsFcn(more) /\ IsFcn(g.rels)
  BY PutFcn, IndexedIs
<1> HIDE DEF more
<1>11. /\ Indexed(new) /\ new.nodes = more /\ new.rels = g.rels /\ new.next = next
       /\ DOMAIN new.labels = ls /\ DOMAIN new.uniques = us /\ DOMAIN new.ranges = rs
  BY <1>7, <1>9, <1>10, Intro
<1> QED BY <1>11 DEF SameSlots, more, node

-----------------------------------------------------------------------------
(* Adjacency.                                                               *)
\* The adjacency that two sides of the edges make: from and to say, by edge,
\* which node it leaves and which one it enters.
Side(f, n) == {r \in DOMAIN f : f[r] = n}
Nodes(f) == {f[r] : r \in DOMAIN f}
Edges(out, inc) == [out |-> out, inc |-> inc]
EdgesBy(from, to) == [n \in Nodes(from) \cup Nodes(to) |-> Edges(Side(from, n), Side(to, n))]
FromOf(rels) == [r \in DOMAIN rels |-> rels[r].from]
ToOf(rels)   == [r \in DOMAIN rels |-> rels[r].to]

\* The adjacency of some relationships, by their two sides.
LEMMA EdgesInIs ==
  ASSUME NEW rels
  PROVE  EdgesIn(rels) = EdgesBy(FromOf(rels), ToOf(rels))
<1> DEFINE f == FromOf(rels)
           t == ToOf(rels)
<1>1. DOMAIN f = DOMAIN rels /\ DOMAIN t = DOMAIN rels /\ \A r \in DOMAIN rels : f[r]
      = rels[r].from /\ t[r] = rels[r].to
  BY DEF FromOf, ToOf
<1> HIDE DEF f, t
<1>2. Touched(rels) = Nodes(f) \cup Nodes(t)
  BY <1>1 DEF Touched, Nodes
<1>3. \A n : EdgesOf(rels, n) = Edges(Side(f, n), Side(t, n))
  BY <1>1 DEF EdgesOf, Side, Edges
<1> QED BY <1>2, <1>3 DEF EdgesIn, EdgesBy, f, t

\* Who has an adjacency entry, and which.
LEMMA EdgesByIs ==
  ASSUME NEW f, NEW t
  PROVE  /\ \A n : n \in DOMAIN EdgesBy(f, t) <=> Side(f, n) # {} \/ Side(t, n) # {}
         /\ \A n \in DOMAIN EdgesBy(f, t) : EdgesBy(f, t)[n] = Edges(Side(f, n), Side(t, n))
         /\ IsFcn(EdgesBy(f, t))
BY DEF EdgesBy, Nodes, Side, IsFcn

\* A side without a relationship.
LEMMA SideLess ==
  ASSUME NEW f, NEW id \in DOMAIN f, NEW n
  PROVE  Side(Without(f, id), n) = IF n = f[id] THEN Side(f, n) \ {id} ELSE Side(f, n)
BY LessIs DEF Side

\* A side with one relationship more.
LEMMA SideMore ==
  ASSUME NEW f, NEW id, id \notin DOMAIN f, NEW m, NEW n
  PROVE  Side(Put(f, id, m), n) = IF n = m THEN Side(f, n) \cup {id} ELSE Side(f, n)
BY PutIs DEF Side

\* The two sides of an entry.
LEMMA EdgesAre == ASSUME NEW a, NEW b PROVE Edges(a, b).out = a /\ Edges(a, b).inc = b
BY DEF Edges

\* Cutting a relationship from the node it leaves.
LEMMA OutGoes ==
  ASSUME NEW f, NEW t, NEW id \in DOMAIN f
  PROVE  WithoutEdge(EdgesBy(f, t), f[id], "out", id) = EdgesBy(Without(f, id), t)
<1> DEFINE old == EdgesBy(f, t)
           new == EdgesBy(Without(f, id), t)
           n == f[id]
           left == Edges(Side(f, n) \ {id}, Side(t, n))
<1>1. n \in DOMAIN old /\ old[n] = Edges(Side(f, n), Side(t, n))
  <2>1. Side(f, n) # {}
    BY DEF Side
  <2> QED BY <2>1, EdgesByIs
<1>2. [old[n] EXCEPT !["out"] = @ \ {id}] = left
  BY <1>1 DEF Edges
<1>3. WithoutEdge(old, n, "out", id) = IF left = NoEdges THEN Drop(old, {n}) ELSE Put(old, n, left)
  BY <1>1, <1>2, Zenon DEF WithoutEdge
<1>4. left = NoEdges <=> Side(Without(f, id), n) = {} /\ Side(t, n) = {}
  BY SideLess DEF NoEdges, Edges
<1>5. \A m : m # n => Side(Without(f, id), m) = Side(f, m)
  BY SideLess
<1>6. Side(Without(f, id), n) = Side(f, n) \ {id}
  BY SideLess
<1>7. IsFcn(old) /\ IsFcn(new)
  BY EdgesByIs
<1>8. /\ \A m : m \in DOMAIN old <=> Side(f, m) # {} \/ Side(t, m) # {}
      /\ \A m : m \in DOMAIN new <=> Side(Without(f, id), m) # {} \/ Side(t, m) # {}
      /\ \A m \in DOMAIN old : old[m] = Edges(Side(f, m), Side(t, m))
      /\ \A m \in DOMAIN new : new[m] = Edges(Side(Without(f, id), m), Side(t, m))
  BY EdgesByIs
<1>9. left = Edges(Side(Without(f, id), n), Side(t, n))
  BY <1>6
<1> HIDE DEF old, new, n, left
<1>10. CASE left = NoEdges
  <2> DEFINE d == Drop(old, {n})
  <2>1. /\ \A m : m \in DOMAIN d <=> m \in DOMAIN old /\ m # n
        /\ \A m \in DOMAIN d : d[m] = old[m]
    BY DropIs
  <2>2. IsFcn(d)
    BY DropFcn
  <2> HIDE DEF d
  <2>3. \A m : m \in DOMAIN d <=> m \in DOMAIN new
    BY <1>4, <1>5, <1>8, <1>10, <2>1
  <2>4. \A m \in DOMAIN d : d[m] = new[m]
    BY <1>5, <1>8, <2>1, <2>3
  <2>5. d = new
    BY <1>7, <2>2, <2>3, <2>4, SameFcn
  <2> QED BY <1>3, <1>10, <2>5 DEF d, old, new, n
<1>11. CASE left # NoEdges
  <2> DEFINE d == Put(old, n, left)
  <2>1. /\ \A m : m \in DOMAIN d <=> m \in DOMAIN old \/ m = n
        /\ d[n] = left /\ \A m \in DOMAIN old : m # n => d[m] = old[m]
    BY PutIs
  <2>2. IsFcn(d)
    BY PutFcn
  <2> HIDE DEF d
  <2>3. \A m : m \in DOMAIN d <=> m \in DOMAIN new
    BY <1>4, <1>5, <1>8, <1>11, <2>1
  <2>4. \A m \in DOMAIN d : d[m] = new[m]
    BY <1>5, <1>8, <1>9, <2>1, <2>3
  <2>5. d = new
    BY <1>7, <2>2, <2>3, <2>4, SameFcn
  <2> QED BY <1>3, <1>11, <2>5 DEF d, old, new, n
<1> QED BY <1>10, <1>11

\* Cutting a relationship from the node it enters.
LEMMA IncGoes ==
  ASSUME NEW f, NEW t, NEW id \in DOMAIN t
  PROVE  WithoutEdge(EdgesBy(f, t), t[id], "inc", id) = EdgesBy(f, Without(t, id))
<1> DEFINE old == EdgesBy(f, t)
           new == EdgesBy(f, Without(t, id))
           n == t[id]
           left == Edges(Side(f, n), Side(t, n) \ {id})
<1>1. n \in DOMAIN old /\ old[n] = Edges(Side(f, n), Side(t, n))
  <2>1. Side(t, n) # {}
    BY DEF Side
  <2> QED BY <2>1, EdgesByIs
<1>2. [old[n] EXCEPT !["inc"] = @ \ {id}] = left
  BY <1>1 DEF Edges
<1>3. WithoutEdge(old, n, "inc", id) = IF left = NoEdges THEN Drop(old, {n}) ELSE Put(old, n, left)
  BY <1>1, <1>2, Zenon DEF WithoutEdge
<1>4. left = NoEdges <=> Side(f, n) = {} /\ Side(Without(t, id), n) = {}
  BY SideLess DEF NoEdges, Edges
<1>5. \A m : m # n => Side(Without(t, id), m) = Side(t, m)
  BY SideLess
<1>6. Side(Without(t, id), n) = Side(t, n) \ {id}
  BY SideLess
<1>7. IsFcn(old) /\ IsFcn(new)
  BY EdgesByIs
<1>8. /\ \A m : m \in DOMAIN old <=> Side(f, m) # {} \/ Side(t, m) # {}
      /\ \A m : m \in DOMAIN new <=> Side(f, m) # {} \/ Side(Without(t, id), m) # {}
      /\ \A m \in DOMAIN old : old[m] = Edges(Side(f, m), Side(t, m))
      /\ \A m \in DOMAIN new : new[m] = Edges(Side(f, m), Side(Without(t, id), m))
  BY EdgesByIs
<1>9. left = Edges(Side(f, n), Side(Without(t, id), n))
  BY <1>6
<1> HIDE DEF old, new, n, left
<1>10. CASE left = NoEdges
  <2> DEFINE d == Drop(old, {n})
  <2>1. /\ \A m : m \in DOMAIN d <=> m \in DOMAIN old /\ m # n
        /\ \A m \in DOMAIN d : d[m] = old[m]
    BY DropIs
  <2>2. IsFcn(d)
    BY DropFcn
  <2> HIDE DEF d
  <2>3. \A m : m \in DOMAIN d <=> m \in DOMAIN new
    BY <1>4, <1>5, <1>8, <1>10, <2>1
  <2>4. \A m \in DOMAIN d : d[m] = new[m]
    BY <1>5, <1>8, <2>1, <2>3
  <2>5. d = new
    BY <1>7, <2>2, <2>3, <2>4, SameFcn
  <2> QED BY <1>3, <1>10, <2>5 DEF d, old, new, n
<1>11. CASE left # NoEdges
  <2> DEFINE d == Put(old, n, left)
  <2>1. /\ \A m : m \in DOMAIN d <=> m \in DOMAIN old \/ m = n
        /\ d[n] = left /\ \A m \in DOMAIN old : m # n => d[m] = old[m]
    BY PutIs
  <2>2. IsFcn(d)
    BY PutFcn
  <2> HIDE DEF d
  <2>3. \A m : m \in DOMAIN d <=> m \in DOMAIN new
    BY <1>4, <1>5, <1>8, <1>11, <2>1
  <2>4. \A m \in DOMAIN d : d[m] = new[m]
    BY <1>5, <1>8, <1>9, <2>1, <2>3
  <2>5. d = new
    BY <1>7, <2>2, <2>3, <2>4, SameFcn
  <2> QED BY <1>3, <1>11, <2>5 DEF d, old, new, n
<1> QED BY <1>10, <1>11

\* The entry of a node, or none.
LEMMA AdjacentIs ==
  ASSUME NEW g, NEW f, NEW t, g.adjacency = EdgesBy(f, t), NEW n
  PROVE  Adjacent(g, n) = Edges(Side(f, n), Side(t, n))
BY EdgesByIs DEF Adjacent, NoEdges, Edges

\* Joining a relationship to the node it leaves.
LEMMA OutComes ==
  ASSUME NEW g, NEW f, NEW t, g.adjacency = EdgesBy(f, t), NEW id, id \notin DOMAIN f, NEW n
  PROVE  Put(g.adjacency, n, [Adjacent(g, n) EXCEPT !["out"] = @ \cup {id}])
         = EdgesBy(Put(f, id, n), t)
<1> DEFINE old == EdgesBy(f, t)
           new == EdgesBy(Put(f, id, n), t)
           more == Edges(Side(f, n) \cup {id}, Side(t, n))
           d == Put(old, n, more)
<1>1. [Adjacent(g, n) EXCEPT !["out"] = @ \cup {id}] = more
  BY AdjacentIs DEF Edges
<1>2. \A m : m # n => Side(Put(f, id, n), m) = Side(f, m)
  BY SideMore
<1>3. Side(Put(f, id, n), n) = Side(f, n) \cup {id}
  BY SideMore
<1>4. more = Edges(Side(Put(f, id, n), n), Side(t, n)) /\ Side(Put(f, id, n), n) # {}
  BY <1>3
<1>5. /\ \A m : m \in DOMAIN old <=> Side(f, m) # {} \/ Side(t, m) # {}
      /\ \A m : m \in DOMAIN new <=> Side(Put(f, id, n), m) # {} \/ Side(t, m) # {}
      /\ \A m \in DOMAIN old : old[m] = Edges(Side(f, m), Side(t, m))
      /\ \A m \in DOMAIN new : new[m] = Edges(Side(Put(f, id, n), m), Side(t, m))
  BY EdgesByIs
<1>6. IsFcn(d) /\ IsFcn(new)
  BY EdgesByIs, PutFcn
<1>7. /\ \A m : m \in DOMAIN d <=> m \in DOMAIN old \/ m = n
      /\ d[n] = more /\ \A m \in DOMAIN old : m # n => d[m] = old[m]
  BY PutIs
<1> HIDE DEF old, new, more, d
<1>8. \A m : m \in DOMAIN d <=> m \in DOMAIN new
  BY <1>2, <1>4, <1>5, <1>7
<1>9. \A m \in DOMAIN d : d[m] = new[m]
  BY <1>2, <1>4, <1>5, <1>7, <1>8
<1>10. d = new
  BY <1>6, <1>8, <1>9, SameFcn
<1> QED BY <1>1, <1>10 DEF d, old, new

\* Joining a relationship to the node it enters.
LEMMA IncComes ==
  ASSUME NEW g, NEW f, NEW t, g.adjacency = EdgesBy(f, t), NEW id, id \notin DOMAIN t, NEW n
  PROVE  Put(g.adjacency, n, [Adjacent(g, n) EXCEPT !["inc"] = @ \cup {id}])
         = EdgesBy(f, Put(t, id, n))
<1> DEFINE old == EdgesBy(f, t)
           new == EdgesBy(f, Put(t, id, n))
           more == Edges(Side(f, n), Side(t, n) \cup {id})
           d == Put(old, n, more)
<1>1. [Adjacent(g, n) EXCEPT !["inc"] = @ \cup {id}] = more
  BY AdjacentIs DEF Edges
<1>2. \A m : m # n => Side(Put(t, id, n), m) = Side(t, m)
  BY SideMore
<1>3. Side(Put(t, id, n), n) = Side(t, n) \cup {id}
  BY SideMore
<1>4. more = Edges(Side(f, n), Side(Put(t, id, n), n)) /\ Side(Put(t, id, n), n) # {}
  BY <1>3
<1>5. /\ \A m : m \in DOMAIN old <=> Side(f, m) # {} \/ Side(t, m) # {}
      /\ \A m : m \in DOMAIN new <=> Side(f, m) # {} \/ Side(Put(t, id, n), m) # {}
      /\ \A m \in DOMAIN old : old[m] = Edges(Side(f, m), Side(t, m))
      /\ \A m \in DOMAIN new : new[m] = Edges(Side(f, m), Side(Put(t, id, n), m))
  BY EdgesByIs
<1>6. IsFcn(d) /\ IsFcn(new)
  BY EdgesByIs, PutFcn
<1>7. /\ \A m : m \in DOMAIN d <=> m \in DOMAIN old \/ m = n
      /\ d[n] = more /\ \A m \in DOMAIN old : m # n => d[m] = old[m]
  BY PutIs
<1> HIDE DEF old, new, more, d
<1>8. \A m : m \in DOMAIN d <=> m \in DOMAIN new
  BY <1>2, <1>4, <1>5, <1>7
<1>9. \A m \in DOMAIN d : d[m] = new[m]
  BY <1>2, <1>4, <1>5, <1>7, <1>8
<1>10. d = new
  BY <1>6, <1>8, <1>9, SameFcn
<1> QED BY <1>1, <1>10 DEF d, old, new

\* The sides of all relationships but one.
LEMMA SidesLess ==
  ASSUME NEW rels, NEW id
  PROVE  FromOf(Without(rels, id)) = Without(FromOf(rels), id) /\ ToOf(Without(rels, id))
         = Without(ToOf(rels), id)
<1> DEFINE less == Without(rels, id)
<1>1. /\ \A r : r \in DOMAIN less <=> r \in DOMAIN rels /\ r # id
      /\ \A r \in DOMAIN less : less[r] = rels[r]
  BY LessIs
<1> HIDE DEF less
<1>2. /\ DOMAIN FromOf(less) = DOMAIN less /\ IsFcn(FromOf(less))
      /\ \A r \in DOMAIN less : FromOf(less)[r] = rels[r].from
  BY <1>1 DEF FromOf, IsFcn
<1>3. /\ DOMAIN ToOf(less) = DOMAIN less /\ IsFcn(ToOf(less))
      /\ \A r \in DOMAIN less : ToOf(less)[r] = rels[r].to
  BY <1>1 DEF ToOf, IsFcn
<1>4. /\ DOMAIN FromOf(rels) = DOMAIN rels /\ \A r \in DOMAIN rels : FromOf(rels)[r] = rels[r].from
      /\ DOMAIN ToOf(rels) = DOMAIN rels /\ \A r \in DOMAIN rels : ToOf(rels)[r] = rels[r].to
  BY DEF FromOf, ToOf
<1>5. FromOf(less) = Without(FromOf(rels), id)
  <2>1. \A r : r \in DOMAIN Without(FromOf(rels), id) <=> r \in DOMAIN less
    BY <1>1, <1>4, LessIs
  <2>2. \A r \in DOMAIN less : Without(FromOf(rels), id)[r] = rels[r].from
    BY <1>1, <1>4, LessIs
  <2> QED BY <1>2, <2>1, <2>2, LessFcn, SameFcn
<1>6. ToOf(less) = Without(ToOf(rels), id)
  <2>1. \A r : r \in DOMAIN Without(ToOf(rels), id) <=> r \in DOMAIN less
    BY <1>1, <1>4, LessIs
  <2>2. \A r \in DOMAIN less : Without(ToOf(rels), id)[r] = rels[r].to
    BY <1>1, <1>4, LessIs
  <2> QED BY <1>3, <2>1, <2>2, LessFcn, SameFcn
<1> QED BY <1>5, <1>6 DEF less

\* The sides with one relationship more.
LEMMA SidesMore ==
  ASSUME NEW rels, NEW id, NEW rel
  PROVE  /\ FromOf(Put(rels, id, rel)) = Put(FromOf(rels), id, rel.from)
         /\ ToOf(Put(rels, id, rel)) = Put(ToOf(rels), id, rel.to)
BY DEF FromOf, ToOf, Put

\* remove_relationship_indexes
LEMMA EdgeGoes ==
  ASSUME NEW rels, NEW id \in DOMAIN rels
  PROVE  WithoutEdge(WithoutEdge(EdgesIn(rels), rels[id].from, "out", id), rels[id].to, "inc", id)
           = EdgesIn(Without(rels, id))
<1> DEFINE f == FromOf(rels)
           t == ToOf(rels)
<1>1. id \in DOMAIN f /\ id \in DOMAIN t /\ f[id] = rels[id].from /\ t[id] = rels[id].to
  BY DEF FromOf, ToOf
<1>2. EdgesIn(rels) = EdgesBy(f, t)
  BY EdgesInIs
<1>3. EdgesIn(Without(rels, id)) = EdgesBy(Without(f, id), Without(t, id))
  BY EdgesInIs, SidesLess
<1> HIDE DEF f, t
<1>4. WithoutEdge(EdgesBy(f, t), f[id], "out", id) = EdgesBy(Without(f, id), t)
  BY <1>1, OutGoes
<1>5. WithoutEdge(EdgesBy(Without(f, id), t), t[id], "inc", id)
      = EdgesBy(Without(f, id), Without(t, id))
  BY <1>1, IncGoes
<1> QED BY <1>1, <1>2, <1>3, <1>4, <1>5

\* insert_relationship_indexes, of a relationship that is not there
LEMMA EdgeComes ==
  ASSUME NEW g, NEW nodes, NEW rels, NEW next, NEW labels, NEW uniques, NEW ranges,
         NEW id, id \notin DOMAIN rels, NEW rel, NEW all,
         Parts(g, nodes, all, next, EdgesIn(rels), labels, uniques, ranges)
  PROVE  Parts(WithEdge(WithEdge(g, rel.from, "out", id), rel.to, "inc", id),
               nodes, all, next, EdgesIn(Put(rels, id, rel)), labels, uniques, ranges)
<1> DEFINE f == FromOf(rels)
           t == ToOf(rels)
           h == WithEdge(g, rel.from, "out", id)
           k == WithEdge(h, rel.to, "inc", id)
<1>1. id \notin DOMAIN f /\ id \notin DOMAIN t
  BY DEF FromOf, ToOf
<1>2. g.adjacency = EdgesBy(f, t)
  BY EdgesInIs, PartsAre
<1>3. EdgesIn(Put(rels, id, rel)) = EdgesBy(Put(f, id, rel.from), Put(t, id, rel.to))
  BY EdgesInIs, SidesMore
<1> HIDE DEF f, t
<1>4. h = [g EXCEPT !.adjacency = EdgesBy(Put(f, id, rel.from), t)]
  <2>1. Put(g.adjacency, rel.from, [Adjacent(g, rel.from) EXCEPT !["out"] = @ \cup {id}])
          = EdgesBy(Put(f, id, rel.from), t)
    BY <1>1, <1>2, OutComes
  <2> QED BY <2>1, Zenon DEF WithEdge
<1>5. Parts(h, nodes, all, next, EdgesBy(Put(f, id, rel.from), t), labels, uniques, ranges)
  BY <1>4 DEF Parts
<1>6. h.adjacency = EdgesBy(Put(f, id, rel.from), t)
  BY <1>5, PartsAre
<1> HIDE DEF h
<1>7. k = [h EXCEPT !.adjacency = EdgesIn(Put(rels, id, rel))]
  <2>1. Put(h.adjacency, rel.to, [Adjacent(h, rel.to) EXCEPT !["inc"] = @ \cup {id}])
          = EdgesIn(Put(rels, id, rel))
    BY <1>1, <1>3, <1>6, IncComes
  <2> QED BY <2>1, Zenon DEF WithEdge
<1>8. Parts(k, nodes, all, next, EdgesIn(Put(rels, id, rel)), labels, uniques, ranges)
  <2> HIDE DEF k
  <2> QED BY <1>5, <1>7 DEF Parts
<1> QED BY <1>8 DEF h

\* delete_relationship
LEMMA DeleteRelationshipIs ==
  ASSUME NEW g, Indexed(g), NEW id, NEW new, new = DeleteRelationship(g, id)
  PROVE  /\ Indexed(new) /\ new.nodes = g.nodes /\ new.rels = Without(g.rels, id)
         /\ DOMAIN new.labels = DOMAIN g.labels /\ SameSlots(new, g)
         /\ new.next = Counters(g.next.node, g.next.rel)
<1> DEFINE us == DOMAIN g.uniques
           rs == DOMAIN g.ranges
           ls == DOMAIN g.labels
           next == Counters(g.next.node, g.next.rel)
<1>1. /\ Parts(g, g.nodes, g.rels, next, EdgesIn(g.rels), LabelsIn(g.nodes, ls),
         UniquesIn(g.nodes, us), RangesIn(g.nodes, rs))
      /\ IsFcn(g.nodes) /\ IsFcn(g.rels) /\ LabelsKnown(g.nodes, ls)
  BY IndexedIs
<1>2. CASE id \notin DOMAIN g.rels
  <2>1. new = g
    BY <1>2, Zenon DEF DeleteRelationship
  <2>2. Without(g.rels, id) = g.rels
    BY <1>1, <1>2, NothingDropped
  <2>3. g.next = next
    BY <1>1, PartsAre
  <2> QED BY <2>1, <2>2, <2>3 DEF SameSlots
<1>3. CASE id \in DOMAIN g.rels
  <2> DEFINE less == Without(g.rels, id)
             bare == [g EXCEPT !.rels = less]
  <2>1. new = RemoveRelationshipIndexes(bare, id, g.rels[id])
    BY <1>3, Zenon DEF DeleteRelationship, Without
  <2>2. Parts(bare, g.nodes, less, next, EdgesIn(g.rels), LabelsIn(g.nodes, ls),
        UniquesIn(g.nodes, us), RangesIn(g.nodes, rs))
    <3> HIDE DEF less, next
    <3> QED BY <1>1 DEF Parts
  <2> HIDE DEF bare
  <2>3. new = [bare EXCEPT !.adjacency = EdgesIn(less)]
    <3>1. WithoutEdge(WithoutEdge(bare.adjacency, g.rels[id].from, "out", id), g.rels[id].to,
          "inc", id) = EdgesIn(less)
      BY <1>3, <2>2, EdgeGoes, PartsAre
    <3> QED BY <2>1, <3>1, Zenon DEF RemoveRelationshipIndexes
  <2>4. Parts(new, g.nodes, less, next, EdgesIn(less), LabelsIn(g.nodes, ls),
        UniquesIn(g.nodes, us), RangesIn(g.nodes, rs))
    <3> HIDE DEF less, next
    <3> QED BY <2>2, <2>3 DEF Parts
  <2>5. IsFcn(less)
    BY LessFcn
  <2>6. /\ Indexed(new) /\ new.nodes = g.nodes /\ new.rels = less /\ new.next = next
        /\ DOMAIN new.labels = ls /\ DOMAIN new.uniques = us /\ DOMAIN new.ranges = rs
    BY <1>1, <2>4, <2>5, Intro
  <2> QED BY <2>6 DEF SameSlots
<1> QED BY <1>2, <1>3

\* restore_relationship, over a relationship with the same id, too
LEMMA RestoreRelationshipIs ==
  ASSUME NEW g, Indexed(g), NEW id, NEW rel, NEW new, new = RestoreRelationship(g, id, rel)
  PROVE  /\ Indexed(new) /\ new.nodes = g.nodes /\ new.rels = Put(g.rels, id, rel)
         /\ DOMAIN new.labels = DOMAIN g.labels /\ SameSlots(new, g)
         /\ new.next = Counters(g.next.node, Later(g.next.rel, id))
<1> DEFINE us == DOMAIN g.uniques
           rs == DOMAIN g.ranges
           ls == DOMAIN g.labels
           next == Counters(g.next.node, g.next.rel)
           left == Without(g.rels, id)
           more == Put(g.rels, id, rel)
           known == IF id \in DOMAIN g.rels THEN RemoveRelationshipIndexes(g, id, g.rels[id]) ELSE g
           stored == [known EXCEPT !.rels = more]
           joined == WithEdge(WithEdge(stored, rel.from, "out", id), rel.to, "inc", id)
<1>1. /\ Parts(g, g.nodes, g.rels, next, EdgesIn(g.rels), LabelsIn(g.nodes, ls),
         UniquesIn(g.nodes, us), RangesIn(g.nodes, rs))
      /\ IsFcn(g.nodes) /\ IsFcn(g.rels) /\ LabelsKnown(g.nodes, ls)
  BY IndexedIs
<1>2. Parts(known, g.nodes, g.rels, next, EdgesIn(left), LabelsIn(g.nodes, ls),
      UniquesIn(g.nodes, us), RangesIn(g.nodes, rs))
  <2>1. CASE id \in DOMAIN g.rels
    <3>1. known = RemoveRelationshipIndexes(g, id, g.rels[id])
      BY <2>1
    <3>2. WithoutEdge(WithoutEdge(g.adjacency, g.rels[id].from, "out", id), g.rels[id].to, "inc",
          id) = EdgesIn(left)
      BY <1>1, <2>1, EdgeGoes, PartsAre
    <3> HIDE DEF known, left, next
    <3>3. known = [g EXCEPT !.adjacency = EdgesIn(left)]
      BY <3>1, <3>2, Zenon DEF RemoveRelationshipIndexes
    <3> QED BY <1>1, <3>3 DEF Parts
  <2>2. CASE id \notin DOMAIN g.rels
    <3>1. left = g.rels
      BY <1>1, <2>2, NothingDropped
    <3> QED BY <1>1, <2>2, <3>1
  <2> QED BY <2>1, <2>2
<1>3. known.rels = g.rels
  BY <1>2, PartsAre
<1>4. new = [joined EXCEPT !.next.rel = Later(@, id)]
  BY <1>3, Zenon DEF RestoreRelationship, Later
<1> HIDE DEF known
<1>5. id \notin DOMAIN left /\ more = Put(left, id, rel)
  BY LessIs, PutDropped
<1>6. Parts(stored, g.nodes, more, next, EdgesIn(left), LabelsIn(g.nodes, ls),
      UniquesIn(g.nodes, us), RangesIn(g.nodes, rs))
  <2> HIDE DEF left, next, more
  <2> QED BY <1>2 DEF Parts
<1> HIDE DEF stored
<1>7. Parts(joined, g.nodes, more, next, EdgesIn(more), LabelsIn(g.nodes, ls),
      UniquesIn(g.nodes, us), RangesIn(g.nodes, rs))
  <2> HIDE DEF left
  <2>1. Parts(joined, g.nodes, more, next, EdgesIn(Put(left, id, rel)), LabelsIn(g.nodes, ls),
        UniquesIn(g.nodes, us), RangesIn(g.nodes, rs))
    <3> HIDE DEF more, next
    <3> QED BY <1>5, <1>6, EdgeComes
  <2> QED BY <1>5, <2>1
<1> HIDE DEF joined
<1>8. Parts(new, g.nodes, more, Counters(g.next.node, Later(g.next.rel, id)), EdgesIn(more),
            LabelsIn(g.nodes, ls), UniquesIn(g.nodes, us), RangesIn(g.nodes, rs))
  <2>1. joined.next = next
    BY <1>7, PartsAre
  <2>2. new = [joined EXCEPT !.next = Counters(g.next.node, Later(g.next.rel, id))]
    BY <1>4, <2>1 DEF Counters
  <2> HIDE DEF more
  <2> QED BY <1>7, <2>2 DEF Parts
<1>9. IsFcn(more)
  BY PutFcn
<1> HIDE DEF more
<1>10. /\ Indexed(new) /\ new.nodes = g.nodes /\ new.rels = more
       /\ new.next = Counters(g.next.node, Later(g.next.rel, id))
       /\ DOMAIN new.labels = ls /\ DOMAIN new.uniques = us /\ DOMAIN new.ranges = rs
  BY <1>1, <1>8, <1>9, Intro
<1> QED BY <1>10 DEF SameSlots, more

\* The indexes a statement's schema asks for are filled as a scan fills them.
LEMMA SyncUniquesIs ==
  ASSUME NEW g, Indexed(g), NEW slots, NEW new, new = SyncUniques(g, slots)
  PROVE  /\ Indexed(new) /\ new.nodes = g.nodes /\ new.rels = g.rels /\ new.next = g.next
         /\ DOMAIN new.labels = DOMAIN g.labels
         /\ DOMAIN new.uniques = slots /\ DOMAIN new.ranges = DOMAIN g.ranges
<1> DEFINE us == DOMAIN g.uniques
           rs == DOMAIN g.ranges
           ls == DOMAIN g.labels
           next == Counters(g.next.node, g.next.rel)
<1>1. /\ Parts(g, g.nodes, g.rels, next, EdgesIn(g.rels), LabelsIn(g.nodes, ls),
         UniquesIn(g.nodes, us), RangesIn(g.nodes, rs))
      /\ IsFcn(g.nodes) /\ IsFcn(g.rels) /\ LabelsKnown(g.nodes, ls)
  BY IndexedIs
<1>2. g.labels = LabelsIn(g.nodes, ls) /\ g.uniques = UniquesIn(g.nodes, us) /\ g.next = next
  BY <1>1, PartsAre
<1>3. \A s : {n \in Labelled(g, s[1]) \cap DOMAIN g.nodes : Files(s, g.nodes[n])}
      = Filed(g.nodes, s)
  BY <1>1, <1>2 DEF Labelled, IdsUnder, LabelsIn, LabelOf, Files, Filed, LabelsKnown
<1>4. \A s : FilledUnique(g, s) = UniqueOf(g.nodes, s)
  BY <1>3 DEF FilledUnique, UniqueOf, Key
<1>5. [s \in slots |-> IF s \in DOMAIN g.uniques THEN g.uniques[s] ELSE FilledUnique(g, s)]
        = UniquesIn(g.nodes, slots)
  <2>1. \A s \in us : g.uniques[s] = UniqueOf(g.nodes, s)
    BY <1>2 DEF UniquesIn
  <2> QED BY <1>4, <2>1 DEF UniquesIn
<1>6. new = [g EXCEPT !.uniques = UniquesIn(g.nodes, slots)]
  BY <1>5, Zenon DEF SyncUniques
<1>7. Parts(new, g.nodes, g.rels, next, EdgesIn(g.rels), LabelsIn(g.nodes, ls),
      UniquesIn(g.nodes, slots), RangesIn(g.nodes, rs))
  <2> HIDE DEF next
  <2> QED BY <1>1, <1>6 DEF Parts
<1> QED BY <1>1, <1>2, <1>7, Intro

\* The same for the range indexes.
LEMMA SyncIndexesIs ==
  ASSUME NEW g, Indexed(g), NEW slots, NEW new, new = SyncIndexes(g, slots)
  PROVE  /\ Indexed(new) /\ new.nodes = g.nodes /\ new.rels = g.rels /\ new.next = g.next
         /\ DOMAIN new.labels = DOMAIN g.labels
         /\ DOMAIN new.uniques = DOMAIN g.uniques /\ DOMAIN new.ranges = slots
<1> DEFINE us == DOMAIN g.uniques
           rs == DOMAIN g.ranges
           ls == DOMAIN g.labels
           next == Counters(g.next.node, g.next.rel)
<1>1. /\ Parts(g, g.nodes, g.rels, next, EdgesIn(g.rels), LabelsIn(g.nodes, ls),
         UniquesIn(g.nodes, us), RangesIn(g.nodes, rs))
      /\ IsFcn(g.nodes) /\ IsFcn(g.rels) /\ LabelsKnown(g.nodes, ls)
  BY IndexedIs
<1>2. g.labels = LabelsIn(g.nodes, ls) /\ g.ranges = RangesIn(g.nodes, rs) /\ g.next = next
  BY <1>1, PartsAre
<1>3. \A s : {n \in Labelled(g, s[1]) \cap DOMAIN g.nodes : Files(s, g.nodes[n])}
      = Filed(g.nodes, s)
  BY <1>1, <1>2 DEF Labelled, IdsUnder, LabelsIn, LabelOf, Files, Filed, LabelsKnown
<1>4. \A s : FilledRange(g, s) = RangeOf(g.nodes, s)
  BY <1>3 DEF FilledRange, RangeOf, Key
<1>5. [s \in slots |-> IF s \in DOMAIN g.ranges THEN g.ranges[s] ELSE FilledRange(g, s)]
        = RangesIn(g.nodes, slots)
  <2>1. \A s \in rs : g.ranges[s] = RangeOf(g.nodes, s)
    BY <1>2 DEF RangesIn
  <2> QED BY <1>4, <2>1 DEF RangesIn
<1>6. new = [g EXCEPT !.ranges = RangesIn(g.nodes, slots)]
  BY <1>5, Zenon DEF SyncIndexes
<1>7. Parts(new, g.nodes, g.rels, next, EdgesIn(g.rels), LabelsIn(g.nodes, ls),
      UniquesIn(g.nodes, us), RangesIn(g.nodes, slots))
  <2> HIDE DEF next
  <2> QED BY <1>1, <1>6 DEF Parts
<1> QED BY <1>1, <1>2, <1>7, Intro

-----------------------------------------------------------------------------
\* A cut edge is cut from what is left of an adjacency as from all of it.
LEMMA CutFromLess ==
  ASSUME NEW a, IsFcn(a), NEW n, NEW m, NEW side, NEW id
  PROVE  WithoutEdge(Without(a, n), m, side, id) = Without(WithoutEdge(a, m, side, id), n)
<1> DEFINE b == Without(a, n)
           left == [a[m] EXCEPT ![side] = @ \ {id}]
<1>1. /\ \A k : k \in DOMAIN b <=> k \in DOMAIN a /\ k # n
      /\ \A k \in DOMAIN b : b[k] = a[k]
      /\ IsFcn(b)
  BY LessIs, LessFcn
<1> HIDE DEF b
<1>2. CASE m \notin DOMAIN a
  BY <1>1, <1>2 DEF WithoutEdge, b
<1>3. CASE m \in DOMAIN a /\ left = NoEdges
  <2>1. WithoutEdge(a, m, side, id) = Without(a, m)
    BY <1>3, Zenon DEF WithoutEdge, Without
  <2>2. WithoutEdge(b, m, side, id) = IF m = n THEN b ELSE Without(b, m)
    BY <1>1, <1>3 DEF WithoutEdge, Without
  <2>3. Without(Without(a, m), n) = IF m = n THEN b ELSE Without(b, m)
    <3> DEFINE c == Without(a, m)
               d == Without(c, n)
               e == Without(b, m)
    <3>1. /\ \A k : k \in DOMAIN c <=> k \in DOMAIN a /\ k # m
          /\ \A k \in DOMAIN c : c[k] = a[k]
      BY LessIs
    <3>2. /\ \A k : k \in DOMAIN d <=> k \in DOMAIN c /\ k # n
          /\ \A k \in DOMAIN d : d[k] = c[k]
          /\ IsFcn(d)
      BY LessIs, LessFcn
    <3>3. /\ \A k : k \in DOMAIN e <=> k \in DOMAIN b /\ k # m
          /\ \A k \in DOMAIN e : e[k] = b[k]
          /\ IsFcn(e)
      BY LessIs, LessFcn
    <3> HIDE DEF c, d, e
    <3>4. m = n => d = b
      BY <1>1, <3>1, <3>2, SameFcn
    <3>5. d = e
      BY <1>1, <3>1, <3>2, <3>3, SameFcn
    <3> QED BY <3>4, <3>5 DEF c, d, e
  <2> QED BY <2>1, <2>2, <2>3 DEF b
<1>4. CASE m \in DOMAIN a /\ left # NoEdges
  <2>1. WithoutEdge(a, m, side, id) = Put(a, m, left)
    BY <1>4, Zenon DEF WithoutEdge
  <2>2. WithoutEdge(b, m, side, id) = IF m = n THEN b ELSE Put(b, m, left)
    BY <1>1, <1>4 DEF WithoutEdge
  <2> HIDE DEF left
  <2>3. Without(Put(a, m, left), n) = IF m = n THEN b ELSE Put(b, m, left)
    <3> DEFINE c == Put(a, m, left)
               d == Without(c, n)
               e == Put(b, m, left)
    <3>1. /\ \A k : k \in DOMAIN c <=> k \in DOMAIN a \/ k = m
          /\ c[m] = left /\ \A k \in DOMAIN a : k # m => c[k] = a[k]
      BY PutIs
    <3>2. /\ \A k : k \in DOMAIN d <=> k \in DOMAIN c /\ k # n
          /\ \A k \in DOMAIN d : d[k] = c[k]
          /\ IsFcn(d)
      BY LessIs, LessFcn
    <3>3. /\ \A k : k \in DOMAIN e <=> k \in DOMAIN b \/ k = m
          /\ e[m] = left /\ \A k \in DOMAIN b : k # m => e[k] = b[k]
          /\ IsFcn(e)
      BY PutIs, PutFcn
    <3> HIDE DEF c, d, e
    <3>4. m = n => d = b
      BY <1>1, <3>1, <3>2, SameFcn
    <3>5. m # n => d = e
      BY <1>1, <3>1, <3>2, <3>3, SameFcn
    <3> QED BY <3>4, <3>5 DEF c, d, e
  <2> QED BY <2>1, <2>2, <2>3 DEF b
<1> QED BY <1>2, <1>3, <1>4

\* The adjacency is a function.
LEMMA EdgesInFcn == ASSUME NEW rels PROVE IsFcn(EdgesIn(rels))
BY DEF EdgesIn, IsFcn

\* So is what a cut leaves of it.
LEMMA WithoutEdgeFcn ==
  ASSUME NEW a, IsFcn(a), NEW n, NEW side, NEW id
  PROVE  IsFcn(WithoutEdge(a, n, side, id))
<1> DEFINE left == [a[n] EXCEPT ![side] = @ \ {id}]
<1>1. WithoutEdge(a, n, side, id) \in {a, Drop(a, {n}), Put(a, n, left)}
  BY DEF WithoutEdge
<1>2. IsFcn(Drop(a, {n})) /\ IsFcn(Put(a, n, left))
  BY PutFcn, DropFcn
<1> QED BY <1>1, <1>2

\* Cutting a relationship when the entry of one node is gone already: a self
\* loop, or an end at the node that is being deleted.
LEMMA TornEdgeGoes ==
  ASSUME NEW rels, NEW id \in DOMAIN rels, NEW n
  PROVE  WithoutEdge(WithoutEdge(Without(EdgesIn(rels), n), rels[id].from, "out", id),
         rels[id].to, "inc", id)
           = Without(EdgesIn(Without(rels, id)), n)
<1> DEFINE a == EdgesIn(rels)
           b == WithoutEdge(a, rels[id].from, "out", id)
           c == WithoutEdge(b, rels[id].to, "inc", id)
<1>1. c = EdgesIn(Without(rels, id))
  BY EdgeGoes
<1>2. IsFcn(a) /\ IsFcn(b)
  BY EdgesInFcn, WithoutEdgeFcn
<1>3. WithoutEdge(Without(a, n), rels[id].from, "out", id) = Without(b, n)
  BY <1>2, CutFromLess
<1>4. WithoutEdge(Without(b, n), rels[id].to, "inc", id) = Without(c, n)
  <2> HIDE DEF b
  <2> QED BY <1>2, CutFromLess
<1> QED BY <1>1, <1>3, <1>4

-----------------------------------------------------------------------------
(* delete_node of the graph, and its loop.                                  *)
\* The relationships of a node, and what is left when those up to the nth go.
Touches(rel, id) == rel.from = id \/ rel.to = id
TouchingUpTo(rels, id, n) == {r \in DOMAIN rels : Touches(rels[r], id) /\ r <= n}
RelsLeft(rels, id, n) == Drop(rels, TouchingUpTo(rels, id, n))
RelsWithout(rels, id) == Drop(rels, {r \in DOMAIN rels : Touches(rels[r], id)})

\* What is left when the relationships of a node up to the nth are gone.
LEMMA RelsLeftIs ==
  ASSUME NEW rels, NEW id, NEW n
  PROVE  /\ \A r : r \in DOMAIN RelsLeft(rels, id, n) <=> r \in DOMAIN rels
            /\ ~(Touches(rels[r], id) /\ r <= n)
         /\ \A r \in DOMAIN RelsLeft(rels, id, n) : RelsLeft(rels, id, n)[r] = rels[r]
         /\ IsFcn(RelsLeft(rels, id, n))
BY DropIs, DropFcn DEF RelsLeft, TouchingUpTo

\* What is left without all the relationships of a node.
LEMMA RelsWithoutIs ==
  ASSUME NEW rels, NEW id
  PROVE  /\ \A r : r \in DOMAIN RelsWithout(rels, id) <=> r \in DOMAIN rels /\ ~Touches(rels[r], id)
         /\ \A r \in DOMAIN RelsWithout(rels, id) : RelsWithout(rels, id)[r] = rels[r]
         /\ IsFcn(RelsWithout(rels, id))
BY DropIs, DropFcn DEF RelsWithout

\* delete_node's loop: the node and its adjacency are gone already.
Torn(y, g, id, rels) ==
  Parts(y, Without(g.nodes, id), rels, Counters(g.next.node, g.next.rel),
      Without(EdgesIn(rels), id),
        LabelsIn(Without(g.nodes, id), DOMAIN g.labels),
            UniquesIn(Without(g.nodes, id), DOMAIN g.uniques),
        RangesIn(Without(g.nodes, id), DOMAIN g.ranges))

\* Its passes, and what holds after each.
CutOp(c, y, n)  == DeleteRelationship(y, n)
CutInv(c, n, y) == Torn(y, c.graph, c.id, RelsLeft(c.graph.rels, c.id, n))
Cuts == INSTANCE Loop WITH Op <- CutOp, P <- CutInv

\* relationships of a node: those that leave or enter it.
LEMMA NodeRelationshipsIs ==
  ASSUME NEW g, Indexed(g), NEW id
  PROVE  \A r : r \in NodeRelationships(g, id) <=> r \in DOMAIN g.rels /\ Touches(g.rels[r], id)
<1> DEFINE f == FromOf(g.rels)
           t == ToOf(g.rels)
<1>1. g.adjacency = EdgesBy(f, t)
  BY IndexedIs, PartsAre, EdgesInIs
<1>2. Adjacent(g, id) = Edges(Side(f, id), Side(t, id))
  BY <1>1, AdjacentIs
<1>3. NodeRelationships(g, id) = Side(f, id) \cup Side(t, id)
  BY <1>2, EdgesAre DEF NodeRelationships
<1> QED BY <1>3 DEF Side, FromOf, ToOf, Touches

\* The last of some ids.
LEMMA LastId ==
  ASSUME NEW top \in Nat, NEW ids \in SUBSET (1 .. top)
  PROVE  /\ Max({0} \cup ids) \in Nat /\ \A n \in ids : n \in 1 .. Max({0} \cup ids)
         /\ Max({0} \cup ids) \in {0} \cup ids
<1> DEFINE S == {0} \cup ids
           later == {n \in Nat : \A i \in S : i <= n}
<1>1. top \in later /\ later \in SUBSET Nat
  OBVIOUS
<1>2. PICK n \in later : \A k \in later : n <= k
  <2> HIDE DEF later
  <2> QED BY <1>1, Cuts!LeastPass
<1>3. n \in S
  <2> SUFFICES ASSUME n \notin S PROVE FALSE
    OBVIOUS
  <2>1. n - 1 \in later
    BY <1>2
  <2> QED BY <1>2, <2>1
<1>4. n \in S /\ \A y \in S : n >= y
  BY <1>2, <1>3
<1>5. Max(S) \in S /\ \A y \in S : Max(S) >= y
  <2> HIDE DEF S
  <2>1. \E x \in S : \A y \in S : x >= y
    BY <1>4
  <2>2. Max(S) = CHOOSE x \in S : \A y \in S : x >= y
    BY Zenon DEF Max
  <2> QED BY <2>1, <2>2
<1>6. \A y \in S : y \in 0 .. top
  OBVIOUS
<1> HIDE DEF S
<1>7. Max(S) \in Nat /\ Max(S) \in S /\ \A y \in S : y > 0 => y \in 1 .. Max(S)
  BY <1>5, <1>6
<1> QED BY <1>7 DEF S

\* delete_node before its loop: the node is gone and no relationship is.
LEMMA CutFirst ==
  ASSUME NEW g, Indexed(g), NEW id \in DOMAIN g.nodes, \A r \in DOMAIN g.rels : r \in Nat /\ r > 0
  PROVE  LET bare == [RemoveNodeIndexes(g, id, g.nodes[id]) EXCEPT
                        !.nodes = Drop(@, {id}), !.adjacency = Drop(@, {id})]
         IN Torn(bare, g, id, RelsLeft(g.rels, id, 0))
<1> DEFINE left == Without(g.nodes, id)
           next == Counters(g.next.node, g.next.rel)
           free == RemoveNodeIndexes(g, id, g.nodes[id])
           bare == [free EXCEPT !.nodes = left, !.adjacency = Without(EdgesIn(g.rels), id)]
<1>1. Parts(free, g.nodes, g.rels, next, EdgesIn(g.rels), LabelsIn(left, DOMAIN g.labels),
            UniquesIn(left, DOMAIN g.uniques), RangesIn(left, DOMAIN g.ranges))
  BY IndexedIs, RemoveNodeIndexesIs
<1>2. free.nodes = g.nodes /\ free.adjacency = EdgesIn(g.rels)
  BY <1>1, PartsAre
<1> HIDE DEF free
<1>3. RelsLeft(g.rels, id, 0) = g.rels
  <2>1. \A r : r \in DOMAIN RelsLeft(g.rels, id, 0) <=> r \in DOMAIN g.rels
    BY RelsLeftIs
  <2>2. IsFcn(g.rels)
    BY IndexedIs
  <2>3. \A r \in DOMAIN g.rels : RelsLeft(g.rels, id, 0)[r] = g.rels[r]
    BY <2>1, RelsLeftIs
  <2>4. DOMAIN RelsLeft(g.rels, id, 0) = DOMAIN g.rels
    BY <2>1
  <2> QED BY <2>2, <2>3, <2>4, RelsLeftIs, SameFcn
<1>4. bare = [free EXCEPT !.nodes = Drop(@, {id}), !.adjacency = Drop(@, {id})]
  BY <1>2, Zenon DEF Without
<1>5. Torn(bare, g, id, g.rels)
  <2> DEFINE edges == Without(EdgesIn(g.rels), id)
             ls == LabelsIn(left, DOMAIN g.labels)
             us == UniquesIn(left, DOMAIN g.uniques)
             rs == RangesIn(left, DOMAIN g.ranges)
  <2>1. Parts(free, g.nodes, g.rels, next, EdgesIn(g.rels), ls, us, rs)
    BY <1>1
  <2>2. bare = [free EXCEPT !.nodes = left, !.adjacency = edges]
    OBVIOUS
  <2> HIDE DEF left, next, bare, edges, ls, us, rs
  <2>3. Parts(bare, left, g.rels, next, edges, ls, us, rs)
    BY <2>1, <2>2 DEF Parts
  <2> QED BY <2>3, Zenon DEF Torn, left, next, edges, ls, us, rs
<1> QED BY <1>3, <1>4, <1>5 DEF free

\* One pass of delete_node's loop.
LEMMA CutNext ==
  ASSUME NEW g, NEW id, NEW n \in Nat, n > 0, \A r \in DOMAIN g.rels : r \in Nat, IsFcn(g.rels),
         NEW y, Torn(y, g, id, RelsLeft(g.rels, id, n - 1)), NEW ids,
         \A r : r \in ids <=> r \in DOMAIN g.rels /\ Touches(g.rels[r], id)
  PROVE  Torn(IF n \in ids THEN DeleteRelationship(y, n) ELSE y, g, id, RelsLeft(g.rels, id, n))
<1> DEFINE old == RelsLeft(g.rels, id, n - 1)
           new == RelsLeft(g.rels, id, n)
<1>1. /\ \A r : r \in DOMAIN old <=> r \in DOMAIN g.rels /\ ~(Touches(g.rels[r], id) /\ r <= n - 1)
      /\ \A r \in DOMAIN old : old[r] = g.rels[r]
      /\ IsFcn(old)
  BY RelsLeftIs
<1>2. /\ \A r : r \in DOMAIN new <=> r \in DOMAIN g.rels /\ ~(Touches(g.rels[r], id) /\ r <= n)
      /\ \A r \in DOMAIN new : new[r] = g.rels[r]
      /\ IsFcn(new)
  BY RelsLeftIs
<1> HIDE DEF old, new
<1>3. CASE n \notin ids
  <2>1. \A r : r \in DOMAIN old <=> r \in DOMAIN new
    BY <1>1, <1>2, <1>3
  <2>2. old = new
    BY <1>1, <1>2, <2>1, SameFcn
  <2> QED BY <1>3, <2>2 DEF old, new
<1>4. CASE n \in ids
  <2>1. n \in DOMAIN old
    BY <1>1, <1>4
  <2>2. new = Without(old, n)
    <3> DEFINE w == Without(old, n)
    <3>1. /\ \A r : r \in DOMAIN w <=> r \in DOMAIN old /\ r # n
          /\ \A r \in DOMAIN w : w[r] = old[r]
          /\ IsFcn(w)
      BY LessIs, LessFcn
    <3> HIDE DEF w
    <3>2. \A r : r \in DOMAIN w <=> r \in DOMAIN new
      BY <1>1, <1>2, <1>4, <3>1
    <3>3. \A r \in DOMAIN new : new[r] = w[r]
      BY <1>1, <1>2, <3>1, <3>2
    <3>4. w = new
      BY <1>2, <3>1, <3>2, <3>3, SameFcn
    <3> QED BY <3>4 DEF w
  <2> DEFINE bare == [y EXCEPT !.rels = new]
             left == Without(g.nodes, id)
             next == Counters(g.next.node, g.next.rel)
             ls == LabelsIn(left, DOMAIN g.labels)
             us == UniquesIn(left, DOMAIN g.uniques)
             rs == RangesIn(left, DOMAIN g.ranges)
  <2>3. Parts(y, left, old, next, Without(EdgesIn(old), id), ls, us, rs)
    BY Zenon DEF Torn, old
  <2>4. y.rels = old
    BY <2>3, PartsAre
  <2>5. DeleteRelationship(y, n) = RemoveRelationshipIndexes(bare, n, old[n])
    BY <2>1, <2>2, <2>4, Zenon DEF DeleteRelationship, Without
  <2> HIDE DEF left, next, ls, us, rs
  <2>6. Parts(bare, left, new, next, Without(EdgesIn(old), id), ls, us, rs)
    BY <2>3 DEF Parts
  <2> HIDE DEF bare
  <2>7. WithoutEdge(WithoutEdge(bare.adjacency, old[n].from, "out", n), old[n].to, "inc", n)
          = Without(EdgesIn(new), id)
    BY <2>1, <2>2, <2>6, PartsAre, TornEdgeGoes
  <2>8. DeleteRelationship(y, n) = [bare EXCEPT !.adjacency = Without(EdgesIn(new), id)]
    BY <2>5, <2>7, Zenon DEF RemoveRelationshipIndexes
  <2>9. Parts(DeleteRelationship(y, n), left, new, next, Without(EdgesIn(new), id), ls, us, rs)
    BY <2>6, <2>8 DEF Parts
  <2> QED BY <1>4, <2>9 DEF Torn, left, next, ls, us, rs, new
<1> QED BY <1>3, <1>4

\* delete_node
LEMMA DeleteNodeIs ==
  ASSUME NEW g, Indexed(g), NEW id \in DOMAIN g.nodes, NEW top \in Nat, DOMAIN g.rels
         \subseteq 1 .. top,
         NEW new, new = DeleteNode(g, id)
  PROVE  /\ Indexed(new) /\ new.nodes = Without(g.nodes, id) /\ new.rels = RelsWithout(g.rels, id)
         /\ DOMAIN new.labels = DOMAIN g.labels /\ SameSlots(new, g)
         /\ new.next = Counters(g.next.node, g.next.rel)
<1> DEFINE ids == NodeRelationships(g, id)
           last == Max({0} \cup ids)
           bare == [RemoveNodeIndexes(g, id, g.nodes[id]) EXCEPT
                      !.nodes = Drop(@, {id}), !.adjacency = Drop(@, {id})]
           c == [graph |-> g, id |-> id]
           left == Without(g.nodes, id)
           rels == RelsWithout(g.rels, id)
           next == Counters(g.next.node, g.next.rel)
<1>1. \A r : r \in ids <=> r \in DOMAIN g.rels /\ Touches(g.rels[r], id)
  BY NodeRelationshipsIs
<1>2. last \in Nat /\ \A n \in ids : n \in 1 .. last
  <2>1. ids \in SUBSET (1 .. top)
    BY <1>1
  <2> HIDE DEF ids
  <2> QED BY <2>1, LastId
<1>3. /\ \A r \in DOMAIN g.rels : r \in Nat /\ r > 0
      /\ IsFcn(g.rels) /\ IsFcn(g.nodes) /\ LabelsKnown(g.nodes, DOMAIN g.labels)
  BY IndexedIs
<1>4. new = Cuts!Run(c, bare, ids, last)
  BY DEF DeleteNode, Each, Cuts!Run, CutOp
<1> HIDE DEF ids, last
<1>5. CutInv(c, 0, bare)
  BY <1>3, CutFirst DEF CutInv
<1> HIDE DEF bare
<1>6. ASSUME NEW n \in 1 .. last, NEW y, CutInv(c, n - 1, y)
      PROVE  CutInv(c, n, IF n \in ids THEN CutOp(c, y, n) ELSE y)
  <2>1. Torn(y, g, id, RelsLeft(g.rels, id, n - 1))
    BY <1>6 DEF CutInv
  <2>2. Torn(IF n \in ids THEN DeleteRelationship(y, n) ELSE y, g, id, RelsLeft(g.rels, id, n))
    BY <1>1, <1>2, <1>3, <1>6, <2>1, CutNext
  <2> QED BY <2>2 DEF CutInv, CutOp
<1>7. CutInv(c, last, new)
  <2> HIDE DEF c
  <2>1. \A n \in 1 .. last : \A y :
          CutInv(c, n - 1, y) => CutInv(c, n, IF n \in ids THEN CutOp(c, y, n) ELSE y)
    BY <1>6
  <2> QED BY <1>2, <1>4, <1>5, <2>1, Cuts!LoopKeeps
<1>8. RelsLeft(g.rels, id, last) = rels
  <2>1. \A r : r \in DOMAIN RelsLeft(g.rels, id, last) <=> r \in DOMAIN rels
    BY <1>1, <1>2, RelsLeftIs, RelsWithoutIs
  <2>2. \A r \in DOMAIN rels : RelsLeft(g.rels, id, last)[r] = rels[r]
    BY <2>1, RelsLeftIs, RelsWithoutIs
  <2> QED BY <2>1, <2>2, RelsLeftIs, RelsWithoutIs, SameFcn
<1>9. Torn(new, g, id, rels)
  BY <1>7, <1>8 DEF CutInv
<1> HIDE DEF c
<1>10. Without(EdgesIn(rels), id) = EdgesIn(rels)
  <2>1. id \notin Touched(rels)
    BY RelsWithoutIs DEF Touched, Touches
  <2>2. DOMAIN EdgesIn(rels) = Touched(rels)
    BY DEF EdgesIn
  <2> QED BY <2>1, <2>2, EdgesInFcn, NothingDropped
<1>11. Parts(new, left, rels, next, EdgesIn(rels), LabelsIn(left, DOMAIN g.labels),
             UniquesIn(left, DOMAIN g.uniques), RangesIn(left, DOMAIN g.ranges))
  BY <1>9, <1>10 DEF Torn
<1>12. IsFcn(left) /\ IsFcn(rels) /\ LabelsKnown(left, DOMAIN g.labels)
  <2>1. LabelsKnown(left, DOMAIN g.labels)
    BY <1>3, LessIs DEF LabelsKnown
  <2> QED BY <2>1, LessFcn, RelsWithoutIs
<1> HIDE DEF left, rels
<1>13. /\ Indexed(new) /\ new.nodes = left /\ new.rels = rels /\ new.next = next
       /\ DOMAIN new.labels = DOMAIN g.labels /\ DOMAIN new.uniques = DOMAIN g.uniques
       /\ DOMAIN new.ranges = DOMAIN g.ranges
  BY <1>11, <1>12, Intro
<1> QED BY <1>13 DEF SameSlots, left, rels

-----------------------------------------------------------------------------
(* The steps of a journal call.                                             *)
\* The shapes of a database, of a journal and of the two together.
Sections(h, fields, rels, appears, ends) ==
  h = [fields |-> fields, rels |-> rels, appears |-> appears, ends |-> ends]

IsHistory(h) ==
  /\ Sections(h, h.fields, h.rels, h.appears, h.ends)
  /\ IsFcn(h.fields) /\ IsFcn(h.rels) /\ IsFcn(h.appears) /\ IsFcn(h.ends)
IsDb(d) == d = [graph |-> d.graph, history |-> d.history, mirrors |-> d.mirrors,
                identities |-> d.identities, external |-> d.external, version |-> d.version]

IsJournal(j) == j = [open |-> j.open, api |-> j.api, schema |-> j.schema, at |-> j.at,
    next |-> j.next,
                     ops |-> j.ops, undo |-> j.undo, refused |-> j.refused, calls |-> j.calls]

IsX(x) == x = [d |-> x.d, j |-> x.j] /\ IsDb(x.d) /\ IsHistory(x.d.history) /\ IsJournal(x.j)

\* What no call changes.
SameRest(y, x) ==
  /\ y.d.mirrors = x.d.mirrors /\ y.d.identities = x.d.identities /\ y.d.external = x.d.external
  /\ y.d.version = x.d.version
  /\ y.j.open = x.j.open /\ y.j.api = x.j.api /\ y.j.schema = x.j.schema /\ y.j.at = x.j.at
  /\ y.j.next = x.j.next /\ y.j.calls = x.j.calls

\* y is x with another graph, history, undo list and so on.
Becomes(y, x, graph, history, undo) ==
  /\ IsX(y) /\ SameRest(y, x)
  /\ y.d.graph = graph /\ y.d.history = history /\ y.j.undo = undo

\* An undo list with one more note.
Noted(undo, u) == Append(undo, u)

\* Over makes a function.
LEMMA OverFcn == ASSUME NEW f, NEW more PROVE IsFcn(Over(f, more))
BY DEF Over, IsFcn

\* What the sections of a history are.
LEMMA SectionsAre ==
  ASSUME NEW h, NEW fields, NEW rels, NEW appears, NEW ends,
         Sections(h, fields, rels, appears, ends)
  PROVE  h.fields = fields /\ h.rels = rels /\ h.appears = appears /\ h.ends = ends
BY DEF Sections

\* Writing the section of the fields.
LEMMA FieldsSection ==
  ASSUME NEW h, IsHistory(h), NEW v, IsFcn(v), NEW new, new = [h EXCEPT !.fields = v]
  PROVE  IsHistory(new) /\ Sections(new, v, h.rels, h.appears, h.ends)
<1>1. Sections(new, v, h.rels, h.appears, h.ends)
  BY DEF IsHistory, Sections
<1> QED BY <1>1, SectionsAre DEF IsHistory

\* Writing the section of the edges.
LEMMA EdgesSection ==
  ASSUME NEW h, IsHistory(h), NEW v, IsFcn(v), NEW new, new = [h EXCEPT !.rels = v]
  PROVE  IsHistory(new) /\ Sections(new, h.fields, v, h.appears, h.ends)
<1>1. Sections(new, h.fields, v, h.appears, h.ends)
  BY DEF IsHistory, Sections
<1> QED BY <1>1, SectionsAre DEF IsHistory

\* Nothing done is a step.
LEMMA Refl == ASSUME NEW x, IsX(x) PROVE Becomes(x, x, x.d.graph, x.d.history, x.j.undo)
BY DEF Becomes, SameRest

\* Two steps are a step.
LEMMA Chain ==
  ASSUME NEW x, NEW y, NEW z, NEW g, NEW h, NEW u, NEW g2, NEW h2, NEW u2,
         Becomes(y, x, g, h, u), Becomes(z, y, g2, h2, u2)
  PROVE  Becomes(z, x, g2, h2, u2)
BY DEF Becomes, SameRest

\* What a step is.
LEMMA BecomesIs ==
  ASSUME NEW x, NEW y, NEW g, NEW h, NEW u, Becomes(y, x, g, h, u)
  PROVE  IsX(y) /\ SameRest(y, x) /\ y.d.graph = g /\ y.d.history = h /\ y.j.undo = u
BY DEF Becomes

\* A journal whose other fields are another's.
SameJournal(k, j) ==
  /\ IsJournal(k) /\ k.open = j.open /\ k.api = j.api /\ k.schema = j.schema /\ k.at = j.at
  /\ k.next = j.next /\ k.calls = j.calls

\* Writing the operations of a journal.
LEMMA OpsField ==
  ASSUME NEW j, IsJournal(j), NEW v
  PROVE  SameJournal([j EXCEPT !.ops = v], j) /\ [j EXCEPT !.ops = v].undo = j.undo
BY DEF IsJournal, SameJournal

\* Writing the refusal of a journal.
LEMMA RefusedField ==
  ASSUME NEW j, IsJournal(j), NEW v
  PROVE  SameJournal([j EXCEPT !.refused = v], j) /\ [j EXCEPT !.refused = v].undo = j.undo
BY DEF IsJournal, SameJournal

\* Writing the undo list of a journal.
LEMMA UndoField ==
  ASSUME NEW j, IsJournal(j), NEW v
  PROVE  SameJournal([j EXCEPT !.undo = v], j) /\ [j EXCEPT !.undo = v].undo = v
BY DEF IsJournal, SameJournal

\* A step that writes only the journal.
LEMMA JournalSet ==
  ASSUME NEW x, IsX(x), NEW k, SameJournal(k, x.j)
  PROVE  Becomes([x EXCEPT !.j = k], x, x.d.graph, x.d.history, k.undo)
<1> DEFINE y == [d |-> x.d, j |-> k]
<1>1. [x EXCEPT !.j = k] = y
  BY DEF IsX
<1> QED BY <1>1 DEF Becomes, SameRest, IsX, SameJournal

\* Logging changes no graph, history or undo list.
LEMMA LoggingIs ==
  ASSUME NEW x, IsX(x), NEW op
  PROVE  Becomes(Logging(x, op), x, x.d.graph, x.d.history, x.j.undo)
<1> DEFINE k == [x.j EXCEPT !.ops = Append(@, op)]
<1>1. Logging(x, op) = [x EXCEPT !.j = k]
  BY Zenon DEF Logging
<1>2. IsJournal(x.j)
  BY DEF IsX
<1>3. SameJournal(k, x.j) /\ k.undo = x.j.undo
  BY <1>2, OpsField
<1> HIDE DEF k
<1>4. Becomes([x EXCEPT !.j = k], x, x.d.graph, x.d.history, k.undo)
  BY <1>3, JournalSet
<1> QED BY <1>1, <1>3, <1>4

\* Undoing notes, and changes nothing else.
LEMMA UndoingIs ==
  ASSUME NEW x, IsX(x), NEW u
  PROVE  Becomes(Undoing(x, u), x, x.d.graph, x.d.history, Noted(x.j.undo, u))
<1> DEFINE v == Append(x.j.undo, u)
           k == [x.j EXCEPT !.undo = v]
<1>1. Undoing(x, u) = [x EXCEPT !.j = k]
  BY Zenon DEF Undoing
<1>2. IsJournal(x.j)
  BY DEF IsX
<1>3. SameJournal(k, x.j) /\ k.undo = v
  BY <1>2, UndoField
<1> HIDE DEF k
<1>4. Becomes([x EXCEPT !.j = k], x, x.d.graph, x.d.history, k.undo)
  BY <1>3, JournalSet
<1> QED BY <1>1, <1>3, <1>4 DEF Noted

\* Refusing changes no graph, history or undo list.
LEMMA RefusingIs ==
  ASSUME NEW x, IsX(x)
  PROVE  Becomes(Refusing(x), x, x.d.graph, x.d.history, x.j.undo)
<1>1. ASSUME NEW v PROVE Becomes([x EXCEPT !.j = [x.j EXCEPT !.refused = v]], x, x.d.graph,
      x.d.history, x.j.undo)
  <2> DEFINE k == [x.j EXCEPT !.refused = v]
  <2>1. IsJournal(x.j)
    BY DEF IsX
  <2>2. SameJournal(k, x.j) /\ k.undo = x.j.undo
    BY <2>1, RefusedField
  <2> HIDE DEF k
  <2>3. Becomes([x EXCEPT !.j = k], x, x.d.graph, x.d.history, k.undo)
    BY <2>2, JournalSet
  <2> QED BY <2>2, <2>3 DEF k
<1>2. Refusing(x) = [x EXCEPT !.j = [x.j EXCEPT !.refused = TRUE]]
  BY Zenon DEF Refusing
<1> QED BY <1>1, <1>2, Zenon

\* A step that writes the graph.
LEMMA GraphSet ==
  ASSUME NEW x, IsX(x), NEW g
  PROVE  Becomes([x EXCEPT !.d.graph = g], x, g, x.d.history, x.j.undo)
<1> DEFINE d == [x.d EXCEPT !.graph = g]
           y == [d |-> d, j |-> x.j]
<1>1. [x EXCEPT !.d.graph = g] = y
  BY DEF IsX
<1>2. /\ IsDb(d) /\ d.graph = g /\ d.history = x.d.history /\ d.mirrors = x.d.mirrors
      /\ d.identities = x.d.identities /\ d.external = x.d.external /\ d.version = x.d.version
  BY DEF IsX, IsDb
<1> HIDE DEF d
<1> QED BY <1>1, <1>2 DEF Becomes, SameRest, IsX

\* A step that writes the history.
LEMMA HistorySet ==
  ASSUME NEW x, IsX(x), NEW h, IsHistory(h)
  PROVE  Becomes([x EXCEPT !.d.history = h], x, x.d.graph, h, x.j.undo)
<1> DEFINE d == [x.d EXCEPT !.history = h]
           y == [d |-> d, j |-> x.j]
<1>1. [x EXCEPT !.d.history = h] = y
  BY DEF IsX
<1>2. /\ IsDb(d) /\ d.history = h /\ d.graph = x.d.graph /\ d.mirrors = x.d.mirrors
      /\ d.identities = x.d.identities /\ d.external = x.d.external /\ d.version = x.d.version
  BY DEF IsX, IsDb
<1> HIDE DEF d
<1> QED BY <1>1, <1>2 DEF Becomes, SameRest, IsX

\* A step that writes the edges' histories.
LEMMA EdgesSet ==
  ASSUME NEW x, IsX(x), NEW rels, IsFcn(rels)
  PROVE  Becomes([x EXCEPT !.d.history.rels = rels], x, x.d.graph,
         [x.d.history EXCEPT !.rels = rels], x.j.undo)
<1> DEFINE h == [x.d.history EXCEPT !.rels = rels]
<1>1. IsHistory(h)
  BY EdgesSection DEF IsX
<1>2. [x EXCEPT !.d.history.rels = rels] = [x EXCEPT !.d.history = h]
  BY DEF IsX, IsDb
<1> HIDE DEF h
<1> QED BY <1>1, <1>2, HistorySet DEF h

-----------------------------------------------------------------------------
(* Types.                                                                  *)
GoodProps(props) == IsFcn(props) /\ \A f \in DOMAIN props : props[f] \in Nat
GoodNode(node)   == IsNode(node) /\ GoodProps(node.props)
Change == [at : Nat, value : Nat]
GoodChanges(changes) == changes \in Seq(Change) /\ changes # <<>>
GoodFields(fields) == \A key \in DOMAIN fields : GoodChanges(fields[key])
\* The ids that have a history are bounded, too.
GoodEdges(rels) == \E top \in Nat : DOMAIN rels \subseteq 1 .. top

\* A graph as every operation leaves it: indexed, and typed.
GoodGraph(g) ==
  /\ Indexed(g)
  /\ \A id \in DOMAIN g.nodes : id \in Nat /\ GoodNode(g.nodes[id])
  /\ g.next.node \in Nat /\ g.next.rel \in Nat /\ g.next.rel > 0
  /\ \E top \in Nat : DOMAIN g.rels \subseteq 1 .. top
  /\ \A slot \in DOMAIN g.ranges : slot = <<slot[1], slot[2]>>

\* The notes of an undo list.
UndoKinds == {"edge_history", "lifetime", "history", "created", "replaced", "created_rel",
    "deleted_rel"}
GoodUndo(u) ==
  /\ u.undo \in UndoKinds
  /\ u.undo = "history" => GoodFields(u.fields)
  /\ u.undo = "replaced" => u.id \in Nat /\ GoodNode(u.node)
  /\ u.undo \in {"deleted_rel", "edge_history"} => u.id \in Nat /\ u.id > 0
IsSeq(s) == \E S : s \in Seq(S)
GoodUndos(undo) == IsSeq(undo) /\ \A i \in DOMAIN undo : GoodUndo(undo[i])

\* Append: one element more, at the end.
LEMMA SeqGrows ==
  ASSUME NEW s, IsSeq(s), NEW e
  PROVE  /\ IsSeq(Append(s, e)) /\ Len(s) \in Nat /\ DOMAIN s = 1 .. Len(s)
         /\ Len(Append(s, e)) = Len(s) + 1 /\ DOMAIN Append(s, e) = 1 .. Len(s) + 1
         /\ \A i \in 1 .. Len(s) : Append(s, e)[i] = s[i]
         /\ Append(s, e)[Len(s) + 1] = e
<1>1. PICK S : s \in Seq(S)
  BY DEF IsSeq
<1>2. s \in Seq(S \cup {e})
  BY <1>1
<1>3. Append(s, e) \in Seq(S \cup {e})
  BY <1>2
<1> QED BY <1>2, <1>3 DEF IsSeq

\* A good note keeps an undo list good.
LEMMA UndosGrow ==
  ASSUME NEW undo, GoodUndos(undo), NEW u, GoodUndo(u)
  PROVE  GoodUndos(Append(undo, u))
<1>1. IsSeq(undo) /\ \A i \in DOMAIN undo : GoodUndo(undo[i])
  BY DEF GoodUndos
<1>2. ASSUME NEW i \in DOMAIN Append(undo, u) PROVE GoodUndo(Append(undo, u)[i])
  <2>1. i \in 1 .. Len(undo) \/ i = Len(undo) + 1
    BY <1>1, SeqGrows
  <2> QED BY <1>1, <2>1, SeqGrows
<1> QED BY <1>1, <1>2, SeqGrows DEF GoodUndos

\* A counter is past every id it has seen.
LEMMA LaterIs ==
  ASSUME NEW next \in Nat, NEW id \in Nat
  PROVE  Later(next, id) \in Nat /\ Later(next, id) >= next /\ Later(next, id) > id
<1> DEFINE S == {next, id + 1}
<1>1. \E x \in S : \A y \in S : x >= y
  OBVIOUS
<1>2. Max(S) = CHOOSE x \in S : \A y \in S : x >= y
  BY Zenon DEF Max
<1>3. Max(S) \in S /\ \A y \in S : Max(S) >= y
  <2> HIDE DEF S
  <2> QED BY <1>1, <1>2
<1> QED BY <1>3 DEF Later

\* The two counters.
LEMMA CountersAre == ASSUME NEW a, NEW b PROVE Counters(a, b).node = a /\ Counters(a, b).rel = b
BY DEF Counters

\* What a good graph is.
LEMMA GoodGraphIs ==
  ASSUME NEW g, GoodGraph(g)
  PROVE  /\ Indexed(g)
         /\ \A id \in DOMAIN g.nodes : id \in Nat /\ GoodNode(g.nodes[id])
         /\ g.next.node \in Nat /\ g.next.rel \in Nat /\ g.next.rel > 0
         /\ \E top \in Nat : DOMAIN g.rels \subseteq 1 .. top
         /\ \A slot \in DOMAIN g.ranges : slot = <<slot[1], slot[2]>>
BY DEF GoodGraph

\* restore_node keeps a graph good.
LEMMA RestoreNodeGood ==
  ASSUME NEW g, GoodGraph(g), NEW id \in Nat, NEW node, GoodNode(node)
  PROVE  GoodGraph(RestoreNode(g, id, node))
<1> DEFINE new == RestoreNode(g, id, node)
<1>1. /\ Indexed(new) /\ new.nodes = Put(g.nodes, id, node) /\ new.rels = g.rels
      /\ SameSlots(new, g) /\ new.next = Counters(Later(g.next.node, id), g.next.rel)
  BY GoodGraphIs, RestoreNodeIs
<1> HIDE DEF new
<1>2. \A n \in DOMAIN new.nodes : n \in Nat /\ GoodNode(new.nodes[n])
  BY <1>1, GoodGraphIs, PutIs
<1>3. new.next.node \in Nat /\ new.next.rel \in Nat /\ new.next.rel > 0
  <2>1. g.next.node \in Nat /\ g.next.rel \in Nat /\ g.next.rel > 0
    BY GoodGraphIs
  <2>2. Later(g.next.node, id) \in Nat
    BY <2>1, LaterIs
  <2> QED BY <1>1, <2>1, <2>2, CountersAre
<1>4. \E top \in Nat : DOMAIN new.rels \subseteq 1 .. top
  BY <1>1, GoodGraphIs
<1>5. \A slot \in DOMAIN new.ranges : slot = <<slot[1], slot[2]>>
  BY <1>1, GoodGraphIs DEF SameSlots
<1> QED BY <1>1, <1>2, <1>3, <1>4, <1>5 DEF GoodGraph, new

\* A changed node is good.
LEMMA ChangedGood ==
  ASSUME NEW node, GoodNode(node), NEW props, GoodProps(props)
  PROVE  GoodNode(Changed(node, props))
<1>1. GoodProps(Over(node.props, props))
  BY DEF GoodNode, GoodProps, Over, IsFcn
<1>2. Changed(node, props).props = Over(node.props, props) /\ IsNode(Changed(node, props))
  BY DEF Changed, IsNode
<1> QED BY <1>1, <1>2 DEF GoodNode

\* update_node keeps a graph good.
LEMMA UpdateNodeGood ==
  ASSUME NEW g, GoodGraph(g), NEW id \in DOMAIN g.nodes, NEW props, GoodProps(props)
  PROVE  GoodGraph(UpdateNode(g, id, props))
<1> DEFINE new == UpdateNode(g, id, props)
<1>0. GoodNode(g.nodes[id]) /\ IsNode(g.nodes[id])
  BY GoodGraphIs DEF GoodNode
<1>1. /\ Indexed(new) /\ new.nodes = Put(g.nodes, id, Changed(g.nodes[id], props)) /\ new.rels
         = g.rels
      /\ SameSlots(new, g) /\ new.next = Counters(g.next.node, g.next.rel)
  BY <1>0, GoodGraphIs, UpdateNodeIs
<1> HIDE DEF new
<1>2. \A n \in DOMAIN new.nodes : n \in Nat /\ GoodNode(new.nodes[n])
  BY <1>0, <1>1, GoodGraphIs, PutIs, ChangedGood
<1>3. new.next.node \in Nat /\ new.next.rel \in Nat /\ new.next.rel > 0
  BY <1>1, GoodGraphIs, CountersAre
<1>4. \E top \in Nat : DOMAIN new.rels \subseteq 1 .. top
  BY <1>1, GoodGraphIs
<1>5. \A slot \in DOMAIN new.ranges : slot = <<slot[1], slot[2]>>
  BY <1>1, GoodGraphIs DEF SameSlots
<1> QED BY <1>1, <1>2, <1>3, <1>4, <1>5 DEF GoodGraph, new

\* restore_relationship keeps a graph good.
LEMMA RestoreRelationshipGood ==
  ASSUME NEW g, GoodGraph(g), NEW id \in Nat, id > 0, NEW rel
  PROVE  GoodGraph(RestoreRelationship(g, id, rel))
<1> DEFINE new == RestoreRelationship(g, id, rel)
<1>1. /\ Indexed(new) /\ new.nodes = g.nodes /\ new.rels = Put(g.rels, id, rel)
      /\ SameSlots(new, g) /\ new.next = Counters(g.next.node, Later(g.next.rel, id))
  BY GoodGraphIs, RestoreRelationshipIs
<1> HIDE DEF new
<1>2. \A n \in DOMAIN new.nodes : n \in Nat /\ GoodNode(new.nodes[n])
  BY <1>1, GoodGraphIs
<1>3. new.next.node \in Nat /\ new.next.rel \in Nat /\ new.next.rel > 0
  <2>1. g.next.node \in Nat /\ g.next.rel \in Nat /\ g.next.rel > 0
    BY GoodGraphIs
  <2>2. Later(g.next.rel, id) \in Nat /\ Later(g.next.rel, id) >= g.next.rel
    BY <2>1, LaterIs
  <2> QED BY <1>1, <2>1, <2>2, CountersAre
<1>4. \E top \in Nat : DOMAIN new.rels \subseteq 1 .. top
  <2>1. PICK top \in Nat : DOMAIN g.rels \subseteq 1 .. top
    BY GoodGraphIs
  <2>2. \A r \in DOMAIN new.rels : r \in 1 .. top + id
    BY <1>1, <2>1, PutIs
  <2> QED BY <2>2
<1>5. \A slot \in DOMAIN new.ranges : slot = <<slot[1], slot[2]>>
  BY <1>1, GoodGraphIs DEF SameSlots
<1> QED BY <1>1, <1>2, <1>3, <1>4, <1>5 DEF GoodGraph, new

\* delete_relationship keeps a graph good.
LEMMA DeleteRelationshipGood ==
  ASSUME NEW g, GoodGraph(g), NEW id
  PROVE  GoodGraph(DeleteRelationship(g, id))
<1> DEFINE new == DeleteRelationship(g, id)
<1>1. /\ Indexed(new) /\ new.nodes = g.nodes /\ new.rels = Without(g.rels, id)
      /\ SameSlots(new, g) /\ new.next = Counters(g.next.node, g.next.rel)
  BY GoodGraphIs, DeleteRelationshipIs
<1> HIDE DEF new
<1>2. \A n \in DOMAIN new.nodes : n \in Nat /\ GoodNode(new.nodes[n])
  BY <1>1, GoodGraphIs
<1>3. new.next.node \in Nat /\ new.next.rel \in Nat /\ new.next.rel > 0
  BY <1>1, GoodGraphIs, CountersAre
<1>4. \E top \in Nat : DOMAIN new.rels \subseteq 1 .. top
  BY <1>1, GoodGraphIs, LessIs
<1>5. \A slot \in DOMAIN new.ranges : slot = <<slot[1], slot[2]>>
  BY <1>1, GoodGraphIs DEF SameSlots
<1> QED BY <1>1, <1>2, <1>3, <1>4, <1>5 DEF GoodGraph, new

\* delete_node keeps a graph good.
LEMMA DeleteNodeGood ==
  ASSUME NEW g, GoodGraph(g), NEW id
  PROVE  GoodGraph(DeleteNode(g, id))
<1> DEFINE new == DeleteNode(g, id)
<1>0. CASE id \notin DOMAIN g.nodes
  BY <1>0, Zenon DEF DeleteNode
<1>1. CASE id \in DOMAIN g.nodes
  <2>0. PICK top \in Nat : DOMAIN g.rels \subseteq 1 .. top
    BY GoodGraphIs
  <2>1. /\ Indexed(new) /\ new.nodes = Without(g.nodes, id) /\ new.rels = RelsWithout(g.rels, id)
        /\ SameSlots(new, g) /\ new.next = Counters(g.next.node, g.next.rel)
    BY <1>1, <2>0, GoodGraphIs, DeleteNodeIs
  <2> HIDE DEF new
  <2>2. \A n \in DOMAIN new.nodes : n \in Nat /\ GoodNode(new.nodes[n])
    BY <2>1, GoodGraphIs, LessIs
  <2>3. new.next.node \in Nat /\ new.next.rel \in Nat /\ new.next.rel > 0
    BY <2>1, GoodGraphIs, CountersAre
  <2>4. \E top2 \in Nat : DOMAIN new.rels \subseteq 1 .. top2
    BY <2>0, <2>1, RelsWithoutIs
  <2>5. \A slot \in DOMAIN new.ranges : slot = <<slot[1], slot[2]>>
    BY <2>1, GoodGraphIs DEF SameSlots
  <2> QED BY <2>1, <2>2, <2>3, <2>4, <2>5 DEF GoodGraph, new
<1> QED BY <1>0, <1>1

\* sync_indexes and sync_uniques keep a graph good.
LEMMA SyncGood ==
  ASSUME NEW g, GoodGraph(g), NEW us, NEW rs, \A slot \in rs : slot = <<slot[1], slot[2]>>
  PROVE  GoodGraph(SyncUniques(SyncIndexes(g, rs), us))
<1> DEFINE mid == SyncIndexes(g, rs)
           new == SyncUniques(mid, us)
<1>1. Indexed(mid) /\ mid.nodes = g.nodes /\ mid.rels = g.rels /\ mid.next = g.next
      /\ DOMAIN mid.ranges = rs
  BY GoodGraphIs, SyncIndexesIs
<1> HIDE DEF mid
<1>2. Indexed(new) /\ new.nodes = g.nodes /\ new.rels = g.rels /\ new.next = g.next
      /\ DOMAIN new.ranges = rs
  BY <1>1, SyncUniquesIs
<1> HIDE DEF new
<1>3. GoodGraph(new)
  BY <1>2, GoodGraphIs DEF GoodGraph
<1> QED BY <1>3 DEF new, mid

\* reset_next_ids keeps a graph good.
LEMMA ResetGood ==
  ASSUME NEW g, GoodGraph(g), NEW next, next = Counters(next.node, next.rel),
         next.node \in Nat, next.rel \in Nat, next.rel > 0
  PROVE  GoodGraph(ResetNextIds(g, next))
<1> DEFINE new == ResetNextIds(g, next)
           node == next.node
           rel == next.rel
<1>1. Indexed(new) /\ new.nodes = g.nodes /\ new.rels = g.rels /\ new.next = Counters(node, rel)
      /\ DOMAIN new.ranges = DOMAIN g.ranges
  <2>1. Indexed(g)
    BY GoodGraphIs
  <2>2. new = [g EXCEPT !.next = Counters(node, rel)]
    BY DEF ResetNextIds
  <2> HIDE DEF node, rel, new
  <2>3. Parts(new, g.nodes, g.rels, Counters(node, rel), EdgesIn(g.rels),
        LabelsIn(g.nodes, DOMAIN g.labels),
              UniquesIn(g.nodes, DOMAIN g.uniques), RangesIn(g.nodes, DOMAIN g.ranges))
    BY <2>1, <2>2, IndexedIs DEF Parts
  <2> QED BY <2>1, <2>3, IndexedIs, Intro
<1> HIDE DEF new
<1>2. new.next.node = next.node /\ new.next.rel = next.rel
  BY <1>1, CountersAre
<1>3. GoodGraph(new)
  BY <1>1, <1>2, GoodGraphIs DEF GoodGraph
<1> QED BY <1>3 DEF new

-----------------------------------------------------------------------------
\* A count over part of a sequence's places.
LEMMA BoundedCount ==
  ASSUME NEW n \in Nat, NEW S \in SUBSET (1 .. n)
  PROVE  Max({0} \cup S) \in 0 .. n
<1> DEFINE m == Max({0} \cup S)
<1>1. m \in Nat /\ m \in {0} \cup S
  BY LastId
<1> HIDE DEF m
<1>2. m \in 0 .. n
  BY <1>1
<1> QED BY <1>2 DEF m

\* History::insert keeps a history typed, and makes one that is not empty.
LEMMA InsertChangeGood ==
  ASSUME NEW changes \in Seq(Change), NEW at \in Nat, NEW value \in Nat
  PROVE  GoodChanges(InsertChange(changes, at, value))
<1> DEFINE before1 == CountBefore(changes, at)
           upto == CountUpTo(changes, at)
           a == SubSeq(changes, 1, before1)
           b == <<[at |-> at, value |-> value]>>
           c == SubSeq(changes, upto + 1, Len(changes))
<1>1. before1 \in 0 .. Len(changes) /\ upto \in 0 .. Len(changes)
  <2>1. Len(changes) \in Nat /\ DOMAIN changes = 1 .. Len(changes)
    OBVIOUS
  <2>2. /\ {i \in DOMAIN changes : changes[i].at < at} \in SUBSET (1 .. Len(changes))
        /\ {i \in DOMAIN changes : changes[i].at <= at} \in SUBSET (1 .. Len(changes))
    BY <2>1
  <2> QED BY <2>1, <2>2, BoundedCount DEF CountBefore, CountUpTo
<1> HIDE DEF before1, upto
<1>2. a \in Seq(Change) /\ c \in Seq(Change)
  BY <1>1
<1>3. b \in Seq(Change) /\ Len(b) = 1
  <2>1. [at |-> at, value |-> value] \in Change
    BY DEF Change
  <2> QED BY <2>1
<1> HIDE DEF a, b, c
<1>4. a \o b \o c \in Seq(Change) /\ Len(a \o b \o c) >= 1
  <2>1. ASSUME NEW S, NEW s \in Seq(S), NEW t \in Seq(S)
        PROVE  s \o t \in Seq(S) /\ Len(s \o t) = Len(s) + Len(t) /\ Len(s) \in Nat
    OBVIOUS
  <2>2. a \o b \in Seq(Change) /\ Len(a \o b) = Len(a) + Len(b) /\ Len(a) \in Nat
    BY <1>2, <1>3, <2>1
  <2>3. (a \o b) \o c \in Seq(Change) /\ Len((a \o b) \o c) = Len(a \o b) + Len(c) /\ Len(c) \in Nat
    BY <1>2, <2>1, <2>2
  <2> QED BY <1>3, <2>2, <2>3
<1>5. a \o b \o c # <<>>
  BY <1>4
<1> QED BY <1>4, <1>5 DEF GoodChanges, InsertChange, a, b, c, before1, upto

\* The current value of a history is a value.
LEMMA CurrentGood ==
  ASSUME NEW changes, GoodChanges(changes)
  PROVE  Current(changes) \in Nat
<1>1. changes \in Seq(Change) /\ Len(changes) # 0
  BY DEF GoodChanges
<1>2. changes[Len(changes)] \in Change
  BY <1>1
<1> QED BY <1>2 DEF Current, Last, Change

\* Writing field histories keeps them typed.
LEMMA RecordHistoryTyped ==
  ASSUME NEW h, IsHistory(h), GoodFields(h.fields), NEW id, NEW at \in Nat, NEW props,
         GoodProps(props),
         NEW fields, NEW new, new = RecordHistory(h, id, at, props, fields)
  PROVE  /\ IsHistory(new) /\ GoodFields(new.fields)
         /\ new.rels = h.rels /\ new.appears = h.appears /\ new.ends = h.ends
<1> DEFINE changed == {<<id, f>> : f \in fields \cap DOMAIN props}
           write(key) == InsertChange((IF key \in DOMAIN h.fields THEN h.fields[key]
               ELSE <<>>), at, props[key[2]])
           more == [key \in changed |-> write(key)]
           all == Over(h.fields, more)
<1>1. new = [h EXCEPT !.fields = all]
  BY Zenon DEF RecordHistory
<1>2. /\ IsHistory(new) /\ new.fields = all
      /\ new.rels = h.rels /\ new.appears = h.appears /\ new.ends = h.ends
  <2>1. IsFcn(all)
    BY OverFcn
  <2> HIDE DEF all
  <2> QED BY <1>1, <2>1, FieldsSection, SectionsAre
<1>3. \A key \in changed : GoodChanges(write(key))
  <2> SUFFICES ASSUME NEW key \in changed PROVE GoodChanges(write(key))
    OBVIOUS
  <2>1. props[key[2]] \in Nat
    BY DEF GoodProps
  <2>2. (IF key \in DOMAIN h.fields THEN h.fields[key] ELSE <<>>) \in Seq(Change)
    BY DEF GoodFields, GoodChanges
  <2> QED BY <2>1, <2>2, InsertChangeGood
<1>4. DOMAIN more = changed /\ \A key \in changed : more[key] = write(key)
  OBVIOUS
<1> HIDE DEF more, write
<1>5. /\ \A key : key \in DOMAIN all <=> key \in DOMAIN h.fields \/ key \in changed
      /\ \A key \in DOMAIN all : all[key] = IF key \in changed THEN write(key) ELSE h.fields[key]
  BY <1>4 DEF Over
<1> HIDE DEF all
<1>6. GoodFields(all)
  BY <1>3, <1>5 DEF GoodFields
<1> QED BY <1>2, <1>6

\* Every dated field that is written has a history.
LEMMA RecordedFields ==
  ASSUME NEW h, IsHistory(h), GoodFields(h.fields), NEW id, NEW at \in Nat, NEW props,
         GoodProps(props),
         NEW fields, NEW new, new = RecordHistory(h, id, at, props, fields)
  PROVE  \A f \in fields \cap DOMAIN props : <<id, f>> \in DOMAIN new.fields
<1> DEFINE changed == {<<id, f>> : f \in fields \cap DOMAIN props}
           write(key) == InsertChange((IF key \in DOMAIN h.fields THEN h.fields[key]
               ELSE <<>>), at, props[key[2]])
           more == [key \in changed |-> write(key)]
           all == Over(h.fields, more)
<1>1. new = [h EXCEPT !.fields = all]
  BY Zenon DEF RecordHistory
<1>2. /\ IsHistory(new) /\ new.fields = all
      /\ new.rels = h.rels /\ new.appears = h.appears /\ new.ends = h.ends
  <2>1. IsFcn(all)
    BY OverFcn
  <2> HIDE DEF all
  <2> QED BY <1>1, <2>1, FieldsSection, SectionsAre
<1>3. \A key \in changed : GoodChanges(write(key))
  <2> SUFFICES ASSUME NEW key \in changed PROVE GoodChanges(write(key))
    OBVIOUS
  <2>1. props[key[2]] \in Nat
    BY DEF GoodProps
  <2>2. (IF key \in DOMAIN h.fields THEN h.fields[key] ELSE <<>>) \in Seq(Change)
    BY DEF GoodFields, GoodChanges
  <2> QED BY <2>1, <2>2, InsertChangeGood
<1>4. DOMAIN more = changed /\ \A key \in changed : more[key] = write(key)
  OBVIOUS
<1> HIDE DEF more, write
<1>5. /\ \A key : key \in DOMAIN all <=> key \in DOMAIN h.fields \/ key \in changed
      /\ \A key \in DOMAIN all : all[key] = IF key \in changed THEN write(key) ELSE h.fields[key]
  BY <1>4 DEF Over
<1> HIDE DEF all
<1> QED BY <1>2, <1>5

\* What an update stores is typed.
LEMMA CurrentPropsGood ==
  ASSUME NEW h, GoodFields(h.fields), NEW id, NEW props, GoodProps(props), NEW fields,
         \A f \in fields : <<id, f>> \in DOMAIN h.fields
  PROVE  GoodProps(CurrentProps(h, id, props, fields))
<1> DEFINE now == [f \in fields |-> Current(h.fields[<<id, f>>])]
<1>1. \A f \in DOMAIN now : now[f] \in Nat
  BY CurrentGood DEF GoodFields
<1> HIDE DEF now
<1>2. GoodProps(Over(props, now))
  BY <1>1 DEF GoodProps, Over, IsFcn
<1> QED BY <1>2 DEF CurrentProps, now

-----------------------------------------------------------------------------
(* Each step keeps the types.                                               *)

\* A database with the journal of its open statement, in the form a call keeps.
GoodX(x) ==
  /\ IsX(x) /\ GoodGraph(x.d.graph) /\ GoodFields(x.d.history.fields)
  /\ GoodEdges(x.d.history.rels) /\ GoodUndos(x.j.undo) /\ x.j.at \in Nat

\* What a good database with its journal is.
LEMMA GoodXIs ==
  ASSUME NEW x, GoodX(x)
  PROVE  IsX(x) /\ GoodGraph(x.d.graph) /\ IsHistory(x.d.history) /\ GoodFields(x.d.history.fields)
         /\ GoodEdges(x.d.history.rels)
         /\ GoodUndos(x.j.undo) /\ x.j.at \in Nat
BY DEF GoodX, IsX

\* What a call is made of: each step changes one thing and notes how to undo it.
Quiet(y, x) == Becomes(y, x, x.d.graph, x.d.history, x.j.undo)
NodeCreated(y, x, node) ==
  Becomes(y, x, CreateNode(x.d.graph, node), x.d.history,
          Noted(x.j.undo, [undo |-> "created", id |-> x.d.graph.next.node]))

HistoryUndo(x, id) ==
  [undo |-> "history", id |-> id,
      fields |-> Restrict(x.d.history.fields, FieldsOf(x.d.history, id))]

FieldsWritten(y, x, id, props, fields) ==
  Becomes(y, x, x.d.graph, RecordHistory(x.d.history, id, x.j.at, props, fields),
          Noted(x.j.undo, HistoryUndo(x, id)))

LifetimeUndo(x, id) ==
  [undo |-> "lifetime", id |-> id, appears |-> Optional(x.d.history.appears, id),
   ends |-> Optional(x.d.history.ends, id)]

LifetimeSet(y, x, id, appears, ends) ==
  Becomes(y, x, x.d.graph, SetLifetime(x.d.history, id, appears, ends),
      Noted(x.j.undo, LifetimeUndo(x, id)))

NodeUndo(x, id) == [undo |-> "replaced", id |-> id, node |-> x.d.graph.nodes[id]]
NodeChanged(y, x, id, props) ==
  Becomes(y, x, UpdateNode(x.d.graph, id, props), x.d.history, Noted(x.j.undo, NodeUndo(x, id)))

EdgeCreated(y, x, rel) ==
  Becomes(y, x, CreateRelationship(x.d.graph, rel), x.d.history,
          Noted(x.j.undo, [undo |-> "created_rel", id |-> x.d.graph.next.rel]))

EdgeUndo(x, id) == [undo |-> "edge_history", id |-> id, edge |-> Optional(x.d.history.rels, id)]
EdgeDated(y, x, id, edge) ==
  Becomes(y, x, x.d.graph, [x.d.history EXCEPT !.rels = Put(@, id, edge)],
      Noted(x.j.undo, EdgeUndo(x, id)))

EdgeCut(y, x, id) ==
  Becomes(y, x, DeleteRelationship(x.d.graph, id), x.d.history,
          Noted(x.j.undo, [undo |-> "deleted_rel", id |-> id, rel |-> x.d.graph.rels[id]]))

NodeCut(y, x, id) ==
  Becomes(y, x, DeleteNode(x.d.graph, id), x.d.history, Noted(x.j.undo, NodeUndo(x, id)))

\* A noted step keeps it good.
LEMMA StepGood ==
  ASSUME NEW x, GoodX(x), NEW y, NEW g, NEW h, NEW u, Becomes(y, x, g, h, Noted(x.j.undo, u)),
         GoodGraph(g), GoodFields(h.fields), GoodEdges(h.rels), GoodUndo(u)
  PROVE  GoodX(y)
<1>1. GoodUndos(Noted(x.j.undo, u))
  BY GoodXIs, UndosGrow DEF Noted
<1> QED BY <1>1, GoodXIs, BecomesIs DEF GoodX, SameRest

\* So does one that changes nothing to undo.
LEMMA QuietGood == ASSUME NEW x, GoodX(x), NEW y, Quiet(y, x) PROVE GoodX(y)
BY GoodXIs, BecomesIs DEF GoodX, SameRest, Quiet

\* Creating a node keeps it good.
LEMMA NodeCreatedGood ==
  ASSUME NEW x, GoodX(x), NEW node, GoodNode(node), NEW y, NodeCreated(y, x, node)
  PROVE  GoodX(y)
<1>1. x.d.graph.next.node \in Nat
  BY GoodXIs, GoodGraphIs
<1>2. GoodGraph(CreateNode(x.d.graph, node))
  BY <1>1, GoodXIs, RestoreNodeGood DEF CreateNode
<1>3. GoodUndo([undo |-> "created", id |-> x.d.graph.next.node])
  BY DEF GoodUndo, UndoKinds
<1> QED BY <1>2, <1>3, GoodXIs, StepGood DEF NodeCreated

\* The note of a node's field histories is good.
LEMMA HistoryUndoGood == ASSUME NEW x, GoodX(x), NEW id PROVE GoodUndo(HistoryUndo(x, id))
<1>1. GoodFields(Restrict(x.d.history.fields, FieldsOf(x.d.history, id)))
  BY GoodXIs DEF GoodFields, Restrict, FieldsOf
<1> QED BY <1>1 DEF GoodUndo, UndoKinds, HistoryUndo

\* Writing field histories keeps it good.
LEMMA FieldsWrittenGood ==
  ASSUME NEW x, GoodX(x), NEW id, NEW props, GoodProps(props), NEW fields,
         NEW y, FieldsWritten(y, x, id, props, fields)
  PROVE  GoodX(y)
<1> DEFINE h == RecordHistory(x.d.history, id, x.j.at, props, fields)
<1>1. GoodFields(h.fields) /\ h.rels = x.d.history.rels
  <2>1. IsHistory(x.d.history) /\ GoodFields(x.d.history.fields) /\ x.j.at \in Nat
    BY GoodXIs
  <2>2. h = RecordHistory(x.d.history, id, x.j.at, props, fields)
    OBVIOUS
  <2> HIDE DEF h
  <2>3. /\ IsHistory(h) /\ GoodFields(h.fields) /\ h.rels = x.d.history.rels
        /\ h.appears = x.d.history.appears /\ h.ends = x.d.history.ends
    BY <2>1, <2>2, RecordHistoryTyped
  <2> QED BY <2>3
<1> HIDE DEF h
<1>2. Becomes(y, x, x.d.graph, h, Noted(x.j.undo, HistoryUndo(x, id)))
  BY DEF FieldsWritten, h
<1> QED BY <1>1, <1>2, HistoryUndoGood, GoodXIs, StepGood

\* The note of a node is good.
LEMMA NodeUndoGood ==
  ASSUME NEW x, GoodX(x), NEW id \in DOMAIN x.d.graph.nodes
  PROVE  GoodUndo(NodeUndo(x, id))
<1>1. id \in Nat /\ GoodNode(x.d.graph.nodes[id])
  BY GoodXIs, GoodGraphIs
<1> QED BY <1>1 DEF GoodUndo, UndoKinds, NodeUndo

\* Changing a node keeps it good.
LEMMA NodeChangedGood ==
  ASSUME NEW x, GoodX(x), NEW id \in DOMAIN x.d.graph.nodes, NEW props, GoodProps(props),
         NEW y, NodeChanged(y, x, id, props)
  PROVE  GoodX(y)
<1>1. GoodGraph(UpdateNode(x.d.graph, id, props))
  BY GoodXIs, UpdateNodeGood
<1> QED BY <1>1, NodeUndoGood, GoodXIs, StepGood DEF NodeChanged

\* Creating a relationship keeps it good.
LEMMA EdgeCreatedGood ==
  ASSUME NEW x, GoodX(x), NEW rel, NEW y, EdgeCreated(y, x, rel)
  PROVE  GoodX(y)
<1>1. x.d.graph.next.rel \in Nat /\ x.d.graph.next.rel > 0
  BY GoodXIs, GoodGraphIs
<1>2. GoodGraph(CreateRelationship(x.d.graph, rel))
  BY <1>1, GoodXIs, RestoreRelationshipGood DEF CreateRelationship
<1>3. GoodUndo([undo |-> "created_rel", id |-> x.d.graph.next.rel])
  BY DEF GoodUndo, UndoKinds
<1> QED BY <1>2, <1>3, GoodXIs, StepGood DEF EdgeCreated

\* Writing an edge's history keeps it good.
LEMMA EdgeDatedGood ==
  ASSUME NEW x, GoodX(x), NEW id \in Nat, id > 0, NEW edge, NEW y, EdgeDated(y, x, id, edge)
  PROVE  GoodX(y)
<1> DEFINE h == [x.d.history EXCEPT !.rels = Put(@, id, edge)]
<1>1. h.fields = x.d.history.fields /\ h.rels = Put(x.d.history.rels, id, edge)
  <2>1. IsHistory(x.d.history) /\ IsFcn(Put(x.d.history.rels, id, edge))
    BY GoodXIs, PutFcn
  <2>2. h = [x.d.history EXCEPT !.rels = Put(x.d.history.rels, id, edge)]
    BY Zenon
  <2> HIDE DEF h
  <2> QED BY <2>1, <2>2, EdgesSection, SectionsAre
<1>0. GoodEdges(Put(x.d.history.rels, id, edge))
  <2>1. PICK top \in Nat : DOMAIN x.d.history.rels \subseteq 1 .. top
    BY GoodXIs DEF GoodEdges
  <2>2. \A r \in DOMAIN Put(x.d.history.rels, id, edge) : r \in 1 .. top + id
    BY <2>1, PutIs
  <2> QED BY <2>2 DEF GoodEdges
<1>2. GoodUndo(EdgeUndo(x, id))
  BY DEF GoodUndo, UndoKinds, EdgeUndo
<1> HIDE DEF h
<1>3. Becomes(y, x, x.d.graph, h, Noted(x.j.undo, EdgeUndo(x, id)))
  BY DEF EdgeDated, h
<1> QED BY <1>0, <1>1, <1>2, <1>3, GoodXIs, StepGood

\* Deleting a relationship keeps it good.
LEMMA EdgeCutGood ==
  ASSUME NEW x, GoodX(x), NEW id \in DOMAIN x.d.graph.rels, NEW y, EdgeCut(y, x, id)
  PROVE  GoodX(y)
<1>1. id \in Nat /\ id > 0
  BY GoodXIs, GoodGraphIs
<1>2. GoodGraph(DeleteRelationship(x.d.graph, id))
  BY GoodXIs, DeleteRelationshipGood
<1>3. GoodUndo([undo |-> "deleted_rel", id |-> id, rel |-> x.d.graph.rels[id]])
  BY <1>1 DEF GoodUndo, UndoKinds
<1> QED BY <1>2, <1>3, GoodXIs, StepGood DEF EdgeCut

\* Deleting a node keeps it good.
LEMMA NodeCutGood ==
  ASSUME NEW x, GoodX(x), NEW id \in DOMAIN x.d.graph.nodes, NEW y, NodeCut(y, x, id)
  PROVE  GoodX(y)
<1>1. GoodGraph(DeleteNode(x.d.graph, id))
  BY GoodXIs, DeleteNodeGood
<1> QED BY <1>1, NodeUndoGood, GoodXIs, StepGood DEF NodeCut

-----------------------------------------------------------------------------
(* Each call is a chain of steps.                                           *)
\* A quiet step after a step is lost in it.
LEMMA Silent ==
  ASSUME NEW x, NEW y, NEW z, NEW g, NEW h, NEW u, Becomes(y, x, g, h, u), Quiet(z, y)
  PROVE  Becomes(z, x, g, h, u)
BY Chain, BecomesIs DEF Quiet

\* Logging is quiet.
LEMMA LoggingQuiet == ASSUME NEW x, IsX(x), NEW op PROVE Quiet(Logging(x, op), x)
BY LoggingIs DEF Quiet

\* Refusing is quiet.
LEMMA RefusingQuiet == ASSUME NEW x, IsX(x) PROVE Quiet(Refusing(x), x)
BY RefusingIs DEF Quiet

\* Doing nothing is quiet.
LEMMA SelfQuiet == ASSUME NEW x, IsX(x) PROVE Quiet(x, x)
BY Refl DEF Quiet

\* A note, then a write of the history it is about.
LEMMA NotedHistory ==
  ASSUME NEW x, IsX(x), NEW u, NEW h, IsHistory(h), NEW y,
         y = [Undoing(x, u) EXCEPT !.d.history = h]
  PROVE  Becomes(y, x, x.d.graph, h, Noted(x.j.undo, u))
<1> DEFINE s == Undoing(x, u)
<1>1. Becomes(s, x, x.d.graph, x.d.history, Noted(x.j.undo, u))
  BY UndoingIs
<1>2. IsX(s) /\ s.d.graph = x.d.graph /\ s.j.undo = Noted(x.j.undo, u)
  BY <1>1, BecomesIs
<1> HIDE DEF s
<1>3. Becomes(y, s, s.d.graph, h, s.j.undo)
  BY <1>2, HistorySet DEF s
<1> QED BY <1>1, <1>2, <1>3, Chain

\* A note, then a write of the graph.
LEMMA NotedGraph ==
  ASSUME NEW x, IsX(x), NEW u, NEW g, NEW y, y = [Undoing(x, u) EXCEPT !.d.graph = g]
  PROVE  Becomes(y, x, g, x.d.history, Noted(x.j.undo, u))
<1> DEFINE s == Undoing(x, u)
<1>1. Becomes(s, x, x.d.graph, x.d.history, Noted(x.j.undo, u))
  BY UndoingIs
<1>2. IsX(s) /\ s.d.history = x.d.history /\ s.j.undo = Noted(x.j.undo, u)
  BY <1>1, BecomesIs
<1> HIDE DEF s
<1>3. Becomes(y, s, g, s.d.history, s.j.undo)
  BY <1>2, GraphSet DEF s
<1> QED BY <1>1, <1>2, <1>3, Chain

\* A write of the graph, then its note.
LEMMA GraphNoted ==
  ASSUME NEW x, IsX(x), NEW u, NEW g, NEW y, y = Undoing([x EXCEPT !.d.graph = g], u)
  PROVE  Becomes(y, x, g, x.d.history, Noted(x.j.undo, u))
<1> DEFINE s == [x EXCEPT !.d.graph = g]
<1>1. Becomes(s, x, g, x.d.history, x.j.undo)
  BY GraphSet
<1> HIDE DEF s
<1>2. IsX(s) /\ s.d.history = x.d.history /\ s.j.undo = x.j.undo /\ s.d.graph = g
  BY <1>1, BecomesIs
<1>3. Becomes(y, s, s.d.graph, s.d.history, Noted(s.j.undo, u))
  BY <1>2, UndoingIs DEF s
<1> QED BY <1>1, <1>2, <1>3, Chain

\* PutOptional makes a function.
LEMMA OptionalFcn == ASSUME NEW f, NEW k, NEW v PROVE IsFcn(PutOptional(f, k, v))
BY PutFcn, DropFcn DEF PutOptional

\* Writing a lifetime writes two sections of the history.
LEMMA LifetimeShape ==
  ASSUME NEW h, IsHistory(h), NEW id, NEW a, NEW e, NEW new, new = SetLifetime(h, id, a, e)
  PROVE  IsHistory(new)
         /\ Sections(new, h.fields, h.rels, PutOptional(h.appears, id, a),
             PutOptional(h.ends, id, e))
<1> DEFINE p == PutOptional(h.appears, id, a)
           q == PutOptional(h.ends, id, e)
           mid == [h EXCEPT !.appears = p]
<1>1. new = [h EXCEPT !.appears = p, !.ends = q]
  BY Zenon DEF SetLifetime
<1>0. IsFcn(p) /\ IsFcn(q)
  BY OptionalFcn
<1> HIDE DEF p, q
<1>2. new = [mid EXCEPT !.ends = q]
  BY <1>1
<1>3. Sections(mid, h.fields, h.rels, p, h.ends)
  BY DEF IsHistory, Sections
<1> HIDE DEF mid
<1>4. Sections(new, h.fields, h.rels, p, q)
  BY <1>2, <1>3 DEF Sections
<1> QED BY <1>0, <1>4, SectionsAre DEF IsHistory, p, q

\* record_lifetime sets one lifetime and notes it, or changes nothing.
LEMMA RecordLifetimeIs ==
  ASSUME NEW x, IsX(x), NEW id, NEW y, y = RecordLifetime(x, id)
  PROVE  Quiet(y, x) \/ \E appears, ends : LifetimeSet(y, x, id, appears, ends)
<1> DEFINE node  == x.d.graph.nodes[id]
           which == SelectInSeq(x.j.schema.lifetimes, LAMBDA l : l.type \in node.labels)
           dates == x.j.schema.lifetimes[which]
           appears == DateIn(dates.appears, node.props)
           ends    == DateIn(dates.ends, node.props)
           set     == [SaveLifetime(x, id) EXCEPT !.d.history = SetLifetime(@, id, appears, ends)]
           done == Logging(set,
               [op |-> "SetLifetime", id |-> id, appears |-> appears, ends |-> ends])
<1>1. y = x \/ y = Refusing(x) \/ y = done
  BY DEF RecordLifetime
<1> HIDE DEF appears, ends
<1>2. LifetimeSet(set, x, id, appears, ends)
  <2> DEFINE h == SetLifetime(x.d.history, id, appears, ends)
  <2>1. SaveLifetime(x, id) = Undoing(x, LifetimeUndo(x, id))
    BY Zenon DEF SaveLifetime, LifetimeUndo
  <2>2. SaveLifetime(x, id).d.history = x.d.history
    BY <2>1, UndoingIs, BecomesIs
  <2>3. set = [Undoing(x, LifetimeUndo(x, id)) EXCEPT !.d.history = h]
    BY <2>1, <2>2, Zenon
  <2>4. IsHistory(h)
    BY LifetimeShape DEF IsX
  <2> HIDE DEF h, set
  <2>5. Becomes(set, x, x.d.graph, h, Noted(x.j.undo, LifetimeUndo(x, id)))
    BY <2>3, <2>4, NotedHistory
  <2> QED BY <2>5 DEF LifetimeSet, h
<1> HIDE DEF set
<1>3. Quiet(done, set)
  BY <1>2, BecomesIs, LoggingQuiet DEF LifetimeSet
<1> HIDE DEF done
<1>4. LifetimeSet(done, x, id, appears, ends)
  BY <1>2, <1>3, Silent DEF LifetimeSet
<1> QED BY <1>1, <1>4, SelfQuiet, RefusingQuiet

\* Setting a lifetime keeps it good.
LEMMA LifetimeSetGood ==
  ASSUME NEW x, GoodX(x), NEW id, NEW appears, NEW ends, NEW y, LifetimeSet(y, x, id, appears, ends)
  PROVE  GoodX(y)
<1> DEFINE h == SetLifetime(x.d.history, id, appears, ends)
<1>1. h.fields = x.d.history.fields /\ h.rels = x.d.history.rels
  BY GoodXIs, LifetimeShape, SectionsAre
<1>2. GoodUndo(LifetimeUndo(x, id))
  BY DEF GoodUndo, UndoKinds, LifetimeUndo
<1> HIDE DEF h
<1>3. Becomes(y, x, x.d.graph, h, Noted(x.j.undo, LifetimeUndo(x, id)))
  BY DEF LifetimeSet, h
<1> QED BY <1>1, <1>2, <1>3, GoodXIs, StepGood

Lifetime(y, x, id) == Quiet(y, x) \/ \E appears, ends : LifetimeSet(y, x, id, appears, ends)

\* Writing field histories leaves a history.
LEMMA HistoryShape ==
  ASSUME NEW h, IsHistory(h), NEW id, NEW at, NEW props, NEW fields
  PROVE  IsHistory(RecordHistory(h, id, at, props, fields))
<1> DEFINE more == [key \in {<<id, f>> : f \in fields \cap DOMAIN props} |->
              InsertChange((IF key \in DOMAIN h.fields THEN h.fields[key]
                  ELSE <<>>), at, props[key[2]])]
           v == Over(h.fields, more)
<1>1. RecordHistory(h, id, at, props, fields) = [h EXCEPT !.fields = v]
  BY Zenon DEF RecordHistory
<1>2. IsFcn(v)
  BY OverFcn
<1> HIDE DEF v
<1> QED BY <1>1, <1>2, FieldsSection

\* The field histories are noted, then written.
LEMMA DatedIs ==
  ASSUME NEW x, IsX(x), NEW id, NEW at, at = x.j.at, NEW props, NEW fields, NEW y,
         y = [SaveHistory(x, id) EXCEPT !.d.history = RecordHistory(@, id, at, props, fields)]
  PROVE  FieldsWritten(y, x, id, props, fields)
<1> DEFINE h == RecordHistory(x.d.history, id, x.j.at, props, fields)
<1>1. SaveHistory(x, id) = Undoing(x, HistoryUndo(x, id))
  BY Zenon DEF SaveHistory, HistoryUndo
<1>2. SaveHistory(x, id).d.history = x.d.history
  BY <1>1, UndoingIs, BecomesIs
<1>3. y = [Undoing(x, HistoryUndo(x, id)) EXCEPT !.d.history = h]
  BY <1>1, <1>2, Zenon
<1>4. IsHistory(h)
  BY HistoryShape DEF IsX
<1> HIDE DEF h
<1>5. Becomes(y, x, x.d.graph, h, Noted(x.j.undo, HistoryUndo(x, id)))
  BY <1>3, <1>4, NotedHistory
<1> QED BY <1>5 DEF FieldsWritten, h

\* create_node's steps: the node, its dated fields, its lifetime.
LEMMA JournalCreateNodeIs ==
  ASSUME NEW x, IsX(x), NEW node, NEW y, y = JournalCreateNode(x, node)
  PROVE  LET id     == x.d.graph.next.node
             fields == TemporalFields(x, node.labels, node.props)
         IN \E s, t : /\ NodeCreated(s, x, node)
                      /\ Quiet(t, s) \/ FieldsWritten(t, s, id, node.props, fields)
                      /\ Lifetime(y, t, id)
<1> DEFINE id     == x.d.graph.next.node
           fields == TemporalFields(x, node.labels, node.props)
           stored == Undoing([x EXCEPT !.d.graph = CreateNode(@, node)],
               [undo |-> "created", id |-> id])
           dated  == [SaveHistory(stored, id) EXCEPT
                        !.d.history = RecordHistory(@, id, x.j.at, node.props, fields)]
           plain  == Logging(stored, [op |-> "InsertNode", id |-> id, node |-> node])
           logged == Logging(dated, [op |-> "InsertNodeAt", id |-> id, node |-> node,
                                     at |-> x.j.at, fields |-> fields])
           t == IF fields = {} THEN plain ELSE logged
<1>1. y = RecordLifetime(t, id)
  BY DEF JournalCreateNode
<1>2. NodeCreated(stored, x, node)
  <2>1. [x EXCEPT !.d.graph = CreateNode(@, node)]
        = [x EXCEPT !.d.graph = CreateNode(x.d.graph, node)]
    BY Zenon
  <2> QED BY <2>1, GraphNoted DEF NodeCreated
<1>3. IsX(stored) /\ stored.j.at = x.j.at
  BY <1>2, BecomesIs DEF NodeCreated, SameRest
<1> HIDE DEF stored, fields
<1>4. FieldsWritten(dated, stored, id, node.props, fields)
  BY <1>3, DatedIs
<1>5. Quiet(plain, stored)
  BY <1>3, LoggingQuiet
<1> HIDE DEF dated, plain
<1>6. FieldsWritten(logged, stored, id, node.props, fields)
  <2>1. Quiet(logged, dated)
    BY <1>4, BecomesIs, LoggingQuiet DEF FieldsWritten
  <2> QED BY <1>4, <2>1, Silent DEF FieldsWritten
<1> HIDE DEF logged
<1>7. Quiet(t, stored) \/ FieldsWritten(t, stored, id, node.props, fields)
  BY <1>5, <1>6
<1>8. IsX(t)
  BY <1>7, BecomesIs DEF Quiet, FieldsWritten
<1> HIDE DEF t
<1>9. Lifetime(y, t, id)
  BY <1>1, <1>8, RecordLifetimeIs DEF Lifetime
<1> QED BY <1>2, <1>7, <1>9 DEF fields

\* update_node's steps: the dated fields, the node, its lifetime.
LEMMA JournalUpdateNodeIs ==
  ASSUME NEW x, IsX(x), NEW id, NEW props, NEW y, y = JournalUpdateNode(x, id, props)
  PROVE  LET fields  == TemporalFields(x, x.d.graph.nodes[id].labels, props)
             history == RecordHistory(x.d.history, id, x.j.at, props, fields)
             current == CurrentProps(history, id, props, fields)
         IN \/ Quiet(y, x)
            \/ /\ id \notin DOMAIN x.d.mirrors /\ id \in DOMAIN x.d.graph.nodes
               /\ \E s, t : /\ \/ s = x /\ fields = {} /\ NodeChanged(t, s, id, props)
                               \/ FieldsWritten(s, x, id, props, fields)
                                   /\ NodeChanged(t, s, id, current)
                            /\ Lifetime(y, t, id)
<1> DEFINE fields  == TemporalFields(x, x.d.graph.nodes[id].labels, props)
           history == RecordHistory(x.d.history, id, x.j.at, props, fields)
           current == CurrentProps(history, id, props, fields)
           plain   == Logging(SaveNode(x, id), [op |-> "UpdateNode", id |-> id, props |-> props])
           dated   == Logging(SaveNode(SaveHistory(x, id), id),
                              [op |-> "UpdateNodeAt", id |-> id, props |-> props,
                               at |-> x.j.at, fields |-> fields])
           one == [plain EXCEPT !.d.graph = UpdateNode(@, id, props)]
           two == [dated EXCEPT !.d.graph = UpdateNode(@, id, current), !.d.history = history]
<1>1. \/ y = Refusing(x) \/ y = x
      \/ /\ id \notin DOMAIN x.d.mirrors /\ id \in DOMAIN x.d.graph.nodes
         /\ \/ fields = {} /\ y = RecordLifetime(one, id)
            \/ y = RecordLifetime(two, id)
  BY DEF JournalUpdateNode
<1> HIDE DEF fields, current
<1>2. NodeChanged(one, x, id, props)
  <2> DEFINE saved == SaveNode(x, id)
  <2>1. Becomes(saved, x, x.d.graph, x.d.history, Noted(x.j.undo, NodeUndo(x, id)))
    BY UndoingIs DEF SaveNode, NodeUndo
  <2>2. Quiet(plain, saved)
    BY <2>1, BecomesIs, LoggingQuiet
  <2> HIDE DEF saved, plain
  <2>3. Becomes(plain, x, x.d.graph, x.d.history, Noted(x.j.undo, NodeUndo(x, id)))
    BY <2>1, <2>2, Silent
  <2>4. IsX(plain) /\ plain.d.graph = x.d.graph /\ plain.d.history = x.d.history /\ plain.j.undo
        = Noted(x.j.undo, NodeUndo(x, id))
    BY <2>3, BecomesIs
  <2>5. one = [plain EXCEPT !.d.graph = UpdateNode(x.d.graph, id, props)]
    BY <2>4, Zenon
  <2>6. Becomes(one, plain, UpdateNode(x.d.graph, id, props), plain.d.history, plain.j.undo)
    BY <2>4, <2>5, GraphSet
  <2> QED BY <2>3, <2>4, <2>6, Chain DEF NodeChanged
<1> DEFINE s == [SaveHistory(x, id) EXCEPT !.d.history
                = RecordHistory(@, id, x.j.at, props, fields)]
<1>3. FieldsWritten(s, x, id, props, fields)
  BY DatedIs
<1> HIDE DEF s
<1>4. NodeChanged(two, s, id, current)
  <2> DEFINE saved == SaveHistory(x, id)
             noted == SaveNode(saved, id)
             u == Noted(x.j.undo, HistoryUndo(x, id))
             v == Noted(u, NodeUndo(x, id))
  <2>1. Becomes(saved, x, x.d.graph, x.d.history, u)
    BY UndoingIs DEF SaveHistory, HistoryUndo
  <2>2. IsX(saved) /\ saved.d.graph = x.d.graph /\ saved.d.history = x.d.history /\ saved.j.undo = u
    BY <2>1, BecomesIs
  <2> HIDE DEF saved, u
  <2>3. NodeUndo(saved, id) = NodeUndo(x, id)
    BY <2>2 DEF NodeUndo
  <2>4. Becomes(noted, saved, saved.d.graph, saved.d.history, v)
    <3>1. noted = Undoing(saved, NodeUndo(x, id))
      BY <2>3, Zenon DEF SaveNode, NodeUndo
    <3> QED BY <2>2, <3>1, UndoingIs
  <2>5. Becomes(noted, x, x.d.graph, x.d.history, v)
    BY <2>1, <2>2, <2>4, Chain
  <2>6. Quiet(dated, noted)
    BY <2>5, BecomesIs, LoggingQuiet DEF saved
  <2> HIDE DEF noted, dated, v
  <2>7. Becomes(dated, x, x.d.graph, x.d.history, v)
    BY <2>5, <2>6, Silent
  <2>8. IsX(dated) /\ dated.d.graph = x.d.graph /\ dated.d.history = x.d.history /\ dated.j.undo = v
    BY <2>7, BecomesIs
  <2> DEFINE mid == [dated EXCEPT !.d.graph = UpdateNode(x.d.graph, id, current)]
  <2>9. Becomes(mid, dated, UpdateNode(x.d.graph, id, current), x.d.history, v)
    BY <2>8, GraphSet
  <2>10. two = [mid EXCEPT !.d.history = history]
    BY <2>8
  <2>11. IsHistory(history)
    BY HistoryShape DEF IsX
  <2> HIDE DEF mid, history
  <2>12. Becomes(two, mid, UpdateNode(x.d.graph, id, current), history, v)
    BY <2>9, <2>10, <2>11, BecomesIs, HistorySet
  <2>13. Becomes(two, x, UpdateNode(x.d.graph, id, current), history, v)
    BY <2>7, <2>9, <2>12, Chain
  <2>14. s.d.graph = x.d.graph /\ s.d.history = history /\ s.j.undo = u /\ SameRest(s, x) /\ IsX(s)
    BY <1>3, BecomesIs DEF FieldsWritten, history, u
  <2>15. NodeUndo(s, id) = NodeUndo(x, id)
    BY <2>14 DEF NodeUndo
  <2>16. Becomes(two, s, UpdateNode(x.d.graph, id, current), history, v)
    BY <2>13, <2>14 DEF Becomes, SameRest
  <2> QED BY <2>14, <2>15, <2>16 DEF NodeChanged, v
<1> HIDE DEF one, two
<1>5. IsX(one) /\ IsX(two)
  BY <1>2, <1>4, BecomesIs DEF NodeChanged
<1>6. Lifetime(RecordLifetime(one, id), one, id) /\ Lifetime(RecordLifetime(two, id), two, id)
  BY <1>5, RecordLifetimeIs DEF Lifetime
<1> HIDE DEF history
<1>7. CASE y = Refusing(x) \/ y = x
  BY <1>7, SelfQuiet, RefusingQuiet
<1>8. CASE /\ id \notin DOMAIN x.d.mirrors /\ id \in DOMAIN x.d.graph.nodes
           /\ fields = {} /\ y = RecordLifetime(one, id)
  BY <1>2, <1>6, <1>8, Zenon DEF fields, history, current
<1>9. CASE /\ id \notin DOMAIN x.d.mirrors /\ id \in DOMAIN x.d.graph.nodes
           /\ y = RecordLifetime(two, id)
  <2>1. FieldsWritten(s, x, id, props, fields) /\ NodeChanged(two, s, id, current)
        /\ Lifetime(y, two, id)
    BY <1>3, <1>4, <1>6, <1>9
  <2> QED BY <1>9, <2>1, Zenon DEF fields, history, current
<1> QED BY <1>1, <1>7, <1>8, <1>9, Zenon

\* An edge's history is noted, then written.
LEMMA EdgeDatedIs ==
  ASSUME NEW x, IsX(x), NEW id, NEW edge, NEW y,
         y = [SaveEdgeHistory(x, id) EXCEPT !.d.history
             = [x.d.history EXCEPT !.rels = Put(x.d.history.rels, id, edge)]]
  PROVE  EdgeDated(y, x, id, edge)
<1> DEFINE h == [x.d.history EXCEPT !.rels = Put(x.d.history.rels, id, edge)]
<1>1. SaveEdgeHistory(x, id) = Undoing(x, EdgeUndo(x, id))
  BY Zenon DEF SaveEdgeHistory, EdgeUndo
<1>2. SaveEdgeHistory(x, id).d.history = x.d.history
  BY <1>1, UndoingIs, BecomesIs
<1>3. y = [Undoing(x, EdgeUndo(x, id)) EXCEPT !.d.history = h]
  BY <1>1, Zenon
<1>4. IsHistory(h)
  BY PutFcn, EdgesSection DEF IsX
<1> HIDE DEF h
<1>5. Becomes(y, x, x.d.graph, h, Noted(x.j.undo, EdgeUndo(x, id)))
  BY <1>3, <1>4, NotedHistory
<1>6. [x.d.history EXCEPT !.rels = Put(@, id, edge)] = h
  BY Zenon DEF h
<1> QED BY <1>5, <1>6 DEF EdgeDated

\* create_relationship's steps: the relationship, then its history.
LEMMA JournalCreateRelationshipIs ==
  ASSUME NEW x, IsX(x), NEW rel, NEW y, y = JournalCreateRelationship(x, rel)
  PROVE  LET id == x.d.graph.next.rel
         IN \E s : /\ EdgeCreated(s, x, rel)
                   /\ Quiet(y, s) \/ EdgeDated(y, s, id, Began(rel, x.j.at))
<1> DEFINE id     == x.d.graph.next.rel
           stored == Undoing([x EXCEPT !.d.graph = CreateRelationship(@, rel)],
               [undo |-> "created_rel", id |-> id])
           dated  == [SaveEdgeHistory(stored, id) EXCEPT !.d.history.rels
               = Put(@, id, Began(rel, x.j.at))]
           logged == Logging(dated, [op |-> "InsertRelAt", id |-> id, rel |-> rel, at |-> x.j.at])
           plain  == Logging(stored, [op |-> "InsertRel", id |-> id, rel |-> rel])
<1>1. y = logged \/ y = plain
  BY DEF JournalCreateRelationship
<1>2. EdgeCreated(stored, x, rel)
  <2>1. [x EXCEPT !.d.graph = CreateRelationship(@, rel)]
        = [x EXCEPT !.d.graph = CreateRelationship(x.d.graph, rel)]
    BY Zenon
  <2> QED BY <2>1, GraphNoted DEF EdgeCreated
<1>3. IsX(stored)
  BY <1>2, BecomesIs DEF EdgeCreated
<1> HIDE DEF stored
<1>4. Quiet(plain, stored)
  BY <1>3, LoggingQuiet
<1> HIDE DEF plain
<1>5. EdgeDated(dated, stored, id, Began(rel, x.j.at))
  <2> DEFINE edge == Began(rel, x.j.at)
             saved == SaveEdgeHistory(stored, id)
             h == [stored.d.history EXCEPT !.rels = Put(stored.d.history.rels, id, edge)]
  <2>1. IsX(saved) /\ saved.d.history = stored.d.history
    BY <1>3, UndoingIs, BecomesIs DEF SaveEdgeHistory
  <2>2. dated = [saved EXCEPT !.d.history.rels = Put(saved.d.history.rels, id, edge)]
    BY Zenon
  <2> HIDE DEF edge, saved
  <2>3. dated = [saved EXCEPT !.d.history = h]
    BY <2>1, <2>2 DEF IsX, IsDb
  <2>4. dated = [SaveEdgeHistory(stored, id) EXCEPT !.d.history =
                   [stored.d.history EXCEPT !.rels = Put(stored.d.history.rels, id, edge)]]
    BY <2>3 DEF saved
  <2> HIDE DEF dated
  <2> QED BY <1>3, <2>4, EdgeDatedIs DEF edge
<1> HIDE DEF dated
<1>6. Quiet(logged, dated)
  BY <1>5, BecomesIs, LoggingQuiet DEF EdgeDated
<1> HIDE DEF logged
<1>7. EdgeDated(logged, stored, id, Began(rel, x.j.at))
  BY <1>5, <1>6, Silent DEF EdgeDated
<1> QED BY <1>1, <1>2, <1>4, <1>7

\* What is known of an edge's history when it ends.
EdgeKnown(x, id, rel) ==
  IF id \in DOMAIN x.d.history.rels THEN x.d.history.rels[id] ELSE Began(rel, Earliest)

EdgeEnded(y, x, id) ==
  \E rel : /\ id \in DOMAIN x.d.graph.rels => rel = x.d.graph.rels[id]
           /\ EdgeDated(y, x, id, [EdgeKnown(x, id, rel) EXCEPT !.to = {x.j.at}])

\* The edge began after the statement's instant.
Early(x, id) == id \in DOMAIN x.d.history.rels /\ x.j.at < x.d.history.rels[id].from

\* delete_relationship's steps: the history ends, then the relationship goes; a
\* mirror's, or one that would end before it began, is left as it is.
LEMMA JournalDeleteRelationshipIs ==
  ASSUME NEW x, IsX(x), GoodGraph(x.d.graph), NEW id, NEW y, y = JournalDeleteRelationship(x, id)
  PROVE  \/ /\ Quiet(y, x)
            /\ OfMirror(x, id) \/ id \notin DOMAIN x.d.graph.rels \/ Early(x, id)
         \/ /\ ~OfMirror(x, id) /\ ~Early(x, id)
            /\ id \in DOMAIN x.d.graph.rels \/ id \in DOMAIN x.d.history.rels
            /\ \E s : /\ (Quiet(s, x) /\ id \notin DOMAIN x.d.history.rels) \/ EdgeEnded(s, x, id)
                      /\ IF id \in DOMAIN x.d.graph.rels THEN EdgeCut(y, s, id) ELSE Quiet(y, s)
<1> DEFINE known   == Optional(x.d.graph.rels, id)
           past    == Optional(x.d.history.rels, id)
           rel     == IF known # {} THEN x.d.graph.rels[id] ELSE x.d.history.rels[id].rel
           ended   == [SaveEdgeHistory(x, id) EXCEPT !.d.history = Ended(@, id, rel, x.j.at)]
           dated   == Logging(ended, [op |-> "EndRelAt", id |-> id, rel |-> rel, at |-> x.j.at])
           plain   == Logging(x, [op |-> "DeleteRel", id |-> id])
           logged  == IF rel.kind \in x.j.schema.temporal_rels \/ past # {} THEN dated ELSE plain
           gone    == [logged EXCEPT !.d.graph = DeleteRelationship(@, id)]
           done    == Undoing(gone, [undo |-> "deleted_rel", id |-> id, rel |-> rel])
<1>1. /\ known # {} <=> id \in DOMAIN x.d.graph.rels
      /\ past # {} <=> id \in DOMAIN x.d.history.rels
      /\ (\E entry \in past : x.j.at < entry.from) <=> Early(x, id)
  BY DEF Optional, Early
<1>2. y = IF OfMirror(x, id) THEN Refusing(x)
          ELSE IF known \cup past = {} THEN x
          ELSE IF \E entry \in past : x.j.at < entry.from THEN Refusing(x)
          ELSE IF known = {} THEN gone ELSE done
  BY Zenon DEF JournalDeleteRelationship
<1>3. CASE OfMirror(x, id) \/ Early(x, id) \/ (known = {} /\ past = {})
  BY <1>1, <1>2, <1>3, SelfQuiet, RefusingQuiet
<1>4. CASE ~OfMirror(x, id) /\ ~Early(x, id) /\ ~(known = {} /\ past = {})
  <2>1. y = IF known = {} THEN gone ELSE done
    BY <1>1, <1>2, <1>4
  <2> DEFINE edge == [EdgeKnown(x, id, rel) EXCEPT !.to = {x.j.at}]
  <2>2. EdgeDated(ended, x, id, edge)
    <3>1. SaveEdgeHistory(x, id).d.history = x.d.history
      BY UndoingIs, BecomesIs DEF SaveEdgeHistory
    <3>2. Ended(x.d.history, id, rel, x.j.at)
          = [x.d.history EXCEPT !.rels = Put(x.d.history.rels, id, edge)]
      BY Zenon DEF Ended, EdgeKnown
    <3>3. ended = [SaveEdgeHistory(x, id) EXCEPT !.d.history = Ended(x.d.history, id, rel, x.j.at)]
      BY <3>1, Zenon
    <3> HIDE DEF edge, ended
    <3>4. ended = [SaveEdgeHistory(x, id) EXCEPT !.d.history =
                     [x.d.history EXCEPT !.rels = Put(x.d.history.rels, id, edge)]]
      BY <3>2, <3>3
    <3> QED BY <3>4, EdgeDatedIs
  <2> HIDE DEF ended
  <2>3. EdgeDated(dated, x, id, edge)
    <3>1. Quiet(dated, ended)
      BY <2>2, BecomesIs, LoggingQuiet DEF EdgeDated
    <3> QED BY <2>2, <3>1, Silent DEF EdgeDated
  <2>4. Quiet(plain, x)
    BY LoggingQuiet
  <2> HIDE DEF dated, plain
  <2>5. /\ (Quiet(logged, x) /\ id \notin DOMAIN x.d.history.rels) \/ EdgeEnded(logged, x, id)
        /\ IsX(logged) /\ logged.d.graph = x.d.graph
    <3>1. CASE rel.kind \in x.j.schema.temporal_rels \/ past # {}
      <4>1. logged = dated
        BY <3>1
      <4>2. EdgeDated(logged, x, id, edge)
        BY <2>3, <4>1
      <4>3. id \in DOMAIN x.d.graph.rels => rel = x.d.graph.rels[id]
        BY <1>1
      <4>4. EdgeEnded(logged, x, id)
        <5> HIDE DEF known, rel, logged
        <5> QED BY <4>2, <4>3, Zenon DEF EdgeEnded
      <4> HIDE DEF edge, logged
      <4> QED BY <4>2, <4>4, BecomesIs DEF EdgeDated
    <3>2. CASE ~(rel.kind \in x.j.schema.temporal_rels \/ past # {})
      <4>1. logged = plain /\ id \notin DOMAIN x.d.history.rels
        BY <1>1, <3>2
      <4> QED BY <2>4, <4>1, BecomesIs DEF Quiet
    <3> QED BY <3>1, <3>2
  <2> HIDE DEF logged
  <2>6. gone = [logged EXCEPT !.d.graph = DeleteRelationship(logged.d.graph, id)]
    BY Zenon
  <2>7. CASE id \in DOMAIN x.d.graph.rels
    <3>1. y = done /\ rel = logged.d.graph.rels[id]
      BY <1>1, <2>1, <2>5, <2>7
    <3> DEFINE u == [undo |-> "deleted_rel", id |-> id, rel |-> logged.d.graph.rels[id]]
    <3>2. y = Undoing([logged EXCEPT !.d.graph = DeleteRelationship(logged.d.graph, id)], u)
      BY <2>6, <3>1, Zenon
    <3> HIDE DEF u
    <3>3. Becomes(y, logged, DeleteRelationship(logged.d.graph, id), logged.d.history,
          Noted(logged.j.undo, u))
      BY <2>5, <3>2, GraphNoted
    <3>4. EdgeCut(y, logged, id)
      BY <3>3 DEF EdgeCut, u
    <3> QED BY <1>1, <1>4, <2>5, <2>7, <3>4
  <2>8. CASE id \notin DOMAIN x.d.graph.rels
    <3>1. y = gone
      BY <1>1, <2>1, <2>8
    <3>2. DeleteRelationship(logged.d.graph, id) = logged.d.graph
      BY <2>5, <2>8, Zenon DEF DeleteRelationship
    <3>3. Quiet(y, logged)
      BY <2>5, <2>6, <3>1, <3>2, GraphSet DEF Quiet
    <3> QED BY <1>1, <1>4, <2>5, <2>8, <3>3
  <2> QED BY <2>7, <2>8
<1> QED BY <1>1, <1>3, <1>4

\* delete_relationship keeps a database good.
LEMMA JournalDeleteRelationshipGood ==
  ASSUME NEW x, GoodX(x), NEW id
  PROVE  GoodX(JournalDeleteRelationship(x, id)) /\ SameRest(JournalDeleteRelationship(x, id), x)
<1> DEFINE y == JournalDeleteRelationship(x, id)
<1>0. \/ Quiet(y, x)
      \/ /\ id \in DOMAIN x.d.graph.rels \/ id \in DOMAIN x.d.history.rels
         /\ \E s : /\ Quiet(s, x) \/ EdgeEnded(s, x, id)
                   /\ IF id \in DOMAIN x.d.graph.rels THEN EdgeCut(y, s, id) ELSE Quiet(y, s)
  BY GoodXIs, JournalDeleteRelationshipIs
<1> HIDE DEF y
<1>1. CASE Quiet(y, x)
  BY <1>1, QuietGood, BecomesIs DEF Quiet, y
<1>2. CASE /\ id \in DOMAIN x.d.graph.rels \/ id \in DOMAIN x.d.history.rels
           /\ \E s : /\ Quiet(s, x) \/ EdgeEnded(s, x, id)
                     /\ IF id \in DOMAIN x.d.graph.rels THEN EdgeCut(y, s, id) ELSE Quiet(y, s)
  <2>1. PICK s : /\ Quiet(s, x) \/ EdgeEnded(s, x, id)
                 /\ IF id \in DOMAIN x.d.graph.rels THEN EdgeCut(y, s, id) ELSE Quiet(y, s)
    BY <1>2
  <2>2. id \in Nat /\ id > 0
    BY <1>2, GoodXIs, GoodGraphIs DEF GoodEdges
  <2>3. GoodX(s) /\ SameRest(s, x) /\ s.d.graph = x.d.graph
    <3>1. CASE Quiet(s, x)
      BY <3>1, QuietGood, BecomesIs DEF Quiet
    <3>2. CASE EdgeEnded(s, x, id)
      <4>1. PICK edge : EdgeDated(s, x, id, edge)
        BY <3>2 DEF EdgeEnded
      <4>2. GoodX(s)
        BY <2>2, <4>1, EdgeDatedGood
      <4>3. SameRest(s, x) /\ s.d.graph = x.d.graph
        BY <4>1, Zenon DEF EdgeDated, Becomes
      <4> QED BY <4>2, <4>3
    <3> QED BY <2>1, <3>1, <3>2
  <2>4. GoodX(y) /\ SameRest(y, s)
    <3>1. CASE id \in DOMAIN x.d.graph.rels
      BY <2>1, <2>3, <3>1, EdgeCutGood, BecomesIs DEF EdgeCut
    <3>2. CASE id \notin DOMAIN x.d.graph.rels
      BY <2>1, <2>3, <3>2, QuietGood, BecomesIs DEF Quiet
    <3> QED BY <3>1, <3>2
  <2> QED BY <2>3, <2>4 DEF SameRest, y
<1> QED BY <1>0, <1>1, <1>2
=============================================================================

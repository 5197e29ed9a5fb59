------------------------------- MODULE Journal ------------------------------
(***************************************************************************)
(* One statement's writes (zega/src/journal.rs).  A statement runs under   *)
(* the graph lock, so a behaviour is a sequence of statements, each a      *)
(* sequence of journal calls.  A call changes the graph and its histories  *)
(* at once, and records the operation for the log and what it replaced.    *)
(* The statement ends when it fails, when record (zega/src/linked.rs) or   *)
(* the log refuses its operations, or when the log accepts all of them as  *)
(* one entry; unless it is accepted, roll_back takes every change back.    *)
(* Apply is what an open does with each operation of the log.              *)
(*                                                                         *)
(* A value is a number; a date is a number too.  An optional value is a    *)
(* set of at most one.  Histories are decoded: an undecodable section is   *)
(* refused when a .graph file is opened.  The two error slots of a journal *)
(* (write_error, history_error) are one flag: either one refuses the       *)
(* statement.  Keys that record allocates (n{version}-{id}) are fresh.     *)
(***************************************************************************)
EXTENDS Graph, Sequences, SequencesExt, History

CONSTANTS
  Schemas,        \* the schemas statements run under
  NodeInputs,     \* the nodes statements create
  PropInputs,     \* the properties statements set
  Kinds,          \* the relationship kinds
  Times,          \* the instants statements write at
  EarlyDeletes,   \* TRUE: a node may be deleted before one of its edges began
  MaxStatements,  \* bound on the statements
  MaxCalls,       \* bound on the journal calls of a statement
  MaxNodes,       \* bound on the node ids
  MaxRels         \* bound on the relationship ids

ASSUME TimesAssumption == Times \subseteq Nat \ {0}
ASSUME EarlyDeletesAssumption == EarlyDeletes \in BOOLEAN
ASSUME SchemasAssumption ==
  \A schema \in Schemas :
    /\ \A slot \in schema.uniques \cup schema.ranges : slot = <<slot[1], slot[2]>>
    /\ schema.views \subseteq Kinds \X {"out", "inc"} /\ schema.single \subseteq schema.views
ASSUME InputsAssumption ==
  /\ \A node \in NodeInputs : node = [labels |-> node.labels, props |-> node.props]
  /\ \A props \in {n.props : n \in NodeInputs} \cup PropInputs :
       props \in [DOMAIN props -> Nat]

VARIABLES
  db,       \* the graph, its histories and what linked.rs knows of its ids
  journal,  \* the open statement's Journal, or NoJournal
  log,      \* the statements the log accepted
  before,   \* the database when the open, or else the last, statement began
  result    \* how the last statement ended: "none", "ok" or "err"

vars == <<db, journal, log, before, result>>

\* i64::MIN, the start of an edge that was live before edges had histories.
Earliest == 0

Optional(f, key) == IF key \in DOMAIN f THEN {f[key]} ELSE {}
PutOptional(f, key, value) ==
  IF value = {} THEN Drop(f, {key}) ELSE Put(f, key, CHOOSE v \in value : TRUE)

NoHistories == [fields |-> <<>>, rels |-> <<>>, appears |-> <<>>, ends |-> <<>>]
HasData(history) == history # NoHistories

Empty == [graph |-> EmptyGraph, history |-> NoHistories, mirrors |-> <<>>,
          identities |-> <<>>, external |-> <<>>, version |-> 0]

\* What a link leaves: a mirror, the stub its edge leads to, and the edge.
MirrorNode == [labels |-> {}, props |-> <<>>]
WithMirror ==
  LET nodes == RestoreNode(RestoreNode(EmptyGraph, 1, MirrorNode), 2, MirrorNode)
      edge  == [kind |-> CHOOSE k \in Kinds : TRUE, from |-> 1, to |-> 2]
  IN [Empty EXCEPT !.graph = RestoreRelationship(nodes, 1, edge),
                   !.mirrors = [m \in {1, 2} |-> IF m = 1 THEN {1} ELSE {}]]

\* Journals neither make nor lose mirrors.
Base(d) == IF DOMAIN d.mirrors = {} THEN Empty ELSE WithMirror

-----------------------------------------------------------------------------
(* What the journal and replay share.                                      *)

RecordHistory(history, id, at, props, fields) ==
  LET changed == {<<id, f>> : f \in fields \cap DOMAIN props}
      write(key) == InsertChange((IF key \in DOMAIN history.fields THEN history.fields[key] ELSE <<>>), at, props[key[2]])
  IN [history EXCEPT !.fields = Over(@, [key \in changed |-> write(key)])]

\* Mutant: the value written is the current one, however old it is.
WrittenProps(history, id, props, fields) == props

\* A backdated change leaves a newer one current.
CurrentProps(history, id, props, fields) ==
  Over(props, [f \in fields |-> Current(history.fields[<<id, f>>])])

SetLifetime(history, id, appears, ends) ==
  [history EXCEPT !.appears = PutOptional(@, id, appears), !.ends = PutOptional(@, id, ends)]

Began(rel, at) == [rel |-> rel, from |-> at, to |-> {}]
Ended(history, id, rel, at) ==
  LET known == IF id \in DOMAIN history.rels THEN history.rels[id] ELSE Began(rel, Earliest)
  IN [history EXCEPT !.rels = Put(@, id, [known EXCEPT !.to = {at}])]

FieldsOf(history, id)   == {key \in DOMAIN history.fields : key[1] = id}
IncidentTo(history, id) ==
  {r \in DOMAIN history.rels : id \in {history.rels[r].rel.from, history.rels[r].rel.to}}

\* Mutant: the histories of the node's edges stay.
ForgetNode(history, id) ==
  [history EXCEPT !.fields  = Drop(@, FieldsOf(history, id)),
                  !.appears = Drop(@, {id}), !.ends = Drop(@, {id})]

Forget(history, id) ==
  [fields  |-> Drop(history.fields, FieldsOf(history, id)),
   rels    |-> Drop(history.rels, IncidentTo(history, id)),
   appears |-> Drop(history.appears, {id}),
   ends    |-> Drop(history.ends, {id})]

\* apply_metadata of a commit: the new identities and the version.
Publish(d, op) ==
  [d EXCEPT !.version    = op.version,
            !.identities = Over(@, [k \in {pair[1] : pair \in op.keys} |->
                                      (CHOOSE pair \in op.keys : pair[1] = k)[2]]),
            !.external   = Over(@, [i \in {pair[2] : pair \in op.keys} |->
                                      (CHOOSE pair \in op.keys : pair[2] = i)[1]])]

\* apply_op_to_memory
Apply(d, op) ==
  CASE op.op = "InsertNode" -> [d EXCEPT !.graph = RestoreNode(@, op.id, op.node)]
    [] op.op = "InsertNodeAt" ->
         [d EXCEPT !.graph = RestoreNode(@, op.id, op.node),
                   !.history = RecordHistory(@, op.id, op.at, op.node.props, op.fields)]
    [] op.op = "UpdateNode" -> [d EXCEPT !.graph = UpdateNode(@, op.id, op.props)]
    [] op.op = "UpdateNodeAt" /\ op.id \in DOMAIN d.graph.nodes ->
         LET history == RecordHistory(d.history, op.id, op.at, op.props, op.fields)
             props   == CurrentProps(history, op.id, op.props, op.fields)
         IN [d EXCEPT !.history = history, !.graph = UpdateNode(@, op.id, props)]
    [] op.op = "SetLifetime" ->
         [d EXCEPT !.history = SetLifetime(@, op.id, op.appears, op.ends)]
    [] op.op = "DeleteNode" ->
         [d EXCEPT !.history = Forget(@, op.id), !.graph = DeleteNode(@, op.id)]
    [] op.op = "InsertRel" -> [d EXCEPT !.graph = RestoreRelationship(@, op.id, op.rel)]
    [] op.op = "InsertRelAt" ->
         [d EXCEPT !.graph = RestoreRelationship(@, op.id, op.rel),
                   !.history.rels = Put(@, op.id, Began(op.rel, op.at))]
    [] op.op = "EndRelAt" ->
         [d EXCEPT !.history = Ended(@, op.id, op.rel, op.at),
                   !.graph = DeleteRelationship(@, op.id)]
    [] op.op = "DeleteRel" -> [d EXCEPT !.graph = DeleteRelationship(@, op.id)]
    [] op.op = "Commit" -> Publish(d, op)
    [] OTHER -> d

\* What an open makes of the log: entry by entry, operation by operation.
ApplyAll(d, ops) ==
  LET apply(e, n) == Apply(e, ops[n])
  IN Each(apply, d, DOMAIN ops)
Replay(base, statements) ==
  LET entry(e, n) == ApplyAll(e, statements[n])
  IN Each(entry, base, DOMAIN statements)

-----------------------------------------------------------------------------
(* The calls.  x is the database d with the journal j of the statement.    *)

NoJournal == [open |-> FALSE]

\* configure_time is not called by Zega::delete_node and its twin: no field,
\* edge or lifetime of their statements is temporal.
NoSchema == [uniques |-> {}, ranges |-> {}, temporal |-> {}, temporal_rels |-> {},
             lifetimes |-> <<>>, views |-> {}, single |-> {}]

NewJournal(d, schema, at, api) ==
  [open |-> TRUE, api |-> api, schema |-> schema, at |-> at, next |-> d.graph.next,
   ops |-> <<>>, undo |-> <<>>, refused |-> FALSE, calls |-> 0]

Logging(x, op)   == [x EXCEPT !.j.ops = Append(@, op)]
Undoing(x, undo) == [x EXCEPT !.j.undo = Append(@, undo)]
Refusing(x)      == [x EXCEPT !.j.refused = TRUE]

SaveHistory(x, id) ==
  Undoing(x, [undo |-> "history", id |-> id,
              fields |-> Restrict(x.d.history.fields, FieldsOf(x.d.history, id))])
SaveLifetime(x, id) ==
  Undoing(x, [undo |-> "lifetime", id |-> id, appears |-> Optional(x.d.history.appears, id),
              ends |-> Optional(x.d.history.ends, id)])
SaveEdgeHistory(x, id) ==
  Undoing(x, [undo |-> "edge_history", id |-> id, edge |-> Optional(x.d.history.rels, id)])
SaveNode(x, id) ==
  Undoing(x, [undo |-> "replaced", id |-> id, node |-> x.d.graph.nodes[id]])

TemporalFields(x, labels, props) ==
  {f \in DOMAIN props : \E ty \in labels : <<ty, f>> \in x.j.schema.temporal}

DateIn(field, props) == UNION {Optional(props, f) : f \in field}

\* record_lifetime: the dates of the first type of the schema that has any.
RecordLifetime(x, id) ==
  LET node  == x.d.graph.nodes[id]
      which == SelectInSeq(x.j.schema.lifetimes, LAMBDA l : l.type \in node.labels)
      dates == x.j.schema.lifetimes[which]
      appears == DateIn(dates.appears, node.props)
      ends    == DateIn(dates.ends, node.props)
      set     == [SaveLifetime(x, id) EXCEPT !.d.history = SetLifetime(@, id, appears, ends)]
  IN IF which = 0 THEN x
     ELSE IF \E a \in appears, e \in ends : a > e THEN Refusing(x)
     ELSE Logging(set, [op |-> "SetLifetime", id |-> id, appears |-> appears, ends |-> ends])

JournalCreateNode(x, node) ==
  LET id     == x.d.graph.next.node
      fields == TemporalFields(x, node.labels, node.props)
      stored == Undoing([x EXCEPT !.d.graph = CreateNode(@, node)],
                        [undo |-> "created", id |-> id])
      dated  == [SaveHistory(stored, id) EXCEPT
                   !.d.history = RecordHistory(@, id, x.j.at, node.props, fields)]
      plain  == Logging(stored, [op |-> "InsertNode", id |-> id, node |-> node])
      logged == Logging(dated, [op |-> "InsertNodeAt", id |-> id, node |-> node,
                                at |-> x.j.at, fields |-> fields])
  IN RecordLifetime(IF fields = {} THEN plain ELSE logged, id)

\* A missing node is left alone and nothing is logged.
JournalUpdateNode(x, id, props) ==
  LET labels  == x.d.graph.nodes[id].labels
      fields  == TemporalFields(x, labels, props)
      history == RecordHistory(x.d.history, id, x.j.at, props, fields)
      current == CurrentProps(history, id, props, fields)
      plain   == Logging(SaveNode(x, id), [op |-> "UpdateNode", id |-> id, props |-> props])
      dated   == Logging(SaveNode(SaveHistory(x, id), id),
                         [op |-> "UpdateNodeAt", id |-> id, props |-> props,
                          at |-> x.j.at, fields |-> fields])
  IN IF id \in DOMAIN x.d.mirrors THEN Refusing(x)
     ELSE IF id \notin DOMAIN x.d.graph.nodes THEN x
     ELSE RecordLifetime(
            IF fields = {} THEN [plain EXCEPT !.d.graph = UpdateNode(@, id, props)]
            ELSE [dated EXCEPT !.d.graph = UpdateNode(@, id, current),
                               !.d.history = history], id)

JournalCreateRelationship(x, rel) ==
  LET id      == x.d.graph.next.rel
      stored  == Undoing([x EXCEPT !.d.graph = CreateRelationship(@, rel)],
                         [undo |-> "created_rel", id |-> id])
      dated   == [SaveEdgeHistory(stored, id) EXCEPT
                    !.d.history.rels = Put(@, id, Began(rel, x.j.at))]
  IN IF rel.kind \in x.j.schema.temporal_rels
     THEN Logging(dated, [op |-> "InsertRelAt", id |-> id, rel |-> rel, at |-> x.j.at])
     ELSE Logging(stored, [op |-> "InsertRel", id |-> id, rel |-> rel])

OfMirror(x, id) == \E m \in DOMAIN x.d.mirrors : id \in x.d.mirrors[m]

\* Mutant: the schema alone says whether the edge has a history to end.
JournalDeleteBySchema(x, id) ==
  LET known  == Optional(x.d.graph.rels, id)
      past   == Optional(x.d.history.rels, id)
      rel    == IF known # {} THEN x.d.graph.rels[id] ELSE x.d.history.rels[id].rel
      ended  == IF past = {} THEN x
                ELSE [SaveEdgeHistory(x, id) EXCEPT !.d.history = Ended(@, id, rel, x.j.at)]
      logged == Logging(ended, IF rel.kind \in x.j.schema.temporal_rels
                               THEN [op |-> "EndRelAt", id |-> id, rel |-> rel, at |-> x.j.at]
                               ELSE [op |-> "DeleteRel", id |-> id])
      gone   == [logged EXCEPT !.d.graph = DeleteRelationship(@, id)]
  IN IF OfMirror(x, id) \/ \E entry \in past : x.j.at < entry.from THEN Refusing(x)
     ELSE IF known = {} THEN x
     ELSE Undoing(gone, [undo |-> "deleted_rel", id |-> id, rel |-> rel])

\* An edge that ended is still in its history, and may be ended again; one
\* that would end before it began is left as it is and refuses the statement.
JournalDeleteRelationship(x, id) ==
  LET known   == Optional(x.d.graph.rels, id)
      past    == Optional(x.d.history.rels, id)
      rel     == IF known # {} THEN x.d.graph.rels[id] ELSE x.d.history.rels[id].rel
      ended   == [SaveEdgeHistory(x, id) EXCEPT !.d.history = Ended(@, id, rel, x.j.at)]
      logged  == IF rel.kind \in x.j.schema.temporal_rels \/ past # {}
                 THEN Logging(ended, [op |-> "EndRelAt", id |-> id, rel |-> rel, at |-> x.j.at])
                 ELSE Logging(x, [op |-> "DeleteRel", id |-> id])
      gone    == [logged EXCEPT !.d.graph = DeleteRelationship(@, id)]
  IN IF OfMirror(x, id) THEN Refusing(x)
     ELSE IF known \cup past = {} THEN x
     ELSE IF \E entry \in past : x.j.at < entry.from THEN Refusing(x)
     ELSE IF known = {} THEN gone
     ELSE Undoing(gone, [undo |-> "deleted_rel", id |-> id, rel |-> rel])

\* The relationships first, one by one; then the histories; then the node,
\* with whatever relationship it still has.
JournalDeleteNode(x, id) ==
  LET cut     == Each(JournalDeleteRelationship, x, NodeRelationships(x.d.graph, id))
      saved   == SaveLifetime(SaveHistory(cut, id), id)
      forgot  == [Each(SaveEdgeHistory, saved, IncidentTo(cut.d.history, id)) EXCEPT
                    !.d.history = Forget(@, id)]
      bare    == IF HasData(cut.d.history) THEN forgot ELSE cut
      gone    == [SaveNode(bare, id) EXCEPT !.d.graph = DeleteNode(@, id)]
  IN IF id \in DOMAIN x.d.mirrors THEN Refusing(x)
     ELSE IF id \notin DOMAIN x.d.graph.nodes THEN x
     ELSE Logging(gone, [op |-> "DeleteNode", id |-> id])

-----------------------------------------------------------------------------
(* roll_back: what each change replaced, newest first, then the counters.  *)

UndoOne(undo, d) ==
  CASE undo.undo = "edge_history" -> [d EXCEPT !.history.rels = PutOptional(@, undo.id, undo.edge)]
    [] undo.undo = "lifetime" ->
         [d EXCEPT !.history = SetLifetime(@, undo.id, undo.appears, undo.ends)]
    [] undo.undo = "history" ->
         [d EXCEPT !.history.fields = Over(Drop(@, FieldsOf(d.history, undo.id)), undo.fields)]
    [] undo.undo = "created"     -> [d EXCEPT !.graph = DeleteNode(@, undo.id)]
    [] undo.undo = "replaced"    -> [d EXCEPT !.graph = RestoreNode(@, undo.id, undo.node)]
    [] undo.undo = "created_rel" -> [d EXCEPT !.graph = DeleteRelationship(@, undo.id)]
    [] undo.undo = "deleted_rel" ->
         [d EXCEPT !.graph = RestoreRelationship(@, undo.id, undo.rel)]

\* Pass n undoes the nth newest change.
UndoAll(undo, d) ==
  LET back(y, n) == UndoOne(undo[Len(undo) + 1 - n], y)
  IN Each(back, d, DOMAIN undo)

\* Mutant: the counters stay where the statement left them.
RollBackKeepingIds(d, j) == UndoAll(j.undo, d)

RollBack(d, j) == [UndoAll(j.undo, d) EXCEPT !.graph = ResetNextIds(@, j.next)]

-----------------------------------------------------------------------------
(* record, its refusals and what it publishes.                             *)

Inserts(ops) == {i \in DOMAIN ops : ops[i].op \in {"InsertNode", "InsertNodeAt"}}
Updates(ops) == {i \in DOMAIN ops : ops[i].op \in {"UpdateNode", "UpdateNodeAt"}}

\* The external id of an inserted node: the one it was given, or a fresh key.
ExternalId(d, op) ==
  IF "id" \in DOMAIN op.node.props THEN <<op.node.props["id"]>> ELSE <<d.version + 1, op.id>>

Keys(d, ops) == {<<ExternalId(d, ops[i]), ops[i].id>> : i \in Inserts(ops)}

Clashes(d, ops) ==
  \/ \E i \in Inserts(ops) :
       LET key == ExternalId(d, ops[i])
       IN \/ key \in DOMAIN d.identities /\ d.identities[key] # ops[i].id
          \/ \E k \in Inserts(ops) \ {i} : ExternalId(d, ops[k]) = key
  \/ \E i \in Updates(ops) :
       /\ "id" \in DOMAIN ops[i].props
       /\ \/ \E pair \in Keys(d, ops) :
               pair[2] = ops[i].id /\ pair[1] # <<ops[i].props["id"]>>
          \/ /\ ops[i].id \notin {pair[2] : pair \in Keys(d, ops)}
             /\ ops[i].id \in DOMAIN d.external
             /\ d.external[ops[i].id] # <<ops[i].props["id"]>>

Record(d, ops) == [op |-> "Commit", version |-> d.version + 1, keys |-> Keys(d, ops)]

-----------------------------------------------------------------------------
(* Statements.                                                             *)

Init ==
  /\ db \in {Empty, WithMirror}
  /\ journal = NoJournal
  /\ log = <<>>
  /\ before = db
  /\ result = "none"

\* Zega::execute makes the indexes those of its schema before the statement.
Begin(schema, at) ==
  LET synced == [db EXCEPT !.graph = SyncUniques(SyncIndexes(@, schema.ranges), schema.uniques)]
  IN /\ ~journal.open /\ Len(log) < MaxStatements
     /\ db' = synced
     /\ before' = synced
     /\ journal' = NewJournal(synced, schema, at, FALSE)
     /\ UNCHANGED <<log, result>>

\* Zega::delete_node and Zega::delete_relationship: one call, now.
BeginCall(now) ==
  /\ ~journal.open /\ Len(log) < MaxStatements
  /\ journal' = NewJournal(db, NoSchema, now, TRUE)
  /\ before' = db
  /\ UNCHANGED <<db, log, result>>

Calls(x) ==
  /\ journal.open /\ journal.calls < (IF journal.api THEN 1 ELSE MaxCalls)
  /\ db' = x.d
  /\ journal' = [x.j EXCEPT !.calls = @ + 1]
  /\ UNCHANGED <<log, before, result>>

Now == [d |-> db, j |-> journal]

\* find_duplicate: another node of the type has the value.
Duplicate(labels, props, except) ==
  \E slot \in journal.schema.uniques :
    /\ slot[1] \in labels /\ slot[2] \in DOMAIN props
    /\ UniqueMatches(db.graph, slot, props[slot[2]]) \ except # {}

\* insert_node: a duplicate ends the statement instead (Fail).
Insert(node) ==
  /\ journal.open /\ ~journal.api /\ db.graph.next.node <= MaxNodes
  /\ ~Duplicate(node.labels, node.props, {})
  /\ Calls(JournalCreateNode(Now, node))

\* Mutant: a set is not checked for duplicates.
SetUnchecked(id, props) ==
  /\ journal.open /\ ~journal.api
  /\ id \in DOMAIN db.graph.nodes
  /\ Calls(JournalUpdateNode(Now, id, props))

\* apply_node with sets, on a node the statement found.
Set(id, props) ==
  /\ journal.open /\ ~journal.api
  /\ id \in DOMAIN db.graph.nodes
  /\ ~Duplicate(db.graph.nodes[id].labels, props, {id})
  /\ Calls(JournalUpdateNode(Now, id, props))

Neighbors(g, id, kind, direction) ==
  {r \in Adjacent(g, id)[direction] : g.rels[r].kind = kind}

\* connect, through a field that views the relationship from one end: a field
\* that is single-valued takes one target.
Connect(parent, child, kind, direction) ==
  LET rel == [kind |-> kind, from |-> IF direction = "out" THEN parent ELSE child,
              to |-> IF direction = "out" THEN child ELSE parent]
  IN /\ journal.open /\ <<kind, direction>> \in journal.schema.views
     /\ db.graph.next.rel <= MaxRels
     /\ {parent, child} \subseteq DOMAIN db.graph.nodes
     /\ <<kind, direction>> \in journal.schema.single =>
          Neighbors(db.graph, parent, kind, direction) = {}
     /\ Calls(JournalCreateRelationship(Now, rel))

Disconnect(id) == journal.open /\ Calls(JournalDeleteRelationship(Now, id))

Delete(id) ==
  /\ journal.open
  /\ EarlyDeletes \/ ~ \E r \in NodeRelationships(db.graph, id) \cap DOMAIN db.history.rels :
                         journal.at < db.history.rels[r].from
  /\ Calls(JournalDeleteNode(Now, id))

\* The statement returned an error, one of its calls was refused, or record or
\* append_statement refuses its operations.
Fail ==
  /\ journal.open
  /\ db' = RollBack(db, journal)
  /\ journal' = NoJournal
  /\ result' = "err"
  /\ UNCHANGED <<log, before>>

Accepted ==
  /\ journal.open /\ ~journal.refused /\ journal.ops # <<>>
  /\ ~Clashes(db, journal.ops)
  /\ db' = Publish(db, Record(db, journal.ops))
  /\ log' = Append(log, Append(journal.ops, Record(db, journal.ops)))
  /\ journal' = NoJournal
  /\ result' = "ok"
  /\ UNCHANGED before

\* A statement that wrote nothing appends nothing.
ReadOnly ==
  /\ journal.open /\ ~journal.refused /\ journal.ops = <<>>
  /\ journal' = NoJournal
  /\ result' = "ok"
  /\ UNCHANGED <<db, log, before>>

Next ==
  \/ \E schema \in Schemas, at \in Times : Begin(schema, at)
  \/ \E now \in Times : BeginCall(now)
  \/ \E node \in NodeInputs : Insert(node)
  \/ \E id \in DOMAIN db.graph.nodes, props \in PropInputs : Set(id, props)
  \/ \E parent, child \in DOMAIN db.graph.nodes, kind \in Kinds, direction \in {"out", "inc"} :
       Connect(parent, child, kind, direction)
  \/ \E id \in DOMAIN db.graph.rels \cup DOMAIN db.history.rels : Disconnect(id)
  \/ \E id \in DOMAIN db.graph.nodes : Delete(id)
  \/ Fail
  \/ Accepted
  \/ ReadOnly

Spec == Init /\ [][Next]_vars

-----------------------------------------------------------------------------
(* Properties.                                                             *)

\* A graph as its readers see it: an empty label set reads as none.
Seen(g) == [g EXCEPT !.labels = Restrict(@, {l \in DOMAIN @ : @[l] # {}})]
Whole(d) == [d EXCEPT !.graph = Seen(@)]

\* On any error the database is exactly what it was before the call
\* (journal.rs:55-56): nodes, edges, adjacency, every index, histories,
\* identities and counters.
FailureLeavesNoTrace == ~journal.open /\ result = "err" => Whole(db) = Whole(before)

\* What an open makes of the log is the graph in memory, with its histories,
\* identities and counters.  Indexes are made again by the next statement.
Stored(d) == [d EXCEPT !.graph = [nodes |-> @.nodes, rels |-> @.rels,
                                  adjacency |-> @.adjacency, next |-> @.next]]
ReplayIsMemory == ~journal.open => Stored(Replay(Base(db), log)) = Stored(db)

\* In the middle of any statement, lookups through an index and through
\* adjacency find what a scan of the nodes and relationships finds.
Values == UNION {{n.props[f] : f \in DOMAIN n.props} : n \in NodeInputs}
LookupsMatchScan ==
  LET g == db.graph
      having(slot, values) == {id \in DOMAIN g.nodes : /\ slot[1] \in g.nodes[id].labels
                                                       /\ slot[2] \in DOMAIN g.nodes[id].props
                                                       /\ g.nodes[id].props[slot[2]] \in values}
  IN /\ \A slot \in DOMAIN g.uniques, v \in Values : UniqueMatches(g, slot, v) = having(slot, {v})
     /\ \A slot \in DOMAIN g.ranges, low, high \in Values :
          RangeCandidates(g, {slot[1]}, slot[2], low, high) = having(slot, low .. high)
     /\ \A l \in DOMAIN g.labels : g.labels[l] = {id \in DOMAIN g.nodes : l \in g.nodes[id].labels}
     /\ \A id \in DOMAIN g.nodes \cup DOMAIN g.adjacency : Adjacent(g, id) =
          [out |-> {r \in DOMAIN g.rels : g.rels[r].from = id},
           inc |-> {r \in DOMAIN g.rels : g.rels[r].to = id}]

\* An id that was handed out and taken back, or that was deleted, names
\* nothing left over: edges and histories are those of live nodes and of edges
\* between them, and no node, edge or identity has an id that is still to be
\* handed out.
NoLeftovers ==
  LET live == DOMAIN db.graph.nodes
      ends(rel) == {rel.from, rel.to}
  IN /\ \A id \in live : id < db.graph.next.node
     /\ \A r \in DOMAIN db.graph.rels : r < db.graph.next.rel /\ ends(db.graph.rels[r]) \subseteq live
     /\ {key[1] : key \in DOMAIN db.history.fields} \subseteq live
     /\ DOMAIN db.history.appears \cup DOMAIN db.history.ends \subseteq live
     /\ \A r \in DOMAIN db.history.rels :
          r < db.graph.next.rel /\ ends(db.history.rels[r].rel) \subseteq live
     /\ \A id \in DOMAIN db.external :
          id < db.graph.next.node /\ db.identities[db.external[id]] = id

\* A history is in time order, the field that every schema dates stores the
\* value of its last change, and a live edge that has a history has not ended.
AlwaysDated(key) ==
  \A schema \in Schemas : \E ty \in db.graph.nodes[key[1]].labels : <<ty, key[2]>> \in schema.temporal
InOrder(changes) == \A i, k \in DOMAIN changes : i < k => changes[i].at < changes[k].at
CurrentIsLastChange ==
  /\ \A key \in DOMAIN db.history.fields : InOrder(db.history.fields[key])
  /\ \A key \in DOMAIN db.history.fields : AlwaysDated(key) =>
       db.graph.nodes[key[1]].props[key[2]] = Current(db.history.fields[key])
  /\ \A r \in DOMAIN db.history.rels :
       r \in DOMAIN db.graph.rels <=> db.history.rels[r].to = {}

\* A statement adds no second node with a value of a field its schema declares
\* unique ("fields that no two nodes of a type may share", docs/unique.md:3),
\* and no second target to a relationship its schema declares single-valued
\* (docs/relationships.md:35).
Duplicates(g, slot) ==
  {v \in Values : Cardinality({id \in DOMAIN g.nodes : Files(slot, g.nodes[id])
                                 /\ g.nodes[id].props[slot[2]] = v}) > 1}
Crowded(g, view) == {id \in DOMAIN g.nodes : Cardinality(Neighbors(g, id, view[1], view[2])) > 1}
ConstraintsHold ==
  journal.open =>
    /\ \A slot \in journal.schema.uniques :
         Duplicates(db.graph, slot) \subseteq Duplicates(before.graph, slot)
    /\ \A view \in journal.schema.single :
         Crowded(db.graph, view) \subseteq Crowded(before.graph, view)

\* What it rests on: a unique field is dated by every schema or by none, and a
\* single-valued relationship is a field of one end only.
DatesAgree ==
  \A schema, other \in Schemas : \A slot \in schema.uniques :
    (\E dated \in other.temporal : dated[2] = slot[2]) => \A any \in Schemas : slot \in any.temporal
SeenFromOneEnd ==
  \A schema \in Schemas : \A view \in schema.single, other \in schema.views :
    other[1] = view[1] => other = view
=============================================================================

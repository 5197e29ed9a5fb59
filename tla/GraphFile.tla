----------------------------- MODULE GraphFile ------------------------------
(***************************************************************************)
(* The .graph file (zega/src/graph_file/mod.rs): what is written for a     *)
(* graph, in two passes or in one that is patched and finished later, and  *)
(* which files are read.                                                   *)
(*                                                                         *)
(* A graph is [nodes, rels, next, carried, history, linked]: nodes by id,  *)
(* [labels, props]; rels by id, [kind, from, to, props]; next, the next    *)
(* node and relationship id; carried, [schema, uniques, indexes, meta];    *)
(* history and linked, <<>> or <<x>>.  A name, a key, a type, a field and  *)
(* a text are numbers, in byte order.  A value is a scalar, [is, n], a     *)
(* list, [is, items], or a map, [is, at] with its values by key.           *)
(* A file is [magic, version, sections, cut]: each section is [tag, len,   *)
(* payload, crc], and cut says how many parts the last one has lost.  A    *)
(* length counts records, and a checksum is what it was taken over, so two *)
(* payloads never share one.                                               *)
(***************************************************************************)
EXTENDS Integers, FiniteSets, Sequences, SequencesExt

CONSTANTS
  MaxValueDepth,
  StoredMark     \* the metadata entry of a stored schema: key and text are this number

Unexportable == [error |-> TRUE]
Unreadable   == [error |-> TRUE]
Failed(x)    == "error" \in DOMAIN x

InOrder(seq, Less(_, _)) == \A i \in 1 .. Len(seq) - 1 : Less(seq[i], seq[i + 1])
Below(a, b) == a < b
ByKey(a, b) == a.key < b.key
Pairs(a, b) == a[1] < b[1] \/ (a[1] = b[1] /\ a[2] < b[2])
Triples(a, b) == a[1] < b[1] \/ (a[1] = b[1] /\ Pairs(Tail(a), Tail(b)))
SortedBy(set, Less(_, _)) ==
  [i \in 1 .. Cardinality(set) |-> CHOOSE x \in set : Cardinality({y \in set : Less(y, x)}) = i - 1]
Ascending(set) == SortedBy(set, Below)
Entries(f) == LET keys == Ascending(DOMAIN f) IN [i \in DOMAIN keys |-> [key |-> keys[i], value |-> f[keys[i]]]]
NoRepeat(seq) == Cardinality(Range(seq)) = Len(seq)
MapOf(entries) == [k \in {entries[i].key : i \in DOMAIN entries} |->
                     entries[CHOOSE i \in DOMAIN entries : entries[i].key = k].value]

-----------------------------------------------------------------------------
(* Writing.                                                                *)

\* put_value, nested
RECURSIVE PutValue(_), Depth(_)
PutValue(v) ==
  CASE v.is = "map"  -> LET all == Entries(v.at)
                        IN [is |-> "map", pairs |-> [i \in DOMAIN all |-> [all[i] EXCEPT !.value = PutValue(@)]]]
    [] v.is = "list" -> [v EXCEPT !.items = [i \in DOMAIN @ |-> PutValue(@[i])]]
    [] OTHER -> v
Depth(v) ==
  CASE v.is = "map"  -> 1 + Max({Depth(v.at[k]) : k \in DOMAIN v.at} \cup {0})
    [] v.is = "list" -> 1 + Max({Depth(v.items[i]) : i \in DOMAIN v.items} \cup {0})
    [] OTHER -> 0

Collect(g) ==
  Ascending(UNION {Range(g.nodes[n].labels) \cup DOMAIN g.nodes[n].props : n \in DOMAIN g.nodes}
            \cup UNION {{g.rels[r].kind} \cup DOMAIN g.rels[r].props : r \in DOMAIN g.rels})
Id(names, name) == CHOOSE i \in DOMAIN names : names[i] = name

PutProps(names, props) ==
  LET all == Entries(props)
  IN [i \in DOMAIN all |-> [key |-> Id(names, all[i].key), value |-> PutValue(all[i].value)]]
PutNode(names, id, node) ==
  [id |-> id, labels |-> [i \in DOMAIN node.labels |-> Id(names, node.labels[i])], props |-> PutProps(names, node.props)]
PutRelationship(names, id, rel) ==
  [id |-> id, kind |-> Id(names, rel.kind), from |-> rel.from, to |-> rel.to, props |-> PutProps(names, rel.props)]
Exportable(g) ==
  /\ \A n \in DOMAIN g.nodes : NoRepeat(g.nodes[n].labels)
  /\ \A r \in DOMAIN g.rels : {g.rels[r].from, g.rels[r].to} \subseteq DOMAIN g.nodes
  /\ \A x \in Range(g.nodes) \cup Range(g.rels) : \A p \in DOMAIN x.props : Depth(x.props[p]) <= MaxValueDepth

\* declarations: the parser's lists, sorted and each once
Declarations(schema) ==
  [schema |-> <<schema.text>>, uniques |-> SortedBy(Range(schema.uniques), Pairs),
   indexes |-> SortedBy(Range(schema.indexes), Triples)]

\* What goes along: given, or as it came; a stored schema has its Auth added.
Along(g, options) ==
  IF options.schema # <<>> THEN Declarations(options.schema[1])
  ELSE [schema |-> IF g.carried.schema # <<>> /\ StoredMark \in DOMAIN g.carried.meta
                        /\ g.carried.meta[StoredMark] = StoredMark
                   THEN <<[g.carried.schema[1] EXCEPT !.auth = TRUE]>> ELSE g.carried.schema,
        uniques |-> g.carried.uniques, indexes |-> g.carried.indexes]
Meta(g, options) ==
  [k \in DOMAIN g.carried.meta \cup DOMAIN options.meta |->
     IF k \in DOMAIN options.meta THEN options.meta[k] ELSE g.carried.meta[k]]

\* encode_sections: the sections before "done", as [tag, payload]
EncodeSections(g, options, by) ==
  LET names == Collect(g)
      along == Along(g, options)
      ids   == Ascending(DOMAIN g.nodes)
      rels  == Ascending(DOMAIN g.rels)
  IN << [tag |-> "MNFT", payload |-> [by |-> by, nodes |-> Len(ids), rels |-> Len(rels), meta |-> Entries(Meta(g, options))]],
        [tag |-> "NAME", payload |-> [names |-> names]],
        [tag |-> "SCHM", payload |-> along],
        [tag |-> "NODE", payload |-> [next |-> g.next[1], records |-> [i \in DOMAIN ids |-> PutNode(names, ids[i], g.nodes[ids[i]])]]],
        [tag |-> "RELS", payload |-> [next |-> g.next[2],
                                      records |-> [i \in DOMAIN rels |-> PutRelationship(names, rels[i], g.rels[rels[i]])]]] >>
     \o (IF g.history = <<>> THEN <<>> ELSE <<[tag |-> "HIST", payload |-> [bytes |-> g.history[1]]]>>)
     \o (IF g.linked = <<>> THEN <<>> ELSE <<[tag |-> "SYNC", payload |-> [json |-> g.linked[1]]]>>)

Size(tag, payload) ==
  CASE tag = "MNFT" -> 1 + Len(payload.meta)
    [] tag = "NAME" -> Len(payload.names)
    [] tag = "SCHM" -> 1 + Len(payload.indexes) + Len(payload.uniques)
    [] tag \in {"NODE", "RELS"} -> 1 + Len(payload.records)
    [] OTHER -> 1
Section(tag, payload) == [tag |-> tag, len |-> Size(tag, payload), payload |-> payload, crc |-> payload]
Done(content) == Section("DONE", [digest |-> content])
File(sections) == [magic |-> "zgraph", version |-> 1, sections |-> sections, cut |-> 0]

\* write: the digest is taken as the bytes go out, from the manifest's end on
Write(g, options, by) ==
  LET put(out, s) ==
        LET section == Section(s.tag, s.payload)
        IN [sections |-> Append(out.sections, section),
            content  |-> IF out.sections = <<>> THEN <<>> ELSE Append(out.content, section)]
      out == FoldLeft(put, [sections |-> <<>>, content |-> <<>>], EncodeSections(g, options, by))
  IN IF ~Exportable(g) THEN Unexportable ELSE File(Append(out.sections, Done(out.content)))

\* write_unfinished: the length and checksum are known once the payload is out
WriteUnfinished(g, by) ==
  LET put(out, s) ==
        LET header == [tag |-> s.tag, len |-> 0, payload |-> s.payload, crc |-> s.payload]
            at     == Len(out.sections) + 1
            all    == Append(out.sections, header)
        IN [sections |-> [all EXCEPT ![at].len = Size(s.tag, s.payload)],
            start    |-> IF s.tag = "MNFT" THEN at ELSE out.start]
  IN IF ~Exportable(g) THEN Unexportable
     ELSE FoldLeft(put, [sections |-> <<>>, start |-> 0], EncodeSections(g, [schema |-> <<>>, meta |-> <<>>], by))

\* finish: the content is read back from where the manifest ended
Finish(out) ==
  IF Failed(out) THEN out
  ELSE File(Append(out.sections, Done(SubSeq(out.sections, out.start + 1, Len(out.sections)))))

-----------------------------------------------------------------------------
(* Reading.                                                                *)

\* fill, exact, take: all its bytes are there
Arrives(file, at) == at <= Len(file.sections) /\ (at = Len(file.sections) => file.cut = 0)

\* read_section: its header, its payload, its length and its checksum
ReadsSection(file, at, tag) ==
  /\ Arrives(file, at)
  /\ file.sections[at].tag = tag
  /\ file.sections[at].len = Size(tag, file.sections[at].payload)
  /\ file.sections[at].crc = file.sections[at].payload
Peeks(file, at, tag) == at <= Len(file.sections) /\ file.sections[at].tag = tag

\* read_value, read_list, read_map, read_scalar
RECURSIVE DecodesValue(_, _), Value(_)
DecodesValue(v, depth) ==
  CASE v.is = "map"  -> /\ depth < MaxValueDepth /\ InOrder(v.pairs, ByKey)
                        /\ \A i \in DOMAIN v.pairs : DecodesValue(v.pairs[i].value, depth + 1)
    [] v.is = "list" -> depth < MaxValueDepth /\ \A i \in DOMAIN v.items : DecodesValue(v.items[i], depth + 1)
    [] OTHER -> v.is # "minus zero"   \* of a point, or a vector's component
Value(v) ==
  CASE v.is = "map"  -> [is |-> "map", at |-> [k \in DOMAIN MapOf(v.pairs) |-> Value(MapOf(v.pairs)[k])]]
    [] v.is = "list" -> [v EXCEPT !.items = [i \in DOMAIN @ |-> Value(@[i])]]
    [] OTHER -> v

DecodesManifest(p) == InOrder(p.meta, ByKey)
\* read_names, where a repeat or an unsorted list would pass
NamesOnce(p) == NoRepeat(p.names)
DecodesNames(p) == InOrder(p.names, Below)
DecodesSchema(p) ==
  /\ InOrder(p.indexes, Triples) /\ InOrder(p.uniques, Pairs)
  /\ p.schema = <<>> => p.indexes = <<>> /\ p.uniques = <<>>
DecodesProps(props, names) ==
  /\ InOrder(props, ByKey)
  /\ \A i \in DOMAIN props : props[i].key \in DOMAIN names /\ DecodesValue(props[i].value, 0)
ById(a, b) == a.id < b.id
DecodesNodes(p, names, count) ==
  /\ Len(p.records) = count /\ InOrder(p.records, ById)
  /\ \A i \in DOMAIN p.records :
       LET node == p.records[i]
       IN /\ node.id < p.next /\ Range(node.labels) \subseteq DOMAIN names /\ NoRepeat(node.labels)
          /\ DecodesProps(node.props, names)
DecodesRelationships(p, names, count, ids) ==
  /\ Len(p.records) = count /\ InOrder(p.records, ById)
  /\ \A i \in DOMAIN p.records :
       LET rel == p.records[i]
       IN /\ rel.id < p.next /\ rel.kind \in DOMAIN names /\ {rel.from, rel.to} \subseteq ids
          /\ DecodesProps(rel.props, names)
DecodesLinked(p) == p.json.is # "not json"

Used(nodes, rels) ==
  UNION {Range(nodes[i].labels) \cup {nodes[i].props[j].key : j \in DOMAIN nodes[i].props} : i \in DOMAIN nodes}
  \cup UNION {{rels[i].kind} \cup {rels[i].props[j].key : j \in DOMAIN rels[i].props} : i \in DOMAIN rels}

\* read
Read(file) ==
  LET payload(at) == file.sections[at].payload
      names   == payload(2).names
      nodes   == payload(4).records
      rels    == payload(5).records
      nodesIn(p) == DecodesNodes(p, names, payload(1).nodes)
      relsIn(p)  == DecodesRelationships(p, names, payload(1).rels, {nodes[i].id : i \in DOMAIN nodes})
      syncAt  == IF Peeks(file, 6, "HIST") THEN 7 ELSE 6
      doneAt  == IF Peeks(file, syncAt, "SYNC") THEN syncAt + 1 ELSE syncAt
      propsOf(props) == [k \in {names[props[i].key] : i \in DOMAIN props} |->
                           Value(props[CHOOSE i \in DOMAIN props : names[props[i].key] = k].value)]
      restoredNode(node) == [labels |-> [i \in DOMAIN node.labels |-> names[node.labels[i]]], props |-> propsOf(node.props)]
      restoredRel(rel)   == [kind |-> names[rel.kind], from |-> rel.from, to |-> rel.to, props |-> propsOf(rel.props)]
      byId(records, restored(_)) == [id \in {records[i].id : i \in DOMAIN records} |->
                                       restored(records[CHOOSE i \in DOMAIN records : records[i].id = id])]
      digestIs(p) == p.digest = SubSeq(file.sections, 2, doneAt - 1)
  IN IF /\ file.magic = "zgraph" /\ file.version = 1
        /\ ReadsSection(file, 1, "MNFT") /\ DecodesManifest(payload(1))
        /\ ReadsSection(file, 2, "NAME") /\ DecodesNames(payload(2))
        /\ ReadsSection(file, 3, "SCHM") /\ DecodesSchema(payload(3))
        /\ ReadsSection(file, 4, "NODE") /\ nodesIn(payload(4))
        /\ ReadsSection(file, 5, "RELS") /\ relsIn(payload(5))
        /\ syncAt = 7 => ReadsSection(file, 6, "HIST")
        /\ doneAt # syncAt => ReadsSection(file, syncAt, "SYNC") /\ DecodesLinked(payload(syncAt))
        /\ ReadsSection(file, doneAt, "DONE") /\ digestIs(payload(doneAt))
        /\ Len(file.sections) = doneAt
        /\ Used(nodes, rels) = DOMAIN names
     THEN [nodes |-> byId(nodes, restoredNode), rels |-> byId(rels, restoredRel),
           next |-> <<payload(4).next, payload(5).next>>,
           carried |-> [schema |-> payload(3).schema, uniques |-> payload(3).uniques, indexes |-> payload(3).indexes,
                        meta |-> MapOf(payload(1).meta)],
           history |-> IF syncAt = 7 THEN <<payload(6).bytes>> ELSE <<>>,
           linked  |-> IF doneAt # syncAt /\ payload(syncAt).json.active THEN <<[payload(syncAt).json EXCEPT !.is = "compact"]>>
                       ELSE <<>>]
     ELSE Unreadable

-----------------------------------------------------------------------------
(* Files in transit.                                                       *)

\* The file after a change: what is left of it, or a payload with a list in
\* another order, twice or shortened, another number or another value.
\* Resealed, its lengths, checksums and digest follow.
List(seq, how) ==
  CASE how = "reversed" -> Reverse(seq) [] how = "doubled" -> seq \o seq [] how = "shortened" -> SubSeq(seq, 2, Len(seq))
ChangedRecord(record, change) ==
  CASE change.field \notin DOMAIN record -> record
    [] change.is = "recordList"   -> [record EXCEPT ![change.field] = List(@, change.how)]
    [] change.is = "recordNumber" -> [record EXCEPT ![change.field] = change.of]
    [] change.is = "value"        -> IF record.props = <<>> THEN record ELSE [record EXCEPT !.props[1].value = change.value]
ChangedPayload(payload, change) ==
  CASE change.is \in {"list", "number"} /\ change.field \notin DOMAIN payload -> payload
    [] change.is = "list"   -> [payload EXCEPT ![change.field] = List(@, change.how)]
    [] change.is = "number" -> [payload EXCEPT ![change.field] = change.of]
    [] "records" \notin DOMAIN payload -> payload
    [] change.record \notin DOMAIN payload.records -> payload
    [] OTHER -> [payload EXCEPT !.records[change.record] = ChangedRecord(@, change)]
Changed(file, change) ==
  LET at == change.at  sections == file.sections
  IN CASE at > Len(sections) -> file
       [] change.is = "none"     -> file
       [] change.is = "cut"      -> [file EXCEPT !.sections = SubSeq(@, 1, at), !.cut = change.of]
       [] change.is = "removed"  -> [file EXCEPT !.sections = RemoveAt(@, at)]
       [] change.is = "swapped"  -> IF at = Len(sections) THEN file
                                    ELSE [file EXCEPT !.sections[at] = sections[at + 1], !.sections[at + 1] = sections[at]]
       [] change.is = "repeated" -> [file EXCEPT !.sections = SubSeq(@, 1, at) \o SubSeq(@, at, Len(@))]
       [] change.is = "version"  -> [file EXCEPT !.version = change.of]
       [] change.is = "length"   -> [file EXCEPT !.sections[at].len = @ + 1]
       [] OTHER -> [file EXCEPT !.sections[at].payload = ChangedPayload(@, change)]
Resealed(file) ==
  LET sealed == [i \in DOMAIN file.sections |-> Section(file.sections[i].tag, file.sections[i].payload)]
      last   == Len(sealed)
  IN IF last < 2 \/ sealed[last].tag # "DONE" THEN file
     ELSE [file EXCEPT !.sections = Append(SubSeq(sealed, 1, last - 1), Done(SubSeq(sealed, 2, last - 1)))]

\* Write a graph, change the file, read it and write what was read.
Exchange(g, options, change, resealed) ==
  LET written == Write(g, options, "zega")
      arrived == IF resealed THEN Resealed(Changed(written, change)) ELSE Changed(written, change)
  IN IF Failed(written) THEN [written |-> written, later |-> Finish(WriteUnfinished(g, "zega"))]
     ELSE [written |-> written, later |-> Finish(WriteUnfinished(g, "zega")), arrived |-> arrived, read |-> Read(arrived)]

\* One graph has one encoding: both writers give it, it reads back, and of any
\* other file only one that is itself the encoding of a graph, and was sealed
\* as such, is read.
OneEncoding(g, options, resealed, answer) ==
  /\ options.schema = <<>> /\ options.meta = <<>> => answer.later = answer.written
  /\ ~Failed(answer.written) =>
       /\ answer.arrived = answer.written => ~Failed(answer.read) /\ answer.read.nodes = g.nodes /\ answer.read.rels = g.rels
       /\ ~Failed(answer.read) =>
            /\ answer.arrived # answer.written => resealed
            /\ Write(answer.read, [schema |-> <<>>, meta |-> <<>>], answer.arrived.sections[1].payload.by) = answer.arrived
            /\ \A n \in DOMAIN answer.read.nodes : n < answer.read.next[1]
            /\ \A r \in DOMAIN answer.read.rels : r < answer.read.next[2]
=============================================================================

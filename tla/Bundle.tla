------------------------------- MODULE Bundle -------------------------------
(***************************************************************************)
(* A bundle (zega/src/bundle.rs): a directory with a graph and the files   *)
(* it refers to, each stored under the hash of its bytes.  An asset is     *)
(* put; a reference resolved; the bundle verified, packed to an archive    *)
(* without a word of where files lie on this computer, and unpacked on     *)
(* another.                                                                *)
(*                                                                         *)
(* A bundle is [graph, assets: name to bytes, manifest, strays, folders]:  *)
(* the last two are what a bundle should not hold, beside and in assets.   *)
(* Bytes stand for their hash.  A graph is [schema, subjects, past, log]:  *)
(* subjects are nodes and relationships by id, [of: label or kind, props:  *)
(* a sequence of [field, value]]; a value is a record of one field, hash,  *)
(* path, text or num.  The undo history, past, is a set of such props, and *)
(* so is each upsert of the linked change log.                             *)
(***************************************************************************)
EXTENDS Integers, FiniteSets, Sequences, SequencesExt, FiniteSetsExt

CONSTANTS
  Bytes,      \* contents a file may have; the names of assets
  Staging,    \* the name of a file that is being put
  Wrapper     \* a top-level name that ends in .zga

Graph    == "graph.graph"
Assets   == "assets"
Manifest == "zega.json"
Refused  == [is |-> "refused"]
OnDisk(disk, value, bytes) == value.path \in DOMAIN disk /\ disk[value.path] = bytes

-----------------------------------------------------------------------------
(* Reading a bundle.                                                       *)

\* remote_manifest: whatever is no object holds no remotes
Readable(b) ==
  b.manifest.is = "remotes" => \A h \in DOMAIN b.manifest.of : h \in Bytes /\ b.manifest.of[h] = "url"
Remotes(b) == IF b.manifest.is = "remotes" THEN DOMAIN b.manifest.of ELSE {}

\* declared, shape_guessed: the references and the paths among props
IsString(value) == "num" \notin DOMAIN value
Facts(props, hashes, paths) ==
  [hashes |-> SelectSeq(props, LAMBDA p : IsString(p.value) /\ p \in hashes),
   paths  |-> SelectSeq(props, LAMBDA p : IsString(p.value) /\ p \in paths \ hashes)]
Declared(props, hashes, files) ==
  Facts(props, {p \in Range(props) : p.field \in hashes}, {p \in Range(props) : p.field \in files})
Guessed(props) ==
  LET holding(what) == {p \in Range(props) : what \in DOMAIN p.value}
  IN Facts(props, holding("hash"), holding("path"))

\* scan: what the schema declares of a label or kind, or what the shapes say
FieldsOf(schema, of, type) == {d.field : d \in {d \in schema : d.of = of /\ d.type = type}}
FactsOf(graph, s) ==
  IF graph.schema = <<>> THEN Guessed(s.props)
  ELSE Declared(s.props, FieldsOf(graph.schema[1], s.of, "String<blake3>"), FieldsOf(graph.schema[1], s.of, "String<file>"))
Scan(graph) ==
  LET facts == [id \in DOMAIN graph.subjects |-> FactsOf(graph, graph.subjects[id])]
  IN [id \in {id \in DOMAIN facts : facts[id].hashes # <<>> \/ facts[id].paths # <<>>} |-> facts[id]]

\* asset_path, off_local
HasAsset(b, hash) == hash \in Bytes /\ hash \in DOMAIN b.assets
Elsewhere(b, hash) == HasAsset(b, hash) \/ hash \in Remotes(b)
OffLocal(b, hash, none) ==
  CASE HasAsset(b, hash)   -> [is |-> "asset", bytes |-> b.assets[hash]]
    [] ~HasAsset(b, hash) /\ ~Readable(b) -> Refused
    [] ~HasAsset(b, hash) /\ Readable(b)  -> IF hash \in Remotes(b) THEN [is |-> "remote", bytes |-> hash] ELSE none
\* resolve
Resolve(b, disk, hash, path) ==
  CASE "hash" \notin DOMAIN hash -> Refused
    [] "hash" \in DOMAIN hash /\ path # <<>> /\ ~("path" \in DOMAIN path[1]) -> Refused
    [] OTHER ->
         IF path = <<>> THEN OffLocal(b, hash.hash, [is |-> "missing"])
         ELSE IF path[1].path \notin DOMAIN disk THEN OffLocal(b, hash.hash, [is |-> "missing"])
         ELSE IF disk[path[1].path] = hash.hash THEN [is |-> "local", bytes |-> disk[path[1].path]]
         ELSE OffLocal(b, hash.hash, [is |-> "stale"])
\* read_asset
ReadAsset(b, hash) ==
  IF HasAsset(b, hash) /\ b.assets[hash] = hash THEN [is |-> "bytes", bytes |-> hash] ELSE Refused

\* check_references
Position(hashes, bytes) ==
  {i \in DOMAIN hashes : hashes[i].value.hash = bytes /\ \A j \in 1 .. i - 1 : hashes[j].value.hash # bytes}
AtHand(facts, disk) ==
  UNION {Position(facts.hashes, disk[facts.paths[i].value.path]) : i \in {i \in DOMAIN facts.paths : facts.paths[i].value.path \in DOMAIN disk}}
ChecksReferences(b, disk, scanned) ==
  \A id \in DOMAIN scanned :
    LET facts == scanned[id]
    IN /\ \A i \in DOMAIN facts.hashes : "hash" \in DOMAIN facts.hashes[i].value
       /\ \A i \in DOMAIN facts.paths : "path" \in DOMAIN facts.paths[i].value
       /\ \A i \in DOMAIN facts.hashes \ AtHand(facts, disk) : Elsewhere(b, facts.hashes[i].value.hash)
\* check_layout, verify_scanned
Verifies(b, disk) ==
  /\ Readable(b)
  /\ b.strays = {} /\ b.folders = {}
  /\ \A name \in DOMAIN b.assets : name \in Bytes /\ b.assets[name] = name
  /\ ChecksReferences(b, disk, Scan(b.graph))

-----------------------------------------------------------------------------
(* Putting and packing.                                                    *)

\* put_reader, stage_asset: a put ends whole, fails and cleans up, or stops
Put(b, bytes, ends) ==
  CASE ends = "whole" -> [b EXCEPT !.assets = @ @@ (bytes :> bytes)]
    [] ends = "fails" -> b
    [] ends = "stops" -> [b EXCEPT !.assets = (Staging :> bytes) @@ @]

\* copy_local_assets
CopiesOf(b, disk, facts) ==
  {h \in {facts.hashes[i].value.hash : i \in DOMAIN facts.hashes} :
     ~HasAsset(b, h) /\ \E i \in DOMAIN facts.paths : OnDisk(disk, facts.paths[i].value, h)}
CopyLocal(b, disk) ==
  LET scanned == Scan(b.graph)
  IN FoldSet(LAMBDA h, with : Put(with, h, "whole"), b, UNION {CopiesOf(b, disk, scanned[id]) : id \in DOMAIN scanned})

\* keep_without, stripped_graph
Without(props, fields) == SelectSeq(props, LAMBDA p : p.field \notin fields)
PathFields(facts) == {facts.paths[i].field : i \in DOMAIN facts.paths}
\* stripped_graph, if it left the linked change log as it was
StrippedButLog(graph, scanned) ==
  LET stripped == UNION {PathFields(scanned[id]) : id \in DOMAIN scanned}
      of(id)   == IF id \in DOMAIN scanned THEN Without(graph.subjects[id].props, PathFields(scanned[id])) ELSE graph.subjects[id].props
  IN IF stripped = {} THEN graph
     ELSE [graph EXCEPT !.subjects = [id \in DOMAIN @ |-> [@[id] EXCEPT !.props = of(id)]], !.past = {}]
Stripped(graph, scanned) ==
  LET stripped == UNION {PathFields(scanned[id]) : id \in DOMAIN scanned}
      of(id)   == IF id \in DOMAIN scanned THEN Without(graph.subjects[id].props, PathFields(scanned[id])) ELSE graph.subjects[id].props
  IN IF stripped = {} THEN graph
     ELSE [graph EXCEPT
             !.subjects = [id \in DOMAIN @ |-> [@[id] EXCEPT !.props = of(id)]],
             !.past = {},
             !.log  = [i \in DOMAIN @ |-> Without(@[i], stripped)]]

\* entries: a directory entry, then the files by name
FileEntry(path, content, size) == [path |-> path, is |-> "file", holds |-> content, size |-> size, companion |-> FALSE]
FolderEntry(path) == [path |-> path, is |-> "folder", holds |-> [is |-> "none"], size |-> 0, companion |-> FALSE]
Entries(b, graph) ==
  <<FolderEntry(<<Assets>>)>>
    \o SetToSeq({FileEntry(<<Assets, name>>, [is |-> "bytes", bytes |-> b.assets[name]], 1) : name \in DOMAIN b.assets})
    \o (IF b.manifest.is = "none" THEN <<>> ELSE <<FileEntry(<<Assets, Manifest>>, [is |-> "manifest", manifest |-> b.manifest], 1)>>)
    \o <<FileEntry(<<Graph>>, [is |-> "graph", graph |-> graph], 2)>>
\* pack_with
Pack(b, disk, include) ==
  LET copied  == IF include THEN CopyLocal(b, disk) ELSE b
      scanned == Scan(copied.graph)
      ships   == \A id \in DOMAIN scanned : \A i \in DOMAIN scanned[id].hashes : Elsewhere(copied, scanned[id].hashes[i].value.hash)
  IN IF ~Verifies(b, disk) THEN [refused |-> TRUE, bundle |-> b, archive |-> <<>>]
     ELSE IF ~Verifies(copied, disk) \/ ~ships THEN [refused |-> TRUE, bundle |-> copied, archive |-> <<>>]
     ELSE [refused |-> FALSE, bundle |-> copied, archive |-> Entries(copied, Stripped(copied.graph, scanned))]

-----------------------------------------------------------------------------
(* Unpacking.                                                              *)

\* safe_path: `.` changes nothing, `..` and a root are refused
SafePath(path) == SelectSeq(path, LAMBDA name : name # ".")
Safe(path) == SafePath(path) # <<>> /\ Range(path) \cap {"..", "/"} = {}
Parents(path) == {SubSeq(path, 1, i) : i \in 1 .. Len(path) - 1}

\* unpack_entries, copy_capped
UnpackEntry(limits, run, e) ==
  LET path  == SafePath(e.path)
      run1  == [run EXCEPT !.entries = @ + 1]
      stuck == [run1 EXCEPT !.ok = FALSE]
      files == DOMAIN run.files
  IN CASE ~run.ok -> run
       [] run.ok /\ (run1.entries > limits.entries \/ ~Safe(e.path)) -> stuck
       [] run.ok /\ run1.entries <= limits.entries /\ Safe(e.path) ->
            IF e.companion THEN run1
            ELSE IF e.is = "folder"
            THEN IF ({path} \cup Parents(path)) \cap files # {} THEN stuck
                 ELSE [run1 EXCEPT !.folders = @ \cup {path} \cup Parents(path)]
            ELSE IF e.is = "file"
            THEN IF e.size > limits.entry \/ run.total + e.size > limits.total THEN stuck
                 ELSE IF Parents(path) \cap files # {} \/ path \in files \cup run.folders THEN stuck
                 ELSE [run1 EXCEPT !.files = @ @@ (path :> e.holds), !.folders = @ \cup Parents(path), !.total = @ + e.size]
            ELSE stuck
UnpackEntries(archive, limits) ==
  FoldLeft(LAMBDA run, e : UnpackEntry(limits, run, e),
           [ok |-> TRUE, entries |-> 0, total |-> 0, files |-> <<>>, folders |-> {}], archive)

\* unwrap_wrapper
Unwrap(run) ==
  LET top == {p[1] : p \in DOMAIN run.files \cup run.folders}
  IN IF top = {Wrapper} /\ <<Wrapper>> \in run.folders
     THEN [run EXCEPT !.files = [p \in {Tail(p) : p \in DOMAIN @} |-> @[<<Wrapper>> \o p]],
                      !.folders = {Tail(p) : p \in @ \ {<<Wrapper>>}}]
     ELSE run

\* open
Opens(run) == <<Graph>> \in DOMAIN run.files /\ <<Assets>> \in run.folders
BundleOf(run) ==
  LET named == {p[2] : p \in {p \in DOMAIN run.files : Len(p) = 2 /\ p[1] = Assets}}
  IN [graph    |-> run.files[<<Graph>>].graph,
      assets   |-> [name \in named \ {Manifest} |-> run.files[<<Assets, name>>].bytes],
      manifest |-> IF Manifest \in named THEN run.files[<<Assets, Manifest>>].manifest ELSE [is |-> "none"],
      strays   |-> {p[1] : p \in DOMAIN run.files \cup run.folders} \ {Graph, Assets},
      folders  |-> {p \in run.folders : Len(p) > 1 /\ p[1] = Assets}]
\* unpack_with: what is left at the place asked for
Unpack(archive, limits, disk, there) ==
  LET run  == UnpackEntries(archive, limits)
      flat == Unwrap(run)
  IN IF there THEN [refused |-> TRUE, left |-> "as it was", bundle |-> <<>>]
     ELSE IF run.ok /\ Opens(flat)
     THEN IF Verifies(BundleOf(flat), disk) THEN [refused |-> FALSE, left |-> "bundle", bundle |-> <<BundleOf(flat)>>]
          ELSE [refused |-> TRUE, left |-> "nothing", bundle |-> <<>>]
     ELSE [refused |-> TRUE, left |-> "nothing", bundle |-> <<>>]

-----------------------------------------------------------------------------
(* A bundle on its way: q is [bundle, disk, put, hash, path, include,      *)
(* carried, limits, there].                                                *)

\* What a platform's tar, a copy or a hand may have made of an archive.
Carried(archive, how) ==
  CASE how = "as packed"  -> archive
    [] how = "wrapped"    -> <<FolderEntry(<<Wrapper>>)>> \o [i \in DOMAIN archive |-> [archive[i] EXCEPT !.path = <<".", Wrapper>> \o @]]
    [] how = "companions" -> FoldLeft(LAMBDA all, e : all \o <<[e EXCEPT !.companion = TRUE, !.is = "file"], e>>, <<>>, archive)
    [] how = "twice"      -> Append(archive, Last(archive))
    [] how = "cut"        -> Front(archive)
    [] how = "beside"     -> Append(archive, FileEntry(<<"notes">>, [is |-> "bytes", bytes |-> "notes"], 1))
    [] how = "climbs"     -> Append(archive, FileEntry(<<Assets, "..", "..", "notes">>, [is |-> "bytes", bytes |-> "notes"], 1))
    [] how = "linked"     -> Append(archive, [FileEntry(<<Assets, "link">>, [is |-> "none"], 0) EXCEPT !.is = "link"])
    [] how = "folder"     -> Append(archive, FolderEntry(<<Assets, "more">>))
Trade(q) ==
  LET put    == IF q.put = <<>> THEN q.bundle ELSE Put(q.bundle, q.put[1], q.put[2])
      packed == Pack(put, q.disk, q.include)
  IN [put      |-> put,
      resolved |-> Resolve(put, q.disk, q.hash, q.path),
      read     |-> IF "hash" \in DOMAIN q.hash THEN ReadAsset(put, q.hash.hash) ELSE Refused,
      packed   |-> packed,
      unpacked |-> IF packed.refused THEN [refused |-> TRUE, left |-> "nothing", bundle |-> <<>>]
                   ELSE Unpack(Carried(packed.archive, q.carried), q.limits, <<>>, q.there)]

-----------------------------------------------------------------------------
(* What a bundle promises.                                                 *)

\* A reference and a path are what the schema says, or what looks like one.
IsReference(graph, s, p) ==
  IF graph.schema = <<>> THEN "hash" \in DOMAIN p.value
  ELSE IsString(p.value) /\ \E d \in graph.schema[1] : d.of = s.of /\ d.field = p.field /\ d.type = "String<blake3>"
IsPath(graph, s, p) ==
  IF graph.schema = <<>> THEN "path" \in DOMAIN p.value
  ELSE IsString(p.value) /\ \E d \in graph.schema[1] : d.of = s.of /\ d.field = p.field /\ d.type = "String<file>"
\* The bytes of every reference are in assets, or named by a remote, or with
\* `local` in a file its node or relationship names.
Served(b, disk, local) ==
  \A s \in Range(b.graph.subjects) : \A i \in DOMAIN s.props :
    IsReference(b.graph, s, s.props[i]) =>
      /\ "hash" \in DOMAIN s.props[i].value
      /\ LET h == s.props[i].value.hash
         IN \/ h \in DOMAIN b.assets
            \/ b.manifest.is = "remotes" /\ h \in DOMAIN b.manifest.of
            \/ local /\ \E j \in DOMAIN s.props : IsPath(b.graph, s, s.props[j]) /\ OnDisk(disk, s.props[j].value, h)
InOrder(b) ==
  /\ b.strays = {} /\ b.folders = {}
  /\ \A name \in DOMAIN b.assets : name \in Bytes /\ b.assets[name] = name
  /\ b.manifest.is = "remotes" => \A h \in DOMAIN b.manifest.of : h \in Bytes /\ b.manifest.of[h] # "not a url"
  /\ \A s \in Range(b.graph.subjects) : \A i \in DOMAIN s.props : IsPath(b.graph, s, s.props[i]) => "path" \in DOMAIN s.props[i].value
Mentions(graph) ==
  UNION {Range(s.props) : s \in Range(graph.subjects)} \cup UNION {Range(p) : p \in graph.past} \cup UNION {Range(graph.log[i]) : i \in DOMAIN graph.log}
Unharmed == {"as packed", "wrapped", "companions"}
SizeOf(b) == Cardinality(DOMAIN b.assets) + (IF b.manifest.is = "none" THEN 0 ELSE 1)

\* A bundle is packed exactly when its files are what their names say and all
\* it refers to can go along; packing is refused without a change to it.  What
\* is packed and carried unharmed unpacks on a computer with none of the files,
\* to the same assets and the same graph but its local paths, which nothing in
\* it mentions; anything else is refused, and leaves nothing.
Travels(q, a) ==
  LET ours  == a.packed.bundle
      theirs == a.unpacked.bundle[1]
      fits   == /\ q.limits.entries >= 2 + SizeOf(ours) /\ q.limits.entry >= 2 /\ q.limits.total >= 2 + SizeOf(ours)
  IN /\ a.packed.refused = ~(InOrder(a.put) /\ Served(a.put, q.disk, TRUE) /\ Served(a.put, q.disk, q.include))
     /\ a.packed.refused => ours = a.put
     /\ ~a.packed.refused /\ q.carried = "as packed" => a.unpacked.refused = (q.there \/ ~fits)
     /\ ~a.packed.refused /\ ~q.there /\ q.limits.entries > 9 /\ fits => a.unpacked.refused = (q.carried \notin Unharmed)
     /\ a.unpacked.refused => a.unpacked.left = (IF q.there /\ ~a.packed.refused THEN "as it was" ELSE "nothing")
     /\ ~a.unpacked.refused =>
          /\ theirs.assets = ours.assets /\ theirs.manifest = ours.manifest
          /\ Served(theirs, <<>>, FALSE)
          /\ DOMAIN theirs.graph.subjects = DOMAIN ours.graph.subjects
          /\ \A id \in DOMAIN ours.graph.subjects :
               LET s == ours.graph.subjects[id]
               IN theirs.graph.subjects[id].props = SelectSeq(s.props, LAMBDA p : ~IsPath(ours.graph, s, p))
          /\ \A s \in Range(ours.graph.subjects), i \in 1 .. 9 :
               i \in DOMAIN s.props /\ IsPath(ours.graph, s, s.props[i]) => s.props[i] \notin Mentions(theirs.graph)

\* A put is whole or not there, under the name of its bytes; and what a
\* reference resolves to is never other bytes, nor missing while they are here.
ServesTheBytes(q, a) ==
  /\ \A name \in DOMAIN q.bundle.assets : a.put.assets[name] = q.bundle.assets[name]
  /\ \A name \in DOMAIN a.put.assets \ DOMAIN q.bundle.assets : name \in Bytes => a.put.assets[name] = name
  /\ q.put # <<>> => (q.put[2] = "whole" => q.put[1] \in DOMAIN a.put.assets)
  /\ a.read.is = "bytes" => a.read.bytes = q.hash.hash
  /\ a.resolved.is \in {"local", "remote"} => a.resolved.bytes = q.hash.hash
  /\ a.resolved.is = "asset" /\ InOrder(a.put) => a.resolved.bytes = q.hash.hash
  /\ a.resolved.is \in {"missing", "stale"} =>
       ~Elsewhere(a.put, q.hash.hash) /\ ~(q.path # <<>> /\ OnDisk(q.disk, q.path[1], q.hash.hash))
=============================================================================

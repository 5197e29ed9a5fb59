----------------------------- MODULE SchemaDiff -----------------------------
(***************************************************************************)
(* A schema change, classified against the data it would be applied to     *)
(* (zega/src/schema_diff.rs), and refused or accepted (Zega::set_schema,   *)
(* zega/src/v2.rs).                                                        *)
(***************************************************************************)
EXTENDS Schemas

Only(set) == CHOOSE x \in set : TRUE
Missing(a, b) == DOMAIN a \ DOMAIN b

-----------------------------------------------------------------------------
(* What a change would affect.                                             *)

Labelled(d, type) == {n \in DOMAIN d.labels : type \in d.labels[n]}
With(d, type, f)    == {n \in Labelled(d, type) : f \in DOMAIN d.props[n]}
Without(d, type, f) == {n \in Labelled(d, type) : f \notin DOMAIN d.props[n]}
Changed(d, type, f) == {c \in d.changed : c[1] \in Labelled(d, type) /\ c[2] = f}
ChangedAtAll(d, type) == {c \in d.changed : c[1] \in Labelled(d, type)}

Kind(d, rel) == {r \in d.rels : r.kind = rel}
KindOrEnded(d, rel) == Kind(d, rel) \cup {k \in d.ended : k = rel}

\* value_converts
Converts(value, type) ==
  CASE value.type.base = "String" -> type.base = "String" \/ type.base \in value.reads
    [] value.type.base \in {"Int", "Float"} -> type.base \in {"Int", "Float", "String"}
    [] value.type.base = "Bool" -> type.base \in {"Bool", "String"}
    [] OTHER -> value.type = type

NotConverting(d, type, f, to) == {n \in With(d, type, f) : ~IsNull(d.props[n][f]) /\ ~Converts(d.props[n][f], to)}

\* count_relationships_changed
RelsChanged(d, type, old, new) ==
  {r \in Kind(d, old.rel) :
     /\ type \in d.labels[Near(old.dir, r)]
     /\ \/ old.rel # new.rel \/ old.dir # new.dir
        \/ old.targets # new.targets /\ d.labels[Far(old.dir, r)] \cap new.targets = {}}

-----------------------------------------------------------------------------
(* The report: a set of [severity, what, ...].                             *)

Change(severity, what, where) == [severity |-> severity, what |-> what, where |-> where]
BlocksIf(affected) == IF affected # {} THEN "blocks" ELSE "warn"

\* diff_type_fields, of one property both schemas declare
DiffProp(d, type, f, old, new) ==
  (IF old.temporal = new.temporal THEN {}
   ELSE {Change(IF old.temporal /\ Changed(d, type, f) # {} THEN "blocks" ELSE "safe", "historyOf", <<type, f>>)})
  \cup
  CASE ~SameValues(old.type, new.type) ->
         {Change(BlocksIf(NotConverting(d, type, f, new.type)), "converted", <<type, f>>)}
    [] SameValues(old.type, new.type) /\ old.optional /\ ~new.optional ->
         {Change(BlocksIf(Without(d, type, f)), "required", <<type, f>>)}
    [] SameValues(old.type, new.type) /\ ~old.optional /\ new.optional ->
         {Change("safe", "relaxed", <<type, f>>)}
    [] OTHER -> {}

\* diff_edge_props
DiffEdgeProps(d, type, f, rel, old, new) ==
  LET has(p)   == {r \in Kind(d, rel) : p \in DOMAIN r.props}
      lacks(p) == {r \in Kind(d, rel) : p \notin DOMAIN r.props}
      one(p) ==
        CASE ~SameValues(old[p].type, new[p].type) ->
               {Change(BlocksIf({r \in has(p) : ~IsNull(r.props[p]) /\ ~Converts(r.props[p], new[p].type)}), "converted", <<type, f, p>>)}
          [] SameValues(old[p].type, new[p].type) /\ old[p].optional /\ ~new[p].optional ->
               {Change(BlocksIf(lacks(p)), "required", <<type, f, p>>)}
          [] SameValues(old[p].type, new[p].type) /\ ~old[p].optional /\ new[p].optional ->
               {Change("safe", "relaxed", <<type, f, p>>)}
          [] OTHER -> {}
  IN UNION {one(p) : p \in DOMAIN old \cap DOMAIN new}
       \cup {Change(BlocksIf(has(p)), "removed", <<type, f, p>>) : p \in Missing(old, new)}
       \cup {Change(IF new[p].optional \/ lacks(p) = {} THEN "safe" ELSE "blocks", "added", <<type, f, p>>) :
               p \in Missing(new, old)}

\* diff_type_fields, of one edge both schemas declare
DiffEdge(d, type, f, old, new) ==
  (IF old.temporal = new.temporal THEN {}
   ELSE {Change(IF old.temporal /\ \E k \in d.ended : k = old.rel THEN "blocks" ELSE "safe", "historyOf", <<type, f>>)})
  \cup
  (IF <<old.rel, old.dir, old.targets, old.many>> # <<new.rel, new.dir, new.targets, new.many>>
   THEN {Change(BlocksIf(RelsChanged(d, type, old, new)), "edge", <<type, f>>)}
   ELSE DiffEdgeProps(d, type, f, old.rel, old.props, new.props))

\* diff_type_fields, of a field only the old schema declares as it is
DiffRemoved(d, type, f, old) ==
  {Change(BlocksIf(IF old.is = "prop" THEN With(d, type, f) ELSE KindOrEnded(d, old.rel)), "removed", <<type, f>>)}

\* Mutant: a required field is judged as an optional one.
AddedAsOptional(d, type, f, new) == {Change("safe", "added", <<type, f>>)}

DiffAdded(d, type, f, new) ==
  {Change(IF new.is = "edge" \/ new.optional THEN "safe" ELSE BlocksIf(Without(d, type, f)), "added", <<type, f>>)}

\* find_field_rename: the one field that went and the one that came, <<>> or <<from, to>>
FieldRename(old, new) ==
  LET went == Missing(old, new)  came == Missing(new, old)
      from == Only(went)         to == Only(came)
  IN IF /\ Cardinality(went) = 1 /\ Cardinality(came) = 1
        /\ old[from].is = "prop" /\ new[to].is = "prop"
        /\ SameBase(old[from].type, new[to].type) /\ old[from].optional = new[to].optional
     THEN <<from, to>> ELSE <<>>

\* diff_type_fields
DiffFields(d, type, old, new) ==
  LET rename == FieldRename(old, new)
      from == {rename[i] : i \in DOMAIN rename \cap {1}}
      to   == {rename[i] : i \in DOMAIN rename \cap {2}}
      both(f) == f \in DOMAIN new /\ old[f].is = new[f].is
  IN {Change(IF Changed(d, type, f) # {} THEN "blocks" ELSE "warn", "renamed", <<type>> \o rename) : f \in from}
     \cup UNION {DiffProp(d, type, f, old[f], new[f]) : f \in {f \in DOMAIN old : both(f) /\ old[f].is = "prop"}}
     \cup UNION {DiffEdge(d, type, f, old[f], new[f]) : f \in {f \in DOMAIN old : both(f) /\ old[f].is = "edge"}}
     \cup UNION {DiffRemoved(d, type, f, old[f]) : f \in {f \in DOMAIN old \ from : ~both(f)}}
     \cup UNION {DiffAdded(d, type, f, new[f]) : f \in Missing(new, old) \ to}

\* type_signatures_equal
SameSignature(a, b) ==
  /\ DOMAIN a = DOMAIN b
  /\ \A f \in DOMAIN a :
       /\ a[f].is = b[f].is
       /\ a[f].is = "prop" => SameBase(a[f].type, b[f].type) /\ a[f].optional = b[f].optional
       /\ a[f].is = "edge" =>
            /\ <<a[f].rel, a[f].dir, a[f].many, a[f].targets>> = <<b[f].rel, b[f].dir, b[f].many, b[f].targets>>
            /\ DOMAIN a[f].props = DOMAIN b[f].props
            /\ \A p \in DOMAIN a[f].props :
                 /\ SameBase(a[f].props[p].type, b[f].props[p].type)
                 /\ a[f].props[p].optional = b[f].props[p].optional

\* find_type_rename
TypeRename(old, new) ==
  LET went == Missing(old, new)  came == Missing(new, old)
  IN IF /\ Cardinality(went) = 1 /\ Cardinality(came) = 1
        /\ SameSignature(old[Only(went)], new[Only(came)])
     THEN <<Only(went), Only(came)>> ELSE <<>>

\* diff_schemas
Diff(d, old, new) ==
  LET rename == TypeRename(old, new)
      went == IF rename = <<>> THEN Missing(old, new) ELSE {}
      came == IF rename = <<>> THEN Missing(new, old) ELSE {}
  IN {Change(BlocksIf(ChangedAtAll(d, t)), "renamed", rename) :
        t \in {rename[i] : i \in DOMAIN rename \cap {1}}}
     \cup {Change(BlocksIf(Labelled(d, t)), "removed", <<t>>) : t \in went}
     \cup {Change("safe", "added", <<t>>) : t \in came}
     \cup UNION {DiffFields(d, t, old[t], new[t]) : t \in DOMAIN old \cap DOMAIN new}

\* set_schema: Blocks refuse the change, and so does a label without a type.
Accepts(d, new, report) ==
  /\ \A c \in report : c.severity # "blocks"
  /\ \A n \in DOMAIN d.labels : d.labels[n] \subseteq DOMAIN new

-----------------------------------------------------------------------------
(* What the classes promise: "Blocks: Existing data would be lost or       *)
(* violated by the change" (schema_diff.rs:28).                            *)

\* The data once the renames and conversions of a report were carried out, which
\* the report leaves to whoever applies it ("preserved only if the apply step
\* migrates them", schema_diff.rs:95).
Migrated(d, new, report) ==
  LET renames(n) == {c.where : c \in {c \in report : c.what = "renamed" /\ Len(c.where) = 3 /\ c.where[1] \in d.labels[n]}}
      names(n) == (DOMAIN d.props[n] \ {w[2] : w \in renames(n)})
                    \cup {w[3] : w \in {w \in renames(n) : w[2] \in DOMAIN d.props[n]}}
      value(n, f) ==
        LET from == {w \in renames(n) : w[3] = f}
            v    == d.props[n][IF from = {} THEN f ELSE Only(from)[2]]
            to   == {t \in d.labels[n] : Change("warn", "converted", <<t, f>>) \in report}
        IN IF to = {} \/ IsNull(v) THEN v ELSE [v EXCEPT !.type = new[Only(to)][f].type]
      edgeValue(r, p) ==
        LET to == {c.where : c \in {c \in report : c.what = "converted" /\ Len(c.where) = 3 /\ c.where[3] = p
                                     /\ new[c.where[1]][c.where[2]].rel = r.kind}}
        IN IF to = {} THEN r.props[p]
           ELSE [r.props[p] EXCEPT !.type = new[Only(to)[1]][Only(to)[2]].props[p].type]
  IN [d EXCEPT !.props = [n \in DOMAIN d.labels |-> [f \in names(n) |-> value(n, f)]],
               !.rels = {[r EXCEPT !.props = [p \in DOMAIN r.props |-> edgeValue(r, p)]] : r \in d.rels}]

\* An accepted change leaves every stored value, relationship and kept change
\* with a place in the new schema; a safe one does so as they are.
KeepsData(d, new, report) ==
  /\ Accepts(d, new, report) => Fits(Migrated(d, new, report), new)
  /\ (\A c \in report : c.severity = "safe") => Fits(d, new)
=============================================================================

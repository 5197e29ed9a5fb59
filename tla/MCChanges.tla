----------------------------- MODULE MCChanges ------------------------------
(***************************************************************************)
(* The schema changes of the runs: one schema of two types, every single   *)
(* edit of a list of them and every two edits of different fields, and     *)
(* data that fits the schema.                                              *)
(***************************************************************************)
EXTENDS Schemas, Functions, TLC

Prop(type, optional, temporal) == [is |-> "prop", type |-> type, optional |-> optional, temporal |-> temporal]
EdgeProp(type, optional) == [type |-> type, optional |-> optional]
EdgeTo(rel, dir, targets, temporal, props) ==
  [is |-> "edge", rel |-> rel, dir |-> dir, targets |-> targets, many |-> TRUE, temporal |-> temporal, props |-> props]

OldSchema ==
  [A |-> [x |-> Prop(Type("Int"), FALSE, FALSE), s |-> Prop(Type("String"), TRUE, FALSE),
          h |-> Prop(Type("Int"), TRUE, TRUE),
          e |-> EdgeTo("k", "out", {"A", "B"}, FALSE, [w |-> EdgeProp(Type("Int"), TRUE)]),
          t |-> EdgeTo("m", "out", {"B"}, TRUE, <<>>)],
   B |-> [y |-> Prop(Type("String"), TRUE, FALSE), v |-> Prop(Vector(2), TRUE, FALSE)]]

\* An edit puts fields in the place of a type's field, or types in a type's.
Put(type, field, fields) == [type |-> type, field |-> field, puts |-> fields]
PutType(type, types)     == [type |-> type, field |-> "", puts |-> types]
Edited(schema, edit) ==
  LET swap(f, old, puts) == [g \in (DOMAIN f \ {old}) \cup DOMAIN puts |-> IF g \in DOMAIN puts THEN puts[g] ELSE f[g]]
  IN IF edit.field = "" THEN swap(schema, edit.type, edit.puts)
     ELSE IF edit.type \notin DOMAIN schema THEN schema
     ELSE [schema EXCEPT ![edit.type] = swap(schema[edit.type], edit.field, edit.puts)]
E1(dir, rel, targets, temporal, w) ==
  Put("A", "e", [e |-> EdgeTo(rel, dir, targets, temporal, w)])
W(type, optional) == [w |-> EdgeProp(type, optional)]
Edits ==
  { Put("A", "x", <<>>), Put("A", "s", <<>>), Put("A", "e", <<>>), Put("A", "h", <<>>), Put("B", "y", <<>>),
    Put("A", "t", <<>>),
    Put("A", "z", [z |-> Prop(Type("Int"), FALSE, FALSE)]), Put("A", "z", [z |-> Prop(Type("Int"), TRUE, FALSE)]),
    Put("B", "z", [z |-> Prop(Type("String"), FALSE, FALSE)]),
    Put("A", "x", [x |-> Prop(Type("String"), FALSE, FALSE)]), Put("A", "x", [x |-> Prop(Type("Int"), TRUE, FALSE)]),
    Put("A", "x", [x |-> Prop(Type("Int"), FALSE, TRUE)]),
    Put("A", "s", [s |-> Prop(Type("Int"), TRUE, FALSE)]), Put("A", "s", [s |-> Prop(Type("String"), FALSE, FALSE)]),
    Put("A", "s", [s |-> Prop(Type("Bool"), TRUE, FALSE)]), Put("A", "s", [r |-> Prop(Type("String"), TRUE, FALSE)]),
    Put("A", "h", [h |-> Prop(Type("Int"), TRUE, FALSE)]), Put("A", "h", [i |-> Prop(Type("Int"), TRUE, TRUE)]),
    Put("A", "s", [s |-> EdgeTo("k", "in", {"A"}, FALSE, W(Type("Int"), TRUE))]),
    Put("A", "e", [e |-> Prop(Type("String"), TRUE, FALSE)]),
    E1("out", "k2", {"A", "B"}, FALSE, W(Type("Int"), TRUE)), E1("in", "k", {"A", "B"}, FALSE, W(Type("Int"), TRUE)),
    E1("out", "k", {"A"}, FALSE, W(Type("Int"), TRUE)), E1("out", "k", {"A", "B"}, TRUE, W(Type("Int"), TRUE)),
    E1("out", "k", {"A", "B"}, FALSE, W(Type("Int"), FALSE)), E1("out", "k", {"A", "B"}, FALSE, <<>>),
    E1("out", "k", {"A", "B"}, FALSE, W(Type("Bool"), TRUE)), E1("out", "k", {"A", "B"}, FALSE, W(Type("String"), TRUE)),
    E1("out", "k", {"A", "B"}, FALSE, W(Type("Int"), TRUE) @@ [u |-> EdgeProp(Type("Int"), FALSE)]),
    Put("A", "t", [t |-> EdgeTo("m", "out", {"B"}, FALSE, <<>>)]),
    Put("B", "v", [v |-> Prop(Vector(3), TRUE, FALSE)]),
    PutType("B", <<>>), PutType("B", [C |-> OldSchema.B]), PutType("C", [C |-> OldSchema.B]) }

Says(base, reads) == [type |-> Type(base), reads |-> reads, of |-> 0]
PropsOf(labels) ==
  IF labels = {"A"}
  THEN {[x |-> Says("Int", {})], [x |-> Says("Int", {}), s |-> Says("String", {})],
        [x |-> Says("Int", {}), s |-> Says("String", {"Int"}), h |-> Says("Int", {})]}
  ELSE {<<>>, [v |-> [type |-> Vector(2), reads |-> {}, of |-> 0], y |-> Says("Null", {})]}
RelProps == {<<>>, [w |-> Says("Int", {})]}
AllData ==
  UNION {{[labels |-> l, props |-> p, rels |-> r, changed |-> {c \in kept[1] : c[2] \in DOMAIN p[c[1]]}, ended |-> kept[2]] :
            p \in {p \in [DOMAIN l -> PropsOf({"A"}) \cup PropsOf({"B"})] : \A n \in DOMAIN l : p[n] \in PropsOf(l[n])},
            r \in {{}} \cup {{[id |-> 1, kind |-> "k", from |-> 1, to |-> n, props |-> w]} : n \in DOMAIN l, w \in RelProps},
            kept \in {<<{}, {}>>, <<{<<1, "h">>}, {"m"}>>}} :
         l \in {<<{"A"}>>, <<{"A"}, {"A"}>>, <<{"A"}, {"B"}>>}}
MCData == {d \in AllData : Fits(d, OldSchema)}

Apart(a, b) == a.type # b.type \/ (a.field # b.field /\ a.field # "" /\ b.field # "")
MCChanges ==
  LET schemas == {Edited(OldSchema, a) : a \in Edits}
                   \cup {Edited(Edited(OldSchema, a), b) : <<a, b>> \in {p \in Edits \X Edits : Apart(p[1], p[2])}}
  IN [data : MCData, old : {OldSchema}, new : schemas]
=============================================================================

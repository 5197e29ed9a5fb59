------------------------------ MODULE Schemas -------------------------------
(***************************************************************************)
(* Schemas and the data they describe (TypeDef, Field and EdgeField of     *)
(* zega/src/lang/mod.rs).                                                  *)
(*                                                                         *)
(* A schema maps the names of its types to their fields, by name:          *)
(*   [is: "prop", type: [base, dims], optional, temporal]                  *)
(*   [is: "edge", rel, dir, targets, many, temporal, props: by name,       *)
(*     [type, optional]].                                                  *)
(* Data d: d.labels[n], a node's types, and d.props[n], its values by      *)
(* name; d.rels, a set of [id, kind, from, to, props]; d.changed, the      *)
(* pairs <<node, field>> whose changes are kept; d.ended, the kinds of the *)
(* relationships that ended and are kept.  A value is [type, reads, of],   *)
(* reads the bases a String's text can be read as.                         *)
(***************************************************************************)
EXTENDS Integers, FiniteSets, Sequences

Type(base) == [base |-> base, dims |-> 0]
Vector(n)  == [base |-> "Vector", dims |-> n]
IsNull(value) == value.type.base = "Null"

\* base_type, vector_compatible
SameBase(a, b)   == a.base = b.base
SameValues(a, b) == a.base = b.base /\ (a.base = "Vector" => a.dims = b.dims)

Has(schema, type, f, is) == type \in DOMAIN schema /\ f \in DOMAIN schema[type] /\ schema[type][f].is = is
Near(dir, r) == IF dir = "out" THEN r.from ELSE r.to
Far(dir, r)  == IF dir = "out" THEN r.to ELSE r.from

-----------------------------------------------------------------------------
(* Data fits a schema when every value, relationship and kept change has   *)
(* its place in it, and nothing the schema requires is missing.            *)

PropsFit(props, declared) ==
  /\ \A p \in DOMAIN props :
       p \in DOMAIN declared /\ (SameValues(props[p].type, declared[p].type) \/ IsNull(props[p]))
  /\ \A p \in DOMAIN declared :
       ~declared[p].optional => p \in DOMAIN props /\ ~IsNull(props[p])

Props(schema, labels) ==
  LET of(t) == {f \in DOMAIN schema[t] : schema[t][f].is = "prop"}
  IN [f \in UNION {of(t) : t \in labels} |-> schema[CHOOSE t \in labels : f \in of(t)][f]]

Declares(schema, d, r, t, f) ==
  LET e == schema[t][f]
  IN /\ e.is = "edge" /\ e.rel = r.kind /\ t \in d.labels[Near(e.dir, r)]
     /\ d.labels[Far(e.dir, r)] \cap e.targets # {} /\ PropsFit(r.props, e.props)

Fits(d, schema) ==
  /\ \A n \in DOMAIN d.labels :
       d.labels[n] \subseteq DOMAIN schema /\ PropsFit(d.props[n], Props(schema, d.labels[n]))
  /\ \A r \in d.rels : \E t \in DOMAIN schema : \E f \in DOMAIN schema[t] : Declares(schema, d, r, t, f)
  /\ \A c \in d.changed : \E t \in d.labels[c[1]] : Has(schema, t, c[2], "prop") /\ schema[t][c[2]].temporal
  /\ \A k \in d.ended : \E t \in DOMAIN schema : \E f \in DOMAIN schema[t] :
       schema[t][f].is = "edge" /\ schema[t][f].rel = k /\ schema[t][f].temporal
=============================================================================

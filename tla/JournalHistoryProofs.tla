------------------------ MODULE JournalHistoryProofs ------------------------
(***************************************************************************)
(* Proofs about what Journal keeps of the past.  No statement, failed or   *)
(* not, leaves a history, an edge or an identity of something that is not  *)
(* there (Told), every field's history is in time order with the value it  *)
(* stores at its end, and a live edge has not ended.  Each call of the     *)
(* journal keeps this as a whole: between the steps of a call a history    *)
(* may be ahead of its node.  What a failed statement leaves is what the   *)
(* statement found, so it is the earlier proof (FailuresLeaveNoTrace) that *)
(* carries the properties over a roll-back.                                *)
(*                                                                         *)
(* And about the log: an open makes of it what is in memory (LogIsMemory). *)
(* Each operation of the log does to a database with the same content what *)
(* the call that wrote it did (Does); the indexes may differ.  So whatever *)
(* led an open to the database before a call leads it, one operation on,   *)
(* to the database after it (Follows), in the middle of a statement too.   *)
(*                                                                         *)
(* And about the constraints: a call shares no value and forks no          *)
(* relationship that its schema forbids (Tight), if what the checks in     *)
(* front of it look at is what the call writes (DatesAgree,                *)
(* SeenFromOneEnd).                                                        *)
(***************************************************************************)
EXTENDS JournalProofs, FiniteSetTheorems

-----------------------------------------------------------------------------
(* Histories in time order.                                                 *)

\* A part of a sequence, place by place.
LEMMA PartIs ==
  ASSUME NEW S, NEW s \in Seq(S), NEW m \in Nat, NEW n \in Nat, m <= n, n <= Len(s)
  PROVE  /\ SubSeq(s, m + 1, n) \in Seq(S) /\ Len(SubSeq(s, m + 1, n)) = n - m
         /\ \A i \in 1 .. n - m : SubSeq(s, m + 1, n)[i] = s[m + i]
OBVIOUS

\* Where the changes before an instant end, and those not after it.
LEMMA CountsAre ==
  ASSUME NEW changes \in Seq(Change), InOrder(changes), NEW at \in Nat
  PROVE  /\ CountBefore(changes, at) \in 0 .. Len(changes)
         /\ CountUpTo(changes, at) \in 0 .. Len(changes)
         /\ CountBefore(changes, at) <= CountUpTo(changes, at)
         /\ \A i \in 1 .. CountBefore(changes, at) : changes[i].at < at
         /\ \A i \in 1 .. Len(changes) : i > CountUpTo(changes, at) => changes[i].at > at
<1> DEFINE last == Len(changes)
           early == {i \in DOMAIN changes : changes[i].at < at}
           upto  == {i \in DOMAIN changes : changes[i].at <= at}
<1>1. last \in Nat /\ DOMAIN changes = 1 .. last
      /\ \A i \in 1 .. last : changes[i].at \in Nat
  <2>1. \A i \in 1 .. last : changes[i] \in Change
    OBVIOUS
  <2> QED BY <2>1 DEF Change
<1>2. early \in SUBSET (1 .. last) /\ upto \in SUBSET (1 .. last)
      /\ (\A i : i \in early <=> i \in 1 .. last /\ changes[i].at < at)
      /\ \A i : i \in upto <=> i \in 1 .. last /\ changes[i].at <= at
  BY <1>1
<1>3. \A i \in 1 .. last : \A k \in 1 .. last : i < k => changes[i].at < changes[k].at
  BY <1>1 DEF InOrder
<1>4. CountBefore(changes, at) = Max({0} \cup early) /\ CountUpTo(changes, at) = Max({0} \cup upto)
  BY DEF CountBefore, CountUpTo
<1> HIDE DEF early, upto, last
<1>5. PICK m : m = Max({0} \cup early)
  OBVIOUS
<1>6. PICK n : n = Max({0} \cup upto)
  OBVIOUS
<1>7. /\ m \in Nat /\ m \in {0} \cup early /\ \A i \in early : i \in 1 .. m
      /\ n \in Nat /\ n \in {0} \cup upto /\ \A i \in upto : i \in 1 .. n
  BY <1>1, <1>2, <1>5, <1>6, LastId
<1>8. m \in 0 .. last /\ n \in 0 .. last
  BY <1>1, <1>2, <1>7
<1>9. m <= n
  BY <1>1, <1>2, <1>7
<1>10. ASSUME NEW i \in 1 .. m PROVE changes[i].at < at
  <2>1. m \in early /\ m \in 1 .. last /\ i \in 1 .. last /\ changes[m].at < at
    BY <1>1, <1>2, <1>7, <1>8
  <2>2. i = m \/ changes[i].at < changes[m].at
    BY <1>3, <2>1
  <2> QED BY <1>1, <2>1, <2>2
<1>11. ASSUME NEW i \in 1 .. last, i > n PROVE changes[i].at > at
  <2>1. i \notin upto
    BY <1>1, <1>7, <1>11
  <2> QED BY <1>1, <1>2, <2>1
<1> QED BY <1>4, <1>5, <1>6, <1>8, <1>9, <1>10, <1>11 DEF last

\* What History::insert makes of a history: the changes before, the new one and
\* the changes after.
Inserted(r, changes, at, value, m, n, left) ==
  /\ r \in Seq(Change) /\ Len(changes) = n + left /\ m <= n /\ DOMAIN r = 1 .. m + 1 + left
  /\ \A i \in 1 .. m : r[i] = changes[i] /\ i \in 1 .. Len(changes) /\ changes[i].at < at
  /\ r[m + 1] = [at |-> at, value |-> value]
  /\ \A i \in 1 .. left : /\ r[m + 1 + i] = changes[n + i] /\ n + i \in 1 .. Len(changes)
                          /\ n + i > n /\ changes[n + i].at > at

\* History::insert makes that of a history in time order.
LEMMA InsertedIs ==
  ASSUME NEW changes \in Seq(Change), InOrder(changes), NEW at \in Nat, NEW value \in Nat
  PROVE  \E m, n, left \in Nat :
           Inserted(InsertChange(changes, at, value), changes, at, value, m, n, left)
<1>1. PICK m : m = CountBefore(changes, at)
  OBVIOUS
<1>2. PICK n : n = CountUpTo(changes, at)
  OBVIOUS
<1>3. PICK last : last = Len(changes)
  OBVIOUS
<1>4. /\ m \in 0 .. last /\ n \in 0 .. last /\ m <= n /\ last \in Nat
      /\ \A i \in 1 .. m : changes[i].at < at
      /\ \A i \in 1 .. last : i > n => changes[i].at > at
  <2>1. last \in Nat
    BY <1>3
  <2> QED BY <1>1, <1>2, <1>3, <2>1, CountsAre, Zenon
<1>5. /\ DOMAIN changes = 1 .. last
      /\ \A i \in 1 .. last : changes[i].at \in Nat
      /\ \A i \in 1 .. last : \A k \in 1 .. last : i < k => changes[i].at < changes[k].at
  <2>1. DOMAIN changes = 1 .. last /\ \A i \in 1 .. last : changes[i] \in Change
    BY <1>3
  <2> QED BY <2>1 DEF Change, InOrder
<1>6. PICK a : a = SubSeq(changes, 1, m)
  OBVIOUS
<1>7. PICK new : new = [at |-> at, value |-> value]
  OBVIOUS
<1>8. PICK c : c = SubSeq(changes, n + 1, last)
  OBVIOUS
<1>9. a \in Seq(Change) /\ Len(a) = m /\ \A i \in 1 .. m : a[i] = changes[i]
  BY <1>3, <1>4, <1>6
<1>10. c \in Seq(Change) /\ Len(c) = last - n /\ \A i \in 1 .. last - n : c[i] = changes[n + i]
  BY <1>3, <1>4, <1>8, PartIs
<1>11. new \in Change /\ new.at = at
  BY <1>7 DEF Change
<1>12. PICK b : b = <<new>>
  OBVIOUS
<1>13. b \in Seq(Change) /\ Len(b) = 1 /\ b[1] = new
  BY <1>11, <1>12
<1>14. PICK e : e = a \o b
  OBVIOUS
<1>15. e \in Seq(Change) /\ Len(e) = m + 1 /\ e[m + 1] = new /\ \A i \in 1 .. m : e[i] = a[i]
  <2>1. /\ e \in Seq(Change) /\ Len(e) = Len(a) + Len(b)
        /\ \A i \in 1 .. Len(a) : e[i] = a[i]
        /\ \A i \in 1 .. Len(b) : e[Len(a) + i] = b[i]
    <3>1. a \in Seq(Change) /\ b \in Seq(Change)
      BY <1>9, <1>13
    <3> QED BY <1>14, <3>1
  <2>2. Len(a) = m /\ Len(b) = 1 /\ m \in Nat
    BY <1>4, <1>9, <1>13
  <2>3. e[m + 1] = b[1]
    BY <2>1, <2>2
  <2> QED BY <1>13, <2>1, <2>2, <2>3
<1>16. PICK r : r = e \o c
  OBVIOUS
<1>17. /\ Len(r) = m + 1 + (last - n) /\ r \in Seq(Change)
       /\ \A i \in 1 .. m + 1 : r[i] = e[i]
       /\ \A i \in 1 .. last - n : r[m + 1 + i] = c[i]
  <2>1. /\ r \in Seq(Change) /\ Len(r) = Len(e) + Len(c)
        /\ \A i \in 1 .. Len(e) : r[i] = e[i]
        /\ \A i \in 1 .. Len(c) : r[Len(e) + i] = c[i]
    <3>1. e \in Seq(Change) /\ c \in Seq(Change)
      BY <1>10, <1>15
    <3> QED BY <1>16, <3>1
  <2>2. Len(e) = m + 1 /\ Len(c) = last - n
    BY <1>10, <1>15
  <2> QED BY <2>1, <2>2
<1>18. InsertChange(changes, at, value) = r
  BY <1>1, <1>2, <1>3, <1>6, <1>7, <1>8, <1>12, <1>14, <1>16 DEF InsertChange
<1>19. PICK left \in Nat : left = last - n
  BY <1>4
<1>20. \A i \in 1 .. m : r[i] = changes[i] /\ i \in 1 .. last
  BY <1>4, <1>9, <1>15, <1>17
<1>21. r[m + 1] = new
  BY <1>4, <1>15, <1>17
<1>22. \A i \in 1 .. left : r[m + 1 + i] = changes[n + i] /\ n + i \in 1 .. last /\ n + i > n
  <2> SUFFICES ASSUME NEW i \in 1 .. left
               PROVE  r[m + 1 + i] = changes[n + i] /\ n + i \in 1 .. last /\ n + i > n
    OBVIOUS
  <2>1. i \in 1 .. last - n
    BY <1>4, <1>19
  <2>2. r[m + 1 + i] = c[i] /\ c[i] = changes[n + i]
    BY <1>10, <1>17, <2>1
  <2> QED BY <1>4, <2>1, <2>2
<1>23. DOMAIN r = 1 .. m + 1 + left
  BY <1>4, <1>17, <1>19
<1>24. Len(changes) = n + left /\ m \in Nat /\ n \in Nat
  BY <1>3, <1>4, <1>19
<1>25. r[m + 1] = [at |-> at, value |-> value] /\ r \in Seq(Change)
  BY <1>7, <1>17, <1>21
<1>26. Inserted(r, changes, at, value, m, n, left)
  BY <1>3, <1>4, <1>20, <1>22, <1>23, <1>24, <1>25 DEF Inserted
<1> QED BY <1>18, <1>19, <1>24, <1>26

\* History::insert keeps a history in time order.
LEMMA InsertChangeInOrder ==
  ASSUME NEW changes \in Seq(Change), InOrder(changes), NEW at \in Nat, NEW value \in Nat
  PROVE  InOrder(InsertChange(changes, at, value))
<1>1. PICK r : r = InsertChange(changes, at, value)
  OBVIOUS
<1>2. PICK m \in Nat, n \in Nat, left \in Nat : Inserted(r, changes, at, value, m, n, left)
  BY <1>1, InsertedIs
<1>3. PICK last : last = Len(changes)
  OBVIOUS
<1>4. last \in Nat /\ last = n + left /\ m <= n
  BY <1>2, <1>3 DEF Inserted
<1>5. /\ DOMAIN changes = 1 .. last
      /\ \A i \in 1 .. last : changes[i].at \in Nat
      /\ \A i \in 1 .. last : \A k \in 1 .. last : i < k => changes[i].at < changes[k].at
  <2>1. DOMAIN changes = 1 .. last /\ \A i \in 1 .. last : changes[i] \in Change
    BY <1>3
  <2> QED BY <2>1 DEF Change, InOrder
<1>6. \A i \in 1 .. m : r[i] = changes[i] /\ i \in 1 .. last /\ changes[i].at < at
  BY <1>2, <1>3 DEF Inserted
<1>7. r[m + 1].at = at
  BY <1>2 DEF Inserted
<1>8. \A i \in 1 .. left : /\ r[m + 1 + i] = changes[n + i] /\ n + i \in 1 .. last
                            /\ n + i > n /\ changes[n + i].at > at
  BY <1>2, <1>3 DEF Inserted
<1>9. DOMAIN r = 1 .. m + 1 + left
  BY <1>2 DEF Inserted
<1>10. ASSUME NEW i \in DOMAIN r, NEW k \in DOMAIN r, i < k PROVE r[i].at < r[k].at
  <2>1. CASE k \in 1 .. m
    <3>1. i \in 1 .. m
      BY <1>4, <1>9, <1>10, <2>1
    <3> QED BY <1>5, <1>6, <1>10, <2>1, <3>1
  <2>2. CASE k = m + 1
    <3>1. i \in 1 .. m
      BY <1>4, <1>9, <1>10, <2>2
    <3> QED BY <1>4, <1>6, <1>7, <2>2, <3>1
  <2>3. CASE k > m + 1
    <3>1. PICK q \in 1 .. left : k = m + 1 + q
      <4>1. k - (m + 1) \in 1 .. left /\ k = m + 1 + (k - (m + 1))
        BY <1>4, <1>9, <2>3
      <4> QED BY <4>1
    <3>2. r[k] = changes[n + q] /\ n + q \in 1 .. last /\ changes[n + q].at > at
          /\ changes[n + q].at \in Nat
      BY <1>4, <1>5, <1>8, <3>1
    <3>3. CASE i \in 1 .. m
      <4>1. r[i] = changes[i] /\ changes[i].at < at /\ changes[i].at \in Nat
        BY <1>4, <1>5, <1>6, <3>3
      <4> QED BY <3>2, <4>1
    <3>4. CASE i = m + 1
      BY <1>7, <3>2, <3>4
    <3>5. CASE i > m + 1
      <4>1. PICK p \in 1 .. left : i = m + 1 + p
        <5>1. i - (m + 1) \in 1 .. left /\ i = m + 1 + (i - (m + 1))
          BY <1>4, <1>9, <3>5
        <5> QED BY <5>1
      <4>2. r[i] = changes[n + p] /\ n + p \in 1 .. last
        BY <1>8, <4>1
      <4>3. n + p < n + q
        BY <1>4, <1>10, <3>1, <4>1
      <4> QED BY <1>5, <3>2, <4>2, <4>3
    <3> QED BY <1>4, <1>9, <3>3, <3>4, <3>5
  <2> QED BY <1>4, <1>9, <2>1, <2>2, <2>3
<1> QED BY <1>1, <1>10 DEF InOrder

\* What is current after it: the new value, or what was.
LEMMA InsertedCurrent ==
  ASSUME NEW changes \in Seq(Change), InOrder(changes), NEW at \in Nat, NEW value \in Nat
  PROVE  \/ Current(InsertChange(changes, at, value)) = value
         \/ changes # <<>> /\ Current(InsertChange(changes, at, value)) = Current(changes)
<1>1. PICK r : r = InsertChange(changes, at, value)
  OBVIOUS
<1>2. PICK m \in Nat, n \in Nat, left \in Nat : Inserted(r, changes, at, value, m, n, left)
  BY <1>1, InsertedIs
<1>3. Len(r) = m + 1 + left /\ r[m + 1].value = value
  BY <1>2 DEF Inserted
<1>4. CASE left = 0
  BY <1>1, <1>3, <1>4 DEF Current, Last
<1>5. CASE left # 0
  <2>1. left \in 1 .. left
    BY <1>5
  <2>2. r[m + 1 + left] = changes[n + left] /\ Len(changes) = n + left
    BY <1>2, <2>1 DEF Inserted
  <2>3. changes # <<>>
    BY <1>5, <2>2
  <2> QED BY <1>1, <1>3, <2>2, <2>3 DEF Current, Last
<1> QED BY <1>4, <1>5

\* The first change of a history is its current value, and the only change.
LEMMA FirstChange ==
  ASSUME NEW at \in Nat, NEW value \in Nat
  PROVE  InOrder(InsertChange(<<>>, at, value)) /\ Current(InsertChange(<<>>, at, value)) = value
<1> DEFINE new == [at |-> at, value |-> value]
<1>1. <<>> \in Seq(Change) /\ Len(<<>>) = 0 /\ InOrder(<<>>)
  BY DEF InOrder
<1>2. CountBefore(<<>>, at) = 0 /\ CountUpTo(<<>>, at) = 0
  <2>1. PICK none : none = <<>>
    OBVIOUS
  <2>2. CountBefore(none, at) \in 0 .. 0 /\ CountUpTo(none, at) \in 0 .. 0
    BY <1>1, <2>1, CountsAre
  <2> QED BY <2>1, <2>2
<1>4. InsertChange(<<>>, at, value) = SubSeq(<<>>, 1, 0) \o <<new>> \o SubSeq(<<>>, 1, 0)
  BY <1>1, <1>2 DEF InsertChange
<1>5. SubSeq(<<>>, 1, 0) = <<>>
  OBVIOUS
<1>6. new \in Change /\ new.value = value
  BY DEF Change
<1> HIDE DEF new
<1>7. <<>> \o <<new>> \o <<>> = <<new>>
  BY <1>6
<1>8. Current(<<new>>) = value
  BY <1>6 DEF Current, Last
<1> QED BY <1>1, <1>4, <1>5, <1>7, <1>8, InsertChangeInOrder

-----------------------------------------------------------------------------
(* What a history says is true of the graph.                                *)

\* A field of a type that every schema dates.
Dates(labels, f) == \A schema \in Schemas : \E ty \in labels : <<ty, f>> \in schema.temporal

\* The history of a field is one of a live node that has it, is in time order,
\* and ends with what the node stores, if the field is always dated.
IsPair(key) == key = <<key[1], key[2]>>
FieldsTold(nodes, fields) ==
  \A key \in DOMAIN fields :
    /\ IsPair(key) /\ key[1] \in DOMAIN nodes /\ key[2] \in DOMAIN nodes[key[1]].props
    /\ InOrder(fields[key])
    /\ Dates(nodes[key[1]].labels, key[2]) => nodes[key[1]].props[key[2]] = Current(fields[key])

\* The history of an edge is one of an edge between live nodes, which is there
\* if and only if it has not ended.
IsEntry(entry) == entry = [rel |-> entry.rel, from |-> entry.from, to |-> entry.to]
EdgeTold(nodes, rels, r, entry) ==
  /\ IsEntry(entry) /\ entry.rel.from \in DOMAIN nodes /\ entry.rel.to \in DOMAIN nodes
  /\ r \in DOMAIN rels <=> entry.to = {}
EdgesTold(nodes, rels, next, past) ==
  \A r \in DOMAIN past : r < next /\ EdgeTold(nodes, rels, r, past[r])

\* Lifetimes are of live nodes.
LivesTold(nodes, appears, ends) ==
  DOMAIN appears \subseteq DOMAIN nodes /\ DOMAIN ends \subseteq DOMAIN nodes

Told(d) ==
  /\ FieldsTold(d.graph.nodes, d.history.fields)
  /\ LivesTold(d.graph.nodes, d.history.appears, d.history.ends)
  /\ EdgesTold(d.graph.nodes, d.graph.rels, d.graph.next.rel, d.history.rels)

\* The key of a field that is written.
Wrote(id, props, fields, key) == \E f \in fields \cap DOMAIN props : key = <<id, f>>

\* What is written: a change of each dated field, and nothing else.
LEMMA RecordedIs ==
  ASSUME NEW h, IsHistory(h), NEW id, NEW at, NEW props, NEW fields,
         NEW new, new = RecordHistory(h, id, at, props, fields)
  PROVE  /\ IsHistory(new)
         /\ new.rels = h.rels /\ new.appears = h.appears /\ new.ends = h.ends
         /\ \A key : key \in DOMAIN new.fields
              <=> key \in DOMAIN h.fields \/ Wrote(id, props, fields, key)
         /\ \A key \in DOMAIN new.fields :
              new.fields[key] = IF Wrote(id, props, fields, key)
                                THEN InsertChange((IF key \in DOMAIN h.fields THEN h.fields[key]
                                                   ELSE <<>>), at, props[key[2]])
                                ELSE h.fields[key]
<1> DEFINE changed == {<<id, f>> : f \in fields \cap DOMAIN props}
           write(key) == InsertChange((IF key \in DOMAIN h.fields THEN h.fields[key]
               ELSE <<>>), at, props[key[2]])
           more == [key \in changed |-> write(key)]
           all == Over(h.fields, more)
<1>1. new = [h EXCEPT !.fields = all]
  BY Zenon DEF RecordHistory
<1>2. /\ IsHistory(new) /\ new.fields = all
      /\ new.rels = h.rels /\ new.appears = h.appears /\ new.ends = h.ends
  <2>1. IsFcn(all)
    BY OverFcn
  <2> HIDE DEF all
  <2> QED BY <1>1, <2>1, FieldsSection, SectionsAre
<1>3. \A key : key \in changed <=> Wrote(id, props, fields, key)
  BY DEF Wrote
<1>4. DOMAIN more = changed /\ \A key \in changed : more[key] = write(key)
  OBVIOUS
<1> HIDE DEF more
<1>5. /\ \A key : key \in DOMAIN all <=> key \in DOMAIN h.fields \/ key \in changed
      /\ \A key \in DOMAIN all : all[key] = IF key \in changed THEN write(key) ELSE h.fields[key]
  <2> HIDE DEF write, changed
  <2> QED BY <1>4 DEF Over
<1> HIDE DEF all, changed
<1> QED BY <1>2, <1>3, <1>5

\* A key that is written.
LEMMA WroteIs ==
  ASSUME NEW id, NEW props, NEW fields, NEW key, Wrote(id, props, fields, key)
  PROVE  key[1] = id /\ key[2] \in fields /\ key[2] \in DOMAIN props /\ IsPair(key)
BY DEF Wrote, IsPair

\* And the other way round.
LEMMA WroteThat ==
  ASSUME NEW props, NEW fields, NEW key, IsPair(key), key[2] \in fields, key[2] \in DOMAIN props
  PROVE  Wrote(key[1], props, fields, key)
BY DEF Wrote, IsPair

\* A node more leaves the histories of fields true.
LEMMA FieldsMore ==
  ASSUME NEW nodes, NEW fields, FieldsTold(nodes, fields), NEW id, id \notin DOMAIN nodes, NEW node
  PROVE  FieldsTold(Put(nodes, id, node), fields)
<1> DEFINE more == Put(nodes, id, node)
<1>1. \A x \in DOMAIN nodes : x \in DOMAIN more /\ more[x] = nodes[x]
  BY PutIs
<1> HIDE DEF more
<1>2. FieldsTold(more, fields)
  BY <1>1 DEF FieldsTold
<1> QED BY <1>2 DEF more

\* So does a node with the first changes of its dated fields.
LEMMA FieldsFirst ==
  ASSUME NEW nodes, NEW h, IsHistory(h), FieldsTold(nodes, h.fields), NEW id,
      id \notin DOMAIN nodes,
         NEW node, GoodProps(node.props), NEW at \in Nat, NEW fields,
         NEW new, new = RecordHistory(h, id, at, node.props, fields)
  PROVE  FieldsTold(Put(nodes, id, node), new.fields)
<1> DEFINE more == Put(nodes, id, node)
<1>1. FieldsTold(more, h.fields)
  BY FieldsMore
<1>2. id \in DOMAIN more /\ more[id] = node
  BY PutIs
<1> HIDE DEF more
<1>3. /\ \A key : key \in DOMAIN new.fields
           <=> key \in DOMAIN h.fields \/ Wrote(id, node.props, fields, key)
      /\ \A key \in DOMAIN new.fields :
           new.fields[key] = IF Wrote(id, node.props, fields, key)
                             THEN InsertChange((IF key \in DOMAIN h.fields THEN h.fields[key]
                                                ELSE <<>>), at, node.props[key[2]])
                             ELSE h.fields[key]
  BY RecordedIs
<1>4. ASSUME NEW key \in DOMAIN new.fields
      PROVE  /\ IsPair(key) /\ key[1] \in DOMAIN more /\ key[2] \in DOMAIN more[key[1]].props
             /\ InOrder(new.fields[key])
             /\ Dates(more[key[1]].labels, key[2])
                  => more[key[1]].props[key[2]] = Current(new.fields[key])
  <2>1. CASE Wrote(id, node.props, fields, key)
    <3>1. key[1] = id /\ key[2] \in DOMAIN node.props /\ IsPair(key)
      BY <2>1, WroteIs
    <3>2. key \notin DOMAIN h.fields
      BY <3>1 DEF FieldsTold
    <3>3. new.fields[key] = InsertChange(<<>>, at, node.props[key[2]])
      BY <1>3, <2>1, <3>2
    <3>4. PICK v \in Nat : v = node.props[key[2]]
      BY <3>1 DEF GoodProps
    <3>5. InOrder(new.fields[key]) /\ Current(new.fields[key]) = v
      BY <3>3, <3>4, FirstChange
    <3> QED BY <1>2, <3>1, <3>4, <3>5
  <2>2. CASE ~Wrote(id, node.props, fields, key)
    <3>1. key \in DOMAIN h.fields /\ new.fields[key] = h.fields[key]
      BY <1>3, <2>2
    <3> QED BY <1>1, <3>1 DEF FieldsTold
  <2> QED BY <2>1, <2>2
<1>5. FieldsTold(more, new.fields)
  BY <1>4 DEF FieldsTold
<1> QED BY <1>5 DEF more

\* What a change makes of a node.
LEMMA ChangedIs ==
  ASSUME NEW node, NEW props, NEW new, new = Changed(node, props)
  PROVE  /\ new.labels = node.labels
         /\ \A f : f \in DOMAIN new.props <=> f \in DOMAIN node.props \/ f \in DOMAIN props
         /\ \A f \in DOMAIN props : new.props[f] = props[f]
         /\ \A f \in DOMAIN node.props : f \notin DOMAIN props => new.props[f] = node.props[f]
<1>1. new.labels = node.labels /\ new.props = Over(node.props, props)
  BY DEF Changed
<1> QED BY <1>1 DEF Over

\* A change of fields that are not always dated leaves the histories true.
LEMMA FieldsSet ==
  ASSUME NEW nodes, NEW fields, FieldsTold(nodes, fields), NEW id \in DOMAIN nodes, NEW props,
         \A f \in DOMAIN props : ~Dates(nodes[id].labels, f)
  PROVE  FieldsTold(Put(nodes, id, Changed(nodes[id], props)), fields)
<1> DEFINE node == Changed(nodes[id], props)
           more == Put(nodes, id, node)
<1>1. /\ \A x \in DOMAIN nodes : x \in DOMAIN more
      /\ more[id] = node /\ \A x \in DOMAIN nodes : x # id => more[x] = nodes[x]
  BY PutIs
<1>2. /\ node.labels = nodes[id].labels
      /\ \A f \in DOMAIN nodes[id].props : f \in DOMAIN node.props
      /\ \A f \in DOMAIN nodes[id].props : f \notin DOMAIN props => node.props[f]
          = nodes[id].props[f]
  BY ChangedIs
<1> HIDE DEF node, more
<1>3. ASSUME NEW key \in DOMAIN fields
      PROVE  /\ IsPair(key) /\ key[1] \in DOMAIN more /\ key[2] \in DOMAIN more[key[1]].props
             /\ InOrder(fields[key])
             /\ Dates(more[key[1]].labels, key[2])
                  => more[key[1]].props[key[2]] = Current(fields[key])
  <2>1. /\ IsPair(key) /\ key[1] \in DOMAIN nodes /\ key[2] \in DOMAIN nodes[key[1]].props
        /\ InOrder(fields[key])
        /\ Dates(nodes[key[1]].labels, key[2])
             => nodes[key[1]].props[key[2]] = Current(fields[key])
    BY DEF FieldsTold
  <2>2. CASE key[1] = id
    BY <1>1, <1>2, <2>1, <2>2
  <2>3. CASE key[1] # id
    BY <1>1, <2>1, <2>3
  <2> QED BY <2>2, <2>3
<1>4. FieldsTold(more, fields)
  BY <1>3 DEF FieldsTold
<1> QED BY <1>4 DEF more, node

\* So does a change of dated fields, with the values current after it.
LEMMA FieldsDated ==
  ASSUME NEW nodes, NEW h, IsHistory(h), GoodFields(h.fields), FieldsTold(nodes, h.fields),
         NEW id \in DOMAIN nodes, NEW props, GoodProps(props), NEW at \in Nat, NEW fields,
         fields \subseteq DOMAIN props,
         \A f \in DOMAIN props : Dates(nodes[id].labels, f) => f \in fields,
         NEW new, new = RecordHistory(h, id, at, props, fields),
         NEW current, current = CurrentProps(new, id, props, fields)
  PROVE  FieldsTold(Put(nodes, id, Changed(nodes[id], current)), new.fields)
<1> DEFINE node == Changed(nodes[id], current)
           more == Put(nodes, id, node)
<1>1. /\ \A x \in DOMAIN nodes : x \in DOMAIN more
      /\ more[id] = node /\ \A x \in DOMAIN nodes : x # id => more[x] = nodes[x]
  BY PutIs
<1>2. /\ node.labels = nodes[id].labels
      /\ \A f : f \in DOMAIN node.props <=> f \in DOMAIN nodes[id].props \/ f \in DOMAIN current
      /\ \A f \in DOMAIN current : node.props[f] = current[f]
      /\ \A f \in DOMAIN nodes[id].props :
           f \notin DOMAIN current => node.props[f] = nodes[id].props[f]
  BY ChangedIs
<1>3. /\ \A f : f \in DOMAIN current <=> f \in DOMAIN props
      /\ \A f \in fields : current[f] = Current(new.fields[<<id, f>>])
  BY DEF CurrentProps, Over
<1> HIDE DEF node, more
<1>4. /\ \A key : key \in DOMAIN new.fields <=> key \in DOMAIN h.fields \/ Wrote(id, props,
         fields, key)
      /\ \A key \in DOMAIN new.fields :
           new.fields[key] = IF Wrote(id, props, fields, key)
                             THEN InsertChange((IF key \in DOMAIN h.fields THEN h.fields[key]
                                                ELSE <<>>), at, props[key[2]])
                             ELSE h.fields[key]
  BY RecordedIs
<1>5. ASSUME NEW key \in DOMAIN new.fields
      PROVE  /\ IsPair(key) /\ key[1] \in DOMAIN more /\ key[2] \in DOMAIN more[key[1]].props
             /\ InOrder(new.fields[key])
             /\ Dates(more[key[1]].labels, key[2])
                  => more[key[1]].props[key[2]] = Current(new.fields[key])
  <2>1. CASE Wrote(id, props, fields, key)
    <3>1. key[1] = id /\ key[2] \in DOMAIN props /\ key[2] \in fields /\ IsPair(key)
      BY <2>1, WroteIs
    <3>2. PICK v \in Nat : v = props[key[2]]
      BY <3>1 DEF GoodProps
    <3>3. PICK old \in Seq(Change) : InOrder(old) /\ new.fields[key] = InsertChange(old, at, v)
      <4>1. CASE key \in DOMAIN h.fields
        <5>1. h.fields[key] \in Seq(Change) /\ InOrder(h.fields[key])
          BY <4>1 DEF GoodFields, GoodChanges, FieldsTold
        <5> QED BY <1>4, <2>1, <3>2, <4>1, <5>1
      <4>2. CASE key \notin DOMAIN h.fields
        <5>1. <<>> \in Seq(Change) /\ InOrder(<<>>)
          BY DEF InOrder
        <5> QED BY <1>4, <2>1, <3>2, <4>2, <5>1
      <4> QED BY <4>1, <4>2
    <3>4. InOrder(new.fields[key])
      BY <3>3, InsertChangeInOrder
    <3>5. <<id, key[2]>> = key
      BY <3>1 DEF IsPair
    <3>6. node.props[key[2]] = Current(new.fields[key])
      BY <1>2, <1>3, <3>1, <3>5
    <3> QED BY <1>1, <1>2, <1>3, <3>1, <3>4, <3>6
  <2>2. CASE ~Wrote(id, props, fields, key)
    <3>1. key \in DOMAIN h.fields /\ new.fields[key] = h.fields[key]
      BY <1>4, <2>2
    <3>2. /\ IsPair(key) /\ key[1] \in DOMAIN nodes /\ key[2] \in DOMAIN nodes[key[1]].props
          /\ InOrder(new.fields[key])
          /\ Dates(nodes[key[1]].labels, key[2])
               => nodes[key[1]].props[key[2]] = Current(new.fields[key])
      BY <3>1 DEF FieldsTold
    <3>3. CASE key[1] # id
      BY <1>1, <3>2, <3>3
    <3>4. CASE key[1] = id
      <4>1. ASSUME Dates(nodes[id].labels, key[2]) PROVE key[2] \notin DOMAIN current
        BY <1>3, <2>2, <3>2, <3>4, <4>1, WroteThat
      <4> QED BY <1>1, <1>2, <3>2, <3>4, <4>1
    <3> QED BY <3>3, <3>4
  <2> QED BY <2>1, <2>2
<1>6. FieldsTold(more, new.fields)
  BY <1>5 DEF FieldsTold
<1> QED BY <1>6 DEF more, node

\* Histories of fields that are forgotten leave the others true.
LEMMA FieldsFewer ==
  ASSUME NEW nodes, NEW fields, FieldsTold(nodes, fields), NEW S
  PROVE  FieldsTold(nodes, Drop(fields, S))
<1> DEFINE less == Drop(fields, S)
<1>1. \A key \in DOMAIN less : key \in DOMAIN fields /\ less[key] = fields[key]
  BY DropIs
<1> HIDE DEF less
<1>2. FieldsTold(nodes, less)
  BY <1>1 DEF FieldsTold
<1> QED BY <1>2 DEF less

\* A node that no history is of may go.
LEMMA FieldsGone ==
  ASSUME NEW nodes, NEW fields, FieldsTold(nodes, fields), NEW id,
         \A key \in DOMAIN fields : key[1] # id
  PROVE  FieldsTold(Without(nodes, id), fields)
<1> DEFINE less == Without(nodes, id)
<1>1. \A x \in DOMAIN nodes : x # id => x \in DOMAIN less /\ less[x] = nodes[x]
  BY LessIs
<1> HIDE DEF less
<1>2. FieldsTold(less, fields)
  BY <1>1 DEF FieldsTold
<1> QED BY <1>2 DEF less

-----------------------------------------------------------------------------
(* The histories of edges.                                                  *)

\* More nodes, and the same edges, leave the histories of edges true.
LEMMA EdgesMore ==
  ASSUME NEW nodes, NEW rels, NEW next, NEW past, EdgesTold(nodes, rels, next, past),
         NEW more, DOMAIN nodes \subseteq DOMAIN more
  PROVE  EdgesTold(more, rels, next, past)
BY DEF EdgesTold, EdgeTold

\* So does an edge more, whose id was not handed out.
LEMMA EdgesFirst ==
  ASSUME NEW nodes, NEW rels, NEW next \in Nat, NEW past, EdgesTold(nodes, rels, next, past),
         \A r \in DOMAIN past : r \in Nat,
         NEW rel, NEW later \in Nat, later > next
  PROVE  EdgesTold(nodes, Put(rels, next, rel), later, past) /\ next \notin DOMAIN past
<1> DEFINE more == Put(rels, next, rel)
<1>1. \A r : r # next => (r \in DOMAIN more <=> r \in DOMAIN rels)
  BY PutIs
<1> HIDE DEF more
<1>2. \A r \in DOMAIN past : r < next /\ r # next /\ r < later
  BY DEF EdgesTold
<1>3. EdgesTold(nodes, more, later, past)
  BY <1>1, <1>2 DEF EdgesTold, EdgeTold
<1> QED BY <1>2, <1>3 DEF more

\* And one more history, of an edge that is as it says.
LEMMA EdgesDated ==
  ASSUME NEW nodes, NEW rels, NEW next, NEW past, NEW id, id < next, NEW entry,
         EdgeTold(nodes, rels, id, entry),
         \A r \in DOMAIN past : r # id => r < next /\ EdgeTold(nodes, rels, r, past[r])
  PROVE  EdgesTold(nodes, rels, next, Put(past, id, entry))
<1> DEFINE more == Put(past, id, entry)
<1>1. /\ more[id] = entry /\ \A r : r \in DOMAIN more <=> r \in DOMAIN past \/ r = id
      /\ \A r \in DOMAIN past : r # id => more[r] = past[r]
  BY PutIs
<1> HIDE DEF more
<1>2. EdgesTold(nodes, rels, next, more)
  BY <1>1 DEF EdgesTold
<1> QED BY <1>2 DEF more

\* An edge that goes leaves the histories of the others true.
LEMMA EdgesCut ==
  ASSUME NEW nodes, NEW rels, NEW next, NEW past, EdgesTold(nodes, rels, next, past), NEW id
  PROVE  \A r \in DOMAIN past : r # id => r < next /\ EdgeTold(nodes, Without(rels, id), r, past[r])
<1>1. \A r : r # id => (r \in DOMAIN Without(rels, id) <=> r \in DOMAIN rels)
  BY LessIs
<1> QED BY <1>1 DEF EdgesTold, EdgeTold

\* Histories that are forgotten leave the others true.
LEMMA EdgesFewer ==
  ASSUME NEW nodes, NEW rels, NEW next, NEW past, EdgesTold(nodes, rels, next, past), NEW S
  PROVE  EdgesTold(nodes, rels, next, Drop(past, S))
<1> DEFINE less == Drop(past, S)
<1>1. \A r \in DOMAIN less : r \in DOMAIN past /\ less[r] = past[r]
  BY DropIs
<1> HIDE DEF less
<1>2. EdgesTold(nodes, rels, next, less)
  BY <1>1 DEF EdgesTold
<1> QED BY <1>2 DEF less

\* A node that no edge and no history of an edge touches may go.
LEMMA EdgesGone ==
  ASSUME NEW nodes, NEW rels, NEW next, NEW past, EdgesTold(nodes, rels, next, past), NEW id,
         \A r \in DOMAIN rels : ~Touches(rels[r], id),
         \A r \in DOMAIN past : ~Touches(past[r].rel, id)
  PROVE  EdgesTold(Without(nodes, id), RelsWithout(rels, id), next, past)
<1>1. \A x : x \in DOMAIN Without(nodes, id) <=> x \in DOMAIN nodes /\ x # id
  BY LessIs
<1>2. \A r : r \in DOMAIN RelsWithout(rels, id) <=> r \in DOMAIN rels
  BY RelsWithoutIs
<1> QED BY <1>1, <1>2 DEF EdgesTold, EdgeTold, Touches
-----------------------------------------------------------------------------
(* What each call makes of it.                                              *)

\* Told is about nodes, edges, the counter of edges and the histories.
LEMMA ToldSame ==
  ASSUME NEW d, Told(d), NEW e, e.graph.nodes = d.graph.nodes, e.graph.rels = d.graph.rels,
         e.graph.next.rel = d.graph.next.rel, e.history = d.history
  PROVE  Told(e)
BY DEF Told

\* What is still told after a call: the histories, and every id handed out.
Retold(y, x) == Told(y.d) /\ x.d.graph.next.node <= y.d.graph.next.node

\* Nothing done leaves it told.
LEMMA RetoldQuiet ==
  ASSUME NEW x, GoodX(x), Told(x.d), NEW y, Quiet(y, x)
  PROVE  Retold(y, x) /\ y.d.graph = x.d.graph /\ y.d.history = x.d.history
<1>1. y.d.graph = x.d.graph /\ y.d.history = x.d.history
  BY BecomesIs DEF Quiet
<1>2. x.d.graph.next.node \in Nat
  BY GoodXIs, GoodGraphIs
<1> QED BY <1>1, <1>2, ToldSame DEF Retold

\* A lifetime is set for its node only.
LEMMA OptionalKeys ==
  ASSUME NEW f, NEW k, NEW v
  PROVE  DOMAIN PutOptional(f, k, v) \subseteq DOMAIN f \cup {k}
BY PutIs, DropIs DEF PutOptional

\* record_lifetime, for a node that is there.
LEMMA LifetimeTold ==
  ASSUME NEW x, GoodX(x), Told(x.d), NEW id \in DOMAIN x.d.graph.nodes, NEW y, Lifetime(y, x, id)
  PROVE  Retold(y, x) /\ y.d.graph = x.d.graph
<1>1. CASE Quiet(y, x)
  BY <1>1, RetoldQuiet
<1>2. CASE \E appears, ends : LifetimeSet(y, x, id, appears, ends)
  <2>1. PICK appears, ends : LifetimeSet(y, x, id, appears, ends)
    BY <1>2
  <2>2. PICK h : h = SetLifetime(x.d.history, id, appears, ends)
    OBVIOUS
  <2>3. y.d.graph = x.d.graph /\ y.d.history = h
    BY <2>1, <2>2, BecomesIs DEF LifetimeSet
  <2>4. /\ h.fields = x.d.history.fields /\ h.rels = x.d.history.rels
        /\ h.appears = PutOptional(x.d.history.appears, id, appears)
        /\ h.ends = PutOptional(x.d.history.ends, id, ends)
    BY <2>2, GoodXIs, LifetimeShape, SectionsAre
  <2>5. LivesTold(x.d.graph.nodes, h.appears, h.ends)
    BY <2>4, OptionalKeys DEF Told, LivesTold
  <2>6. x.d.graph.next.node \in Nat
    BY GoodXIs, GoodGraphIs
  <2> QED BY <2>3, <2>4, <2>5, <2>6 DEF Told, Retold
<1> QED BY <1>1, <1>2 DEF Lifetime

\* create_node, for an id that was not handed out.
LEMMA CreateNodeTold ==
  ASSUME NEW x, GoodX(x), Grounded(x.d), Told(x.d), NEW node, GoodNode(node),
         NEW y, y = JournalCreateNode(x, node)
  PROVE  Retold(y, x) /\ x.d.graph.next.node < y.d.graph.next.node
<1>1. PICK id : id = x.d.graph.next.node
  OBVIOUS
<1>2. PICK fields : fields = TemporalFields(x, node.labels, node.props)
  OBVIOUS
<1>3. PICK s, t : /\ NodeCreated(s, x, node)
                  /\ Quiet(t, s) \/ FieldsWritten(t, s, id, node.props, fields)
                  /\ Lifetime(y, t, id)
  BY <1>1, <1>2, GoodXIs, JournalCreateNodeIs
<1>4. id \in Nat /\ id \notin DOMAIN x.d.graph.nodes
  BY <1>1, GoodXIs, GoodGraphIs, GroundedIs
<1>5. GoodX(s)
  BY <1>3, NodeCreatedKept, KeptIs
<1>6. /\ s.d.graph = RestoreNode(x.d.graph, id, node) /\ s.d.history = x.d.history
      /\ s.j.at = x.j.at
  BY <1>1, <1>3, BecomesIs DEF NodeCreated, CreateNode, SameRest
<1>7. /\ s.d.graph.nodes = Put(x.d.graph.nodes, id, node) /\ s.d.graph.rels = x.d.graph.rels
      /\ s.d.graph.next = Counters(Later(id, id), x.d.graph.next.rel)
  BY <1>1, <1>6, GoodXIs, GoodGraphIs, RestoreNodeIs
<1>8. s.d.graph.next.rel = x.d.graph.next.rel /\ s.d.graph.next.node > id
      /\ s.d.graph.next.node \in Nat
  BY <1>4, <1>7, CountersAre, LaterIs
<1>9. /\ id \in DOMAIN s.d.graph.nodes
      /\ DOMAIN x.d.graph.nodes \subseteq DOMAIN s.d.graph.nodes
  BY <1>7, PutIs
<1>10. /\ EdgesTold(s.d.graph.nodes, s.d.graph.rels, s.d.graph.next.rel, s.d.history.rels)
       /\ LivesTold(s.d.graph.nodes, s.d.history.appears, s.d.history.ends)
  <2>1. EdgesTold(x.d.graph.nodes, x.d.graph.rels, x.d.graph.next.rel, x.d.history.rels)
    BY DEF Told
  <2>2. EdgesTold(s.d.graph.nodes, x.d.graph.rels, x.d.graph.next.rel, x.d.history.rels)
    BY <1>9, <2>1, EdgesMore
  <2>3. LivesTold(s.d.graph.nodes, x.d.history.appears, x.d.history.ends)
    BY <1>9 DEF Told, LivesTold
  <2> QED BY <1>6, <1>7, <1>8, <2>2, <2>3
<1>11. Told(t.d) /\ GoodX(t) /\ t.d.graph = s.d.graph
  <2>1. CASE Quiet(t, s)
    <3>1. FieldsTold(s.d.graph.nodes, s.d.history.fields)
      BY <1>4, <1>6, <1>7, FieldsMore DEF Told
    <3>2. Told(s.d)
      BY <1>10, <3>1 DEF Told
    <3> QED BY <1>5, <2>1, <3>2, QuietGood, RetoldQuiet DEF Retold
  <2>2. CASE FieldsWritten(t, s, id, node.props, fields)
    <3>1. PICK h : h = RecordHistory(x.d.history, id, x.j.at, node.props, fields)
      OBVIOUS
    <3>2. t.d.graph = s.d.graph /\ t.d.history = h
      BY <1>6, <2>2, <3>1, BecomesIs DEF FieldsWritten
    <3>3. FieldsTold(s.d.graph.nodes, h.fields)
      <4>1. /\ FieldsTold(x.d.graph.nodes, x.d.history.fields) /\ GoodProps(node.props)
            /\ IsHistory(x.d.history) /\ x.j.at \in Nat
        BY GoodXIs DEF Told, GoodNode
      <4> QED BY <1>4, <1>7, <3>1, <4>1, FieldsFirst
    <3>4. h.rels = x.d.history.rels /\ h.appears = x.d.history.appears /\ h.ends = x.d.history.ends
      BY <3>1, GoodXIs, RecordedIs
    <3>5. GoodX(t)
      BY <1>5, <2>2, FieldsWrittenKept, KeptIs DEF GoodNode
    <3> QED BY <1>6, <1>10, <3>2, <3>3, <3>4, <3>5 DEF Told
  <2> QED BY <1>3, <2>1, <2>2
<1>12. Retold(y, t) /\ y.d.graph = t.d.graph
  BY <1>3, <1>9, <1>11, LifetimeTold
<1> QED BY <1>1, <1>4, <1>8, <1>11, <1>12 DEF Retold

\* update_node, under one of the schemas.
LEMMA UpdateNodeTold ==
  ASSUME NEW x, GoodX(x), Told(x.d), x.j.schema \in Schemas, NEW id, NEW props, GoodProps(props),
         NEW y, y = JournalUpdateNode(x, id, props)
  PROVE  Retold(y, x)
<1>1. PICK labels : labels = x.d.graph.nodes[id].labels
  OBVIOUS
<1>2. PICK fields : fields = TemporalFields(x, labels, props)
  OBVIOUS
<1>3. PICK history : history = RecordHistory(x.d.history, id, x.j.at, props, fields)
  OBVIOUS
<1>4. PICK current : current = CurrentProps(history, id, props, fields)
  OBVIOUS
<1>5. \/ Quiet(y, x)
      \/ /\ id \in DOMAIN x.d.graph.nodes
         /\ \E s, t : /\ \/ s = x /\ fields = {} /\ NodeChanged(t, s, id, props)
                         \/ FieldsWritten(s, x, id, props, fields) /\ NodeChanged(t, s, id, current)
                      /\ Lifetime(y, t, id)
  BY <1>1, <1>2, <1>3, <1>4, GoodXIs, JournalUpdateNodeIs, Zenon
<1>6. fields \subseteq DOMAIN props /\ \A f \in DOMAIN props : Dates(labels, f) => f \in fields
  BY <1>2 DEF TemporalFields, Dates
<1>7. CASE Quiet(y, x)
  BY <1>7, RetoldQuiet
<1>8. CASE /\ id \in DOMAIN x.d.graph.nodes
           /\ \E s, t : /\ \/ s = x /\ fields = {} /\ NodeChanged(t, s, id, props)
                           \/ FieldsWritten(s, x, id, props, fields)
                                /\ NodeChanged(t, s, id, current)
                        /\ Lifetime(y, t, id)
  <2>1. PICK s, t : /\ \/ s = x /\ fields = {} /\ NodeChanged(t, s, id, props)
                       \/ FieldsWritten(s, x, id, props, fields) /\ NodeChanged(t, s, id, current)
                    /\ Lifetime(y, t, id)
    BY <1>8
  <2>2. PICK new : NodeChanged(t, s, id, new) /\ GoodProps(new)
                   /\ \/ s = x /\ fields = {} /\ new = props
                      \/ FieldsWritten(s, x, id, props, fields) /\ new = current
    <3>1. GoodProps(current)
      <4>1. IsHistory(x.d.history) /\ GoodFields(x.d.history.fields) /\ x.j.at \in Nat
        BY GoodXIs
      <4>2. GoodFields(history.fields)
        BY <1>3, <4>1, RecordHistoryTyped
      <4>3. \A f \in fields : <<id, f>> \in DOMAIN history.fields
        <5>1. \A f \in fields \cap DOMAIN props : <<id, f>> \in DOMAIN history.fields
          BY <1>3, <4>1, RecordedFields
        <5> QED BY <1>6, <5>1
      <4> QED BY <1>4, <1>6, <4>2, <4>3, CurrentPropsGood
    <3> QED BY <2>1, <3>1
  <2>3. /\ GoodX(s) /\ s.d.graph = x.d.graph
        /\ s.d.history = x.d.history \/ s.d.history = history
    <3>1. CASE s = x
      BY <3>1
    <3>2. CASE FieldsWritten(s, x, id, props, fields)
      BY <1>3, <3>2, FieldsWrittenKept, KeptIs, BecomesIs DEF FieldsWritten
    <3> QED BY <2>2, <3>1, <3>2
  <2>4. GoodX(t)
    <3>1. id \in DOMAIN s.d.graph.nodes
      BY <1>8, <2>3
    <3>2. Kept(t, s)
      BY <2>2, <2>3, <3>1, NodeChangedKept
    <3> QED BY <3>2, KeptIs
  <2>5. t.d.graph = UpdateNode(x.d.graph, id, new) /\ t.d.history = s.d.history
    BY <2>2, <2>3, BecomesIs DEF NodeChanged
  <2>6. PICK node : node = x.d.graph.nodes[id] /\ IsNode(node)
    BY <1>8, GoodXIs, GoodGraphIs DEF GoodNode
  <2>7. /\ t.d.graph.nodes = Put(x.d.graph.nodes, id, Changed(node, new))
        /\ t.d.graph.rels = x.d.graph.rels
        /\ t.d.graph.next = Counters(x.d.graph.next.node, x.d.graph.next.rel)
    BY <1>8, <2>5, <2>6, GoodXIs, GoodGraphIs, UpdateNodeIs
  <2>8. t.d.graph.next.node = x.d.graph.next.node /\ t.d.graph.next.rel = x.d.graph.next.rel
    BY <2>7, CountersAre
  <2>9. FieldsTold(t.d.graph.nodes, t.d.history.fields)
    <3>0. FieldsTold(x.d.graph.nodes, x.d.history.fields)
      BY DEF Told
    <3>1. CASE s = x /\ fields = {} /\ new = props
      <4>1. \A f \in DOMAIN props : ~Dates(x.d.graph.nodes[id].labels, f)
        BY <1>1, <1>6, <3>1
      <4> QED BY <1>8, <2>5, <2>6, <2>7, <3>0, <3>1, <4>1, FieldsSet
    <3>2. CASE FieldsWritten(s, x, id, props, fields) /\ new = current
      <4>1. s.d.history = history
        BY <1>3, <3>2, BecomesIs DEF FieldsWritten
      <4>2. IsHistory(x.d.history) /\ GoodFields(x.d.history.fields) /\ x.j.at \in Nat
        BY GoodXIs
      <4>3. \A f \in DOMAIN props : Dates(x.d.graph.nodes[id].labels, f) => f \in fields
        BY <1>1, <1>6
      <4>4. FieldsTold(Put(x.d.graph.nodes, id, Changed(x.d.graph.nodes[id], current)),
                       history.fields)
        BY <1>3, <1>4, <1>6, <1>8, <3>0, <4>2, <4>3, FieldsDated
      <4> QED BY <2>5, <2>6, <2>7, <3>2, <4>1, <4>4
    <3> QED BY <2>2, <3>1, <3>2
  <2>10. /\ t.d.history.rels = x.d.history.rels /\ t.d.history.appears = x.d.history.appears
         /\ t.d.history.ends = x.d.history.ends
    BY <1>3, <2>3, <2>5, GoodXIs, RecordedIs
  <2>11. id \in DOMAIN t.d.graph.nodes
         /\ DOMAIN x.d.graph.nodes \subseteq DOMAIN t.d.graph.nodes
    BY <2>7, PutIs
  <2>12. EdgesTold(t.d.graph.nodes, x.d.graph.rels, x.d.graph.next.rel, x.d.history.rels)
    BY <2>11, EdgesMore DEF Told
  <2>13. LivesTold(t.d.graph.nodes, x.d.history.appears, x.d.history.ends)
    BY <2>11 DEF Told, LivesTold
  <2>14. Told(t.d)
    BY <2>7, <2>8, <2>9, <2>10, <2>12, <2>13 DEF Told
  <2> QED BY <2>1, <2>4, <2>8, <2>11, <2>14, LifetimeTold DEF Retold
<1> QED BY <1>5, <1>7, <1>8

\* An edge between live nodes that has just begun, or ended, is told.
LEMMA BeganTold ==
  ASSUME NEW nodes, NEW rels, NEW r \in DOMAIN rels, NEW rel, rel.from \in DOMAIN nodes,
         rel.to \in DOMAIN nodes, NEW at, NEW entry, entry = Began(rel, at)
  PROVE  EdgeTold(nodes, rels, r, entry)
<1>1. IsEntry(entry) /\ entry.rel = rel /\ entry.to = {}
  BY DEF Began, IsEntry
<1> QED BY <1>1 DEF EdgeTold

\* An edge that ends is not there any more.
LEMMA EndedTold ==
  ASSUME NEW nodes, NEW rels, NEW r, r \notin DOMAIN rels, NEW known, IsEntry(known),
         known.rel.from \in DOMAIN nodes, known.rel.to \in DOMAIN nodes, NEW at, NEW entry,
         entry = [known EXCEPT !.to = {at}]
  PROVE  EdgeTold(nodes, rels, r, entry)
<1>1. IsEntry(entry) /\ entry.rel = known.rel /\ entry.to = {at}
  BY DEF IsEntry
<1> QED BY <1>1 DEF EdgeTold

\* What one edge's history becomes.
LEMMA EdgeWritten ==
  ASSUME NEW x, GoodX(x), NEW id, NEW edge, NEW y, EdgeDated(y, x, id, edge)
  PROVE  /\ y.d.graph = x.d.graph /\ y.d.history.rels = Put(x.d.history.rels, id, edge)
         /\ y.d.history.fields = x.d.history.fields
         /\ y.d.history.appears = x.d.history.appears /\ y.d.history.ends = x.d.history.ends
<1>1. PICK rels : rels = Put(x.d.history.rels, id, edge)
  OBVIOUS
<1>2. PICK h : h = [x.d.history EXCEPT !.rels = rels]
  OBVIOUS
<1>3. y.d.graph = x.d.graph /\ y.d.history = h
  BY <1>1, <1>2, Zenon DEF EdgeDated, Becomes
<1>4. IsFcn(rels)
  BY <1>1, PutFcn
<1>5. Sections(h, x.d.history.fields, rels, x.d.history.appears, x.d.history.ends)
  BY <1>2, <1>4, GoodXIs, EdgesSection
<1> QED BY <1>1, <1>3, <1>5, SectionsAre

\* create_relationship between nodes that are there.
LEMMA CreateRelationshipTold ==
  ASSUME NEW x, GoodX(x), Told(x.d), NEW rel, rel.from \in DOMAIN x.d.graph.nodes,
         rel.to \in DOMAIN x.d.graph.nodes, NEW y, y = JournalCreateRelationship(x, rel)
  PROVE  Retold(y, x)
<1>1. PICK id : id = x.d.graph.next.rel
  OBVIOUS
<1>2. PICK edge : edge = Began(rel, x.j.at)
  OBVIOUS
<1>3. PICK s : EdgeCreated(s, x, rel) /\ (Quiet(y, s) \/ EdgeDated(y, s, id, edge))
  BY <1>1, <1>2, GoodXIs, JournalCreateRelationshipIs
<1>4. id \in Nat /\ x.d.graph.next.node \in Nat /\ \A r \in DOMAIN x.d.history.rels : r \in Nat
  BY <1>1, GoodXIs, GoodGraphIs DEF GoodEdges
<1>5. GoodX(s)
  BY <1>3, EdgeCreatedKept, KeptIs
<1>6. s.d.graph = RestoreRelationship(x.d.graph, id, rel) /\ s.d.history = x.d.history
  BY <1>1, <1>3, BecomesIs DEF EdgeCreated, CreateRelationship
<1>7. /\ s.d.graph.nodes = x.d.graph.nodes /\ s.d.graph.rels = Put(x.d.graph.rels, id, rel)
      /\ s.d.graph.next = Counters(x.d.graph.next.node, Later(id, id))
  BY <1>1, <1>6, GoodXIs, GoodGraphIs, RestoreRelationshipIs
<1>8. s.d.graph.next.node = x.d.graph.next.node /\ s.d.graph.next.rel > id
      /\ s.d.graph.next.rel \in Nat
  <2>1. s.d.graph.next.node = x.d.graph.next.node /\ s.d.graph.next.rel = Later(id, id)
    BY <1>7, CountersAre
  <2>2. Later(id, id) > id /\ Later(id, id) \in Nat
    BY <1>4, LaterIs
  <2> QED BY <2>1, <2>2
<1>9. /\ EdgesTold(s.d.graph.nodes, s.d.graph.rels, s.d.graph.next.rel, s.d.history.rels)
      /\ id \notin DOMAIN s.d.history.rels
  <2>1. EdgesTold(x.d.graph.nodes, x.d.graph.rels, id, x.d.history.rels)
    BY <1>1 DEF Told
  <2>2. PICK later \in Nat : later = s.d.graph.next.rel /\ later > id
    BY <1>8
  <2>3. /\ EdgesTold(x.d.graph.nodes, Put(x.d.graph.rels, id, rel), later, x.d.history.rels)
        /\ id \notin DOMAIN x.d.history.rels
    BY <1>4, <2>1, <2>2, EdgesFirst
  <2> QED BY <1>6, <1>7, <2>2, <2>3
<1>10. Told(s.d)
  BY <1>6, <1>7, <1>9 DEF Told
<1>11. CASE Quiet(y, s)
  <2>1. Retold(y, s)
    BY <1>5, <1>10, <1>11, RetoldQuiet
  <2> QED BY <1>8, <2>1 DEF Retold
<1>12. CASE EdgeDated(y, s, id, edge)
  <2>1. /\ y.d.graph = s.d.graph /\ y.d.history.rels = Put(s.d.history.rels, id, edge)
        /\ y.d.history.fields = s.d.history.fields
        /\ y.d.history.appears = s.d.history.appears /\ y.d.history.ends = s.d.history.ends
    BY <1>5, <1>12, EdgeWritten
  <2>2. id \in DOMAIN s.d.graph.rels
    BY <1>7, PutIs
  <2>3. EdgeTold(s.d.graph.nodes, s.d.graph.rels, id, edge)
    BY <1>2, <1>7, <2>2, BeganTold
  <2>4. EdgesTold(s.d.graph.nodes, s.d.graph.rels, s.d.graph.next.rel,
                  Put(s.d.history.rels, id, edge))
    <3>1. \A r \in DOMAIN s.d.history.rels : r # id =>
             r < s.d.graph.next.rel
             /\ EdgeTold(s.d.graph.nodes, s.d.graph.rels, r, s.d.history.rels[r])
      BY <1>9 DEF EdgesTold
    <3> QED BY <1>8, <2>3, <3>1, EdgesDated
  <2>5. Told(y.d)
    BY <1>10, <2>1, <2>4 DEF Told
  <2> QED BY <1>4, <1>8, <2>1, <2>5 DEF Retold
<1> QED BY <1>3, <1>11, <1>12

\* The relationship goes, or was not there, and its history, if it has one, ends.
LEMMA EdgesGoneTold ==
  ASSUME NEW d, Told(d), NEW e, NEW id, e.graph.nodes = d.graph.nodes,
         e.graph.rels = Without(d.graph.rels, id), e.graph.next.rel = d.graph.next.rel,
         e.history.fields = d.history.fields, e.history.appears = d.history.appears,
         e.history.ends = d.history.ends,
         \/ e.history.rels = d.history.rels /\ id \notin DOMAIN d.history.rels
         \/ \E edge : /\ e.history.rels = Put(d.history.rels, id, edge) /\ id < d.graph.next.rel
                      /\ EdgeTold(d.graph.nodes, Without(d.graph.rels, id), id, edge)
  PROVE  Told(e)
<1>1. \A r \in DOMAIN d.history.rels : r # id =>
         r < d.graph.next.rel
         /\ EdgeTold(d.graph.nodes, Without(d.graph.rels, id), r, d.history.rels[r])
  BY EdgesCut DEF Told
<1>2. EdgesTold(d.graph.nodes, Without(d.graph.rels, id), d.graph.next.rel, e.history.rels)
  <2>1. CASE e.history.rels = d.history.rels /\ id \notin DOMAIN d.history.rels
    BY <1>1, <2>1 DEF EdgesTold
  <2>2. CASE \E edge : /\ e.history.rels = Put(d.history.rels, id, edge) /\ id < d.graph.next.rel
                       /\ EdgeTold(d.graph.nodes, Without(d.graph.rels, id), id, edge)
    BY <1>1, <2>2, EdgesDated
  <2> QED BY <2>1, <2>2
<1> QED BY <1>2 DEF Told

\* delete_relationship.
LEMMA DeleteRelationshipTold ==
  ASSUME NEW x, GoodX(x), Grounded(x.d), Told(x.d), NEW id, NEW y,
         y = JournalDeleteRelationship(x, id)
  PROVE  Retold(y, x) /\ y.d.graph.next.node = x.d.graph.next.node
<1>0. x.d.graph.next.node \in Nat /\ Indexed(x.d.graph) /\ IsFcn(x.d.graph.rels)
  BY GoodXIs, GoodGraphIs, IndexedIs
<1>1. \/ Quiet(y, x)
      \/ /\ id \in DOMAIN x.d.graph.rels \/ id \in DOMAIN x.d.history.rels
         /\ \E s : /\ (Quiet(s, x) /\ id \notin DOMAIN x.d.history.rels) \/ EdgeEnded(s, x, id)
                   /\ IF id \in DOMAIN x.d.graph.rels THEN EdgeCut(y, s, id) ELSE Quiet(y, s)
  BY GoodXIs, JournalDeleteRelationshipIs
<1>2. CASE Quiet(y, x)
  BY <1>0, <1>2, RetoldQuiet
<1>3. CASE /\ id \in DOMAIN x.d.graph.rels \/ id \in DOMAIN x.d.history.rels
           /\ \E s : /\ (Quiet(s, x) /\ id \notin DOMAIN x.d.history.rels) \/ EdgeEnded(s, x, id)
                     /\ IF id \in DOMAIN x.d.graph.rels THEN EdgeCut(y, s, id) ELSE Quiet(y, s)
  <2>1. PICK s : /\ (Quiet(s, x) /\ id \notin DOMAIN x.d.history.rels) \/ EdgeEnded(s, x, id)
                 /\ IF id \in DOMAIN x.d.graph.rels THEN EdgeCut(y, s, id) ELSE Quiet(y, s)
    BY <1>3
  <2>2. id < x.d.graph.next.rel
    BY <1>3, GroundedIs DEF Told, EdgesTold
  <2>3. /\ s.d.graph = x.d.graph /\ s.d.history.fields = x.d.history.fields
        /\ s.d.history.appears = x.d.history.appears /\ s.d.history.ends = x.d.history.ends
        /\ \/ s.d.history.rels = x.d.history.rels /\ id \notin DOMAIN x.d.history.rels
           \/ \E edge : /\ s.d.history.rels = Put(x.d.history.rels, id, edge)
                        /\ EdgeTold(x.d.graph.nodes, Without(x.d.graph.rels, id), id, edge)
    <3>1. CASE Quiet(s, x) /\ id \notin DOMAIN x.d.history.rels
      BY <3>1, BecomesIs DEF Quiet
    <3>2. CASE EdgeEnded(s, x, id)
      <4>1. PICK rel : /\ id \in DOMAIN x.d.graph.rels => rel = x.d.graph.rels[id]
                       /\ EdgeDated(s, x, id, [EdgeKnown(x, id, rel) EXCEPT !.to = {x.j.at}])
        BY <3>2 DEF EdgeEnded
      <4>2. PICK known : known = EdgeKnown(x, id, rel)
        OBVIOUS
      <4>3. PICK edge : edge = [known EXCEPT !.to = {x.j.at}]
        OBVIOUS
      <4>4. EdgeDated(s, x, id, edge)
        BY <4>1, <4>2, <4>3
      <4>5. /\ IsEntry(known) /\ known.rel.from \in DOMAIN x.d.graph.nodes
            /\ known.rel.to \in DOMAIN x.d.graph.nodes
        <5>1. CASE id \in DOMAIN x.d.history.rels
          BY <4>2, <5>1 DEF EdgeKnown, Told, EdgesTold, EdgeTold
        <5>2. CASE id \notin DOMAIN x.d.history.rels
          <6>1. id \in DOMAIN x.d.graph.rels /\ rel = x.d.graph.rels[id]
            BY <1>3, <4>1, <5>2
          <6>2. rel.from \in DOMAIN x.d.graph.nodes /\ rel.to \in DOMAIN x.d.graph.nodes
            BY <6>1, GroundedIs
          <6>3. IsEntry(known) /\ known.rel = rel
            BY <4>2, <5>2 DEF EdgeKnown, Began, IsEntry
          <6> QED BY <6>2, <6>3
        <5> QED BY <5>1, <5>2
      <4>6. id \notin DOMAIN Without(x.d.graph.rels, id)
        BY LessIs
      <4>7. EdgeTold(x.d.graph.nodes, Without(x.d.graph.rels, id), id, edge)
        BY <4>3, <4>5, <4>6, EndedTold
      <4> QED BY <4>4, <4>7, EdgeWritten
    <3> QED BY <2>1, <3>1, <3>2
  <2>4. /\ y.d.history = s.d.history /\ y.d.graph.nodes = x.d.graph.nodes
        /\ y.d.graph.rels = Without(x.d.graph.rels, id)
        /\ y.d.graph.next.rel = x.d.graph.next.rel /\ y.d.graph.next.node = x.d.graph.next.node
    <3>1. CASE id \in DOMAIN x.d.graph.rels
      <4>1. y.d.history = s.d.history /\ y.d.graph = DeleteRelationship(x.d.graph, id)
        BY <2>1, <2>3, <3>1, BecomesIs DEF EdgeCut
      <4>2. /\ y.d.graph.nodes = x.d.graph.nodes /\ y.d.graph.rels = Without(x.d.graph.rels, id)
            /\ y.d.graph.next = Counters(x.d.graph.next.node, x.d.graph.next.rel)
        BY <1>0, <4>1, DeleteRelationshipIs
      <4> QED BY <4>1, <4>2, CountersAre
    <3>2. CASE id \notin DOMAIN x.d.graph.rels
      BY <1>0, <2>1, <2>3, <3>2, NothingDropped, BecomesIs DEF Quiet
    <3> QED BY <3>1, <3>2
  <2>5. Told(y.d)
    BY <2>2, <2>3, <2>4, EdgesGoneTold
  <2> QED BY <1>0, <2>4, <2>5 DEF Retold
<1> QED BY <1>1, <1>2, <1>3
\* What holds after each pass of delete_node's loop over the relationships.
TellInv(c, n, y) ==
  /\ Kept(y, c.x) /\ Told(y.d) /\ y.d.graph.next.node = c.x.d.graph.next.node
Tells == INSTANCE Loop WITH Op <- DropOp, P <- TellInv

\* One pass.
LEMMA TellNext ==
  ASSUME NEW c, GoodX(c.x), Grounded(c.x.d), NEW n, NEW y, TellInv(c, n - 1, y), NEW ids
  PROVE  TellInv(c, n, IF n \in ids THEN DropOp(c, y, n) ELSE y)
<1>1. Kept(y, c.x) /\ Told(y.d) /\ y.d.graph.next.node = c.x.d.graph.next.node
  BY DEF TellInv
<1>2. GoodX(y) /\ Grounded(y.d)
  BY <1>1, KeptIs
<1>3. CASE n \in ids
  <2>1. PICK z : z = JournalDeleteRelationship(y, n)
    OBVIOUS
  <2>2. Kept(z, y)
    BY <1>2, <2>1, JournalDeleteRelationshipKept
  <2>3. Kept(z, c.x)
    BY <1>1, <2>2, KeptTrans
  <2>4. Told(z.d) /\ z.d.graph.next.node = y.d.graph.next.node
    BY <1>1, <1>2, <2>1, DeleteRelationshipTold DEF Retold
  <2>5. TellInv(c, n, z)
    BY <1>1, <2>3, <2>4 DEF TellInv
  <2> QED BY <1>3, <2>1, <2>5 DEF DropOp
<1>4. CASE n \notin ids
  BY <1>1, <1>4 DEF TellInv
<1> QED BY <1>3, <1>4

\* The loop.
LEMMA CutTold ==
  ASSUME NEW x, GoodX(x), Grounded(x.d), Told(x.d), NEW id, NEW y, y = Cut(x, id)
  PROVE  Told(y.d) /\ y.d.graph.next.node = x.d.graph.next.node
<1> DEFINE ids == NodeRelationships(x.d.graph, id)
           last == Max({0} \cup ids)
           c == [x |-> x]
<1>1. last \in Nat
  <2>1. PICK top \in Nat : DOMAIN x.d.graph.rels \subseteq 1 .. top
    BY GoodXIs, GoodGraphIs
  <2>2. ids \in SUBSET (1 .. top)
    BY <2>1, GoodXIs, GoodGraphIs, NodeRelationshipsIs
  <2> HIDE DEF ids
  <2> QED BY <2>2, LastId
<1>2. y = Tells!Run(c, x, ids, last)
  BY DEF Cut, Each, Tells!Run, DropOp
<1>3. c.x = x
  OBVIOUS
<1> HIDE DEF ids, last, c
<1>4. TellInv(c, 0, x)
  BY <1>3, KeptSelf DEF TellInv
<1>5. ASSUME NEW n \in 1 .. last, NEW z, TellInv(c, n - 1, z)
      PROVE  TellInv(c, n, IF n \in ids THEN DropOp(c, z, n) ELSE z)
  BY <1>3, <1>5, TellNext
<1>6. TellInv(c, last, y)
  BY <1>1, <1>2, <1>4, <1>5, Tells!LoopKeeps
<1> QED BY <1>3, <1>6 DEF TellInv

\* A history without a node.
LEMMA ForgetParts ==
  ASSUME NEW h, NEW id, NEW new, new = Forget(h, id)
  PROVE  /\ new.fields = Drop(h.fields, FieldsOf(h, id))
         /\ new.rels = Drop(h.rels, IncidentTo(h, id))
         /\ new.appears = Drop(h.appears, {id}) /\ new.ends = Drop(h.ends, {id})
BY DEF Forget

\* No history is of the node any more, and the others are as they were.
LEMMA ForgottenTold ==
  ASSUME NEW d, Told(d), NEW id, NEW e, e.graph = d.graph,
         e.history = IF HasData(d.history) THEN Forget(d.history, id) ELSE d.history
  PROVE  /\ Told(e)
         /\ \A key \in DOMAIN e.history.fields : key[1] # id
         /\ \A r \in DOMAIN e.history.rels : ~Touches(e.history.rels[r].rel, id)
         /\ id \notin DOMAIN e.history.appears /\ id \notin DOMAIN e.history.ends
<1>1. CASE ~HasData(d.history)
  <2>1. e.history = NoHistories /\ d.history = NoHistories
    BY <1>1 DEF HasData
  <2>2. Told(e)
    BY <2>1, ToldSame
  <2>3. DOMAIN <<>> = {}
    BY EmptyFcn
  <2>4. /\ e.history.fields = <<>> /\ e.history.rels = <<>>
        /\ e.history.appears = <<>> /\ e.history.ends = <<>>
    BY <2>1 DEF NoHistories
  <2> QED BY <2>2, <2>3, <2>4
<1>2. CASE HasData(d.history)
  <2>1. PICK h : h = d.history
    OBVIOUS
  <2>2. PICK new : new = e.history
    OBVIOUS
  <2>3. /\ new.fields = Drop(h.fields, FieldsOf(h, id))
        /\ new.rels = Drop(h.rels, IncidentTo(h, id))
        /\ new.appears = Drop(h.appears, {id}) /\ new.ends = Drop(h.ends, {id})
    BY <1>2, <2>1, <2>2, ForgetParts
  <2>4. FieldsTold(d.graph.nodes, new.fields)
    BY <2>1, <2>3, FieldsFewer DEF Told
  <2>5. EdgesTold(d.graph.nodes, d.graph.rels, d.graph.next.rel, new.rels)
    BY <2>1, <2>3, EdgesFewer DEF Told
  <2>6. /\ \A k : k \in DOMAIN new.appears <=> k \in DOMAIN h.appears /\ k # id
        /\ \A k : k \in DOMAIN new.ends <=> k \in DOMAIN h.ends /\ k # id
    BY <2>3, DropIs
  <2>7. LivesTold(d.graph.nodes, new.appears, new.ends)
    BY <2>1, <2>6 DEF Told, LivesTold
  <2>8. Told(e)
    BY <2>2, <2>4, <2>5, <2>7 DEF Told
  <2>9. \A key \in DOMAIN new.fields : key[1] # id
    BY <2>3, DropIs DEF FieldsOf
  <2>10. \A r \in DOMAIN new.rels : ~Touches(new.rels[r].rel, id)
    <3>1. \A r \in DOMAIN new.rels : r \in DOMAIN h.rels /\ r \notin IncidentTo(h, id)
                                     /\ new.rels[r] = h.rels[r]
      BY <2>3, DropIs
    <3>2. \A r \in DOMAIN h.rels : Touches(h.rels[r].rel, id) => r \in IncidentTo(h, id)
      BY DEF IncidentTo, Touches
    <3> QED BY <3>1, <3>2
  <2> QED BY <2>2, <2>6, <2>8, <2>9, <2>10
<1> QED BY <1>1, <1>2

\* delete_node, if none of its relationships refuses to go.
LEMMA DeleteNodeTold ==
  ASSUME NEW x, GoodX(x), Grounded(x.d), Told(x.d), NEW id,
         \A r \in NodeRelationships(x.d.graph, id) : ~Early(x, r),
         NEW y, y = JournalDeleteNode(x, id)
  PROVE  Retold(y, x)
<1>0. PICK cut : cut = Cut(x, id)
  OBVIOUS
<1>1. \/ Quiet(y, x)
      \/ /\ id \notin DOMAIN x.d.mirrors /\ id \in DOMAIN x.d.graph.nodes
         /\ \E bare, gone : Bare(bare, cut, id) /\ NodeCut(gone, bare, id) /\ Quiet(y, gone)
  BY <1>0, JournalDeleteNodeIs
<1>2. CASE Quiet(y, x)
  BY <1>2, RetoldQuiet
<1>3. CASE /\ id \notin DOMAIN x.d.mirrors /\ id \in DOMAIN x.d.graph.nodes
           /\ \E bare, gone : Bare(bare, cut, id) /\ NodeCut(gone, bare, id) /\ Quiet(y, gone)
  <2>1. /\ Kept(cut, x) /\ cut.d.graph.nodes = x.d.graph.nodes
        /\ \A r \in DOMAIN cut.d.graph.rels : ~Touches(cut.d.graph.rels[r], id)
    BY <1>0, <1>3, EdgesDropped DEF Cut
  <2>2. Told(cut.d) /\ cut.d.graph.next.node = x.d.graph.next.node
    BY <1>0, CutTold
  <2>3. PICK bare, gone : Bare(bare, cut, id) /\ NodeCut(gone, bare, id) /\ Quiet(y, gone)
    BY <1>3
  <2>4. /\ bare.d.graph = cut.d.graph /\ Told(bare.d)
        /\ \A key \in DOMAIN bare.d.history.fields : key[1] # id
        /\ \A r \in DOMAIN bare.d.history.rels : ~Touches(bare.d.history.rels[r].rel, id)
        /\ id \notin DOMAIN bare.d.history.appears /\ id \notin DOMAIN bare.d.history.ends
    BY <2>2, <2>3, ForgottenTold DEF Bare
  <2>5. GoodX(bare) /\ id \in DOMAIN bare.d.graph.nodes
    BY <1>3, <2>1, <2>3, KeptIs DEF Bare
  <2>6. gone.d.graph = DeleteNode(bare.d.graph, id) /\ gone.d.history = bare.d.history
    BY <2>3, BecomesIs DEF NodeCut
  <2>7. /\ gone.d.graph.nodes = Without(bare.d.graph.nodes, id)
        /\ gone.d.graph.rels = RelsWithout(bare.d.graph.rels, id)
        /\ gone.d.graph.next = Counters(bare.d.graph.next.node, bare.d.graph.next.rel)
    <3>1. PICK top \in Nat : DOMAIN bare.d.graph.rels \subseteq 1 .. top
      BY <2>5, GoodXIs, GoodGraphIs
    <3> QED BY <2>5, <2>6, <3>1, GoodXIs, GoodGraphIs, DeleteNodeIs
  <2>8. gone.d.graph.next.node = x.d.graph.next.node
        /\ gone.d.graph.next.rel = bare.d.graph.next.rel
    BY <2>2, <2>4, <2>7, CountersAre
  <2>9. FieldsTold(gone.d.graph.nodes, gone.d.history.fields)
    BY <2>4, <2>6, <2>7, FieldsGone DEF Told
  <2>10. EdgesTold(gone.d.graph.nodes, gone.d.graph.rels, gone.d.graph.next.rel,
                   gone.d.history.rels)
    <3>1. EdgesTold(bare.d.graph.nodes, bare.d.graph.rels, bare.d.graph.next.rel,
                    bare.d.history.rels)
      BY <2>4 DEF Told
    <3>2. \A r \in DOMAIN bare.d.graph.rels : ~Touches(bare.d.graph.rels[r], id)
      BY <2>1, <2>4
    <3> QED BY <2>4, <2>6, <2>7, <2>8, <3>1, <3>2, EdgesGone
  <2>11. LivesTold(gone.d.graph.nodes, gone.d.history.appears, gone.d.history.ends)
    <3>1. \A k : k \in DOMAIN gone.d.graph.nodes <=> k \in DOMAIN bare.d.graph.nodes /\ k # id
      BY <2>7, LessIs
    <3>2. LivesTold(bare.d.graph.nodes, bare.d.history.appears, bare.d.history.ends)
      BY <2>4 DEF Told
    <3> QED BY <2>4, <2>6, <3>1, <3>2 DEF LivesTold
  <2>12. Told(gone.d)
    BY <2>9, <2>10, <2>11 DEF Told
  <2>13. y.d.graph = gone.d.graph /\ y.d.history = gone.d.history
    BY <2>3, BecomesIs DEF Quiet
  <2>14. Told(y.d)
    BY <2>12, <2>13, ToldSame
  <2>15. x.d.graph.next.node \in Nat
    BY GoodXIs, GoodGraphIs
  <2> QED BY <2>8, <2>13, <2>14, <2>15 DEF Retold
<1> QED BY <1>1, <1>2, <1>3
-----------------------------------------------------------------------------
(* The operations of a statement, and the identities they publish.          *)

\* The ids of the nodes a statement inserts were handed out.
Insertion == {"InsertNode", "InsertNodeAt"}
HandedOut(id, next) == id \in Nat /\ id < next
OpsTold(ops, next) ==
  IsSeq(ops) /\ \A i \in DOMAIN ops : ops[i].op \in Insertion => HandedOut(ops[i].id, next)

\* A state with its journal.
Shaped(x) == x = [d |-> x.d, j |-> x.j] /\ IsJournal(x.j)

\* From x to y the journal writes no operation, one operation, or none that
\* inserts a node.
Silently(y, x) == Shaped(y) /\ y.j.ops = x.j.ops
Writes(y, x, op) == Shaped(y) /\ y.j.ops = Append(x.j.ops, op)
Spares(y, x) == Shaped(y) /\ \A next : OpsTold(x.j.ops, next) => OpsTold(y.j.ops, next)

\* What two steps spare, both together spare.
LEMMA SparesTrans == ASSUME NEW x, NEW y, NEW z, Spares(y, x), Spares(z, y) PROVE Spares(z, x)
BY DEF Spares

\* Nothing done spares all.
LEMMA SparesSelf == ASSUME NEW x, Shaped(x) PROVE Spares(x, x)
BY DEF Spares

\* A step that writes no operation spares all,
LEMMA SilentlySpares == ASSUME NEW x, NEW y, Silently(y, x) PROVE Spares(y, x)
BY DEF Spares, Silently

\* One more operation, that inserts no node or one whose id was handed out.
LEMMA OneMoreTold ==
  ASSUME NEW ops, NEW next, OpsTold(ops, next), NEW op,
         op.op \in Insertion => HandedOut(op.id, next)
  PROVE  OpsTold(Append(ops, op), next)
<1>1. IsSeq(ops)
      /\ \A i \in DOMAIN ops : ops[i].op \in Insertion => HandedOut(ops[i].id, next)
  BY DEF OpsTold
<1>2. PICK more : more = Append(ops, op)
  OBVIOUS
<1>3. PICK last : last = Len(ops)
  OBVIOUS
<1>4. /\ IsSeq(more) /\ last \in Nat /\ DOMAIN ops = 1 .. last /\ DOMAIN more = 1 .. last + 1
      /\ (\A i \in 1 .. last : more[i] = ops[i]) /\ more[last + 1] = op
  BY <1>1, <1>2, <1>3, SeqGrows
<1>5. ASSUME NEW i \in DOMAIN more, more[i].op \in Insertion PROVE HandedOut(more[i].id, next)
  <2>1. i \in 1 .. last \/ i = last + 1
    BY <1>4
  <2> QED BY <1>1, <1>4, <1>5, <2>1
<1> QED BY <1>2, <1>4, <1>5 DEF OpsTold

\* and so does one whose operation inserts no node.
LEMMA WritesSpares ==
  ASSUME NEW x, NEW y, NEW op, Writes(y, x, op), op.op \notin Insertion
  PROVE  Spares(y, x)
BY OneMoreTold DEF Spares, Writes

\* What the steps of a call write.
LEMMA LoggingWrites == ASSUME NEW x, Shaped(x), NEW op PROVE Writes(Logging(x, op), x, op)
<1> DEFINE v == Append(x.j.ops, op)
           k == [x.j EXCEPT !.ops = v]
<1>1. Logging(x, op) = [x EXCEPT !.j = k]
  BY Zenon DEF Logging
<1>2. IsJournal(k) /\ k.ops = v
  <2> HIDE DEF v
  <2> QED BY DEF Shaped, IsJournal
<1> HIDE DEF k, v
<1>3. [x EXCEPT !.j = k] = [d |-> x.d, j |-> k]
  BY DEF Shaped
<1>4. PICK y : y = [d |-> x.d, j |-> k]
  OBVIOUS
<1>5. y.j = k /\ y = [d |-> y.d, j |-> y.j]
  BY <1>4
<1>6. Writes(y, x, op)
  BY <1>2, <1>5 DEF Writes, Shaped, v
<1> QED BY <1>1, <1>3, <1>4, <1>6

\* A note of what was replaced.
LEMMA UndoingWrites == ASSUME NEW x, Shaped(x), NEW u PROVE Silently(Undoing(x, u), x)
<1> DEFINE v == Append(x.j.undo, u)
           k == [x.j EXCEPT !.undo = v]
<1>1. Undoing(x, u) = [x EXCEPT !.j = k]
  BY Zenon DEF Undoing
<1>2. IsJournal(k) /\ k.ops = x.j.ops
  <2> HIDE DEF v
  <2> QED BY DEF Shaped, IsJournal
<1> HIDE DEF k, v
<1>3. [x EXCEPT !.j = k] = [d |-> x.d, j |-> k]
  BY DEF Shaped
<1>4. PICK y : y = [d |-> x.d, j |-> k]
  OBVIOUS
<1>5. y.j = k /\ y = [d |-> y.d, j |-> y.j]
  BY <1>4
<1>6. Silently(y, x)
  BY <1>2, <1>5 DEF Silently, Shaped
<1> QED BY <1>1, <1>3, <1>4, <1>6

\* A refusal.
LEMMA RefusingWrites == ASSUME NEW x, Shaped(x) PROVE Silently(Refusing(x), x)
<1>1. ASSUME NEW v PROVE Silently([x EXCEPT !.j = [x.j EXCEPT !.refused = v]], x)
  <2> DEFINE k == [x.j EXCEPT !.refused = v]
  <2>2. IsJournal(k) /\ k.ops = x.j.ops
    BY DEF Shaped, IsJournal
  <2> HIDE DEF k
  <2>3. [x EXCEPT !.j = k] = [d |-> x.d, j |-> k]
    BY DEF Shaped
  <2>4. PICK y : y = [d |-> x.d, j |-> k]
    OBVIOUS
  <2>5. y.j = k /\ y = [d |-> y.d, j |-> y.j]
    BY <2>4
  <2>6. Silently(y, x)
    BY <2>2, <2>5 DEF Silently, Shaped
  <2> QED BY <2>3, <2>4, <2>6 DEF k
<1>2. Refusing(x) = [x EXCEPT !.j = [x.j EXCEPT !.refused = TRUE]]
  BY Zenon DEF Refusing
<1> QED BY <1>1, <1>2, Zenon

\* A write of the database writes no operation.
LEMMA DbWrites ==
  ASSUME NEW x, Shaped(x), NEW y, NEW e, y = [x EXCEPT !.d = e]
  PROVE  Silently(y, x)
<1>1. y = [d |-> e, j |-> x.j]
  BY DEF Shaped
<1>2. y.d = e /\ y.j = x.j
  BY <1>1
<1> QED BY <1>1, <1>2 DEF Silently, Shaped

\* Another graph,
LEMMA GraphWrites ==
  ASSUME NEW x, Shaped(x), NEW g, NEW y, y = [x EXCEPT !.d.graph = g]
  PROVE  Silently(y, x)
<1>1. y = [x EXCEPT !.d = [x.d EXCEPT !.graph = g]]
  BY Zenon
<1> QED BY <1>1, DbWrites

\* another history,
LEMMA HistoryWrites ==
  ASSUME NEW x, Shaped(x), NEW h, NEW y, y = [x EXCEPT !.d.history = h]
  PROVE  Silently(y, x)
<1>1. y = [x EXCEPT !.d = [x.d EXCEPT !.history = h]]
  BY Zenon
<1> QED BY <1>1, DbWrites

\* and another history of the edges.
LEMMA EdgesWrites ==
  ASSUME NEW x, Shaped(x), NEW rels, NEW y, y = [x EXCEPT !.d.history.rels = rels]
  PROVE  Silently(y, x)
<1>1. y = [x EXCEPT !.d = [x.d EXCEPT !.history = [x.d.history EXCEPT !.rels = rels]]]
  BY Zenon
<1> QED BY <1>1, DbWrites
\* What the calls write: record_lifetime;
LEMMA LifetimeSpares ==
  ASSUME NEW x, Shaped(x), NEW id, NEW y, y = RecordLifetime(x, id)
  PROVE  Spares(y, x)
<1> DEFINE node  == x.d.graph.nodes[id]
           which == SelectInSeq(x.j.schema.lifetimes, LAMBDA l : l.type \in node.labels)
           dates == x.j.schema.lifetimes[which]
           appears == DateIn(dates.appears, node.props)
           ends    == DateIn(dates.ends, node.props)
           saved   == SaveLifetime(x, id)
           set     == [saved EXCEPT !.d.history = SetLifetime(@, id, appears, ends)]
           op == [op |-> "SetLifetime", id |-> id, appears |-> appears, ends |-> ends]
<1>1. y = x \/ y = Refusing(x) \/ y = Logging(set, op)
  BY DEF RecordLifetime
<1>2. op.op \notin Insertion
  BY DEF Insertion
<1> HIDE DEF appears, ends, op
<1>3. Silently(saved, x)
  BY UndoingWrites DEF SaveLifetime
<1> HIDE DEF saved
<1>4. Silently(set, saved)
  <2>1. set = [saved EXCEPT !.d.history = SetLifetime(saved.d.history, id, appears, ends)]
    BY Zenon
  <2> HIDE DEF set
  <2> QED BY <1>3, <2>1, HistoryWrites DEF Silently
<1> HIDE DEF set
<1>5. Spares(Logging(set, op), set)
  BY <1>2, <1>4, LoggingWrites, WritesSpares DEF Silently
<1>6. Spares(Logging(set, op), x)
  BY <1>3, <1>4, <1>5, SilentlySpares, SparesTrans
<1> QED BY <1>1, <1>6, SparesSelf, RefusingWrites, SilentlySpares

\* create_node, which inserts one node, of the id it hands out;
LEMMA CreateNodeSpares ==
  ASSUME NEW x, Shaped(x), NEW node, NEW y, y = JournalCreateNode(x, node), NEW next,
         HandedOut(x.d.graph.next.node, next), OpsTold(x.j.ops, next)
  PROVE  OpsTold(y.j.ops, next)
<1> DEFINE id     == x.d.graph.next.node
           fields == TemporalFields(x, node.labels, node.props)
           made   == [x EXCEPT !.d.graph = CreateNode(@, node)]
           stored == Undoing(made, [undo |-> "created", id |-> id])
           saved  == SaveHistory(stored, id)
           dated  == [saved EXCEPT !.d.history = RecordHistory(@, id, x.j.at, node.props, fields)]
           one == [op |-> "InsertNode", id |-> id, node |-> node]
           two == [op |-> "InsertNodeAt", id |-> id, node |-> node, at |-> x.j.at,
                   fields |-> fields]
<1>1. y = RecordLifetime(Logging(stored, one), id) \/ y = RecordLifetime(Logging(dated, two), id)
  BY DEF JournalCreateNode
<1>2. HandedOut(one.id, next) /\ HandedOut(two.id, next)
  OBVIOUS
<1> HIDE DEF fields, one, two
<1>3. Silently(made, x)
  <2>1. made = [x EXCEPT !.d.graph = CreateNode(x.d.graph, node)]
    BY Zenon
  <2> HIDE DEF made
  <2> QED BY <2>1, GraphWrites
<1> HIDE DEF made
<1>4. Silently(stored, made)
  BY <1>3, UndoingWrites DEF Silently
<1> HIDE DEF stored
<1>5. Silently(saved, stored)
  BY <1>4, UndoingWrites DEF SaveHistory, Silently
<1> HIDE DEF saved
<1>6. Silently(dated, saved)
  <2>1. dated = [saved EXCEPT !.d.history =
                   RecordHistory(saved.d.history, id, x.j.at, node.props, fields)]
    BY Zenon
  <2> HIDE DEF dated
  <2> QED BY <1>5, <2>1, HistoryWrites DEF Silently
<1> HIDE DEF dated
<1>7. OpsTold(stored.j.ops, next) /\ OpsTold(dated.j.ops, next)
  BY <1>3, <1>4, <1>5, <1>6 DEF Silently
<1>8. ASSUME NEW s, Shaped(s), OpsTold(s.j.ops, next), NEW op, HandedOut(op.id, next)
      PROVE  OpsTold(RecordLifetime(Logging(s, op), id).j.ops, next)
  <2>1. Writes(Logging(s, op), s, op)
    BY <1>8, LoggingWrites
  <2>2. OpsTold(Append(s.j.ops, op), next)
    BY <1>8, OneMoreTold
  <2>3. Spares(RecordLifetime(Logging(s, op), id), Logging(s, op))
    BY <2>1, LifetimeSpares DEF Writes
  <2> QED BY <2>1, <2>2, <2>3 DEF Writes, Spares
<1> QED BY <1>1, <1>2, <1>4, <1>6, <1>7, <1>8 DEF Silently

\* update_node;
LEMMA UpdateNodeSpares ==
  ASSUME NEW x, Shaped(x), NEW id, NEW props, NEW y, y = JournalUpdateNode(x, id, props)
  PROVE  Spares(y, x)
<1> DEFINE fields  == TemporalFields(x, x.d.graph.nodes[id].labels, props)
           history == RecordHistory(x.d.history, id, x.j.at, props, fields)
           current == CurrentProps(history, id, props, fields)
           op1     == [op |-> "UpdateNode", id |-> id, props |-> props]
           op2     == [op |-> "UpdateNodeAt", id |-> id, props |-> props, at |-> x.j.at,
                       fields |-> fields]
           noted1  == SaveNode(x, id)
           noted2  == SaveHistory(x, id)
           noted3  == SaveNode(noted2, id)
           plain   == Logging(noted1, op1)
           dated   == Logging(noted3, op2)
           one == [plain EXCEPT !.d.graph = UpdateNode(@, id, props)]
           two == [dated EXCEPT !.d.graph = UpdateNode(@, id, current), !.d.history = history]
<1>1. \/ y = Refusing(x) \/ y = x
      \/ y = RecordLifetime(one, id) \/ y = RecordLifetime(two, id)
  BY DEF JournalUpdateNode
<1>2. op1.op \notin Insertion /\ op2.op \notin Insertion
  BY DEF Insertion
<1> HIDE DEF fields, history, current, op1, op2
<1>3. Silently(noted1, x) /\ Silently(noted2, x)
  BY UndoingWrites DEF SaveNode, SaveHistory
<1> HIDE DEF noted1, noted2
<1>4. Silently(noted3, noted2)
  BY <1>3, UndoingWrites DEF SaveNode, Silently
<1> HIDE DEF noted3
<1>5. Writes(plain, noted1, op1) /\ Writes(dated, noted3, op2)
  BY <1>3, <1>4, LoggingWrites DEF Silently
<1> HIDE DEF plain, dated
<1>6. Silently(one, plain)
  <2>1. one = [plain EXCEPT !.d.graph = UpdateNode(plain.d.graph, id, props)]
    BY Zenon
  <2> HIDE DEF one
  <2> QED BY <1>5, <2>1, GraphWrites DEF Writes
<1>7. Silently(two, dated)
  <2> DEFINE g == UpdateNode(dated.d.graph, id, current)
             mid == [dated EXCEPT !.d.graph = g]
  <2>1. Shaped(dated)
    BY <1>5 DEF Writes
  <2>2. Silently(mid, dated)
    BY <2>1, GraphWrites
  <2>3. two = [dated EXCEPT !.d.graph = g, !.d.history = history]
    BY Zenon
  <2>4. two = [mid EXCEPT !.d.history = history]
    <3> HIDE DEF g, two
    <3> QED BY <2>3
  <2> HIDE DEF mid, two
  <2>5. Silently(two, mid)
    BY <2>2, <2>4, HistoryWrites DEF Silently
  <2> QED BY <2>2, <2>5 DEF Silently
<1> HIDE DEF one, two
<1>8. Spares(one, x)
  BY <1>2, <1>3, <1>5, <1>6, SilentlySpares, WritesSpares, SparesTrans
<1>9. Spares(two, x)
  <2>1. Spares(noted3, x)
    BY <1>3, <1>4, SilentlySpares, SparesTrans
  <2>2. Spares(two, noted3)
    BY <1>2, <1>5, <1>7, SilentlySpares, WritesSpares, SparesTrans
  <2> QED BY <2>1, <2>2, SparesTrans
<1>10. /\ Spares(RecordLifetime(one, id), one) /\ Spares(RecordLifetime(two, id), two)
  BY <1>6, <1>7, LifetimeSpares DEF Silently
<1>11. Spares(RecordLifetime(one, id), x) /\ Spares(RecordLifetime(two, id), x)
  BY <1>8, <1>9, <1>10, SparesTrans
<1> QED BY <1>1, <1>11, SparesSelf, RefusingWrites, SilentlySpares

\* create_relationship;
LEMMA CreateRelationshipSpares ==
  ASSUME NEW x, Shaped(x), NEW rel, NEW y, y = JournalCreateRelationship(x, rel)
  PROVE  Spares(y, x)
<1> DEFINE id     == x.d.graph.next.rel
           made   == [x EXCEPT !.d.graph = CreateRelationship(@, rel)]
           stored == Undoing(made, [undo |-> "created_rel", id |-> id])
           saved  == SaveEdgeHistory(stored, id)
           dated  == [saved EXCEPT !.d.history.rels = Put(@, id, Began(rel, x.j.at))]
           one == [op |-> "InsertRelAt", id |-> id, rel |-> rel, at |-> x.j.at]
           two == [op |-> "InsertRel", id |-> id, rel |-> rel]
<1>1. y = Logging(dated, one) \/ y = Logging(stored, two)
  BY DEF JournalCreateRelationship
<1>2. one.op \notin Insertion /\ two.op \notin Insertion
  BY DEF Insertion
<1> HIDE DEF one, two
<1>3. Silently(made, x)
  <2>1. made = [x EXCEPT !.d.graph = CreateRelationship(x.d.graph, rel)]
    BY Zenon
  <2> HIDE DEF made
  <2> QED BY <2>1, GraphWrites
<1> HIDE DEF made
<1>4. Silently(stored, made)
  BY <1>3, UndoingWrites DEF Silently
<1> HIDE DEF stored
<1>5. Silently(saved, stored)
  BY <1>4, UndoingWrites DEF SaveEdgeHistory, Silently
<1> HIDE DEF saved
<1>6. Silently(dated, saved)
  <2>1. dated = [saved EXCEPT !.d.history.rels =
                   Put(saved.d.history.rels, id, Began(rel, x.j.at))]
    BY Zenon
  <2> HIDE DEF dated
  <2> QED BY <1>5, <2>1, EdgesWrites DEF Silently
<1> HIDE DEF dated
<1>7. Spares(stored, x) /\ Spares(dated, stored)
  BY <1>3, <1>4, <1>5, <1>6, SilentlySpares, SparesTrans
<1>8. Spares(Logging(dated, one), dated) /\ Spares(Logging(stored, two), stored)
  BY <1>2, <1>4, <1>6, LoggingWrites, WritesSpares DEF Silently
<1> QED BY <1>1, <1>7, <1>8, SparesTrans

\* delete_relationship;
LEMMA DeleteRelationshipSpares ==
  ASSUME NEW x, Shaped(x), NEW id, NEW y, y = JournalDeleteRelationship(x, id)
  PROVE  Spares(y, x)
<1> DEFINE known  == Optional(x.d.graph.rels, id)
           past   == Optional(x.d.history.rels, id)
           rel    == IF known # {} THEN x.d.graph.rels[id] ELSE x.d.history.rels[id].rel
           saved  == SaveEdgeHistory(x, id)
           ended  == [saved EXCEPT !.d.history = Ended(@, id, rel, x.j.at)]
           one    == [op |-> "EndRelAt", id |-> id, rel |-> rel, at |-> x.j.at]
           two    == [op |-> "DeleteRel", id |-> id]
           logged == IF rel.kind \in x.j.schema.temporal_rels \/ past # {}
                     THEN Logging(ended, one) ELSE Logging(x, two)
           gone   == [logged EXCEPT !.d.graph = DeleteRelationship(@, id)]
           done   == Undoing(gone, [undo |-> "deleted_rel", id |-> id, rel |-> rel])
<1>1. y = Refusing(x) \/ y = x \/ y = gone \/ y = done
  BY DEF JournalDeleteRelationship
<1>2. one.op \notin Insertion /\ two.op \notin Insertion
  BY DEF Insertion
<1> HIDE DEF one, two, known, past, rel
<1>3. Silently(saved, x)
  BY UndoingWrites DEF SaveEdgeHistory
<1> HIDE DEF saved
<1>4. Silently(ended, saved)
  <2>1. ended = [saved EXCEPT !.d.history = Ended(saved.d.history, id, rel, x.j.at)]
    BY Zenon
  <2> HIDE DEF ended
  <2> QED BY <1>3, <2>1, HistoryWrites DEF Silently
<1> HIDE DEF ended
<1>5. Spares(Logging(ended, one), x) /\ Spares(Logging(x, two), x)
  <2>1. Spares(ended, x)
    BY <1>3, <1>4, SilentlySpares, SparesTrans
  <2>2. Spares(Logging(ended, one), ended) /\ Spares(Logging(x, two), x)
    BY <1>2, <1>4, LoggingWrites, WritesSpares DEF Silently
  <2> QED BY <2>1, <2>2, SparesTrans
<1>6. Spares(logged, x)
  BY <1>5
<1> HIDE DEF logged
<1>7. Silently(gone, logged)
  <2>1. gone = [logged EXCEPT !.d.graph = DeleteRelationship(logged.d.graph, id)]
    BY Zenon
  <2> HIDE DEF gone
  <2> QED BY <1>6, <2>1, GraphWrites DEF Spares
<1> HIDE DEF gone
<1>8. Silently(done, gone)
  BY <1>7, UndoingWrites DEF Silently
<1> HIDE DEF done
<1>9. Spares(gone, x) /\ Spares(done, x)
  BY <1>6, <1>7, <1>8, SilentlySpares, SparesTrans
<1> QED BY <1>1, <1>9, SparesSelf, RefusingWrites, SilentlySpares
\* and delete_node, whose two loops write what their passes write.
SpareInv(c, n, y) == Shaped(y) /\ Spares(y, c.x)
SparingCuts  == INSTANCE Loop WITH Op <- DropOp, P <- SpareInv
SparingSaves == INSTANCE Loop WITH Op <- SaveOp, P <- SpareInv

\* What the loop over the relationships writes.
LEMMA CutSpares ==
  ASSUME NEW x, Shaped(x), NEW ids, NEW last \in Nat, last = Max({0} \cup ids), NEW y,
         y = Each(JournalDeleteRelationship, x, ids)
  PROVE  Shaped(y) /\ Spares(y, x)
<1> DEFINE c == [x |-> x]
<1>1. y = SparingCuts!Run(c, x, ids, last)
  BY DEF Each, SparingCuts!Run, DropOp
<1>2. c.x = x
  OBVIOUS
<1> HIDE DEF c
<1>3. SpareInv(c, 0, x)
  BY <1>2, SparesSelf DEF SpareInv
<1>4. ASSUME NEW n \in 1 .. last, NEW z, SpareInv(c, n - 1, z)
      PROVE  SpareInv(c, n, IF n \in ids THEN DropOp(c, z, n) ELSE z)
  <2>1. Shaped(z) /\ Spares(z, c.x)
    BY <1>4 DEF SpareInv
  <2>2. PICK w : w = JournalDeleteRelationship(z, n)
    OBVIOUS
  <2>3. Spares(w, z)
    BY <2>1, <2>2, DeleteRelationshipSpares
  <2>4. SpareInv(c, n, w) /\ SpareInv(c, n, z)
    BY <2>1, <2>3, SparesTrans DEF SpareInv, Spares
  <2> QED BY <2>2, <2>4 DEF DropOp
<1>5. SpareInv(c, last, SparingCuts!Run(c, x, ids, last))
  BY <1>3, <1>4, SparingCuts!LoopKeeps
<1> QED BY <1>1, <1>2, <1>5 DEF SpareInv

\* What the loop over the histories of the edges writes: nothing.
LEMMA SavesSpare ==
  ASSUME NEW x, Shaped(x), NEW ids, NEW last \in Nat, last = Max({0} \cup ids), NEW y,
         y = Each(SaveEdgeHistory, x, ids)
  PROVE  Shaped(y) /\ Spares(y, x)
<1> DEFINE c == [x |-> x]
<1>1. y = SparingSaves!Run(c, x, ids, last)
  BY DEF Each, SparingSaves!Run, SaveOp
<1>2. c.x = x
  OBVIOUS
<1> HIDE DEF c
<1>3. SpareInv(c, 0, x)
  BY <1>2, SparesSelf DEF SpareInv
<1>4. ASSUME NEW n \in 1 .. last, NEW z, SpareInv(c, n - 1, z)
      PROVE  SpareInv(c, n, IF n \in ids THEN SaveOp(c, z, n) ELSE z)
  <2>1. Shaped(z) /\ Spares(z, c.x)
    BY <1>4 DEF SpareInv
  <2>2. PICK w : w = SaveEdgeHistory(z, n)
    OBVIOUS
  <2>3. Silently(w, z)
    BY <2>1, <2>2, UndoingWrites DEF SaveEdgeHistory
  <2>4. SpareInv(c, n, w) /\ SpareInv(c, n, z)
    BY <2>1, <2>3, SilentlySpares, SparesTrans DEF SpareInv, Silently
  <2> QED BY <2>2, <2>4 DEF SaveOp
<1>5. SpareInv(c, last, SparingSaves!Run(c, x, ids, last))
  BY <1>3, <1>4, SparingSaves!LoopKeeps
<1> QED BY <1>1, <1>2, <1>5 DEF SpareInv

\* delete_node.
LEMMA DeleteNodeSpares ==
  ASSUME NEW x, GoodX(x), NEW id,
         Grounded(x.d) => \A r \in NodeRelationships(x.d.graph, id) : ~Early(x, r),
         NEW y, y = JournalDeleteNode(x, id)
  PROVE  Spares(y, x)
<1> DEFINE cut     == Cut(x, id)
           noted   == SaveHistory(cut, id)
           saved   == SaveLifetime(noted, id)
           all     == Each(SaveEdgeHistory, saved, IncidentTo(cut.d.history, id))
           forgot  == [all EXCEPT !.d.history = Forget(@, id)]
           bare    == IF HasData(cut.d.history) THEN forgot ELSE cut
           last    == SaveNode(bare, id)
           gone    == [last EXCEPT !.d.graph = DeleteNode(@, id)]
           op      == [op |-> "DeleteNode", id |-> id]
<1>0. Shaped(x)
  BY GoodXIs DEF IsX, Shaped
<1>1. \/ y = Refusing(x) \/ y = x
      \/ id \notin DOMAIN x.d.mirrors /\ y = Logging(gone, op)
  BY DEF JournalDeleteNode, Cut
<1>2. CASE y = Refusing(x) \/ y = x
  BY <1>0, <1>2, SparesSelf, RefusingWrites, SilentlySpares
<1>3. CASE id \notin DOMAIN x.d.mirrors /\ y = Logging(gone, op)
  <2>1. Shaped(cut) /\ Spares(cut, x)
    <3> DEFINE ids == NodeRelationships(x.d.graph, id)
    <3>1. PICK top \in Nat : DOMAIN x.d.graph.rels \subseteq 1 .. top
      BY GoodXIs, GoodGraphIs
    <3>2. ids \in SUBSET (1 .. top)
      BY <3>1, GoodXIs, GoodGraphIs, NodeRelationshipsIs
    <3>4. cut = Each(JournalDeleteRelationship, x, ids)
      BY DEF Cut
    <3> HIDE DEF ids, cut
    <3>3. PICK top2 \in Nat : top2 = Max({0} \cup ids)
      BY <3>2, LastId
    <3> QED BY <1>0, <3>3, <3>4, CutSpares
  <2>2. GoodEdges(cut.d.history.rels)
    BY <1>3, EdgesDropped, KeptIs, GoodXIs DEF Cut
  <2> HIDE DEF cut
  <2>3. Silently(noted, cut)
    BY <2>1, UndoingWrites DEF SaveHistory
  <2> HIDE DEF noted
  <2>4. Silently(saved, noted)
    BY <2>3, UndoingWrites DEF SaveLifetime, Silently
  <2> HIDE DEF saved
  <2>5. Shaped(all) /\ Spares(all, saved)
    <3> DEFINE ids == IncidentTo(cut.d.history, id)
    <3>1. PICK top \in Nat : DOMAIN cut.d.history.rels \subseteq 1 .. top
      BY <2>2 DEF GoodEdges
    <3>2. ids \in SUBSET (1 .. top)
      BY <3>1 DEF IncidentTo
    <3>4. all = Each(SaveEdgeHistory, saved, ids)
      OBVIOUS
    <3> HIDE DEF ids, all
    <3>3. PICK top2 \in Nat : top2 = Max({0} \cup ids)
      BY <3>2, LastId
    <3> QED BY <2>4, <3>3, <3>4, SavesSpare DEF Silently
  <2> HIDE DEF all
  <2>6. Silently(forgot, all)
    <3>1. forgot = [all EXCEPT !.d.history = Forget(all.d.history, id)]
      BY Zenon
    <3> HIDE DEF forgot
    <3> QED BY <2>5, <3>1, HistoryWrites
  <2> HIDE DEF forgot
  <2>7. Spares(forgot, cut)
    BY <2>3, <2>4, <2>5, <2>6, SilentlySpares, SparesTrans
  <2>8. Shaped(bare) /\ Spares(bare, x)
    BY <2>1, <2>6, <2>7, SparesTrans DEF Silently
  <2> HIDE DEF bare
  <2>9. Silently(last, bare)
    BY <2>8, UndoingWrites DEF SaveNode
  <2> HIDE DEF last
  <2>10. Silently(gone, last)
    <3>1. gone = [last EXCEPT !.d.graph = DeleteNode(last.d.graph, id)]
      BY Zenon
    <3> HIDE DEF gone
    <3> QED BY <2>9, <3>1, GraphWrites DEF Silently
  <2>11. op.op \notin Insertion
    BY DEF Insertion
  <2> HIDE DEF gone, op
  <2>12. Spares(Logging(gone, op), gone)
    BY <2>10, <2>11, LoggingWrites, WritesSpares DEF Silently
  <2>13. Spares(gone, x)
    BY <2>8, <2>9, <2>10, SilentlySpares, SparesTrans
  <2> QED BY <1>3, <2>12, <2>13, SparesTrans
<1> QED BY <1>1, <1>2, <1>3

-----------------------------------------------------------------------------
(* The identities a commit publishes.                                      *)

\* An identity names a node that was handed out, by the key that finds it.
Finds(identities, external, next) ==
  \A id \in DOMAIN external :
    /\ HandedOut(id, next) /\ external[id] \in DOMAIN identities
    /\ identities[external[id]] = id
Named(d) == Finds(d.identities, d.external, d.graph.next.node)

\* What a commit may publish: one id by key, no key that names another id.
Distinct(keys, identities, next) ==
  /\ \A p \in keys : HandedOut(p[2], next)
  /\ \A p \in keys, q \in keys : p[1] = q[1] => p[2] = q[2]
  /\ \A p \in keys : p[1] \in DOMAIN identities => identities[p[1]] = p[2]

\* The key an id is published by, and the id a key names.
FoundBy(keys, k) == (CHOOSE pair \in keys : pair[1] = k)[2]
NameOf(keys, i)  == (CHOOSE pair \in keys : pair[2] = i)[1]
NewIds(keys)   == [k \in {pair[1] : pair \in keys} |-> FoundBy(keys, k)]
NewNames(keys) == [i \in {pair[2] : pair \in keys} |-> NameOf(keys, i)]

\* What the CHOOSEs of Publish choose.
LEMMA ChosenAre ==
  ASSUME NEW keys, NEW p \in keys
  PROVE  /\ \E q \in keys : q[1] = p[1] /\ FoundBy(keys, p[1]) = q[2]
         /\ \E q \in keys : q[2] = p[2] /\ NameOf(keys, p[2]) = q[1]
<1>1. PICK q : q = CHOOSE pair \in keys : pair[1] = p[1]
  OBVIOUS
<1>2. q \in keys /\ q[1] = p[1]
  BY <1>1
<1>3. PICK r : r = CHOOSE pair \in keys : pair[2] = p[2]
  OBVIOUS
<1>4. r \in keys /\ r[2] = p[2]
  BY <1>3
<1> QED BY <1>1, <1>2, <1>3, <1>4 DEF FoundBy, NameOf

\* What Over puts where.
LEMMA OverAre ==
  ASSUME NEW f, NEW g, NEW h, h = Over(f, g)
  PROVE  /\ \A k : k \in DOMAIN h <=> k \in DOMAIN f \/ k \in DOMAIN g
         /\ \A k : k \in DOMAIN g => h[k] = g[k]
         /\ \A k : k \in DOMAIN f /\ k \notin DOMAIN g => h[k] = f[k]
BY DEF Over

\* The keys that are published, each with an id of its own,
LEMMA NewIdsAre ==
  ASSUME NEW keys, NEW f, f = NewIds(keys)
  PROVE  /\ \A k : k \in DOMAIN f <=> \E p \in keys : p[1] = k
         /\ \A p \in keys : f[p[1]] = FoundBy(keys, p[1])
BY DEF NewIds

\* and the ids, each with a key.
LEMMA NewNamesAre ==
  ASSUME NEW keys, NEW f, f = NewNames(keys)
  PROVE  /\ \A i : i \in DOMAIN f <=> \E p \in keys : p[2] = i
         /\ \A p \in keys : f[p[2]] = NameOf(keys, p[2])
BY DEF NewNames

\* The names of before and those published find each their id.
LEMMA FindsMore ==
  ASSUME NEW ids, NEW names, NEW next, Finds(ids, names, next), NEW keys, Distinct(keys, ids, next),
         NEW more, more = Over(ids, NewIds(keys)), NEW known, known = Over(names, NewNames(keys))
  PROVE  Finds(more, known, next)
<1>1. PICK f : f = NewIds(keys)
  OBVIOUS
<1>2. PICK g : g = NewNames(keys)
  OBVIOUS
<1>3. more = Over(ids, f) /\ known = Over(names, g)
  BY <1>1, <1>2
<1>4. ASSUME NEW p \in keys PROVE p[1] \in DOMAIN more /\ more[p[1]] = p[2]
  <2>1. PICK q \in keys : q[1] = p[1] /\ FoundBy(keys, p[1]) = q[2]
    BY ChosenAre
  <2>2. p[1] \in DOMAIN f /\ f[p[1]] = FoundBy(keys, p[1])
    BY <1>1, NewIdsAre
  <2>3. FoundBy(keys, p[1]) = p[2]
    BY <2>1 DEF Distinct
  <2>4. p[1] \in DOMAIN more /\ more[p[1]] = f[p[1]]
    BY <1>3, <2>2, OverAre
  <2> QED BY <2>2, <2>3, <2>4
<1>5. ASSUME NEW id, id \in DOMAIN g
      PROVE  HandedOut(id, next) /\ known[id] \in DOMAIN more /\ more[known[id]] = id
  <2>1. PICK p \in keys : p[2] = id
    BY <1>2, <1>5, NewNamesAre
  <2>2. PICK q \in keys : q[2] = p[2] /\ NameOf(keys, p[2]) = q[1]
    BY ChosenAre
  <2>3. g[id] = q[1]
    BY <1>2, <2>1, <2>2, NewNamesAre
  <2>4. known[id] = q[1]
    BY <1>3, <1>5, <2>3, OverAre
  <2>5. q[1] \in DOMAIN more /\ more[q[1]] = q[2] /\ HandedOut(q[2], next)
    BY <1>4 DEF Distinct
  <2> QED BY <2>1, <2>2, <2>4, <2>5
<1>6. ASSUME NEW id, id \in DOMAIN names, id \notin DOMAIN g
      PROVE  HandedOut(id, next) /\ known[id] \in DOMAIN more /\ more[known[id]] = id
  <2>1. known[id] = names[id]
    BY <1>3, <1>6, OverAre
  <2>2. HandedOut(id, next) /\ names[id] \in DOMAIN ids /\ ids[names[id]] = id
    BY <1>6 DEF Finds
  <2>3. names[id] \notin DOMAIN f
    <3> SUFFICES ASSUME names[id] \in DOMAIN f PROVE FALSE
      OBVIOUS
    <3>1. PICK p \in keys : p[1] = names[id]
      BY <1>1, NewIdsAre
    <3>2. p[2] = id
      BY <2>2, <3>1 DEF Distinct
    <3>3. id \in DOMAIN g
      BY <1>2, <3>2, NewNamesAre
    <3> QED BY <1>6, <3>3
  <2>4. names[id] \in DOMAIN more /\ more[names[id]] = ids[names[id]]
    BY <1>3, <2>2, <2>3, OverAre
  <2> QED BY <2>1, <2>2, <2>4
<1>7. \A id : id \in DOMAIN known <=> id \in DOMAIN names \/ id \in DOMAIN g
  BY <1>3, OverAre
<1> QED BY <1>5, <1>6, <1>7 DEF Finds

\* The keys of a statement whose inserts clash with nothing.
LEMMA KeysDistinct ==
  ASSUME NEW d, NEW ops, NEW next, OpsTold(ops, next), ~Clashes(d, ops)
  PROVE  Distinct(Keys(d, ops), d.identities, next)
<1>1. \A i \in Inserts(ops) : HandedOut(ops[i].id, next)
  BY DEF OpsTold, Inserts, Insertion
<1>2. ASSUME NEW i \in Inserts(ops)
      PROVE  /\ ExternalId(d, ops[i]) \in DOMAIN d.identities =>
                  d.identities[ExternalId(d, ops[i])] = ops[i].id
             /\ \A k \in Inserts(ops) : ExternalId(d, ops[k]) = ExternalId(d, ops[i]) => k = i
  BY DEF Clashes
<1>3. ASSUME NEW p \in Keys(d, ops)
      PROVE  \E i \in Inserts(ops) : p[1] = ExternalId(d, ops[i]) /\ p[2] = ops[i].id
  <2>1. PICK i \in Inserts(ops) : p = <<ExternalId(d, ops[i]), ops[i].id>>
    BY DEF Keys
  <2> QED BY <2>1
<1>4. ASSUME NEW p \in Keys(d, ops), NEW q \in Keys(d, ops), p[1] = q[1] PROVE p[2] = q[2]
  <2>1. PICK i \in Inserts(ops) : p[1] = ExternalId(d, ops[i]) /\ p[2] = ops[i].id
    BY <1>3
  <2>2. PICK k \in Inserts(ops) : q[1] = ExternalId(d, ops[k]) /\ q[2] = ops[k].id
    BY <1>3
  <2>3. ExternalId(d, ops[k]) = ExternalId(d, ops[i])
    BY <1>4, <2>1, <2>2
  <2>4. k = i
    BY <1>2, <2>3, Zenon
  <2> QED BY <2>1, <2>2, <2>4
<1>5. ASSUME NEW p \in Keys(d, ops)
      PROVE  HandedOut(p[2], next) /\ (p[1] \in DOMAIN d.identities => d.identities[p[1]] = p[2])
  BY <1>1, <1>2, <1>3
<1> QED BY <1>4, <1>5 DEF Distinct

\* What a commit publishes.
LEMMA PublishNames ==
  ASSUME NEW d, IsDb(d), NEW op, NEW e, e = Publish(d, op)
  PROVE  /\ e.identities = Over(d.identities, NewIds(op.keys))
         /\ e.external = Over(d.external, NewNames(op.keys))
<1>1. PICK ids : ids = Over(d.identities, NewIds(op.keys))
  OBVIOUS
<1>2. PICK names : names = Over(d.external, NewNames(op.keys))
  OBVIOUS
<1>3. e = [d EXCEPT !.version = op.version, !.identities = ids, !.external = names]
  BY <1>1, <1>2, Zenon DEF Publish, NewIds, NewNames, FoundBy, NameOf
<1>4. e.identities = ids /\ e.external = names
  BY <1>3 DEF IsDb
<1> QED BY <1>1, <1>2, <1>4

\* record: every published identity finds its node.
LEMMA PublishKeepsNamed ==
  ASSUME NEW d, IsDb(d), Named(d), NEW ops, OpsTold(ops, d.graph.next.node), ~Clashes(d, ops),
         NEW e, e = Publish(d, Record(d, ops))
  PROVE  Named(e)
<1>1. PICK op : op = Record(d, ops)
  OBVIOUS
<1>2. op.keys = Keys(d, ops)
  BY <1>1 DEF Record
<1>3. PICK keys : keys = Keys(d, ops)
  OBVIOUS
<1>4. e = Publish(d, op)
  BY <1>1
<1>5. e.graph = d.graph
  BY <1>4, PublishIs
<1>6. e.identities = Over(d.identities, NewIds(keys)) /\ e.external
      = Over(d.external, NewNames(keys))
  BY <1>2, <1>3, <1>4, PublishNames
<1>7. Distinct(keys, d.identities, d.graph.next.node)
  BY <1>3, KeysDistinct
<1>8. Finds(d.identities, d.external, d.graph.next.node)
  BY DEF Named
<1>9. Finds(e.identities, e.external, d.graph.next.node)
  BY <1>6, <1>7, <1>8, FindsMore
<1> QED BY <1>5, <1>9 DEF Named

-----------------------------------------------------------------------------
(* The invariant of the histories and identities.                           *)

\* Of an open statement: what it inserted was handed out, and a statement that
\* may write fields runs under one of the schemas.
TruthOpen ==
  /\ OpsTold(journal.ops, db.graph.next.node)
  /\ ~journal.api => journal.schema \in Schemas

TruthInv ==
  /\ Told(db) /\ Told(before) /\ Named(db) /\ Named(before)
  /\ journal.open => TruthOpen

\* An id that was handed out stays so.
LEMMA HandedOutStill ==
  ASSUME NEW n \in Nat, NEW m \in Nat, n <= m
  PROVE  /\ \A ops : OpsTold(ops, n) => OpsTold(ops, m)
         /\ \A ids, names : Finds(ids, names, n) => Finds(ids, names, m)
<1>1. \A id : HandedOut(id, n) => HandedOut(id, m)
  BY DEF HandedOut
<1> QED BY <1>1 DEF OpsTold, Finds

\* Counting a call writes no operation.
LEMMA CountedOps ==
  ASSUME NEW j, IsJournal(j), NEW v, NEW k, k = [j EXCEPT !.calls = v]
  PROVE  k.ops = j.ops /\ k.api = j.api /\ k.schema = j.schema
BY DEF IsJournal

\* A call that keeps what is told keeps the invariant.
LEMMA CallTells ==
  ASSUME JournalInv, TruthInv, NEW y, Calls(y), Kept(y, Now), Retold(y, Now),
         OpsTold(y.j.ops, y.d.graph.next.node)
  PROVE  TruthInv'
<1>1. /\ journal.open /\ db' = y.d /\ before' = before
      /\ journal' = [y.j EXCEPT !.calls = @ + 1]
  BY DEF Calls
<1>2. Now.d = db /\ Now.j = journal /\ GoodX(Now)
  BY <1>1, NowGood
<1>3. GoodX(y) /\ SameRest(y, Now)
  BY DEF Kept
<1>4. IsJournal(y.j)
  BY <1>3, GoodXIs DEF IsX
<1>5. PICK v : v = y.j.calls + 1
  OBVIOUS
<1>6. journal' = [y.j EXCEPT !.calls = v]
  BY <1>1, <1>5, Zenon
<1>7. journal'.ops = y.j.ops /\ journal'.api = journal.api /\ journal'.schema = journal.schema
  <2>1. journal'.ops = y.j.ops /\ journal'.api = y.j.api /\ journal'.schema = y.j.schema
    BY <1>4, <1>6, CountedOps
  <2> QED BY <1>2, <1>3, <2>1 DEF SameRest
<1>8. Told(y.d) /\ db.graph.next.node <= y.d.graph.next.node
  BY <1>2 DEF Retold
<1>9. db.graph.next.node \in Nat /\ y.d.graph.next.node \in Nat
  BY <1>2, <1>3, GoodXIs, GoodGraphIs
<1>10. y.d.identities = db.identities /\ y.d.external = db.external
  BY <1>2, <1>3 DEF SameRest
<1>11. Named(y.d)
  BY <1>8, <1>9, <1>10, HandedOutStill DEF TruthInv, Named
<1>12. TruthOpen'
  BY <1>1, <1>7 DEF TruthInv, TruthOpen
<1> QED BY <1>1, <1>8, <1>11, <1>12 DEF TruthInv

\* One that spares the ids handed out needs nothing more.
LEMMA SparingTells ==
  ASSUME JournalInv, TruthInv, NEW y, Calls(y), Kept(y, Now), Retold(y, Now), Spares(y, Now)
  PROVE  TruthInv'
<1>1. journal.open
  BY DEF Calls
<1>2. Now.d = db /\ Now.j = journal /\ GoodX(Now) /\ GoodX(y)
  BY <1>1, NowGood DEF Kept
<1>3. db.graph.next.node \in Nat /\ y.d.graph.next.node \in Nat
      /\ db.graph.next.node <= y.d.graph.next.node
  BY <1>2, GoodXIs, GoodGraphIs DEF Retold
<1>4. OpsTold(journal.ops, y.d.graph.next.node)
  BY <1>1, <1>3, HandedOutStill DEF TruthInv, TruthOpen
<1>5. OpsTold(y.j.ops, y.d.graph.next.node)
  BY <1>2, <1>4 DEF Spares
<1> QED BY <1>5, CallTells

\* What an open statement finds.
LEMMA NowTold ==
  ASSUME JournalInv, TruthInv, ~EarlyDeletes, journal.open
  PROVE  /\ GoodX(Now) /\ Shaped(Now) /\ Now.d = db /\ Now.j = journal
         /\ Grounded(Now.d) /\ Told(Now.d) /\ OpsTold(Now.j.ops, db.graph.next.node)
         /\ db.graph.next.node \in Nat
<1>1. GoodX(Now) /\ Now.d = db /\ Now.j = journal
  BY NowGood
<1>2. Shaped(Now)
  BY <1>1, GoodXIs DEF IsX, Shaped
<1>3. Grounded(db) /\ Told(db) /\ OpsTold(journal.ops, db.graph.next.node)
  BY DEF JournalInv, TruthInv, TruthOpen
<1>4. db.graph.next.node \in Nat
  BY <1>1, GoodXIs, GoodGraphIs
<1> QED BY <1>1, <1>2, <1>3, <1>4

\* insert_node: what it inserts was handed out.
LEMMA InsertTells ==
  ASSUME JournalInv, TruthInv, ~EarlyDeletes, NEW node \in NodeInputs, Insert(node)
  PROVE  TruthInv'
<1>1. PICK y : y = JournalCreateNode(Now, node)
  OBVIOUS
<1>2. Calls(y) /\ journal.open
  BY <1>1 DEF Insert
<1>3. GoodNode(node)
  BY InputsGood
<1>4. Kept(y, Now)
  BY <1>1, <1>2, <1>3, NowTold, JournalCreateNodeKept
<1>5. Retold(y, Now) /\ db.graph.next.node < y.d.graph.next.node
  BY <1>1, <1>2, <1>3, NowTold, CreateNodeTold
<1>6. y.d.graph.next.node \in Nat
  BY <1>4, GoodXIs, GoodGraphIs DEF Kept
<1>7. OpsTold(Now.j.ops, y.d.graph.next.node)
  BY <1>2, <1>5, <1>6, NowTold, HandedOutStill
<1>8. HandedOut(Now.d.graph.next.node, y.d.graph.next.node)
  BY <1>2, <1>5, NowTold DEF HandedOut
<1>9. OpsTold(y.j.ops, y.d.graph.next.node)
  BY <1>1, <1>2, <1>7, <1>8, NowTold, CreateNodeSpares
<1> QED BY <1>2, <1>4, <1>5, <1>9, CallTells

\* A set.
LEMMA SetTells ==
  ASSUME JournalInv, TruthInv, ~EarlyDeletes, NEW id, NEW props \in PropInputs, Set(id, props)
  PROVE  TruthInv'
<1>1. PICK y : y = JournalUpdateNode(Now, id, props)
  OBVIOUS
<1>2. Calls(y) /\ journal.open /\ ~journal.api
  BY <1>1 DEF Set
<1>3. GoodProps(props)
  BY InputsGood
<1>4. Now.j.schema \in Schemas
  BY <1>2, NowTold DEF TruthInv, TruthOpen
<1>5. Kept(y, Now)
  BY <1>1, <1>2, <1>3, NowTold, JournalUpdateNodeKept
<1>6. Retold(y, Now)
  BY <1>1, <1>2, <1>3, <1>4, NowTold, UpdateNodeTold
<1>7. Spares(y, Now)
  BY <1>1, <1>2, NowTold, UpdateNodeSpares
<1> QED BY <1>2, <1>5, <1>6, <1>7, SparingTells

\* connect.
LEMMA ConnectTells ==
  ASSUME JournalInv, TruthInv, ~EarlyDeletes, NEW parent, NEW child, NEW kind, NEW direction,
         Connect(parent, child, kind, direction)
  PROVE  TruthInv'
<1> DEFINE from == IF direction = "out" THEN parent ELSE child
           to   == IF direction = "out" THEN child ELSE parent
           rel  == [kind |-> kind, from |-> from, to |-> to]
<1>1. PICK y : y = JournalCreateRelationship(Now, rel)
  OBVIOUS
<1>2. /\ Calls(y) /\ journal.open /\ parent \in DOMAIN db.graph.nodes
      /\ child \in DOMAIN db.graph.nodes
  BY <1>1 DEF Connect
<1>3. rel.from \in DOMAIN Now.d.graph.nodes /\ rel.to \in DOMAIN Now.d.graph.nodes
  BY <1>2, NowTold
<1> HIDE DEF rel
<1>4. Kept(y, Now)
  BY <1>1, <1>2, <1>3, NowTold, JournalCreateRelationshipKept
<1>5. Retold(y, Now)
  BY <1>1, <1>2, <1>3, NowTold, CreateRelationshipTold
<1>6. Spares(y, Now)
  BY <1>1, <1>2, NowTold, CreateRelationshipSpares
<1> QED BY <1>2, <1>4, <1>5, <1>6, SparingTells

\* Deleting a relationship.
LEMMA DisconnectTells ==
  ASSUME JournalInv, TruthInv, ~EarlyDeletes, NEW id, Disconnect(id) PROVE TruthInv'
<1>1. PICK y : y = JournalDeleteRelationship(Now, id)
  OBVIOUS
<1>2. Calls(y) /\ journal.open
  BY <1>1 DEF Disconnect
<1>3. Kept(y, Now)
  BY <1>1, <1>2, NowTold, JournalDeleteRelationshipKept
<1>4. Retold(y, Now)
  BY <1>1, <1>2, NowTold, DeleteRelationshipTold
<1>5. Spares(y, Now)
  BY <1>1, <1>2, NowTold, DeleteRelationshipSpares
<1> QED BY <1>2, <1>3, <1>4, <1>5, SparingTells

\* Deleting a node, none of whose edges is yet to begin.
LEMMA DeleteTells ==
  ASSUME JournalInv, TruthInv, ~EarlyDeletes, NEW id, Delete(id) PROVE TruthInv'
<1>1. PICK y : y = JournalDeleteNode(Now, id)
  OBVIOUS
<1>2. /\ Calls(y) /\ journal.open
      /\ ~ \E r \in NodeRelationships(db.graph, id) \cap DOMAIN db.history.rels :
             journal.at < db.history.rels[r].from
  BY <1>1 DEF Delete
<1>3. \A r \in NodeRelationships(Now.d.graph, id) : ~Early(Now, r)
  BY <1>2, NowTold DEF Early
<1>4. Kept(y, Now)
  BY <1>1, <1>2, <1>3, NowTold, JournalDeleteNodeKept
<1>5. Retold(y, Now)
  BY <1>1, <1>2, <1>3, NowTold, DeleteNodeTold
<1>6. Spares(y, Now)
  BY <1>1, <1>2, <1>3, NowTold, DeleteNodeSpares
<1> QED BY <1>2, <1>4, <1>5, <1>6, SparingTells

-----------------------------------------------------------------------------
\* A statement begins with what is there, and with no operation.
LEMMA StartTells ==
  ASSUME TruthInv, NEW d, Told(d), Named(d), db' = d, before' = d,
         NEW schema, NEW at, NEW api, ~api => schema \in Schemas,
         journal' = NewJournal(d, schema, at, api)
  PROVE  TruthInv'
<1>1. journal'.ops = <<>> /\ journal'.api = api /\ journal'.schema = schema
  BY DEF NewJournal
<1>2. OpsTold(<<>>, d.graph.next.node)
  <2>1. <<>> \in Seq({}) /\ DOMAIN <<>> = {}
    OBVIOUS
  <2> QED BY <2>1 DEF OpsTold, IsSeq
<1>3. TruthOpen'
  BY <1>1, <1>2 DEF TruthOpen
<1> QED BY <1>3 DEF TruthInv

\* execute begins with the indexes of its schema.
LEMMA BeginTells ==
  ASSUME JournalInv, TruthInv, NEW schema \in Schemas, NEW at \in Times, Begin(schema, at)
  PROVE  TruthInv'
<1> DEFINE g == db.graph
           new == SyncUniques(SyncIndexes(g, schema.ranges), schema.uniques)
           d == [db EXCEPT !.graph = new]
<1>1. db' = d /\ before' = d /\ journal' = NewJournal(d, schema, at, FALSE)
  BY DEF Begin
<1>2. IsDb(db) /\ GoodGraph(g)
  BY DEF JournalInv, GoodDb
<1>3. \A slot \in schema.ranges : slot = <<slot[1], slot[2]>>
  BY SchemasAssumption
<1>4. new.nodes = g.nodes /\ new.rels = g.rels /\ new.next = g.next
  BY <1>2, <1>3, SyncedIs
<1> HIDE DEF new
<1>5. SameNames(d, db) /\ d.graph = new /\ d.history = db.history
  BY <1>2, DbGraph
<1> HIDE DEF d
<1>6. Told(d)
  BY <1>4, <1>5, ToldSame DEF TruthInv
<1>7. Named(d)
  BY <1>4, <1>5 DEF TruthInv, Named, SameNames
<1> QED BY <1>1, <1>6, <1>7, StartTells

\* delete_node and delete_relationship begin with what is there.
LEMMA BeginCallTells ==
  ASSUME JournalInv, TruthInv, NEW now \in Times, BeginCall(now) PROVE TruthInv'
<1>1. db' = db /\ before' = db /\ journal' = NewJournal(db, NoSchema, now, TRUE)
  BY DEF BeginCall
<1> QED BY <1>1, StartTells DEF TruthInv

\* roll_back leaves the histories and the identities the statement found.
LEMMA FailTells == ASSUME JournalInv, TruthInv, ~EarlyDeletes, Fail PROVE TruthInv'
<1> DEFINE d == RollBack(db, journal)
<1>1. journal.open /\ db' = d /\ journal' = NoJournal /\ before' = before
  BY DEF Fail
<1>2. SameNames(d, before) /\ d.graph.next = before.graph.next /\ FactsOf(d) = FactsOf(before)
  BY <1>1, RolledBack
<1> HIDE DEF d
<1>3. d.graph.nodes = before.graph.nodes /\ d.graph.rels = before.graph.rels
      /\ d.history = before.history
  BY <1>2, FactsOfAre
<1>4. Told(d) /\ Named(d)
  BY <1>2, <1>3, ToldSame DEF TruthInv, Named, SameNames
<1>5. ~journal'.open
  BY <1>1 DEF NoJournal
<1> QED BY <1>1, <1>4, <1>5 DEF TruthInv

\* A commit publishes identities of nodes that were handed out.
LEMMA AcceptedTells == ASSUME JournalInv, TruthInv, Accepted PROVE TruthInv'
<1>1. PICK e : e = Publish(db, Record(db, journal.ops))
  OBVIOUS
<1>2. /\ db' = e /\ before' = before /\ journal' = NoJournal /\ journal.open
      /\ ~Clashes(db, journal.ops)
  BY <1>1 DEF Accepted
<1>3. IsDb(db) /\ OpsTold(journal.ops, db.graph.next.node)
  BY <1>2 DEF JournalInv, GoodDb, TruthInv, TruthOpen
<1>4. Named(e)
  BY <1>1, <1>2, <1>3, PublishKeepsNamed DEF TruthInv
<1>5. e.graph = db.graph /\ e.history = db.history
  BY <1>1, <1>3, PublishIs
<1>6. Told(e)
  BY <1>5, ToldSame DEF TruthInv
<1>7. ~journal'.open
  BY <1>2 DEF NoJournal
<1> QED BY <1>2, <1>4, <1>6, <1>7 DEF TruthInv

\* A statement that wrote nothing publishes nothing.
LEMMA ReadOnlyTells == ASSUME TruthInv, ReadOnly PROVE TruthInv'
<1>1. db' = db /\ before' = before /\ ~journal'.open
  BY DEF ReadOnly, NoJournal
<1> QED BY <1>1 DEF TruthInv

\* The first database has no history and no identity.
LEMMA NothingTold ==
  ASSUME NEW d, d.history = NoHistories, d.external = <<>>
  PROVE  Told(d) /\ Named(d)
<1>1. /\ NoHistories.fields = <<>> /\ NoHistories.rels = <<>>
      /\ NoHistories.appears = <<>> /\ NoHistories.ends = <<>>
  BY DEF NoHistories
<1>2. DOMAIN <<>> = {}
  BY EmptyFcn
<1> QED BY <1>1, <1>2 DEF Told, FieldsTold, LivesTold, EdgesTold, Named, Finds

\* Neither has an empty database, nor one that a link has left.
LEMMA FirstTold == Told(Empty) /\ Named(Empty) /\ Told(WithMirror) /\ Named(WithMirror)
<1>1. Empty.history = NoHistories /\ Empty.external = <<>> /\ IsDb(Empty)
  BY DEF Empty, IsDb
<1>2. PICK graph, mirrors : WithMirror = [Empty EXCEPT !.graph = graph, !.mirrors = mirrors]
  BY DEF WithMirror
<1>3. WithMirror.history = Empty.history /\ WithMirror.external = Empty.external
  <2> HIDE DEF Empty
  <2> QED BY <1>1, <1>2 DEF IsDb
<1> QED BY <1>1, <1>3, NothingTold

\* The inductive invariant: that of the undo list, and what is told.
HistoryInv == JournalInv /\ (~EarlyDeletes => TruthInv)

\* A first statement finds a database the invariant holds for.
LEMMA InitTells == ASSUME Init PROVE HistoryInv
<1>1. ~journal.open
  BY DEF Init, NoJournal
<1>2. Told(db) /\ Named(db) /\ before = db
  BY FirstTold DEF Init
<1> QED BY <1>1, <1>2, InitKeeps DEF HistoryInv, TruthInv

\* Every step keeps the invariant.
LEMMA NextTells == ASSUME HistoryInv, [Next]_vars PROVE HistoryInv'
<1>1. JournalInv'
  BY NextKeeps DEF HistoryInv
<1>2. ASSUME ~EarlyDeletes PROVE TruthInv'
  <2>1. JournalInv /\ TruthInv
    BY <1>2 DEF HistoryInv
  <2>2. CASE UNCHANGED vars
    BY <2>1, <2>2 DEF TruthInv, TruthOpen, vars
  <2>3. CASE Next
    BY <1>2, <2>1, <2>3, BeginTells, BeginCallTells, InsertTells, SetTells, ConnectTells,
       DisconnectTells, DeleteTells, FailTells, AcceptedTells, ReadOnlyTells DEF Next
  <2> QED BY <2>2, <2>3
<1> QED BY <1>1, <1>2 DEF HistoryInv

\* The invariant holds: histories are of live nodes and edges, in time order and
\* up to date, and every published identity finds the node it was given to.
THEOREM HistoryInvariant == Spec => []HistoryInv
<1>1. Init => HistoryInv
  BY InitTells
<1>2. HistoryInv /\ [Next]_vars => HistoryInv'
  BY NextTells
<1> QED BY <1>1, <1>2, PTL DEF Spec

\* A grounded, told and named database has nothing left over.
LEMMA NoneLeft == ASSUME Grounded(db), Told(db), Named(db) PROVE NoLeftovers
<1> DEFINE live == DOMAIN db.graph.nodes
<1>1. \A id \in live : id < db.graph.next.node
  BY DEF Grounded
<1>2. \A r \in DOMAIN db.graph.rels :
        /\ r < db.graph.next.rel
        /\ db.graph.rels[r].from \in live /\ db.graph.rels[r].to \in live
  BY DEF Grounded
<1>3. {key[1] : key \in DOMAIN db.history.fields} \subseteq live
  BY DEF Told, FieldsTold
<1>4. DOMAIN db.history.appears \cup DOMAIN db.history.ends \subseteq live
  BY DEF Told, LivesTold
<1>5. \A r \in DOMAIN db.history.rels :
        /\ r < db.graph.next.rel
        /\ db.history.rels[r].rel.from \in live /\ db.history.rels[r].rel.to \in live
  BY DEF Told, EdgesTold, EdgeTold
<1>6. \A id \in DOMAIN db.external :
        id < db.graph.next.node /\ db.identities[db.external[id]] = id
  BY DEF Named, Finds, HandedOut
<1> QED BY <1>1, <1>2, <1>3, <1>4, <1>5, <1>6, Zenon DEF NoLeftovers

\* And its current values and live edges are those of the last changes.
LEMMA LastTold == ASSUME Told(db) PROVE CurrentIsLastChange
BY DEF Told, FieldsTold, EdgesTold, EdgeTold, CurrentIsLastChange, AlwaysDated, Dates

\* An id that was handed out and taken back, or that was deleted, names nothing
\* left over (journal.rs, linked.rs): no history, edge or identity, after any
\* number of statements that failed and of deletions, if no node is deleted
\* before one of its edges began.
THEOREM NothingLeftOver == ~EarlyDeletes => (Spec => []NoLeftovers)
<1> SUFFICES ASSUME ~EarlyDeletes PROVE Spec => []NoLeftovers
  OBVIOUS
<1>1. HistoryInv => NoLeftovers
  BY NoneLeft DEF HistoryInv, JournalInv, TruthInv
<1> QED BY <1>1, HistoryInvariant, PTL

\* Every field's history is in time order, however its changes were backdated
\* (history.rs), a field that every schema dates stores the value of its last
\* change, and a live edge that has a history has not ended, in the middle of
\* any statement and after one was rolled back.
THEOREM CurrentIsLast == ~EarlyDeletes => (Spec => []CurrentIsLastChange)
<1> SUFFICES ASSUME ~EarlyDeletes PROVE Spec => []CurrentIsLastChange
  OBVIOUS
<1>1. HistoryInv => CurrentIsLastChange
  BY LastTold DEF HistoryInv, TruthInv
<1> QED BY <1>1, HistoryInvariant, PTL

-----------------------------------------------------------------------------
(* The log: what replay makes of a statement's operations.                  *)

\* Replay of operations, one by one, leads from d to e.
Runs(f, d, ops, e) ==
  /\ f[0] = d /\ f[Len(ops)] = e
  /\ \A i \in 1 .. Len(ops) : f[i] = Apply(f[i - 1], ops[i])
Played(d, ops, e) == \E f : Runs(f, d, ops, e)

\* No operation leads nowhere else.
LEMMA PlayedNone == ASSUME NEW d PROVE Played(d, <<>>, d) /\ IsSeq(<<>>)
<1> DEFINE f == [i \in 0 .. 0 |-> d]
<1>1. f[0] = d
  OBVIOUS
<1> HIDE DEF f
<1>2. Len(<<>>) = 0 /\ 1 .. 0 = {} /\ <<>> \in Seq({})
  OBVIOUS
<1>3. Runs(f, d, <<>>, d)
  BY <1>1, <1>2 DEF Runs
<1> QED BY <1>2, <1>3 DEF Played, IsSeq

\* One more operation leads one step further.
LEMMA PlayedGrows ==
  ASSUME NEW ops, IsSeq(ops), NEW d, NEW e, Played(d, ops, e), NEW op, NEW new,
         new = Apply(e, op), NEW more, more = Append(ops, op)
  PROVE  Played(d, more, new) /\ IsSeq(more)
<1>0. PICK last : last = Len(ops)
  OBVIOUS
<1>1. PICK f : Runs(f, d, ops, e)
  BY DEF Played
<1>2. /\ IsSeq(more) /\ last \in Nat /\ Len(more) = last + 1 /\ more[last + 1] = op
      /\ \A i \in 1 .. last : more[i] = ops[i]
  BY <1>0, SeqGrows
<1>3. f[0] = d /\ f[last] = e /\ \A i \in 1 .. last : f[i] = Apply(f[i - 1], ops[i])
  BY <1>0, <1>1 DEF Runs
<1> DEFINE g == [i \in 0 .. last + 1 |-> IF i <= last THEN f[i] ELSE new]
<1>4. g[last + 1] = new /\ \A i \in 0 .. last : g[i] = f[i]
  BY <1>2
<1> HIDE DEF g
<1>5. ASSUME NEW i \in 1 .. last + 1 PROVE g[i] = Apply(g[i - 1], more[i])
  <2>1. CASE i \in 1 .. last
    <3>1. g[i] = f[i] /\ g[i - 1] = f[i - 1] /\ more[i] = ops[i]
      BY <1>2, <1>4, <2>1
    <3> QED BY <1>3, <2>1, <3>1
  <2>2. CASE i = last + 1
    <3>1. g[i] = new /\ g[i - 1] = e /\ more[i] = op
      BY <1>2, <1>3, <1>4, <2>2
    <3> QED BY <3>1
  <2> QED BY <1>2, <2>1, <2>2
<1>6. g[0] = d
  BY <1>2, <1>3, <1>4
<1>7. Runs(g, d, more, new)
  BY <1>2, <1>4, <1>5, <1>6 DEF Runs
<1> QED BY <1>2, <1>7 DEF Played

\* The passes of apply over a statement's operations, and what holds after each.
ApplyOp(c, y, n)  == Apply(y, c.ops[n])
ApplyInv(c, n, y) == y = c.f[n]
Applies == INSTANCE Loop WITH Op <- ApplyOp, P <- ApplyInv

\* The last pass over a sequence is its length.
LEMMA LastOf ==
  ASSUME NEW s, IsSeq(s)
  PROVE  Len(s) \in Nat /\ DOMAIN s = 1 .. Len(s) /\ Max({0} \cup DOMAIN s) = Len(s)
<1>1. PICK len : len = Len(s)
  OBVIOUS
<1>2. PICK ids : ids = DOMAIN s
  OBVIOUS
<1>3. len \in Nat /\ ids = 1 .. len
  BY <1>1, <1>2, SeqGrows
<1>4. PICK last : last = Max({0} \cup ids)
  OBVIOUS
<1>5. last \in Nat /\ (\A n \in ids : n \in 1 .. last) /\ last \in {0} \cup ids
  BY <1>3, <1>4, LastId
<1>6. last = len
  BY <1>3, <1>5
<1> QED BY <1>1, <1>2, <1>3, <1>4, <1>6

\* The loop of a statement's operations leads where they lead.
LEMMA PlayedIs ==
  ASSUME NEW ops, IsSeq(ops), NEW d, NEW e, Played(d, ops, e)
  PROVE  ApplyAll(d, ops) = e
<1>1. PICK f : Runs(f, d, ops, e)
  BY DEF Played
<1>2. PICK last : last = Len(ops)
  OBVIOUS
<1>3. PICK ids : ids = DOMAIN ops
  OBVIOUS
<1>4. last \in Nat /\ ids = 1 .. last /\ Max({0} \cup ids) = last
  BY <1>2, <1>3, LastOf
<1>5. f[0] = d /\ f[last] = e /\ \A i \in 1 .. last : f[i] = Apply(f[i - 1], ops[i])
  BY <1>1, <1>2 DEF Runs
<1> DEFINE c == [ops |-> ops, f |-> f]
<1>6. ApplyAll(d, ops) = Applies!Run(c, d, DOMAIN ops, Max({0} \cup DOMAIN ops))
  BY DEF ApplyAll, Each, Applies!Run, ApplyOp
<1>7. c.ops = ops /\ c.f = f
  OBVIOUS
<1> HIDE DEF c
<1>8. ApplyInv(c, 0, d)
  BY <1>5, <1>7 DEF ApplyInv
<1>9. ASSUME NEW n \in 1 .. last, NEW y, ApplyInv(c, n - 1, y)
      PROVE  ApplyInv(c, n, IF n \in ids THEN ApplyOp(c, y, n) ELSE y)
  <2>1. y = f[n - 1] /\ n \in ids
    BY <1>4, <1>7, <1>9 DEF ApplyInv
  <2>2. f[n] = Apply(y, ops[n])
    BY <1>5, <2>1
  <2> QED BY <1>7, <2>1, <2>2 DEF ApplyInv, ApplyOp
<1>10. ApplyInv(c, last, Applies!Run(c, d, ids, last))
  BY <1>4, <1>8, <1>9, Applies!LoopKeeps
<1>11. Applies!Run(c, d, ids, last) = e
  BY <1>5, <1>7, <1>10 DEF ApplyInv
<1> QED BY <1>3, <1>4, <1>6, <1>11

\* Replay of a log, entry by entry, leads from d to e.
Reads(f, d, entries, e) ==
  /\ f[0] = d /\ f[Len(entries)] = e
  /\ \A i \in 1 .. Len(entries) : f[i] = ApplyAll(f[i - 1], entries[i])
Logged(d, entries, e) == IsSeq(entries) /\ \E f : Reads(f, d, entries, e)

\* No entry leads nowhere else.
LEMMA LoggedNone == ASSUME NEW d PROVE Logged(d, <<>>, d)
<1> DEFINE f == [i \in 0 .. 0 |-> d]
<1>1. f[0] = d
  OBVIOUS
<1> HIDE DEF f
<1>2. Len(<<>>) = 0 /\ 1 .. 0 = {} /\ <<>> \in Seq({})
  OBVIOUS
<1>3. Reads(f, d, <<>>, d)
  BY <1>1, <1>2 DEF Reads
<1> QED BY <1>2, <1>3 DEF Logged, IsSeq

\* One more entry leads one step further.
LEMMA LoggedGrows ==
  ASSUME NEW entries, NEW d, NEW e, Logged(d, entries, e), NEW ops, NEW new,
         new = ApplyAll(e, ops), NEW more, more = Append(entries, ops)
  PROVE  Logged(d, more, new)
<1>0. PICK last : last = Len(entries)
  OBVIOUS
<1>1. PICK f : Reads(f, d, entries, e)
  BY DEF Logged
<1>2. /\ IsSeq(more) /\ last \in Nat /\ Len(more) = last + 1 /\ more[last + 1] = ops
      /\ \A i \in 1 .. last : more[i] = entries[i]
  BY <1>0, SeqGrows DEF Logged
<1>3. f[0] = d /\ f[last] = e /\ \A i \in 1 .. last : f[i] = ApplyAll(f[i - 1], entries[i])
  BY <1>0, <1>1 DEF Reads
<1> DEFINE g == [i \in 0 .. last + 1 |-> IF i <= last THEN f[i] ELSE new]
<1>4. g[last + 1] = new /\ \A i \in 0 .. last : g[i] = f[i]
  BY <1>2
<1> HIDE DEF g
<1>5. ASSUME NEW i \in 1 .. last + 1 PROVE g[i] = ApplyAll(g[i - 1], more[i])
  <2>1. CASE i \in 1 .. last
    <3>1. g[i] = f[i] /\ g[i - 1] = f[i - 1] /\ more[i] = entries[i]
      BY <1>2, <1>4, <2>1
    <3> QED BY <1>3, <2>1, <3>1
  <2>2. CASE i = last + 1
    <3>1. g[i] = new /\ g[i - 1] = e /\ more[i] = ops
      BY <1>2, <1>3, <1>4, <2>2
    <3> QED BY <3>1
  <2> QED BY <1>2, <2>1, <2>2
<1>6. g[0] = d
  BY <1>2, <1>3, <1>4
<1>7. Reads(g, d, more, new)
  BY <1>2, <1>4, <1>5, <1>6 DEF Reads
<1> QED BY <1>2, <1>7 DEF Logged

\* The passes of an open over the entries, and what holds after each.
EntryOp(c, y, n) == ApplyAll(y, c.ops[n])
Entries == INSTANCE Loop WITH Op <- EntryOp, P <- ApplyInv

\* The loop of an open leads where the entries lead.
LEMMA LoggedIs ==
  ASSUME NEW entries, NEW d, NEW e, Logged(d, entries, e)
  PROVE  Replay(d, entries) = e
<1>1. PICK f : Reads(f, d, entries, e)
  BY DEF Logged
<1>2. PICK last : last = Len(entries)
  OBVIOUS
<1>3. PICK ids : ids = DOMAIN entries
  OBVIOUS
<1>4. last \in Nat /\ ids = 1 .. last /\ Max({0} \cup ids) = last
  BY <1>2, <1>3, LastOf DEF Logged
<1>5. f[0] = d /\ f[last] = e /\ \A i \in 1 .. last : f[i] = ApplyAll(f[i - 1], entries[i])
  BY <1>1, <1>2 DEF Reads
<1> DEFINE c == [ops |-> entries, f |-> f]
<1>6. Replay(d, entries) = Entries!Run(c, d, DOMAIN entries, Max({0} \cup DOMAIN entries))
  BY DEF Replay, Each, Entries!Run, EntryOp
<1>7. c.ops = entries /\ c.f = f
  OBVIOUS
<1> HIDE DEF c
<1>8. ApplyInv(c, 0, d)
  BY <1>5, <1>7 DEF ApplyInv
<1>9. ASSUME NEW n \in 1 .. last, NEW y, ApplyInv(c, n - 1, y)
      PROVE  ApplyInv(c, n, IF n \in ids THEN EntryOp(c, y, n) ELSE y)
  <2>1. y = f[n - 1] /\ n \in ids
    BY <1>4, <1>7, <1>9 DEF ApplyInv
  <2>2. f[n] = ApplyAll(y, entries[n])
    BY <1>5, <2>1
  <2> QED BY <1>7, <2>1, <2>2 DEF ApplyInv, EntryOp
<1>10. ApplyInv(c, last, Entries!Run(c, d, ids, last))
  BY <1>4, <1>8, <1>9, Entries!LoopKeeps
<1>11. Entries!Run(c, d, ids, last) = e
  BY <1>5, <1>7, <1>10 DEF ApplyInv
<1> QED BY <1>3, <1>4, <1>6, <1>11

-----------------------------------------------------------------------------
(* What an open makes of a database and what the statement made of it.      *)

\* y is x with another graph, history and operations.
Reached(y, x, g, h, ops) ==
  IsX(y) /\ SameRest(y, x) /\ y.d.graph = g /\ y.d.history = h /\ y.j.ops = ops

\* What a state that was reached is.
LEMMA ReachedIs ==
  ASSUME NEW y, NEW x, NEW g, NEW h, NEW ops, Reached(y, x, g, h, ops)
  PROVE  /\ IsX(y) /\ Shaped(y) /\ SameRest(y, x) /\ y.d.graph = g /\ y.d.history = h
         /\ y.j.ops = ops
BY DEF Reached, IsX, Shaped

\* Nothing done,
LEMMA ReachedSelf ==
  ASSUME NEW x, IsX(x)
  PROVE  Reached(x, x, x.d.graph, x.d.history, x.j.ops)
BY DEF Reached, SameRest

\* A step of a call after others: an operation for the log,
LEMMA ReachedLogging ==
  ASSUME NEW y, NEW x, NEW g, NEW h, NEW ops, Reached(y, x, g, h, ops), NEW op
  PROVE  Reached(Logging(y, op), x, g, h, Append(ops, op))
<1>1. PICK z : z = Logging(y, op)
  OBVIOUS
<1>2. Becomes(z, y, y.d.graph, y.d.history, y.j.undo)
  BY <1>1, ReachedIs, LoggingIs
<1>3. Writes(z, y, op)
  BY <1>1, ReachedIs, LoggingWrites
<1>4. IsX(z) /\ SameRest(z, x) /\ z.d.graph = g /\ z.d.history = h
  BY <1>2, ReachedIs, BecomesIs DEF SameRest
<1>5. z.j.ops = Append(ops, op)
  BY <1>3, ReachedIs DEF Writes
<1> QED BY <1>1, <1>4, <1>5 DEF Reached

\* a note of what was replaced,
LEMMA ReachedUndoing ==
  ASSUME NEW y, NEW x, NEW g, NEW h, NEW ops, Reached(y, x, g, h, ops), NEW u
  PROVE  Reached(Undoing(y, u), x, g, h, ops)
<1>1. PICK z : z = Undoing(y, u)
  OBVIOUS
<1>2. Becomes(z, y, y.d.graph, y.d.history, Noted(y.j.undo, u))
  BY <1>1, ReachedIs, UndoingIs
<1>3. Silently(z, y)
  BY <1>1, ReachedIs, UndoingWrites
<1>4. IsX(z) /\ SameRest(z, x) /\ z.d.graph = g /\ z.d.history = h
  BY <1>2, ReachedIs, BecomesIs DEF SameRest
<1>5. z.j.ops = ops
  BY <1>3, ReachedIs DEF Silently
<1> QED BY <1>1, <1>4, <1>5 DEF Reached

\* a refusal,
LEMMA ReachedRefusing ==
  ASSUME NEW y, NEW x, NEW g, NEW h, NEW ops, Reached(y, x, g, h, ops)
  PROVE  Reached(Refusing(y), x, g, h, ops)
<1>1. PICK z : z = Refusing(y)
  OBVIOUS
<1>2. Becomes(z, y, y.d.graph, y.d.history, y.j.undo)
  BY <1>1, ReachedIs, RefusingIs
<1>3. Silently(z, y)
  BY <1>1, ReachedIs, RefusingWrites
<1>4. IsX(z) /\ SameRest(z, x) /\ z.d.graph = g /\ z.d.history = h
  BY <1>2, ReachedIs, BecomesIs DEF SameRest
<1>5. z.j.ops = ops
  BY <1>3, ReachedIs DEF Silently
<1> QED BY <1>1, <1>4, <1>5 DEF Reached

\* another graph,
LEMMA ReachedGraph ==
  ASSUME NEW y, NEW x, NEW g, NEW h, NEW ops, Reached(y, x, g, h, ops), NEW new,
         NEW z, z = [y EXCEPT !.d.graph = new]
  PROVE  Reached(z, x, new, h, ops)
<1>2. Becomes(z, y, new, y.d.history, y.j.undo)
  BY ReachedIs, GraphSet
<1>3. Silently(z, y)
  BY ReachedIs, GraphWrites
<1>1. SameRest(y, x) /\ y.d.history = h
  BY ReachedIs
<1>4. IsX(z) /\ SameRest(z, x) /\ z.d.graph = new /\ z.d.history = h
  BY <1>1, <1>2 DEF Becomes, SameRest
<1>5. z.j.ops = ops
  BY <1>3, ReachedIs DEF Silently
<1> QED BY <1>4, <1>5 DEF Reached

\* and another history.
LEMMA ReachedHistory ==
  ASSUME NEW y, NEW x, NEW g, NEW h, NEW ops, Reached(y, x, g, h, ops), NEW new, IsHistory(new),
         NEW z, z = [y EXCEPT !.d.history = new]
  PROVE  Reached(z, x, g, new, ops)
<1>2. Becomes(z, y, y.d.graph, new, y.j.undo)
  BY ReachedIs, HistorySet
<1>3. Silently(z, y)
  BY ReachedIs, HistoryWrites
<1>1. SameRest(y, x) /\ y.d.graph = g
  BY ReachedIs
<1>4. IsX(z) /\ SameRest(z, x) /\ z.d.graph = g /\ z.d.history = new
  BY <1>1, <1>2 DEF Becomes, SameRest
<1>5. z.j.ops = ops
  BY <1>3, ReachedIs DEF Silently
<1> QED BY <1>4, <1>5 DEF Reached

\* A good graph with the nodes, edges and counters of another; its indexes are
\* its own.
GraphLike(e, g) == GoodGraph(e) /\ e.nodes = g.nodes /\ e.rels = g.rels /\ e.next = g.next

\* A database that an open made, that is to be d with graph g and history h.
Like(e, d, g, h) == IsDb(e) /\ SameNames(e, d) /\ e.history = h /\ GraphLike(e.graph, g)
Alike(e, d)      == Like(e, d, d.graph, d.history)

\* Replay of the operations leads from start to what the database is.
Tracks(start, ops, d) == IsSeq(ops) /\ \E e : Alike(e, d) /\ Played(start, ops, e)

\* If it led to x before, it leads to y now.
Follows(y, x) == \A start : Tracks(start, x.j.ops, x.d) => Tracks(start, y.j.ops, y.d)

\* What two steps follow, both together follow.
LEMMA FollowsTrans == ASSUME NEW x, NEW y, NEW z, Follows(y, x), Follows(z, y) PROVE Follows(z, x)
BY DEF Follows

\* Nothing done follows.
LEMMA FollowsSelf == ASSUME NEW x PROVE Follows(x, x)
BY DEF Follows

\* Applying op to a database alike d makes of it what the call made of d.
Does(op, d, g, h) == \A e : Alike(e, d) => Like(Apply(e, op), d, g, h)

\* A step that changes nothing and writes no operation follows,
LEMMA StillFollows ==
  ASSUME NEW x, NEW y, Reached(y, x, x.d.graph, x.d.history, x.j.ops)
  PROVE  Follows(y, x)
<1>1. SameRest(y, x) /\ y.d.graph = x.d.graph /\ y.d.history = x.d.history /\ y.j.ops = x.j.ops
  BY ReachedIs
<1>2. ASSUME NEW e, Alike(e, x.d) PROVE Alike(e, y.d)
  BY <1>1, <1>2 DEF Alike, Like, SameRest, SameNames
<1> QED BY <1>1, <1>2 DEF Follows, Tracks

\* and one follows whose operation does what it did.
LEMMA DoesFollows ==
  ASSUME NEW x, NEW y, NEW g, NEW h, NEW op, Reached(y, x, g, h, Append(x.j.ops, op)),
         Does(op, x.d, g, h)
  PROVE  Follows(y, x)
<1>1. SameRest(y, x) /\ y.d.graph = g /\ y.d.history = h /\ y.j.ops = Append(x.j.ops, op)
  BY ReachedIs
<1>2. ASSUME NEW start, Tracks(start, x.j.ops, x.d) PROVE Tracks(start, y.j.ops, y.d)
  <2>1. PICK e : Alike(e, x.d) /\ Played(start, x.j.ops, e)
    BY <1>2 DEF Tracks
  <2>2. PICK new : new = Apply(e, op)
    OBVIOUS
  <2>3. Like(new, x.d, g, h)
    BY <2>1, <2>2 DEF Does
  <2>4. Alike(new, y.d)
    BY <1>1, <2>3 DEF Alike, Like, SameRest, SameNames
  <2>5. IsSeq(x.j.ops)
    BY <1>2 DEF Tracks
  <2>6. PICK ops : ops = x.j.ops
    OBVIOUS
  <2>7. PICK more : more = Append(ops, op)
    OBVIOUS
  <2>8. IsSeq(ops) /\ Played(start, ops, e)
    BY <2>1, <2>5, <2>6
  <2>9. Played(start, more, new) /\ IsSeq(more)
    BY <2>2, <2>7, <2>8, PlayedGrows
  <2>10. more = y.j.ops
    BY <1>1, <2>6, <2>7
  <2> QED BY <2>4, <2>9, <2>10 DEF Tracks
<1> QED BY <1>2 DEF Follows

-----------------------------------------------------------------------------
(* The graph's operations make alike graphs of alike graphs.                *)

\* What an alike graph is.
LEMMA GraphLikeIs ==
  ASSUME NEW e, NEW g, GraphLike(e, g)
  PROVE  GoodGraph(e) /\ e.nodes = g.nodes /\ e.rels = g.rels /\ e.next = g.next
BY DEF GraphLike

\* restore_node,
LEMMA RestoreNodeLike ==
  ASSUME NEW e, NEW g, GraphLike(e, g), GoodGraph(g), NEW id \in Nat, NEW node, GoodNode(node)
  PROVE  GraphLike(RestoreNode(e, id, node), RestoreNode(g, id, node))
<1>1. PICK e2 : e2 = RestoreNode(e, id, node)
  OBVIOUS
<1>2. PICK g2 : g2 = RestoreNode(g, id, node)
  OBVIOUS
<1>3. GoodGraph(e) /\ Indexed(e) /\ Indexed(g) /\ e.nodes = g.nodes /\ e.rels = g.rels
      /\ e.next = g.next
  BY GraphLikeIs, GoodGraphIs
<1>4. e2.nodes = Put(e.nodes, id, node) /\ e2.rels = e.rels
      /\ e2.next = Counters(Later(e.next.node, id), e.next.rel)
  BY <1>1, <1>3, RestoreNodeIs
<1>5. g2.nodes = Put(g.nodes, id, node) /\ g2.rels = g.rels
      /\ g2.next = Counters(Later(g.next.node, id), g.next.rel)
  BY <1>2, <1>3, RestoreNodeIs
<1>6. GoodGraph(e2)
  BY <1>1, <1>3, RestoreNodeGood
<1> QED BY <1>1, <1>2, <1>3, <1>4, <1>5, <1>6 DEF GraphLike

\* update_node, of a node that is there,
LEMMA UpdateNodeLike ==
  ASSUME NEW e, NEW g, GraphLike(e, g), GoodGraph(g), NEW id \in DOMAIN g.nodes, NEW props,
         GoodProps(props)
  PROVE  GraphLike(UpdateNode(e, id, props), UpdateNode(g, id, props))
<1>1. PICK e2 : e2 = UpdateNode(e, id, props)
  OBVIOUS
<1>2. PICK g2 : g2 = UpdateNode(g, id, props)
  OBVIOUS
<1>3. GoodGraph(e) /\ Indexed(e) /\ Indexed(g) /\ e.nodes = g.nodes /\ e.rels = g.rels
      /\ e.next = g.next
  BY GraphLikeIs, GoodGraphIs
<1>4. id \in DOMAIN e.nodes /\ IsNode(e.nodes[id]) /\ IsNode(g.nodes[id])
  BY <1>3, GoodGraphIs DEF GoodNode
<1>5. e2.nodes = Put(e.nodes, id, Changed(e.nodes[id], props)) /\ e2.rels = e.rels
      /\ e2.next = Counters(e.next.node, e.next.rel)
  BY <1>1, <1>3, <1>4, UpdateNodeIs
<1>6. g2.nodes = Put(g.nodes, id, Changed(g.nodes[id], props)) /\ g2.rels = g.rels
      /\ g2.next = Counters(g.next.node, g.next.rel)
  BY <1>2, <1>3, <1>4, UpdateNodeIs
<1>7. GoodGraph(e2)
  BY <1>1, <1>3, <1>4, UpdateNodeGood
<1> QED BY <1>1, <1>2, <1>3, <1>5, <1>6, <1>7 DEF GraphLike

\* delete_node, of a node that is there,
LEMMA DeleteNodeLike ==
  ASSUME NEW e, NEW g, GraphLike(e, g), GoodGraph(g), NEW id \in DOMAIN g.nodes
  PROVE  GraphLike(DeleteNode(e, id), DeleteNode(g, id))
<1>1. PICK e2 : e2 = DeleteNode(e, id)
  OBVIOUS
<1>2. PICK g2 : g2 = DeleteNode(g, id)
  OBVIOUS
<1>3. GoodGraph(e) /\ Indexed(e) /\ Indexed(g) /\ e.nodes = g.nodes /\ e.rels = g.rels
      /\ e.next = g.next
  BY GraphLikeIs, GoodGraphIs
<1>4. PICK top \in Nat : DOMAIN g.rels \subseteq 1 .. top
  BY GoodGraphIs
<1>5. id \in DOMAIN e.nodes /\ DOMAIN e.rels \subseteq 1 .. top
  BY <1>3, <1>4
<1>6. e2.nodes = Without(e.nodes, id) /\ e2.rels = RelsWithout(e.rels, id)
      /\ e2.next = Counters(e.next.node, e.next.rel)
  BY <1>1, <1>3, <1>5, DeleteNodeIs
<1>7. g2.nodes = Without(g.nodes, id) /\ g2.rels = RelsWithout(g.rels, id)
      /\ g2.next = Counters(g.next.node, g.next.rel)
  BY <1>2, <1>3, <1>4, DeleteNodeIs
<1>8. GoodGraph(e2)
  BY <1>1, <1>3, DeleteNodeGood
<1> QED BY <1>1, <1>2, <1>3, <1>6, <1>7, <1>8 DEF GraphLike

\* restore_relationship,
LEMMA RestoreRelationshipLike ==
  ASSUME NEW e, NEW g, GraphLike(e, g), GoodGraph(g), NEW id \in Nat, id > 0, NEW rel
  PROVE  GraphLike(RestoreRelationship(e, id, rel), RestoreRelationship(g, id, rel))
<1>1. PICK e2 : e2 = RestoreRelationship(e, id, rel)
  OBVIOUS
<1>2. PICK g2 : g2 = RestoreRelationship(g, id, rel)
  OBVIOUS
<1>3. GoodGraph(e) /\ Indexed(e) /\ Indexed(g) /\ e.nodes = g.nodes /\ e.rels = g.rels
      /\ e.next = g.next
  BY GraphLikeIs, GoodGraphIs
<1>4. e2.nodes = e.nodes /\ e2.rels = Put(e.rels, id, rel)
      /\ e2.next = Counters(e.next.node, Later(e.next.rel, id))
  BY <1>1, <1>3, RestoreRelationshipIs
<1>5. g2.nodes = g.nodes /\ g2.rels = Put(g.rels, id, rel)
      /\ g2.next = Counters(g.next.node, Later(g.next.rel, id))
  BY <1>2, <1>3, RestoreRelationshipIs
<1>6. GoodGraph(e2)
  BY <1>1, <1>3, RestoreRelationshipGood
<1> QED BY <1>1, <1>2, <1>3, <1>4, <1>5, <1>6 DEF GraphLike

\* and delete_relationship.
LEMMA DeleteRelationshipLike ==
  ASSUME NEW e, NEW g, GraphLike(e, g), GoodGraph(g), NEW id
  PROVE  GraphLike(DeleteRelationship(e, id), DeleteRelationship(g, id))
<1>1. PICK e2 : e2 = DeleteRelationship(e, id)
  OBVIOUS
<1>2. PICK g2 : g2 = DeleteRelationship(g, id)
  OBVIOUS
<1>3. GoodGraph(e) /\ Indexed(e) /\ Indexed(g) /\ e.nodes = g.nodes /\ e.rels = g.rels
      /\ e.next = g.next
  BY GraphLikeIs, GoodGraphIs
<1>4. e2.nodes = e.nodes /\ e2.rels = Without(e.rels, id)
      /\ e2.next = Counters(e.next.node, e.next.rel)
  BY <1>1, <1>3, DeleteRelationshipIs
<1>5. g2.nodes = g.nodes /\ g2.rels = Without(g.rels, id)
      /\ g2.next = Counters(g.next.node, g.next.rel)
  BY <1>2, <1>3, DeleteRelationshipIs
<1>6. GoodGraph(e2)
  BY <1>1, <1>3, DeleteRelationshipGood
<1> QED BY <1>1, <1>2, <1>3, <1>4, <1>5, <1>6 DEF GraphLike

-----------------------------------------------------------------------------
(* Each operation does what its call did.                                   *)

\* What an alike database is.
LEMMA AlikeIs ==
  ASSUME NEW e, NEW d, Alike(e, d)
  PROVE  IsDb(e) /\ SameNames(e, d) /\ e.history = d.history /\ GraphLike(e.graph, d.graph)
BY DEF Alike, Like

\* A database with another graph and history.
LEMMA WithBoth ==
  ASSUME NEW e, NEW d, Alike(e, d), NEW a, NEW g, GraphLike(a, g), NEW h, NEW new,
         new = [e EXCEPT !.graph = a, !.history = h]
  PROVE  Like(new, d, g, h)
<1>1. IsDb(e) /\ SameNames(e, d)
  BY AlikeIs
<1>2. IsDb(new) /\ SameNames(new, e) /\ new.graph = a /\ new.history = h
  BY <1>1 DEF IsDb, SameNames
<1> QED BY <1>1, <1>2 DEF Like, SameNames

\* One with another graph,
LEMMA WithGraph ==
  ASSUME NEW e, NEW d, Alike(e, d), NEW a, NEW g, GraphLike(a, g), NEW new,
         new = [e EXCEPT !.graph = a]
  PROVE  Like(new, d, g, d.history)
<1>1. IsDb(e) /\ SameNames(e, d) /\ e.history = d.history
  BY AlikeIs
<1>2. IsDb(new) /\ SameNames(new, e) /\ new.graph = a /\ new.history = e.history
  BY <1>1, DbGraph
<1> QED BY <1>1, <1>2 DEF Like, SameNames

\* and one with another history.
LEMMA WithPast ==
  ASSUME NEW e, NEW d, Alike(e, d), NEW h, NEW new, new = [e EXCEPT !.history = h]
  PROVE  Like(new, d, d.graph, h)
<1>1. IsDb(e) /\ SameNames(e, d) /\ GraphLike(e.graph, d.graph)
  BY AlikeIs
<1>2. IsDb(new) /\ SameNames(new, e) /\ new.graph = e.graph /\ new.history = h
  BY <1>1, DbHistory
<1> QED BY <1>1, <1>2 DEF Like, SameNames

\* A node inserted,
LEMMA InsertNodeDoes ==
  ASSUME NEW d, GoodGraph(d.graph), NEW op, op.op = "InsertNode", op.id = d.graph.next.node,
         GoodNode(op.node), NEW g, g = CreateNode(d.graph, op.node)
  PROVE  Does(op, d, g, d.history)
<1>1. ASSUME NEW e, Alike(e, d) PROVE Like(Apply(e, op), d, g, d.history)
  <2>1. PICK a : a = RestoreNode(e.graph, op.id, op.node)
    OBVIOUS
  <2>2. Apply(e, op) = [e EXCEPT !.graph = a]
    BY <2>1 DEF Apply
  <2>3. g = RestoreNode(d.graph, op.id, op.node)
    BY DEF CreateNode
  <2>4. GraphLike(e.graph, d.graph) /\ op.id \in Nat
    BY <1>1, AlikeIs, GoodGraphIs
  <2>5. GraphLike(a, g)
    BY <2>1, <2>3, <2>4, RestoreNodeLike
  <2>6. PICK new : new = Apply(e, op)
    OBVIOUS
  <2> QED BY <1>1, <2>2, <2>5, <2>6, WithGraph
<1> QED BY <1>1 DEF Does

\* with its first changes, too.
LEMMA InsertNodeAtDoes ==
  ASSUME NEW d, GoodGraph(d.graph), NEW op, op.op = "InsertNodeAt", op.id = d.graph.next.node,
         GoodNode(op.node), NEW g, g = CreateNode(d.graph, op.node), NEW h,
         h = RecordHistory(d.history, op.id, op.at, op.node.props, op.fields)
  PROVE  Does(op, d, g, h)
<1>1. ASSUME NEW e, Alike(e, d) PROVE Like(Apply(e, op), d, g, h)
  <2>1. PICK a : a = RestoreNode(e.graph, op.id, op.node)
    OBVIOUS
  <2>2. e.history = d.history /\ GraphLike(e.graph, d.graph) /\ op.id \in Nat
    BY <1>1, AlikeIs, GoodGraphIs
  <2>3. Apply(e, op) = [e EXCEPT !.graph = a, !.history = h]
    BY <2>1, <2>2 DEF Apply
  <2>4. g = RestoreNode(d.graph, op.id, op.node)
    BY DEF CreateNode
  <2>5. GraphLike(a, g)
    BY <2>1, <2>2, <2>4, RestoreNodeLike
  <2>6. PICK new : new = Apply(e, op)
    OBVIOUS
  <2> QED BY <1>1, <2>3, <2>5, <2>6, WithBoth
<1> QED BY <1>1 DEF Does

\* A node changed,
LEMMA UpdateNodeDoes ==
  ASSUME NEW d, GoodGraph(d.graph), NEW op, op.op = "UpdateNode", op.id \in DOMAIN d.graph.nodes,
         GoodProps(op.props), NEW g, g = UpdateNode(d.graph, op.id, op.props)
  PROVE  Does(op, d, g, d.history)
<1>1. ASSUME NEW e, Alike(e, d) PROVE Like(Apply(e, op), d, g, d.history)
  <2>1. PICK a : a = UpdateNode(e.graph, op.id, op.props)
    OBVIOUS
  <2>2. Apply(e, op) = [e EXCEPT !.graph = a]
    BY <2>1 DEF Apply
  <2>3. GraphLike(e.graph, d.graph)
    BY <1>1, AlikeIs
  <2>4. GraphLike(a, g)
    BY <2>1, <2>3, UpdateNodeLike
  <2>5. PICK new : new = Apply(e, op)
    OBVIOUS
  <2> QED BY <1>1, <2>2, <2>4, <2>5, WithGraph
<1> QED BY <1>1 DEF Does

\* with changes for its history, too: the older change is not the current one.
LEMMA UpdateNodeAtDoes ==
  ASSUME NEW d, GoodGraph(d.graph), NEW op, op.op = "UpdateNodeAt", op.id \in DOMAIN d.graph.nodes,
         NEW h, h = RecordHistory(d.history, op.id, op.at, op.props, op.fields),
         NEW current, current = CurrentProps(h, op.id, op.props, op.fields), GoodProps(current),
         NEW g, g = UpdateNode(d.graph, op.id, current)
  PROVE  Does(op, d, g, h)
<1>1. ASSUME NEW e, Alike(e, d) PROVE Like(Apply(e, op), d, g, h)
  <2>1. PICK a : a = UpdateNode(e.graph, op.id, current)
    OBVIOUS
  <2>2. e.history = d.history /\ GraphLike(e.graph, d.graph) /\ op.id \in DOMAIN e.graph.nodes
    BY <1>1, AlikeIs, GraphLikeIs
  <2>3. Apply(e, op) = [e EXCEPT !.history = h, !.graph = a]
    BY <2>1, <2>2 DEF Apply
  <2>4. [e EXCEPT !.history = h, !.graph = a] = [e EXCEPT !.graph = a, !.history = h]
    OBVIOUS
  <2>5. GraphLike(a, g)
    BY <2>1, <2>2, UpdateNodeLike
  <2>6. PICK new : new = [e EXCEPT !.graph = a, !.history = h]
    OBVIOUS
  <2>7. Like(new, d, g, h)
    BY <1>1, <2>5, <2>6, WithBoth
  <2>8. new = Apply(e, op)
    BY <2>3, <2>4, <2>6
  <2> QED BY <2>7, <2>8
<1> QED BY <1>1 DEF Does

\* A lifetime.
LEMMA SetLifetimeDoes ==
  ASSUME NEW d, NEW op, op.op = "SetLifetime",
         NEW h, h = SetLifetime(d.history, op.id, op.appears, op.ends)
  PROVE  Does(op, d, d.graph, h)
<1>1. ASSUME NEW e, Alike(e, d) PROVE Like(Apply(e, op), d, d.graph, h)
  <2>1. e.history = d.history
    BY <1>1, AlikeIs
  <2>2. Apply(e, op) = [e EXCEPT !.history = h]
    BY <2>1 DEF Apply
  <2>3. PICK new : new = Apply(e, op)
    OBVIOUS
  <2> QED BY <1>1, <2>2, <2>3, WithPast
<1> QED BY <1>1 DEF Does

\* A node deleted, with the histories.
LEMMA DeleteNodeDoes ==
  ASSUME NEW d, GoodGraph(d.graph), NEW op, op.op = "DeleteNode", op.id \in DOMAIN d.graph.nodes,
         NEW g, g = DeleteNode(d.graph, op.id), NEW h, h = Forget(d.history, op.id)
  PROVE  Does(op, d, g, h)
<1>1. ASSUME NEW e, Alike(e, d) PROVE Like(Apply(e, op), d, g, h)
  <2>1. PICK a : a = DeleteNode(e.graph, op.id)
    OBVIOUS
  <2>2. e.history = d.history /\ GraphLike(e.graph, d.graph)
    BY <1>1, AlikeIs
  <2>3. Apply(e, op) = [e EXCEPT !.history = h, !.graph = a]
    BY <2>1, <2>2 DEF Apply
  <2>4. [e EXCEPT !.history = h, !.graph = a] = [e EXCEPT !.graph = a, !.history = h]
    OBVIOUS
  <2>5. GraphLike(a, g)
    BY <2>1, <2>2, DeleteNodeLike
  <2>6. PICK new : new = [e EXCEPT !.graph = a, !.history = h]
    OBVIOUS
  <2>7. Like(new, d, g, h)
    BY <1>1, <2>5, <2>6, WithBoth
  <2>8. new = Apply(e, op)
    BY <2>3, <2>4, <2>6
  <2> QED BY <2>7, <2>8
<1> QED BY <1>1 DEF Does

\* A relationship inserted,
LEMMA InsertRelDoes ==
  ASSUME NEW d, GoodGraph(d.graph), NEW op, op.op = "InsertRel", op.id = d.graph.next.rel,
         NEW g, g = CreateRelationship(d.graph, op.rel)
  PROVE  Does(op, d, g, d.history)
<1>1. ASSUME NEW e, Alike(e, d) PROVE Like(Apply(e, op), d, g, d.history)
  <2>1. PICK a : a = RestoreRelationship(e.graph, op.id, op.rel)
    OBVIOUS
  <2>2. Apply(e, op) = [e EXCEPT !.graph = a]
    BY <2>1 DEF Apply
  <2>3. g = RestoreRelationship(d.graph, op.id, op.rel)
    BY DEF CreateRelationship
  <2>4. GraphLike(e.graph, d.graph) /\ op.id \in Nat /\ op.id > 0
    BY <1>1, AlikeIs, GoodGraphIs
  <2>5. GraphLike(a, g)
    BY <2>1, <2>3, <2>4, RestoreRelationshipLike
  <2>6. PICK new : new = Apply(e, op)
    OBVIOUS
  <2> QED BY <1>1, <2>2, <2>5, <2>6, WithGraph
<1> QED BY <1>1 DEF Does

\* with the beginning of a history, too.
LEMMA InsertRelAtDoes ==
  ASSUME NEW d, GoodGraph(d.graph), NEW op, op.op = "InsertRelAt", op.id = d.graph.next.rel,
         NEW g, g = CreateRelationship(d.graph, op.rel), NEW h,
         h = [d.history EXCEPT !.rels = Put(d.history.rels, op.id, Began(op.rel, op.at))]
  PROVE  Does(op, d, g, h)
<1>1. ASSUME NEW e, Alike(e, d) PROVE Like(Apply(e, op), d, g, h)
  <2>1. PICK a : a = RestoreRelationship(e.graph, op.id, op.rel)
    OBVIOUS
  <2>2. /\ IsDb(e) /\ e.history = d.history /\ GraphLike(e.graph, d.graph)
        /\ op.id \in Nat /\ op.id > 0
    BY <1>1, AlikeIs, GoodGraphIs
  <2>3. Apply(e, op) = [e EXCEPT !.graph = a,
                                 !.history.rels = Put(e.history.rels, op.id, Began(op.rel, op.at))]
    BY <2>1 DEF Apply
  <2>4. ASSUME NEW v
        PROVE  [e EXCEPT !.graph = a, !.history.rels = v]
               = [e EXCEPT !.graph = a, !.history = [e.history EXCEPT !.rels = v]]
    BY <2>2 DEF IsDb
  <2>5. Apply(e, op) = [e EXCEPT !.graph = a, !.history = h]
    BY <2>2, <2>3, <2>4
  <2>6. g = RestoreRelationship(d.graph, op.id, op.rel)
    BY DEF CreateRelationship
  <2>7. GraphLike(a, g)
    BY <2>1, <2>2, <2>6, RestoreRelationshipLike
  <2>8. PICK new : new = Apply(e, op)
    OBVIOUS
  <2> QED BY <1>1, <2>5, <2>7, <2>8, WithBoth
<1> QED BY <1>1 DEF Does

\* A relationship deleted, with the end of its history,
LEMMA EndRelAtDoes ==
  ASSUME NEW d, GoodGraph(d.graph), NEW op, op.op = "EndRelAt",
         NEW g, g = DeleteRelationship(d.graph, op.id), NEW h,
         h = Ended(d.history, op.id, op.rel, op.at)
  PROVE  Does(op, d, g, h)
<1>1. ASSUME NEW e, Alike(e, d) PROVE Like(Apply(e, op), d, g, h)
  <2>1. PICK a : a = DeleteRelationship(e.graph, op.id)
    OBVIOUS
  <2>2. e.history = d.history /\ GraphLike(e.graph, d.graph)
    BY <1>1, AlikeIs
  <2>3. Apply(e, op) = [e EXCEPT !.history = h, !.graph = a]
    BY <2>1, <2>2 DEF Apply
  <2>4. [e EXCEPT !.history = h, !.graph = a] = [e EXCEPT !.graph = a, !.history = h]
    OBVIOUS
  <2>5. GraphLike(a, g)
    BY <2>1, <2>2, DeleteRelationshipLike
  <2>6. PICK new : new = [e EXCEPT !.graph = a, !.history = h]
    OBVIOUS
  <2>7. Like(new, d, g, h)
    BY <1>1, <2>5, <2>6, WithBoth
  <2>8. new = Apply(e, op)
    BY <2>3, <2>4, <2>6
  <2> QED BY <2>7, <2>8
<1> QED BY <1>1 DEF Does

\* or without.
LEMMA DeleteRelDoes ==
  ASSUME NEW d, GoodGraph(d.graph), NEW op, op.op = "DeleteRel",
         NEW g, g = DeleteRelationship(d.graph, op.id)
  PROVE  Does(op, d, g, d.history)
<1>1. ASSUME NEW e, Alike(e, d) PROVE Like(Apply(e, op), d, g, d.history)
  <2>1. PICK a : a = DeleteRelationship(e.graph, op.id)
    OBVIOUS
  <2>2. Apply(e, op) = [e EXCEPT !.graph = a]
    BY <2>1 DEF Apply
  <2>3. GraphLike(e.graph, d.graph)
    BY <1>1, AlikeIs
  <2>4. GraphLike(a, g)
    BY <2>1, <2>3, DeleteRelationshipLike
  <2>5. PICK new : new = Apply(e, op)
    OBVIOUS
  <2> QED BY <1>1, <2>2, <2>4, <2>5, WithGraph
<1> QED BY <1>1 DEF Does

-----------------------------------------------------------------------------
(* Each call is followed.                                                   *)

\* record_lifetime;
LEMMA LifetimeFollows ==
  ASSUME NEW x, IsX(x), NEW id, NEW y, y = RecordLifetime(x, id)
  PROVE  Follows(y, x)
<1> DEFINE node  == x.d.graph.nodes[id]
           which == SelectInSeq(x.j.schema.lifetimes, LAMBDA l : l.type \in node.labels)
           dates == x.j.schema.lifetimes[which]
           appears == DateIn(dates.appears, node.props)
           ends    == DateIn(dates.ends, node.props)
           saved   == SaveLifetime(x, id)
           set     == [saved EXCEPT !.d.history = SetLifetime(@, id, appears, ends)]
           op == [op |-> "SetLifetime", id |-> id, appears |-> appears, ends |-> ends]
           h  == SetLifetime(x.d.history, id, appears, ends)
<1>1. y = x \/ y = Refusing(x) \/ y = Logging(set, op)
  BY DEF RecordLifetime
<1>2. op.op = "SetLifetime" /\ op.id = id /\ op.appears = appears /\ op.ends = ends
  OBVIOUS
<1> HIDE DEF appears, ends, op
<1>3. Reached(x, x, x.d.graph, x.d.history, x.j.ops)
  BY ReachedSelf
<1>4. Reached(saved, x, x.d.graph, x.d.history, x.j.ops)
  BY <1>3, ReachedUndoing DEF SaveLifetime
<1> HIDE DEF saved
<1>5. IsHistory(h)
  BY LifetimeShape DEF IsX
<1>6. set = [saved EXCEPT !.d.history = h]
  <2>1. saved.d.history = x.d.history
    BY <1>4, ReachedIs
  <2> QED BY <2>1, Zenon
<1>7. Does(op, x.d, x.d.graph, h)
  BY <1>2, SetLifetimeDoes
<1> HIDE DEF set, h
<1>8. Reached(set, x, x.d.graph, h, x.j.ops)
  BY <1>4, <1>5, <1>6, ReachedHistory
<1>9. Reached(Logging(set, op), x, x.d.graph, h, Append(x.j.ops, op))
  BY <1>8, ReachedLogging
<1>10. Follows(Logging(set, op), x)
  BY <1>7, <1>9, DoesFollows
<1>11. Reached(Refusing(x), x, x.d.graph, x.d.history, x.j.ops)
  BY <1>3, ReachedRefusing
<1> QED BY <1>1, <1>10, <1>11, FollowsSelf, StillFollows

\* create_node;
LEMMA CreateNodeFollows ==
  ASSUME NEW x, GoodX(x), NEW node, GoodNode(node), NEW y, y = JournalCreateNode(x, node)
  PROVE  Follows(y, x)
<1> DEFINE id     == x.d.graph.next.node
           fields == TemporalFields(x, node.labels, node.props)
           g      == CreateNode(x.d.graph, node)
           h      == RecordHistory(x.d.history, id, x.j.at, node.props, fields)
           made   == [x EXCEPT !.d.graph = CreateNode(@, node)]
           stored == Undoing(made, [undo |-> "created", id |-> id])
           saved  == SaveHistory(stored, id)
           dated  == [saved EXCEPT !.d.history = RecordHistory(@, id, x.j.at, node.props, fields)]
           one == [op |-> "InsertNode", id |-> id, node |-> node]
           two == [op |-> "InsertNodeAt", id |-> id, node |-> node, at |-> x.j.at,
                   fields |-> fields]
<1>1. y = RecordLifetime(Logging(stored, one), id) \/ y = RecordLifetime(Logging(dated, two), id)
  BY DEF JournalCreateNode
<1>2. /\ one.op = "InsertNode" /\ one.id = id /\ one.node = node
      /\ two.op = "InsertNodeAt" /\ two.id = id /\ two.node = node /\ two.at = x.j.at
      /\ two.fields = fields
  OBVIOUS
<1>3. IsX(x) /\ GoodGraph(x.d.graph) /\ IsHistory(x.d.history)
  BY GoodXIs
<1> HIDE DEF fields, one, two
<1>4. Reached(made, x, g, x.d.history, x.j.ops)
  <2>1. Reached(x, x, x.d.graph, x.d.history, x.j.ops)
    BY <1>3, ReachedSelf
  <2>2. made = [x EXCEPT !.d.graph = g]
    BY Zenon
  <2> HIDE DEF made, g
  <2> QED BY <2>1, <2>2, ReachedGraph
<1> HIDE DEF made
<1>5. Reached(stored, x, g, x.d.history, x.j.ops)
  BY <1>4, ReachedUndoing
<1> HIDE DEF stored
<1>6. Reached(saved, x, g, x.d.history, x.j.ops)
  BY <1>5, ReachedUndoing DEF SaveHistory
<1> HIDE DEF saved
<1>7. IsHistory(h)
  BY <1>3, HistoryShape
<1>8. dated = [saved EXCEPT !.d.history = h]
  <2>1. saved.d.history = x.d.history
    BY <1>6, ReachedIs
  <2> QED BY <2>1, Zenon
<1>9. Does(one, x.d, g, x.d.history)
  BY <1>2, <1>3, InsertNodeDoes
<1>10. Does(two, x.d, g, h)
  BY <1>2, <1>3, InsertNodeAtDoes
<1> HIDE DEF dated, g, h
<1>11. Reached(dated, x, g, h, x.j.ops)
  BY <1>6, <1>7, <1>8, ReachedHistory
<1>12. Reached(Logging(stored, one), x, g, x.d.history, Append(x.j.ops, one))
  BY <1>5, ReachedLogging
<1>13. Reached(Logging(dated, two), x, g, h, Append(x.j.ops, two))
  BY <1>11, ReachedLogging
<1>14. Follows(Logging(stored, one), x) /\ IsX(Logging(stored, one))
  BY <1>9, <1>12, DoesFollows, ReachedIs
<1>15. Follows(Logging(dated, two), x) /\ IsX(Logging(dated, two))
  BY <1>10, <1>13, DoesFollows, ReachedIs
<1>16. ASSUME NEW s, IsX(s), Follows(s, x) PROVE Follows(RecordLifetime(s, id), x)
  BY <1>16, LifetimeFollows, FollowsTrans
<1> QED BY <1>1, <1>14, <1>15, <1>16

\* create_relationship;
LEMMA CreateRelationshipFollows ==
  ASSUME NEW x, GoodX(x), NEW rel, NEW y, y = JournalCreateRelationship(x, rel)
  PROVE  Follows(y, x)
<1> DEFINE id     == x.d.graph.next.rel
           g      == CreateRelationship(x.d.graph, rel)
           h      == [x.d.history EXCEPT !.rels = Put(x.d.history.rels, id, Began(rel, x.j.at))]
           made   == [x EXCEPT !.d.graph = CreateRelationship(@, rel)]
           stored == Undoing(made, [undo |-> "created_rel", id |-> id])
           saved  == SaveEdgeHistory(stored, id)
           dated  == [saved EXCEPT !.d.history.rels = Put(@, id, Began(rel, x.j.at))]
           one == [op |-> "InsertRelAt", id |-> id, rel |-> rel, at |-> x.j.at]
           two == [op |-> "InsertRel", id |-> id, rel |-> rel]
<1>1. y = Logging(dated, one) \/ y = Logging(stored, two)
  BY DEF JournalCreateRelationship
<1>2. /\ one.op = "InsertRelAt" /\ one.id = id /\ one.rel = rel /\ one.at = x.j.at
      /\ two.op = "InsertRel" /\ two.id = id /\ two.rel = rel
  OBVIOUS
<1>3. IsX(x) /\ GoodGraph(x.d.graph) /\ IsHistory(x.d.history)
  BY GoodXIs
<1> HIDE DEF one, two
<1>4. Reached(made, x, g, x.d.history, x.j.ops)
  <2>1. Reached(x, x, x.d.graph, x.d.history, x.j.ops)
    BY <1>3, ReachedSelf
  <2>2. made = [x EXCEPT !.d.graph = g]
    BY Zenon
  <2> HIDE DEF made, g
  <2> QED BY <2>1, <2>2, ReachedGraph
<1> HIDE DEF made
<1>5. Reached(stored, x, g, x.d.history, x.j.ops)
  BY <1>4, ReachedUndoing
<1> HIDE DEF stored
<1>6. Reached(saved, x, g, x.d.history, x.j.ops)
  BY <1>5, ReachedUndoing DEF SaveEdgeHistory
<1> HIDE DEF saved
<1>7. IsHistory(h)
  BY <1>3, PutFcn, EdgesSection
<1>8. dated = [saved EXCEPT !.d.history = h]
  <2> DEFINE v == Put(x.d.history.rels, id, Began(rel, x.j.at))
  <2>1. IsX(saved) /\ saved.d.history = x.d.history
    BY <1>6, ReachedIs
  <2>2. dated = [saved EXCEPT !.d.history.rels = v]
    BY <2>1, Zenon
  <2>3. h = [x.d.history EXCEPT !.rels = v]
    OBVIOUS
  <2> HIDE DEF v, h, dated
  <2> QED BY <2>1, <2>2, <2>3 DEF IsX, IsDb
<1>9. Does(two, x.d, g, x.d.history)
  BY <1>2, <1>3, InsertRelDoes
<1>10. Does(one, x.d, g, h)
  BY <1>2, <1>3, InsertRelAtDoes
<1> HIDE DEF dated, g, h
<1>11. Reached(dated, x, g, h, x.j.ops)
  BY <1>6, <1>7, <1>8, ReachedHistory
<1>12. Reached(Logging(stored, two), x, g, x.d.history, Append(x.j.ops, two))
  BY <1>5, ReachedLogging
<1>13. Reached(Logging(dated, one), x, g, h, Append(x.j.ops, one))
  BY <1>11, ReachedLogging
<1>14. Follows(Logging(stored, two), x)
  BY <1>9, <1>12, DoesFollows
<1>15. Follows(Logging(dated, one), x)
  BY <1>10, <1>13, DoesFollows
<1> QED BY <1>1, <1>14, <1>15

\* update_node;
LEMMA UpdateNodeFollows ==
  ASSUME NEW x, GoodX(x), NEW id, NEW props, GoodProps(props),
         NEW y, y = JournalUpdateNode(x, id, props)
  PROVE  Follows(y, x)
<1> DEFINE fields  == TemporalFields(x, x.d.graph.nodes[id].labels, props)
           history == RecordHistory(x.d.history, id, x.j.at, props, fields)
           current == CurrentProps(history, id, props, fields)
           g1      == UpdateNode(x.d.graph, id, props)
           g2      == UpdateNode(x.d.graph, id, current)
           op1     == [op |-> "UpdateNode", id |-> id, props |-> props]
           op2     == [op |-> "UpdateNodeAt", id |-> id, props |-> props, at |-> x.j.at,
                       fields |-> fields]
           noted1  == SaveNode(x, id)
           noted2  == SaveHistory(x, id)
           noted3  == SaveNode(noted2, id)
           plain   == Logging(noted1, op1)
           dated   == Logging(noted3, op2)
           one == [plain EXCEPT !.d.graph = UpdateNode(@, id, props)]
           two == [dated EXCEPT !.d.graph = UpdateNode(@, id, current), !.d.history = history]
<1>1. \/ y = Refusing(x) \/ y = x
      \/ /\ id \in DOMAIN x.d.graph.nodes
         /\ y = RecordLifetime(one, id) \/ y = RecordLifetime(two, id)
  BY DEF JournalUpdateNode
<1>2. /\ op1.op = "UpdateNode" /\ op1.id = id /\ op1.props = props
      /\ op2.op = "UpdateNodeAt" /\ op2.id = id /\ op2.props = props /\ op2.at = x.j.at
      /\ op2.fields = fields
  OBVIOUS
<1>3. /\ IsX(x) /\ GoodGraph(x.d.graph) /\ IsHistory(x.d.history) /\ GoodFields(x.d.history.fields)
      /\ x.j.at \in Nat
  BY GoodXIs
<1>4. Reached(x, x, x.d.graph, x.d.history, x.j.ops)
  BY <1>3, ReachedSelf
<1>5. IsHistory(history) /\ GoodProps(current)
  <2>1. PICK h : h = history
    OBVIOUS
  <2>2. fields \subseteq DOMAIN props
    BY DEF TemporalFields
  <2> HIDE DEF fields
  <2>3. IsHistory(h) /\ GoodFields(h.fields)
    BY <1>3, <2>1, RecordHistoryTyped
  <2>4. \A f \in fields \cap DOMAIN props : <<id, f>> \in DOMAIN h.fields
    BY <1>3, <2>1, RecordedFields
  <2>5. \A f \in fields : <<id, f>> \in DOMAIN h.fields
    BY <2>2, <2>4
  <2>6. GoodProps(CurrentProps(h, id, props, fields))
    BY <2>3, <2>5, CurrentPropsGood
  <2> QED BY <2>1, <2>3, <2>6
<1>6. CASE y = Refusing(x) \/ y = x
  <2>1. Reached(Refusing(x), x, x.d.graph, x.d.history, x.j.ops)
    BY <1>4, ReachedRefusing
  <2> QED BY <1>6, <2>1, FollowsSelf, StillFollows
<1>7. CASE /\ id \in DOMAIN x.d.graph.nodes
           /\ y = RecordLifetime(one, id) \/ y = RecordLifetime(two, id)
  <2>1. Does(op1, x.d, g1, x.d.history)
    BY <1>2, <1>3, <1>7, UpdateNodeDoes
  <2>2. Does(op2, x.d, g2, history)
    <3> HIDE DEF fields, history, current, op2, g2
    <3>1. op2.id \in DOMAIN x.d.graph.nodes
      BY <1>2, <1>7
    <3>2. history = RecordHistory(x.d.history, op2.id, op2.at, op2.props, op2.fields)
      BY <1>2 DEF history
    <3>3. current = CurrentProps(history, op2.id, op2.props, op2.fields)
      BY <1>2 DEF current
    <3>4. g2 = UpdateNode(x.d.graph, op2.id, current)
      BY <1>2 DEF g2
    <3> QED BY <1>2, <1>3, <1>5, <3>1, <3>2, <3>3, <3>4, UpdateNodeAtDoes
  <2> HIDE DEF fields, op1, op2, current
  <2>3. Reached(noted1, x, x.d.graph, x.d.history, x.j.ops)
    BY <1>4, ReachedUndoing DEF SaveNode
  <2>4. Reached(noted2, x, x.d.graph, x.d.history, x.j.ops)
    BY <1>4, ReachedUndoing DEF SaveHistory
  <2> HIDE DEF noted1, noted2
  <2>5. Reached(noted3, x, x.d.graph, x.d.history, x.j.ops)
    BY <2>4, ReachedUndoing DEF SaveNode
  <2> HIDE DEF noted3
  <2>6. Reached(plain, x, x.d.graph, x.d.history, Append(x.j.ops, op1))
    BY <2>3, ReachedLogging
  <2>7. Reached(dated, x, x.d.graph, x.d.history, Append(x.j.ops, op2))
    BY <2>5, ReachedLogging
  <2> HIDE DEF plain, dated
  <2>8. Reached(one, x, g1, x.d.history, Append(x.j.ops, op1))
    <3>1. plain.d.graph = x.d.graph
      BY <2>6, ReachedIs
    <3>2. one = [plain EXCEPT !.d.graph = g1]
      BY <3>1, Zenon
    <3> HIDE DEF one, g1
    <3> QED BY <2>6, <3>2, ReachedGraph
  <2>9. Reached(two, x, g2, history, Append(x.j.ops, op2))
    <3> DEFINE mid == [dated EXCEPT !.d.graph = g2]
    <3>1. dated.d.graph = x.d.graph
      BY <2>7, ReachedIs
    <3>2. two = [dated EXCEPT !.d.graph = g2, !.d.history = history]
      BY <3>1, Zenon
    <3> HIDE DEF g2, history, two
    <3>3. two = [mid EXCEPT !.d.history = history]
      BY <3>2
    <3>4. Reached(mid, x, g2, x.d.history, Append(x.j.ops, op2))
      BY <2>7, ReachedGraph
    <3> HIDE DEF mid
    <3> QED BY <1>5, <3>3, <3>4, ReachedHistory
  <2> HIDE DEF one, two, g1, g2, history
  <2>10. Follows(one, x) /\ IsX(one)
    BY <2>1, <2>8, DoesFollows, ReachedIs
  <2>11. Follows(two, x) /\ IsX(two)
    BY <2>2, <2>9, DoesFollows, ReachedIs
  <2>12. ASSUME NEW s, IsX(s), Follows(s, x) PROVE Follows(RecordLifetime(s, id), x)
    BY <2>12, LifetimeFollows, FollowsTrans
  <2> QED BY <1>7, <2>10, <2>11, <2>12
<1> QED BY <1>1, <1>6, <1>7

\* A database without a relationship.
Severed(s, id) == [s EXCEPT !.d.graph = DeleteRelationship(@, id)]

\* The relationship goes once its operation is logged, noted or not.
LEMMA CutFollows ==
  ASSUME NEW x, NEW id, NEW s, NEW h, NEW op, Reached(s, x, x.d.graph, h, Append(x.j.ops, op)),
         Does(op, x.d, DeleteRelationship(x.d.graph, id), h), NEW z,
         z = Severed(s, id), NEW u
  PROVE  Follows(z, x) /\ Follows(Undoing(z, u), x)
<1> DEFINE g == DeleteRelationship(x.d.graph, id)
<1>1. s.d.graph = x.d.graph
  BY ReachedIs
<1>2. z = [s EXCEPT !.d.graph = g]
  BY <1>1, Zenon DEF Severed
<1>3. Does(op, x.d, g, h)
  OBVIOUS
<1> HIDE DEF g
<1>4. Reached(z, x, g, h, Append(x.j.ops, op))
  BY <1>2, ReachedGraph
<1>5. Reached(Undoing(z, u), x, g, h, Append(x.j.ops, op))
  BY <1>4, ReachedUndoing
<1> QED BY <1>3, <1>4, <1>5, DoesFollows

\* delete_relationship;
LEMMA DeleteRelationshipFollows ==
  ASSUME NEW x, GoodX(x), NEW id, NEW y, y = JournalDeleteRelationship(x, id)
  PROVE  Follows(y, x)
<1> DEFINE known  == Optional(x.d.graph.rels, id)
           past   == Optional(x.d.history.rels, id)
           rel    == IF known # {} THEN x.d.graph.rels[id] ELSE x.d.history.rels[id].rel
           saved  == SaveEdgeHistory(x, id)
           ended  == [saved EXCEPT !.d.history = Ended(@, id, rel, x.j.at)]
           one    == [op |-> "EndRelAt", id |-> id, rel |-> rel, at |-> x.j.at]
           two    == [op |-> "DeleteRel", id |-> id]
           logged == IF rel.kind \in x.j.schema.temporal_rels \/ past # {}
                     THEN Logging(ended, one) ELSE Logging(x, two)
           gone   == [logged EXCEPT !.d.graph = DeleteRelationship(@, id)]
           done   == Undoing(gone, [undo |-> "deleted_rel", id |-> id, rel |-> rel])
           g      == DeleteRelationship(x.d.graph, id)
           h      == Ended(x.d.history, id, rel, x.j.at)
<1>1. y = Refusing(x) \/ y = x \/ y = gone \/ y = done
  BY DEF JournalDeleteRelationship
<1>2. /\ one.op = "EndRelAt" /\ one.id = id /\ one.rel = rel /\ one.at = x.j.at
      /\ two.op = "DeleteRel" /\ two.id = id
  OBVIOUS
<1>3. IsX(x) /\ GoodGraph(x.d.graph) /\ IsHistory(x.d.history)
  BY GoodXIs
<1> HIDE DEF one, two, known, past, rel
<1>4. Reached(x, x, x.d.graph, x.d.history, x.j.ops)
  BY <1>3, ReachedSelf
<1>5. Reached(saved, x, x.d.graph, x.d.history, x.j.ops)
  BY <1>4, ReachedUndoing DEF SaveEdgeHistory
<1> HIDE DEF saved
<1>6. IsHistory(h)
  <2> DEFINE seen == IF id \in DOMAIN x.d.history.rels THEN x.d.history.rels[id]
                     ELSE Began(rel, Earliest)
             v == Put(x.d.history.rels, id, [seen EXCEPT !.to = {x.j.at}])
  <2>1. h = [x.d.history EXCEPT !.rels = v]
    BY Zenon DEF Ended
  <2>2. IsFcn(v)
    BY PutFcn
  <2> HIDE DEF v, h
  <2> QED BY <1>3, <2>1, <2>2, EdgesSection
<1>7. ended = [saved EXCEPT !.d.history = h]
  <2>1. saved.d.history = x.d.history
    BY <1>5, ReachedIs
  <2> QED BY <2>1, Zenon
<1>8. Does(one, x.d, g, h)
  BY <1>2, <1>3, EndRelAtDoes
<1>9. Does(two, x.d, g, x.d.history)
  BY <1>2, <1>3, DeleteRelDoes
<1> HIDE DEF ended, h
<1>10. Reached(ended, x, x.d.graph, h, x.j.ops)
  BY <1>5, <1>6, <1>7, ReachedHistory
<1>11. Reached(Logging(ended, one), x, x.d.graph, h, Append(x.j.ops, one))
  BY <1>10, ReachedLogging
<1>12. Reached(Logging(x, two), x, x.d.graph, x.d.history, Append(x.j.ops, two))
  BY <1>4, ReachedLogging
<1>13. gone = Severed(logged, id) /\ \E u : done = Undoing(gone, u)
  <2> HIDE DEF logged
  <2>1. gone = Severed(logged, id)
    BY Zenon DEF Severed
  <2> HIDE DEF gone
  <2> QED BY <2>1, Zenon
<1>14. logged = Logging(ended, one) \/ logged = Logging(x, two)
  BY Zenon
<1> HIDE DEF logged, gone, done
<1>15. PICK u : done = Undoing(gone, u)
  BY <1>13
<1>16. Follows(gone, x) /\ Follows(done, x)
  <2>1. CASE logged = Logging(ended, one)
    <3>1. Reached(logged, x, x.d.graph, h, Append(x.j.ops, one))
      BY <1>11, <2>1
    <3> QED BY <1>8, <1>13, <1>15, <3>1, CutFollows
  <2>2. CASE logged = Logging(x, two)
    <3>1. Reached(logged, x, x.d.graph, x.d.history, Append(x.j.ops, two))
      BY <1>12, <2>2
    <3> QED BY <1>9, <1>13, <1>15, <3>1, CutFollows
  <2> QED BY <1>14, <2>1, <2>2
<1>17. Reached(Refusing(x), x, x.d.graph, x.d.history, x.j.ops)
  BY <1>4, ReachedRefusing
<1> QED BY <1>1, <1>16, <1>17, FollowsSelf, StillFollows

\* What holds after each pass of delete_node's loop over the relationships,
FollowInv(c, n, y) ==
  /\ Kept(y, c.x) /\ Follows(y, c.x) /\ y.d.graph.nodes = c.x.d.graph.nodes
FollowingCuts == INSTANCE Loop WITH Op <- DropOp, P <- FollowInv

\* one pass,
LEMMA FollowNext ==
  ASSUME NEW c, NEW n, NEW y, FollowInv(c, n - 1, y), NEW ids
  PROVE  FollowInv(c, n, IF n \in ids THEN DropOp(c, y, n) ELSE y)
<1>1. Kept(y, c.x) /\ Follows(y, c.x) /\ y.d.graph.nodes = c.x.d.graph.nodes
  BY DEF FollowInv
<1>2. GoodX(y)
  BY <1>1, KeptIs
<1>3. CASE n \in ids
  <2>1. PICK z : z = JournalDeleteRelationship(y, n)
    OBVIOUS
  <2>2. Kept(z, y) /\ z.d.graph.nodes = y.d.graph.nodes
    BY <1>2, <2>1, JournalDeleteRelationshipKept
  <2>3. Kept(z, c.x)
    BY <1>1, <2>2, KeptTrans
  <2>4. Follows(z, c.x)
    BY <1>1, <1>2, <2>1, DeleteRelationshipFollows, FollowsTrans
  <2>5. FollowInv(c, n, z)
    BY <1>1, <2>2, <2>3, <2>4 DEF FollowInv
  <2> QED BY <1>3, <2>1, <2>5 DEF DropOp
<1>4. CASE n \notin ids
  BY <1>1, <1>4 DEF FollowInv
<1> QED BY <1>3, <1>4

\* and the loop.
LEMMA CutsFollow ==
  ASSUME NEW x, GoodX(x), NEW id, NEW y, y = Cut(x, id)
  PROVE  GoodX(y) /\ Follows(y, x) /\ y.d.graph.nodes = x.d.graph.nodes
<1> DEFINE ids == NodeRelationships(x.d.graph, id)
           last == Max({0} \cup ids)
           c == [x |-> x]
<1>1. last \in Nat
  <2>1. PICK top \in Nat : DOMAIN x.d.graph.rels \subseteq 1 .. top
    BY GoodXIs, GoodGraphIs
  <2>2. ids \in SUBSET (1 .. top)
    BY <2>1, GoodXIs, GoodGraphIs, NodeRelationshipsIs
  <2> HIDE DEF ids
  <2> QED BY <2>2, LastId
<1>2. y = FollowingCuts!Run(c, x, ids, last)
  BY DEF Cut, Each, FollowingCuts!Run, DropOp
<1>3. c.x = x
  OBVIOUS
<1> HIDE DEF ids, last, c
<1>4. FollowInv(c, 0, x)
  BY <1>3, KeptSelf, FollowsSelf DEF FollowInv
<1>5. ASSUME NEW n \in 1 .. last, NEW z, FollowInv(c, n - 1, z)
      PROVE  FollowInv(c, n, IF n \in ids THEN DropOp(c, z, n) ELSE z)
  BY <1>5, FollowNext
<1>6. FollowInv(c, last, FollowingCuts!Run(c, x, ids, last))
  BY <1>1, <1>4, <1>5, FollowingCuts!LoopKeeps
<1> QED BY <1>2, <1>3, <1>6, KeptIs DEF FollowInv

\* The loop over the histories of the edges writes no operation and changes nothing.
NoteInv(c, n, y) == Reached(y, c.x, c.x.d.graph, c.x.d.history, c.x.j.ops)
NotingSaves == INSTANCE Loop WITH Op <- SaveOp, P <- NoteInv

\* That loop.
LEMMA SavesReach ==
  ASSUME NEW x, NEW s, Reached(s, x, x.d.graph, x.d.history, x.j.ops), NEW ids,
         NEW last \in Nat, last = Max({0} \cup ids), NEW y, y = Each(SaveEdgeHistory, s, ids)
  PROVE  Reached(y, x, x.d.graph, x.d.history, x.j.ops)
<1> DEFINE c == [x |-> x]
<1>1. y = NotingSaves!Run(c, s, ids, last)
  BY DEF Each, NotingSaves!Run, SaveOp
<1>2. c.x = x
  OBVIOUS
<1> HIDE DEF c
<1>3. NoteInv(c, 0, s)
  BY <1>2 DEF NoteInv
<1>4. ASSUME NEW n \in 1 .. last, NEW z, NoteInv(c, n - 1, z)
      PROVE  NoteInv(c, n, IF n \in ids THEN SaveOp(c, z, n) ELSE z)
  <2>1. PICK w : w = SaveEdgeHistory(z, n)
    OBVIOUS
  <2>2. Reached(z, x, x.d.graph, x.d.history, x.j.ops)
    BY <1>2, <1>4 DEF NoteInv
  <2>3. Reached(w, x, x.d.graph, x.d.history, x.j.ops)
    BY <2>1, <2>2, ReachedUndoing DEF SaveEdgeHistory
  <2>4. NoteInv(c, n, w) /\ NoteInv(c, n, z)
    BY <1>2, <2>2, <2>3 DEF NoteInv
  <2> QED BY <2>1, <2>4 DEF SaveOp
<1>5. NoteInv(c, last, NotingSaves!Run(c, s, ids, last))
  BY <1>3, <1>4, NotingSaves!LoopKeeps
<1> QED BY <1>1, <1>2, <1>5 DEF NoteInv

\* Nothing is dropped of nothing.
LEMMA NoneDropped ==
  ASSUME NEW f, IsFcn(f), DOMAIN f = {}, NEW S
  PROVE  Drop(f, S) = f
<1>1. DOMAIN Drop(f, S) = {}
  BY DropIs
<1> QED BY <1>1, DropFcn, SameFcn

\* Nothing is forgotten of nothing.
LEMMA NothingForgotten ==
  ASSUME NEW h, IsHistory(h), ~HasData(h), NEW id
  PROVE  Forget(h, id) = h
<1>1. h.fields = <<>> /\ h.rels = <<>> /\ h.appears = <<>> /\ h.ends = <<>>
  BY DEF HasData, NoHistories
<1>2. /\ DOMAIN h.fields = {} /\ DOMAIN h.rels = {} /\ DOMAIN h.appears = {} /\ DOMAIN h.ends = {}
      /\ IsFcn(h.fields) /\ IsFcn(h.rels) /\ IsFcn(h.appears) /\ IsFcn(h.ends)
  BY <1>1, EmptyFcn DEF IsHistory
<1>3. PICK new : new = Forget(h, id)
  OBVIOUS
<1>4. new.fields = h.fields /\ new.rels = h.rels /\ new.appears = h.appears /\ new.ends = h.ends
  <2>1. /\ new.fields = Drop(h.fields, FieldsOf(h, id))
        /\ new.rels = Drop(h.rels, IncidentTo(h, id))
        /\ new.appears = Drop(h.appears, {id}) /\ new.ends = Drop(h.ends, {id})
    BY <1>3, ForgetParts
  <2>2. Drop(h.fields, FieldsOf(h, id)) = h.fields
    BY <1>2, NoneDropped
  <2>3. Drop(h.rels, IncidentTo(h, id)) = h.rels
    BY <1>2, NoneDropped
  <2>4. Drop(h.appears, {id}) = h.appears
    BY <1>2, NoneDropped
  <2>5. Drop(h.ends, {id}) = h.ends
    BY <1>2, NoneDropped
  <2> QED BY <2>1, <2>2, <2>3, <2>4, <2>5
<1>5. Sections(new, new.fields, new.rels, new.appears, new.ends)
  BY <1>3 DEF Forget, Sections
<1> QED BY <1>3, <1>4, <1>5 DEF IsHistory, Sections

\* and delete_node.
LEMMA DeleteNodeFollows ==
  ASSUME NEW x, GoodX(x), NEW id, NEW y, y = JournalDeleteNode(x, id)
  PROVE  Follows(y, x)
<1> DEFINE cut     == Cut(x, id)
           noted   == SaveHistory(cut, id)
           saved   == SaveLifetime(noted, id)
           all     == Each(SaveEdgeHistory, saved, IncidentTo(cut.d.history, id))
           forgot  == [all EXCEPT !.d.history = Forget(@, id)]
           bare    == IF HasData(cut.d.history) THEN forgot ELSE cut
           last    == SaveNode(bare, id)
           gone    == [last EXCEPT !.d.graph = DeleteNode(@, id)]
           op      == [op |-> "DeleteNode", id |-> id]
<1>1. \/ y = Refusing(x) \/ y = x
      \/ id \in DOMAIN x.d.graph.nodes /\ y = Logging(gone, op)
  BY DEF JournalDeleteNode, Cut
<1>2. CASE y = Refusing(x) \/ y = x
  <2>1. Reached(x, x, x.d.graph, x.d.history, x.j.ops)
    BY GoodXIs, ReachedSelf
  <2> QED BY <1>2, <2>1, ReachedRefusing, FollowsSelf, StillFollows
<1>3. CASE id \in DOMAIN x.d.graph.nodes /\ y = Logging(gone, op)
  <2> DEFINE h == Forget(cut.d.history, id)
             g == DeleteNode(cut.d.graph, id)
  <2>1. GoodX(cut) /\ Follows(cut, x) /\ id \in DOMAIN cut.d.graph.nodes
    BY <1>3, CutsFollow
  <2>2. op.op = "DeleteNode" /\ op.id = id
    OBVIOUS
  <2> HIDE DEF cut, op
  <2>3. IsX(cut) /\ GoodGraph(cut.d.graph) /\ IsHistory(cut.d.history)
        /\ GoodFields(cut.d.history.fields) /\ GoodEdges(cut.d.history.rels)
    BY <2>1, GoodXIs
  <2>4. Does(op, cut.d, g, h)
    BY <2>1, <2>2, <2>3, DeleteNodeDoes
  <2>5. Reached(cut, cut, cut.d.graph, cut.d.history, cut.j.ops)
    BY <2>3, ReachedSelf
  <2>6. Reached(noted, cut, cut.d.graph, cut.d.history, cut.j.ops)
    BY <2>5, ReachedUndoing DEF SaveHistory
  <2> HIDE DEF noted
  <2>7. Reached(saved, cut, cut.d.graph, cut.d.history, cut.j.ops)
    BY <2>6, ReachedUndoing DEF SaveLifetime
  <2> HIDE DEF saved
  <2> DEFINE ids == IncidentTo(cut.d.history, id)
  <2>8. PICK top \in Nat : DOMAIN cut.d.history.rels \subseteq 1 .. top
    BY <2>3 DEF GoodEdges
  <2>9. ids \in SUBSET (1 .. top)
    BY <2>8 DEF IncidentTo
  <2>10. all = Each(SaveEdgeHistory, saved, ids)
    OBVIOUS
  <2> HIDE DEF ids, all
  <2>11. PICK top2 \in Nat : top2 = Max({0} \cup ids) /\ \A r \in ids : r \in 1 .. top2
    BY <2>9, LastId
  <2>12. Reached(all, cut, cut.d.graph, cut.d.history, cut.j.ops)
    BY <2>7, <2>10, <2>11, SavesReach
  <2>13. IsHistory(h)
    <3>1. \A r \in IncidentTo(cut.d.history, id) : r <= top2
      BY <2>11 DEF ids
    <3>2. h = Bared(cut.d.history, id, top2)
      BY <3>1, ForgetIs
    <3> HIDE DEF h
    <3> QED BY <2>3, <3>2, BaredGood
  <2>14. forgot = [all EXCEPT !.d.history = h]
    <3>1. all.d.history = cut.d.history
      BY <2>12, ReachedIs
    <3> QED BY <3>1, Zenon
  <2>15. ~HasData(cut.d.history) => h = cut.d.history
    BY <2>3, NothingForgotten
  <2> HIDE DEF h, forgot
  <2>16. Reached(forgot, cut, cut.d.graph, h, cut.j.ops)
    BY <2>12, <2>13, <2>14, ReachedHistory
  <2>17. Reached(bare, cut, cut.d.graph, h, cut.j.ops)
    <3>1. CASE HasData(cut.d.history)
      BY <2>16, <3>1
    <3>2. CASE ~HasData(cut.d.history)
      BY <2>5, <2>15, <3>2
    <3> QED BY <3>1, <3>2
  <2> HIDE DEF bare
  <2>18. Reached(last, cut, cut.d.graph, h, cut.j.ops)
    BY <2>17, ReachedUndoing DEF SaveNode
  <2> HIDE DEF last
  <2>19. gone = [last EXCEPT !.d.graph = g]
    <3>1. last.d.graph = cut.d.graph
      BY <2>18, ReachedIs
    <3> QED BY <3>1, Zenon
  <2> HIDE DEF gone, g
  <2>20. Reached(gone, cut, g, h, cut.j.ops)
    BY <2>18, <2>19, ReachedGraph
  <2>21. Reached(Logging(gone, op), cut, g, h, Append(cut.j.ops, op))
    BY <2>20, ReachedLogging
  <2>22. Follows(y, cut)
    BY <1>3, <2>4, <2>21, DoesFollows
  <2> QED BY <2>1, <2>22, FollowsTrans
<1> QED BY <1>1, <1>2, <1>3

-----------------------------------------------------------------------------
(* The invariant of the log.                                                *)

\* Between statements, an open makes a database alike of the log; during one,
\* it makes one alike to what the statement found, and the operations so far
\* lead from there to the database.
ReplayOpen(e)   == Alike(e, before) /\ Tracks(e, journal.ops, db)
ReplayClosed(e) == Alike(e, db)
ReplayInv ==
  \E e : /\ Logged(Base(db), log, e)
         /\ journal.open => ReplayOpen(e)
         /\ ~journal.open => ReplayClosed(e)

\* What an open begins with is what a link has left.
LEMMA BaseIs == ASSUME NEW d, NEW e, e.mirrors = d.mirrors PROVE Base(e) = Base(d)
BY DEF Base

\* What is alike to a database is alike to any with the same content.
LEMMA AlikeSame ==
  ASSUME NEW e, NEW d, Alike(e, d), NEW f, SameNames(f, d), f.history = d.history,
         f.graph.nodes = d.graph.nodes, f.graph.rels = d.graph.rels, f.graph.next = d.graph.next
  PROVE  Alike(e, f)
BY DEF Alike, Like, GraphLike, SameNames

\* A statement begins with no operation.
LEMMA StartFollows ==
  ASSUME ReplayInv, ~journal.open, NEW d, SameNames(d, db), d.history = db.history,
         d.graph.nodes = db.graph.nodes, d.graph.rels = db.graph.rels,
         d.graph.next = db.graph.next, db' = d, before' = d, log' = log,
         NEW schema, NEW at, NEW api, journal' = NewJournal(d, schema, at, api)
  PROVE  ReplayInv'
<1>1. PICK e : Logged(Base(db), log, e) /\ Alike(e, db)
  BY DEF ReplayInv, ReplayClosed
<1>2. Alike(e, d)
  BY <1>1, AlikeSame
<1>3. journal'.open /\ journal'.ops = <<>>
  BY DEF NewJournal
<1>4. Tracks(e, <<>>, d)
  BY <1>2, PlayedNone DEF Tracks
<1>5. Base(d) = Base(db)
  BY BaseIs DEF SameNames
<1> QED BY <1>1, <1>2, <1>3, <1>4, <1>5 DEF ReplayInv, ReplayOpen

\* A call that is followed keeps the invariant.
LEMMA CallFollows ==
  ASSUME JournalInv, ReplayInv, NEW y, Calls(y), Kept(y, Now), Follows(y, Now)
  PROVE  ReplayInv'
<1>1. /\ journal.open /\ db' = y.d /\ before' = before /\ log' = log
      /\ journal' = [y.j EXCEPT !.calls = @ + 1]
  BY DEF Calls
<1>2. Now.d = db /\ Now.j = journal
  BY <1>1, NowGood
<1>3. GoodX(y) /\ SameRest(y, Now)
  BY DEF Kept
<1>4. IsJournal(y.j)
  BY <1>3, GoodXIs DEF IsX
<1>5. PICK v : v = y.j.calls + 1
  OBVIOUS
<1>6. journal' = [y.j EXCEPT !.calls = v]
  BY <1>1, <1>5, Zenon
<1>7. journal'.ops = y.j.ops /\ journal'.open
  <2>1. journal'.ops = y.j.ops /\ journal'.open = y.j.open
    BY <1>4, <1>6, CountedOps, CountedCall
  <2> QED BY <1>1, <1>2, <1>3, <2>1 DEF SameRest
<1>8. PICK e : Logged(Base(db), log, e) /\ Alike(e, before) /\ Tracks(e, journal.ops, db)
  BY <1>1 DEF ReplayInv, ReplayOpen
<1>9. Tracks(e, y.j.ops, y.d)
  BY <1>2, <1>8 DEF Follows
<1>10. Base(y.d) = Base(db)
  BY <1>2, <1>3, BaseIs DEF SameRest
<1> QED BY <1>1, <1>7, <1>8, <1>9, <1>10 DEF ReplayInv, ReplayOpen

\* insert_node,
LEMMA InsertFollows ==
  ASSUME JournalInv, ReplayInv, NEW node \in NodeInputs, Insert(node) PROVE ReplayInv'
<1>1. PICK y : y = JournalCreateNode(Now, node)
  OBVIOUS
<1>2. Calls(y) /\ journal.open
  BY <1>1 DEF Insert
<1>3. GoodX(Now) /\ GoodNode(node)
  BY <1>2, NowGood, InputsGood
<1>4. Kept(y, Now)
  BY <1>1, <1>3, JournalCreateNodeKept
<1>5. Follows(y, Now)
  BY <1>1, <1>3, CreateNodeFollows
<1> QED BY <1>2, <1>4, <1>5, CallFollows

\* a set,
LEMMA SetFollows ==
  ASSUME JournalInv, ReplayInv, NEW id, NEW props \in PropInputs, Set(id, props) PROVE ReplayInv'
<1>1. PICK y : y = JournalUpdateNode(Now, id, props)
  OBVIOUS
<1>2. Calls(y) /\ journal.open
  BY <1>1 DEF Set
<1>3. GoodX(Now) /\ GoodProps(props)
  BY <1>2, NowGood, InputsGood
<1>4. Kept(y, Now)
  BY <1>1, <1>3, JournalUpdateNodeKept
<1>5. Follows(y, Now)
  BY <1>1, <1>3, UpdateNodeFollows
<1> QED BY <1>2, <1>4, <1>5, CallFollows

\* connect,
LEMMA ConnectFollows ==
  ASSUME JournalInv, ReplayInv, NEW parent, NEW child, NEW kind, NEW direction,
         Connect(parent, child, kind, direction)
  PROVE  ReplayInv'
<1> DEFINE from == IF direction = "out" THEN parent ELSE child
           to == IF direction = "out" THEN child ELSE parent
           rel == [kind |-> kind, from |-> from, to |-> to]
<1>1. PICK y : y = JournalCreateRelationship(Now, rel)
  OBVIOUS
<1>2. Calls(y) /\ journal.open /\ parent \in DOMAIN db.graph.nodes
      /\ child \in DOMAIN db.graph.nodes
  BY <1>1 DEF Connect
<1>3. GoodX(Now) /\ Now.d = db
  BY <1>2, NowGood
<1>4. rel.from \in DOMAIN Now.d.graph.nodes /\ rel.to \in DOMAIN Now.d.graph.nodes
  BY <1>2, <1>3
<1> HIDE DEF rel
<1>5. Kept(y, Now)
  BY <1>1, <1>3, <1>4, JournalCreateRelationshipKept
<1>6. Follows(y, Now)
  BY <1>1, <1>3, CreateRelationshipFollows
<1> QED BY <1>2, <1>5, <1>6, CallFollows

\* a relationship deleted,
LEMMA DisconnectFollows == ASSUME JournalInv, ReplayInv, NEW id, Disconnect(id) PROVE ReplayInv'
<1>1. PICK y : y = JournalDeleteRelationship(Now, id)
  OBVIOUS
<1>2. Calls(y) /\ journal.open
  BY <1>1 DEF Disconnect
<1>3. GoodX(Now)
  BY <1>2, NowGood
<1>4. Kept(y, Now)
  BY <1>1, <1>3, JournalDeleteRelationshipKept
<1>5. Follows(y, Now)
  BY <1>1, <1>3, DeleteRelationshipFollows
<1> QED BY <1>2, <1>4, <1>5, CallFollows

\* and a node deleted.
LEMMA DeleteFollows == ASSUME JournalInv, ReplayInv, NEW id, Delete(id) PROVE ReplayInv'
<1>1. PICK y : y = JournalDeleteNode(Now, id)
  OBVIOUS
<1>2. /\ Calls(y) /\ journal.open
      /\ EarlyDeletes \/ ~ \E r \in NodeRelationships(db.graph, id) \cap DOMAIN db.history.rels :
                             journal.at < db.history.rels[r].from
  BY <1>1 DEF Delete
<1>3. GoodX(Now) /\ Now.d = db /\ Now.j = journal
  BY <1>2, NowGood
<1>4. Grounded(Now.d) => \A r \in NodeRelationships(Now.d.graph, id) : ~Early(Now, r)
  BY <1>2, <1>3, GroundedIs DEF Early
<1>5. Kept(y, Now)
  BY <1>1, <1>3, <1>4, JournalDeleteNodeKept
<1>6. Follows(y, Now)
  BY <1>1, <1>3, DeleteNodeFollows
<1> QED BY <1>2, <1>5, <1>6, CallFollows

\* execute begins with the indexes of its schema, which no log holds.
LEMMA BeginFollows ==
  ASSUME JournalInv, ReplayInv, NEW schema \in Schemas, NEW at \in Times, Begin(schema, at)
  PROVE  ReplayInv'
<1> DEFINE g == db.graph
           new == SyncUniques(SyncIndexes(g, schema.ranges), schema.uniques)
           d == [db EXCEPT !.graph = new]
<1>1. /\ db' = d /\ before' = d /\ journal' = NewJournal(d, schema, at, FALSE)
      /\ ~journal.open /\ log' = log
  BY DEF Begin
<1>2. IsDb(db) /\ GoodGraph(g)
  BY DEF JournalInv, GoodDb
<1>3. \A slot \in schema.ranges : slot = <<slot[1], slot[2]>>
  BY SchemasAssumption
<1>4. new.nodes = g.nodes /\ new.rels = g.rels /\ new.next = g.next
  BY <1>2, <1>3, SyncedIs
<1> HIDE DEF new
<1>5. SameNames(d, db) /\ d.graph = new /\ d.history = db.history
  BY <1>2, DbGraph
<1> HIDE DEF d
<1> QED BY <1>1, <1>4, <1>5, StartFollows

\* delete_node and delete_relationship begin with what is there.
LEMMA BeginCallFollows ==
  ASSUME ReplayInv, NEW now \in Times, BeginCall(now) PROVE ReplayInv'
<1>1. /\ db' = db /\ before' = db /\ journal' = NewJournal(db, NoSchema, now, TRUE)
      /\ ~journal.open /\ log' = log
  BY DEF BeginCall
<1>2. SameNames(db, db)
  BY DEF SameNames
<1> QED BY <1>1, <1>2, StartFollows

\* A statement that ends without an entry in the log leaves what it found, or
\* wrote no operation.
LEMMA ClosedFollows ==
  ASSUME NEW e, Logged(Base(db), log, e), Alike(e, db'), Base(db') = Base(db), log' = log,
         ~journal'.open
  PROVE  ReplayInv'
BY DEF ReplayInv, ReplayClosed

\* roll_back leaves what the statement found, and the log as it was.
LEMMA FailFollows == ASSUME JournalInv, ReplayInv, ~EarlyDeletes, Fail PROVE ReplayInv'
<1> DEFINE d == RollBack(db, journal)
<1>1. journal.open /\ db' = d /\ journal' = NoJournal /\ log' = log
  BY DEF Fail
<1>2. SameNames(d, before) /\ d.graph.next = before.graph.next /\ FactsOf(d) = FactsOf(before)
  BY <1>1, RolledBack
<1> HIDE DEF d
<1>3. d.graph.nodes = before.graph.nodes /\ d.graph.rels = before.graph.rels
      /\ d.history = before.history
  BY <1>2, FactsOfAre
<1>4. PICK e : Logged(Base(db), log, e) /\ Alike(e, before)
  BY <1>1 DEF ReplayInv, ReplayOpen
<1>5. Alike(e, d)
  BY <1>2, <1>3, <1>4, AlikeSame
<1>6. Base(d) = Base(db)
  <2>1. SameNames(db, before)
    BY <1>1 DEF JournalInv, Open
  <2> QED BY <1>2, <2>1, BaseIs DEF SameNames
<1>7. ~journal'.open
  BY <1>1 DEF NoJournal
<1> QED BY <1>1, <1>4, <1>5, <1>6, <1>7, ClosedFollows

\* A statement that wrote no operation changed nothing.
LEMMA ReadOnlyFollows == ASSUME ReplayInv, ReadOnly PROVE ReplayInv'
<1>1. journal.open /\ journal.ops = <<>> /\ db' = db /\ log' = log /\ ~journal'.open
  BY DEF ReadOnly, NoJournal
<1>2. PICK e : Logged(Base(db), log, e) /\ Tracks(e, <<>>, db)
  BY <1>1 DEF ReplayInv, ReplayOpen
<1>3. PICK now : Alike(now, db) /\ Played(e, <<>>, now)
  BY <1>2 DEF Tracks
<1>4. PICK f : Runs(f, e, <<>>, now)
  BY <1>3 DEF Played
<1>5. now = e
  <2>1. f[0] = e /\ f[Len(<<>>)] = now
    BY <1>4 DEF Runs
  <2>2. Len(<<>>) = 0
    OBVIOUS
  <2> QED BY <2>1, <2>2
<1> QED BY <1>1, <1>2, <1>3, <1>5, ClosedFollows

\* The commit of an entry publishes what the statement published.
LEMMA CommitDoes ==
  ASSUME NEW e, NEW d, IsDb(d), Alike(e, d), NEW op, op.op = "Commit", NEW new,
         new = Apply(e, op), NEW now, now = Publish(d, op)
  PROVE  Alike(new, now)
<1>1. IsDb(e) /\ SameNames(e, d) /\ e.history = d.history /\ GraphLike(e.graph, d.graph)
  BY AlikeIs
<1>2. new = Publish(e, op)
  BY DEF Apply
<1>3. IsDb(new) /\ new.graph = e.graph /\ new.history = e.history /\ new.mirrors = e.mirrors
  BY <1>1, <1>2, PublishIs
<1>4. now.graph = d.graph /\ now.history = d.history /\ now.mirrors = d.mirrors
  BY PublishIs
<1>5. new.version = op.version /\ now.version = op.version
  BY <1>1, <1>2 DEF Publish, IsDb
<1>6. /\ new.identities = Over(e.identities, NewIds(op.keys))
      /\ new.external = Over(e.external, NewNames(op.keys))
  BY <1>1, <1>2, PublishNames
<1>7. /\ now.identities = Over(d.identities, NewIds(op.keys))
      /\ now.external = Over(d.external, NewNames(op.keys))
  BY PublishNames
<1>8. SameNames(new, now)
  BY <1>1, <1>3, <1>4, <1>5, <1>6, <1>7 DEF SameNames
<1> QED BY <1>1, <1>3, <1>4, <1>8 DEF Alike, Like

\* An accepted statement's entry leads on to what it left.
LEMMA AcceptedFollows == ASSUME JournalInv, ReplayInv, Accepted PROVE ReplayInv'
<1>1. PICK op : op = Record(db, journal.ops)
  OBVIOUS
<1>2. PICK now : now = Publish(db, op)
  OBVIOUS
<1>3. PICK ops : ops = journal.ops
  OBVIOUS
<1>4. PICK entry : entry = Append(ops, op)
  OBVIOUS
<1>5. journal.open /\ db' = now /\ log' = Append(log, entry) /\ ~journal'.open
  BY <1>1, <1>2, <1>3, <1>4 DEF Accepted, NoJournal
<1>6. PICK e : Logged(Base(db), log, e) /\ Tracks(e, ops, db)
  BY <1>3, <1>5 DEF ReplayInv, ReplayOpen
<1>7. PICK a : IsSeq(ops) /\ Alike(a, db) /\ Played(e, ops, a)
  BY <1>6 DEF Tracks
<1>8. PICK new : new = Apply(a, op)
  OBVIOUS
<1>9. Played(e, entry, new) /\ IsSeq(entry)
  BY <1>4, <1>7, <1>8, PlayedGrows
<1>10. new = ApplyAll(e, entry)
  BY <1>9, PlayedIs
<1>11. PICK more : more = Append(log, entry)
  OBVIOUS
<1>12. Logged(Base(db), more, new)
  BY <1>6, <1>10, <1>11, LoggedGrows
<1>13. IsDb(db) /\ op.op = "Commit"
  BY <1>1 DEF JournalInv, GoodDb, Record
<1>14. Alike(new, now)
  BY <1>2, <1>7, <1>8, <1>13, CommitDoes
<1>15. Base(now) = Base(db)
  BY <1>2, <1>13, PublishIs, BaseIs
<1> QED BY <1>5, <1>11, <1>12, <1>14, <1>15 DEF ReplayInv, ReplayClosed

\* A first open finds an empty log.
LEMMA InitFollows == ASSUME Init PROVE ReplayInv
<1>1. log = <<>> /\ ~journal.open /\ (db = Empty \/ db = WithMirror)
  BY DEF Init, NoJournal
<1>2. GoodDb(db)
  BY <1>1, EmptyGood, WithMirrorGood
<1>3. Alike(db, db)
  BY <1>2 DEF Alike, Like, GraphLike, SameNames, GoodDb
<1>4. Base(db) = db
  <2>1. Empty.mirrors = <<>> /\ DOMAIN <<>> = {}
    BY EmptyGood, EmptyFcn
  <2>2. DOMAIN WithMirror.mirrors # {}
    <3>1. PICK graph : graph = WithMirror.graph
      OBVIOUS
    <3> DEFINE mirrors == [m \in {1, 2} |-> IF m = 1 THEN {1} ELSE {}]
    <3>2. PICK g : WithMirror = [Empty EXCEPT !.graph = g, !.mirrors = mirrors]
      BY DEF WithMirror
    <3>3. 1 \in DOMAIN mirrors
      OBVIOUS
    <3> HIDE DEF mirrors
    <3>4. WithMirror.mirrors = mirrors
      BY <3>2, EmptyGood DEF GoodDb, IsDb
    <3> QED BY <3>3, <3>4
  <2> HIDE DEF Empty, WithMirror
  <2> QED BY <1>1, <2>1, <2>2 DEF Base
<1>5. Logged(Base(db), log, db)
  BY <1>1, <1>4, LoggedNone
<1> QED BY <1>1, <1>3, <1>5 DEF ReplayInv, ReplayClosed

\* The inductive invariant: that of the undo list, and what replay makes of the log.
LogInv == JournalInv /\ (~EarlyDeletes => ReplayInv)

\* Every step keeps it.
LEMMA NextFollows == ASSUME LogInv, [Next]_vars PROVE LogInv'
<1>1. JournalInv'
  BY NextKeeps DEF LogInv
<1>2. ASSUME ~EarlyDeletes PROVE ReplayInv'
  <2>1. JournalInv /\ ReplayInv
    BY <1>2 DEF LogInv
  <2>2. CASE UNCHANGED vars
    BY <2>1, <2>2 DEF ReplayInv, ReplayOpen, ReplayClosed, vars
  <2>3. CASE Next
    BY <1>2, <2>1, <2>3, BeginFollows, BeginCallFollows, InsertFollows, SetFollows, ConnectFollows,
       DisconnectFollows, DeleteFollows, FailFollows, AcceptedFollows, ReadOnlyFollows DEF Next
  <2> QED BY <2>2, <2>3
<1> QED BY <1>1, <1>2 DEF LogInv

\* The invariant holds: the log, and after it the operations of an open
\* statement, lead an open to the nodes, edges, histories, identities and
\* counters in memory.
THEOREM LogInvariant == Spec => []LogInv
<1>1. Init => LogInv
  BY InitKeeps, InitFollows DEF LogInv
<1>2. LogInv /\ [Next]_vars => LogInv'
  BY NextFollows
<1> QED BY <1>1, <1>2, PTL DEF Spec

\* Alike databases are stored alike.
LEMMA AlikeStored ==
  ASSUME NEW e, NEW d, Alike(e, d), GoodDb(d)
  PROVE  Stored(e) = Stored(d)
<1>1. IsDb(e) /\ SameNames(e, d) /\ e.history = d.history /\ GraphLike(e.graph, d.graph)
  BY AlikeIs
<1>2. PICK g : g = e.graph
  OBVIOUS
<1>3. PICK k : k = d.graph
  OBVIOUS
<1>4. g.nodes = k.nodes /\ g.rels = k.rels /\ g.next = k.next /\ Indexed(g)
  BY <1>1, <1>2, <1>3, GraphLikeIs, GoodGraphIs
<1>5. Indexed(k)
  BY <1>3, GoodGraphIs DEF GoodDb
<1>6. g.adjacency = EdgesIn(g.rels) /\ k.adjacency = EdgesIn(k.rels)
  BY <1>4, <1>5, IndexedIs, PartsAre
<1> DEFINE s == [nodes |-> g.nodes, rels |-> g.rels, adjacency |-> g.adjacency, next |-> g.next]
           t == [nodes |-> k.nodes, rels |-> k.rels, adjacency |-> k.adjacency, next |-> k.next]
<1>7. s = t
  BY <1>4, <1>6
<1>8. Stored(e) = [e EXCEPT !.graph = s] /\ Stored(d) = [d EXCEPT !.graph = t]
  BY <1>2, <1>3, Zenon DEF Stored
<1> HIDE DEF s, t
<1> QED BY <1>1, <1>7, <1>8 DEF SameNames, GoodDb, IsDb

\* An open makes of the log the graph in memory, with its histories, identities
\* and counters, whatever statements failed in between, if no node is deleted
\* before one of its edges began.
THEOREM LogIsMemory == ~EarlyDeletes => (Spec => []ReplayIsMemory)
<1> SUFFICES ASSUME ~EarlyDeletes PROVE Spec => []ReplayIsMemory
  OBVIOUS
<1>1. ASSUME LogInv PROVE ReplayIsMemory
  <2> SUFFICES ASSUME ~journal.open PROVE Stored(Replay(Base(db), log)) = Stored(db)
    BY DEF ReplayIsMemory
  <2>1. PICK e : Logged(Base(db), log, e) /\ Alike(e, db)
    BY <1>1 DEF LogInv, ReplayInv, ReplayClosed
  <2>2. Replay(Base(db), log) = e
    BY <2>1, LoggedIs
  <2>3. Stored(e) = Stored(db)
    BY <1>1, <2>1, AlikeStored DEF LogInv, JournalInv
  <2> QED BY <2>2, <2>3
<1> QED BY <1>1, LogInvariant, PTL

-----------------------------------------------------------------------------
(* Constraints: no second node with a unique value, no second target.       *)

\* A set has more than one element if two of its elements differ, and not
\* otherwise.
LEMMA MoreThanOne ==
  ASSUME NEW S
  PROVE  /\ Cardinality(S) > 1 => \E a, b \in S : a # b
         /\ IsFiniteSet(S) /\ (\E a, b \in S : a # b) => Cardinality(S) > 1
<1>1. ASSUME ~ \E a, b \in S : a # b PROVE ~(Cardinality(S) > 1)
  <2>1. CASE S = {}
    BY <2>1, FS_EmptySet
  <2>2. CASE S # {}
    <3>1. PICK a : a \in S
      BY <2>2
    <3>2. S = {a}
      BY <1>1, <3>1
    <3>3. Cardinality({a}) = 1
      BY FS_Singleton, Zenon
    <3> QED BY <3>2, <3>3
  <2> QED BY <2>1, <2>2
<1>2. ASSUME IsFiniteSet(S), NEW a \in S, NEW b \in S, a # b PROVE Cardinality(S) > 1
  <2>1. Cardinality(S) \in Nat
    BY <1>2, FS_CardinalityType
  <2>2. Cardinality(S) # 0
    BY <1>2, FS_EmptySet
  <2>3. Cardinality(S) # 1
    <3>1. ~ \E x : S = {x}
      BY <1>2
    <3> QED BY <1>2, <3>1, FS_Singleton
  <2> QED BY <2>1, <2>2, <2>3
<1> QED BY <1>1, <1>2

\* Two nodes of a type have a value of a field.
Twins(nodes, slot, v) ==
  \E a, b \in Filed(nodes, slot) : a # b /\ Key(nodes, slot, a) = v /\ Key(nodes, slot, b) = v

\* Two relationships of a kind leave a node, or enter it.
End(rel, side) == IF side = "out" THEN rel.from ELSE rel.to
Forks(rels, view, id) ==
  \E r, s \in DOMAIN rels : /\ r # s /\ rels[r].kind = view[1] /\ rels[s].kind = view[1]
                            /\ End(rels[r], view[2]) = id /\ End(rels[s], view[2]) = id

\* Duplicates are twins.
LEMMA DuplicatesAre ==
  ASSUME NEW d, Grounded(d), GoodGraph(d.graph), NEW slot, NEW v
  PROVE  v \in Duplicates(d.graph, slot) <=> v \in Values /\ Twins(d.graph.nodes, slot, v)
<1> DEFINE S == {id \in DOMAIN d.graph.nodes : Files(slot, d.graph.nodes[id])
                                                 /\ d.graph.nodes[id].props[slot[2]] = v}
<1>1. Twins(d.graph.nodes, slot, v) <=> \E a, b \in S : a # b
  BY DEF Twins, Filed, Key
<1>2. v \in Duplicates(d.graph, slot) <=> v \in Values /\ Cardinality(S) > 1
  BY DEF Duplicates
<1>3. IsFiniteSet(S)
  <2>1. d.graph.next.node \in Nat /\ \A id \in S : id \in Nat /\ id <= d.graph.next.node
    BY GroundedIs, GoodGraphIs
  <2>2. S \in SUBSET Nat
    BY <2>1
  <2> HIDE DEF S
  <2> QED BY <2>1, <2>2, FS_BoundedSetOfNaturals
<1> HIDE DEF S
<1> QED BY <1>1, <1>2, <1>3, MoreThanOne

\* A node with too many targets is one where relationships fork.
LEMMA CrowdedAre ==
  ASSUME NEW d, GoodGraph(d.graph), NEW view, view[2] \in {"out", "inc"}, NEW id
  PROVE  id \in Crowded(d.graph, view)
           <=> id \in DOMAIN d.graph.nodes /\ Forks(d.graph.rels, view, id)
<1>0. PICK g : g = d.graph /\ GoodGraph(g)
  OBVIOUS
<1> DEFINE S == {r \in DOMAIN g.rels : g.rels[r].kind = view[1] /\ End(g.rels[r], view[2]) = id}
<1>1. Neighbors(g, id, view[1], view[2]) = S
  <2>1. /\ Adjacent(g, id).out = {r \in DOMAIN g.rels : g.rels[r].from = id}
        /\ Adjacent(g, id).inc = {r \in DOMAIN g.rels : g.rels[r].to = id}
    BY <1>0, AdjacencyFinds
  <2>2. Adjacent(g, id)[view[2]] = {r \in DOMAIN g.rels : End(g.rels[r], view[2]) = id}
    <3>1. CASE view[2] = "out"
      BY <2>1, <3>1 DEF End
    <3>2. CASE view[2] = "inc"
      BY <2>1, <3>2 DEF End
    <3> QED BY <3>1, <3>2
  <2> QED BY <2>2 DEF Neighbors
<1>2. Forks(g.rels, view, id) <=> \E r, s \in S : r # s
  BY DEF Forks
<1>3. IsFiniteSet(S)
  <2>1. PICK top \in Nat : DOMAIN g.rels \subseteq 1 .. top
    BY <1>0, GoodGraphIs
  <2>2. S \in SUBSET (1 .. top) /\ IsFiniteSet(1 .. top)
    BY <2>1, FS_Interval
  <2> HIDE DEF S
  <2> QED BY <2>2, FS_Subset
<1>4. id \in Crowded(g, view) <=> id \in DOMAIN g.nodes /\ Cardinality(S) > 1
  BY <1>1 DEF Crowded
<1> HIDE DEF S
<1> QED BY <1>0, <1>2, <1>3, <1>4, MoreThanOne

-----------------------------------------------------------------------------
(* What each call makes of them.                                            *)

\* No value is shared, and nothing forks, that did not before.
NoNewTwins(new, old, slot)  == \A v : Twins(new, slot, v) => Twins(old, slot, v)
NoNewForks(new, old, view)  == \A id : Forks(new, view, id) => Forks(old, view, id)

\* Fewer nodes share less.
LEMMA FewerTwins ==
  ASSUME NEW nodes, NEW id, NEW slot
  PROVE  NoNewTwins(Without(nodes, id), nodes, slot)
BY LessIs DEF NoNewTwins, Twins, Filed, Files, Key

\* Some of the relationships are gone, and the others as they were.
Fewer(new, old) == \A r \in DOMAIN new : r \in DOMAIN old /\ new[r] = old[r]

\* So fewer relationships fork less.
LEMMA FewerForks ==
  ASSUME NEW new, NEW old, Fewer(new, old), NEW view
  PROVE  NoNewForks(new, old, view)
BY DEF Fewer, NoNewForks, Forks

\* A node more shares no value, if no node has the ones it comes with.
LEMMA FirstTwins ==
  ASSUME NEW nodes, NEW id, id \notin DOMAIN nodes, NEW node, NEW slot,
         Files(slot, node) =>
           \A a \in Filed(nodes, slot) : Key(nodes, slot, a) # node.props[slot[2]]
  PROVE  NoNewTwins(Put(nodes, id, node), nodes, slot)
<1>1. PICK more : more = Put(nodes, id, node)
  OBVIOUS
<1>2. /\ \A x : x \in DOMAIN more <=> x \in DOMAIN nodes \/ x = id
      /\ more[id] = node /\ \A x \in DOMAIN nodes : more[x] = nodes[x]
  BY <1>1, PutIs
<1>3. /\ \A x \in Filed(more, slot) : x # id => x \in Filed(nodes, slot)
                                                  /\ Key(more, slot, x) = Key(nodes, slot, x)
      /\ id \in Filed(more, slot) => Files(slot, node) /\ Key(more, slot, id) = node.props[slot[2]]
  BY <1>2 DEF Filed, Files, Key
<1>4. NoNewTwins(more, nodes, slot)
  BY <1>3 DEF NoNewTwins, Twins
<1> QED BY <1>1, <1>4

\* A change of a node shares no value, if no other node has the ones it writes.
LEMMA ChangedTwins ==
  ASSUME NEW nodes, NEW id \in DOMAIN nodes, NEW props, NEW slot,
         slot[1] \in nodes[id].labels /\ slot[2] \in DOMAIN props =>
           \/ id \in Filed(nodes, slot) /\ props[slot[2]] = Key(nodes, slot, id)
           \/ \A a \in Filed(nodes, slot) : a # id => Key(nodes, slot, a) # props[slot[2]]
  PROVE  NoNewTwins(Put(nodes, id, Changed(nodes[id], props)), nodes, slot)
<1>0. PICK node : node = Changed(nodes[id], props)
  OBVIOUS
<1>1. PICK more : more = Put(nodes, id, node)
  OBVIOUS
<1>2. /\ \A x : x \in DOMAIN more <=> x \in DOMAIN nodes
      /\ more[id] = node /\ \A x \in DOMAIN nodes : x # id => more[x] = nodes[x]
  BY <1>1, PutIs
<1>3. /\ node.labels = nodes[id].labels
      /\ \A f : f \in DOMAIN node.props <=> f \in DOMAIN nodes[id].props \/ f \in DOMAIN props
      /\ \A f \in DOMAIN props : node.props[f] = props[f]
      /\ \A f \in DOMAIN nodes[id].props :
           f \notin DOMAIN props => node.props[f] = nodes[id].props[f]
  BY <1>0, ChangedIs
<1>4. \A x \in Filed(more, slot) : x # id => x \in Filed(nodes, slot)
                                               /\ Key(more, slot, x) = Key(nodes, slot, x)
  BY <1>2 DEF Filed, Files, Key
<1>5. CASE slot[1] \in nodes[id].labels /\ slot[2] \in DOMAIN props
  <2>1. Key(more, slot, id) = props[slot[2]]
    BY <1>2, <1>3, <1>5 DEF Key
  <2> QED BY <1>0, <1>1, <1>4, <1>5, <2>1 DEF NoNewTwins, Twins
<1>6. CASE ~(slot[1] \in nodes[id].labels /\ slot[2] \in DOMAIN props)
  <2>1. id \in Filed(more, slot) => id \in Filed(nodes, slot)
                                      /\ Key(more, slot, id) = Key(nodes, slot, id)
    BY <1>2, <1>3, <1>6 DEF Filed, Files, Key
  <2> QED BY <1>0, <1>1, <1>4, <2>1 DEF NoNewTwins, Twins
<1> QED BY <1>5, <1>6

\* A relationship more forks nothing of a view, if the view has none there.
LEMMA FirstForks ==
  ASSUME NEW rels, NEW r, r \notin DOMAIN rels, NEW rel, NEW view,
         rel.kind = view[1] =>
           \A s \in DOMAIN rels : rels[s].kind = view[1] =>
             End(rels[s], view[2]) # End(rel, view[2])
  PROVE  NoNewForks(Put(rels, r, rel), rels, view)
<1>1. PICK more : more = Put(rels, r, rel)
  OBVIOUS
<1>2. /\ \A x : x \in DOMAIN more <=> x \in DOMAIN rels \/ x = r
      /\ more[r] = rel /\ \A x \in DOMAIN rels : more[x] = rels[x]
  BY <1>1, PutIs
<1>3. NoNewForks(more, rels, view)
  BY <1>2 DEF NoNewForks, Forks
<1> QED BY <1>1, <1>3

\* What a dated field stores after a change of it: the value written, or, if the
\* history has a later one, what it stored.
LEMMA CurrentOf ==
  ASSUME NEW nodes, NEW h, IsHistory(h), GoodFields(h.fields), FieldsTold(nodes, h.fields),
         NEW id \in DOMAIN nodes, NEW props, GoodProps(props), NEW at \in Nat, NEW fields,
         NEW f \in fields, f \in DOMAIN props, Dates(nodes[id].labels, f),
         NEW new, new = RecordHistory(h, id, at, props, fields),
         NEW current, current = CurrentProps(new, id, props, fields)
  PROVE  \/ current[f] = props[f]
         \/ f \in DOMAIN nodes[id].props /\ current[f] = nodes[id].props[f]
<1>0. PICK key : key = <<id, f>>
  OBVIOUS
<1>1. key = <<id, f>> /\ key[1] = id /\ key[2] = f
  BY <1>0
<1>2. current[f] = Current(new.fields[key])
  BY <1>1 DEF CurrentProps, Over
<1>3. Wrote(id, props, fields, key)
  BY <1>1 DEF Wrote
<1>4. key \in DOMAIN new.fields
      /\ new.fields[key] = InsertChange((IF key \in DOMAIN h.fields THEN h.fields[key] ELSE <<>>),
                                        at, props[key[2]])
  BY <1>3, RecordedIs
<1>5. PICK v \in Nat : v = props[f]
  BY DEF GoodProps
<1>6. CASE key \in DOMAIN h.fields
  <2>1. PICK old \in Seq(Change) : old = h.fields[key]
    BY <1>6 DEF GoodFields, GoodChanges
  <2>2. /\ InOrder(old) /\ f \in DOMAIN nodes[id].props
        /\ nodes[id].props[f] = Current(old)
    BY <1>1, <1>6, <2>1 DEF FieldsTold
  <2>3. new.fields[key] = InsertChange(old, at, v)
    BY <1>1, <1>4, <1>5, <1>6, <2>1
  <2>4. Current(InsertChange(old, at, v)) = v \/ Current(InsertChange(old, at, v)) = Current(old)
    BY <2>2, InsertedCurrent
  <2> QED BY <1>2, <1>5, <2>2, <2>3, <2>4
<1>7. CASE key \notin DOMAIN h.fields
  <2>1. new.fields[key] = InsertChange(<<>>, at, v)
    BY <1>1, <1>4, <1>5, <1>7
  <2>2. Current(InsertChange(<<>>, at, v)) = v
    BY FirstChange
  <2> QED BY <1>2, <1>5, <2>1, <2>2
<1> QED BY <1>6, <1>7

-----------------------------------------------------------------------------
(* What each call makes of the constraints of its schema.                   *)

\* A call keeps the unique indexes, and shares and forks nothing that its
\* schema declares.
Tight(y, x) ==
  /\ SameSlots(y.d.graph, x.d.graph)
  /\ \A slot \in x.j.schema.uniques : NoNewTwins(y.d.graph.nodes, x.d.graph.nodes, slot)
  /\ \A view \in x.j.schema.single : NoNewForks(y.d.graph.rels, x.d.graph.rels, view)

\* A step that leaves nodes and relationships is tight.
LEMMA SameTight ==
  ASSUME NEW x, NEW y, y.d.graph = x.d.graph PROVE Tight(y, x)
BY DEF Tight, SameSlots, NoNewTwins, NoNewForks

\* So is one that leaves the relationships and shares no value,
LEMMA NodesTight ==
  ASSUME NEW x, NEW y, SameSlots(y.d.graph, x.d.graph), y.d.graph.rels = x.d.graph.rels,
         \A slot \in x.j.schema.uniques : NoNewTwins(y.d.graph.nodes, x.d.graph.nodes, slot)
  PROVE  Tight(y, x)
BY DEF Tight, NoNewForks

\* and one that leaves the nodes and forks nothing.
LEMMA RelsTight ==
  ASSUME NEW x, NEW y, SameSlots(y.d.graph, x.d.graph), y.d.graph.nodes = x.d.graph.nodes,
         \A view \in x.j.schema.single : NoNewForks(y.d.graph.rels, x.d.graph.rels, view)
  PROVE  Tight(y, x)
BY DEF Tight, NoNewTwins

\* A lifetime is in no index and no node.
LEMMA LifetimeGraph ==
  ASSUME NEW x, NEW id, NEW y, Lifetime(y, x, id)
  PROVE  y.d.graph = x.d.graph
BY BecomesIs DEF Lifetime, Quiet, LifetimeSet

\* create_node, if no node has a value of a unique field that it comes with.
LEMMA CreateNodeTight ==
  ASSUME NEW x, GoodX(x), Grounded(x.d), NEW node,
         \A slot \in x.j.schema.uniques : Files(slot, node) =>
           \A a \in Filed(x.d.graph.nodes, slot) :
             Key(x.d.graph.nodes, slot, a) # node.props[slot[2]],
         NEW y, y = JournalCreateNode(x, node)
  PROVE  Tight(y, x)
<1>1. PICK id : id = x.d.graph.next.node
  OBVIOUS
<1>2. PICK fields : fields = TemporalFields(x, node.labels, node.props)
  OBVIOUS
<1>3. PICK s, t : /\ NodeCreated(s, x, node)
                  /\ Quiet(t, s) \/ FieldsWritten(t, s, id, node.props, fields)
                  /\ Lifetime(y, t, id)
  BY <1>1, <1>2, GoodXIs, JournalCreateNodeIs
<1>4. id \notin DOMAIN x.d.graph.nodes
  BY <1>1, GoodXIs, GoodGraphIs, GroundedIs
<1>5. s.d.graph = RestoreNode(x.d.graph, id, node)
  BY <1>1, <1>3, BecomesIs DEF NodeCreated, CreateNode
<1>6. t.d.graph = s.d.graph
  BY <1>3, BecomesIs DEF Quiet, FieldsWritten
<1>7. y.d.graph = t.d.graph
  BY <1>3, LifetimeGraph
<1>8. PICK g : g = y.d.graph /\ g = RestoreNode(x.d.graph, id, node)
  BY <1>5, <1>6, <1>7
<1>9. /\ g.nodes = Put(x.d.graph.nodes, id, node) /\ g.rels = x.d.graph.rels
      /\ SameSlots(g, x.d.graph)
  BY <1>8, GoodXIs, GoodGraphIs, RestoreNodeIs
<1>10. \A slot \in x.j.schema.uniques :
         NoNewTwins(Put(x.d.graph.nodes, id, node), x.d.graph.nodes, slot)
  BY <1>4, FirstTwins
<1> QED BY <1>8, <1>9, <1>10, NodesTight

\* What makes a dated unique field one that every schema dates.
LEMMA DatedUnique ==
  ASSUME DatesAgree, NEW schema \in Schemas, NEW slot \in schema.uniques, NEW labels,
         slot[1] \in labels, NEW ty, <<ty, slot[2]>> \in schema.temporal
  PROVE  Dates(labels, slot[2])
<1>1. \A any \in Schemas : slot \in any.temporal
  BY DEF DatesAgree
<1>2. slot = <<slot[1], slot[2]>>
  BY SchemasAssumption
<1> QED BY <1>1, <1>2, Zenon DEF Dates

\* update_node, under one of the schemas, if no other node has a value of a
\* unique field that it is given.
LEMMA UpdateNodeTight ==
  ASSUME NEW x, GoodX(x), Told(x.d), DatesAgree, x.j.schema \in Schemas,
         NEW id \in DOMAIN x.d.graph.nodes, NEW props, GoodProps(props),
         \A slot \in x.j.schema.uniques :
           slot[1] \in x.d.graph.nodes[id].labels /\ slot[2] \in DOMAIN props =>
             \A a \in Filed(x.d.graph.nodes, slot) :
               a # id => Key(x.d.graph.nodes, slot, a) # props[slot[2]],
         NEW y, y = JournalUpdateNode(x, id, props)
  PROVE  Tight(y, x)
<1>1. PICK labels : labels = x.d.graph.nodes[id].labels
  OBVIOUS
<1>2. PICK fields : fields = TemporalFields(x, labels, props)
  OBVIOUS
<1>3. PICK history : history = RecordHistory(x.d.history, id, x.j.at, props, fields)
  OBVIOUS
<1>4. PICK current : current = CurrentProps(history, id, props, fields)
  OBVIOUS
<1>5. \/ Quiet(y, x)
      \/ \E s, t : /\ \/ s = x /\ fields = {} /\ NodeChanged(t, s, id, props)
                      \/ FieldsWritten(s, x, id, props, fields) /\ NodeChanged(t, s, id, current)
                   /\ Lifetime(y, t, id)
  BY <1>1, <1>2, <1>3, <1>4, GoodXIs, JournalUpdateNodeIs, Zenon
<1>6. CASE Quiet(y, x)
  BY <1>6, SameTight, BecomesIs DEF Quiet
<1>7. CASE \E s, t : /\ \/ s = x /\ fields = {} /\ NodeChanged(t, s, id, props)
                        \/ FieldsWritten(s, x, id, props, fields) /\ NodeChanged(t, s, id, current)
                     /\ Lifetime(y, t, id)
  <2>1. PICK s, t : /\ \/ s = x /\ fields = {} /\ NodeChanged(t, s, id, props)
                       \/ FieldsWritten(s, x, id, props, fields) /\ NodeChanged(t, s, id, current)
                    /\ Lifetime(y, t, id)
    BY <1>7
  <2>2. PICK new : /\ NodeChanged(t, s, id, new) /\ s.d.graph = x.d.graph
                   /\ new = props \/ new = current
    BY <2>1, BecomesIs DEF FieldsWritten
  <2>3. y.d.graph = UpdateNode(x.d.graph, id, new)
    BY <2>1, <2>2, LifetimeGraph, BecomesIs DEF NodeChanged
  <2>4. PICK node : node = x.d.graph.nodes[id] /\ IsNode(node)
    BY GoodXIs, GoodGraphIs DEF GoodNode
  <2>5. PICK g : g = y.d.graph /\ g = UpdateNode(x.d.graph, id, new)
    BY <2>3
  <2>6. /\ g.nodes = Put(x.d.graph.nodes, id, Changed(x.d.graph.nodes[id], new))
        /\ g.rels = x.d.graph.rels /\ SameSlots(g, x.d.graph)
    BY <2>4, <2>5, GoodXIs, GoodGraphIs, UpdateNodeIs
  <2>7. /\ \A f : f \in DOMAIN current <=> f \in DOMAIN props
        /\ \A f \in DOMAIN props : f \notin fields => current[f] = props[f]
    <3>1. fields \subseteq DOMAIN props
      BY <1>2 DEF TemporalFields
    <3> QED BY <1>4, <3>1 DEF CurrentProps, Over
  <2>8. ASSUME NEW slot \in x.j.schema.uniques, slot[1] \in labels, slot[2] \in DOMAIN new
        PROVE  \/ id \in Filed(x.d.graph.nodes, slot)
                    /\ new[slot[2]] = Key(x.d.graph.nodes, slot, id)
               \/ new[slot[2]] = props[slot[2]]
    <3>1. CASE new = props \/ slot[2] \notin fields
      BY <2>2, <2>7, <2>8, <3>1
    <3>2. CASE new = current /\ slot[2] \in fields
      <4>1. slot[2] \in DOMAIN props
        BY <2>7, <2>8, <3>2
      <4>2. PICK ty \in labels : <<ty, slot[2]>> \in x.j.schema.temporal
        BY <1>2, <3>2 DEF TemporalFields
      <4>3. Dates(x.d.graph.nodes[id].labels, slot[2])
        BY <1>1, <2>8, <4>2, DatedUnique
      <4>4. /\ IsHistory(x.d.history) /\ GoodFields(x.d.history.fields) /\ x.j.at \in Nat
            /\ FieldsTold(x.d.graph.nodes, x.d.history.fields)
        BY GoodXIs DEF Told
      <4>5. PICK f \in fields : f = slot[2] /\ f \in DOMAIN props
                                /\ Dates(x.d.graph.nodes[id].labels, f)
        BY <3>2, <4>1, <4>3
      <4>6. \/ current[f] = props[f]
            \/ f \in DOMAIN x.d.graph.nodes[id].props
                 /\ current[f] = x.d.graph.nodes[id].props[f]
        BY <1>3, <1>4, <4>4, <4>5, CurrentOf
      <4>7. f \in DOMAIN x.d.graph.nodes[id].props => id \in Filed(x.d.graph.nodes, slot)
        BY <1>1, <2>8, <4>5 DEF Filed, Files
      <4> QED BY <3>2, <4>5, <4>6, <4>7 DEF Key
    <3> QED BY <2>2, <3>1, <3>2
  <2>9. ASSUME NEW slot \in x.j.schema.uniques
        PROVE  NoNewTwins(Put(x.d.graph.nodes, id, Changed(x.d.graph.nodes[id], new)),
                          x.d.graph.nodes, slot)
    <3>1. ASSUME slot[1] \in x.d.graph.nodes[id].labels, slot[2] \in DOMAIN new
          PROVE  \/ id \in Filed(x.d.graph.nodes, slot)
                      /\ new[slot[2]] = Key(x.d.graph.nodes, slot, id)
                 \/ \A a \in Filed(x.d.graph.nodes, slot) :
                      a # id => Key(x.d.graph.nodes, slot, a) # new[slot[2]]
      <4>1. slot[2] \in DOMAIN props
        BY <2>2, <2>7, <3>1
      <4> QED BY <1>1, <2>8, <3>1, <4>1
    <3> QED BY <3>1, ChangedTwins
  <2> QED BY <2>5, <2>6, <2>9, NodesTight
<1> QED BY <1>5, <1>6, <1>7

\* create_relationship, if no relationship is where a single-valued view would
\* find it.
LEMMA CreateRelationshipTight ==
  ASSUME NEW x, GoodX(x), Grounded(x.d), NEW rel,
         \A view \in x.j.schema.single : rel.kind = view[1] =>
           \A s \in DOMAIN x.d.graph.rels : x.d.graph.rels[s].kind = view[1] =>
             End(x.d.graph.rels[s], view[2]) # End(rel, view[2]),
         NEW y, y = JournalCreateRelationship(x, rel)
  PROVE  Tight(y, x)
<1>1. PICK id : id = x.d.graph.next.rel
  OBVIOUS
<1>2. PICK edge : edge = Began(rel, x.j.at)
  OBVIOUS
<1>3. PICK s : EdgeCreated(s, x, rel) /\ (Quiet(y, s) \/ EdgeDated(y, s, id, edge))
  BY <1>1, <1>2, GoodXIs, JournalCreateRelationshipIs
<1>4. id \notin DOMAIN x.d.graph.rels
  BY <1>1, GoodXIs, GoodGraphIs, GroundedIs
<1>5. s.d.graph = RestoreRelationship(x.d.graph, id, rel)
  BY <1>1, <1>3, BecomesIs DEF EdgeCreated, CreateRelationship
<1>6. y.d.graph = s.d.graph
  BY <1>3, BecomesIs DEF Quiet, EdgeDated
<1>7. PICK g : g = y.d.graph /\ g = RestoreRelationship(x.d.graph, id, rel)
  BY <1>5, <1>6
<1>8. /\ g.nodes = x.d.graph.nodes /\ g.rels = Put(x.d.graph.rels, id, rel)
      /\ SameSlots(g, x.d.graph)
  BY <1>7, GoodXIs, GoodGraphIs, RestoreRelationshipIs
<1>9. \A view \in x.j.schema.single :
        NoNewForks(Put(x.d.graph.rels, id, rel), x.d.graph.rels, view)
  BY <1>4, FirstForks
<1> QED BY <1>7, <1>8, <1>9, RelsTight

\* delete_relationship: the relationships that are left are as they were.
Thinned(y, x) ==
  /\ SameSlots(y.d.graph, x.d.graph) /\ y.d.graph.nodes = x.d.graph.nodes
  /\ Fewer(y.d.graph.rels, x.d.graph.rels)

\* Nothing done leaves them,
LEMMA ThinnedSelf == ASSUME NEW x, NEW y, y.d.graph = x.d.graph PROVE Thinned(y, x)
BY DEF Thinned, SameSlots, Fewer

\* and so does one thinning after another.
LEMMA ThinnedTrans == ASSUME NEW x, NEW y, NEW z, Thinned(y, x), Thinned(z, y) PROVE Thinned(z, x)
BY DEF Thinned, SameSlots, Fewer

\* A state that is thinned is tight.
LEMMA ThinnedTight == ASSUME NEW x, NEW y, Thinned(y, x) PROVE Tight(y, x)
BY FewerForks, RelsTight DEF Thinned

\* delete_relationship thins.
LEMMA DeleteRelationshipThins ==
  ASSUME NEW x, GoodX(x), NEW id, NEW y, y = JournalDeleteRelationship(x, id)
  PROVE  Thinned(y, x)
<1>1. CASE Quiet(y, x)
  BY <1>1, ThinnedSelf, BecomesIs DEF Quiet
<1>2. CASE \E s : /\ (Quiet(s, x) /\ id \notin DOMAIN x.d.history.rels) \/ EdgeEnded(s, x, id)
                  /\ IF id \in DOMAIN x.d.graph.rels THEN EdgeCut(y, s, id) ELSE Quiet(y, s)
  <2>1. PICK s : /\ Quiet(s, x) \/ EdgeEnded(s, x, id)
                 /\ EdgeCut(y, s, id) \/ Quiet(y, s)
    BY <1>2
  <2>2. s.d.graph = x.d.graph
    <3>1. EdgeEnded(s, x, id) => \E edge : EdgeDated(s, x, id, edge)
      BY DEF EdgeEnded
    <3>2. Quiet(s, x) => s.d.graph = x.d.graph
      BY BecomesIs DEF Quiet
    <3> QED BY <2>1, <3>1, <3>2, EdgeWritten
  <2>3. CASE Quiet(y, s)
    BY <2>2, <2>3, ThinnedSelf, BecomesIs DEF Quiet
  <2>4. CASE EdgeCut(y, s, id)
    <3>1. PICK g : g = y.d.graph /\ g = DeleteRelationship(x.d.graph, id)
      BY <2>2, <2>4, BecomesIs DEF EdgeCut
    <3>2. g.nodes = x.d.graph.nodes /\ g.rels = Without(x.d.graph.rels, id)
          /\ SameSlots(g, x.d.graph)
      BY <3>1, GoodXIs, GoodGraphIs, DeleteRelationshipIs
    <3>3. Fewer(Without(x.d.graph.rels, id), x.d.graph.rels)
      BY LessIs DEF Fewer
    <3> QED BY <3>1, <3>2, <3>3 DEF Thinned
  <2> QED BY <2>1, <2>3, <2>4
<1> QED BY <1>1, <1>2, GoodXIs, JournalDeleteRelationshipIs

\* What holds after each pass of delete_node's loop over the relationships.
ThinInv(c, n, y) == GoodX(y) /\ Thinned(y, c.x)
Thins == INSTANCE Loop WITH Op <- DropOp, P <- ThinInv

\* The loop.
LEMMA CutThins ==
  ASSUME NEW x, GoodX(x), NEW id, NEW y, y = Cut(x, id)
  PROVE  Thinned(y, x)
<1> DEFINE ids == NodeRelationships(x.d.graph, id)
           last == Max({0} \cup ids)
           c == [x |-> x]
<1>1. last \in Nat
  <2>1. PICK top \in Nat : DOMAIN x.d.graph.rels \subseteq 1 .. top
    BY GoodXIs, GoodGraphIs
  <2>2. ids \in SUBSET (1 .. top)
    BY <2>1, GoodXIs, GoodGraphIs, NodeRelationshipsIs
  <2> HIDE DEF ids
  <2> QED BY <2>2, LastId
<1>2. y = Thins!Run(c, x, ids, last)
  BY DEF Cut, Each, Thins!Run, DropOp
<1>3. c.x = x
  OBVIOUS
<1> HIDE DEF ids, last, c
<1>4. ThinInv(c, 0, x)
  BY <1>3, ThinnedSelf DEF ThinInv
<1>5. ASSUME NEW n \in 1 .. last, NEW z, ThinInv(c, n - 1, z)
      PROVE  ThinInv(c, n, IF n \in ids THEN DropOp(c, z, n) ELSE z)
  <2>1. GoodX(z) /\ Thinned(z, c.x)
    BY <1>5 DEF ThinInv
  <2>2. PICK w : w = JournalDeleteRelationship(z, n)
    OBVIOUS
  <2>3. GoodX(w) /\ Thinned(w, z)
    BY <2>1, <2>2, JournalDeleteRelationshipGood, DeleteRelationshipThins
  <2>4. ThinInv(c, n, w) /\ ThinInv(c, n, z)
    BY <2>1, <2>3, ThinnedTrans DEF ThinInv
  <2> QED BY <2>2, <2>4 DEF DropOp
<1>6. ThinInv(c, last, y)
  BY <1>1, <1>2, <1>4, <1>5, Thins!LoopKeeps
<1> QED BY <1>3, <1>6 DEF ThinInv

\* delete_node, if none of its relationships refuses to go.
LEMMA DeleteNodeTight ==
  ASSUME NEW x, GoodX(x), NEW id,
         Grounded(x.d) => \A r \in NodeRelationships(x.d.graph, id) : ~Early(x, r),
         NEW y, y = JournalDeleteNode(x, id)
  PROVE  Tight(y, x)
<1>0. PICK cut : cut = Cut(x, id)
  OBVIOUS
<1>1. \/ Quiet(y, x)
      \/ /\ id \notin DOMAIN x.d.mirrors /\ id \in DOMAIN x.d.graph.nodes
         /\ \E bare, gone : Bare(bare, cut, id) /\ NodeCut(gone, bare, id) /\ Quiet(y, gone)
  BY <1>0, JournalDeleteNodeIs
<1>2. CASE Quiet(y, x)
  BY <1>2, SameTight, BecomesIs DEF Quiet
<1>3. CASE /\ id \notin DOMAIN x.d.mirrors /\ id \in DOMAIN x.d.graph.nodes
           /\ \E bare, gone : Bare(bare, cut, id) /\ NodeCut(gone, bare, id) /\ Quiet(y, gone)
  <2>1. PICK bare, gone : Bare(bare, cut, id) /\ NodeCut(gone, bare, id) /\ Quiet(y, gone)
    BY <1>3
  <2>2. Thinned(cut, x)
    BY <1>0, CutThins
  <2>3. bare.d.graph = cut.d.graph /\ GoodX(bare)
    BY <2>1, KeptIs DEF Bare
  <2>4. bare.d.graph.nodes = x.d.graph.nodes /\ Fewer(bare.d.graph.rels, x.d.graph.rels)
        /\ SameSlots(bare.d.graph, x.d.graph)
    BY <2>2, <2>3 DEF Thinned
  <2>5. PICK g : g = y.d.graph /\ g = DeleteNode(bare.d.graph, id)
    BY <2>1, BecomesIs DEF NodeCut, Quiet
  <2>6. /\ g.nodes = Without(x.d.graph.nodes, id) /\ g.rels = RelsWithout(bare.d.graph.rels, id)
        /\ SameSlots(g, bare.d.graph)
    <3>1. PICK top \in Nat : DOMAIN bare.d.graph.rels \subseteq 1 .. top
      BY <2>3, GoodXIs, GoodGraphIs
    <3>2. id \in DOMAIN bare.d.graph.nodes
      BY <1>3, <2>4
    <3> QED BY <2>3, <2>4, <2>5, <3>1, <3>2, GoodXIs, GoodGraphIs, DeleteNodeIs
  <2>7. Fewer(RelsWithout(bare.d.graph.rels, id), x.d.graph.rels)
    <3>1. Fewer(RelsWithout(bare.d.graph.rels, id), bare.d.graph.rels)
      BY RelsWithoutIs DEF Fewer
    <3> QED BY <2>4, <3>1 DEF Fewer
  <2>8. \A slot : NoNewTwins(g.nodes, x.d.graph.nodes, slot)
    BY <2>6, FewerTwins
  <2>9. \A view : NoNewForks(g.rels, x.d.graph.rels, view)
    BY <2>6, <2>7, FewerForks
  <2>10. SameSlots(g, x.d.graph)
    BY <2>4, <2>6 DEF SameSlots
  <2> QED BY <2>5, <2>8, <2>9, <2>10 DEF Tight
<1> QED BY <1>1, <1>2, <1>3

-----------------------------------------------------------------------------
(* The invariant of the constraints.                                        *)

\* Of an open statement: its schema is one of the schemas, or none; its unique
\* fields are indexed; and no value is shared, and nothing forks, that did not
\* when it began.
ConsOpen ==
  /\ journal.schema \in Schemas \/ journal.schema = NoSchema
  /\ journal.schema.uniques \subseteq DOMAIN db.graph.uniques
  /\ \A slot \in journal.schema.uniques : NoNewTwins(db.graph.nodes, before.graph.nodes, slot)
  /\ \A view \in journal.schema.single : NoNewForks(db.graph.rels, before.graph.rels, view)
ConsInv == journal.open => ConsOpen

\* A tight call keeps the invariant.
LEMMA CallTight ==
  ASSUME JournalInv, ConsInv, NEW y, Calls(y), Kept(y, Now), Tight(y, Now)
  PROVE  ConsInv'
<1>1. /\ journal.open /\ db' = y.d /\ before' = before
      /\ journal' = [y.j EXCEPT !.calls = @ + 1]
  BY DEF Calls
<1>2. Now.d = db /\ Now.j = journal /\ GoodX(Now)
  BY <1>1, NowGood
<1>3. GoodX(y) /\ SameRest(y, Now)
  BY DEF Kept
<1>4. IsJournal(y.j)
  BY <1>3, GoodXIs DEF IsX
<1>5. PICK v : v = y.j.calls + 1
  OBVIOUS
<1>6. journal' = [y.j EXCEPT !.calls = v]
  BY <1>1, <1>5, Zenon
<1>7. journal'.schema = journal.schema
  BY <1>2, <1>3, <1>4, <1>6, CountedOps DEF SameRest
<1>8. ConsOpen
  BY <1>1 DEF ConsInv
<1>9. /\ SameSlots(y.d.graph, db.graph)
      /\ \A slot \in journal.schema.uniques : NoNewTwins(y.d.graph.nodes, db.graph.nodes, slot)
      /\ \A view \in journal.schema.single : NoNewForks(y.d.graph.rels, db.graph.rels, view)
  BY <1>2 DEF Tight
<1>10. journal.schema.uniques \subseteq DOMAIN y.d.graph.uniques
  BY <1>8, <1>9 DEF ConsOpen, SameSlots
<1>11. \A slot \in journal.schema.uniques :
         NoNewTwins(y.d.graph.nodes, before.graph.nodes, slot)
  BY <1>8, <1>9 DEF ConsOpen, NoNewTwins
<1>12. \A view \in journal.schema.single :
         NoNewForks(y.d.graph.rels, before.graph.rels, view)
  BY <1>8, <1>9 DEF ConsOpen, NoNewForks
<1>13. ConsOpen'
  BY <1>1, <1>7, <1>8, <1>10, <1>11, <1>12 DEF ConsOpen
<1> QED BY <1>13 DEF ConsInv

\* find_duplicate found nothing: no other node has the value of a unique field.
LEMMA NoneFound ==
  ASSUME JournalInv, ConsInv, journal.open, NEW labels, NEW props, NEW except,
         ~Duplicate(labels, props, except),
         NEW slot \in journal.schema.uniques, slot[1] \in labels, slot[2] \in DOMAIN props
  PROVE  \A a \in Filed(db.graph.nodes, slot) :
           a \notin except => Key(db.graph.nodes, slot, a) # props[slot[2]]
<1>1. GoodGraph(db.graph) /\ slot \in DOMAIN db.graph.uniques
  BY DEF JournalInv, GoodDb, ConsInv, ConsOpen
<1>2. PICK v : v = props[slot[2]]
  OBVIOUS
<1>3. UniqueMatches(db.graph, slot, v)
        = {id \in Filed(db.graph.nodes, slot) : db.graph.nodes[id].props[slot[2]] = v}
  BY <1>1, UniqueFinds
<1>4. UniqueMatches(db.graph, slot, v) \ except = {}
  BY <1>2 DEF Duplicate
<1> QED BY <1>2, <1>3, <1>4 DEF Key

\* insert_node,
LEMMA InsertTight ==
  ASSUME JournalInv, TruthInv, ConsInv, ~EarlyDeletes, NEW node \in NodeInputs, Insert(node)
  PROVE  ConsInv'
<1>1. PICK y : y = JournalCreateNode(Now, node)
  OBVIOUS
<1>2. Calls(y) /\ journal.open /\ ~Duplicate(node.labels, node.props, {})
  BY <1>1 DEF Insert
<1>3. GoodX(Now) /\ Grounded(Now.d) /\ Now.d = db /\ Now.j = journal
  BY <1>2, NowTold
<1>4. Kept(y, Now)
  BY <1>1, <1>3, InputsGood, JournalCreateNodeKept
<1>5. \A slot \in journal.schema.uniques : Files(slot, node) =>
        \A a \in Filed(db.graph.nodes, slot) : Key(db.graph.nodes, slot, a) # node.props[slot[2]]
  BY <1>2, NoneFound DEF Files
<1>6. Tight(y, Now)
  BY <1>1, <1>3, <1>5, CreateNodeTight
<1> QED BY <1>2, <1>4, <1>6, CallTight

\* a set,
LEMMA SetTight ==
  ASSUME JournalInv, TruthInv, ConsInv, ~EarlyDeletes, DatesAgree, NEW id,
         NEW props \in PropInputs, Set(id, props)
  PROVE  ConsInv'
<1>1. PICK y : y = JournalUpdateNode(Now, id, props)
  OBVIOUS
<1>2. /\ Calls(y) /\ journal.open /\ ~journal.api /\ id \in DOMAIN db.graph.nodes
      /\ ~Duplicate(db.graph.nodes[id].labels, props, {id})
  BY <1>1 DEF Set
<1>3. GoodX(Now) /\ Told(Now.d) /\ Now.d = db /\ Now.j = journal
  BY <1>2, NowTold
<1>4. journal.schema \in Schemas /\ GoodProps(props)
  BY <1>2, InputsGood DEF TruthInv, TruthOpen
<1>5. Kept(y, Now)
  BY <1>1, <1>3, <1>4, JournalUpdateNodeKept
<1>6. ASSUME NEW slot \in journal.schema.uniques, slot[1] \in db.graph.nodes[id].labels,
             slot[2] \in DOMAIN props
      PROVE  \A a \in Filed(db.graph.nodes, slot) :
               a # id => Key(db.graph.nodes, slot, a) # props[slot[2]]
  BY <1>2, <1>6, NoneFound
<1>7. Tight(y, Now)
  BY <1>1, <1>2, <1>3, <1>4, <1>6, UpdateNodeTight
<1> QED BY <1>2, <1>5, <1>7, CallTight

\* connect: a single-valued relationship is a field of one end only, so the view
\* that might be crowded is the one that connect looked through,
LEMMA ConnectTight ==
  ASSUME JournalInv, TruthInv, ConsInv, ~EarlyDeletes, SeenFromOneEnd, NEW parent, NEW child,
         NEW kind, NEW direction \in {"out", "inc"}, Connect(parent, child, kind, direction)
  PROVE  ConsInv'
<1> DEFINE from == IF direction = "out" THEN parent ELSE child
           to   == IF direction = "out" THEN child ELSE parent
           rel  == [kind |-> kind, from |-> from, to |-> to]
<1>1. PICK y : y = JournalCreateRelationship(Now, rel)
  OBVIOUS
<1>2. /\ Calls(y) /\ journal.open /\ parent \in DOMAIN db.graph.nodes
      /\ child \in DOMAIN db.graph.nodes
      /\ <<kind, direction>> \in journal.schema.views
      /\ <<kind, direction>> \in journal.schema.single =>
           Neighbors(db.graph, parent, kind, direction) = {}
  BY <1>1 DEF Connect
<1>3. GoodX(Now) /\ Grounded(Now.d) /\ Now.d = db /\ Now.j = journal
  BY <1>2, NowTold
<1>4. /\ rel.from \in DOMAIN Now.d.graph.nodes /\ rel.to \in DOMAIN Now.d.graph.nodes
      /\ rel.kind = kind /\ End(rel, direction) = parent
  BY <1>2, <1>3 DEF End
<1> HIDE DEF rel
<1>5. Kept(y, Now)
  BY <1>1, <1>3, <1>4, JournalCreateRelationshipKept
<1>6. journal.schema \in Schemas
  <2>1. journal.schema # NoSchema
    BY <1>2 DEF NoSchema
  <2> QED BY <1>2, <2>1 DEF ConsInv, ConsOpen
<1>7. ASSUME NEW view \in journal.schema.single, kind = view[1], NEW s \in DOMAIN db.graph.rels,
             db.graph.rels[s].kind = view[1]
      PROVE  End(db.graph.rels[s], view[2]) # End(rel, view[2])
  <2>0. PICK seen : seen = <<kind, direction>>
    OBVIOUS
  <2>1. seen = <<kind, direction>> /\ seen[1] = kind /\ seen[2] = direction
    BY <2>0
  <2>2. seen = view /\ seen \in journal.schema.single
    BY <1>2, <1>6, <1>7, <2>1 DEF SeenFromOneEnd
  <2>3. Neighbors(db.graph, parent, kind, direction) = {} /\ view[2] = direction
    BY <1>2, <2>1, <2>2
  <2>4. /\ Adjacent(db.graph, parent).out = {r \in DOMAIN db.graph.rels :
                                                db.graph.rels[r].from = parent}
        /\ Adjacent(db.graph, parent).inc = {r \in DOMAIN db.graph.rels :
                                                db.graph.rels[r].to = parent}
    BY <1>3, GoodXIs, AdjacencyFinds
  <2>5. s \notin Adjacent(db.graph, parent)[direction]
    BY <1>7, <2>3 DEF Neighbors
  <2>6. End(db.graph.rels[s], direction) # parent
    BY <2>4, <2>5 DEF End
  <2> QED BY <1>4, <2>3, <2>6
<1>8. Tight(y, Now)
  BY <1>1, <1>3, <1>4, <1>7, CreateRelationshipTight
<1> QED BY <1>2, <1>5, <1>8, CallTight

\* a relationship deleted,
LEMMA DisconnectTight ==
  ASSUME JournalInv, TruthInv, ConsInv, ~EarlyDeletes, NEW id, Disconnect(id) PROVE ConsInv'
<1>1. PICK y : y = JournalDeleteRelationship(Now, id)
  OBVIOUS
<1>2. Calls(y) /\ journal.open
  BY <1>1 DEF Disconnect
<1>3. Kept(y, Now)
  BY <1>1, <1>2, NowTold, JournalDeleteRelationshipKept
<1>4. Tight(y, Now)
  BY <1>1, <1>2, NowTold, DeleteRelationshipThins, ThinnedTight
<1> QED BY <1>2, <1>3, <1>4, CallTight

\* and a node deleted.
LEMMA DeleteTight ==
  ASSUME JournalInv, TruthInv, ConsInv, ~EarlyDeletes, NEW id, Delete(id) PROVE ConsInv'
<1>1. PICK y : y = JournalDeleteNode(Now, id)
  OBVIOUS
<1>2. /\ Calls(y) /\ journal.open
      /\ ~ \E r \in NodeRelationships(db.graph, id) \cap DOMAIN db.history.rels :
             journal.at < db.history.rels[r].from
  BY <1>1 DEF Delete
<1>3. \A r \in NodeRelationships(Now.d.graph, id) : ~Early(Now, r)
  BY <1>2, NowTold DEF Early
<1>4. Kept(y, Now)
  BY <1>1, <1>2, <1>3, NowTold, JournalDeleteNodeKept
<1>5. Tight(y, Now)
  BY <1>1, <1>2, <1>3, NowTold, DeleteNodeTight
<1> QED BY <1>2, <1>4, <1>5, CallTight

\* A statement begins with the constraints of its schema holding as they did:
\* no index it fills changes a node or a relationship.
LEMMA StartTight ==
  ASSUME NEW d, NEW schema, NEW at, NEW api, db' = d, before' = d,
         journal' = NewJournal(d, schema, at, api),
         schema \in Schemas \/ schema = NoSchema, schema.uniques \subseteq DOMAIN d.graph.uniques
  PROVE  ConsInv'
<1>1. journal'.schema = schema
  BY DEF NewJournal
<1>2. \A slot \in schema.uniques : NoNewTwins(d.graph.nodes, d.graph.nodes, slot)
  BY DEF NoNewTwins
<1>3. \A view \in schema.single : NoNewForks(d.graph.rels, d.graph.rels, view)
  BY DEF NoNewForks
<1>4. ConsOpen'
  BY <1>1, <1>2, <1>3 DEF ConsOpen
<1> QED BY <1>4 DEF ConsInv

\* execute makes the unique indexes those of its schema,
LEMMA BeginTight ==
  ASSUME JournalInv, NEW schema \in Schemas, NEW at \in Times, Begin(schema, at)
  PROVE  ConsInv'
<1> DEFINE g == db.graph
           mid == SyncIndexes(g, schema.ranges)
           new == SyncUniques(mid, schema.uniques)
           d == [db EXCEPT !.graph = new]
<1>1. db' = d /\ before' = d /\ journal' = NewJournal(d, schema, at, FALSE)
  BY DEF Begin
<1>2. IsDb(db) /\ Indexed(g)
  BY GoodGraphIs DEF JournalInv, GoodDb
<1>3. Indexed(mid)
  BY <1>2, SyncIndexesIs
<1> HIDE DEF mid
<1>4. DOMAIN new.uniques = schema.uniques
  BY <1>3, SyncUniquesIs
<1> HIDE DEF new
<1>5. d.graph = new
  BY <1>2, DbGraph
<1> HIDE DEF d
<1> QED BY <1>1, <1>4, <1>5, StartTight

\* and the calls of one operation declare no constraint.
LEMMA BeginCallTight == ASSUME NEW now \in Times, BeginCall(now) PROVE ConsInv'
<1>1. db' = db /\ before' = db /\ journal' = NewJournal(db, NoSchema, now, TRUE)
  BY DEF BeginCall
<1>2. NoSchema.uniques = {}
  BY DEF NoSchema
<1> QED BY <1>1, <1>2, StartTight

\* The inductive invariant: that of the histories, and the constraints of an
\* open statement's schema, while fields are dated by every schema or by none
\* and a single-valued relationship is a field of one end only.
ConstraintInv ==
  HistoryInv /\ (~EarlyDeletes /\ DatesAgree /\ SeenFromOneEnd => ConsInv)

\* Every step keeps it.
LEMMA NextTight == ASSUME ConstraintInv, [Next]_vars PROVE ConstraintInv'
<1>1. HistoryInv'
  BY NextTells DEF ConstraintInv
<1>2. ASSUME ~EarlyDeletes, DatesAgree, SeenFromOneEnd PROVE ConsInv'
  <2>1. JournalInv /\ TruthInv /\ ConsInv
    BY <1>2 DEF ConstraintInv, HistoryInv
  <2>2. CASE UNCHANGED vars
    BY <2>1, <2>2 DEF ConsInv, ConsOpen, vars
  <2>3. CASE Fail \/ Accepted \/ ReadOnly
    BY <2>3 DEF Fail, Accepted, ReadOnly, NoJournal, ConsInv
  <2>4. CASE Next /\ ~(Fail \/ Accepted \/ ReadOnly)
    BY <1>2, <2>1, <2>4, BeginTight, BeginCallTight, InsertTight, SetTight, ConnectTight,
       DisconnectTight, DeleteTight DEF Next
  <2> QED BY <2>2, <2>3, <2>4
<1>3. DatesAgree' = DatesAgree /\ SeenFromOneEnd' = SeenFromOneEnd
  BY DEF DatesAgree, SeenFromOneEnd
<1> QED BY <1>1, <1>2, <1>3 DEF ConstraintInv

\* The invariant holds.
THEOREM ConstraintInvariant == Spec => []ConstraintInv
<1>1. Init => ConstraintInv
  <2> SUFFICES ASSUME Init PROVE ConstraintInv
    OBVIOUS
  <2>1. HistoryInv
    BY InitTells
  <2>2. ConsInv
    BY DEF Init, NoJournal, ConsInv
  <2> QED BY <2>1, <2>2 DEF ConstraintInv
<1>2. ConstraintInv /\ [Next]_vars => ConstraintInv'
  BY NextTight
<1> QED BY <1>1, <1>2, PTL DEF Spec

\* No twins and no forks that were not there: no duplicates, and nothing crowded.
LEMMA TightHolds ==
  ASSUME JournalInv, ConsInv, ~EarlyDeletes
  PROVE  ConstraintsHold
<1> SUFFICES ASSUME journal.open
             PROVE  /\ \A slot \in journal.schema.uniques :
                         Duplicates(db.graph, slot) \subseteq Duplicates(before.graph, slot)
                    /\ \A view \in journal.schema.single :
                         Crowded(db.graph, view) \subseteq Crowded(before.graph, view)
  BY DEF ConstraintsHold
<1>1. /\ GoodGraph(db.graph) /\ GoodGraph(before.graph) /\ Grounded(db) /\ Grounded(before)
      /\ ConsOpen
  BY DEF JournalInv, GoodDb, ConsInv
<1>2. ASSUME NEW slot \in journal.schema.uniques, NEW v \in Duplicates(db.graph, slot)
      PROVE  v \in Duplicates(before.graph, slot)
  <2>1. v \in Values /\ Twins(db.graph.nodes, slot, v)
    BY <1>1, <1>2, DuplicatesAre
  <2>2. Twins(before.graph.nodes, slot, v)
    BY <1>1, <2>1 DEF ConsOpen, NoNewTwins
  <2> QED BY <1>1, <2>1, <2>2, DuplicatesAre
<1>3. ASSUME NEW view \in journal.schema.single, NEW id \in Crowded(db.graph, view)
      PROVE  id \in Crowded(before.graph, view)
  <2>1. view[2] \in {"out", "inc"}
    BY <1>1, <1>3, SchemasAssumption DEF ConsOpen, NoSchema
  <2>2. Forks(before.graph.rels, view, id)
    BY <1>1, <1>3, <2>1, CrowdedAre DEF ConsOpen, NoNewForks
  <2>3. id \in DOMAIN before.graph.nodes
    BY <1>1, <2>2, GroundedIs DEF Forks, End
  <2> QED BY <1>1, <2>1, <2>2, <2>3, CrowdedAre
<1> QED BY <1>2, <1>3

\* No statement adds a second node with a value of a field its schema declares
\* unique, or a second target to a relationship its schema declares
\* single-valued, if every schema that knows a unique field dates it or none
\* does, and a single-valued relationship is a field of one of its ends only.
THEOREM ConstraintsKept ==
  ~EarlyDeletes /\ DatesAgree /\ SeenFromOneEnd => (Spec => []ConstraintsHold)
<1> SUFFICES ASSUME ~EarlyDeletes, DatesAgree, SeenFromOneEnd PROVE Spec => []ConstraintsHold
  OBVIOUS
<1>1. ConstraintInv => ConstraintsHold
  BY TightHolds DEF ConstraintInv, HistoryInv
<1> QED BY <1>1, ConstraintInvariant, PTL
=============================================================================

------------------------------ MODULE Timeline -----------------------------
(***************************************************************************)
(* Reading through time (zega/src/v2/time.rs, and RelHistory and visible   *)
(* in history.rs): a test at an instant, `ever` and `always`, @firstTime   *)
(* and @lastTime, and `during`.  None of them looks at every instant: they *)
(* look where something changes, and an ordered comparison may be answered *)
(* from the least and the greatest value a field ever had.                 *)
(*                                                                         *)
(* A record h has the changes of one field of each node, h.changes; the    *)
(* value of a node without history, h.plain; lifetimes h.born and h.died,  *)
(* Never where there is none; and relationships [from, to, since, until],  *)
(* h.rels, since Always for one that began before its history.             *)
(* A test is [by: "cmp", "eq" or "has", op, of]: `has` asks for a          *)
(* neighbour whose field satisfies the comparison.                         *)
(***************************************************************************)
EXTENDS Integers, FiniteSetsExt, History

CONSTANT Horizon      \* the last instant of the model

Never  == 1000
Always == -1          \* i64::MIN
Instants == 0 .. Horizon
Ids(h) == DOMAIN h.changes

Holds(value, op, of) ==
  /\ value.kind = "int"
  /\ CASE op = ">" -> value.of > of [] op = ">=" -> value.of >= of
       [] op = "<" -> value.of < of [] op = "<=" -> value.of <= of [] op = "=" -> value.of = of

\* visible_with: from its birth until its death, half open.
VisibleAt(h, n, t) == (h.born[n] = Never \/ h.born[n] <= t) /\ t < h.died[n]

\* AsOf::prop: of a field with a history, nothing before its first change.
ReadAt(h, n, t) == IF h.changes[n] = <<>> THEN {h.plain[n]} ELSE ValueAt(h.changes[n], t)

\* neighbors_at
NeighborsAt(h, n, t) ==
  {r.to : r \in {r \in h.rels : /\ r.from = n /\ r.since <= t /\ t < r.until
                                /\ VisibleAt(h, n, t) /\ VisibleAt(h, r.to, t)}}

Compares(h, n, test, t) == \E v \in ReadAt(h, n, t) : Holds(v, test.op, test.of)

\* node_matches at an instant.
TrueAt(h, n, test, t) ==
  /\ VisibleAt(h, n, t)
  /\ IF test.by = "has" THEN \E m \in NeighborsAt(h, n, t) : Compares(h, m, test, t)
                        ELSE Compares(h, n, test, t)

-----------------------------------------------------------------------------
(* Where something changes.                                                *)

ChangesOf(h, n)   == {h.changes[n][i].at : i \in DOMAIN h.changes[n]}
LifetimeOf(h, n)  == {h.born[n], h.died[n]} \ {Never}
RelationshipsOf(h) == UNION {{r.since, r.until} : r \in h.rels} \ {Always, Never}

\* Mutant: a walk looks where its own node changes.
OwnTimes(h, n, test) ==
  {t \in ChangesOf(h, n) \cup RelationshipsOf(h) \cup LifetimeOf(h, n) : VisibleAt(h, n, t)}

\* times: for a walk, every node's changes and lifetimes and every interval.
Times(h, n, test) ==
  LET seen == IF test.by = "has" THEN Ids(h) ELSE {n}
      all  == UNION {ChangesOf(h, m) \cup LifetimeOf(h, m) : m \in seen}
                \cup (IF test.by = "has" THEN RelationshipsOf(h) ELSE {})
  IN {t \in all : VisibleAt(h, n, t)}

\* summary: an ordered comparison that the least and the greatest value agree
\* on, of a node without a lifetime.
Shortcut(h, n, test) ==
  IF test.by # "cmp" \/ h.changes[n] = <<>> \/ LifetimeOf(h, n) # {} THEN {}
  ELSE LET s == Summary(h.changes[n])
           low == Holds(s.min, test.op, test.of)
       IN IF s.ordered /\ low = Holds(s.max, test.op, test.of)
          THEN {[matches |-> low, first |-> s.first, last |-> s.last]} ELSE {}

\* boundaries: both ends of a window, and every change between them.
Boundaries(h, from, to) ==
  {from, to} \cup
  {t \in UNION {ChangesOf(h, m) \cup LifetimeOf(h, m) : m \in Ids(h)} \cup RelationshipsOf(h) :
     from < t /\ t < to}

-----------------------------------------------------------------------------
(* What is read.                                                           *)

\* first_last: {} for null.
FirstTime(h, n, test) ==
  LET true == {t \in Times(h, n, test) : TrueAt(h, n, test, t)}
  IN IF Shortcut(h, n, test) # {} THEN {s.first : s \in {s \in Shortcut(h, n, test) : s.matches}}
     ELSE IF true = {} THEN {} ELSE {Min(true)}
LastTime(h, n, test) ==
  LET true == {t \in Times(h, n, test) : TrueAt(h, n, test, t)}
  IN IF Shortcut(h, n, test) # {} THEN {s.last : s \in {s \in Shortcut(h, n, test) : s.matches}}
     ELSE IF true = {} THEN {} ELSE {Max(true)}

\* ever_always, at the dates it looks at.
AtDates(h, n, test, always, dates) ==
  /\ dates # {}
  /\ IF always THEN \A t \in dates : TrueAt(h, n, test, t) ELSE \E t \in dates : TrueAt(h, n, test, t)
EverAlways(h, n, test, always) ==
  IF Shortcut(h, n, test) # {} THEN \E s \in Shortcut(h, n, test) : s.matches
  ELSE AtDates(h, n, test, always, Times(h, n, test))
EverAlwaysIn(h, n, test, always, from, to) == AtDates(h, n, test, always, Boundaries(h, from, to))

\* window_read without `changes`: the nodes that match in some state of it.
During(h, test, from, to) ==
  UNION {{n \in Ids(h) : TrueAt(h, n, test, t)} : t \in Boundaries(h, from, to)}

\* What a statement reads of one test.
ReadTimes(h, n, test) ==
  [ever |-> EverAlways(h, n, test, FALSE), always |-> EverAlways(h, n, test, TRUE),
   first |-> FirstTime(h, n, test), last |-> LastTime(h, n, test)]
ReadWindow(h, test, from, to) ==
  [during |-> During(h, test, from, to),
   ever   |-> {n \in Ids(h) : EverAlwaysIn(h, n, test, FALSE, from, to)},
   always |-> {n \in Ids(h) : EverAlwaysIn(h, n, test, TRUE, from, to)}]

-----------------------------------------------------------------------------
(* What they mean.  `ever` and `always` speak of the instants from the     *)
(* first recorded change on (docs/time.md: "inspect these recorded         *)
(* states"), windows of every instant of the window.                       *)

Recorded(h, n, test) ==
  LET seen == IF test.by = "has" THEN Ids(h) ELSE {n}
  IN UNION {ChangesOf(h, m) \cup LifetimeOf(h, m) : m \in seen}
       \cup (IF test.by = "has" THEN RelationshipsOf(h) ELSE {})
Spoken(h, n, test) ==
  {t \in Instants : VisibleAt(h, n, t) /\ \E c \in Recorded(h, n, test) : c <= t}

\* `ever`, `always` and @firstTime answer as a look at every instant would, and
\* @lastTime names an instant after which the test never becomes true again.
SeesAllTimes(h, n, test, seen) ==
  LET spoken == Spoken(h, n, test)
      true   == {t \in spoken : TrueAt(h, n, test, t)}
  IN /\ seen.ever <=> true # {}
     /\ seen.always <=> spoken # {} /\ true = spoken
     /\ seen.first = (IF true = {} THEN {} ELSE {Min(true)})
     /\ (seen.last = {}) <=> (true = {})
     /\ \A l \in seen.last :
          l \in true /\ \A t \in true : t > l => l .. t \subseteq true

\* `during`, and `ever` and `always` in a window, see every state of it, ends
\* included ("if the complete test holds at any instant in the inclusive
\* window", docs/time.md).
SeesAllOfWindow(h, test, from, to, seen) ==
  /\ seen.during = {n \in Ids(h) : \E t \in from .. to : TrueAt(h, n, test, t)}
  /\ \A n \in Ids(h) :
       /\ n \in seen.ever <=> \E t \in from .. to : TrueAt(h, n, test, t)
       /\ n \in seen.always <=> \A t \in from .. to : TrueAt(h, n, test, t)
=============================================================================

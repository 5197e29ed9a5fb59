------------------------------ MODULE History -------------------------------
(***************************************************************************)
(* The valid-time history of one field of one node (History,               *)
(* zega/src/history.rs): its changes in time order, one per instant, and   *)
(* the summary that window reads prune with.  A value is a record of a     *)
(* kind and a number; only values of one ordered kind compare.             *)
(***************************************************************************)
EXTENDS Integers, Sequences, SequencesExt

OrderedKinds == {"int", "float", "string", "bool"}

\* compare
Comparable(a, b) == a.kind = b.kind /\ a.kind \in OrderedKinds
Less(a, b)       == Comparable(a, b) /\ a.of < b.of

\* How many changes lie before an instant, and how many not after it.
CountBefore(changes, at) == Max({0} \cup {i \in DOMAIN changes : changes[i].at < at})
CountUpTo(changes, at)   == Max({0} \cup {i \in DOMAIN changes : changes[i].at <= at})

\* A change at an instant that has one replaces it.
InsertChange(changes, at, value) ==
  SubSeq(changes, 1, CountBefore(changes, at))
    \o <<[at |-> at, value |-> value]>>
    \o SubSeq(changes, CountUpTo(changes, at) + 1, Len(changes))

\* What the field was at an instant: {} before its first change.
ValueAt(changes, at) ==
  LET until == CountUpTo(changes, at)
  IN IF until = 0 THEN {} ELSE {changes[until].value}

Current(changes) == Last(changes).value

\* The summary History::insert keeps: the least and the greatest value among
\* those that compare with the first, and whether all of them do.
Summary(changes) ==
  LET first == changes[1].value
      low(least, c) == IF Less(c.value, least) THEN c.value ELSE least
      high(most, c) == IF Less(most, c.value) THEN c.value ELSE most
      least == FoldLeft(low, first, changes)
  IN [min |-> least, max |-> FoldLeft(high, first, changes),
      first |-> changes[1].at, last |-> Last(changes).at,
      ordered |-> \A i \in DOMAIN changes : Comparable(changes[i].value, first)]
=============================================================================

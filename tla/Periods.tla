------------------------------ MODULE Periods -------------------------------
(***************************************************************************)
(* Named dates (zega/src/v2/periods.rs, lang/periods.rs): a query may say  *)
(* `season 26` or `2026` where it means a day, and every such date is      *)
(* replaced from the nodes that are seasons before history is read.        *)
(*                                                                         *)
(* A question q is [schema, nodes, time, root].  A type is [fields,        *)
(* calendars: word to type, period: none or one [from, to, named]]; a node *)
(* [labels, props].  A date is [is: "instant", at], [is: "year", year,     *)
(* end] or [is: "period", word, name, end]; a name [num] or [parts], the   *)
(* runs of digits between its dashes.  A selection is [type, window,       *)
(* where, items]; an expression [op: "and" or "or", terms], [op: "ever",   *)
(* test, window], [op: "time", test, date], [op: "chain", hops] or         *)
(* [op: "plain"]; a clause [is: "as of", date], [is: "window", of] or      *)
(* [is: "series", from, to, unit].                                         *)
(***************************************************************************)
EXTENDS Integers, FiniteSets, Sequences, SequencesExt

CONSTANTS YearLength, MonthLength, WeekLength   \* in days; the year 2000 starts on day 0

Refused == [is |-> "refused"]
Instant(at) == [is |-> "instant", at |-> at]
Stuck(date) == date.is # "instant"

\* calendar: the type a word names for another, if it has a period
Calendar(q, ty, word) ==
  {t \in DOMAIN q.schema : word \in DOMAIN q.schema[ty].calendars /\ t = q.schema[ty].calendars[word] /\ q.schema[t].period # <<>>}
\* bounds
DateAt(node, f) == IF f \in DOMAIN node.props /\ "date" \in DOMAIN node.props[f] THEN Instant(node.props[f].date) ELSE Refused
Bounds(q, t, node) ==
  LET from == DateAt(node, q.schema[t].period[1].from)
      to   == DateAt(node, q.schema[t].period[1].to)
  IN IF Stuck(from) \/ Stuck(to) THEN [from |-> Refused, to |-> Refused]
     ELSE IF from.at > to.at THEN [from |-> Refused, to |-> Refused] ELSE [from |-> from, to |-> to]
PeriodNodes(q, t) == {n \in DOMAIN q.nodes : t \in q.nodes[n].labels}

\* year_name
Digits(n) == IF n < 10 THEN 1 ELSE IF n < 100 THEN 2 ELSE IF n < 1000 THEN 3 ELSE 4
Parts(name) == IF "num" \in DOMAIN name THEN <<[len |-> Digits(name.num), value |-> name.num]>> ELSE name.parts
YearOf(part) == IF part.len = 2 THEN 2000 + part.value ELSE IF part.len = 4 THEN part.value ELSE 0 - 1
YearName(name) ==
  LET parts == Parts(name)
      first == YearOf(parts[1])
      good  == first >= 0 /\ (Len(parts) = 1 \/ (Len(parts) = 2 /\ YearOf(parts[2]) = first + 1))
  IN IF "num" \in DOMAIN name /\ name.num < 100 THEN {[num |-> 2000 + name.num]}
     ELSE IF good THEN {[num |-> first]} ELSE {}

\* resolve
Resolve(q, ty, date) ==
  LET named(t)  == q.schema[t].period[1].named
      keys(t)   == IF q.schema[t].fields[named(t)].type = "Int" THEN YearName(date.name) ELSE {date.name}
      found(t)  == {n \in PeriodNodes(q, t) : named(t) \in DOMAIN q.nodes[n].props /\ q.nodes[n].props[named(t)] \in keys(t)}
      bounds(t) == Bounds(q, t, q.nodes[CHOOSE n \in found(t) : TRUE])
  IN CASE date.is = "instant" -> date
       [] date.is = "year" -> IF date.end THEN Instant((date.year + 1 - 2000) * YearLength - 1) ELSE Instant((date.year - 2000) * YearLength)
       [] date.is = "period" ->
            LET targets == Calendar(q, ty, date.word)
                t       == CHOOSE t \in targets : TRUE
            IN IF targets = {} THEN Refused
               ELSE IF Cardinality(found(t)) # 1 THEN Refused
               ELSE IF date.end THEN bounds(t).to ELSE bounds(t).from
\* window
WindowOf(q, ty, w) ==
  LET from == Resolve(q, ty, w.from)
      to   == Resolve(q, ty, w.to)
  IN IF Stuck(from) \/ Stuck(to) THEN [from |-> Refused, to |-> Refused]
     ELSE IF from.at > to.at THEN [from |-> Refused, to |-> Refused] ELSE [from |-> from, to |-> to]

\* expression: a chain's tests are read on the first type a hop leads to
HopFrom(q, ty, hop) ==
  LET fields == q.schema[ty].fields
  IN IF hop.field \in DOMAIN fields /\ fields[hop.field].is = "edge" THEN Head(fields[hop.field].targets) ELSE ty
RECURSIVE Expression(_, _, _)
Expression(q, ty, e) ==
  CASE e.op \in {"and", "or"} -> [e EXCEPT !.terms = [i \in DOMAIN e.terms |-> Expression(q, ty, e.terms[i])]]
    [] e.op = "ever" ->
         [e EXCEPT !.window = [i \in DOMAIN e.window |-> WindowOf(q, ty, e.window[i])], !.test = Expression(q, ty, e.test)]
    [] e.op = "time" -> [e EXCEPT !.date = Resolve(q, ty, e.date), !.test = Expression(q, ty, e.test)]
    [] e.op = "chain" ->
         LET reached(n) == FoldLeft(LAMBDA t, hop : HopFrom(q, t, hop), ty, SubSeq(e.hops, 1, n))
         IN [e EXCEPT !.hops = [n \in DOMAIN e.hops |->
               [e.hops[n] EXCEPT !.test = [i \in DOMAIN e.hops[n].test |-> Expression(q, reached(n), e.hops[n].test[i])]]]]
    [] OTHER -> e

\* selection
RECURSIVE SelectionOf(_, _)
SelectionOf(q, sel) ==
  [sel EXCEPT
     !.window = [i \in DOMAIN sel.window |-> WindowOf(q, sel.type, sel.window[i])],
     !.where  = [i \in DOMAIN sel.where |-> Expression(q, sel.type, sel.where[i])],
     !.items  = [i \in DOMAIN sel.items |->
                  CASE sel.items[i].is = "walk" -> [sel.items[i] EXCEPT !.target = SelectionOf(q, sel.items[i].target)]
                    [] sel.items[i].is = "time" -> [sel.items[i] EXCEPT !.test = Expression(q, sel.type, sel.items[i].test)]
                    [] OTHER -> sel.items[i]]]

\* next_sample, and the loop around it
NextSample(t, unit) ==
  CASE unit = "month" -> (t \div MonthLength + 1) * MonthLength
    [] unit = "week"  -> t + WeekLength
    [] unit = "day"   -> t + 1
RECURSIVE Samples(_, _, _)
Samples(t, to, unit) == IF t > to THEN <<>> ELSE <<t>> \o Samples(NextSample(t, unit), to, unit)

\* query (series): the starts of the periods that overlap
InOrder(nodes, at) ==
  [i \in 1 .. Cardinality(nodes) |->
     at[CHOOSE n \in nodes : Cardinality({o \in nodes : at[o] < at[n] \/ (at[o] = at[n] /\ o < n)}) = i - 1]]
StartsOf(q, word, from, to) ==
  LET targets == Calendar(q, q.root.type, word)
      t       == CHOOSE t \in targets : TRUE
      bounds  == [n \in PeriodNodes(q, t) |-> Bounds(q, t, q.nodes[n])]
      good    == \A n \in DOMAIN bounds : ~Stuck(bounds[n].from)
      within  == {n \in DOMAIN bounds : bounds[n].from.at <= to /\ bounds[n].to.at >= from}
  IN IF targets = {} THEN Refused
     ELSE IF ~good THEN Refused
     ELSE [is |-> "dates", dates |-> InOrder(within, [n \in within |-> bounds[n].from.at])]
Series(q, clause) ==
  LET w == WindowOf(q, q.root.type, clause)
  IN CASE Stuck(w.from) -> Refused
       [] clause.unit \in {"day", "week", "month"} -> [is |-> "dates", dates |-> Samples(w.from.at, w.to.at, clause.unit)]
       [] OTHER -> StartsOf(q, clause.unit, w.from.at, w.to.at)
\* query (time)
TimeOf(q, clause) ==
  CASE clause.is = "as of"  -> [clause EXCEPT !.date = Resolve(q, q.root.type, clause.date)]
    [] clause.is = "window" -> [clause EXCEPT !.of = WindowOf(q, q.root.type, clause.of)]
    [] clause.is = "series" ->
         [clause EXCEPT !.from = Resolve(q, q.root.type, clause.from), !.to = Resolve(q, q.root.type, clause.to)]

\* temporal_expr, if it looked no further than the node itself
RECURSIVE TemporalHere(_)
TemporalHere(e) ==
  CASE e.op \in {"and", "or"} -> \E i \in DOMAIN e.terms : TemporalHere(e.terms[i])
    [] e.op = "ever"  -> e.window # <<>> \/ TemporalHere(e.test)
    [] OTHER -> e.op = "time"
\* temporal_expr
RECURSIVE TemporalExpr(_)
TemporalExpr(e) ==
  CASE e.op \in {"and", "or"} -> \E i \in DOMAIN e.terms : TemporalExpr(e.terms[i])
    [] e.op = "ever"  -> e.window # <<>> \/ TemporalExpr(e.test)
    [] e.op = "time"  -> TRUE
    [] e.op = "chain" -> \E n \in DOMAIN e.hops : \E i \in DOMAIN e.hops[n].test : TemporalExpr(e.hops[n].test[i])
    [] OTHER -> FALSE
\* temporal_selection
RECURSIVE TemporalSelection(_)
TemporalSelection(sel) ==
  \/ sel.window # <<>>
  \/ \E i \in DOMAIN sel.where : TemporalExpr(sel.where[i])
  \/ \E i \in DOMAIN sel.items :
       \/ sel.items[i].is = "walk" /\ TemporalSelection(sel.items[i].target)
       \/ sel.items[i].is = "time" /\ TemporalExpr(sel.items[i].test)

-----------------------------------------------------------------------------
(* What a named date means.                                                *)

\* Every date of an expression or a selection, with the type it is said of, in
\* order; the two ends of a window together.
Said(ty, ends) == <<[type |-> ty, ends |-> ends]>>
Flat(seqs) == FoldLeft(LAMBDA a, b : a \o b, <<>>, seqs)
RECURSIVE SaidIn(_, _, _)
SaidIn(q, ty, e) ==
  CASE e.op \in {"and", "or"} -> Flat([i \in DOMAIN e.terms |-> SaidIn(q, ty, e.terms[i])])
    [] e.op = "ever"  -> Flat([i \in DOMAIN e.window |-> Said(ty, <<e.window[i].from, e.window[i].to>>)]) \o SaidIn(q, ty, e.test)
    [] e.op = "time"  -> Said(ty, <<e.date>>) \o SaidIn(q, ty, e.test)
    [] e.op = "chain" ->
         LET step(run, hop) ==
               LET to == CHOOSE t \in DOMAIN q.schema : t \in Range(q.schema[run.at].fields[hop.field].targets)
               IN [at |-> to, said |-> run.said \o Flat([i \in DOMAIN hop.test |-> SaidIn(q, to, hop.test[i])])]
         IN FoldLeft(step, [at |-> ty, said |-> <<>>], e.hops).said
    [] OTHER -> <<>>
RECURSIVE SaidBy(_, _)
SaidBy(q, sel) ==
  Flat([i \in DOMAIN sel.window |-> Said(sel.type, <<sel.window[i].from, sel.window[i].to>>)])
    \o Flat([i \in DOMAIN sel.where |-> SaidIn(q, sel.type, sel.where[i])])
    \o Flat([i \in DOMAIN sel.items |->
               CASE sel.items[i].is = "walk" -> SaidBy(q, sel.items[i].target)
                 [] sel.items[i].is = "time" -> SaidIn(q, sel.type, sel.items[i].test)
                 [] OTHER -> <<>>])
SaidAt(q, clause, ty) ==
  CASE clause.is = "as of"  -> Said(ty, <<clause.date>>)
    [] clause.is = "window" -> Said(ty, <<clause.of.from, clause.of.to>>)
    [] clause.is = "series" -> Said(ty, <<clause.from, clause.to>>)
AllSaid(q, time, root) == Flat([i \in DOMAIN time |-> SaidAt(q, time[i], root.type)]) \o SaidBy(q, root)

\* 26, 2026, 26-27 and 2026-27 are the year 2026.
Written(y)   == {[len |-> 4, value |-> y]} \cup {[len |-> 2, value |-> y - 2000] : z \in {z \in {y} : z < 2100}}
Spellings(y) ==
  {[num |-> y]} \cup {[num |-> y - 2000] : z \in {z \in {y} : z < 2100}}
    \cup {[parts |-> <<a>>] : a \in Written(y)} \cup {[parts |-> <<a, b>>] : a \in Written(y), b \in Written(y + 1)}
Names(q, t, node, name) ==
  LET f == q.schema[t].period[1].named
  IN f \in DOMAIN node.props /\
       IF q.schema[t].fields[f].type = "Int"
       THEN "num" \in DOMAIN node.props[f] /\ name \in Spellings(node.props[f].num)
       ELSE node.props[f] = name
Meanings(q, ty, date) ==
  CASE date.is = "instant" -> {date.at}
    [] date.is = "year" ->
         {n \in (date.year - 2000) * YearLength .. (date.year - 1999) * YearLength - 1 :
            IF date.end THEN (n + 1) % YearLength = 0 ELSE n % YearLength = 0}
    [] date.is = "period" ->
         LET named == UNION {{<<t, n>> : n \in {n \in PeriodNodes(q, t) : Names(q, t, q.nodes[n], date.name)}} :
                             t \in Calendar(q, ty, date.word)}
             spans == {Bounds(q, b[1], q.nodes[b[2]]) : b \in named}
         IN IF Cardinality(named) # 1 THEN {}
            ELSE {IF date.end THEN s.to.at ELSE s.from.at : s \in {s \in spans : ~Stuck(s.from)}}
Meant(q, said) ==
  /\ \A i \in DOMAIN said.ends : Meanings(q, said.type, said.ends[i]) # {}
  /\ Len(said.ends) = 2 =>
       \E a \in Meanings(q, said.type, said.ends[1]), b \in Meanings(q, said.type, said.ends[2]) : a <= b
SeriesMeant(q, clause, a, b, dates) ==
  IF clause.unit \in {"day", "week", "month"}
  THEN /\ dates[1] = a /\ dates[Len(dates)] <= b
       /\ Range(dates) = {n \in a .. b : n = a \/ (CASE clause.unit = "day" -> TRUE
                                                     [] clause.unit = "week" -> (n - a) % WeekLength = 0
                                                     [] clause.unit = "month" -> n % MonthLength = 0)}
       /\ \A i \in 1 .. Len(dates) - 1 : dates[i] < dates[i + 1]
  ELSE LET spans == UNION {{<<n, Bounds(q, t, q.nodes[n])>> : n \in PeriodNodes(q, t)} : t \in Calendar(q, q.root.type, clause.unit)}
           over  == {s \in spans : s[2].from.at <= b /\ s[2].to.at >= a}
       IN /\ \A i \in 1 .. Len(dates) - 1 : dates[i] <= dates[i + 1]
          /\ \A d \in Range(dates) \cup {s[2].from.at : s \in over} :
               Cardinality({i \in DOMAIN dates : dates[i] = d}) = Cardinality({s \in over : s[2].from.at = d})
SeriesGood(q, clause) ==
  clause.is = "series" /\ clause.unit \notin {"day", "week", "month"} =>
    /\ Calendar(q, q.root.type, clause.unit) # {}
    /\ \A t \in Calendar(q, q.root.type, clause.unit) : \A n \in PeriodNodes(q, t) : ~Stuck(Bounds(q, t, q.nodes[n]).from)

\* prepare
Prepare(q) ==
  LET plain  == q.time = <<>> /\ ~TemporalSelection(q.root)
      time   == [i \in DOMAIN q.time |-> TimeOf(q, q.time[i])]
      root   == SelectionOf(q, q.root)
      series == [i \in {i \in DOMAIN q.time : q.time[i].is = "series"} |-> Series(q, q.time[i])]
      refused == \/ \E i \in DOMAIN series : series[i].is = "refused"
                 \/ \E s \in Range(AllSaid(q, time, root)) : \E i \in DOMAIN s.ends : s.ends[i].is = "refused"
  IN IF plain THEN [refused |-> FALSE, time |-> q.time, root |-> q.root, series |-> <<>>]
     ELSE IF refused THEN [refused |-> TRUE, time |-> <<>>, root |-> q.root, series |-> <<>>]
     ELSE [refused |-> FALSE, time |-> time, root |-> root, series |-> series]

\* No named date is left when history is read: each became the day the one node
\* of that name says, with the calendar of the type it was said of, and a query
\* is refused exactly when one of them means no day, or a window is reversed.
DatesMean(q, answer) ==
  LET said  == AllSaid(q, q.time, q.root)
      left  == AllSaid(q, answer.time, answer.root)
      good  == (\A s \in Range(said) : Meant(q, s)) /\ \A i \in DOMAIN q.time : SeriesGood(q, q.time[i])
  IN /\ answer.refused = ~good
     /\ good =>
          /\ Len(left) = Len(said)
          /\ \A i \in DOMAIN said : \A j \in DOMAIN said[i].ends :
               left[i].ends[j].is = "instant" /\ left[i].ends[j].at \in Meanings(q, said[i].type, said[i].ends[j])
          /\ \A i \in DOMAIN answer.series :
               SeriesMeant(q, q.time[i], left[1].ends[1].at, left[1].ends[2].at, answer.series[i].dates)
=============================================================================

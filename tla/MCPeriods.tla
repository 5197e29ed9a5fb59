----------------------------- MODULE MCPeriods ------------------------------
(***************************************************************************)
(* The named dates of the runs: seasons by year and eras by name, a team   *)
(* and its players with calendars of their own, and a date wherever a      *)
(* query may hold one.  A chain whose edge leads to several types, or      *)
(* whose first word is `same`, is known to fail and not asked here.        *)
(***************************************************************************)
EXTENDS Integers, FiniteSets, Sequences

Holds1(type) == [is |-> "prop", type |-> type]
LeadsTo(type) == [is |-> "edge", targets |-> <<type>>]
Spans(named, type) ==
  [fields |-> [y |-> Holds1(type), starts |-> Holds1("Date"), ends |-> Holds1("Date")], calendars |-> <<>>,
   period |-> <<[from |-> "starts", to |-> "ends", named |-> named]>>]
Consumes(fields, calendars) == [fields |-> fields, calendars |-> calendars, period |-> <<>>]
PeriodSchema ==
  [Season |-> Spans("y", "Int"), Half |-> Spans("y", "Int"), Era |-> Spans("y", "String"),
   Team   |-> Consumes([players |-> LeadsTo("Player"), coach |-> LeadsTo("Coach")], [season |-> "Season", era |-> "Era", game |-> "Player"]),
   Player |-> Consumes([team |-> LeadsTo("Team"), pts |-> Holds1("Int")], [season |-> "Half"]),
   Coach  |-> Consumes([team |-> LeadsTo("Team")], <<>>)]
Part(len, value) == [len |-> len, value |-> value]
NumName(n) == [num |-> n]
PartsName(parts) == [parts |-> parts]
Span1(type, name, from, to) == [labels |-> {type}, props |-> [y |-> name, starts |-> [date |-> from], ends |-> [date |-> to]]]
Half1 == Span1("Half", NumName(2001), 4, 5)
Seasons1 ==
  { <<Span1("Season", NumName(2001), 8, 13)>>,
    <<Span1("Season", NumName(2001), 8, 13), Span1("Season", NumName(2002), 3, 9)>>,
    <<Span1("Season", NumName(2001), 8, 13), Span1("Season", NumName(2001), 9, 13)>>,
    <<Span1("Season", NumName(2001), 8, 7)>>,
    <<Span1("Season", NumName(2002), 3, 9), [labels |-> {"Season"}, props |-> [y |-> NumName(2001), starts |-> [date |-> 8], ends |-> [text |-> 1]]]>>,
    <<Span1("Season", NumName(2002), 3, 9), Span1("Season", NumName(2003), 3, 5)>> }
Eras1 == {<<>>, <<Span1("Era", PartsName(<<Part(0, 0)>>), 2, 20)>>}
SomeNodes == {<<Half1>> \o s \o e : s \in Seasons1, e \in Eras1}

NamesHere ==
  { NumName(1), NumName(2001), NumName(101), PartsName(<<Part(2, 1), Part(2, 2)>>), PartsName(<<Part(4, 2001), Part(2, 2)>>),
    PartsName(<<Part(2, 1), Part(2, 3)>>), PartsName(<<Part(2, 1), Part(2, 2), Part(2, 3)>>), PartsName(<<Part(0, 0)>>) }
On(at) == [is |-> "instant", at |-> at]
In(year, end) == [is |-> "year", year |-> year, end |-> end]
Of(word, name, end) == [is |-> "period", word |-> word, name |-> name, end |-> end]
FewDates == {On(7), In(2001, FALSE), In(2001, TRUE), Of("season", NumName(1), FALSE), Of("season", NumName(1), TRUE),
             Of("era", PartsName(<<Part(0, 0)>>), FALSE), Of("game", NumName(1), FALSE)}
NamedDates == FewDates \cup {Of("season", n, e) : n \in NamesHere, e \in BOOLEAN}

Nothing1 == [op |-> "plain"]
Ever(test, window) == [op |-> "ever", test |-> test, window |-> window]
Last1(date) == [op |-> "time", test |-> Nothing1, date |-> date]
ToHop(field, test) == [field |-> field, test |-> test]
Chain1(hops) == [op |-> "chain", hops |-> hops]
Over(from, to) == <<[from |-> from, to |-> to]>>
Picks(type, window, where, items) == [type |-> type, window |-> window, where |-> where, items |-> items]
Bare1 == Picks("Team", <<>>, <<>>, <<>>)
RootsWith(d, e) ==
  { Picks("Team", Over(d, e), <<>>, <<>>),
    Picks("Team", <<>>, <<Ever(Nothing1, Over(d, e))>>, <<>>),
    Picks("Team", <<>>, <<[op |-> "and", terms |-> <<Nothing1, [op |-> "or", terms |-> <<Last1(d), Last1(e)>>]>>]>>, <<>>),
    Picks("Team", <<>>, <<Chain1(<<ToHop("players", <<Last1(d)>>)>>)>>, <<>>),
    Picks("Team", <<>>, <<Ever(Chain1(<<ToHop("players", <<>>), ToHop("team", <<Ever(Nothing1, Over(d, e))>>)>>), <<>>)>>, <<>>),
    Picks("Team", <<>>, <<Chain1(<<ToHop("coach", <<Last1(d)>>)>>)>>, <<>>),
    Picks("Team", <<>>, <<>>, <<[is |-> "prop"], [is |-> "walk", target |-> Picks("Player", <<>>, <<Last1(d)>>, <<>>)]>>),
    Picks("Player", <<>>, <<>>, <<[is |-> "time", test |-> Ever(Nothing1, Over(d, e))],
                                 [is |-> "walk", target |-> Picks("Team", Over(d, e), <<>>, <<>>)]>>),
    Picks("Team", <<>>, <<Ever(Nothing1, <<>>)>>, <<>>) }
Clauses(d, e) ==
  {[is |-> "as of", date |-> d], [is |-> "window", of |-> [from |-> d, to |-> e]]}
    \cup [is : {"series"}, from : {d}, to : {e}, unit : {"day", "week", "month", "season", "era", "decade"}]
MCNamedDates ==
  [schema : {PeriodSchema}, nodes : SomeNodes, time : {<<>>},
   root : UNION {RootsWith(d, e) : <<d, e>> \in {p \in NamedDates \X NamedDates : p[1] \in FewDates \/ p[1] = p[2]}}]
  \cup
  [schema : {PeriodSchema}, nodes : SomeNodes, root : {Bare1, Picks("Team", Over(Of("season", NumName(2), FALSE), On(30)), <<>>, <<>>)},
   time : {<<c>> : c \in UNION {Clauses(d, e) : <<d, e>> \in (FewDates \cup {On(3)}) \X (FewDates \cup {On(11)})}}]
=============================================================================

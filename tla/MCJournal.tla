------------------------------ MODULE MCJournal -----------------------------
EXTENDS Journal, TLC

\* Two schemas.  Both date the name; one dates nodes and edges as well, and one
\* has a single-valued relationship, seen from one end.
Dated == [uniques |-> {}, ranges |-> {}, temporal |-> {<<"T", "name">>},
          temporal_rels |-> {"of"}, views |-> {<<"of", "inc">>, <<"of", "out">>}, single |-> {},
          lifetimes |-> <<[type |-> "T", appears |-> {"born"}, ends |-> {"died"}]>>]
Plain == [uniques |-> {<<"T", "name">>}, ranges |-> {<<"T", "name">>},
          temporal |-> {<<"T", "name">>}, temporal_rels |-> {}, lifetimes |-> <<>>,
          views |-> {<<"of", "out">>}, single |-> {<<"of", "out">>}]
MCSchemas == {Dated, Plain}

\* The schema of docs/relationships.md: playsFor is one team, and players is
\* the same relationship seen from the team.
BothViews == [Plain EXCEPT !.views = {<<"of", "inc">>, <<"of", "out">>}]
MCBothViews == {BothViews}

\* A schema that dates the unique name, and one in which it is a plain field.
Sometimes == [Plain EXCEPT !.views = {}, !.single = {}]
MCSometimes == {Sometimes, [Sometimes EXCEPT !.temporal = {}]}

T(props) == [labels |-> {"T"}, props |-> props]
MCNodes == {T("name" :> 1), T(("name" :> 2) @@ ("born" :> 2) @@ ("id" :> 1))}
MCProps == {"name" :> 1, "died" :> 1, ("name" :> 2) @@ ("id" :> 1)}
=============================================================================

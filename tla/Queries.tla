------------------------------ MODULE Queries ------------------------------
(***************************************************************************)
(* One question of each kind that is put to the engine, answered as it     *)
(* answers it: a selection's rows, the rows a chain holds for, a test      *)
(* through time, a window, a `then` pipeline, the named dates of a query,  *)
(* a mutation or a read with its check, a schema change, a graph's way     *)
(* through a file, a bundle's to another computer (zega/src/v2.rs, v2/,    *)
(* lang/, schema_diff.rs, graph_file/, bundle.rs); and, of many steps, a   *)
(* route (path.rs) and the life of an id map (graph/idmap.rs).  The graph  *)
(* does not change while a statement reads it.                             *)
(***************************************************************************)
EXTENDS Reads, Walks

CONSTANTS
  Selections,  \* [data, index, of]
  Chains,      \* [graph, index, types, of]
  TimeTests,   \* [history, node, of]
  Windows,     \* [history, of, from, to]
  Paths,       \* the questions of Routes; the kinds below are those of their modules
  Changes,     \* [data, old, new]
  Commands,    \* [data, mutation, of]
  Files,       \* [graph, options, change, resealed]
  Schema, Uniques,
  Horizon,
  MaxValueDepth, StoredMark,
  Discoveries, Gram,
  DatedQueries, YearLength, MonthLength, WeekLength,
  Bundles, Bytes, Staging, Wrapper,
  StoredIds, Fills, Chunk, Span, LastChunk

T == INSTANCE Timeline
P == INSTANCE Routes
D == INSTANCE SchemaDiff
S == INSTANCE Statements
F == INSTANCE GraphFile
I == INSTANCE IdMap
Y == INSTANCE Discovery
N == INSTANCE Periods
B == INSTANCE Bundle

VARIABLES
  asks,      \* the kind of question
  question,
  answer     \* <<>> until there is one; a route's search as it goes

vars == <<asks, question, answer>>

Init ==
  \/ asks = "ids"     /\ question = StoredIds
                      /\ \E ids \in Fills : answer = [map |-> I!Filled(ids), ids |-> Range(ids)]
  \/ asks = "path"    /\ question \in Paths      /\ answer = P!SearchStart(question)
  \/ asks = "rows"    /\ question \in Selections /\ answer = <<>>
  \/ asks = "chain"   /\ question \in Chains     /\ answer = <<>>
  \/ asks = "test"    /\ question \in TimeTests      /\ answer = <<>>
  \/ asks = "window"  /\ question \in Windows    /\ answer = <<>>
  \/ asks = "then"    /\ question \in Discoveries /\ answer = <<>>
  \/ asks = "dates"   /\ question \in DatedQueries /\ answer = <<>>
  \/ asks = "bundle"  /\ question \in Bundles    /\ answer = <<>>
  \/ asks = "change"  /\ question \in Changes    /\ answer = <<>>
  \/ asks = "run"     /\ question \in Commands   /\ answer = <<>>
  \/ asks = "file"    /\ question \in Files      /\ answer = <<>>

Answers(kind, with) ==
  asks = kind /\ answer = <<>> /\ answer' = <<with>> /\ UNCHANGED <<asks, question>>

ReadsRows   == Answers("rows", Read(question.data, question.index, question.of))
WalksChains ==
  Answers("chain", IF ~ChecksGroup(question.types, question.of) THEN [refused |-> TRUE]
                   ELSE [refused |-> FALSE, rows |-> Rows(question.graph, question.index, question.types, question.of)])
TestsTimes  == Answers("test", T!ReadTimes(question.history, question.node, question.of))
ReadsWindow == Answers("window", T!ReadWindow(question.history, question.of, question.from, question.to))
RunsStages == Answers("then", Y!Discover(question))
ResolvesDates == Answers("dates", N!Prepare(question))
TradesBundles == Answers("bundle", B!Trade(question))
DiffsSchemas == Answers("change", D!Diff(question.data, question.old, question.new))
RunsStatements ==
  Answers("run", S!Execute(Schema, Uniques, question.data, question.mutation, question.of))
ExchangesFiles ==
  Answers("file", F!Exchange(question.graph, question.options, question.change, question.resealed))
Searches ==
  /\ asks = "path" /\ ~P!SearchEnded(answer)
  /\ answer' = P!SearchStep(question, answer)
  /\ UNCHANGED <<asks, question>>

StoresRecord(id) ==
  /\ asks = "ids"
  /\ answer' = [map |-> I!InsertId(answer.map, id), ids |-> answer.ids \cup {id}]
  /\ UNCHANGED <<asks, question>>
RemovesRecord(id) ==
  /\ asks = "ids"
  /\ answer' = [map |-> I!RemoveId(answer.map, id), ids |-> answer.ids \ {id}]
  /\ UNCHANGED <<asks, question>>

Next ==
  \/ ReadsRows \/ WalksChains \/ TestsTimes \/ ReadsWindow
  \/ RunsStages \/ ResolvesDates \/ RunsStatements
  \/ DiffsSchemas \/ ExchangesFiles \/ TradesBundles
  \/ Searches
  \/ \E id \in StoredIds : StoresRecord(id) \/ RemovesRecord(id)

\* A statement runs on until its search has ended.
Spec == Init /\ [][Next]_vars /\ WF_vars(Searches)

Answered(kind) == asks = kind /\ answer # <<>>

\* An index, a limit or a circle never changes which rows a selection reads,
\* nor their order (read, candidates, index_filter, order_limit).
ReadsAreScans == Answered("rows") => IsScan(question.data, question.of, answer[1])

\* A chain the check lets through holds for the rows that have the walks,
\* whether they are found forward, backward from an index, or from both ends
\* (chain.rs:26-27), and each hop lands on the types it was checked against.
ChainsAreWalks ==
  Answered("chain") /\ ~answer[1].refused =>
    /\ LandsOnTypes(question.graph, question.types, question.of)
    /\ AreWalks(question.graph, question.types, question.of, answer[1].rows)

\* What is asked of history is answered as a look at every instant would: `ever`,
\* `always`, @firstTime and @lastTime with the summaries they use, and a window,
\* which misses no state between its ends (ever_always, first_last, boundaries,
\* window_read).
TimesAreLooks ==
  /\ Answered("test") => T!SeesAllTimes(question.history, question.node, question.of, answer[1])
  /\ Answered("window") => T!SeesAllOfWindow(question.history, question.of, question.from, question.to, answer[1])

\* A schema change that is not refused leaves all data with a place in the new
\* schema, once what its report calls renamed and converted was (diff_schemas,
\* set_schema).
ChangesKeepData ==
  Answered("change") => D!KeepsData(question.data, question.new, answer[1])

\* A mutation that succeeds did all it says and left data that fits the schema
\* (mutate, apply_node, connect).
MutationsDoAll ==
  Answered("run") /\ question.mutation /\ answer[1].failed = "none" =>
    S!DoesAll(Schema, question.data, question.of, answer[1])

\* What the check lets through never fails for what the schema says: a row may
\* be missing, taken or in the way (check, prepare, project).
CheckedStatementsRun == Answered("run") => S!RunsOrClashes(answer[1])

\* One graph has one encoding, whichever writer gives it; it reads back whole,
\* and nothing else is read (write, write_unfinished, finish, read; graph_file/
\* mod.rs:14-16).
FilesAreOneEncoding ==
  Answered("file") => F!OneEncoding(question.graph, question.options, question.resealed, answer[1])

\* A `then` stage finds what a look at every node and word would, of the day
\* asked of, and proposes the edges there is evidence for (pipeline, evaluate,
\* primitive_matches; docs/then.md:25-31).
StagesFindAll == Answered("then") /\ ~answer[1].refused => Y!FindsAllOf(question, answer[1].stages)

\* A named date means the day its one node says, and none is left unread
\* (prepare, resolve; docs/time.md:205-209, 423-428).
NamedDatesMean == Answered("dates") => N!DatesMean(question, answer[1])

\* A bundle is packed when its files can go along and only then, arrives whole on
\* a computer that has none of them, and says nothing of where they lay; what a
\* reference resolves to is never other bytes (put_reader, resolve, pack_with,
\* unpack_with; bundle.rs:16-33).
BundlesTravel ==
  Answered("bundle") => B!Travels(question, answer[1]) /\ B!ServesTheBytes(question, answer[1])

\* Every node and relationship stored is found by its id and listed once, in
\* order, wherever its record has moved (insert, remove, absorb, rebuild).
RecordsAreFound == asks = "ids" => I!FindsAll(answer.map, answer.ids)

\* The route is the best there is within the bound, and no node's roads were
\* read twice for it (fewest_edges, cheapest).
RoutesAreBest ==
  asks = "path" /\ P!SearchEnded(answer) => P!BestRoute(question, answer) /\ P!ReadsOnce(question, answer)

\* Every search ends, among zero weights and stale entries too.
SearchesEnd == asks = "path" ~> asks = "path" /\ P!SearchEnded(answer)
=============================================================================

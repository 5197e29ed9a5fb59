# A verification model of zega

zega is an embedded and served graph database in Rust. This directory holds
TLA+ modules that model the parts of it where ordering, failure and
concurrency decide whether it is correct, TLC configurations that check them on
small instances, and proofs that the TLA+ proof system checks for every
instance. Paths are relative to the repository.

## 1. Inventory

| Component | Code | State it keeps | Operations |
|---|---|---|---|
| Write-ahead log | `zega/src/wal/mod.rs` | the open file, `next_sequence`, `durable_sequence`, `pending_entries`, `pending_start`, `durability_error`, a condition variable, a worker thread | `append`, `append_statement`, `mark_imports`, `end`, `rotate`, `iter`, open, drop |
| Data directory | `zega/src/lib.rs`, `zega/src/checkpoint.rs` | `wal.bin`, `wal.rotate.tmp`, `graphs/*.graph`, staging files, `snapshot.bin`; `import_lock`, the graph mutex | open, `import`, `import_staged`, `clear`, `checkpoint`, the checkpoint thread, drop |
| Statement journal | `zega/src/journal.rs` | an undo list and the operations of one statement | `atomically`, `roll_back`, one method per kind of write |
| In-memory graph | `zega/src/graph/*`, `idset.rs`, `index.rs`, `vector.rs`, `location.rs` | nodes, relationships, adjacency, id maps, unique constraints, indexes | inserts, updates, deletes, look-ups |
| History and time | `zega/src/history.rs`, `v2/time.rs`, `v2/periods.rs` | dated facts of nodes and relationships | backdated writes, point-in-time reads, named periods |
| Query language | `zega/src/lang/*`, `v2.rs`, `v2/chain.rs`, `path.rs`, `fmt/*` | none across statements | parse, plan, evaluate, format |
| Schema diff, bundles, validation | `schema_diff.rs`, `bundle.rs`, `validation/*` | none | pure functions |
| `.graph` files | `zega/src/graph_file/*` | none | read, write, digest |
| Linked graphs, engine | `zega/src/linked.rs` | `graph_version`, per-node versions, history of records, leases, mirrors | `record`, `subscribe`, `link`, `apply_diff`, `coalesce`, `reconcile`, `sync_check` |
| Linked graphs, server | `zega-server/src/sync.rs` | `ready`, tokens, the worker's cursor and pending batches | `push`, `receive`, `fetch`, `renew`, `drain`, `repair_all`, `wake_subscriber`, `worker`, `deliver` |
| Transfers | `zega-server/src/handlers.rs` | transfer slots, staging files | export, import of `.graph` files |
| Server, CLI, wasm, browser, npm | `zega-server/src/*`, `zega-cli/*`, `zega-wasm/*`, `browser/*`, `npm/*` | the engine mutex, `zega.lock` | routes, commands, user interface |

How they interact. A statement runs under the graph mutex: the journal applies
it to the graph and remembers how to undo it, `linked::record` adds its sync
record, and `append_statement` puts one entry into the log and waits for it to
be durable, still under the graph mutex; if that fails the journal rolls the
graph back. An import decodes a file into a new graph, takes `import_lock`,
moves the file into `graphs/`, marks the log and appends one entry that names
the file, under the graph mutex. A checkpoint takes `import_lock`, copies the
graph under the graph mutex together with the log's length, and then, without
the graph mutex, writes the file and rotates the log: the new log is the entry
naming the file and everything appended since. A commit wakes the sync worker,
which reads the records since its cursor and pushes them to subscribers.
The order of locks is: the server's engine mutex, `import_lock`, the graph mutex,
the log's mutex. Another process is kept out by `zega.lock`
(`zega-cli/src/main.rs`).

What is hard in this code: group commit (a caller waits without the mutex while
others sync, fail or poison the log); failures of fsync and of the clean-up
after it; a rotation under running appends; a crash between any two file
operations of an import, a checkpoint or an open; deletion of files that some
log might still name; between servers, deliveries that are lost, doubled and
reordered while both sides restart; clients that stall while they hold a slot;
and the many ways a query may be answered by an index, a summary or a walk from
its other end.

What makes each part correct:

- log: an acknowledged entry is on disk; a refused one is not replayed; every
  append returns; nothing is appended after a torn tail; a rotation changes no
  history;
- data directory: whatever stops it, an open finds the last acknowledged graph
  or a change in flight, and no file is deleted that a log may still name;
- journal: a failed statement leaves the graph, the indexes and the id counters
  as they were; the log it writes replays to the graph in memory, an id handed out again
  names nothing left over, and no statement breaks a constraint of its schema;
- linked graphs: a mirror at version v is the source's node at version v, and
  it reaches the source's last version;
- transfers: slots, the gate and staging files are given back on every path,
  and what is served or installed is whole;
- reading: an index, a limit, a walk from the other end, a summary or a heap
  never changes what is found, and every search ends;
- writing: what the check lets through runs, what succeeds did all it says, and
  a schema change leaves all data readable;
- files and bundles: one graph has one encoding, and it travels whole.

## 2. Modules

| Module | What it is |
|---|---|
| `DurableStore` | the abstract promise: submitted writes are accepted or refused, the process stops and reopens, an acknowledged write is always found and a refused one never |
| `Wal` | the log, one action per critical section |
| `MCWal` | model values and symmetry for the runs of `Wal` |
| `WalProofs` | `Wal`: types, acknowledged writes, torn tails, counters, memory, rotation, and that it implements `DurableStore` |
| `Store` | the data directory: statements, imports, checkpoints, stops, opens |
| `StoreProofs` | `Store`: types, and that no stop, crash or power cut loses a promised graph |
| `MCStore` | model values and symmetry for the runs of `Store` |
| `Replica` | the abstract promise of linked graphs: a mirror is a whole past state of its source and moves only forward |
| `Linked` | a source, its subscriber, the pushes and the mailbox between them |
| `LinkedProofs` | `Linked`: types and positions; contents, and that it implements `Replica` |
| `MCLinked` | model values, symmetry and a start with linked nodes for the runs of `Linked` |
| `Graph` | the graph in memory: nodes, relationships, adjacency, unique and range indexes, id counters, as operators from a graph to a graph |
| `History` | the dated changes of one field and their summary |
| `Journal` | one statement's writes over `Graph` and `History`, its roll-back, its log entry and the replay of it |
| `Loop` | the rule for a loop over ids, instantiated by the proofs of `Graph` and `Journal` |
| `JournalStepProofs` | `Graph`: its indexes and adjacency say what a scan does; `Journal`: of which steps each call is made |
| `JournalProofs` | `Journal`: a failed statement leaves no trace, and lookups find what a scan finds |
| `JournalHistoryProofs` | `Journal`: no id names anything left over, histories are in order and up to date, an open of the log finds what is in memory, and constraints hold |
| `MCJournal` | two schemas and the nodes they describe |
| `Transfers` | exports, imports and statements over one database: slots, the gate, the channel, staging files, clients that stall or leave |
| `TransfersProofs` | `Transfers`: slots, gate, staging files, whole transfers |
| `MCTransfers` | the bodies clients send |
| `Queries` | one question of each kind put to the engine, and its answer; composes the modules below |
| `Reads` | how a selection finds its rows: indexes, candidates, order and limit |
| `Walks` | chains in a condition, forward, backward and from both ends, and `same` |
| `Timeline` | tests through time, `ever`, `always`, first and last times, windows |
| `Routes` | the search of a `*path` selection |
| `Discovery` | `then` stages: texts, common values, what is near or similar |
| `Periods` | named dates, resolved from the nodes that are periods |
| `Schemas` | schemas and the data they describe |
| `SchemaDiff` | a schema change classified against the data |
| `Statements` | the check of a read or mutation, and what it then does |
| `GraphFile` | the two writers and the reader of `.graph` files |
| `IdMap` | records by id: chunks of slots and an ordered overflow map |
| `Bundle` | a graph with its files: put, resolve, verify, pack, unpack |
| `MCQueries` | the questions of the run, with those of `MCChanges`, `MCStatements`, `MCFiles`, `MCDiscovery`, `MCPeriods` and `MCBundles` |

### Wal

An entry is its sequence number. A log is `[head, tail]`: the writes in the
`.graph` file the first entry names, and the entries after it. `cache` is the
file as readers see it, `disk` what the last successful fsync put on stable
storage, `replaced` the logs a power cut could still put back under the log's
name after a rename, `torn` whether a part of an entry follows the last whole
one, `lost` the pages a failed fsync dropped. The counters are the fields of
`WalState`, and `waiting[w]` is the `sequence` local of `append`.

| Action | Code |
|---|---|
| `WriteEntry`, `WriteFails`, `RollbackFails` | `append` up to its wait, with `append_entry` |
| `FlushEntry`, `FlushEntryFails` | the `flush_every` branch |
| `AppendReturnsOk`, `AppendReturnsErr`, `AppendWaitsAgain`, `SpuriousWake` | the wait loop |
| `WorkerSyncs`, `WorkerFails` | `group_commit_worker`, one round |
| `Capture`, `Abandon` | a checkpoint's copy of graph and position |
| `RotateStarts` ... `RotateUnsettled` | `rotate`, split where a crash can separate file operations |
| `MarkImports`, `MarkImportsFails` | `mark_imports` |
| `Kill`, `PowerCut`, `Close`, `Open` | the ends of a process, and `with_group_commit` with `iter` |

The constants choose the environment: `GraphLock` says whether appends exclude
each other as they do in the engine, `Faults` which file operations may fail,
`Stops` how the process may end, `FlushModes` which commit modes to consider,
`SyncCommitsRename` whether fsync of a file also commits its directory entry
(true of journaling file systems, not promised by POSIX).

### Store

Here the log is a sequence of entries, `synced` of which are on disk; a graph
is the set of the writes it holds, and a `.graph` file's name, a hash of its
bytes, is the graph itself. `dir` is the directory now, `dirs` the directories
a power cut may go back to: changes reach the disk in order, and any fsync
commits those before it. `job[t]` says where thread t is in an import or a
checkpoint, at the granularity of the crash points in `checkpoint.rs` (`Step`).
`Recover` is `open_with_builder`: `settle_rotation`, the choice of the entry to
start from, `refuse_lost_log` and the replay. `promised` and `tail` are history
variables: the graph after the last acknowledged change, and the changes in
flight or refused since.

A statement, an import's install and a checkpoint's capture exclude each other
by the graph lock (`GraphFree`), imports and checkpoints by `import_lock`,
appends and rotations by the log's mutex (`LogFree`).

### Linked

One source, one subscriber, and the requests between them. `past[n][v]` is node
n at version v, kept by the model only; `history` the source's records, `leased`
the nodes with a lease; `cursor` and `batch` are the worker's; `delivering`
holds the deliveries whose push has no answer yet, `inflight` the pushes in the
network, `mailbox` the mailbox, `mirror` the durable mirrors, `ready` and
`token` what the subscriber keeps in memory, and `task[t]` where a handler or a
wake stands between two of its awaits.

| Action | Code |
|---|---|
| `Commit` | a statement (`record`) or a reload (`reconcile`) with `apply_metadata` |
| `WorkerReads`, `Deliver`, `FallBack` | `worker` with `coalesce`, and `deliver` |
| `Accept`, `Look`, `Fetch`, `Install`, `Apply` | `push`, `receive`, `fetch` with `sync_node`, `link`, `apply_diff` |
| `Link` | `POST /sync/link`: fetch, then `renew` |
| `Wake`, `Renew`, `Subscribe`, `List`, `DeleteItem`, `Check`, `Open` | `wake_subscriber`, `renew`, `drain`, `repair_all` |
| `Fail` | any `?` of these on a request |
| `SourceRestarts`, `SubscriberRestarts` | the end of a process and `start` |

A field's value is the version that wrote it, so a field that is old or left
over can be told from the right one. A compound field stands for everything that
makes `receive` fetch: lists, maps, relationships to nodes the subscriber does
not know. A lost or refused push is one that stays in `inflight`. The order in
which `receive` fetches the nodes of one diff is left open. `Check` reads the
mirrors and asks the source in one step; a list that is older names at most
other nodes to fetch, which `Link` may fetch at any time.

### Journal

A statement runs under the graph lock, so a behaviour is a sequence of
statements, each a sequence of journal calls. `db` is the graph with its
histories and identities, `journal` the open statement with its undo list and
operations, `log` the entries accepted, `before` (kept by the model only) the
database the statement began with.

| Action | Code |
|---|---|
| `Begin`, `BeginCall` | `execute` up to `atomically` (`sync_indexes`, `sync_uniques`), and the calls of the library's own interface |
| `Insert`, `Set`, `Connect`, `Disconnect`, `Delete` | the journal's methods with `apply_node`, `connect` and their checks |
| `Fail` | an error of the statement at any point, or a refusal of `record` or of the append |
| `Accepted`, `ReadOnly` | `append`, `publish`; nothing to log |

`RollBack` undoes the list from its end. `Apply` is what replay makes of each
operation. `EarlyDeletes` lets a statement delete at a date before a
relationship of the node began (finding 4).

### Transfers

`pc[r]` is where request r stands, in its handler or in a task it started;
`gate` who holds the engine mutex, `slots` the transfer slots, `files` the
staging files, `sent` and `got` the chunks in and out of the channel or of the
socket, `failed` the streams that end in an error, `handler` the requests whose
client is still there. `Leaves` drops a handler at any point and with it its
slot and its file; a task runs on. `disk` chooses between the two kinds of
database. In memory a download is encoded under the gate straight into the
channel; one that fails gives up the gate first and then waits for room to send
its error (`StreamFails`, `StreamSendsError`). Statements are requests that take
the gate and give it back.

### Queries

A behaviour asks one question: `asks` is its kind, `question` the question with
the data it is about, `answer` what the engine makes of it. Most kinds are one
statement under the graph lock and so one step, and each of the modules has the
engine's algorithm next to a plain definition of what was asked. `path` and
`ids` have many steps: a pop of the search's heap, an insert or a remove of the
id map. The definitions the algorithms are checked against are written from the
documentation of the language, over every node, instant, word or walk there is:
they use no index, no summary and no frontier.

Text is not modelled: a statement is its syntax tree, a word a sequence of
letters of which two fold to one, a place a point on a line, a calendar one of
short years. Numbers are integers; a Float is one in hundredths where rounding
decides (the guess of the route search).

## 3. Runs

| Run | Question | Bounds | Result |
|---|---|---|---|
| `wal_api` | Are the counters, the file and memory consistent under every failure, with two concurrent appends? | 2 writers, 3 entries, all faults, both modes, kill and power cut | holds, 592,811 states |
| `wal_engine` | Does the log keep its promises as the engine uses it? | 2 writers under the graph lock, 3 entries, all faults but `presync` and `mark` | holds, 390,194 states, liveness included |
| `wal_lost_wakeup` | Does every append return if a rotation's first fsync may fail? | as above | violated: finding 1 |
| `store` | Does every stop leave a directory that opens to the right graph, and is nothing deleted that a replay needs? | 2 threads, 2 statements, 1 import, at most 3 log entries and 3 files | holds, 940,866 states |
| `store_first_import` | Does every open succeed? | as above | violated: finding 2 |
| `linked` | Does a mirror move only forward through its source's states, and does it reach the last one? | 1 node, 1 field, 3 commits, one handler and two wakes at once, from two starting states | holds, 520,680 states, liveness included |
| `linked_pair` | Do mirrors stay whole, with several nodes in a diff and fields that need a fetch? | 2 linked nodes, 2 fields, 2 more commits, one handler and one wake | holds, 5,047,837 states |
| `linked_reload` | Is a mirror right after a reload brings a deleted node back? | 1 node, 2 fields, 3 commits, reloads | violated: finding 3 |
| `journal` | Does a failed statement leave nothing, and does the log replay to memory? | 2 statements of up to 3 calls, 2 nodes, 2 relationships, 2 schemas, 2 instants | holds, 1,985,765 states |
| `journal_early_delete` | The same, with deletes dated before a relationship began | as above | violated: finding 4 |
| `transfers` | Is everything given back, is what arrives whole, and does every transfer end? | 3 requests, 1 slot, 2 chunks a file, 1 in the channel, imports of 1 chunk, on disk and in memory | holds, 1,483,525 states, liveness included |
| `queries` | Does every question get the answer its meaning says? | all questions of the `MC` modules: up to 4 nodes, 2 or 3 types, a handful of conditions, chains, histories, schema edits, files | holds, 744,713 states, liveness included |

Why the bounds are enough. Three entries give an acknowledged, a pending and an
in-flight entry at once, which is every distinction the counters make; a second
writer is enough for one append to fail while another waits or is already
durable. In `Store` the log holds at most a base entry and two more, three files
are the base, its successor and a leftover of a failed attempt, and two threads
cover import against import, import against checkpoint and both against
a statement. The bounds limit how many entries exist at once, not how often the
process stops: it may be killed and reopened any number of times.

In `Linked`, three versions are the least that make a gap with something on both
sides of it, and the least that a deleted node needs to come back. In `linked`
one handler, the daily wake and one that a `POST /sync/repair` starts run against
each other; none is limited in how often it runs, fails or is cut off by a
restart. It begins with a node that was written twice before anybody links it
(`UnlinkedInit`) or was linked at once (`LinkedInit`), states the system reaches.
`linked_pair` has one wake and begins with both nodes linked, so that its two
commits can be the two that a mirror misses; a second wake there is left to the
theorems, which hold for any number. One
commit writes one field of each node it touches; windows join them. Its two
fields are one that a diff can carry and one that needs a fetch.

In `Journal`, three calls are the least that write, connect and delete one node
in one statement; the second statement meets what the first left, under another
schema. Two nodes and two relationships are enough for a unique value to be
taken, for an end to be missing and for an id to be handed out again; two
instants for a write behind a later one. One hash bucket makes every pair of
unique values collide.

In `Transfers`, one slot and three requests make one hold, one wait and one take
the gate meanwhile; two chunks through a channel of one leave a download in the
middle with the channel full. Uploads are at most one chunk over the limit.

In `Queries` each universe has what its algorithm tells apart: in `Reads` values
of two kinds and nulls, indexes for one type, both or none, and limits that cut
a tie; in `Walks` loops, a diamond, a walk that leaves its type and `same` in
both places; in `Timeline` a change before, at and after every boundary; in
`Routes` zero weights, parallel edges, ties and bounds met exactly; in `Schemas`
every single edit of a list and every two of them; in `Statements` a
create, a match and a link with and without what the schema requires, over
relationships with a required field and with one target; in `GraphFile` every cut and
every change of one number or list, resealed or not; in `IdMap` chunks of 4 with
an overflow beyond 2 of them, so that all its moves happen (`Chunk`, `Span`,
`LastChunk`). `Horizon` bounds instants, `MaxValueDepth` the depth of values,
`EachEnd` the ends a repeated hop is asked for one by one, `Gram` the length of
an index's terms, `FirstRadius` and `Farthest` the circles
of an order by distance.

Fairness (`Wal!FairSpec`). Weak fairness of the worker, of a running rotation
and of a notified append: they are threads that can run, and `wait_timeout`
brings the worker back without a notification. None for callers, failures,
spurious wake-ups or stops. `EveryAppendReturns` needs no more.

Fairness (`Linked!Fairness`). Weak fairness of starting the daily wake and of its
next step: the worker wakes the subscriber once a day whatever else happens, and
every request has a timeout (`Runtime::new`, 10 s). None for other wakes, which
may drain, close the gate and never end; none for pushes, deliveries, commits or
the source's worker. `Converges` has the premise that from some time on the daily
wake is not interrupted by failing requests or restarts; it holds however often
it was before.

Fairness (`Transfers!FairSpec`). Weak fairness of what the server does for a
request: the runtime runs its tasks, timers fire. Nothing of clients, which may
stall for ever at any point: that a slot comes back is the work of the idle
timeouts. `EveryTransferEnds` speaks of a database on disk; in memory a download
streams under the gate and has no such timeout (below).

Fairness (`Queries!Spec`). Weak fairness of a search's next step: a statement
runs on. `SearchesEnd` needs it.

Deadlock is checked in the runs of `Wal`, `Store` and `Linked` that pass unless
their configuration says otherwise: a run whose bound on entries is used up can
still stop and reopen. `journal`, `transfers` and `queries` stop when their
statements, requests or question are done.

### What the runs found

1. **A failed rotation leaves appends waiting for ever.** `rotate` returns the
   error of its first `sync_pending` past `notify_all` (`wal/mod.rs:420`). A
   writer that waits then holds the graph mutex for good.
2. **A first import or checkpoint that is interrupted blocks the next open**
   (`lib.rs:852`): a `.graph` file beside a log without entries is refused.
   Nothing is lost; the file must be moved by hand.
3. **A node that comes back by a reload keeps its old fields in mirrors.**
   `reconcile` sends the fields of the new node and does not null those of the
   deleted one (`linked.rs:1082`); a mirror that took the delete merges them
   under the source's version, so no check finds it stale.
4. **A delete before a relationship began loses the relationship.**
   `delete_node` goes on after `delete_relationship` has refused one of its
   relationships (`journal.rs:339`); what it then takes away is in no undo
   entry, and the failed statement leaves memory without it until the next open.

`wal_engine` leaves out exactly the faults of finding 1 and of the header fsync
below, and `store` assumes that what an open reads is on disk
(`FoundIsDurable`), so that both show that nothing else is wrong.

### What is known to fail

Found by the same models; each is left out of the questions of its run or
behind a constant, so that the runs show the rest to be right. Setting the
constant, or asking the question, brings it back.

Log and data directory.

- A durable write may be reported as failed: the wait loop looks at
  `durability_error` before `durable_sequence` (`wal/mod.rs:337`). With the
  faults of a rotation `Wal!RefusedWritesStayGone` breaks.
- A failed header fsync is forgotten (`wal/mod.rs:362`): with `"mark"` in
  `Faults` a pending append it dropped is acknowledged by the next fsync.
- Open may delete the file a power cut brings back (`lib.rs:278`): with
  `FoundIsDurable = FALSE` `Store!NoReplayReadsDeleted` breaks. The cleaning
  after an import or a checkpoint does not (`DeletesWhatIsReplaced`, proved
  without that assumption).
- `clear` and `run_lang_with_loader` read the schema under one lock and act under
  another (`lib.rs:566`, `v2.rs:166`).

Statements.

- A backdated set may store another node's unique value. `find_duplicate`
  compares what the set writes, but `update_node` stores the last value of the
  field's history (`journal.rs:322`). Where another schema, without the date, has
  overwritten the field since, that value may be another node's by now, and
  `docs/unique.md:3-4` says that the engine refuses any such write: with
  `Schemas <- MCSometimes`, `MaxStatements = 3` and `MaxCalls = 2` in
  `journal.cfg` `ConstraintsHold` breaks.
- A single-valued relationship takes a second target through its other end.
  `connect` looks only through the field it is called with (`v2.rs:1418`); written
  through the many-valued field of the other end a node gets two targets, against
  `docs/relationships.md:29-35`, and its reads fail from then on: with
  `Schemas <- MCBothViews` in `journal.cfg` `ConstraintsHold` breaks.
- Nested walks and `set` inside the target of a `link` are dropped without a
  word (`v2.rs:1130-1180`; `docs/mutation.md:133-135`).
- Scalar types are not checked on write; `set x: null` on a required field is
  accepted; `(x:"a" && x:null)` passes the check for missing fields and stores
  the last; `(A|B) set h` stores on an A a field that only B declares.
- Passed by the check and refused at run: `unlink` whose target has an edge
  condition (`v2.rs:1129`); `(A|B){e->...}` where B lacks e; a nested walk over
  `likes -> Book` when the edge leads to (Book|Movie), which returns Movies; a
  create with a condition other than equality; a series in a mutation; `<h>`
  series without `from .. to .. by`; a `toward` whose types in between have no
  Point.

Reading.

- A repeated hop over a field that leads from one type to another, followed by
  one that leads back, differs when an index answers its end
  (`chain.rs:300-320, 369-387`; the comment at 26). A chain that has both
  `same x` and `in same y` is checked for x only (`lang/mod.rs:4342-4391`).
- `ever`, `always` and `@firstTime` look only from the first recorded change on.
- A* checks the straight-line rule only on the roads it reads.
- Named dates in the test of a `same x(...)` that begins a chain are never
  resolved (`periods.rs` visits the hops only), and a hop to several types uses
  the calendar of the first (`docs/time.md:423`).
- An unscoped text stage over types whose only String fields are dated is
  refused (`lang/discovery.rs:352`) though evaluation would search them.

Schema changes.

- A change of a base type together with optional to required skips the required
  check; a rename or a converting type is a warning though nothing is migrated;
  many to single is a warning though a node with two then fails to read; a
  changed edge skips its own fields; `String` to `String<url>` is silent;
  uniques and indexes are not looked at; a changed relationship counts live ones
  only, a removed field current values only; a renamed Vector may change its
  dimensions; a stored null counts as present.

Files and bundles.

- `docs/graph-format.md:32` and `graph_file/mod.rs:14-16` ("exports back to
  exactly itself") do not hold for a SYNC section in other JSON than the
  writer's, nor for a stored schema that came without its Auth.
- A bundle ships local paths from the history or the change log when no current
  field of that name holds one, though `bundle.rs:22` says it never does. Two
  references of one node with one hash and one local path: the second is taken
  as dangling. A `remote` that is no object is taken as none (361-380). An
  upload left by a crash makes verify refuse. `bundle pack` truncates its output
  before it verifies.

Transfers.

- The staging file of an upload whose client leaves while the file is being made
  is owned by nobody (`handlers.rs:623-640`), so there may be more files than
  slots (`lib.rs:26-28`, `docs/graph-format.md:323`). `NoStagingLeft` and
  `EveryTransferEnds` except it by name.
- In memory a download holds the gate as long as its client is slow.

Linked graphs.

- A window that joins two changes of a node is always a gap to a mirror that has
  neither, and holds nothing new of the first to one that has it: the subscriber
  never uses the fields `coalesce` keeps of the older change.
- `ready` is one flag for all wakes: when a `POST /sync/repair` and the daily
  wake overlap, the first to end opens the gate while the other still drains,
  where `sync.rs:502` says that pushes are refused until a wake completes. This
  happens in `linked`, and neither of its properties breaks by it, because
  `apply_diff` orders by version.

Documentation only: `docs/graph-format.md:344` says that opening deletes any
unreferenced file in `graphs/`, the code does so only when the log names one;
the same page says that an import appends `ReplaceGraph`, the code writes
`ReplaceLinkedGraph`, and it does not mention the SYNC section.

## 4. Proofs

Each theorem holds for every value of the constants: any writers, threads,
nodes and requests, any bounds and any choice of faults.

### The log: `WalProofs`

- `TypeCorrect`: `Spec => []TypeOK`;
- `AckedDurableTheorem`: `SoundSyncs => (Spec => []AckedDurable)`, where
  `SoundSyncs` says that fsync commits a rename and that `mark_imports`' own
  fsync does not fail (it is needed: see What is known to fail);
- `NothingAfterTornTailTheorem`, `PendingMatchesFileTheorem`,
  `MemoryIsLogTheorem`, `RotationKeepsHistoryTheorem`: the invariants of these
  names, without a hypothesis;
- `RemovedWritesStayGoneTheorem`: under `GraphLock`. The engine appends with the
  graph lock held; without it one append's failure may cut off another's entry,
  which the run `wal_api` allows;
- `ImplementsStoreTheorem`: under `GraphLock` and `SoundSyncs`, `Wal` implements
  `DurableStore`; `HonestTheorem`: an open database shows every acknowledged
  write and no refused one.

`AckedDurable` is not inductive. The invariant `IInv` adds what it depends on:

- `AckedSafe`: an acknowledged entry is also in the cache, not among the
  dropped pages, and below `pending_start`, so a failed sync cuts off none;
- `WaitingSafe`: while the log is not poisoned, the entry an append waits for
  is in the cache, and on disk once the watermark has passed it, so an append
  that returns Ok is right to;
- `CapturedSafe`: a checkpoint's graph and position together cover everything
  acknowledged and everything waited for, so the rotated log does too;
- `HolderSafe`: who may hold the mutex in which state.

`InitInv` establishes it; `TypeStep` and `SafeStep` have one case per action, and
`SafeStep` one step per conjunct under each case. The lemmas about `Fsync`,
`DropsPages` and the two outcomes of `sync_pending` serve all actions that call it.

The other properties of the log rest on what the counters and the graph say of
the file:

- `PendingExact`: what lies in the file past the watermark is exactly the entries
  numbered after it, none of them while a rotation holds the mutex. This is
  `PendingMatchesFile` for the states in which the mutex is held, too;
- `HistoryExact`: file and old log together say what memory holds and what appends
  wait for. `MemoryIsLog` is its case in which nothing waits;
- `ProcessSafe`: a process that is not up waits for nothing and holds nothing;
- `RotatedOld`, `OneWaiter`, `RemovedSafe`: what a rename's old log may still hold,
  that under the graph lock one append waits at most, and that a removed entry is
  in no log and waited for by nobody. Refusing a write in `DurableStore` is
  possible only with the last, so the simulation is over `EngineInv`, which is
  all of these with `IInv`.

### The data directory: `StoreProofs`

For any threads, writes and graphs, any `MaxLog` and `MaxFiles`, kills and power
cuts; the first three under `FoundIsDurable` (what an open reads is on disk before
it deletes files; the code does not see to this, see What is known to fail):

- `TypeCorrect`: the types and bounds (`TypeOK`), left to the proof;
- `LosesNothingTheorem`: the next open finds the last acknowledged graph or a
  change made to it since, at whatever step the process stopped;
- `MemoryIsFilesTheorem`: the open graph is the one the files say;
- `DeletesWhatIsReplacedTheorem`, without `FoundIsDurable`: while an import or a
  checkpoint deletes files, and until the next call begins, every log that a power
  cut may leave names the file that stays, and has it beside it.

`NamesAssumption` keeps the names apart that the model gives to writes, graphs,
refusals and the free lock. None of the properties is inductive, for they speak
of what a stop now would leave; the invariant says why that is so at each step:

- `Directories`: every directory that a power cut may leave is good. With the
  current log beside it (`GoodNow`), the acknowledged entries make what is
  promised, and every graph a replay may start from has its file (`FilesKept`); an
  empty log's next log already says what is promised. With the log that an
  unsettled rename replaced (`GoodOld`), all of its entries make it, and the rename
  is under way or the log poisoned;
- `Job(t)`: what a call has established: the file it will name is in
  every directory once it has been synced (`Placed`); the graph a checkpoint captured
  is what the entries before its position make, with no graph after it
  (`Captured`); the old files go only when the log's last graph is acknowledged;
- `Working`: one call at a time changes files, and what is open is what is
  promised;
- `InFlight`: at most one append waits, for the last entry of the log.

Replay is a recursion over the log, so `ApplyAllIs` first gives it without one: what
an entry brings stays unless a later one replaces the graph (`Replayed`). From this
follow the three facts a log is reasoned with: entries before the last graph do not
count (`ApplyFrom`), a graph stands for the entries it was captured from
(`ApplyRotated`), and entries apply in order (`ApplyAppended`). `JobStep`, `EndStep`
and `DirectoriesStep` carry the parts of the invariant that most steps have in
common; `RotateRenamesStep` and `OpenReadsStep` are where the argument is.

The last theorem has an invariant of its own, `Placings`: where a call stands says
in which directories its file is, that the log names it among the synced entries
and no graph after it (`Names`), and that no directory with the old log is left.
Each of these a call brings about by an fsync of its own, so nothing need be known
of what the open before it found; statements only append writes or cut off what
was not synced (`StatementPlacing`).

### Transfers: `TransfersProofs`

`TypeCorrect`, `TransfersAreWholeTheorem` and `NoStagingLeftTheorem`, from
`LengthsAssumption` and `RequestsAssumption`. The invariant says who holds the
gate (`GateHeld`: it is held by a request exactly while its blocking task runs,
also when its client has left) and how many slots are out (`SlotsHeld`); for
each request how much was sent, put in the channel, written and received
(`Counted`), what a finished body holds (`Whole`) and what was answered
(`Answered`); and that a staging file belongs to a request that will remove it
(`FilesOwned`).

### Linked graphs: `LinkedProofs`

Between a receive's look, its fetches and its apply other tasks run, and
diffs are lost, late, or out of order. `Positions` says what is still
true then: versions and counters only grow (`Grows`), so a mirror, a mailbox and
a diff are never past what the source has done (`Placed`, `Behind`), and what a
task saw before it waited is still enough after it (`Ahead`). It gives, with
reloads, too:

- `TypeCorrect`;
- `ReceiveNeverRefusesTheorem`: the second look in `apply_diff` finds no gap;
- `MailboxKeepsUnappliedTheorem`: the action property of that name.

`Contents` adds what the data says: a node that is gone has no fields
(`GoneBlank`), a change is sound against the version before it (`HistorySound`,
`DiffsSound`, `SoundTask`), the history has every version in a row (`Chained`)
and a coalesced window ends where the worker has read to (`BatchLast`). It gives
`MirrorIsPastTheorem` and `ImplementsReplicaTheorem`, both under `~Reloads`: a reload
may give a deleted id a new node whose versions start again, and the run
`linked_reload` shows that neither then holds. `NoneAssumption` says that the
value of an absent mirror is not itself a mirror.

### The statement journal: `JournalStepProofs`, `JournalProofs`, `JournalHistoryProofs`

For any schemas, inputs, instants, hash and bounds, from `BucketsAssumption`,
`TimesAssumption`, `EarlyDeletesAssumption`, `SchemasAssumption` and
`InputsAssumption` (the values are numbers, a slot is a label and a field, a single-valued
relationship is one of a schema's fields and seen from one of its two ends):

- `FailuresLeaveNoTrace`: `~EarlyDeletes => (Spec => []FailureLeavesNoTrace)`.
  The hypothesis is finding 4 the other way round: `journal_early_delete` shows
  that a failure leaves a trace once a node may be deleted before one of its
  edges began, the theorem that it leaves none otherwise;
- `LookupsMatch`: `Spec => []LookupsMatchScan`, without a hypothesis;
- `JournalInvariant`: `Spec => []JournalInv`, on which both rest;
- `NothingLeftOver`: `~EarlyDeletes => (Spec => []NoLeftovers)`;
- `CurrentIsLast`: `~EarlyDeletes => (Spec => []CurrentIsLastChange)`;
- `HistoryInvariant`: `Spec => []HistoryInv`, on which these two rest;
- `LogIsMemory`: `~EarlyDeletes => (Spec => []ReplayIsMemory)`;
- `LogInvariant`: `Spec => []LogInv`, on which it rests;
- `ConstraintsKept`: `~EarlyDeletes /\ DatesAgree /\ SeenFromOneEnd => (Spec =>
  []ConstraintsHold)`. `DatesAgree` says that a unique field is dated by every schema
  or by none, `SeenFromOneEnd` that a single-valued relationship is a field of one
  end only. The schemas of the run `journal` satisfy both; those of `MCSometimes`
  and `MCBothViews` each break one of them and with it the property (see What is
  known to fail);
- `ConstraintInvariant`: `Spec => []ConstraintInv`, on which it rests.

The argument for the first three has two halves.

*What an index says follows from the data.* `Indexed(g)` says that the label
index, both kinds of property index and adjacency are what `LabelsIn`,
`UniquesIn`, `RangesIn` and `EdgesIn` compute from the nodes and relationships alone.
Every operation of `Graph` keeps it (`RestoreNodeGood`, `UpdateNodeGood`,
`DeleteNodeGood` and so on), and so does every call of the journal and every
step of `roll_back`. It gives `LookupsMatch`; and it means that to give a graph
back, it is enough to give its nodes, relationships, slots and counters back.

*The undo list is a path.* `Facts` are what the indexes follow from: nodes,
relationships, slots and histories. `Undone(u, q)` is what undoing one note does
to them, and `Traced(q, undo, start)` says that undoing a list from its end leads
from `q` to `start`. A call is a chain of steps that each change one thing and note
what they replaced (`Becomes`); a step is `Kept` if its note undoes it, so that
the list still leads to the start, and steps compose (`KeptTrans`). Then
`roll_back` walks the path (`UndoAllIs`). Two things make a note enough, and they
are the rest of the invariant (`Grounded`). An id is never used again within a
statement, so a new node has no edges to lose when it is taken back
(`NoneTouching`). And a relationship's ends are there, so `restore_relationship`
joins it to the nodes it left. A deleted node is put back without its edges,
which is enough only because `delete_node` deleted them one by one before, each
with its note (`EdgesDropped`). This is the step that an early delete breaks.

`delete_node` of the graph, `delete_node` of the journal and `roll_back` are
loops. The library's induction theorems take an operator as a parameter, which
no installed prover can instantiate; `Loop` states the rule of a loop for its own
two constants instead, a pass and what holds after it, and proves it from the
least pass that fails. Each loop is an instance of it.

*Histories are told as they happen.* `NoLeftovers` and `CurrentIsLastChange` are not
inductive: a failed statement takes its histories, ids and counters back, and a
call changes a history and its node in two steps. `TruthInv` adds what carries them.
`Told` says of the database, and of the one the statement found, that a history
is of a live node that has the field, in time order and with the stored value at
its end (`FieldsTold`), that lifetimes are of live nodes (`LivesTold`), and that the
history of an edge is of one between live nodes, open exactly while the edge is
there (`EdgesTold`). Each call keeps it as a whole (`CreateNodeTold` to
`DeleteNodeTold`), and a failed statement leaves what it found, which is
`FailuresLeaveNoTrace`: the hypothesis is the same. Two steps carry the argument.
`InsertChangeInOrder` says that a change is put where it belongs, however far it
is backdated, so that the last one is current also when an older one is written.
And a field that every schema dates has a history from its node's first value
on, since a statement that writes fields runs under one of the schemas
(`TruthOpen`). `Named` says that a published identity finds its node by a key of
its own. A commit keeps this because the inserts of a statement were handed
out (`OpsTold`) and do not clash (`KeysDistinct`, `FindsMore`).

*The log is the same path, read forward.* `ReplayIsMemory` speaks of the moments
between statements. `ReplayInv` adds what leads from one to the next: during a
statement, an open of the log makes a database like the one the statement found
(`Alike`: same nodes, relationships, counters, histories and names, and indexes
that say what the data says), and the operations noted so far lead from there
to the one in memory (`Tracks`). An operation replayed is not the call that was
made: `SetLifetime`, `UpdateNodeAt` and `EndRelAt` each write their part,
`CurrentProps` works out again the value a history ends with, and a deleted
relationship takes nothing else along. So for each step of a call there is a
lemma that its operation `Does` to any database alike what the step did, or that
the step changes nothing and logs nothing, and each call `Follows` from its
steps (`FollowsTrans`). A commit appends the operations as one entry, publishes
its identities in memory as replay does, and a failed statement leaves the log
and, by `FailuresLeaveNoTrace`, the database as they were. Only this last step
needs `~EarlyDeletes`. `ApplyAll` and `Replay` are loops too, over the operations of
an entry and the entries of the log.

*A check is enough if it looks at what is written.* `ConstraintsHold` counts the
nodes of a value and the targets of a node; `Twins` and `Forks` say the same without
counting (`DuplicatesAre`, `CrowdedAre`). A call is `Tight` if it shares no value and
forks no relationship that its schema forbids. Deletes are (`Thinned`). A create
is, since an inserted node stores what `find_duplicate` compared, which answers
from an index that the statement filled at its start (`NoneFound`). A set stores
the last value of the history instead: the written one, or else the one that was
stored before, by `CurrentIsLastChange`, and this is what `DatesAgree` is for
(`DatedUnique`). A new relationship is compared with those seen through its field,
which with `SeenFromOneEnd` are all there are (`ConnectTight`).

### Only model-checked

The properties of `Queries`. Liveness under fairness is beyond the proof system,
so `EveryAppendReturns`, `Converges`, `EveryTransferEnds` and `SearchesEnd` stay
with TLC, and so does what the recursive definitions of `Walks`, `Statements`,
`GraphFile` and `Periods` compute for every input.

## 5. Plan

Next are proofs, in this order:

1. `IdMap`: an id is found where it is, one operation at a time.
2. `Journal`: unique values under `EarlyDeletes`, too.

Then, of the code: the checkpoint's trigger (`due`, `retry_at`) and the schema
that an import or `clear` carries.

### Not modelled, and why

- The parser, the formatter, csv and json loads, and the formatting of answers
  and aggregates are functions of text which their own tests reach better than
  a model checker. Statements are modelled from their syntax tree on.
- Shapes, interned names, the vector graph and the grid of locations change
  where something lies or how fast it is found. The model takes the grid as a
  box that holds the near ones and the vector graph as one that finds some.
- Declarations of periods, calendars and lifetimes in a schema change; dates on
  the real calendar.
- The byte format of the log, its checksums and the migration of old logs.
- Relationships of linked nodes, several sources, lease expiry, paging of long
  mailboxes and the limit of thirty days.
- HTTP routes and authentication hold no state beyond the gate, which
  `Transfers` has; the command line, `validation/`, the WebAssembly binding, the
  browser, npm and benchmark code keep no state the database depends on.

------------------------------- MODULE Store --------------------------------
(***************************************************************************)
(* The data directory of an open database: the log wal.bin, the .graph     *)
(* files in graphs/ its entries name, the next log a rotation writes, and  *)
(* a snapshot.bin from before checkpoints.  Writers, imports (commit_import *)
(* and install, zega/src/lib.rs) and checkpoints (checkpoint_into,         *)
(* zega/src/checkpoint.rs) change it while the database is open, the       *)
(* process may stop between any two steps, and open_with_builder finds     *)
(* what is left.                                                           *)
(*                                                                         *)
(* Wal models how an append becomes durable; here the log is a sequence of *)
(* entries of which the first `synced` are on stable storage, and a failed *)
(* append poisons it.  A graph is the set of the writes it holds.  A       *)
(* .graph file is named by the hash of its bytes: its name is the graph it *)
(* holds.  Files are synced before they are renamed, so under its final    *)
(* name a file is always whole.                                            *)
(*                                                                         *)
(* Directory changes reach the disk in the order they were made, as a      *)
(* journaling file system keeps them: `dirs` holds the directory of each   *)
(* moment a power cut may go back to, and any fsync leaves only the last.  *)
(***************************************************************************)
EXTENDS Naturals, Sequences, FiniteSets, SequencesExt

CONSTANTS
  Threads,          \* callers of import and checkpoint, the checkpoint thread too
  Writes,           \* statements to append, each once
  Graphs,           \* what may be imported: each stands for all of its graph
  Legacy,           \* the write a snapshot.bin holds
  FoundIsDurable,   \* TRUE: what an open reads is on disk before it deletes files
  Stops,            \* the ways the process may stop
  MaxLog,           \* bound on the entries of the log, and of the tail
  MaxFiles          \* bound on the .graph files

ASSUME FoundIsDurableAssumption == FoundIsDurable \in BOOLEAN
ASSUME StopsAssumption == Stops \subseteq {"kill", "power"}
ASSUME BoundsAssumption == MaxLog \in Nat /\ MaxFiles \in Nat
ASSUME NamesAssumption ==
  /\ "free" \notin Threads
  /\ {"refused", "none"} \cap (Writes \cup Graphs \cup {Legacy}) = {}

VARIABLES
  log,            \* the entries of wal.bin, as a reader sees them now
  synced,         \* how many of them an fsync has covered
  dir,            \* the directory, as a reader sees it now
  dirs,           \* the directories a power cut may leave
  stage,          \* "down", "opening" or "up"
  memory,         \* the open graph
  poisoned,       \* the log refuses appends until the database is reopened
  import_lock,    \* the thread that holds it, or "free"
  job,            \* where each thread is in an import or a checkpoint
  writing,        \* the statement that waits for its append, under the graph lock
  promised,       \* the graph after the last acknowledged change
  tail            \* the changes made after it and not acknowledged, in order

files   == <<log, synced, dir, dirs>>
engine  == <<stage, memory, poisoned>>
threads == <<import_lock, job, writing>>
client  == <<promised, tail>>
vars    == <<files, engine, threads, client>>

Content == SUBSET (Writes \cup Graphs \cup {Legacy})
Write(w) == [kind |-> "write", content |-> {w}]
Replace(graph) == [kind |-> "graph", content |-> graph]
Entries == [kind : {"write", "graph"}, content : Content]

\* A log file beside wal.bin: no file, a part of a log, or a whole one.
None == [is |-> "none", log |-> <<>>]
Part == [is |-> "part", log |-> <<>>]
Whole(entries) == [is |-> "whole", log |-> entries]
LogFiles == [is : {"none", "part", "whole"}, log : Seq(Entries)]

\* A directory: the .graph files by name, wal.rotate.tmp, whether there is a
\* snapshot.bin, and the log wal.bin was before a rename, if it still is.
Dirs == [graphs : SUBSET Content, next : LogFiles, snapshot : BOOLEAN, old : LogFiles]

Idle == [at |-> "idle", graph |-> {}, from |-> 0]

-----------------------------------------------------------------------------
(* Replay: what open_with_builder makes of what it finds.                  *)

Apply(graph, entry) ==
  IF entry.kind = "graph" THEN entry.content ELSE graph \cup entry.content

ApplyAll(graph, entries) ==
  LET after[n \in 0 .. Len(entries)] ==
        IF n = 0 THEN graph ELSE Apply(after[n - 1], entries[n])
  IN after[Len(entries)]

Refused == {"refused"}

\* The entry replay starts at, 0 if no entry replaces the graph.
LastGraph(entries) ==
  LET graphs == {i \in 1 .. Len(entries) : entries[i].kind = "graph"}
  IN IF graphs = {} THEN 0 ELSE Max(graphs)

\* The file the log starts from; no graph is named {"none"}.
NoFile == {"none"}
Base(entries) ==
  LET at == LastGraph(entries) IN IF at = 0 THEN NoFile ELSE entries[at].content

\* settle_rotation: a next log beside a log with entries was never committed;
\* beside an empty log it becomes the log if it is whole.
SettledLog(found) ==
  IF found.log = <<>> /\ found.dir.next.is = "whole" THEN found.dir.next.log ELSE found.log

\* An open is refused if part of a next log lies beside an empty log, if
\* .graph files do (refuse_lost_log), or if the file the log names is missing.
Recover(found) ==
  LET entries == SettledLog(found)
      at      == LastGraph(entries)
  IN CASE found.log = <<>> /\ found.dir.next.is = "part" -> Refused
       [] entries = <<>> /\ found.dir.graphs # {} -> Refused
       [] at = 0 -> ApplyAll(IF found.dir.snapshot THEN {Legacy} ELSE {}, entries)
       [] at > 0 /\ entries[at].content \notin found.dir.graphs -> Refused
       [] OTHER -> ApplyAll({}, SubSeq(entries, at, Len(entries)))

\* What a kill leaves: the page cache.  Of a next log that is being written,
\* any part may be there.
Seen == [log |-> log, dir |-> dir]

\* What a power cut leaves: a directory of some moment since the last fsync,
\* and a log that holds at least its synced entries.
AfterPowerCut ==
  {[log |-> SubSeq(log, 1, n), dir |-> d] :
     d \in {e \in dirs : e.old = None}, n \in synced .. Len(log)}
  \cup {[log |-> d.old.log, dir |-> [d EXCEPT !.old = None]] :
          d \in {e \in dirs : e.old # None}}

Images ==
  (IF "kill" \in Stops THEN {Seen} ELSE {})
  \cup (IF "power" \in Stops THEN AfterPowerCut ELSE {})

-----------------------------------------------------------------------------
(* Directory changes and fsync.                                            *)

Changes(d) == dir' = d /\ dirs' = dirs \cup {d}

\* A .graph file is synced and then renamed to its place.
RenamesGraph(graph) ==
  /\ dir' = [dir EXCEPT !.graphs = @ \cup {graph}]
  /\ Cardinality(dir'.graphs) <= MaxFiles
  /\ dirs' = {dir, dir'}

\* fsync of the log.
SyncsLog(entries, d) == synced' = Len(entries) /\ dirs' = {d}

-----------------------------------------------------------------------------
(* Locks.                                                                  *)

Up == stage = "up"

\* The graph lock is held while an append made under it waits.
GraphFree == writing = {} /\ \A t \in Threads : job[t].at # "appending"

\* `rotate` holds the log's mutex from its start to its end.
LogFree ==
  \A t \in Threads : job[t].at \notin {"rotating", "filled", "written", "swapped"}

\* (As in Wal, a name that ends in an underscore and a word is the definition
\* after it with a mistake in it.)
TakesImportLock_Never(t) == UNCHANGED import_lock

TakesImportLock(t) == import_lock = "free" /\ import_lock' = t

Goes(t, at) == job' = [job EXCEPT ![t].at = at]

\* A call returns: its import_lock guard is dropped.
Ends(t) ==
  /\ job' = [job EXCEPT ![t] = Idle]
  /\ import_lock' = IF import_lock = t THEN "free" ELSE import_lock

-----------------------------------------------------------------------------
(* Appends.                                                                *)

\* The entry is at the end of the log, and its caller waits.
Appends(entry) ==
  /\ ~poisoned
  /\ LogFree
  /\ Len(log) < MaxLog
  /\ Len(tail) < MaxLog
  /\ log' = Append(log, entry)
  /\ tail' = Append(tail, entry)
  /\ UNCHANGED <<synced, dir, dirs, engine, promised>>

\* It is durable: so is everything before it, and the caller is told.
AppendOk(graph) ==
  /\ ~poisoned
  /\ LogFree
  /\ SyncsLog(log, dir)
  /\ memory' = graph
  /\ promised' = graph
  /\ tail' = <<>>
  /\ UNCHANGED <<log, dir, stage, poisoned>>

\* It is not: it was cut off the log again, or may still be there.
AppendErr ==
  /\ LogFree
  /\ \/ /\ ~poisoned
        /\ Len(log) > synced
        /\ log' = Front(log)
        /\ tail' = Front(tail)
        /\ SyncsLog(log', dir)
     \/ UNCHANGED <<log, synced, dirs, tail>>
  /\ poisoned' = TRUE
  /\ UNCHANGED <<dir, stage, memory, promised>>

StatementAppends(w) ==
  /\ Up
  /\ GraphFree
  /\ w \notin memory
  /\ \A i \in 1 .. Len(tail) : w \notin tail[i].content
  /\ Appends(Write(w))
  /\ writing' = {w}
  /\ UNCHANGED <<import_lock, job>>

StatementReturns ==
  /\ Up
  /\ writing # {}
  /\ AppendOk(memory \cup writing)
  /\ writing' = {}
  /\ UNCHANGED <<import_lock, job>>

StatementFails ==
  /\ Up
  /\ writing # {}
  /\ AppendErr
  /\ writing' = {}
  /\ UNCHANGED <<import_lock, job>>

-----------------------------------------------------------------------------
(* An import: commit_import and install.                                   *)

ImportStarts(t, graph) ==
  /\ Up
  /\ job[t] = Idle
  /\ TakesImportLock(t)
  /\ job' = [job EXCEPT ![t] = [at |-> "decoded", graph |-> graph, from |-> 0]]
  /\ UNCHANGED <<files, engine, writing, client>>

\* persist_replacement, up to the rename.
ImportRenames(t) ==
  /\ job[t].at = "decoded"
  /\ RenamesGraph(job[t].graph)
  /\ Goes(t, "imported")
  /\ UNCHANGED <<log, synced, engine, import_lock, writing, client>>

\* The directory is synced, and mark_imports syncs the log.
ImportMarks(t) ==
  /\ job[t].at = "imported"
  /\ LogFree
  /\ SyncsLog(log, dir)
  /\ Goes(t, "marked")
  /\ UNCHANGED <<log, dir, engine, import_lock, writing, client>>

\* install: the entry is appended under the graph lock, and once it is durable
\* the graph is swapped.
ImportAppends(t) ==
  /\ job[t].at = "marked"
  /\ GraphFree
  /\ Appends(Replace(job[t].graph))
  /\ Goes(t, "appending")
  /\ UNCHANGED <<import_lock, writing>>

ImportCommits(t) ==
  /\ job[t].at = "appending"
  /\ AppendOk(job[t].graph)
  /\ Goes(t, "cleaning")
  /\ UNCHANGED <<import_lock, writing>>

\* The file stays in graphs/, whatever failed.
ImportFails(t) ==
  /\ \/ job[t].at \in {"decoded", "imported", "marked"} /\ UNCHANGED <<files, engine, client>>
     \/ job[t].at = "appending" /\ AppendErr
  /\ Ends(t)
  /\ UNCHANGED writing

-----------------------------------------------------------------------------
(* A checkpoint: checkpoint_into, and the log's rotate.                    *)

CheckpointStarts(t) ==
  /\ Up
  /\ job[t] = Idle
  /\ TakesImportLock(t)
  /\ Goes(t, "waiting")
  /\ UNCHANGED <<files, engine, writing, client>>

\* Under the graph lock: the graph, and where the log continues it.
CaptureFrom_WithoutGraphLock(t) == ~poisoned /\ LogFree

CaptureFrom(t) == GraphFree /\ ~poisoned /\ LogFree

Captures(t) ==
  /\ job[t].at = "waiting"
  /\ CaptureFrom(t)
  /\ job' = [job EXCEPT ![t] =
               [at |-> "captured", graph |-> memory, from |-> Len(log) + 1]]
  /\ UNCHANGED <<files, engine, import_lock, writing, client>>

CheckpointRenames(t) ==
  /\ job[t].at = "captured"
  /\ RenamesGraph(job[t].graph)
  /\ Goes(t, "saved")
  /\ UNCHANGED <<log, synced, engine, import_lock, writing, client>>

CheckpointSyncs(t) ==
  /\ job[t].at = "saved"
  /\ dirs' = {dir}
  /\ Goes(t, "durable")
  /\ UNCHANGED <<log, synced, dir, engine, import_lock, writing, client>>

CheckpointFails(t) ==
  /\ job[t].at \in {"waiting", "captured", "saved", "durable"}
  /\ Ends(t)
  /\ UNCHANGED <<files, engine, writing, client>>

\* rotate: what is pending is synced, and the next log is created.
RotateStarts(t) ==
  /\ job[t].at = "durable"
  /\ LogFree
  /\ ~poisoned
  /\ synced' = Len(log)
  /\ dir' = [dir EXCEPT !.next = Part]
  /\ dirs' = (IF synced < Len(log) THEN {dir} ELSE dirs) \cup {dir'}
  /\ Goes(t, "rotating")
  /\ UNCHANGED <<log, engine, import_lock, writing, client>>

\* The graph's entry, and every entry since the capture.
NextLog(t) == <<Replace(job[t].graph)>> \o SubSeq(log, job[t].from, Len(log))

RotateFills(t) ==
  /\ job[t].at = "rotating"
  /\ Changes([dir EXCEPT !.next = Whole(NextLog(t))])
  /\ Goes(t, "filled")
  /\ UNCHANGED <<log, synced, engine, import_lock, writing, client>>

RotateSyncs(t) ==
  /\ job[t].at = "filled"
  /\ dirs' = {dir}
  /\ Goes(t, "written")
  /\ UNCHANGED <<log, synced, dir, engine, import_lock, writing, client>>

\* The rename over wal.bin is the commit.
RotateRenames(t) ==
  /\ job[t].at = "written"
  /\ log' = dir.next.log
  /\ synced' = Len(log')
  /\ dir' = [dir EXCEPT !.next = None]
  /\ dirs' = {[dir EXCEPT !.old = Whole(log)], dir'}
  /\ Goes(t, "swapped")
  /\ UNCHANGED <<engine, import_lock, writing, client>>

\* The directory is synced: no power cut brings the old log back.
RotateSettles_WithoutSync(t) ==
  /\ job[t].at = "swapped"
  /\ Goes(t, "cleaning")
  /\ UNCHANGED <<files, engine, import_lock, writing, client>>

RotateSettles(t) ==
  /\ job[t].at = "swapped"
  /\ dirs' = {dir}
  /\ Goes(t, "cleaning")
  /\ UNCHANGED <<log, synced, dir, engine, import_lock, writing, client>>

\* Before the rename the log is as it was, and the next log is removed if it
\* can be; the old log may not open again.  After the rename the log is
\* poisoned.
RotateFails(t) ==
  /\ \/ /\ job[t].at \in {"rotating", "filled", "written"}
        /\ Changes(dir) \/ Changes([dir EXCEPT !.next = None])
        /\ \/ UNCHANGED poisoned
           \/ job[t].at = "written" /\ poisoned' = TRUE
     \/ /\ job[t].at = "swapped"
        /\ UNCHANGED <<dir, dirs>>
        /\ poisoned' = TRUE
  /\ Ends(t)
  /\ UNCHANGED <<log, synced, stage, memory, writing, client>>

-----------------------------------------------------------------------------
(* Deleting what no replay will read: each file that can be, and then an   *)
(* import or a checkpoint returns.                                         *)

Removes(keep) ==
  /\ \E graph \in dir.graphs \ {keep} :
       Changes([dir EXCEPT !.graphs = @ \ {graph}])
  /\ UNCHANGED <<log, synced>>

RemovesGraph(t) ==
  /\ job[t].at = "cleaning"
  /\ Removes(job[t].graph)
  /\ UNCHANGED <<engine, threads, client>>

\* A checkpoint also deletes snapshot.bin; no failed delete is an error.
Returns(t) ==
  /\ job[t].at = "cleaning"
  /\ \/ UNCHANGED <<dir, dirs>>
     \/ job[t].from > 0 /\ dir.snapshot /\ Changes([dir EXCEPT !.snapshot = FALSE])
  /\ Ends(t)
  /\ UNCHANGED <<log, synced, engine, writing, client>>

-----------------------------------------------------------------------------
(* Stopping and opening.                                                   *)

Stopped ==
  /\ stage' = "down"
  /\ memory' = {}
  /\ poisoned' = FALSE
  /\ import_lock' = "free"
  /\ job' = [t \in Threads |-> Idle]
  /\ writing' = {}

Kill ==
  /\ "kill" \in Stops
  /\ stage # "down"
  /\ Stopped
  /\ UNCHANGED <<files, client>>

\* What the power cut left is all there is from now on.
PowerCut ==
  /\ "power" \in Stops
  /\ Stopped
  /\ \E found \in AfterPowerCut :
       /\ log' = found.log
       /\ synced' = Len(found.log)
       /\ dir' = found.dir
       /\ dirs' = {found.dir}
       /\ promised' = IF Recover(found) = Refused THEN promised ELSE Recover(found)
  /\ tail' = <<>>

Close ==
  /\ Up
  /\ writing = {}
  /\ \A t \in Threads : job[t] = Idle
  /\ Stopped
  /\ UNCHANGED <<files, client>>

\* settle_rotation promotes a next log, and syncs the directory though not the
\* file, or deletes it; then the log is read and replayed.
OpenReads ==
  /\ stage = "down"
  /\ Recover(Seen) # Refused
  /\ stage' = "opening"
  /\ memory' = Recover(Seen)
  /\ log' = SettledLog(Seen)
  /\ dir' = [dir EXCEPT !.next = None]
  /\ IF FoundIsDurable
       THEN /\ SyncsLog(log', dir')
            /\ promised' = memory'
            /\ tail' = <<>>
       ELSE /\ IF log' = log
                 THEN synced' = synced /\ dirs' = dirs \cup {dir'}
                 ELSE synced' \in {0, Len(log')} /\ dirs' = {dir'}
            /\ UNCHANGED client
  /\ UNCHANGED <<poisoned, threads>>

OpenRefused ==
  /\ stage = "down"
  /\ Recover(Seen) = Refused
  /\ UNCHANGED vars

\* remove_stale_imports: only a log that names a file says which are stale.
StaleAtOpen == Base(log) # NoFile

OpenRemoves ==
  /\ stage = "opening"
  /\ StaleAtOpen
  /\ Removes(Base(log))
  /\ UNCHANGED <<engine, threads, client>>

OpenEnds ==
  /\ stage = "opening"
  /\ stage' = "up"
  /\ \/ UNCHANGED <<dir, dirs>>
     \/ StaleAtOpen /\ dir.snapshot /\ Changes([dir EXCEPT !.snapshot = FALSE])
  /\ UNCHANGED <<log, synced, memory, poisoned, threads, client>>

-----------------------------------------------------------------------------

\* A new database, or one from before checkpoints.
Init ==
  /\ log = <<>>
  /\ synced = 0
  /\ \E snapshot \in BOOLEAN :
       dir = [graphs |-> {}, next |-> None, snapshot |-> snapshot, old |-> None]
  /\ dirs = {dir}
  /\ stage = "down"
  /\ memory = {}
  /\ poisoned = FALSE
  /\ import_lock = "free"
  /\ job = [t \in Threads |-> Idle]
  /\ writing = {}
  /\ promised = IF dir.snapshot THEN {Legacy} ELSE {}
  /\ tail = <<>>

Statement ==
  \/ \E w \in Writes : StatementAppends(w)
  \/ StatementReturns
  \/ StatementFails

Import(t) ==
  \/ \E g \in Graphs : ImportStarts(t, {g})
  \/ ImportRenames(t)
  \/ ImportMarks(t)
  \/ ImportAppends(t)
  \/ ImportCommits(t)
  \/ ImportFails(t)

Checkpoint(t) ==
  \/ CheckpointStarts(t)
  \/ Captures(t)
  \/ CheckpointRenames(t)
  \/ CheckpointSyncs(t)
  \/ CheckpointFails(t)
  \/ RotateStarts(t)
  \/ RotateFills(t)
  \/ RotateSyncs(t)
  \/ RotateRenames(t)
  \/ RotateSettles(t)
  \/ RotateFails(t)

OpenAndStop ==
  \/ Kill
  \/ PowerCut
  \/ Close
  \/ OpenReads
  \/ OpenRefused
  \/ OpenRemoves
  \/ OpenEnds

Next ==
  \/ Statement
  \/ \E t \in Threads : Import(t) \/ Checkpoint(t) \/ RemovesGraph(t) \/ Returns(t)
  \/ OpenAndStop

Spec == Init /\ [][Next]_vars

-----------------------------------------------------------------------------
(* Properties.                                                             *)

\* Types and ranges.
TypeOK ==
  /\ log \in Seq(Entries) /\ Len(log) <= MaxLog + 1
  /\ synced \in 0 .. Len(log)
  /\ dir \in dirs
  /\ \A d \in dirs : d \in Dirs
  /\ dir.old = None
  /\ stage \in {"down", "opening", "up"}
  /\ memory \in Content
  /\ poisoned \in BOOLEAN
  /\ import_lock \in Threads \cup {"free"}
  /\ \A t \in Threads : job[t].graph \in Content /\ job[t].from \in 0 .. MaxLog + 2
  /\ writing \in SUBSET Writes
  /\ promised \in Content
  /\ tail \in Seq(Entries)

\* What an open may find: the last acknowledged graph, and of the changes made
\* after it a first part, each applied wholly or not at all.
Allowed == {ApplyAll(promised, SubSeq(tail, 1, n)) : n \in 0 .. Len(tail)}

\* Whenever the process stops, whatever it was doing, the next open finds the
\* last acknowledged graph or a change made to it since, never a mix, never an
\* earlier graph and never a log whose file is gone.  An open may be refused
\* only while the log holds no entry and nothing was ever acknowledged: see
\* Recoverable.
LosesNothing ==
  \A found \in Images :
    \/ Recover(found) \in Allowed
    \/ Recover(found) = Refused /\ found.log = <<>> /\ promised \subseteq {Legacy}

\* The same without the exception: every open succeeds.
Recoverable == \A found \in Images : Recover(found) \in Allowed

\* What queries see is what a restart would: with no change in flight, the
\* open graph is the one the files say, if they can be opened at all.
MemoryIsFiles ==
  Up /\ GraphFree /\ ~poisoned => Recover(Seen) \in {memory, Refused}

\* Nothing that open deletes could have been read by a replay: a file the log
\* on stable storage starts from, or would start from, stays in graphs/.
NoReplayReadsDeleted ==
  \A found \in AfterPowerCut : Base(found.log) \in found.dir.graphs \cup {NoFile}

\* What an import or a checkpoint deletes no replay needs: while it deletes,
\* and before the next call begins, every log a power cut may leave names the
\* file that stays, and has it beside it (commit_import, checkpoint_into).
DeletesWhatIsReplaced ==
  \A t \in Threads : job[t].at = "cleaning" =>
    \A found \in AfterPowerCut :
      Base(found.log) = job[t].graph /\ job[t].graph \in found.dir.graphs
=============================================================================

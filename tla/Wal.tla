-------------------------------- MODULE Wal ---------------------------------
(***************************************************************************)
(* The write-ahead log of zega/src/wal/mod.rs: appends that wait for a     *)
(* group commit, the worker that syncs for them, the rotation a checkpoint *)
(* asks for, and what a failed write, a failed fsync, a kill or a power    *)
(* cut leaves in the file.                                                 *)
(*                                                                         *)
(* Every function holds the mutex `state` from its lock() to its return,   *)
(* except while it waits on the condition variable, so a critical section  *)
(* is one action.  `rotate` and a flush_every append hold it across file   *)
(* operations a crash can separate: those are several actions, and         *)
(* `holder` says who has the mutex between them.                           *)
(*                                                                         *)
(* An entry is its sequence number: entries are appended under the mutex   *)
(* in sequence order, so the order in the file is the order of the         *)
(* numbers, a file offset is the number of the entry that starts there,    *)
(* and truncating the file removes the numbers from an offset on.  The     *)
(* code's counters restart at each open; here they keep counting, which    *)
(* keeps an entry recognisable across a restart.                           *)
(***************************************************************************)
EXTENDS Naturals, FiniteSets

CONSTANTS
  Writers,            \* threads that call append
  FlushModes,         \* the values of flush_every to consider
  GraphLock,          \* TRUE: appends run under the graph lock, one at a time
  SyncCommitsRename,  \* TRUE: syncing a file also commits its directory entry
  Faults,             \* the file operations that may fail
  Stops,              \* the ways the process may stop
  MaxEntries          \* bound on appended entries

FaultKinds ==
  {"write",     \* an append's write, whose rollback succeeds
   "rollback",  \* an append's write and then its rollback
   "sync",      \* fsync by the worker, by a flush_every append or at shutdown
   "presync",   \* fsync at the start of a rotation
   "copy",      \* writing the next log, or renaming it over the log
   "reopen",    \* the rename, and then reopening the old log
   "parent",    \* syncing the directory or opening the log after the rename
   "mark"}      \* fsync of the header in mark_imports

ASSUME FlushModesAssumption == FlushModes \subseteq BOOLEAN
ASSUME GraphLockAssumption == GraphLock \in BOOLEAN
ASSUME SyncCommitsRenameAssumption == SyncCommitsRename \in BOOLEAN
ASSUME FaultsAssumption == Faults \subseteq FaultKinds
ASSUME StopsAssumption == Stops \subseteq {"kill", "power"}
ASSUME BoundAssumption == MaxEntries \in Nat

VARIABLES
  cache,             \* the log as a reader sees it now
  disk,              \* the log as the last successful fsync left it
  replaced,          \* logs a power cut may put back under the log's name
  torn,              \* a part of an entry follows the last entry of the cache
  lost,              \* entries whose dirty pages a failed fsync dropped
  next_sequence, durable_sequence, pending_entries, pending_start,
  durability_error,  \* "none", or the promise the stored message makes
  flush_every,
  waiting,           \* the sequence an append waits for, 0 outside append
  awake,             \* the writers notified and not yet run
  worker,            \* the group commit thread runs
  holder,            \* who holds the mutex between two actions
  captured,          \* the position and graph a checkpoint took, if any
  memory,            \* the entries the open graph holds
  acked,             \* the entries whose append returned Ok
  failed,            \* the entries whose append returned Err, and the error
  up                 \* the process runs

file    == <<cache, disk, replaced, torn, lost>>
state   == <<next_sequence, durable_sequence, pending_entries, pending_start,
             durability_error>>
threads == <<waiting, awake, worker, holder, captured>>
client  == <<memory, acked, failed>>
env     == <<flush_every, up>>
vars    == <<file, state, threads, client, env>>

Errors  == {"none", "removed", "inconsistent", "rotation"}
Logs    == [head : SUBSET Nat, tail : SUBSET Nat]
Entries == 1 .. next_sequence

\* The writes an open of this log ends up with: those in the .graph file its
\* first entry names, and those of the entries after it.
Replay(log) == log.head \cup log.tail

-----------------------------------------------------------------------------
(* The file.                                                               *)

\* (A name followed by an underscore and a word is a mistake the code could
\* contain: the definition after it with that mistake made.  Nothing uses it.)
Truncate_Nothing(log, start) == log

Truncate(log, start) ==
  [head |-> log.head, tail |-> {i \in log.tail : i < start}]

\* What fsync makes of the file: what is in the cache, dropped pages apart.
Synced(log, dropped) == [head |-> log.head, tail |-> log.tail \ dropped]

\* A log that starts with the graph and keeps every entry from `from`.
Rotated_SkipsOne(log, from, graph) ==
  [head |-> graph, tail |-> {i \in log.tail : i > from}]

Rotated(log, from, graph) ==
  [head |-> graph, tail |-> {i \in log.tail : i >= from}]

\* The logs a power cut can leave: what both the cache and the disk hold, and
\* a prefix of what only one of them holds.
AfterPowerCut ==
  {[head |-> cache.head, tail |-> {i \in cache.tail \cup disk.tail : i < cut}] :
     cut \in {c \in 1 .. next_sequence + 1 :
                \A i \in cache.tail \cap disk.tail : i < c}}
  \cup replaced

\* A failed fsync may or may not have dropped the pages it could not write.
DropsPages ==
  \/ lost' = lost
  \/ lost' = lost \cup (cache.tail \ disk.tail)

Fsync ==
  /\ disk' = Synced(cache, lost)
  /\ replaced' = IF SyncCommitsRename THEN {} ELSE replaced

-----------------------------------------------------------------------------
(* The mutex, and sync_pending, which runs under it.                       *)

Free    == up /\ holder = "none"
Refuses == durability_error # "none"
Waiters == {w \in Writers : waiting[w] # 0}

NotifyAll_Forgotten == UNCHANGED awake

NotifyAll == awake' = Waiters

\* Every later append returns this error, until the store is reopened.
Poison_Forgotten(error) == UNCHANGED durability_error

Poison(error) == durability_error' = error

SyncPending_WithoutFsync ==
  /\ durable_sequence' = next_sequence
  /\ pending_entries' = 0
  /\ UNCHANGED <<file, next_sequence, pending_start, durability_error>>

SyncPending_OffByOne ==
  /\ Fsync
  /\ durable_sequence' = next_sequence + 1
  /\ pending_entries' = 0
  /\ UNCHANGED <<cache, torn, lost, next_sequence, pending_start, durability_error>>

\* sync_pending, when nothing is pending or the fsync succeeds.
SyncPending ==
  /\ IF pending_entries = 0
       THEN UNCHANGED <<disk, replaced, durable_sequence>>
       ELSE Fsync /\ durable_sequence' = next_sequence
  /\ pending_entries' = 0
  /\ UNCHANGED <<cache, torn, lost, next_sequence, pending_start, durability_error>>

\* sync_pending, when the fsync fails: the pending entries are cut off the
\* file and the cut is synced; or the cut fails; or its fsync does.
SyncPendingFails ==
  /\ pending_entries > 0
  /\ DropsPages
  /\ \/ /\ cache' = Truncate(cache, pending_start)
        /\ disk' = Synced(Truncate(cache, pending_start), lost')
        /\ replaced' = IF SyncCommitsRename THEN {} ELSE replaced
        /\ torn' = FALSE
        /\ Poison("removed")
     \/ /\ Poison("inconsistent")
        /\ UNCHANGED <<cache, disk, replaced, torn>>
     \/ /\ cache' = Truncate(cache, pending_start)
        /\ torn' = FALSE
        /\ Poison("inconsistent")
        /\ UNCHANGED <<disk, replaced>>
  /\ pending_entries' = 0
  /\ UNCHANGED <<next_sequence, durable_sequence, pending_start>>

-----------------------------------------------------------------------------
(* append.                                                                 *)

\* An entry is written at the end of the file.  Where the oldest pending
\* entry starts is where a failed sync cuts the file.
FirstPending_Latest(id) == id

FirstPending(id) == IF pending_entries = 0 THEN id ELSE pending_start

WriteEntry(w) ==
  /\ Free
  /\ ~Refuses
  /\ waiting[w] = 0
  /\ GraphLock => Waiters = {}
  /\ next_sequence < MaxEntries
  /\ LET id == next_sequence + 1 IN
       /\ cache' = [head |-> cache.head, tail |-> cache.tail \cup {id}]
       /\ next_sequence' = id
       /\ pending_start' = FirstPending(id)
       /\ waiting' = [waiting EXCEPT ![w] = id]
  /\ pending_entries' = pending_entries + 1
  /\ holder' = IF flush_every THEN "append" ELSE "none"
  /\ UNCHANGED <<disk, replaced, torn, lost, durable_sequence, durability_error,
                 awake, worker, captured, client, env>>

\* append_entry: the write fails, and the truncate back is synced.
WriteFails(w) ==
  /\ Free
  /\ ~Refuses
  /\ waiting[w] = 0
  /\ GraphLock => Waiters = {}
  /\ "write" \in Faults
  /\ Fsync
  /\ UNCHANGED <<cache, torn, lost, state, threads, client, env>>

\* append_entry: the write fails, and then the truncate, or the fsync after it.
\* The error is kept, but nobody is notified.
RollbackFails(w) ==
  /\ Free
  /\ ~Refuses
  /\ waiting[w] = 0
  /\ GraphLock => Waiters = {}
  /\ "rollback" \in Faults
  /\ \/ torn' = TRUE /\ UNCHANGED lost
     \/ DropsPages /\ UNCHANGED torn
  /\ Poison("inconsistent")
  /\ UNCHANGED <<cache, disk, replaced, next_sequence, durable_sequence,
                 pending_entries, pending_start, threads, client, env>>

\* append returns: its caller keeps the write, or takes it back.
ReturnsOk(w) ==
  /\ waiting' = [waiting EXCEPT ![w] = 0]
  /\ acked' = acked \cup {waiting[w]}
  /\ memory' = memory \cup {waiting[w]}
  /\ UNCHANGED failed

ReturnsErr(w, error) ==
  /\ waiting' = [waiting EXCEPT ![w] = 0]
  /\ failed' = failed \cup {<<waiting[w], error>>}
  /\ UNCHANGED <<memory, acked>>

\* flush_every: the append syncs its own entry before it lets the mutex go.
\* No append waits on the condition variable in this mode.
FlushEntry(w) ==
  /\ up
  /\ holder = "append"
  /\ waiting[w] # 0
  /\ SyncPending
  /\ ReturnsOk(w)
  /\ holder' = "none"
  /\ UNCHANGED <<awake, worker, captured, env>>

FlushEntryFails(w) ==
  /\ up
  /\ holder = "append"
  /\ waiting[w] # 0
  /\ "sync" \in Faults
  /\ SyncPendingFails
  /\ ReturnsErr(w, durability_error')
  /\ holder' = "none"
  /\ UNCHANGED <<awake, worker, captured, env>>

\* A waiting append runs again: it looks at the error first, then at how far
\* the log is durable.
Runs(w) ==
  /\ Free
  /\ waiting[w] # 0
  /\ w \in awake
  /\ awake' = awake \ {w}

Acknowledged_OnWake(w) == ~Refuses

Acknowledged(w) == ~Refuses /\ durable_sequence >= waiting[w]

AppendReturnsOk(w) ==
  /\ Runs(w)
  /\ Acknowledged(w)
  /\ ReturnsOk(w)
  /\ UNCHANGED <<file, state, worker, holder, captured, env>>

AppendReturnsErr(w) ==
  /\ Runs(w)
  /\ Refuses
  /\ ReturnsErr(w, durability_error)
  /\ UNCHANGED <<file, state, worker, holder, captured, env>>

AppendWaitsAgain(w) ==
  /\ Runs(w)
  /\ ~Refuses
  /\ ~Acknowledged(w)
  /\ UNCHANGED <<file, state, waiting, worker, holder, captured, client, env>>

\* notify_one for a full batch can reach an append instead of the worker, and
\* a condition variable may wake a thread for no reason.
SpuriousWake(w) ==
  /\ up
  /\ waiting[w] # 0
  /\ ~flush_every
  /\ w \notin awake
  /\ awake' = awake \cup {w}
  /\ UNCHANGED <<file, state, waiting, worker, holder, captured, client, env>>

-----------------------------------------------------------------------------
(* group_commit_worker.  A full batch or the interval's end lets it sync:  *)
(* with entries pending one of them always comes.                          *)

WorkerSyncs ==
  /\ Free
  /\ worker
  /\ pending_entries > 0
  /\ SyncPending
  /\ NotifyAll
  /\ UNCHANGED <<waiting, worker, holder, captured, client, env>>

WorkerFails ==
  /\ Free
  /\ worker
  /\ "sync" \in Faults
  /\ SyncPendingFails
  /\ NotifyAll
  /\ worker' = FALSE
  /\ UNCHANGED <<waiting, holder, captured, client, env>>

-----------------------------------------------------------------------------
(* A checkpoint's use of the log, and an import's.  Both run under the     *)
(* import lock, so there is at most one of them.                           *)

\* checkpoint_into: under the graph lock, so no append waits, it takes the
\* graph and the position where the log continues it.
Capture ==
  /\ Free
  /\ ~Refuses
  /\ Waiters = {}
  /\ captured = {}
  /\ captured' = {[from |-> next_sequence + 1, graph |-> memory]}
  /\ UNCHANGED <<file, state, waiting, awake, worker, holder, client, env>>

\* The checkpoint fails before its rotation, or the rotation finds the log
\* poisoned: the log is left alone.
Abandon ==
  /\ Free
  /\ captured # {}
  /\ captured' = {}
  /\ UNCHANGED <<file, state, waiting, awake, worker, holder, client, env>>

\* rotate, up to the next log's file: the waiting entries are made durable.
RotateStarts ==
  /\ Free
  /\ ~Refuses
  /\ captured # {}
  /\ SyncPending
  /\ NotifyAll
  /\ holder' = "rotate"
  /\ UNCHANGED <<waiting, worker, captured, client, env>>

\* `sync_pending(&mut state)?`: the error returns past the notify_all.
RotateSyncFails ==
  /\ Free
  /\ ~Refuses
  /\ captured # {}
  /\ "presync" \in Faults
  /\ SyncPendingFails
  /\ captured' = {}
  /\ UNCHANGED <<waiting, awake, worker, holder, client, env>>

\* The rotation ends, and the mutex is free again.
RotateEnds ==
  /\ holder' = "none"
  /\ captured' = {}
  /\ UNCHANGED <<waiting, awake, worker, client>>

\* The next log cannot be written, or not be renamed: the log is as it was.
RotateGivesUp ==
  /\ up
  /\ holder = "rotate"
  /\ "copy" \in Faults
  /\ RotateEnds
  /\ UNCHANGED <<file, state, env>>

\* It cannot be renamed, and the old log cannot be opened again.
ReopenFails ==
  /\ up
  /\ holder = "rotate"
  /\ "reopen" \in Faults
  /\ Poison("rotation")
  /\ RotateEnds
  /\ UNCHANGED <<file, next_sequence, durable_sequence, pending_entries,
                 pending_start, env>>

\* The synced next log takes the log's name.
RotateRenames ==
  /\ up
  /\ holder = "rotate"
  /\ \E c \in captured : cache' = Rotated(cache, c.from, c.graph)
  /\ disk' = cache'
  /\ replaced' = replaced \cup {disk}
  /\ lost' = {}
  /\ holder' = "renamed"
  /\ UNCHANGED <<torn, state, waiting, awake, worker, captured, client, env>>

\* The directory is synced, so the rename is durable.
RotateSettles ==
  /\ up
  /\ holder = "renamed"
  /\ replaced' = {}
  /\ RotateEnds
  /\ UNCHANGED <<cache, disk, torn, lost, state, env>>

\* The directory cannot be synced, or the log not be opened: poisoned.
RotateUnsettled ==
  /\ up
  /\ holder = "renamed"
  /\ "parent" \in Faults
  /\ replaced' \in {replaced, {}}
  /\ Poison("rotation")
  /\ RotateEnds
  /\ UNCHANGED <<cache, disk, torn, lost, next_sequence, durable_sequence,
                 pending_entries, pending_start, env>>

\* mark_imports rewrites the header and syncs the file, unless a rotation
\* that failed left none open.  It neither looks at the error nor sets it.
MarkImports ==
  /\ Free
  /\ captured = {}
  /\ durability_error # "rotation"
  /\ Fsync
  /\ UNCHANGED <<cache, torn, lost, state, threads, client, env>>

MarkImportsFails ==
  /\ Free
  /\ captured = {}
  /\ durability_error # "rotation"
  /\ "mark" \in Faults
  /\ DropsPages
  /\ UNCHANGED <<cache, disk, replaced, torn, state, threads, client,
                 env>>

-----------------------------------------------------------------------------
(* Stopping and opening.                                                   *)

\* What dies with the process.
Gone ==
  /\ up' = FALSE
  /\ waiting' = [w \in Writers |-> 0]
  /\ awake' = {}
  /\ worker' = FALSE
  /\ holder' = "none"
  /\ captured' = {}
  /\ memory' = {}
  /\ UNCHANGED <<acked, failed, flush_every>>

\* The process is killed, perhaps in the middle of an append's writes; the
\* page cache lives on.
Kill ==
  /\ "kill" \in Stops
  /\ up
  /\ Gone
  /\ torn' \in {torn, TRUE}
  /\ UNCHANGED <<cache, disk, replaced, lost, state>>

\* Power is lost: what was not synced may be there or not.
PowerCut ==
  /\ "power" \in Stops
  /\ Gone
  /\ cache' \in AfterPowerCut
  /\ disk' = cache'
  /\ replaced' = {}
  /\ torn' \in BOOLEAN
  /\ lost' = {}
  /\ UNCHANGED state

\* Drop: every call has returned and the checkpoint thread has stopped; the
\* worker syncs what is pending before it returns.
Close ==
  /\ Free
  /\ Waiters = {}
  /\ captured = {}
  /\ IF worker THEN SyncPending ELSE UNCHANGED <<file, state>>
  /\ Gone

\* with_group_commit and iter: a torn tail is truncated and the truncate is
\* synced, the entries are replayed, the counters start over.
Open ==
  /\ ~up
  /\ up' = TRUE
  /\ torn' = FALSE
  /\ IF torn THEN Fsync ELSE UNCHANGED <<disk, replaced>>
  /\ memory' = Replay(cache)
  /\ durable_sequence' = next_sequence
  /\ pending_entries' = 0
  /\ pending_start' = 0
  /\ durability_error' = "none"
  /\ worker' = ~flush_every
  /\ UNCHANGED <<cache, lost, next_sequence, waiting, awake, holder, captured,
                 acked, failed, flush_every>>

-----------------------------------------------------------------------------

Init ==
  /\ cache = [head |-> {}, tail |-> {}]
  /\ disk = cache
  /\ replaced = {}
  /\ torn = FALSE
  /\ lost = {}
  /\ next_sequence = 0
  /\ durable_sequence = 0
  /\ pending_entries = 0
  /\ pending_start = 0
  /\ durability_error = "none"
  /\ flush_every \in FlushModes
  /\ waiting = [w \in Writers |-> 0]
  /\ awake = {}
  /\ worker = ~flush_every
  /\ holder = "none"
  /\ captured = {}
  /\ memory = {}
  /\ acked = {}
  /\ failed = {}
  /\ up = TRUE

Append(w) ==
  \/ WriteEntry(w)
  \/ WriteFails(w)
  \/ RollbackFails(w)
  \/ FlushEntry(w)
  \/ FlushEntryFails(w)
  \/ AppendReturnsOk(w)
  \/ AppendReturnsErr(w)
  \/ AppendWaitsAgain(w)
  \/ SpuriousWake(w)

Rotate ==
  \/ RotateStarts
  \/ RotateSyncFails
  \/ RotateGivesUp
  \/ ReopenFails
  \/ RotateRenames
  \/ RotateSettles
  \/ RotateUnsettled

Next ==
  \/ \E w \in Writers : Append(w)
  \/ WorkerSyncs
  \/ WorkerFails
  \/ Capture
  \/ Abandon
  \/ Rotate
  \/ MarkImports
  \/ MarkImportsFails
  \/ Kill
  \/ PowerCut
  \/ Close
  \/ Open

\* A thread that can run does, and the calls that hold the mutex return.  The
\* worker's wait is a wait_timeout, so it needs no notification; an append's
\* is not.  Nothing forces a spurious wake-up, a call or a stop.
Fairness ==
  /\ WF_vars(WorkerSyncs \/ WorkerFails)
  /\ WF_vars(RotateGivesUp \/ ReopenFails \/ RotateRenames)
  /\ WF_vars(RotateSettles \/ RotateUnsettled)
  /\ \A w \in Writers :
       /\ WF_vars(AppendReturnsOk(w) \/ AppendReturnsErr(w) \/ AppendWaitsAgain(w))
       /\ WF_vars(FlushEntry(w) \/ FlushEntryFails(w))

Spec == Init /\ [][Next]_vars

FairSpec == Spec /\ Fairness

-----------------------------------------------------------------------------
(* Properties.                                                             *)

\* The log holds entries that were appended, and is not durable beyond the
\* last of them.
LogTypeOK ==
  /\ \A log \in {cache, disk} \cup replaced :
       log \in Logs /\ Replay(log) \subseteq Entries
  /\ torn \in BOOLEAN
  /\ lost \in SUBSET Entries
  /\ next_sequence \in 0 .. MaxEntries
  /\ durable_sequence \in 0 .. next_sequence
  /\ pending_entries \in Nat
  /\ pending_start \in Nat
  /\ durability_error \in Errors

\* So do the graph in memory and a checkpoint's, and an append waits for one.
CallersTypeOK ==
  /\ flush_every \in BOOLEAN
  /\ waiting \in [Writers -> 0 .. next_sequence]
  /\ awake \in SUBSET Writers
  /\ worker \in BOOLEAN
  /\ holder \in {"none", "append", "rotate", "renamed"}
  /\ captured \in SUBSET [from : 1 .. next_sequence + 1, graph : SUBSET Entries]
  /\ memory \in SUBSET Entries
  /\ acked \in SUBSET Entries
  /\ failed \in SUBSET (Entries \X Errors)
  /\ up \in BOOLEAN

\* The types and the ranges of the variables.
TypeOK == LogTypeOK /\ CallersTypeOK

\* An acknowledged write is on stable storage, in every log a power cut could
\* leave under the log's name: append returns Ok only for a durable entry, and
\* no later failure, truncation or rotation takes it away again.
AckedDurable ==
  \A log \in {disk} \cup replaced : acked \subseteq Replay(log)

\* The counters sync_pending works from describe the file: what is pending is
\* exactly what was appended since the last sync, and cutting the file where
\* the oldest pending entry starts removes exactly that.
PendingMatchesFile ==
  up /\ ~Refuses =>
    LET pending == {i \in cache.tail : i > durable_sequence}
    IN  /\ pending_entries = Cardinality(pending)
        /\ pending_entries > 0 =>
             Truncate(cache, pending_start).tail = cache.tail \ pending

\* Once a part of an entry may follow the last whole one, nothing is appended
\* until a reopen has repaired the tail: replay would stop at the garbage.
NothingAfterTornTail == up /\ torn => Refuses

\* With no append waiting, the graph in memory holds exactly what an open of
\* the log would find (the comment of `end`): a checkpoint that takes both
\* under the graph lock takes one state.
MemoryIsLog ==
  up /\ holder = "none" /\ Waiters = {} /\ ~Refuses => memory = Replay(cache)

\* A rotation changes how the log is written down, never what it says: the
\* rotated log replays to what the old one did, waiting entries included.
RotationKeepsHistory ==
  [][up' /\ cache'.head # cache.head => Replay(cache') = Replay(cache)]_vars

\* A write whose caller was told it was removed stays removed: it is in no
\* log an open could find.
RemovedWritesStayGone ==
  \A i \in Entries : <<i, "removed">> \in failed =>
    \A log \in {cache, disk} \cup replaced : i \notin Replay(log)

\* A write the log refused leaves nothing on disk, unless its error said that
\* the log may be inconsistent.
RefusedWritesStayGone ==
  \A i \in Entries : \A error \in Errors \ {"inconsistent"} :
    <<i, error>> \in failed => i \notin Replay(cache)

\* Every append returns: a writer that waits is told, or dies with the process.
EveryAppendReturns == \A w \in Writers : waiting[w] # 0 ~> waiting[w] = 0

\* What the log promises its callers: it is a durable store of its entries.
Removed == {i \in Entries : <<i, "removed">> \in failed}

Store == INSTANCE DurableStore WITH
  Writes  <- 1 .. MaxEntries,
  refused <- Removed,
  doubt   <- Entries \ (acked \cup Removed)

ImplementsStore == Store!Spec
=============================================================================
